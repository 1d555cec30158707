--------------------------- MODULE CacheFilesProofs ---------------------------
(***************************************************************************)
(* Whatever the indexes, the processes, their crashes and the power        *)
(* failures: a package cache that CheckValidity accepts is the one a build *)
(* would make now, as long as one process at most may write the files.     *)
(*                                                                         *)
(* The argument follows a cache from its creation to its last flag: what   *)
(* is under the name is dirty, lacks the database, or is safe on the disk  *)
(* and has the provides of every file dependency of what it was made of.   *)
(*                                                                         *)
(* The second half follows a build, of the writer or of a process that     *)
(* builds in memory, while the indexes stay as they are: its map holds     *)
(* exactly what the tasks behind it were to bring.  So what it hands out   *)
(* is current, and a finished cache is accepted until an index changes.    *)
(***************************************************************************)
EXTENDS CacheFiles, FiniteSetTheorems, SequenceTheorems, TLAPS

\* Two processes that may write the cache directory truncate and clear each other's
\* files; nothing in pkgMakeStatusCache keeps them apart.
OneWriter == \A p, q \in Roots : p = q

-----------------------------------------------------------------------------
(* Types.  What is in a map that has no name is of no concern.              *)

Contents  == UNION {Kinds[ix] : ix \in Indexes}
Paths     == UNION {c.owns : c \in Contents}
Hashes    == Options \cup {0}
IndexRec  == [mtime : Nat, kind : Contents, back : BOOLEAN]
FileRec   == [ix : Indexes, mtime : Nat, kind : Contents, late : BOOLEAN]
StoreRec  == [dirty : BOOLEAN, kept : BOOLEAN, safe : BOOLEAN, torn : BOOLEAN,
              opts : Hashes, fdeps : BOOLEAN, files : Seq(FileRec),
              provs : SUBSET (Indexes \X Paths), made : {<<>>} \cup (Nat \X Hashes)]

\* The tasks of any process, and those of one that may write the files.
PlainTask == [do : {"open", "merge", "collect"}, ix : Indexes]
                \cup [do : {"sources", "status", "sync", "clean", "preload", "generator"}, ix : {0}]
FileTask  == [do : {"unlink", "create"}, ix : Names] \cup [do : {"data", "flag", "header"}, ix : {0}]
TaskRec   == PlainTask \cup FileTask
TaskList  == {q \in Seq(TaskRec) : \A i \in DOMAIN q : q[i].do = "open" => i + 1 \in DOMAIN q}
ProcRec   == [todo : TaskList, at : {"off", "check", "source", "build", "serve"},
              opts : Hashes, lock : BOOLEAN, map : 0..NStores, seen : 0..NStores,
              out : 0..NStores, dbtime : Nat, newdeps : BOOLEAN,
              open : {[mtime |-> 0]} \cup IndexRec, since : Nat, other : BOOLEAN]

CacheTypes ==
    /\ index \in [Indexes -> IndexRec] /\ changes \in Nat
    /\ DOMAIN store = 1..NStores
    /\ name \in [Names -> 0..NStores] /\ proc \in [Procs -> ProcRec]

-----------------------------------------------------------------------------
(* What a cache says of the indexes.  ind and ch are the indexes and the    *)
(* clock, nm and sto the files.                                             *)

\* An mtime is never given twice, except by UnLock.
Clock ==
    /\ \A ix \in Indexes : index[ix].mtime <= changes + 1 /\ (index[ix].back => ix = Database)
    /\ index[Database].mtime # 0
    /\ \A p \in Procs : /\ proc[p].dbtime <= changes + 1 /\ proc[p].open.mtime <= changes + 1
                        /\ proc[p].at # "off" => proc[p].dbtime # 0

\* What becomes of the indexes in a step.
Ages(ind, ch, ind2, ch2) ==
    /\ ch <= ch2
    /\ \A ix \in Indexes : \/ ind2[ix] = ind[ix]
                           \/ ind2[ix].mtime = 0 \/ ind2[ix].mtime > ch + 1
                           \/ ix = Database /\ ind2[ix].back

\* The index of file f is not what it was, or may not be.
Stale(ind, f)  == f.late \/ ind[f.ix].back \/ f.mtime # ind[f.ix].mtime
Fresh(ind, st) == \A k \in DOMAIN st.files : ~Stale(ind, st.files[k])

\* What is not stale is the same.
Dated(ind, ch, f) ==
    /\ f.mtime # 0 /\ f.mtime <= ch + 1
    /\ Stale(ind, f) \/ f.kind = ind[f.ix].kind
Dates(ind, ch, st) == \A k \in DOMAIN st.files : Dated(ind, ch, st.files[k])

\* The provides for the files of ix that some package in the cache depends on.
Has(st, ix) ==
    \A k \in DOMAIN st.files : st.files[k].ix = ix =>
        \A path \in st.files[k].kind.owns \cap Needed(st.files) : <<ix, path>> \in st.provs

Base(ind, ch, st) == Dates(ind, ch, st) /\ st.provs \subseteq ProvidesDue(st.files)
NoDb(st)  == \A k \in DOMAIN st.files : st.files[k].ix # Database
Needs(st) == Needed(st.files) # {}
Whole(ind, st) == Fresh(ind, st) => \A ix \in Indexes : Has(st, ix)

\* Finished, and on the disk.
Clean(ind, st) == ~st.dirty /\ ~st.kept /\ st.safe /\ ~st.torn /\ Whole(ind, st)

\* The two files, at any time.
Unfinished(st) == st.dirty /\ st.kept
PkgOK(ind, ch, st) ==
    /\ st \in StoreRec /\ Base(ind, ch, st)
    /\ Unfinished(st) \/ NoDb(st) \/ Clean(ind, st)
SrcOK(ind, ch, st) ==
    /\ st \in StoreRec /\ Base(ind, ch, st) /\ NoDb(st)
    /\ Unfinished(st) \/ (Clean(ind, st) /\ st.fdeps = Needs(st))

Named ==
    /\ name["pkg"] # 0 => PkgOK(index, changes, store[name["pkg"]])
    /\ name["src"] # 0 => SrcOK(index, changes, store[name["src"]])

\* Nobody else writes to the two files.
Stranger(nm, pr) ==
    /\ pr.map # 0 => pr.map # nm["pkg"] /\ pr.map # nm["src"]
    /\ pr.out # 0 => pr.out # nm["src"]
    /\ pr.todo \in Seq(PlainTask)
Apart ==
    /\ name["pkg"] # 0 => name["pkg"] # name["src"]
    /\ \A p \in Procs \ Roots : Stranger(name, proc[p])

-----------------------------------------------------------------------------
(* How far the writer is.                                                   *)

Listed == {Sources[i] : i \in DOMAIN Sources}

Stages == {"sources", "unlink", "create", "data", "flag", "header", "merge", "status",
           "sync", "clean", "preload", "generator"}

\* What is left to do from a stage on, after the tasks for single indexes.
Rest(g) ==
    CASE g = "sources"   -> <<Do("sources", 0)>> \o (WriteBack \o StatusTasks)
      [] g = "unlink"    -> WriteBack \o StatusTasks
      [] g = "create"    -> Tail(WriteBack) \o StatusTasks
      [] g = "data"      -> Tail(Tail(WriteBack)) \o StatusTasks
      [] g = "flag"      -> Tail(Tail(Tail(WriteBack))) \o StatusTasks
      [] g = "header"    -> <<Do("header", 0)>> \o StatusTasks
      [] g = "merge"     -> StatusTasks
      [] g = "status"    -> Tail(StatusTasks)
      [] g = "sync"      -> <<Do("sync", 0), Do("clean", 0)>>
      [] g = "clean"     -> <<Do("clean", 0)>>
      [] g = "preload"   -> ReuseTasks
      [] g = "generator" -> Tail(ReuseTasks)

Collects(pre) == \A i \in DOMAIN pre : pre[i].do = "collect" /\ pre[i].ix \in Indexes
Pending(ind, st, pre) ==
    Fresh(ind, st) => \A ix \in Indexes : Has(st, ix) \/ \E i \in DOMAIN pre : pre[i].ix = ix

\* Lists are opened and merged in turn; the one that is open was read as it is, or
\* is another file by now.
Paired(pre) ==
    \A i \in DOMAIN pre :
       /\ pre[i].do \in {"open", "merge"} /\ pre[i].ix \in Listed
       /\ pre[i].do = "open" => i + 1 \in DOMAIN pre /\ pre[i + 1] = Do("merge", pre[i].ix)
       /\ (pre[i].do = "merge" /\ i # 1) => pre[i - 1].do = "open"
Reads(ind, pr, pre) ==
    /\ Paired(pre)
    /\ (pre # <<>> /\ pre[1].do = "merge") =>
          /\ pr.open \in IndexRec /\ pr.open.mtime # 0
          /\ pr.open.mtime = ind[pre[1].ix].mtime => pr.open.kind = ind[pre[1].ix].kind

\* The sources are in, with their provides.
Ready(ind, pr, st) == NoDb(st) /\ ~pr.newdeps /\ st.fdeps = Needs(st) /\ Whole(ind, st)

\* They are copied to the other file.
Copied(ind, nm, sto, pr) ==
    /\ pr.out # 0 /\ pr.out = nm["src"]
    /\ LET src == sto[pr.out] IN
       src.dirty /\ src.kept /\ src.safe /\ ~src.torn /\ Whole(ind, src) /\ src.fdeps = Needs(src)

\* The database is in, its provides are not; nothing depends on a file, or only what
\* was there before.
Entered(ind, pr, st) ==
    /\ (~pr.newdeps /\ Fresh(ind, st)) => \A ix \in Indexes \ {Database} : Has(st, ix)
    /\ (~pr.newdeps /\ ~st.fdeps) => ~Needs(st)

Stage(ind, nm, sto, pr, st, pre, g) ==
    CASE g = "sources"   -> /\ Reads(ind, pr, pre) /\ NoDb(st) /\ st.provs = {}
                            /\ pr.newdeps = Needs(st)
      [] g = "unlink"    -> /\ Collects(pre) /\ NoDb(st) /\ ~pr.newdeps
                            /\ st.fdeps = Needs(st) /\ Pending(ind, st, pre)
      [] g = "create"    -> Ready(ind, pr, st) /\ nm["src"] = 0
      [] g = "data"      -> /\ Ready(ind, pr, st) /\ pr.out # 0 /\ pr.out = nm["src"]
                            /\ sto[pr.out] = Empty
      [] g = "flag"      -> Ready(ind, pr, st) /\ Copied(ind, nm, sto, pr)
      [] g = "header"    -> Ready(ind, pr, st) /\ Copied(ind, nm, sto, pr)
      [] g = "merge"     -> Ready(ind, pr, st)
      [] g = "status"    -> Entered(ind, pr, st)
      [] g = "sync"      -> Collects(pre) /\ Pending(ind, st, pre)
      [] g = "clean"     -> st.safe /\ Whole(ind, st)
      [] g = "preload"   -> nm["src"] # 0 /\ ~sto[nm["src"]].dirty /\ ~pr.newdeps
      [] g = "generator" -> Ready(ind, pr, st)

Phase(ind, nm, sto, pr, pre, g) ==
    LET st == sto[pr.map] IN
    /\ ~st.torn /\ st.kept
    /\ g \notin {"sources", "unlink", "sync"} => pre = <<>>
    /\ g \notin {"data", "flag", "header"} => pr.out = 0
    /\ g \notin {"header", "generator"} => st.dirty
    /\ Stage(ind, nm, sto, pr, st, pre, g)

Building(ind, nm, sto, pr, pre, g) ==
    /\ pre \in Seq(TaskRec) /\ g \in Stages
    /\ pr.map # 0 /\ pr.map = nm["pkg"]
    /\ pr.todo = pre \o Rest(g) /\ Phase(ind, nm, sto, pr, pre, g)

\* Before there is a file to build in.
Opening(nm, pr) ==
    /\ pr.map = 0 /\ pr.out = 0 /\ ~pr.newdeps
    /\ \/ pr.todo = <<Do("unlink", "pkg"), Do("create", "pkg")>>
       \/ pr.todo = <<Do("create", "pkg")>> /\ nm["pkg"] = 0

Working(ind, nm, sto, pr) ==
    /\ pr.at \in {"off", "check", "serve"} => pr.todo = <<>> /\ pr.map = 0
    /\ pr.at = "check" => pr.out = 0
    /\ pr.at \in {"off", "check"} => ~pr.newdeps
    /\ pr.at = "source" =>
          /\ pr.todo = <<>> /\ pr.out = 0 /\ ~pr.newdeps
          /\ pr.map # 0 /\ pr.map = nm["pkg"] /\ sto[pr.map] = Empty
    /\ pr.at = "build" =>
          \/ Opening(nm, pr)
          \/ \E pre \in Seq(TaskRec), g \in Stages : Building(ind, nm, sto, pr, pre, g)

Writers == \A p \in Roots : Working(index, name, store, proc[p])

\* The inductive invariant.
FInv == CacheTypes /\ Clock /\ Named /\ Apart /\ Writers

-----------------------------------------------------------------------------
(* What CheckValidity accepts.                                              *)

\* Every index is in the cache as it is now.
LEMMA MatchesFresh ==
    ASSUME NEW st \in StoreRec, NEW opts, Matches(st, opts, Indexes),
           index \in [Indexes -> IndexRec],
           \A ix \in Indexes : index[ix].back => ix = Database, ~Misdated(st)
    PROVE  /\ Fresh(index, st)
           /\ \A ix \in Indexes : Exists(ix) => \E k \in DOMAIN st.files : st.files[k].ix = ix
           /\ \A k \in DOMAIN st.files : Exists(st.files[k].ix)
<1>0. \A k \in DOMAIN st.files : st.files[k] \in FileRec
  BY DEF StoreRec
<1>1. ASSUME NEW ix \in Indexes, NEW k \in Found(st, ix)
      PROVE  k \in DOMAIN st.files /\ st.files[k].ix = ix /\ st.files[k].mtime = index[ix].mtime
  BY <1>1 DEF Found, Positions
<1>2. \A ix \in Indexes : ~index[ix].back
  BY DEF Misdated
<1>3. ASSUME NEW k \in DOMAIN st.files
      PROVE  ~Stale(index, st.files[k]) /\ Exists(st.files[k].ix)
  <2>1. PICK ix \in Indexes : Exists(ix) /\ k \in Found(st, ix)
    BY <1>3 DEF Matches
  <2>2. st.files[k].ix = ix /\ st.files[k].mtime = index[ix].mtime
    BY <1>1, <2>1
  <2>3. ~st.files[k].late
    BY <1>3 DEF Misdated
  <2> QED BY <1>2, <2>1, <2>2, <2>3 DEF Stale
<1>4. ASSUME NEW ix \in Indexes, Exists(ix)
      PROVE  \E k \in DOMAIN st.files : st.files[k].ix = ix
  <2>1. PICK k \in Found(st, ix) : TRUE
    BY <1>4 DEF Matches
  <2> QED BY <1>1, <2>1
<1> QED BY <1>3, <1>4 DEF Fresh

\* A cache that passes the check holds the indexes as they are, and their provides.
LEMMA MatchesCurrent ==
    ASSUME NEW st, PkgOK(index, changes, st), NEW opts, Matches(st, opts, Indexes),
           CacheTypes, Clock, ~Misdated(st)
    PROVE  IsCurrent(st)
<1>1. st \in StoreRec /\ Base(index, changes, st) /\ index \in [Indexes -> IndexRec]
  BY DEF PkgOK, CacheTypes
<1>2. /\ Fresh(index, st)
      /\ \A ix \in Indexes : Exists(ix) => \E k \in DOMAIN st.files : st.files[k].ix = ix
      /\ \A k \in DOMAIN st.files : Exists(st.files[k].ix)
  BY <1>1, MatchesFresh DEF Clock
<1>3. Database \in Indexes /\ Exists(Database)
  BY DEF Clock, Exists, Indexes
<1>4. ~NoDb(st)
  BY <1>2, <1>3 DEF NoDb
<1>5. Clean(index, st)
  BY <1>4 DEF PkgOK, Unfinished, Matches
<1>6. \A ix \in Indexes : Has(st, ix)
  BY <1>2, <1>5 DEF Clean, Whole
<1>7. \A k \in DOMAIN st.files : st.files[k] \in FileRec /\ st.files[k].ix \in Indexes
  <2>1. \A k \in DOMAIN st.files : st.files[k] \in FileRec
    BY <1>1 DEF StoreRec
  <2> QED BY <2>1 DEF FileRec
<1>8. \A k \in DOMAIN st.files : st.files[k].kind = index[st.files[k].ix].kind
  BY <1>1, <1>2 DEF Fresh, Base, Dates, Dated
<1>9. Holds(st) = Current
  <2>1. Holds(st) \subseteq Current
    BY <1>2, <1>7, <1>8 DEF Holds, Current
  <2>2. ASSUME NEW ix \in Indexes, Exists(ix)
        PROVE  [ix |-> ix, kind |-> index[ix].kind] \in Holds(st)
    <3>1. PICK k \in DOMAIN st.files : st.files[k].ix = ix
      BY <1>2, <2>2
    <3> QED BY <1>8, <3>1 DEF Holds
  <2>3. Current \subseteq Holds(st)
    BY <2>2 DEF Current
  <2> QED BY <2>1, <2>3
<1>10. ProvidesDue(st.files) \subseteq st.provs
  <2> SUFFICES ASSUME NEW d \in ProvidesDue(st.files) PROVE d \in st.provs
    OBVIOUS
  <2>1. PICK k \in DOMAIN st.files, path \in Needed(st.files) : d = <<st.files[k].ix, path>>
    BY DEF ProvidesDue
  <2>2. PICK j \in DOMAIN st.files : d \in {<<st.files[j].ix, q>> : q \in st.files[j].kind.owns}
    BY DEF ProvidesDue
  <2>3. st.files[j].ix \in Indexes /\ d = <<st.files[j].ix, path>> /\ path \in st.files[j].kind.owns
    BY <1>7, <2>1, <2>2
  <2> QED BY <1>6, <2>1, <2>3 DEF Has
<1> QED BY <1>1, <1>5, <1>9, <1>10 DEF IsCurrent, Base, Clean

\* A step from the invariant in which CheckValidity accepts the package cache.
LEMMA AcceptsCurrent ==
    ASSUME FInv, Next, NEW p \in Procs, Accepts(p)
    PROVE  Misdated(store[name["pkg"]]) \/ IsCurrent(store[name["pkg"]])
<1>1. proc \in [Procs -> ProcRec]
  BY DEF FInv, CacheTypes
<1>2. CheckPkg(p)
  <2>1. ~PowerFailure /\ ~(\E ix \in Indexes : Change(ix))
    <3>0. PowerFailure => proc' = [q \in Procs |-> Idle]
      BY DEF PowerFailure
    <3>1. PowerFailure => proc'[p].at = "off"
      BY <3>0 DEF Idle
    <3>2. (\E ix \in Indexes : Change(ix)) => proc' = proc
      BY DEF Change
    <3> QED BY <3>1, <3>2 DEF Accepts
  <2>2. ASSUME NEW q \in Procs, Step(q) \/ Stop(q) PROVE q = p
    <3>1. \E r : proc' = [proc EXCEPT ![q] = r]
      BY <2>2 DEF Step, Stop, Start, CheckPkg, CheckSource, Unlink, Create, Preload, Generator, OpenIndex,
           Merge, SourcesMerged, StatusMerged, Collect, WriteData, ClearFlag, WriteHeader, SyncMap,
           MarkClean, Refused, Close
    <3> QED BY <1>1, <3>1 DEF Accepts
  <2>3. Step(p) \/ Stop(p)
    BY <2>1, <2>2 DEF Next
  <2> QED BY <1>1, <2>3 DEF Accepts, Step, Stop, Start, CheckPkg, CheckSource, Unlink, Create, Preload,
          Generator, OpenIndex, Merge, SourcesMerged, StatusMerged, Collect, WriteData, ClearFlag,
          WriteHeader, SyncMap, MarkClean, Refused, Close, Task, Idle
<1>3. CheckValidity("pkg", proc[p].opts, Indexes)
  BY <1>1, <1>2 DEF CheckPkg, Accepts, ProcRec
<1>4. PkgOK(index, changes, store[name["pkg"]])
  BY <1>3 DEF FInv, Named, CheckValidity
<1> QED BY <1>3, <1>4, MatchesCurrent DEF FInv, CheckValidity

-----------------------------------------------------------------------------
(* The lists of tasks.                                                      *)

LEMMA Leading ==
    ASSUME NEW S, NEW a \in Seq(S), NEW b \in Seq(S)
    PROVE  /\ a = <<>> => a \o b = b
           /\ a # <<>> => /\ a \o b # <<>> /\ Head(a \o b) = a[1] /\ Tail(a \o b) = Tail(a) \o b
                          /\ a[1] \in S /\ Tail(a) \in Seq(S)
                          /\ Len(Tail(a)) = Len(a) - 1 /\ \A i \in DOMAIN Tail(a) : Tail(a)[i] = a[i + 1]
<1>1. a = <<>> => a \o b = b
  OBVIOUS
<1>2. ASSUME a # <<>>
      PROVE  /\ a \o b # <<>> /\ Head(a \o b) = a[1] /\ Tail(a \o b) = Tail(a) \o b
             /\ a[1] \in S /\ Tail(a) \in Seq(S)
             /\ Len(Tail(a)) = Len(a) - 1 /\ \A i \in DOMAIN Tail(a) : Tail(a)[i] = a[i + 1]
  <2>1. a[1] \in S /\ Tail(a) \in Seq(S) /\ Len(Tail(a)) = Len(a) - 1 /\ Len(a) \in Nat \ {0}
    BY <1>2
  <2>2. \A i \in DOMAIN Tail(a) : Tail(a)[i] = a[i + 1]
    BY <1>2
  <2>3. a \o b \in Seq(S) /\ Len(a \o b) = Len(a) + Len(b) /\ Len(b) \in Nat
    OBVIOUS
  <2>4. a \o b # <<>>
    BY <2>1, <2>3
  <2>5. Head(a \o b) = a[1]
    BY <2>1, <2>3
  <2>6. Tail(a \o b) = Tail(a) \o b
    <3>1. Tail(a \o b) \in Seq(S) /\ Tail(a) \o b \in Seq(S)
      BY <2>1, <2>3, <2>4
    <3>2. Len(Tail(a \o b)) = Len(Tail(a) \o b)
      BY <2>1, <2>3, <2>4
    <3>3. ASSUME NEW i \in 1..Len(Tail(a \o b)) PROVE Tail(a \o b)[i] = (Tail(a) \o b)[i]
      <4>1. Tail(a \o b)[i] = (a \o b)[i + 1]
        BY <2>3, <2>4
      <4>2. CASE i + 1 <= Len(a)
        BY <2>1, <2>2, <2>3, <3>2, <4>1, <4>2
      <4>3. CASE i + 1 > Len(a)
        BY <2>1, <2>2, <2>3, <3>2, <4>1, <4>3
      <4> QED BY <2>1, <4>2, <4>3
    <3> QED BY <3>1, <3>2, <3>3, SeqEqual
  <2> QED BY <2>1, <2>2, <2>4, <2>5, <2>6
<1> QED BY <1>1, <1>2

\* The tasks of the stages, one after the other.
LEMMA Chain ==
    /\ \A g \in Stages : Rest(g) \in Seq(TaskRec) /\ Rest(g) # <<>>
    /\ Head(Rest("sources")) = Do("sources", 0) /\ Tail(Rest("sources")) = Rest("unlink")
    /\ Head(Rest("unlink")) = Do("unlink", "src") /\ Tail(Rest("unlink")) = Rest("create")
    /\ Head(Rest("create")) = Do("create", "src") /\ Tail(Rest("create")) = Rest("data")
    /\ Head(Rest("data")) = Do("data", 0) /\ Tail(Rest("data")) = Rest("flag")
    /\ Head(Rest("flag")) = Do("flag", 0) /\ Tail(Rest("flag")) = Rest("header")
    /\ Head(Rest("header")) = Do("header", 0) /\ Tail(Rest("header")) = Rest("merge")
    /\ Head(Rest("merge")) = Do("merge", Database) /\ Tail(Rest("merge")) = Rest("status")
    /\ Head(Rest("status")) = Do("status", 0) /\ Tail(Rest("status")) = Rest("sync")
    /\ Head(Rest("sync")) = Do("sync", 0) /\ Tail(Rest("sync")) = Rest("clean")
    /\ Head(Rest("clean")) = Do("clean", 0)
    /\ Head(Rest("preload")) = Do("preload", 0) /\ Tail(Rest("preload")) = Rest("generator")
    /\ Head(Rest("generator")) = Do("generator", 0) /\ Tail(Rest("generator")) = Rest("merge")
<1>1. /\ StatusTasks \in Seq(TaskRec) /\ StatusTasks # <<>>
      /\ Head(StatusTasks) = Do("merge", Database)
      /\ Tail(StatusTasks) \in Seq(TaskRec) /\ Tail(StatusTasks) # <<>>
      /\ Head(Tail(StatusTasks)) = Do("status", 0) /\ Tail(Tail(StatusTasks)) = Rest("sync")
      /\ Rest("sync") \in Seq(TaskRec) /\ Rest("sync") # <<>>
      /\ Head(Rest("sync")) = Do("sync", 0) /\ Tail(Rest("sync")) = Rest("clean")
      /\ Rest("clean") \in Seq(TaskRec) /\ Rest("clean") # <<>> /\ Head(Rest("clean")) = Do("clean", 0)
  <2>1. {Do("merge", Database), Do("status", 0), Do("sync", 0), Do("clean", 0)} \subseteq TaskRec
    BY DEF Do, TaskRec, PlainTask, Indexes
  <2>2. StatusTasks = <<Do("merge", Database), Do("status", 0), Do("sync", 0), Do("clean", 0)>>
    BY DEF StatusTasks
  <2>3. Rest("sync") = <<Do("sync", 0), Do("clean", 0)>> /\ Rest("clean") = <<Do("clean", 0)>>
    BY DEF Rest
  <2> DEFINE a == Do("merge", Database)
             b == Do("status", 0)
             c == Do("sync", 0)
             d == Do("clean", 0)
  <2>4. a \in TaskRec /\ b \in TaskRec /\ c \in TaskRec /\ d \in TaskRec
    BY <2>1
  <2> HIDE DEF a, b, c, d
  <2>5. /\ <<a, b, c, d>> \in Seq(TaskRec) /\ <<a, b, c, d>> # <<>> /\ Head(<<a, b, c, d>>) = a
        /\ Tail(<<a, b, c, d>>) = <<b, c, d>>
    BY <2>4
  <2>6. /\ <<b, c, d>> \in Seq(TaskRec) /\ <<b, c, d>> # <<>> /\ Head(<<b, c, d>>) = b
        /\ Tail(<<b, c, d>>) = <<c, d>>
    BY <2>4
  <2>7. /\ <<c, d>> \in Seq(TaskRec) /\ <<c, d>> # <<>> /\ Head(<<c, d>>) = c /\ Tail(<<c, d>>) = <<d>>
        /\ <<d>> \in Seq(TaskRec) /\ <<d>> # <<>> /\ Head(<<d>>) = d
    BY <2>4
  <2>8. StatusTasks = <<a, b, c, d>> /\ Rest("sync") = <<c, d>> /\ Rest("clean") = <<d>>
    BY <2>2, <2>3 DEF a, b, c, d
  <2> QED BY <2>5, <2>6, <2>7, <2>8 DEF a, b, c, d
<1>2. /\ WriteBack \in Seq(TaskRec) /\ WriteBack # <<>> /\ WriteBack[1] = Do("unlink", "src")
      /\ Tail(WriteBack) \in Seq(TaskRec) /\ Tail(WriteBack) # <<>>
      /\ Tail(WriteBack)[1] = Do("create", "src")
      /\ Tail(Tail(WriteBack)) \in Seq(TaskRec) /\ Tail(Tail(WriteBack)) # <<>>
      /\ Tail(Tail(WriteBack))[1] = Do("data", 0)
      /\ Tail(Tail(Tail(WriteBack))) \in Seq(TaskRec) /\ Tail(Tail(Tail(WriteBack))) # <<>>
      /\ Tail(Tail(Tail(WriteBack)))[1] = Do("flag", 0)
      /\ Tail(Tail(Tail(Tail(WriteBack)))) = <<Do("header", 0)>>
  <2>1. {Do("unlink", "src"), Do("create", "src"), Do("data", 0), Do("flag", 0), Do("header", 0)} \subseteq TaskRec
    BY DEF Do, TaskRec, FileTask, Names
  <2>2. WriteBack = <<Do("unlink", "src"), Do("create", "src"), Do("data", 0), Do("flag", 0), Do("header", 0)>>
    BY DEF WriteBack
  <2> QED BY <2>1, <2>2
<1>3. {Do("sources", 0), Do("header", 0), Do("preload", 0), Do("generator", 0)} \subseteq TaskRec
  BY DEF Do, TaskRec, PlainTask, FileTask
<1>4. /\ Rest("unlink") \in Seq(TaskRec) /\ Rest("unlink") # <<>> /\ Head(Rest("unlink")) = Do("unlink", "src")
      /\ Tail(Rest("unlink")) = Rest("create")
  <2> DEFINE a == WriteBack
             b == StatusTasks
  <2>1. Rest("unlink") = a \o b /\ Rest("create") = Tail(a) \o b
    BY <1>2 DEF Rest
  <2>2. a \in Seq(TaskRec) /\ a # <<>> /\ b \in Seq(TaskRec) /\ a[1] = Do("unlink", "src")
    BY <1>1, <1>2
  <2> HIDE DEF a, b
  <2>3. Head(a \o b) = a[1] /\ Tail(a \o b) = Tail(a) \o b /\ a \o b # <<>> /\ a \o b \in Seq(TaskRec)
    BY <2>2, Leading
  <2> QED BY <2>1, <2>2, <2>3
<1>5. /\ Rest("create") \in Seq(TaskRec) /\ Rest("create") # <<>> /\ Head(Rest("create")) = Do("create", "src")
      /\ Tail(Rest("create")) = Rest("data")
  <2> DEFINE a == Tail(WriteBack)
             b == StatusTasks
  <2>1. Rest("create") = a \o b /\ Rest("data") = Tail(a) \o b
    BY <1>2 DEF Rest
  <2>2. a \in Seq(TaskRec) /\ a # <<>> /\ b \in Seq(TaskRec) /\ a[1] = Do("create", "src")
    BY <1>1, <1>2
  <2> HIDE DEF a, b
  <2>3. Head(a \o b) = a[1] /\ Tail(a \o b) = Tail(a) \o b /\ a \o b # <<>> /\ a \o b \in Seq(TaskRec)
    BY <2>2, Leading
  <2> QED BY <2>1, <2>2, <2>3
<1>6. /\ Rest("data") \in Seq(TaskRec) /\ Rest("data") # <<>> /\ Head(Rest("data")) = Do("data", 0)
      /\ Tail(Rest("data")) = Rest("flag")
  <2> DEFINE a == Tail(Tail(WriteBack))
             b == StatusTasks
  <2>1. Rest("data") = a \o b /\ Rest("flag") = Tail(a) \o b
    BY <1>2 DEF Rest
  <2>2. a \in Seq(TaskRec) /\ a # <<>> /\ b \in Seq(TaskRec) /\ a[1] = Do("data", 0)
    BY <1>1, <1>2
  <2> HIDE DEF a, b
  <2>3. Head(a \o b) = a[1] /\ Tail(a \o b) = Tail(a) \o b /\ a \o b # <<>> /\ a \o b \in Seq(TaskRec)
    BY <2>2, Leading
  <2> QED BY <2>1, <2>2, <2>3
<1>7. /\ Rest("flag") \in Seq(TaskRec) /\ Rest("flag") # <<>> /\ Head(Rest("flag")) = Do("flag", 0)
      /\ Tail(Rest("flag")) = Rest("header")
  <2> DEFINE a == Tail(Tail(Tail(WriteBack)))
             b == StatusTasks
  <2>1. Rest("flag") = a \o b /\ Rest("header") = Tail(a) \o b
    BY <1>2 DEF Rest
  <2>2. a \in Seq(TaskRec) /\ a # <<>> /\ b \in Seq(TaskRec) /\ a[1] = Do("flag", 0)
    BY <1>1, <1>2
  <2> HIDE DEF a, b
  <2>3. Head(a \o b) = a[1] /\ Tail(a \o b) = Tail(a) \o b /\ a \o b # <<>> /\ a \o b \in Seq(TaskRec)
    BY <2>2, Leading
  <2> QED BY <2>1, <2>2, <2>3
<1>8. ASSUME NEW t \in TaskRec, NEW b \in Seq(TaskRec)
      PROVE  <<t>> \o b \in Seq(TaskRec) /\ <<t>> \o b # <<>> /\ Head(<<t>> \o b) = t /\ Tail(<<t>> \o b) = b
  <2>1. <<t>> \in Seq(TaskRec) /\ <<t>> # <<>> /\ <<t>>[1] = t /\ Tail(<<t>>) = <<>>
    OBVIOUS
  <2>2. <<>> \in Seq(TaskRec) /\ <<>> \o b = b
    OBVIOUS
  <2> QED BY <2>1, <2>2, Leading
<1>9. /\ Rest("header") \in Seq(TaskRec) /\ Rest("header") # <<>> /\ Head(Rest("header")) = Do("header", 0)
      /\ Tail(Rest("header")) = Rest("merge")
  BY <1>1, <1>3, <1>8 DEF Rest
<1>10. /\ Rest("sources") \in Seq(TaskRec) /\ Rest("sources") # <<>>
       /\ Head(Rest("sources")) = Do("sources", 0) /\ Tail(Rest("sources")) = Rest("unlink")
  <2>1. Rest("sources") = <<Do("sources", 0)>> \o Rest("unlink")
    BY DEF Rest
  <2> QED BY <1>3, <1>4, <1>8, <2>1
<1>11. /\ Rest("preload") \in Seq(TaskRec) /\ Rest("preload") # <<>> /\ Head(Rest("preload")) = Do("preload", 0)
       /\ Tail(Rest("preload")) = Rest("generator")
       /\ Rest("generator") \in Seq(TaskRec) /\ Rest("generator") # <<>>
       /\ Head(Rest("generator")) = Do("generator", 0) /\ Tail(Rest("generator")) = StatusTasks
  <2> DEFINE a == Do("preload", 0)
             b == Do("generator", 0)
  <2>1. a \in TaskRec /\ b \in TaskRec
    BY <1>3
  <2>2. Rest("preload") = <<a, b>> \o StatusTasks /\ Rest("generator") = Tail(<<a, b>> \o StatusTasks)
    BY DEF Rest, ReuseTasks
  <2> HIDE DEF a, b
  <2>3. /\ <<a, b>> \in Seq(TaskRec) /\ <<a, b>> # <<>> /\ <<a, b>>[1] = a /\ Tail(<<a, b>>) = <<b>>
    BY <2>1
  <2>4. /\ <<a, b>> \o StatusTasks \in Seq(TaskRec) /\ <<a, b>> \o StatusTasks # <<>>
        /\ Head(<<a, b>> \o StatusTasks) = a /\ Tail(<<a, b>> \o StatusTasks) = <<b>> \o StatusTasks
    BY <1>1, <2>3, Leading, SMTT(30)
  <2>5. Rest("generator") = <<b>> \o StatusTasks
    BY <2>2, <2>4
  <2>6. /\ <<b>> \o StatusTasks \in Seq(TaskRec) /\ <<b>> \o StatusTasks # <<>>
        /\ Head(<<b>> \o StatusTasks) = b /\ Tail(<<b>> \o StatusTasks) = StatusTasks
    BY <1>1, <1>8, <2>1
  <2> QED BY <2>2, <2>4, <2>5, <2>6 DEF a, b
<1>12. Rest("merge") = StatusTasks /\ Rest("status") = Tail(StatusTasks)
  BY DEF Rest
<1>13. \A g \in Stages : Rest(g) \in Seq(TaskRec) /\ Rest(g) # <<>>
  BY <1>1, <1>4, <1>5, <1>6, <1>7, <1>9, <1>10, <1>11, <1>12 DEF Stages
<1> QED BY <1>1, <1>4, <1>5, <1>6, <1>7, <1>9, <1>10, <1>11, <1>12, <1>13

-----------------------------------------------------------------------------
(* Time goes on: what is not stale after a step was not before it.          *)

LEMMA AgesFile ==
    ASSUME NEW ind \in [Indexes -> IndexRec], NEW ind2 \in [Indexes -> IndexRec],
           NEW ch \in Nat, NEW ch2 \in Nat, Ages(ind, ch, ind2, ch2),
           NEW f \in FileRec, Dated(ind, ch, f)
    PROVE  Dated(ind2, ch2, f) /\ (~Stale(ind2, f) => ~Stale(ind, f))
<1>1. f.ix \in Indexes /\ f.mtime \in Nat /\ ind[f.ix].mtime \in Nat /\ ind2[f.ix].mtime \in Nat
  BY DEF FileRec, IndexRec
<1>2. ch <= ch2 /\ f.mtime # 0 /\ f.mtime <= ch + 1
  BY DEF Ages, Dated
<1>3. CASE ind2[f.ix] = ind[f.ix]
  BY <1>1, <1>2, <1>3 DEF Dated, Stale
<1>4. CASE ind2[f.ix].mtime = 0 \/ ind2[f.ix].mtime > ch + 1 \/ ind2[f.ix].back
  <2>1. f.mtime # ind2[f.ix].mtime \/ ind2[f.ix].back
    BY <1>1, <1>2, <1>4
  <2>2. Stale(ind2, f)
    BY <2>1 DEF Stale
  <2> QED BY <1>1, <1>2, <2>2 DEF Dated
<1> QED BY <1>1, <1>3, <1>4 DEF Ages

LEMMA AgesStore ==
    ASSUME NEW ind \in [Indexes -> IndexRec], NEW ind2 \in [Indexes -> IndexRec],
           NEW ch \in Nat, NEW ch2 \in Nat, Ages(ind, ch, ind2, ch2),
           NEW st \in StoreRec, Dates(ind, ch, st)
    PROVE  /\ Dates(ind2, ch2, st)
           /\ Fresh(ind2, st) => Fresh(ind, st)
           /\ Whole(ind, st) => Whole(ind2, st)
<1>1. \A k \in DOMAIN st.files : st.files[k] \in FileRec
  BY DEF StoreRec
<1>2. \A k \in DOMAIN st.files :
          Dated(ind2, ch2, st.files[k]) /\ (~Stale(ind2, st.files[k]) => ~Stale(ind, st.files[k]))
  BY <1>1, AgesFile DEF Dates
<1> QED BY <1>2 DEF Dates, Fresh, Whole

LEMMA AgesOK ==
    ASSUME NEW ind \in [Indexes -> IndexRec], NEW ind2 \in [Indexes -> IndexRec],
           NEW ch \in Nat, NEW ch2 \in Nat, Ages(ind, ch, ind2, ch2), NEW st
    PROVE  /\ PkgOK(ind, ch, st) => PkgOK(ind2, ch2, st)
           /\ SrcOK(ind, ch, st) => SrcOK(ind2, ch2, st)
<1> SUFFICES ASSUME st \in StoreRec, Dates(ind, ch, st)
             PROVE  /\ PkgOK(ind, ch, st) => PkgOK(ind2, ch2, st)
                    /\ SrcOK(ind, ch, st) => SrcOK(ind2, ch2, st)
  BY DEF PkgOK, SrcOK, Base
<1>1. Dates(ind2, ch2, st) /\ (Whole(ind, st) => Whole(ind2, st))
  BY AgesStore
<1> QED BY <1>1 DEF PkgOK, SrcOK, Base, Clean

\* The files of the writer, whatever happens to the others.
LEMMA AgesWorking ==
    ASSUME NEW ind \in [Indexes -> IndexRec], NEW ind2 \in [Indexes -> IndexRec],
           NEW ch \in Nat, NEW ch2 \in Nat, Ages(ind, ch, ind2, ch2),
           \A ix \in Indexes : ind2[ix].back => ix = Database,
           NEW nm, NEW sto, NEW sto2, NEW pr \in ProcRec, pr.open.mtime <= ch + 1,
           nm["pkg"] # 0 => PkgOK(ind, ch, sto[nm["pkg"]]) /\ sto2[nm["pkg"]] = sto[nm["pkg"]],
           nm["src"] # 0 => SrcOK(ind, ch, sto[nm["src"]]) /\ sto2[nm["src"]] = sto[nm["src"]],
           Working(ind, nm, sto, pr)
    PROVE  Working(ind2, nm, sto2, pr)
<1>1. ASSUME NEW pre, NEW g \in Stages, Building(ind, nm, sto, pr, pre, g)
      PROVE  Building(ind2, nm, sto2, pr, pre, g)
  <2> DEFINE st == sto[pr.map]
  <2>1. pr.map # 0 /\ pr.map = nm["pkg"] /\ PkgOK(ind, ch, st) /\ sto2[pr.map] = st
    BY <1>1 DEF Building
  <2>2. st \in StoreRec /\ Dates(ind, ch, st)
    BY <2>1 DEF PkgOK, Base
  <2> HIDE DEF st
  <2>3. (Fresh(ind2, st) => Fresh(ind, st)) /\ (Whole(ind, st) => Whole(ind2, st))
    BY <2>2, AgesStore
  <2>4. Copied(ind, nm, sto, pr) => Copied(ind2, nm, sto2, pr)
    <3> SUFFICES ASSUME Copied(ind, nm, sto, pr) PROVE Copied(ind2, nm, sto2, pr)
      OBVIOUS
    <3> DEFINE src == sto[pr.out]
    <3>1. pr.out # 0 /\ pr.out = nm["src"] /\ SrcOK(ind, ch, src) /\ sto2[pr.out] = src /\ Whole(ind, src)
      BY DEF Copied
    <3>2. src \in StoreRec /\ Dates(ind, ch, src)
      BY <3>1 DEF SrcOK, Base
    <3>3. Whole(ind2, src)
      <4> HIDE DEF src
      <4> QED BY <3>1, <3>2, AgesStore
    <3> QED BY <3>1, <3>3 DEF Copied
  <2>5. ASSUME Reads(ind, pr, pre) PROVE Reads(ind2, pr, pre)
    <3> SUFFICES ASSUME Paired(pre), pre # <<>>, pre[1].do = "merge", pr.open \in IndexRec, pr.open.mtime # 0,
                        pr.open.mtime = ind2[pre[1].ix].mtime
                 PROVE  pr.open.kind = ind2[pre[1].ix].kind
      BY <2>5 DEF Reads
    <3>1. 1 \in DOMAIN pre
      <4>1. pre \in Seq(TaskRec)
        BY <1>1 DEF Building
      <4> QED BY <4>1
    <3>2. pre[1].ix \in Listed
      BY <3>1 DEF Paired
    <3>3. pre[1].ix \in Indexes /\ pre[1].ix # Database
      BY <3>2, IndexAssumption DEF Listed, Indexes
    <3> DEFINE ix == pre[1].ix
    <3>4. ind[ix].mtime \in Nat /\ ind2[ix].mtime \in Nat /\ pr.open.mtime \in Nat
      BY <3>3 DEF IndexRec
    <3> HIDE DEF ix
    <3>5. ind2[ix] = ind[ix]
      BY <3>3, <3>4 DEF Ages, ix
    <3> QED BY <2>5, <3>5 DEF Reads, ix
  <2>6. Pending(ind, st, pre) => Pending(ind2, st, pre)
    BY <2>3 DEF Pending
  <2>7. Ready(ind, pr, st) => Ready(ind2, pr, st)
    BY <2>3 DEF Ready
  <2>8. Entered(ind, pr, st) => Entered(ind2, pr, st)
    BY <2>3 DEF Entered
  <2>9. Stage(ind, nm, sto, pr, st, pre, g)
    BY <1>1 DEF Building, Phase, st
  <2>10. Stage(ind2, nm, sto2, pr, st, pre, g)
    <3>1. g \in {"sources", "unlink", "create", "data"} => Stage(ind2, nm, sto2, pr, st, pre, g)
      BY <2>5, <2>6, <2>7, <2>9 DEF Stage
    <3>2. g \in {"flag", "header", "merge", "status"} => Stage(ind2, nm, sto2, pr, st, pre, g)
      BY <2>4, <2>7, <2>8, <2>9 DEF Stage
    <3>3. g \in {"sync", "clean", "preload", "generator"} => Stage(ind2, nm, sto2, pr, st, pre, g)
      BY <2>3, <2>6, <2>7, <2>9 DEF Stage
    <3> QED BY <3>1, <3>2, <3>3 DEF Stages
  <2> QED BY <1>1, <2>1, <2>10 DEF Building, Phase, st
<1>2. pr.at = "source" => sto2[pr.map] = Empty
  BY DEF Working
<1> QED BY <1>1, <1>2 DEF Working

-----------------------------------------------------------------------------
(* The tasks a build starts with, and those a stage adds.                   *)

LEMMA ListedIndexes ==
    /\ Listed \subseteq Indexes \ {Database} /\ Indexes = Listed \cup {Database}
    /\ Sources \in Seq(Indexes) /\ Sources \in Seq(Listed)
<1>1. Listed \subseteq Indexes \ {Database} /\ Indexes = Listed \cup {Database}
  BY IndexAssumption DEF Listed, Indexes
<1>2. Sources \in Seq(Listed)
  BY ListAssumption DEF Listed
<1> QED BY <1>1, <1>2, SeqMonotonic

\* Each list is opened and then merged.
LEMMA MergesPaired ==
    /\ MergeSources \in Seq(PlainTask) /\ Paired(MergeSources)
    /\ MergeSources # <<>> => MergeSources[1].do = "open"
<1> DEFINE n == Len(Sources)
           At(i) == (i + 1) \div 2
           t(i) == Do(IF i % 2 = 1 THEN "open" ELSE "merge", Sources[At(i)])
<1>1. n \in Nat /\ \A j \in 1..n : Sources[j] \in Listed /\ Sources[j] \in Indexes
  BY ListedIndexes
<1>2. MergeSources = [i \in 1..2 * n |-> t(i)]
  BY DEF MergeSources
<1> HIDE DEF n
<1>3. \A i \in 1..2 * n : At(i) \in 1..n
  BY <1>1
<1>4. \A i \in 1..2 * n : i % 2 = 1 => i + 1 \in 1..2 * n /\ (i + 1) % 2 # 1 /\ At(i + 1) = At(i)
  BY <1>1
<1>5. \A i \in 1..2 * n : i % 2 # 1 /\ i # 1 => i - 1 \in 1..2 * n /\ (i - 1) % 2 = 1
  BY <1>1
<1>6. n = 0 \/ 1 \in 1..2 * n
  BY <1>1
<1> HIDE DEF At
<1>7. \A i \in 1..2 * n : t(i) \in PlainTask
  BY <1>1, <1>3 DEF PlainTask, Do
<1>8. MergeSources \in Seq(PlainTask) /\ DOMAIN MergeSources = 1..2 * n /\ 2 * n \in Nat
  BY <1>1, <1>2, <1>7
<1>9. ASSUME NEW i \in DOMAIN MergeSources
      PROVE  /\ MergeSources[i].do \in {"open", "merge"} /\ MergeSources[i].ix \in Listed
             /\ MergeSources[i].do = "open" =>
                   i + 1 \in DOMAIN MergeSources /\ MergeSources[i + 1] = Do("merge", MergeSources[i].ix)
             /\ (MergeSources[i].do = "merge" /\ i # 1) => MergeSources[i - 1].do = "open"
  <2>1. MergeSources[i] = t(i) /\ i \in 1..2 * n
    BY <1>2, <1>8
  <2>2. /\ t(i).do = (IF i % 2 = 1 THEN "open" ELSE "merge") /\ t(i).ix = Sources[At(i)]
    BY DEF Do
  <2>3. CASE i % 2 = 1
    <3>1. i + 1 \in 1..2 * n /\ (i + 1) % 2 # 1 /\ At(i + 1) = At(i)
      BY <1>4, <2>1, <2>3
    <3>2. MergeSources[i + 1] = Do("merge", Sources[At(i)])
      BY <1>2, <3>1
    <3> QED BY <1>1, <1>3, <1>8, <2>1, <2>2, <2>3, <3>1, <3>2
  <2>4. CASE i % 2 # 1
    <3>1. i # 1 => i - 1 \in 1..2 * n /\ (i - 1) % 2 = 1
      BY <1>5, <2>1, <2>4
    <3>2. i # 1 => MergeSources[i - 1].do = "open"
      BY <1>2, <3>1 DEF Do
    <3> QED BY <1>1, <1>3, <1>8, <2>1, <2>2, <2>4, <3>1, <3>2
  <2> QED BY <2>3, <2>4
<1>10. Paired(MergeSources)
  BY <1>9 DEF Paired
<1>11. MergeSources # <<>> => MergeSources[1].do = "open"
  <2> SUFFICES ASSUME n # 0 PROVE MergeSources[1].do = "open"
    BY <1>1, <1>8
  <2>1. 1 \in 1..2 * n /\ 1 % 2 = 1
    BY <1>6
  <2> QED BY <1>2, <2>1 DEF Do
<1> QED BY <1>8, <1>10, <1>11

LEMMA CollectsAll ==
    ASSUME NEW seq \in Seq(Indexes)
    PROVE  /\ CollectFrom(seq) \in Seq(PlainTask) /\ Collects(CollectFrom(seq))
           /\ \A i \in DOMAIN seq : i \in DOMAIN CollectFrom(seq) /\ CollectFrom(seq)[i].ix = seq[i]
<1>1. DOMAIN seq = 1..Len(seq) /\ Len(seq) \in Nat /\ \A i \in DOMAIN seq : seq[i] \in Indexes
  OBVIOUS
<1>2. CollectFrom(seq) = [i \in 1..Len(seq) |-> Do("collect", seq[i])]
  BY <1>1 DEF CollectFrom
<1>3. \A i \in 1..Len(seq) : Do("collect", seq[i]) \in PlainTask
  BY <1>1 DEF Do, PlainTask
<1>4. CollectFrom(seq) \in Seq(PlainTask)
  BY <1>1, <1>2, <1>3
<1> QED BY <1>1, <1>2, <1>4 DEF Collects, Do

LEMMA StatusPlain ==
    StatusTasks \in Seq(PlainTask) /\ ReuseTasks \in Seq(PlainTask) /\ <<Do("sources", 0)>> \in Seq(PlainTask)
<1> DEFINE a == Do("merge", Database)
           b == Do("status", 0)
           c == Do("sync", 0)
           d == Do("clean", 0)
           e == Do("preload", 0)
           f == Do("generator", 0)
           s == Do("sources", 0)
<1>1. a \in PlainTask /\ b \in PlainTask /\ c \in PlainTask /\ d \in PlainTask /\ e \in PlainTask
      /\ f \in PlainTask /\ s \in PlainTask
  BY DEF Do, PlainTask, Indexes
<1>2. StatusTasks = <<a, b, c, d>> /\ ReuseTasks = <<e, f>> \o StatusTasks
  BY DEF StatusTasks, ReuseTasks
<1> HIDE DEF a, b, c, d, e, f, s
<1>3. <<a, b, c, d>> \in Seq(PlainTask) /\ <<e, f>> \in Seq(PlainTask) /\ <<s>> \in Seq(PlainTask)
  BY <1>1
<1>4. ReuseTasks \in Seq(PlainTask)
  BY <1>2, <1>3, ConcatProperties
<1> QED BY <1>2, <1>3, <1>4 DEF s

LEMMA PlainIsTask == PlainTask \subseteq TaskRec /\ \A q \in Seq(PlainTask) : q \in Seq(TaskRec)
<1>1. PlainTask \subseteq TaskRec
  BY DEF TaskRec
<1> QED BY <1>1, SeqMonotonic

\* Every list of tasks is made of these.
LEMMA ListTail ==
    ASSUME NEW q \in TaskList, q # <<>>
    PROVE  /\ Head(q) \in TaskRec /\ Tail(q) \in TaskList
           /\ Head(q).do = "open" => Tail(q) # <<>>
<1>1. q \in Seq(TaskRec) /\ \A i \in DOMAIN q : q[i].do = "open" => i + 1 \in DOMAIN q
  BY DEF TaskList
<1>2. /\ Head(q) \in TaskRec /\ Head(q) = q[1] /\ 1 \in DOMAIN q /\ DOMAIN q = 1..Len(q) /\ Len(q) \in Nat
      /\ Tail(q) \in Seq(TaskRec) /\ Len(Tail(q)) = Len(q) - 1
      /\ \A i \in 1..Len(Tail(q)) : Tail(q)[i] = q[i + 1]
  BY <1>1, HeadTailProperties
<1>3. ASSUME NEW i \in DOMAIN Tail(q), Tail(q)[i].do = "open" PROVE i + 1 \in DOMAIN Tail(q)
  <2>1. i \in 1..Len(Tail(q)) /\ i + 1 \in DOMAIN q /\ q[i + 1].do = "open"
    BY <1>2, <1>3
  <2>2. i + 2 \in DOMAIN q
    BY <1>1, <2>1
  <2> QED BY <1>2, <2>1, <2>2
<1>4. ASSUME Head(q).do = "open" PROVE Tail(q) # <<>>
  <2>1. q[1].do = "open" /\ 1 \in DOMAIN q
    BY <1>2, <1>4
  <2>2. 1 + 1 \in DOMAIN q
    BY <1>1, <2>1
  <2>3. Len(q) >= 2 /\ Len(Tail(q)) # 0
    BY <1>2, <2>2
  <2> QED BY <2>3
<1> QED BY <1>2, <1>3, <1>4 DEF TaskList

LEMMA ListJoin ==
    ASSUME NEW a \in TaskList, NEW b \in TaskList PROVE a \o b \in TaskList
<1>1. /\ a \in Seq(TaskRec) /\ \A i \in DOMAIN a : a[i].do = "open" => i + 1 \in DOMAIN a
      /\ b \in Seq(TaskRec) /\ \A i \in DOMAIN b : b[i].do = "open" => i + 1 \in DOMAIN b
  BY DEF TaskList
<1> DEFINE c == a \o b
<1>2. /\ c \in Seq(TaskRec) /\ Len(c) = Len(a) + Len(b) /\ Len(a) \in Nat /\ Len(b) \in Nat
      /\ DOMAIN c = 1..Len(c) /\ DOMAIN a = 1..Len(a) /\ DOMAIN b = 1..Len(b)
      /\ \A i \in 1..Len(a) + Len(b) : c[i] = IF i <= Len(a) THEN a[i] ELSE b[i - Len(a)]
  BY <1>1, ConcatProperties
<1> HIDE DEF c
<1>3. ASSUME NEW i \in DOMAIN c, c[i].do = "open" PROVE i + 1 \in DOMAIN c
  <2>1. CASE i <= Len(a)
    <3>1. i \in DOMAIN a /\ a[i].do = "open"
      BY <1>2, <1>3, <2>1
    <3>2. i + 1 \in DOMAIN a
      BY <1>1, <3>1
    <3> QED BY <1>2, <3>1, <3>2
  <2>2. CASE i > Len(a)
    <3>1. i - Len(a) \in DOMAIN b /\ b[i - Len(a)].do = "open"
      BY <1>2, <1>3, <2>2
    <3>2. i - Len(a) + 1 \in DOMAIN b
      BY <1>1, <3>1
    <3> QED BY <1>2, <3>1, <3>2
  <2> QED BY <1>2, <2>1, <2>2
<1> QED BY <1>2, <1>3 DEF TaskList, c

LEMMA NoOpens ==
    ASSUME NEW q \in Seq(TaskRec), \A i \in DOMAIN q : q[i].do # "open" PROVE q \in TaskList
BY DEF TaskList

LEMMA KnownLists ==
    /\ MergeSources \in TaskList /\ StatusTasks \in TaskList /\ ReuseTasks \in TaskList
    /\ \A seq \in Seq(Indexes) : CollectFrom(seq) \in TaskList
    /\ <<Do("sources", 0)>> \in TaskList /\ WriteBack \in TaskList
    /\ <<Do("unlink", "pkg"), Do("create", "pkg")>> \in TaskList /\ <<>> \in TaskList
<1> DEFINE L == {t \in TaskRec : t.do # "open"}
<1>0. \A q \in Seq(L) : q \in TaskList
  <2> SUFFICES ASSUME NEW q \in Seq(L) PROVE q \in TaskList
    OBVIOUS
  <2>1. q \in Seq(TaskRec) /\ \A i \in DOMAIN q : q[i] \in L
    <3> L \subseteq TaskRec
      OBVIOUS
    <3> HIDE DEF L
    <3> QED BY SeqMonotonic
  <2> QED BY <2>1, NoOpens
<1>1. MergeSources \in TaskList
  BY MergesPaired, PlainIsTask DEF Paired, TaskList
<1>2. ASSUME NEW seq \in Seq(Indexes) PROVE CollectFrom(seq) \in TaskList
  <2>1. CollectFrom(seq) \in Seq(TaskRec) /\ Collects(CollectFrom(seq))
    BY CollectsAll, PlainIsTask
  <2> QED BY <2>1, NoOpens DEF Collects
<1> DEFINE a == Do("merge", Database)
           b == Do("status", 0)
           c == Do("sync", 0)
           d == Do("clean", 0)
           e == Do("preload", 0)
           f == Do("generator", 0)
           s == Do("sources", 0)
           g == Do("data", 0)
           h == Do("flag", 0)
           i == Do("header", 0)
           j == Do("unlink", "src")
           k == Do("create", "src")
           l == Do("unlink", "pkg")
           m == Do("create", "pkg")
<1>3. a \in L /\ b \in L /\ c \in L /\ d \in L /\ e \in L /\ f \in L /\ s \in L
  BY DEF Do, TaskRec, PlainTask, Indexes
<1>4. g \in L /\ h \in L /\ i \in L /\ j \in L /\ k \in L /\ l \in L /\ m \in L
  BY DEF Do, TaskRec, FileTask, Names
<1>5. StatusTasks = <<a, b, c, d>> /\ ReuseTasks = <<e, f>> \o StatusTasks /\ WriteBack = <<j, k, g, h, i>>
  BY DEF StatusTasks, ReuseTasks, WriteBack
<1> HIDE DEF a, b, c, d, e, f, s, g, h, i, j, k, l, m, L
<1>6. <<a, b, c, d>> \in Seq(L) /\ <<e, f>> \in Seq(L) /\ <<s>> \in Seq(L) /\ <<l, m>> \in Seq(L)
      /\ <<>> \in Seq(L)
  BY <1>3, <1>4
<1>7. <<j, k, g, h, i>> \in Seq(L)
  BY <1>4
<1>8. /\ <<a, b, c, d>> \in TaskList /\ <<e, f>> \in TaskList /\ <<s>> \in TaskList /\ <<l, m>> \in TaskList
      /\ <<>> \in TaskList /\ <<j, k, g, h, i>> \in TaskList
  BY <1>0, <1>6, <1>7
<1>9. <<e, f>> \o StatusTasks \in TaskList
  BY <1>5, <1>8, ListJoin
<1> QED BY <1>1, <1>2, <1>5, <1>8, <1>9 DEF s, l, m

LEMMA ScratchIsRest ==
    ASSUME NEW p
    PROVE  /\ p \in Roots => ScratchTasks(p) = MergeSources \o Rest("sources")
           /\ p \notin Roots => ScratchTasks(p) \in Seq(PlainTask)
           /\ ScratchTasks(p) \in TaskList
<1> DEFINE m == MergeSources
           s == <<Do("sources", 0)>>
           w == WriteBack
           t == StatusTasks
           T == TaskRec
<1>1. m \in Seq(PlainTask) /\ s \in Seq(PlainTask) /\ t \in Seq(PlainTask)
  BY MergesPaired, StatusPlain
<1>2. ScratchTasks(p) = m \o s \o (IF p \in Roots THEN w ELSE <<>>) \o t
  BY DEF ScratchTasks, InFile
<1>3. Rest("sources") = s \o (w \o t)
  BY DEF Rest
<1>4. /\ m \in TaskList /\ s \in TaskList /\ w \in TaskList /\ t \in TaskList /\ <<>> \in TaskList
      /\ w \in Seq(T)
  BY KnownLists DEF TaskList
<1> HIDE DEF m, s, w, t, T
<1>5. m \in Seq(T) /\ s \in Seq(T) /\ t \in Seq(T)
  BY <1>1, PlainIsTask DEF T
<1>6. m \o s \in Seq(T) /\ w \o t \in Seq(T) /\ s \o (w \o t) \in Seq(T) /\ m \o (s \o (w \o t)) \in Seq(T)
  BY <1>4, <1>5, ConcatProperties
<1>7. CASE p \in Roots
  <2>1. ScratchTasks(p) = ((m \o s) \o w) \o t
    BY <1>2, <1>7
  <2>2. ((m \o s) \o w) \o t = (m \o s) \o (w \o t)
    BY <1>4, <1>5, <1>6, ConcatAssociative
  <2>3. (m \o s) \o (w \o t) = m \o (s \o (w \o t))
    BY <1>4, <1>5, <1>6, ConcatAssociative, SMTT(30)
  <2>4. m \o (s \o (w \o t)) \in TaskList
    BY <1>4, ListJoin
  <2> QED BY <1>3, <1>7, <2>1, <2>2, <2>3, <2>4 DEF m
<1>8. CASE p \notin Roots
  <2>1. ScratchTasks(p) = ((m \o s) \o <<>>) \o t
    BY <1>2, <1>8
  <2>2. m \o s \in Seq(PlainTask) /\ (m \o s) \o <<>> = m \o s
    BY <1>1, ConcatProperties, ConcatEmptySeq
  <2>3. ScratchTasks(p) \in Seq(PlainTask)
    BY <1>1, <2>1, <2>2, ConcatProperties
  <2>4. ScratchTasks(p) \in TaskList
    BY <1>4, <2>1, ListJoin
  <2> QED BY <1>8, <2>3, <2>4
<1> QED BY <1>7, <1>8 DEF m, T

-----------------------------------------------------------------------------
(* Types.                                                                   *)

LEMMA CacheInit == Init => CacheTypes /\ Clock
<1> SUFFICES ASSUME Init PROVE CacheTypes /\ Clock
  OBVIOUS
<1>1. PICK kind \in [Indexes -> UNION {Kinds[ix] : ix \in Indexes}] :
          /\ \A ix \in Indexes : kind[ix] \in Kinds[ix]
          /\ index = [ix \in Indexes |-> [mtime |-> 1, kind |-> kind[ix], back |-> FALSE]]
  BY DEF Init
<1>2. index \in [Indexes -> IndexRec]
  BY <1>1 DEF IndexRec, Contents
<1>3. changes = 0 /\ DOMAIN store = 1..NStores /\ name \in [Names -> 0..NStores]
  BY ListAssumption DEF Init
<1>4. Idle \in ProcRec /\ proc = [p \in Procs |-> Idle]
  BY ListAssumption, KnownLists DEF Init, Idle, ProcRec, Hashes
<1>5. CacheTypes
  BY <1>2, <1>3, <1>4 DEF CacheTypes
<1>6. Database \in Indexes
  BY DEF Indexes
<1>7. \A ix \in Indexes : index[ix].mtime = 1 /\ ~index[ix].back
  BY <1>1
<1>8. \A p \in Procs : proc[p] = Idle
  BY <1>4
<1>9. Idle.dbtime = 0 /\ Idle.open.mtime = 0 /\ Idle.at = "off"
  BY DEF Idle
<1>10. Clock
  BY <1>3, <1>6, <1>7, <1>8, <1>9 DEF Clock
<1> QED BY <1>5, <1>10

\* The first task of a process, and what is left when it is done.
LEMMA FirstTask ==
    ASSUME CacheTypes, NEW p \in Procs, NEW d, Task(p, d)
    PROVE  /\ Head(proc[p].todo) \in TaskRec /\ Head(proc[p].todo).do = d
           /\ Tail(proc[p].todo) \in TaskList /\ Done(p) \in ProcRec
           /\ d = "open" => Tail(proc[p].todo) # <<>>
           /\ proc[p].todo \in Seq(PlainTask) =>
                 Head(proc[p].todo) \in PlainTask /\ Tail(proc[p].todo) \in Seq(PlainTask)
<1>1. proc[p] \in ProcRec /\ proc[p].todo \in TaskList /\ proc[p].todo # <<>>
  BY DEF CacheTypes, ProcRec, Task
<1>2. /\ Head(proc[p].todo) \in TaskRec /\ Tail(proc[p].todo) \in TaskList
      /\ Head(proc[p].todo).do = "open" => Tail(proc[p].todo) # <<>>
  BY <1>1, ListTail
<1>3. proc[p].todo \in Seq(PlainTask) =>
          Head(proc[p].todo) \in PlainTask /\ Tail(proc[p].todo) \in Seq(PlainTask)
  BY <1>1, HeadTailProperties
<1>4. Done(p) \in ProcRec
  BY <1>1, <1>2 DEF Done, ProcRec
<1> QED BY <1>2, <1>3, <1>4 DEF Task

LEMMA TaskKinds ==
    ASSUME NEW t \in TaskRec
    PROVE  /\ t.do \in {"open", "merge", "collect"} => t.ix \in Indexes
           /\ t.do \in {"unlink", "create"} => t.ix \in Names
           /\ t \in PlainTask => t.do \notin {"unlink", "create", "data", "flag", "header"}
BY DEF TaskRec, PlainTask, FileTask

LEMMA FreeStore ==
    Free # {} => NewStore \in 1..NStores /\ NewStore \notin Used
BY DEF Free, NewStore

\* What a step makes of a process.
LEMMA ProcTypes ==
    ASSUME CacheTypes, NEW p \in Procs, Step(p) \/ Stop(p)
    PROVE  \E r \in ProcRec : proc' = [proc EXCEPT ![p] = r]
<1> DEFINE pr == proc[p]
<1>1. /\ index \in [Indexes -> IndexRec] /\ changes \in Nat /\ name \in [Names -> 0..NStores]
      /\ pr \in ProcRec /\ NStores \in Nat
  BY ListAssumption DEF CacheTypes
<1>2. Idle \in ProcRec
  BY ListAssumption, KnownLists DEF Idle, ProcRec, Hashes
<1>3. Database \in Indexes /\ Roots \subseteq Procs
  BY RootAssumption DEF Indexes
<1>4. ASSUME Start(p) PROVE \E r \in ProcRec : proc' = [proc EXCEPT ![p] = r]
  <2>1. PICK opts \in Options, lock \in BOOLEAN :
            proc' = [proc EXCEPT ![p] = [Idle EXCEPT !.at = "check", !.opts = opts, !.lock = lock,
                                            !.dbtime = index[Database].mtime, !.since = changes]]
    BY <1>4 DEF Start
  <2>2. index[Database].mtime \in Nat
    BY <1>1, <1>3 DEF IndexRec
  <2>3. [Idle EXCEPT !.at = "check", !.opts = opts, !.lock = lock,
                     !.dbtime = index[Database].mtime, !.since = changes] \in ProcRec
    BY <1>1, <1>2, <2>2 DEF ProcRec, Hashes
  <2> QED BY <2>1, <2>3
<1>5. ASSUME CheckPkg(p) PROVE \E r \in ProcRec : proc' = [proc EXCEPT ![p] = r]
  <2>1. /\ [pr EXCEPT !.at = "serve", !.out = name["pkg"]] \in ProcRec
        /\ [pr EXCEPT !.at = "source"] \in ProcRec
    BY <1>1 DEF ProcRec, Names
  <2>2. <<Do("unlink", "pkg"), Do("create", "pkg")>> \in TaskList
    BY KnownLists
  <2>3. [pr EXCEPT !.at = "build", !.todo = <<Do("unlink", "pkg"), Do("create", "pkg")>>] \in ProcRec
    BY <1>1, <2>2 DEF ProcRec
  <2>4. \/ proc' = [proc EXCEPT ![p] = [pr EXCEPT !.at = "serve", !.out = name["pkg"]]]
        \/ proc' = [proc EXCEPT ![p] = [pr EXCEPT !.at = "source"]]
        \/ proc' = [proc EXCEPT ![p] = [pr EXCEPT !.at = "build",
                                          !.todo = <<Do("unlink", "pkg"), Do("create", "pkg")>>]]
    BY <1>5 DEF CheckPkg
  <2> QED BY <2>1, <2>3, <2>4
<1>6. ASSUME CheckSource(p) PROVE \E r \in ProcRec : proc' = [proc EXCEPT ![p] = r]
  <2> DEFINE s == IF InFile(p) THEN pr.map ELSE NewStore
  <2>1. s \in 0..NStores
    BY <1>1, <1>6, FreeStore DEF CheckSource, ProcRec
  <2>2. \A reuse \in BOOLEAN : (IF reuse THEN name["src"] ELSE 0) \in 0..NStores
    BY <1>1 DEF Names
  <2>3. ReuseTasks \in TaskList /\ ScratchTasks(p) \in TaskList
    BY KnownLists, ScratchIsRest
  <2> DEFINE seen == IF CheckValidity("src", pr.opts, Indexes \ {Database}) THEN name["src"] ELSE 0
             todo == IF CheckValidity("src", pr.opts, Indexes \ {Database}) THEN ReuseTasks ELSE ScratchTasks(p)
  <2>4. proc' = [proc EXCEPT ![p] = [pr EXCEPT !.at = "build", !.map = s, !.seen = seen, !.todo = todo]]
    BY <1>6 DEF CheckSource
  <2>5. seen \in 0..NStores /\ todo \in TaskList
    BY <1>1, <2>3 DEF Names
  <2> HIDE DEF s, seen, todo
  <2>6. [pr EXCEPT !.at = "build", !.map = s, !.seen = seen, !.todo = todo] \in ProcRec
    BY <1>1, <2>1, <2>5 DEF ProcRec
  <2> QED BY <2>4, <2>6
<1>7. ASSUME NEW d, Task(p, d) PROVE Done(p) \in ProcRec /\ Tail(pr.todo) \in TaskList
  BY <1>7, FirstTask
<1>8. ASSUME Unlink(p) \/ Generator(p) \/ Collect(p) \/ WriteData(p) \/ ClearFlag(p) \/ SyncMap(p)
      PROVE  \E r \in ProcRec : proc' = [proc EXCEPT ![p] = r]
  <2>1. proc' = [proc EXCEPT ![p] = Done(p)] /\ \E d : Task(p, d)
    BY <1>8 DEF Unlink, Generator, Collect, WriteData, ClearFlag, SyncMap
  <2> QED BY <1>7, <2>1
<1>9. ASSUME Create(p) PROVE \E r \in ProcRec : proc' = [proc EXCEPT ![p] = r]
  <2> DEFINE n == Head(pr.todo).ix
             s == IF name[n] # 0 THEN name[n] ELSE NewStore
  <2>1. Head(pr.todo) \in TaskRec /\ Head(pr.todo).do = "create" /\ Done(p) \in ProcRec
    BY <1>9, FirstTask DEF Create
  <2>2. n \in Names
    BY <2>1, TaskKinds
  <2>3. s \in 0..NStores
    BY <1>1, <1>9, <2>2, FreeStore DEF Create
  <2>4. proc' = [proc EXCEPT ![p] = IF n = "pkg" THEN [pr EXCEPT !.map = s, !.at = "source", !.todo = <<>>]
                                                   ELSE [Done(p) EXCEPT !.out = s]]
    BY <1>9 DEF Create
  <2> HIDE DEF n, s
  <2>5. [pr EXCEPT !.map = s, !.at = "source", !.todo = <<>>] \in ProcRec
    BY <1>1, <2>3, KnownLists DEF ProcRec
  <2>6. [Done(p) EXCEPT !.out = s] \in ProcRec
    BY <2>1, <2>3 DEF ProcRec
  <2> QED BY <2>4, <2>5, <2>6
<1>10. ASSUME Preload(p) PROVE \E r \in ProcRec : proc' = [proc EXCEPT ![p] = r]
  <2>1. Done(p) \in ProcRec
    BY <1>7, <1>10 DEF Preload
  <2>2. proc' = [proc EXCEPT ![p] = [Done(p) EXCEPT !.other = name["src"] # pr.seen, !.seen = 0]]
    BY <1>10 DEF Preload
  <2> DEFINE o == name["src"] # pr.seen
  <2>3. o \in BOOLEAN /\ proc' = [proc EXCEPT ![p] = [Done(p) EXCEPT !.other = o, !.seen = 0]]
    BY <2>2
  <2> HIDE DEF o
  <2>4. [Done(p) EXCEPT !.other = o, !.seen = 0] \in ProcRec
    <3> 0 \in 0..NStores
      BY <1>1
    <3> QED BY <2>1, <2>3 DEF ProcRec
  <2> QED BY <2>3, <2>4
<1>11. ASSUME OpenIndex(p) PROVE \E r \in ProcRec : proc' = [proc EXCEPT ![p] = r]
  <2> DEFINE ix == Head(pr.todo).ix
  <2>1. Head(pr.todo) \in TaskRec /\ Head(pr.todo).do = "open" /\ Done(p) \in ProcRec
    BY <1>11, FirstTask DEF OpenIndex
  <2>2. index[ix] \in IndexRec
    BY <1>1, <2>1, TaskKinds
  <2>3. \/ proc' = [proc EXCEPT ![p] = [Done(p) EXCEPT !.todo = Tail(@)]]
        \/ proc' = [proc EXCEPT ![p] = [Done(p) EXCEPT !.open = index[ix]]]
    BY <1>11 DEF OpenIndex
  <2>4. [Done(p) EXCEPT !.open = index[ix]] \in ProcRec
    <3> HIDE DEF ix
    <3> QED BY <2>1, <2>2 DEF ProcRec
  <2>5. [Done(p) EXCEPT !.todo = Tail(@)] \in ProcRec
    <3>1. Tail(pr.todo) \in TaskList /\ Tail(pr.todo) # <<>>
      BY <1>11, FirstTask DEF OpenIndex
    <3>2. Tail(Tail(pr.todo)) \in TaskList
      BY <3>1, ListTail
    <3>3. Done(p).todo = Tail(pr.todo)
      BY <1>1 DEF Done, ProcRec
    <3> QED BY <2>1, <3>2, <3>3 DEF ProcRec
  <2> QED BY <2>3, <2>4, <2>5
<1>12. ASSUME Merge(p) PROVE \E r \in ProcRec : proc' = [proc EXCEPT ![p] = r]
  <2>1. PICK kind : proc' = [proc EXCEPT ![p] = [Done(p) EXCEPT !.newdeps = @ \/ kind.needs # {},
                                                                 !.open = [mtime |-> 0]]]
    BY <1>12 DEF Merge
  <2>2. Done(p) \in ProcRec
    BY <1>7, <1>12 DEF Merge
  <2>3. [Done(p) EXCEPT !.newdeps = @ \/ kind.needs # {}, !.open = [mtime |-> 0]] \in ProcRec
    BY <2>2 DEF ProcRec
  <2> QED BY <2>1, <2>3
<1>13. ASSUME SourcesMerged(p) \/ StatusMerged(p) PROVE \E r \in ProcRec : proc' = [proc EXCEPT ![p] = r]
  <2>1. Tail(pr.todo) \in TaskList
    BY <1>7, <1>13 DEF SourcesMerged, StatusMerged
  <2>2. PICK more \in {CollectFrom(Sources), CollectFrom(<<Database>>), CollectFrom(Append(Sources, Database)),
                       CollectFrom(<<>>), <<>>}, b \in BOOLEAN :
             proc' = [proc EXCEPT ![p] = [pr EXCEPT !.newdeps = b, !.todo = more \o Tail(pr.todo)]]
    <3>1. ASSUME SourcesMerged(p)
          PROVE  \E more \in {CollectFrom(Sources), <<>>} :
                    proc' = [proc EXCEPT ![p] = [pr EXCEPT !.newdeps = FALSE, !.todo = more \o Tail(pr.todo)]]
      <4> DEFINE more == IF pr.newdeps THEN CollectFrom(Sources) ELSE <<>>
      <4>1. proc' = [proc EXCEPT ![p] = [pr EXCEPT !.newdeps = FALSE, !.todo = more \o Tail(pr.todo)]]
        BY <3>1 DEF SourcesMerged
      <4>2. more \in {CollectFrom(Sources), <<>>}
        OBVIOUS
      <4> HIDE DEF more
      <4> QED BY <4>1, <4>2
    <3>2. ASSUME StatusMerged(p)
          PROVE  \E more \in {CollectFrom(<<Database>>), CollectFrom(Append(Sources, Database)), CollectFrom(<<>>)} :
                    proc' = [proc EXCEPT ![p] = [pr EXCEPT !.newdeps = pr.newdeps, !.todo = more \o Tail(pr.todo)]]
      <4>1. PICK over \in {<<Database>>, Append(Sources, Database), <<>>} :
                proc' = [proc EXCEPT ![p].todo = CollectFrom(over) \o Tail(@)]
        BY <3>2 DEF StatusMerged
      <4>2. proc' = [proc EXCEPT ![p] = [pr EXCEPT !.newdeps = pr.newdeps,
                                                   !.todo = CollectFrom(over) \o Tail(pr.todo)]]
        BY <1>1, <4>1 DEF ProcRec, CacheTypes
      <4> QED BY <4>2
    <3> QED BY <1>1, <1>13, <3>1, <3>2 DEF ProcRec
  <2>3. more \in TaskList
    <3>1. Sources \in Seq(Indexes) /\ <<Database>> \in Seq(Indexes) /\ <<>> \in Seq(Indexes)
          /\ Append(Sources, Database) \in Seq(Indexes)
      BY <1>3, ListedIndexes
    <3> QED BY <2>2, <3>1, KnownLists
  <2>4. more \o Tail(pr.todo) \in TaskList
    BY <2>1, <2>3, ListJoin
  <2>5. [pr EXCEPT !.newdeps = b, !.todo = more \o Tail(pr.todo)] \in ProcRec
    BY <1>1, <2>2, <2>4 DEF ProcRec
  <2> QED BY <2>2, <2>5
<1>14. ASSUME WriteHeader(p) \/ MarkClean(p) PROVE \E r \in ProcRec : proc' = [proc EXCEPT ![p] = r]
  <2>1. \/ proc' = [proc EXCEPT ![p] = [Done(p) EXCEPT !.out = 0]] /\ Task(p, "header")
        \/ proc' = [proc EXCEPT ![p] = [pr EXCEPT !.at = "serve", !.out = pr.map, !.map = 0, !.todo = <<>>]]
    BY <1>14 DEF WriteHeader, MarkClean
  <2>2. Task(p, "header") => [Done(p) EXCEPT !.out = 0] \in ProcRec
    BY <1>1, <1>7 DEF ProcRec
  <2>3. [pr EXCEPT !.at = "serve", !.out = pr.map, !.map = 0, !.todo = <<>>] \in ProcRec
    <3>1. <<>> \in TaskList /\ 0 \in 0..NStores /\ pr.map \in 0..NStores
      BY <1>1, KnownLists DEF ProcRec
    <3> QED BY <1>1, <3>1 DEF ProcRec
  <2> QED BY <2>1, <2>2, <2>3
<1>15. ASSUME Refused(p) \/ Close(p) \/ Stop(p) PROVE \E r \in ProcRec : proc' = [proc EXCEPT ![p] = r]
  <2>1. proc' = [proc EXCEPT ![p] = Idle]
    BY <1>15 DEF Refused, Close, Stop
  <2> QED BY <1>2, <2>1
<1> HIDE DEF pr
<1> QED BY <1>4, <1>5, <1>6, <1>8, <1>9, <1>10, <1>11, <1>12, <1>13, <1>14, <1>15 DEF Step

\* What a process remembers of the clock.
LEMMA ProcClock ==
    ASSUME CacheTypes, Clock, NEW p \in Procs, Step(p) \/ Stop(p)
    PROVE  /\ proc'[p].dbtime <= changes + 1 /\ proc'[p].open.mtime <= changes + 1
           /\ proc'[p].at # "off" => proc'[p].dbtime # 0
<1> DEFINE pr == proc[p]
           Good(r) == /\ r.dbtime <= changes + 1 /\ r.open.mtime <= changes + 1
                      /\ r.at # "off" => r.dbtime # 0
<1>1. /\ index \in [Indexes -> IndexRec] /\ changes \in Nat /\ pr \in ProcRec /\ proc \in [Procs -> ProcRec]
      /\ Database \in Indexes
  BY DEF CacheTypes, Indexes
<1>2. Good(pr) /\ Good(Idle) /\ \A ix \in Indexes : index[ix].mtime <= changes + 1
  BY <1>1 DEF Clock, Idle
<1>3. ASSUME Start(p) PROVE Good(proc'[p])
  <2>1. PICK opts \in Options, lock \in BOOLEAN :
            proc' = [proc EXCEPT ![p] = [Idle EXCEPT !.at = "check", !.opts = opts, !.lock = lock,
                                            !.dbtime = index[Database].mtime, !.since = changes]]
    BY <1>3 DEF Start
  <2>2. proc'[p].dbtime = index[Database].mtime /\ proc'[p].open.mtime = 0
    BY <1>1, <2>1 DEF Idle
  <2> QED BY <1>1, <1>2, <2>2 DEF Clock
<1>4. ASSUME OpenIndex(p) PROVE Good(proc'[p])
  <2> DEFINE ix == Head(pr.todo).ix
  <2>1. Task(p, "open") /\ pr.at # "off"
    BY <1>4 DEF OpenIndex, Task
  <2>2. ix \in Indexes
    BY <2>1, FirstTask, TaskKinds
  <2>3. Done(p) = [pr EXCEPT !.todo = Tail(@)]
    BY DEF Done
  <2>4. \/ proc' = [proc EXCEPT ![p] = [Done(p) EXCEPT !.todo = Tail(@)]]
        \/ proc' = [proc EXCEPT ![p] = [Done(p) EXCEPT !.open = index[ix]]]
    BY <1>4 DEF OpenIndex
  <2> HIDE DEF ix
  <2>5. \/ proc'[p] = [Done(p) EXCEPT !.todo = Tail(@)]
        \/ proc'[p] = [Done(p) EXCEPT !.open = index[ix]]
    BY <1>1, <2>4
  <2>6. proc'[p].dbtime = pr.dbtime /\ (proc'[p].open = pr.open \/ proc'[p].open = index[ix])
    BY <1>1, <2>3, <2>5 DEF ProcRec
  <2> QED BY <1>2, <2>1, <2>2, <2>6
<1>5. ASSUME CheckPkg(p) \/ CheckSource(p) \/ Unlink(p) \/ Generator(p) \/ Collect(p) \/ WriteData(p)
             \/ ClearFlag(p) \/ SyncMap(p) \/ Preload(p) \/ WriteHeader(p) \/ MarkClean(p) \/ Create(p)
             \/ SourcesMerged(p) \/ StatusMerged(p)
      PROVE  Good(proc'[p])
  <2>1. proc'[p].dbtime = pr.dbtime /\ proc'[p].open = pr.open /\ pr.at # "off"
    <3>1. ASSUME CheckPkg(p) \/ CheckSource(p) PROVE proc'[p].dbtime = pr.dbtime /\ proc'[p].open = pr.open /\ pr.at # "off"
      BY <1>1, <3>1 DEF CheckPkg, CheckSource, ProcRec
    <3>2. ASSUME Unlink(p) \/ Generator(p) \/ Collect(p) \/ WriteData(p) \/ ClearFlag(p) \/ SyncMap(p)
          PROVE  proc'[p].dbtime = pr.dbtime /\ proc'[p].open = pr.open /\ pr.at # "off"
      BY <1>1, <3>2 DEF Unlink, Generator, Collect, WriteData, ClearFlag, SyncMap, Task, Done, ProcRec
    <3>3. ASSUME Preload(p) \/ WriteHeader(p)
          PROVE  proc'[p].dbtime = pr.dbtime /\ proc'[p].open = pr.open /\ pr.at # "off"
      <4>1. CASE Preload(p)
        BY <1>1, <4>1, ZenonT(40) DEF Preload, Task, Done, ProcRec
      <4>2. CASE WriteHeader(p)
        BY <1>1, <4>2, ZenonT(40) DEF WriteHeader, Task, Done, ProcRec
      <4> QED BY <3>3, <4>1, <4>2
    <3>4. ASSUME Create(p)
          PROVE  proc'[p].dbtime = pr.dbtime /\ proc'[p].open = pr.open /\ pr.at # "off"
      BY <1>1, <3>4 DEF Create, Task, Done, ProcRec
    <3>5. ASSUME SourcesMerged(p) \/ StatusMerged(p) \/ MarkClean(p)
          PROVE  proc'[p].dbtime = pr.dbtime /\ proc'[p].open = pr.open /\ pr.at # "off"
      <4>1. CASE SourcesMerged(p)
        BY <1>1, <4>1, ZenonT(40) DEF SourcesMerged, Task, ProcRec
      <4>2. CASE StatusMerged(p)
        BY <1>1, <4>2, ZenonT(40) DEF StatusMerged, Task, ProcRec
      <4>3. CASE MarkClean(p)
        BY <1>1, <4>3, ZenonT(40) DEF MarkClean, Task, ProcRec
      <4> QED BY <3>5, <4>1, <4>2, <4>3
    <3> QED BY <1>5, <3>1, <3>2, <3>3, <3>4, <3>5
  <2> QED BY <1>2, <2>1
<1>6. ASSUME Merge(p) PROVE Good(proc'[p])
  <2>1. PICK kind : proc' = [proc EXCEPT ![p] = [Done(p) EXCEPT !.newdeps = @ \/ kind.needs # {},
                                                                 !.open = [mtime |-> 0]]]
    BY <1>6 DEF Merge
  <2>2. proc'[p] = [Done(p) EXCEPT !.newdeps = @ \/ kind.needs # {}, !.open = [mtime |-> 0]]
    BY <1>1, <2>1
  <2>3. pr.at # "off" /\ Done(p).dbtime = pr.dbtime /\ Done(p) \in ProcRec
    BY <1>1, <1>6, FirstTask DEF Merge, Task, Done, ProcRec
  <2>4. proc'[p].dbtime = pr.dbtime /\ proc'[p].open = [mtime |-> 0]
    BY <2>2, <2>3 DEF ProcRec
  <2> QED BY <1>1, <1>2, <2>3, <2>4
<1>7. ASSUME Refused(p) \/ Close(p) \/ Stop(p) PROVE Good(proc'[p])
  <2>1. proc' = [proc EXCEPT ![p] = Idle]
    BY <1>7 DEF Refused, Close, Stop
  <2> QED BY <1>1, <1>2, <2>1
<1> HIDE DEF pr, Good
<1>8. Good(proc'[p])
  BY <1>3, <1>4, <1>5, <1>6, <1>7 DEF Step
<1> QED BY <1>8 DEF Good

\* What a step of a process makes of the indexes.
LEMMA StepIndexes ==
    ASSUME CacheTypes, Clock, NEW p \in Procs, Step(p) \/ Stop(p)
    PROVE  \/ index' = index
           \/ /\ proc[p].at # "off"
              /\ index' = [index EXCEPT ![Database].mtime = proc[p].dbtime, ![Database].back = TRUE]
<1>1. ASSUME Refused(p) \/ Close(p) \/ Stop(p)
      PROVE  proc[p].at # "off" /\ (index' = index \/ index' = Unlocked(p))
  BY <1>1 DEF Refused, Close, Stop, Task
<1>2. ASSUME ~(Refused(p) \/ Close(p) \/ Stop(p)) PROVE index' = index
  BY <1>2 DEF Step, Start, CheckPkg, CheckSource, Unlink, Create, Preload, Generator, OpenIndex,
       Merge, SourcesMerged, StatusMerged, Collect, WriteData, ClearFlag, WriteHeader, SyncMap, MarkClean
<1> QED BY <1>1, <1>2 DEF Unlocked

LEMMA StepFiles ==
    ASSUME CacheTypes, NEW p \in Procs, Step(p) \/ Stop(p)
    PROVE  changes' = changes /\ DOMAIN store' = 1..NStores /\ name' \in [Names -> 0..NStores]
<1>1. DOMAIN store = 1..NStores /\ name \in [Names -> 0..NStores] /\ NStores \in Nat
  BY ListAssumption DEF CacheTypes
<1>2. changes' = changes
  BY DEF Step, Stop, Start, CheckPkg, CheckSource, Unlink, Create, Preload, Generator, OpenIndex,
       Merge, SourcesMerged, StatusMerged, Collect, WriteData, ClearFlag, WriteHeader, SyncMap,
       MarkClean, Refused, Close
<1>3. DOMAIN store' = 1..NStores
  <2>1. ASSUME Unlink(p) \/ Refused(p) \/ Close(p) \/ Stop(p) PROVE DOMAIN store' = 1..NStores
    BY <2>1 DEF Unlink, Refused, Close, Stop, Released
  <2>2. ASSUME Start(p) \/ CheckPkg(p) \/ OpenIndex(p) PROVE DOMAIN store' = 1..NStores
    BY <1>1, <2>2 DEF Start, CheckPkg, OpenIndex
  <2>3. ASSUME Create(p) \/ CheckSource(p) PROVE DOMAIN store' = 1..NStores
    BY <1>1, <2>3 DEF Create, CheckSource
  <2>4. ASSUME NEW st, WriteMap(p, st) PROVE DOMAIN store' = 1..NStores
    BY <1>1, <2>4 DEF WriteMap
  <2>5. ASSUME Preload(p) \/ Merge(p) \/ SourcesMerged(p) \/ StatusMerged(p) \/ Collect(p) \/ ClearFlag(p)
        PROVE  \E st : WriteMap(p, st)
    BY <2>5 DEF Preload, Merge, SourcesMerged, StatusMerged, Collect, ClearFlag
  <2>6. ASSUME Generator(p) \/ WriteData(p) \/ WriteHeader(p) \/ SyncMap(p) \/ MarkClean(p)
        PROVE  DOMAIN store' = 1..NStores
    BY <1>1, <2>6 DEF Generator, WriteData, WriteHeader, SyncMap, MarkClean
  <2> QED BY <2>1, <2>2, <2>3, <2>4, <2>5, <2>6 DEF Step
<1>4. name' \in [Names -> 0..NStores]
  <2>1. ASSUME Unlink(p) PROVE name' \in [Names -> 0..NStores]
    <3> DEFINE n == Head(proc[p].todo).ix
    <3>1. name' = [name EXCEPT ![n] = 0] /\ 0 \in 0..NStores
      BY <1>1, <2>1 DEF Unlink
    <3> HIDE DEF n
    <3> QED BY <1>1, <3>1
  <2>2. ASSUME Create(p) PROVE name' \in [Names -> 0..NStores]
    <3>1. Task(p, "create") /\ Head(proc[p].todo).ix \in Names
      BY <2>2, FirstTask, TaskKinds DEF Create
    <3> DEFINE n == Head(proc[p].todo).ix
               s == IF name[n] # 0 THEN name[n] ELSE NewStore
    <3>2. s \in 0..NStores /\ name' = [name EXCEPT ![n] = s]
      BY <1>1, <2>2, <3>1, FreeStore DEF Create
    <3> HIDE DEF s, n
    <3> QED BY <1>1, <3>2
  <2>3. ASSUME ~Unlink(p), ~Create(p) PROVE name' = name
    BY <2>3 DEF Step, Stop, Start, CheckPkg, CheckSource, Preload, Generator, OpenIndex,
         Merge, SourcesMerged, StatusMerged, Collect, WriteData, ClearFlag, WriteHeader, SyncMap,
         MarkClean, Refused, Close
  <2> QED BY <1>1, <2>1, <2>2, <2>3
<1> QED BY <1>2, <1>3, <1>4

LEMMA ClockTicks ==
    ASSUME CacheTypes, Clock, [Next]_vars
    PROVE  CacheTypes' /\ Clock' /\ Ages(index, changes, index', changes')
<1>1. /\ index \in [Indexes -> IndexRec] /\ changes \in Nat /\ proc \in [Procs -> ProcRec]
      /\ Database \in Indexes
  BY DEF CacheTypes, Indexes
<1>2. ASSUME NEW p \in Procs, Step(p) \/ Stop(p)
      PROVE  CacheTypes' /\ Clock' /\ Ages(index, changes, index', changes')
  <2>1. PICK r \in ProcRec : proc' = [proc EXCEPT ![p] = r]
    BY <1>2, ProcTypes
  <2>2. changes' = changes /\ DOMAIN store' = 1..NStores /\ name' \in [Names -> 0..NStores]
    BY <1>2, StepFiles
  <2>3. /\ proc'[p].dbtime <= changes + 1 /\ proc'[p].open.mtime <= changes + 1
        /\ proc'[p].at # "off" => proc'[p].dbtime # 0
    BY <1>2, ProcClock
  <2>4. proc' \in [Procs -> ProcRec]
    BY <1>1, <2>1
  <2>5. \A q \in Procs : q # p => proc'[q] = proc[q]
    BY <1>1, <2>1
  <2>6. /\ index' \in [Indexes -> IndexRec] /\ index'[Database].mtime # 0
        /\ \A ix \in Indexes : \/ index'[ix] = index[ix]
                               \/ ix = Database /\ index'[ix].back /\ index'[ix].mtime <= changes + 1
    <3>1. CASE index' = index
      BY <1>1, <3>1 DEF Clock
    <3>2. CASE /\ proc[p].at # "off"
               /\ index' = [index EXCEPT ![Database].mtime = proc[p].dbtime, ![Database].back = TRUE]
      <4> DEFINE rec == [index[Database] EXCEPT !.mtime = proc[p].dbtime, !.back = TRUE]
      <4>1. proc[p].dbtime \in Nat /\ proc[p].dbtime # 0 /\ proc[p].dbtime <= changes + 1
        BY <1>1, <1>2, <3>2 DEF ProcRec, Clock
      <4>2. rec \in IndexRec /\ rec.back /\ rec.mtime = proc[p].dbtime
        BY <1>1, <4>1 DEF IndexRec
      <4>3. index' = [index EXCEPT ![Database] = rec]
        BY <1>1, <3>2
      <4> HIDE DEF rec
      <4> QED BY <1>1, <4>1, <4>2, <4>3
    <3> QED BY <1>2, <3>1, <3>2, StepIndexes
  <2>7. CacheTypes'
    BY <1>1, <2>2, <2>4, <2>6 DEF CacheTypes
  <2>8. Clock'
    BY <1>1, <2>2, <2>3, <2>5, <2>6 DEF Clock
  <2>9. Ages(index, changes, index', changes')
    BY <1>1, <2>2, <2>6 DEF Ages
  <2> QED BY <2>7, <2>8, <2>9
<1>3. ASSUME NEW ix \in Indexes, Change(ix)
      PROVE  CacheTypes' /\ Clock' /\ Ages(index, changes, index', changes')
  <2>1. changes' = changes + 1 /\ store' = store /\ name' = name /\ proc' = proc
    BY <1>3 DEF Change
  <2>2. /\ index' \in [Indexes -> IndexRec] /\ index'[Database].mtime # 0
        /\ \A i \in Indexes : \/ index'[i] = index[i]
                              \/ index'[i].mtime = changes + 2 /\ ~index'[i].back
                              \/ index'[i].mtime = 0 /\ index'[i].back = index[i].back
    <3>1. CASE \E kind \in Kinds[ix] : index' = [index EXCEPT ![ix] = [mtime |-> changes + 2, kind |-> kind, back |-> FALSE]]
      <4>1. PICK kind \in Kinds[ix] : index' = [index EXCEPT ![ix] = [mtime |-> changes + 2, kind |-> kind, back |-> FALSE]]
        BY <3>1
      <4> DEFINE rec == [mtime |-> changes + 2, kind |-> kind, back |-> FALSE]
      <4>2. rec \in IndexRec /\ rec.mtime = changes + 2 /\ ~rec.back /\ rec.mtime # 0
        BY <1>1 DEF IndexRec, Contents
      <4>3. index' = [index EXCEPT ![ix] = rec]
        BY <4>1
      <4> HIDE DEF rec
      <4> QED BY <1>1, <4>2, <4>3 DEF Clock
    <3>2. CASE ix # Database /\ index' = [index EXCEPT ![ix].mtime = 0]
      <4> DEFINE rec == [index[ix] EXCEPT !.mtime = 0]
      <4>1. rec \in IndexRec /\ rec.mtime = 0 /\ rec.back = index[ix].back
        BY <1>1 DEF IndexRec
      <4>2. index' = [index EXCEPT ![ix] = rec]
        BY <3>2
      <4> HIDE DEF rec
      <4> QED BY <1>1, <3>2, <4>1, <4>2 DEF Clock
    <3> QED BY <1>3, <3>1, <3>2 DEF Change
  <2>3. CacheTypes'
    BY <1>1, <2>1, <2>2 DEF CacheTypes
  <2>4. Clock'
    <3>1. \A i \in Indexes : index[i].mtime \in Nat /\ index'[i].mtime \in Nat
      BY <1>1, <2>2 DEF IndexRec
    <3>2. \A p \in Procs : proc[p].dbtime \in Nat /\ proc[p].open.mtime \in Nat
      BY <1>1 DEF ProcRec, IndexRec
    <3> QED BY <1>1, <2>1, <2>2, <3>1, <3>2 DEF Clock
  <2>5. Ages(index, changes, index', changes')
    BY <1>1, <2>1, <2>2 DEF Ages
  <2> QED BY <2>3, <2>4, <2>5
<1>4. ASSUME PowerFailure PROVE CacheTypes' /\ Clock' /\ Ages(index, changes, index', changes')
  <2>1. index' = index /\ changes' = changes /\ name' = name /\ proc' = [p \in Procs |-> Idle]
    BY <1>4 DEF PowerFailure
  <2>3. DOMAIN store' = 1..NStores
    BY <1>4 DEF PowerFailure
  <2>4. Idle \in ProcRec /\ Idle.dbtime = 0 /\ Idle.open.mtime = 0 /\ Idle.at = "off"
    BY ListAssumption, KnownLists DEF Idle, ProcRec, Hashes
  <2>5. CacheTypes'
    BY <2>1, <2>3, <2>4 DEF CacheTypes
  <2>6. Clock'
    BY <1>1, <2>1, <2>4 DEF Clock
  <2> QED BY <1>1, <2>1, <2>5, <2>6 DEF Ages
<1>5. ASSUME UNCHANGED vars PROVE CacheTypes' /\ Clock' /\ Ages(index, changes, index', changes')
  BY <1>1, <1>5 DEF vars, CacheTypes, Clock, Ages
<1> QED BY <1>2, <1>3, <1>4, <1>5 DEF Next

-----------------------------------------------------------------------------
(* Steps that leave the two files alone.                                    *)

LEMMA IdleWorks ==
    ASSUME NEW ind, NEW nm, NEW sto
    PROVE  Working(ind, nm, sto, Idle) /\ (nm \in [Names -> 0..NStores] => Stranger(nm, Idle))
<1>1. <<>> \in Seq(PlainTask)
  OBVIOUS
<1>2. Working(ind, nm, sto, Idle)
  BY DEF Working, Idle
<1> QED BY <1>1, <1>2 DEF Stranger, Idle

LEMMA OthersStep ==
    ASSUME FInv, CacheTypes', Clock', Ages(index, changes, index', changes'), name' = name,
           \A n \in Names : name[n] # 0 => store'[name[n]] = store[name[n]],
           \A p \in Roots : proc'[p] = proc[p] \/ proc'[p] = Idle,
           \A p \in Procs \ Roots : Stranger(name, proc'[p])
    PROVE  FInv'
<1>1. /\ index \in [Indexes -> IndexRec] /\ index' \in [Indexes -> IndexRec] /\ changes \in Nat /\ changes' \in Nat
      /\ proc \in [Procs -> ProcRec] /\ "pkg" \in Names /\ "src" \in Names /\ Roots \subseteq Procs
  BY RootAssumption DEF FInv, CacheTypes, Names
<1>2. /\ name["pkg"] # 0 => PkgOK(index, changes, store[name["pkg"]]) /\ store'[name["pkg"]] = store[name["pkg"]]
      /\ name["src"] # 0 => SrcOK(index, changes, store[name["src"]]) /\ store'[name["src"]] = store[name["src"]]
  BY <1>1 DEF FInv, Named
<1>3. \A ix \in Indexes : index'[ix].back => ix = Database
  BY DEF Clock
<1>4. Named'
  <2>1. name["pkg"] # 0 => PkgOK(index', changes', store'[name["pkg"]])
    BY <1>1, <1>2, AgesOK
  <2>2. name["src"] # 0 => SrcOK(index', changes', store'[name["src"]])
    BY <1>1, <1>2, AgesOK
  <2> QED BY <2>1, <2>2 DEF Named
<1>5. Apart'
  BY DEF FInv, Apart
<1>6. ASSUME NEW p \in Roots PROVE Working(index', name, store', proc'[p])
  <2>1. CASE proc'[p] = Idle
    BY <2>1, IdleWorks
  <2>2. CASE proc'[p] = proc[p]
    <3>1. proc[p] \in ProcRec /\ proc[p].open.mtime <= changes + 1 /\ Working(index, name, store, proc[p])
      BY <1>1, <1>6 DEF FInv, Clock, Writers
    <3> QED BY <1>1, <1>2, <1>3, <2>2, <3>1, AgesWorking
  <2> QED BY <1>6, <2>1, <2>2
<1> QED BY <1>4, <1>5, <1>6 DEF FInv, Writers

LEMMA ReleasedKeeps ==
    ASSUME CacheTypes, name' \in [Names -> 0..NStores], Released, NEW n \in Names, name'[n] # 0
    PROVE  store'[name'[n]] = store[name'[n]]
<1>1. name'[n] \in 1..NStores
  BY ListAssumption
<1>2. name'[n] \in Used'
  BY DEF Used
<1> QED BY <1>1, <1>2 DEF Released

\* Steps of a process that may not write the cache directory.
LEMMA StrangerStep ==
    ASSUME FInv, NEW p \in Procs \ Roots, Step(p) \/ Stop(p)
    PROVE  /\ name' = name /\ Stranger(name, proc'[p])
           /\ \A n \in Names : name[n] # 0 => store'[name[n]] = store[name[n]]
<1> DEFINE pr == proc[p]
           Kept == \A n \in Names : name[n] # 0 => store'[name[n]] = store[name[n]]
<1>1. /\ CacheTypes /\ name \in [Names -> 0..NStores] /\ proc \in [Procs -> ProcRec] /\ pr \in ProcRec
      /\ DOMAIN store = 1..NStores /\ Names = {"pkg", "src"} /\ NStores \in Nat
      /\ \A n \in Names : name[n] # 0 => name[n] \in 1..NStores
  BY ListAssumption DEF FInv, CacheTypes, Names
<1>2. /\ Stranger(name, pr) /\ ~InFile(p)
      /\ \A n \in Names : name[n] # 0 => pr.map # name[n]
  BY <1>1 DEF FInv, Apart, InFile, Stranger
<1>3. ASSUME NEW d, Task(p, d)
      PROVE  /\ Head(pr.todo) \in PlainTask /\ Tail(pr.todo) \in Seq(PlainTask)
             /\ d \notin {"unlink", "create", "data", "flag", "header"}
  BY <1>1, <1>2, <1>3, FirstTask, TaskKinds DEF Stranger
<1>4. ASSUME NEW st, WriteMap(p, st) PROVE Kept
  BY <1>1, <1>2, <1>4 DEF WriteMap
<1>5. ASSUME NEW d, Task(p, d), proc' = [proc EXCEPT ![p] = Done(p)] PROVE Stranger(name, proc'[p])
  <2>1. Tail(pr.todo) \in Seq(PlainTask) /\ proc'[p] = [pr EXCEPT !.todo = Tail(pr.todo)]
    BY <1>1, <1>3, <1>5 DEF Done
  <2> QED BY <1>1, <1>2, <2>1 DEF Stranger, ProcRec
<1>6. ASSUME Start(p) PROVE name' = name /\ Stranger(name, proc'[p]) /\ Kept
  <2>1. PICK r : proc' = [proc EXCEPT ![p] = r] /\ r.map = 0 /\ r.out = 0 /\ r.todo = <<>>
    <3>1. PICK opts \in Options, lock \in BOOLEAN :
              proc' = [proc EXCEPT ![p] = [Idle EXCEPT !.at = "check", !.opts = opts, !.lock = lock,
                                              !.dbtime = index[Database].mtime, !.since = changes]]
      BY <1>6 DEF Start
    <3> DEFINE r == [Idle EXCEPT !.at = "check", !.opts = opts, !.lock = lock,
                                 !.dbtime = index[Database].mtime, !.since = changes]
    <3>2. r.map = 0 /\ r.out = 0 /\ r.todo = <<>>
      BY DEF Idle
    <3> HIDE DEF r
    <3> QED BY <3>1, <3>2 DEF r
  <2>2. <<>> \in Seq(PlainTask) /\ proc'[p] = r
    BY <1>1, <2>1
  <2> QED BY <1>6, <2>1, <2>2 DEF Start, Stranger
<1>7. ASSUME CheckPkg(p) PROVE name' = name /\ Stranger(name, proc'[p]) /\ Kept
  <2>1. name' = name /\ store' = store
    BY <1>7 DEF CheckPkg
  <2>2. \/ proc'[p] = [pr EXCEPT !.at = "serve", !.out = name["pkg"]]
        \/ proc'[p] = [pr EXCEPT !.at = "source"]
    BY <1>1, <1>2, <1>7 DEF CheckPkg
  <2>3. name["pkg"] # 0 => name["pkg"] # name["src"]
    BY DEF FInv, Apart
  <2>4. Stranger(name, proc'[p])
    BY <1>1, <1>2, <2>2, <2>3 DEF Stranger, ProcRec
  <2> QED BY <2>1, <2>4
<1>8. ASSUME CheckSource(p) PROVE name' = name /\ Stranger(name, proc'[p]) /\ Kept
  <2>1. name' = name /\ Free # {} /\ store' = [store EXCEPT ![NewStore] = Empty]
    BY <1>2, <1>8 DEF CheckSource
  <2>2. NewStore \in 1..NStores /\ \A n \in Names : NewStore # name[n]
    BY <2>1, FreeStore DEF Used
  <2>3. PICK todo \in {ReuseTasks, ScratchTasks(p)} : \E seen :
            proc' = [proc EXCEPT ![p] = [pr EXCEPT !.at = "build", !.map = NewStore, !.seen = seen, !.todo = todo]]
    <3> DEFINE seen == IF CheckValidity("src", pr.opts, Indexes \ {Database}) THEN name["src"] ELSE 0
               todo == IF CheckValidity("src", pr.opts, Indexes \ {Database}) THEN ReuseTasks ELSE ScratchTasks(p)
    <3>1. proc' = [proc EXCEPT ![p] = [pr EXCEPT !.at = "build", !.map = NewStore, !.seen = seen, !.todo = todo]]
      BY <1>2, <1>8 DEF CheckSource
    <3>2. todo \in {ReuseTasks, ScratchTasks(p)}
      OBVIOUS
    <3> HIDE DEF seen, todo
    <3> QED BY <3>1, <3>2
  <2>4. todo \in Seq(PlainTask)
    BY <1>2, <2>3, StatusPlain, ScratchIsRest DEF InFile
  <2>5. proc'[p].map = NewStore /\ proc'[p].out = pr.out /\ proc'[p].todo = todo
    BY <1>1, <2>3 DEF ProcRec
  <2>6. Stranger(name, proc'[p])
    BY <1>1, <1>2, <2>2, <2>4, <2>5 DEF Stranger
  <2>7. Kept
    BY <1>1, <2>1, <2>2
  <2> QED BY <2>1, <2>6, <2>7
<1>9. ~Unlink(p) /\ ~Create(p) /\ ~WriteData(p) /\ ~ClearFlag(p) /\ ~WriteHeader(p)
  BY <1>3 DEF Unlink, Create, WriteData, ClearFlag, WriteHeader
<1>10. ASSUME Preload(p) PROVE name' = name /\ Stranger(name, proc'[p]) /\ Kept
  <2>1. name' = name /\ Kept
    BY <1>4, <1>10 DEF Preload
  <2>2. proc'[p] = [Done(p) EXCEPT !.other = name["src"] # pr.seen, !.seen = 0]
    BY <1>1, <1>10 DEF Preload
  <2>3. Done(p) = [pr EXCEPT !.todo = Tail(pr.todo)] /\ Tail(pr.todo) \in Seq(PlainTask)
    BY <1>3, <1>10 DEF Done, Preload
  <2>4. proc'[p].map = pr.map /\ proc'[p].out = pr.out /\ proc'[p].todo = Tail(pr.todo)
    BY <1>1, <2>2, <2>3 DEF ProcRec
  <2> QED BY <1>2, <2>1, <2>3, <2>4 DEF Stranger
<1>11. ASSUME Generator(p) \/ SyncMap(p) PROVE name' = name /\ Stranger(name, proc'[p]) /\ Kept
  <2>1. name' = name /\ Stranger(name, proc'[p])
    BY <1>5, <1>11 DEF Generator, SyncMap
  <2>2. Kept
    BY <1>1, <1>2, <1>11 DEF Generator, SyncMap
  <2> QED BY <2>1, <2>2
<1>12. ASSUME OpenIndex(p) PROVE name' = name /\ Stranger(name, proc'[p]) /\ Kept
  <2>1. name' = name /\ store' = store /\ Task(p, "open")
    BY <1>12 DEF OpenIndex
  <2>2. /\ Done(p) = [pr EXCEPT !.todo = Tail(pr.todo)] /\ Tail(pr.todo) \in Seq(PlainTask)
        /\ Tail(pr.todo) # <<>>
    BY <1>1, <1>3, <2>1, FirstTask DEF Done
  <2>3. Tail(Tail(pr.todo)) \in Seq(PlainTask)
    BY <2>2, HeadTailProperties
  <2>4. PICK ix : \/ proc'[p] = [Done(p) EXCEPT !.todo = Tail(@)]
                  \/ proc'[p] = [Done(p) EXCEPT !.open = index[ix]]
    BY <1>1, <1>12 DEF OpenIndex
  <2>5. /\ proc'[p].map = pr.map /\ proc'[p].out = pr.out
        /\ proc'[p].todo \in {Tail(pr.todo), Tail(Tail(pr.todo))}
    <3>1. Done(p) \in ProcRec /\ Done(p).todo = Tail(pr.todo) /\ Done(p).map = pr.map /\ Done(p).out = pr.out
      BY <1>1, <2>1, <2>2, FirstTask DEF ProcRec
    <3> QED BY <2>4, <3>1 DEF ProcRec
  <2>6. Stranger(name, proc'[p])
    BY <1>2, <2>2, <2>3, <2>5 DEF Stranger
  <2> QED BY <2>1, <2>6
<1>13. ASSUME Merge(p) PROVE name' = name /\ Stranger(name, proc'[p]) /\ Kept
  <2>1. name' = name /\ Kept /\ Task(p, "merge")
    BY <1>4, <1>13 DEF Merge
  <2>2. PICK kind : proc' = [proc EXCEPT ![p] = [Done(p) EXCEPT !.newdeps = @ \/ kind.needs # {},
                                                                 !.open = [mtime |-> 0]]]
    BY <1>13 DEF Merge
  <2>3. Done(p) = [pr EXCEPT !.todo = Tail(pr.todo)] /\ Tail(pr.todo) \in Seq(PlainTask)
    BY <1>3, <2>1 DEF Done
  <2>4. proc'[p].map = pr.map /\ proc'[p].out = pr.out /\ proc'[p].todo = Tail(pr.todo)
    BY <1>1, <2>2, <2>3 DEF ProcRec
  <2> QED BY <1>2, <2>1, <2>3, <2>4 DEF Stranger
<1>14. ASSUME SourcesMerged(p) \/ StatusMerged(p) PROVE name' = name /\ Stranger(name, proc'[p]) /\ Kept
  <2>1. name' = name /\ Kept /\ Tail(pr.todo) \in Seq(PlainTask)
    BY <1>3, <1>4, <1>14 DEF SourcesMerged, StatusMerged
  <2>2. PICK more \in {CollectFrom(Sources), CollectFrom(<<Database>>), CollectFrom(Append(Sources, Database)),
                       CollectFrom(<<>>), <<>>} : /\ proc'[p].todo = more \o Tail(pr.todo)
                                                  /\ proc'[p].map = pr.map /\ proc'[p].out = pr.out
    <3>1. ASSUME SourcesMerged(p)
          PROVE  /\ proc'[p].todo = (IF pr.newdeps THEN CollectFrom(Sources) ELSE <<>>) \o Tail(pr.todo)
                 /\ proc'[p].map = pr.map /\ proc'[p].out = pr.out
      BY <1>1, <3>1 DEF SourcesMerged, ProcRec
    <3>2. ASSUME StatusMerged(p)
          PROVE  \E over \in {<<Database>>, Append(Sources, Database), <<>>} :
                    /\ proc'[p].todo = CollectFrom(over) \o Tail(pr.todo)
                    /\ proc'[p].map = pr.map /\ proc'[p].out = pr.out
      <4>1. PICK over \in {<<Database>>, Append(Sources, Database), <<>>} :
                proc' = [proc EXCEPT ![p].todo = CollectFrom(over) \o Tail(@)]
        BY <3>2 DEF StatusMerged
      <4> QED BY <1>1, <4>1 DEF ProcRec
    <3> QED BY <1>14, <3>1, <3>2
  <2>3. more \in Seq(PlainTask)
    <3>1. /\ Sources \in Seq(Indexes) /\ <<Database>> \in Seq(Indexes) /\ <<>> \in Seq(Indexes)
          /\ Append(Sources, Database) \in Seq(Indexes) /\ <<>> \in Seq(PlainTask)
      BY ListedIndexes DEF Indexes
    <3> QED BY <2>2, <3>1, CollectsAll
  <2>4. proc'[p].todo \in Seq(PlainTask)
    BY <2>1, <2>2, <2>3, ConcatProperties
  <2> QED BY <1>2, <2>1, <2>2, <2>4 DEF Stranger
<1>15. ASSUME Collect(p) PROVE name' = name /\ Stranger(name, proc'[p]) /\ Kept
  <2>1. name' = name /\ Stranger(name, proc'[p])
    BY <1>5, <1>15 DEF Collect
  <2>2. \E st : WriteMap(p, st)
    BY <1>15 DEF Collect
  <2> QED BY <1>4, <2>1, <2>2
<1>16. ASSUME MarkClean(p) PROVE name' = name /\ Stranger(name, proc'[p]) /\ Kept
  <2>1. name' = name /\ Kept
    BY <1>1, <1>2, <1>16 DEF MarkClean
  <2>2. proc'[p].map = 0 /\ proc'[p].out = pr.map /\ proc'[p].todo = <<>> /\ <<>> \in Seq(PlainTask)
    BY <1>1, <1>16 DEF MarkClean, ProcRec
  <2> QED BY <1>1, <1>2, <2>1, <2>2 DEF Stranger
<1>17. ASSUME Refused(p) \/ Close(p) \/ Stop(p) PROVE name' = name /\ Stranger(name, proc'[p]) /\ Kept
  <2>1. name' = name /\ proc' = [proc EXCEPT ![p] = Idle] /\ Released
    BY <1>17 DEF Refused, Close, Stop
  <2>2. Kept
    BY <1>1, <2>1, ReleasedKeeps
  <2>3. Stranger(name, proc'[p])
    BY <1>1, <2>1, IdleWorks
  <2> QED BY <2>1, <2>2, <2>3
<1> HIDE DEF Kept, pr
<1>18. name' = name /\ Stranger(name, proc'[p]) /\ Kept
  BY <1>6, <1>7, <1>8, <1>9, <1>10, <1>11, <1>12, <1>13, <1>14, <1>15, <1>16, <1>17 DEF Step
<1> QED BY <1>18 DEF Kept

-----------------------------------------------------------------------------
(* The writer.                                                              *)

\* The first task tells the stage.
LEMMA TaskStage ==
    ASSUME NEW ind, NEW nm, NEW sto, NEW pr, NEW pre, NEW g, Building(ind, nm, sto, pr, pre, g)
    PROVE  /\ pr.todo # <<>>
           /\ pre = <<>> => g = Head(pr.todo).do /\ Head(pr.todo) = Head(Rest(g)) /\ Tail(pr.todo) = Tail(Rest(g))
           /\ pre # <<>> => /\ Head(pr.todo) = pre[1] /\ Tail(pr.todo) = Tail(pre) \o Rest(g)
                            /\ Tail(pre) \in Seq(TaskRec) /\ 1 \in DOMAIN pre
                            /\ Len(Tail(pre)) = Len(pre) - 1 /\ \A i \in DOMAIN Tail(pre) : Tail(pre)[i] = pre[i + 1]
                            /\ \/ g = "sources" /\ pre[1].do \in {"open", "merge"}
                               \/ g \in {"unlink", "sync"} /\ pre[1].do = "collect"
<1>1. pre \in Seq(TaskRec) /\ g \in Stages /\ pr.todo = pre \o Rest(g) /\ Rest(g) \in Seq(TaskRec) /\ Rest(g) # <<>>
  BY Chain DEF Building
<1>2. CASE pre = <<>>
  <2>1. pr.todo = Rest(g)
    BY <1>1, <1>2, Leading
  <2>2. Head(Rest(g)).do = g
    <3>1. \A d, ix : Do(d, ix).do = d
      BY DEF Do
    <3> QED BY <1>1, <3>1, Chain, ZenonT(40) DEF Stages
  <2> QED BY <1>1, <1>2, <2>1, <2>2
<1>3. CASE pre # <<>>
  <2>1. /\ pr.todo # <<>> /\ Head(pr.todo) = pre[1] /\ Tail(pr.todo) = Tail(pre) \o Rest(g)
        /\ Tail(pre) \in Seq(TaskRec)
        /\ Len(Tail(pre)) = Len(pre) - 1 /\ \A i \in DOMAIN Tail(pre) : Tail(pre)[i] = pre[i + 1]
    BY <1>1, <1>3, Leading
  <2>2. 1 \in DOMAIN pre
    BY <1>1, <1>3
  <2>3. g \in {"sources", "unlink", "sync"} /\ Stage(ind, nm, sto, pr, sto[pr.map], pre, g)
    BY <1>3 DEF Building, Phase
  <2>4. g = "sources" => pre[1].do \in {"open", "merge"}
    BY <2>2, <2>3 DEF Stage, Reads, Paired
  <2>5. g \in {"unlink", "sync"} => pre[1].do = "collect"
    BY <2>2, <2>3 DEF Stage, Collects
  <2> QED BY <1>3, <2>1, <2>2, <2>3, <2>4, <2>5
<1> QED BY <1>2, <1>3

LEMMA StageTask ==
    ASSUME NEW ind, NEW nm, NEW sto, NEW pr, NEW g, Building(ind, nm, sto, pr, <<>>, g)
    PROVE  Head(pr.todo) = Head(Rest(g)) /\ Tail(pr.todo) = Tail(Rest(g))
BY TaskStage

\* The writer goes on at a stage.
LEMMA GoesOn ==
    ASSUME NEW ind, NEW nm, NEW sto, NEW pr, NEW pre \in Seq(TaskRec), NEW g \in Stages, pr.at = "build",
           pr.map # 0, pr.map = nm["pkg"], pr.todo = pre \o Rest(g), Phase(ind, nm, sto, pr, pre, g)
    PROVE  Working(ind, nm, sto, pr)
<1>1. Building(ind, nm, sto, pr, pre, g)
  BY DEF Building
<1> QED BY <1>1 DEF Working

LEMMA NoSingles == <<>> \in Seq(TaskRec) /\ \A g \in Stages : <<>> \o Rest(g) = Rest(g)
<1>1. \A g \in Stages : Rest(g) \in Seq(TaskRec)
  BY Chain
<1> QED BY <1>1, ConcatEmptySeq

\* Nobody else has the package cache in a map, or the source cache open to write.
LEMMA WriterAlone ==
    ASSUME FInv, OneWriter, NEW r \in Roots
    PROVE  /\ proc[r].map # 0 /\ proc[r].map = name["pkg"] => ~Shared(proc[r].map)
           /\ proc[r].out # 0 /\ proc[r].out = name["src"] =>
                 ~(Cardinality({q \in Procs : proc[q].out = proc[r].out}) > 1)
<1>1. r \in Procs /\ \A q \in Procs : q = r \/ Stranger(name, proc[q])
  BY RootAssumption DEF OneWriter, FInv, Apart
<1>2. ASSUME proc[r].map # 0, proc[r].map = name["pkg"] PROVE ~Shared(proc[r].map)
  <2>1. {q \in Procs : proc[q].map = proc[r].map} = {r}
    BY <1>1, <1>2 DEF Stranger
  <2>2. Cardinality({q \in Procs : proc[q].map = proc[r].map}) = 1
    BY <2>1, FS_Singleton
  <2> QED BY <2>2 DEF Shared
<1>3. ASSUME proc[r].out # 0, proc[r].out = name["src"]
      PROVE  ~(Cardinality({q \in Procs : proc[q].out = proc[r].out}) > 1)
  <2>1. {q \in Procs : proc[q].out = proc[r].out} = {r}
    BY <1>1, <1>3 DEF Stranger
  <2>2. Cardinality({q \in Procs : proc[q].out = proc[r].out}) = 1
    BY <2>1, FS_Singleton
  <2> QED BY <2>2
<1> QED BY <1>2, <1>3

\* A step of the writer that leaves the names alone.
LEMMA WriterStep ==
    ASSUME FInv, OneWriter, CacheTypes', Clock', NEW r \in Roots, NEW x, proc' = [proc EXCEPT ![r] = x],
           UNCHANGED <<index, changes, name>>, Named', Working(index, name, store', x)
    PROVE  FInv'
<1>1. proc \in [Procs -> ProcRec] /\ r \in Procs
  BY RootAssumption DEF FInv, CacheTypes
<1>2. proc'[r] = x /\ \A q \in Procs : q # r => proc'[q] = proc[q]
  BY <1>1
<1>3. Apart'
  BY <1>2 DEF FInv, Apart
<1>4. Writers'
  BY <1>2 DEF Writers, OneWriter
<1> QED BY <1>3, <1>4 DEF FInv

\* ... and writes the package cache only.
LEMMA WriterWrites ==
    ASSUME FInv, OneWriter, CacheTypes', Clock', NEW r \in Roots, NEW x, proc' = [proc EXCEPT ![r] = x],
           UNCHANGED <<index, changes, name>>, proc[r].map # 0, proc[r].map = name["pkg"],
           \A s \in 1..NStores : s # proc[r].map => store'[s] = store[s],
           PkgOK(index, changes, store'[proc[r].map]), Working(index, name, store', x)
    PROVE  FInv'
<1>1. name["src"] # 0 => name["src"] \in 1..NStores /\ name["src"] # proc[r].map
  BY ListAssumption DEF FInv, CacheTypes, Names, Apart
<1>2. Named'
  BY <1>1 DEF FInv, Named
<1> QED BY <1>2, WriterStep

LEMMA MapWritten ==
    ASSUME FInv, OneWriter, NEW r \in Roots, proc[r].map # 0, proc[r].map = name["pkg"],
           NEW st \in StoreRec, ~st.torn, WriteMap(r, st)
    PROVE  /\ store'[proc[r].map] = [st EXCEPT !.safe = FALSE]
           /\ \A s \in 1..NStores : s # proc[r].map => store'[s] = store[s]
<1>1. DOMAIN store = 1..NStores /\ proc[r].map \in 1..NStores
  BY ListAssumption DEF FInv, CacheTypes, Names
<1>2. ~Shared(proc[r].map)
  BY WriterAlone
<1> DEFINE m == proc[r].map
           new == [st EXCEPT !.safe = FALSE, !.torn = @ \/ Shared(m)]
<1>3. store' = [store EXCEPT ![m] = new]
  BY DEF WriteMap
<1>4. new = [st EXCEPT !.safe = FALSE]
  BY <1>2 DEF StoreRec
<1> HIDE DEF new
<1> QED BY <1>1, <1>3, <1>4

\* The flags are not what the cache says.
LEMMA SameFiles ==
    ASSUME NEW st, NEW st2, st2.files = st.files, st2.provs = st.provs
    PROVE  /\ \A ind, ch : /\ Base(ind, ch, st2) <=> Base(ind, ch, st)
                           /\ Fresh(ind, st2) <=> Fresh(ind, st)
                           /\ Whole(ind, st2) <=> Whole(ind, st)
           /\ \A ix : Has(st2, ix) <=> Has(st, ix)
           /\ (NoDb(st2) <=> NoDb(st)) /\ (Needs(st2) <=> Needs(st))
<1>1. \A ind, ch : (Base(ind, ch, st2) <=> Base(ind, ch, st)) /\ (Fresh(ind, st2) <=> Fresh(ind, st))
  BY DEF Base, Dates, Fresh
<1>2. \A ix : Has(st2, ix) <=> Has(st, ix)
  BY DEF Has
<1>3. (NoDb(st2) <=> NoDb(st)) /\ (Needs(st2) <=> Needs(st))
  BY DEF NoDb, Needs
<1>4. \A ind : Whole(ind, st2) <=> Whole(ind, st)
  BY <1>1, <1>2 DEF Whole
<1> QED BY <1>1, <1>2, <1>3, <1>4

LEMMA EmptyOK ==
    /\ Empty \in StoreRec /\ NoDb(Empty) /\ ~Needs(Empty) /\ Unfinished(Empty)
    /\ ~Empty.torn /\ Empty.kept /\ Empty.dirty /\ Empty.provs = {}
    /\ \A ind, ch : PkgOK(ind, ch, Empty) /\ SrcOK(ind, ch, Empty)
<1>1. Empty \in StoreRec
  BY DEF Empty, StoreRec, Hashes
<1>2. Empty.files = <<>> /\ DOMAIN <<>> = {} /\ Empty.provs = {} /\ Empty.dirty /\ Empty.kept /\ ~Empty.torn
  BY DEF Empty
<1>3. NoDb(Empty) /\ Unfinished(Empty) /\ \A ind, ch : Base(ind, ch, Empty)
  BY <1>2 DEF NoDb, Unfinished, Base, Dates
<1>4. ~Needs(Empty)
  BY <1>2 DEF Needs, Needed
<1> QED BY <1>1, <1>2, <1>3, <1>4 DEF PkgOK, SrcOK

\* What the writer's step starts from.
LEMMA WriterState ==
    ASSUME FInv, NEW r \in Roots
    PROVE  /\ r \in Procs /\ proc \in [Procs -> ProcRec] /\ proc[r] \in ProcRec
           /\ DOMAIN store = 1..NStores /\ name \in [Names -> 0..NStores] /\ Names = {"pkg", "src"}
           /\ index \in [Indexes -> IndexRec] /\ changes \in Nat /\ NStores \in Nat
           /\ Working(index, name, store, proc[r])
           /\ name["pkg"] # 0 => /\ name["pkg"] \in 1..NStores /\ name["pkg"] # name["src"]
                                 /\ PkgOK(index, changes, store[name["pkg"]])
           /\ name["src"] # 0 => /\ name["src"] \in 1..NStores
                                 /\ SrcOK(index, changes, store[name["src"]])
BY ListAssumption, RootAssumption DEF FInv, CacheTypes, Names, Writers, Named, Apart

-----------------------------------------------------------------------------
(* ... before the build.                                                    *)

LEMMA WriterStarts ==
    ASSUME FInv, OneWriter, CacheTypes', Clock', NEW r \in Roots, Start(r) \/ CheckPkg(r) PROVE FInv'
<1> DEFINE pr == proc[r]
<1>1. /\ r \in Procs /\ pr \in ProcRec /\ Working(index, name, store, pr)
  BY WriterState
<1>2. UNCHANGED <<index, changes, name, store>>
  BY DEF Start, CheckPkg
<1>3. Named'
  BY <1>2 DEF FInv, Named
<1>4. \E x : proc' = [proc EXCEPT ![r] = x] /\ Working(index, name, store, x)
  <2>1. CASE Start(r)
    <3>1. PICK opts \in Options, lock \in BOOLEAN :
              proc' = [proc EXCEPT ![r] = [Idle EXCEPT !.at = "check", !.opts = opts, !.lock = lock,
                                              !.dbtime = index[Database].mtime, !.since = changes]]
      BY <2>1 DEF Start
    <3> DEFINE x == [Idle EXCEPT !.at = "check", !.opts = opts, !.lock = lock,
                                 !.dbtime = index[Database].mtime, !.since = changes]
    <3>2. x.at = "check" /\ x.map = 0 /\ x.out = 0 /\ x.todo = <<>> /\ ~x.newdeps
      BY DEF Idle
    <3> HIDE DEF x
    <3>3. Working(index, name, store, x)
      BY <3>2 DEF Working
    <3> QED BY <3>1, <3>3 DEF x
  <2>2. CASE CheckPkg(r)
    <3>1. pr.at = "check" /\ pr.todo = <<>> /\ pr.map = 0 /\ pr.out = 0 /\ ~pr.newdeps
      BY <1>1, <2>2 DEF CheckPkg, Working
    <3> DEFINE u == <<Do("unlink", "pkg"), Do("create", "pkg")>>
               x == [pr EXCEPT !.at = "serve", !.out = name["pkg"]]
               y == [pr EXCEPT !.at = "build", !.todo = u]
    <3>2. proc' = [proc EXCEPT ![r] = x] \/ proc' = [proc EXCEPT ![r] = y]
      BY <2>2 DEF CheckPkg, InFile
    <3> HIDE DEF u
    <3>3. x.at = "serve" /\ x.todo = <<>> /\ x.map = 0
      BY <1>1, <3>1 DEF ProcRec
    <3>4. y.at = "build" /\ y.todo = u /\ y.map = 0 /\ y.out = 0 /\ ~y.newdeps
      BY <1>1, <3>1 DEF ProcRec
    <3> HIDE DEF x, y
    <3>5. Working(index, name, store, x)
      BY <3>3 DEF Working
    <3>6. Opening(name, y)
      BY <3>4 DEF Opening, u
    <3>7. Working(index, name, store, y)
      BY <3>4, <3>6 DEF Working
    <3> QED BY <3>2, <3>5, <3>7
  <2> QED BY <2>1, <2>2
<1>5. PICK x : proc' = [proc EXCEPT ![r] = x] /\ Working(index, name, store, x)
  BY <1>4
<1> QED BY <1>2, <1>3, <1>5, WriterStep

\* A build in the new file: from the source cache, or from the lists.
LEMMA WriterBegins ==
    ASSUME FInv, OneWriter, CacheTypes', Clock', NEW r \in Roots, CheckSource(r) PROVE FInv'
<1> DEFINE pr == proc[r]
           reuse == CheckValidity("src", pr.opts, Indexes \ {Database})
           seen == IF reuse THEN name["src"] ELSE 0
           todo == IF reuse THEN ReuseTasks ELSE ScratchTasks(r)
           x == [pr EXCEPT !.at = "build", !.seen = seen, !.todo = todo]
<1>1. r \in Procs /\ pr \in ProcRec /\ Working(index, name, store, pr)
  BY WriterState
<1>2. /\ pr.at = "source" /\ pr.todo = <<>> /\ pr.out = 0 /\ ~pr.newdeps
      /\ pr.map # 0 /\ pr.map = name["pkg"] /\ store[pr.map] = Empty
  BY <1>1 DEF CheckSource, Working
<1>3. UNCHANGED <<index, changes, name, store>>
  BY DEF CheckSource, InFile
<1>4. proc' = [proc EXCEPT ![r] = x]
  <2>1. proc' = [proc EXCEPT ![r] = [pr EXCEPT !.at = "build", !.map = pr.map, !.seen = seen, !.todo = todo]]
    BY DEF CheckSource, InFile
  <2>2. [pr EXCEPT !.at = "build", !.map = pr.map, !.seen = seen, !.todo = todo] = x
    BY <1>1 DEF ProcRec
  <2> QED BY <2>1, <2>2
<1>5. Named'
  BY <1>3 DEF FInv, Named
<1>6. reuse => name["src"] # 0 /\ ~store[name["src"]].dirty
  BY DEF CheckValidity, Matches
<1>7. todo = (IF reuse THEN ReuseTasks ELSE MergeSources \o Rest("sources"))
  BY ScratchIsRest
<1> HIDE DEF reuse, seen, todo
<1>8. x.at = "build" /\ x.todo = todo /\ x.map = pr.map /\ x.out = 0 /\ x.newdeps = FALSE
  BY <1>1, <1>2 DEF ProcRec
<1> HIDE DEF x
<1>9. CASE reuse
  <2>1. ReuseTasks = <<>> \o Rest("preload") /\ <<>> \in Seq(TaskRec) /\ "preload" \in Stages
    <3>1. Rest("preload") = ReuseTasks
      BY DEF Rest
    <3>2. Rest("preload") \in Seq(TaskRec)
      BY Chain DEF Stages
    <3> QED BY <3>1, <3>2, ConcatEmptySeq DEF Stages
  <2>2. Stage(index, name, store, x, Empty, <<>>, "preload")
    BY <1>6, <1>8, <1>9 DEF Stage
  <2>3. Building(index, name, store, x, <<>>, "preload")
    BY <1>2, <1>7, <1>8, <1>9, <2>1, <2>2, EmptyOK DEF Building, Phase
  <2>4. Working(index, name, store, x)
    BY <1>8, <2>1, <2>3 DEF Working
  <2> QED BY <1>3, <1>4, <1>5, <2>4, WriterStep
<1>10. CASE ~reuse
  <2>1. MergeSources \in Seq(TaskRec) /\ "sources" \in Stages
    BY MergesPaired, PlainIsTask DEF Stages
  <2>2. Reads(index, x, MergeSources)
    BY MergesPaired DEF Reads
  <2>3. Stage(index, name, store, x, Empty, MergeSources, "sources")
    <3>1. Needs(Empty) = FALSE
      BY EmptyOK DEF Needs
    <3> QED BY <1>8, <2>2, <3>1, EmptyOK DEF Stage
  <2>4. Building(index, name, store, x, MergeSources, "sources")
    BY <1>2, <1>7, <1>8, <1>10, <2>1, <2>3, EmptyOK DEF Building, Phase
  <2>5. Working(index, name, store, x)
    BY <1>8, <2>1, <2>4 DEF Working
  <2> QED BY <1>3, <1>4, <1>5, <2>5, WriterStep
<1> QED BY <1>9, <1>10

-----------------------------------------------------------------------------
(* ... and the names.                                                       *)

\* What the writer knows at a task of its own, once there is a file to build in.
LEMMA WriterTask ==
    ASSUME FInv, NEW r \in Roots, NEW d, Task(r, d)
    PROVE  \/ Opening(name, proc[r])
           \/ \E pre, g : /\ Building(index, name, store, proc[r], pre, g)
                          /\ pre = <<>> => g = d
                          /\ pre # <<>> => \/ g = "sources" /\ d \in {"open", "merge"}
                                           \/ g \in {"unlink", "sync"} /\ d = "collect"
<1>1. proc[r].at = "build" /\ d = Head(proc[r].todo).do /\ Working(index, name, store, proc[r])
  BY WriterState DEF Task
<1>2. CASE Opening(name, proc[r])
  BY <1>2
<1>3. CASE \E pre \in Seq(TaskRec), g \in Stages : Building(index, name, store, proc[r], pre, g)
  <2>1. PICK pre, g : Building(index, name, store, proc[r], pre, g)
    BY <1>3
  <2>2. /\ pre = <<>> => g = d
        /\ pre # <<>> => \/ g = "sources" /\ d \in {"open", "merge"}
                         \/ g \in {"unlink", "sync"} /\ d = "collect"
    BY <1>1, <2>1, TaskStage
  <2> QED BY <2>1, <2>2
<1> QED BY <1>1, <1>2, <1>3 DEF Working

\* A process that opens its file has no other task.
LEMMA OpeningTasks ==
    ASSUME NEW nm, NEW pr, Opening(nm, pr)
    PROVE  \/ Head(pr.todo) = Do("unlink", "pkg") /\ Tail(pr.todo) = <<Do("create", "pkg")>>
           \/ Head(pr.todo) = Do("create", "pkg") /\ nm["pkg"] = 0
<1> DEFINE a == Do("unlink", "pkg")
           b == Do("create", "pkg")
<1>1. pr.todo = <<a, b>> \/ (pr.todo = <<b>> /\ nm["pkg"] = 0)
  BY DEF Opening
<1> HIDE DEF a, b
<1>2. Head(<<a, b>>) = a /\ Tail(<<a, b>>) = <<b>> /\ Head(<<b>>) = b
  OBVIOUS
<1>3. \/ Head(pr.todo) = a /\ Tail(pr.todo) = <<b>>
      \/ Head(pr.todo) = b /\ nm["pkg"] = 0
  BY <1>1, <1>2
<1> QED BY <1>3 DEF a, b

LEMMA WriterBuilds ==
    ASSUME FInv, NEW r \in Roots, NEW d, Task(r, d), d \notin {"unlink", "create", "open", "merge", "collect"}
    PROVE  Building(index, name, store, proc[r], <<>>, d)
<1>1. ~Opening(name, proc[r])
  BY OpeningTasks DEF Task, Do
<1>2. PICK pre, g : /\ Building(index, name, store, proc[r], pre, g)
                    /\ pre = <<>> => g = d
                    /\ pre # <<>> => \/ g = "sources" /\ d \in {"open", "merge"}
                                     \/ g \in {"unlink", "sync"} /\ d = "collect"
  BY <1>1, WriterTask
<1> QED BY <1>2

LEMMA WriterUnlinks ==
    ASSUME FInv, OneWriter, CacheTypes', Clock', NEW r \in Roots, Unlink(r) PROVE FInv'
<1> DEFINE pr == proc[r]
           n == Head(pr.todo).ix
           x == [pr EXCEPT !.todo = Tail(pr.todo)]
<1>1. /\ r \in Procs /\ pr \in ProcRec /\ proc \in [Procs -> ProcRec] /\ Working(index, name, store, pr)
      /\ name \in [Names -> 0..NStores] /\ Names = {"pkg", "src"} /\ Task(r, "unlink")
  BY WriterState DEF Unlink
<1>2. /\ name' = [name EXCEPT ![n] = 0] /\ proc' = [proc EXCEPT ![r] = x] /\ index' = index /\ changes' = changes
      /\ Released
  BY DEF Unlink, Done
<1>3. x.at = "build" /\ x.todo = Tail(pr.todo) /\ x.map = pr.map /\ x.out = pr.out /\ x.newdeps = pr.newdeps
  BY <1>1 DEF ProcRec, Task
<1> HIDE DEF n, x
<1>4. \A m \in Names : name'[m] = IF m = n THEN 0 ELSE name[m]
  BY <1>1, <1>2
<1>5. \A m \in Names : name'[m] # 0 => store'[name'[m]] = store[name'[m]]
  BY <1>2, ReleasedKeeps DEF FInv, CacheTypes
<1>6. proc'[r] = x /\ \A q \in Procs : q # r => proc'[q] = proc[q]
  BY <1>1, <1>2
<1>7. Named'
  BY <1>1, <1>2, <1>4, <1>5 DEF FInv, Named
<1>8. Apart'
  BY <1>1, <1>4, <1>6 DEF FInv, Apart, Stranger
<1>9. Working(index, name', store', x)
  <2>1. CASE Opening(name, pr)
    <3>1. Head(pr.todo) = Do("unlink", "pkg") /\ Tail(pr.todo) = <<Do("create", "pkg")>>
      BY <1>1, <2>1, OpeningTasks DEF Task, Do
    <3>2. name'["pkg"] = 0
      BY <1>1, <1>4, <3>1 DEF n, Do
    <3>3. Opening(name', x)
      BY <1>3, <2>1, <3>1, <3>2 DEF Opening
    <3> QED BY <1>3, <3>3 DEF Working
  <2>2. CASE ~Opening(name, pr)
    <3>1. Building(index, name, store, pr, <<>>, "unlink")
      BY <1>1, <2>2, WriterTask
    <3>2. Head(pr.todo) = Do("unlink", "src") /\ Tail(pr.todo) = Rest("create")
      <4>1. Head(pr.todo) = Head(Rest("unlink")) /\ Tail(pr.todo) = Tail(Rest("unlink"))
        BY <3>1, StageTask
      <4>2. Head(Rest("unlink")) = Do("unlink", "src") /\ Tail(Rest("unlink")) = Rest("create")
        BY Chain
      <4> QED BY <4>1, <4>2
    <3>3. name'["src"] = 0 /\ name'["pkg"] = name["pkg"]
      BY <1>1, <1>4, <3>2 DEF n, Do
    <3> DEFINE st == store[pr.map]
    <3>4. pr.map # 0 /\ pr.map = name["pkg"] /\ store'[pr.map] = st
      BY <1>1, <1>5, <3>1, <3>3 DEF Building
    <3>5. /\ ~st.torn /\ st.kept /\ pr.out = 0 /\ st.dirty
          /\ NoDb(st) /\ ~pr.newdeps /\ st.fdeps = Needs(st) /\ Pending(index, st, <<>>)
      BY <3>1 DEF Building, Phase, Stage
    <3> HIDE DEF st
    <3>6. Whole(index, st)
      BY <3>5 DEF Pending, Whole
    <3>7. Stage(index, name', store', x, st, <<>>, "create")
      BY <1>3, <3>3, <3>5, <3>6 DEF Stage, Ready
    <3>8. <<>> \in Seq(TaskRec) /\ "create" \in Stages /\ Rest("create") = <<>> \o Rest("create")
      BY Chain, Leading DEF Stages
    <3>9. Building(index, name', store', x, <<>>, "create")
      BY <1>3, <3>2, <3>3, <3>4, <3>5, <3>7, <3>8 DEF Building, Phase
    <3> QED BY <1>3, <3>8, <3>9 DEF Working
  <2> QED BY <2>1, <2>2
<1>10. Writers'
  BY <1>2, <1>6, <1>9 DEF Writers, OneWriter
<1> QED BY <1>7, <1>8, <1>10 DEF FInv

LEMMA WriterCreates ==
    ASSUME FInv, OneWriter, CacheTypes', Clock', NEW r \in Roots, Create(r) PROVE FInv'
<1> DEFINE pr == proc[r]
           n == Head(pr.todo).ix
           s == NewStore
           y == [pr EXCEPT !.map = s, !.at = "source", !.todo = <<>>]
           x == [[pr EXCEPT !.todo = Tail(pr.todo)] EXCEPT !.out = s]
<1>1. /\ r \in Procs /\ pr \in ProcRec /\ proc \in [Procs -> ProcRec] /\ Working(index, name, store, pr)
      /\ name \in [Names -> 0..NStores] /\ Names = {"pkg", "src"} /\ Task(r, "create") /\ NStores \in Nat
      /\ DOMAIN store = 1..NStores
  BY WriterState DEF Create
<1>2. n \in Names
  BY <1>1, FirstTask, TaskKinds DEF FInv
<1>3. name[n] = 0
  <2>1. CASE Opening(name, pr)
    BY <1>1, <2>1, OpeningTasks DEF Task, Do
  <2>2. CASE ~Opening(name, pr)
    <3>1. Building(index, name, store, pr, <<>>, "create")
      BY <1>1, <2>2, WriterTask
    <3>2. Head(pr.todo) = Do("create", "src")
      BY <3>1, TaskStage, Chain
    <3>3. name["src"] = 0
      BY <3>1 DEF Building, Phase, Stage
    <3> QED BY <3>2, <3>3 DEF Do
  <2> QED BY <2>1, <2>2
<1>4. /\ Free # {} /\ name' = [name EXCEPT ![n] = s] /\ store' = [store EXCEPT ![s] = Empty]
      /\ proc' = [proc EXCEPT ![r] = IF n = "pkg" THEN y ELSE x] /\ index' = index /\ changes' = changes
  BY <1>3 DEF Create, Done
<1>5. /\ s \in 1..NStores /\ \A m \in Names : name[m] # s
      /\ \A q \in Procs : proc[q].map # s /\ proc[q].out # s
  BY <1>4, FreeStore DEF Used
<1>6. /\ x.at = "build" /\ x.todo = Tail(pr.todo) /\ x.map = pr.map /\ x.out = s /\ x.newdeps = pr.newdeps
      /\ y.at = "source" /\ y.todo = <<>> /\ y.map = s /\ y.out = pr.out /\ y.newdeps = pr.newdeps
  BY <1>1 DEF ProcRec, Task
<1> HIDE DEF n, s, x, y
<1>7. \A m \in Names : name'[m] = IF m = n THEN s ELSE name[m]
  BY <1>1, <1>4
<1>8. store'[s] = Empty /\ \A o \in 1..NStores : o # s => store'[o] = store[o]
  BY <1>1, <1>4, <1>5
<1>9. proc'[r] = (IF n = "pkg" THEN y ELSE x) /\ \A q \in Procs : q # r => proc'[q] = proc[q]
  BY <1>1, <1>4
<1>10. Named'
  <2>1. name'["pkg"] # 0 => PkgOK(index', changes', store'[name'["pkg"]])
    <3>1. CASE n = "pkg"
      BY <1>1, <1>7, <1>8, <3>1, EmptyOK
    <3>2. CASE n # "pkg"
      BY <1>1, <1>4, <1>5, <1>7, <1>8, <3>2 DEF FInv, Named
    <3> QED BY <3>1, <3>2
  <2>2. name'["src"] # 0 => SrcOK(index', changes', store'[name'["src"]])
    <3>1. CASE n = "src"
      BY <1>1, <1>7, <1>8, <3>1, EmptyOK
    <3>2. CASE n # "src"
      BY <1>1, <1>4, <1>5, <1>7, <1>8, <3>2 DEF FInv, Named
    <3> QED BY <3>1, <3>2
  <2> QED BY <2>1, <2>2 DEF Named
<1>11. Apart'
  <2>1. name'["pkg"] # 0 => name'["pkg"] # name'["src"]
    BY <1>1, <1>2, <1>5, <1>7 DEF FInv, Apart
  <2>2. ASSUME NEW q \in Procs \ Roots PROVE Stranger(name', proc'[q])
    <3>1. Stranger(name, proc[q]) /\ proc'[q] = proc[q]
      BY <1>9 DEF FInv, Apart
    <3> QED BY <1>1, <1>5, <1>7, <3>1 DEF Stranger
  <2> QED BY <2>1, <2>2 DEF Apart
<1>12. Working(index, name', store', proc'[r])
  <2>1. CASE Opening(name, pr)
    <3>1. n = "pkg" /\ pr.out = 0 /\ ~pr.newdeps
      BY <1>1, <2>1, OpeningTasks DEF Task, Do, Opening, n
    <3>2. name'["pkg"] = s /\ s # 0
      BY <1>1, <1>5, <1>7, <3>1
    <3> QED BY <1>6, <1>8, <1>9, <3>1, <3>2 DEF Working
  <2>2. CASE ~Opening(name, pr)
    <3>1. Building(index, name, store, pr, <<>>, "create")
      BY <1>1, <2>2, WriterTask
    <3>2. Head(pr.todo) = Do("create", "src") /\ Tail(pr.todo) = Rest("data")
      <4>1. Head(pr.todo) = Head(Rest("create")) /\ Tail(pr.todo) = Tail(Rest("create"))
        BY <3>1, StageTask
      <4>2. Head(Rest("create")) = Do("create", "src") /\ Tail(Rest("create")) = Rest("data")
        BY Chain
      <4> QED BY <4>1, <4>2
    <3>3. name'["src"] = s /\ name'["pkg"] = name["pkg"] /\ proc'[r] = x /\ s # 0
      BY <1>1, <1>5, <1>7, <1>9, <3>2 DEF n, Do
    <3> DEFINE st == store[pr.map]
    <3>4. pr.map # 0 /\ pr.map = name["pkg"] /\ store'[pr.map] = st
      BY <1>1, <1>5, <1>8, <3>1 DEF Building
    <3>5. ~st.torn /\ st.kept /\ st.dirty /\ Ready(index, pr, st)
      BY <3>1 DEF Building, Phase, Stage
    <3> HIDE DEF st
    <3>6. Stage(index, name', store', x, st, <<>>, "data")
      BY <1>6, <1>8, <3>3, <3>5 DEF Stage, Ready
    <3>7. <<>> \in Seq(TaskRec) /\ "data" \in Stages /\ Rest("data") = <<>> \o Rest("data")
      BY Chain, Leading DEF Stages
    <3>8. Building(index, name', store', x, <<>>, "data")
      BY <1>6, <3>2, <3>3, <3>4, <3>5, <3>6, <3>7 DEF Building, Phase
    <3> QED BY <1>6, <3>3, <3>7, <3>8 DEF Working
  <2> QED BY <2>1, <2>2
<1>13. Writers'
  BY <1>4, <1>12 DEF Writers, OneWriter
<1> QED BY <1>10, <1>11, <1>13 DEF FInv

-----------------------------------------------------------------------------
(* ... the lists.                                                           *)

LEMMA PairedTail ==
    ASSUME NEW pre \in Seq(TaskRec), pre # <<>>, Paired(pre)
    PROVE  /\ Tail(pre) \in Seq(TaskRec) /\ Paired(Tail(pre))
           /\ pre[1].do \in {"open", "merge"} /\ pre[1].ix \in Listed
           /\ pre[1].do = "open" => Tail(pre) # <<>> /\ Tail(pre)[1] = Do("merge", pre[1].ix)
           /\ pre[1].do = "merge" => (Tail(pre) # <<>> => Tail(pre)[1].do = "open")
<1> DEFINE t == Tail(pre)
<1>1. /\ t \in Seq(TaskRec) /\ Len(t) = Len(pre) - 1 /\ \A i \in 1..Len(t) : t[i] = pre[i + 1]
      /\ DOMAIN t = 1..Len(t) /\ DOMAIN pre = 1..Len(pre) /\ Len(pre) \in Nat \ {0} /\ Len(t) \in Nat
  BY HeadTailProperties
<1> HIDE DEF t
<1>0. t # <<>> <=> Len(t) # 0
  BY <1>1
<1>2. /\ pre[1].do \in {"open", "merge"} /\ pre[1].ix \in Listed
      /\ pre[1].do = "open" => 1 + 1 \in DOMAIN pre /\ pre[1 + 1] = Do("merge", pre[1].ix)
  BY <1>1 DEF Paired
<1>3. ASSUME NEW i \in DOMAIN t
      PROVE  /\ t[i].do \in {"open", "merge"} /\ t[i].ix \in Listed
             /\ t[i].do = "open" => i + 1 \in DOMAIN t /\ t[i + 1] = Do("merge", t[i].ix)
             /\ (t[i].do = "merge" /\ i # 1) => t[i - 1].do = "open"
  <2> DEFINE j == i + 1
  <2>1. t[i] = pre[j] /\ j \in DOMAIN pre /\ j # 1 /\ i \in Nat
    BY <1>1, <1>3
  <2>2. /\ pre[j].do \in {"open", "merge"} /\ pre[j].ix \in Listed
        /\ pre[j].do = "open" => j + 1 \in DOMAIN pre /\ pre[j + 1] = Do("merge", pre[j].ix)
        /\ pre[j].do = "merge" => pre[j - 1].do = "open"
    BY <2>1 DEF Paired
  <2>3. j + 1 \in DOMAIN pre => i + 1 \in DOMAIN t /\ t[i + 1] = pre[j + 1]
    BY <1>1, <2>1
  <2>4. i # 1 => t[i - 1] = pre[j - 1]
    BY <1>1, <1>3, <2>1
  <2> HIDE DEF j
  <2> QED BY <2>1, <2>2, <2>3, <2>4
<1>4. Paired(t)
  BY <1>3 DEF Paired
<1>5. pre[1].do = "open" => t # <<>> /\ t[1] = pre[1 + 1]
  BY <1>0, <1>1, <1>2
<1>6. ASSUME pre[1].do = "merge", t # <<>> PROVE t[1].do = "open"
  <2>1. 2 \in DOMAIN pre /\ t[1] = pre[2]
    BY <1>0, <1>1, <1>6
  <2>2. pre[2].do = "merge" => pre[2 - 1].do = "open"
    BY <2>1 DEF Paired
  <2>3. pre[2].do \in {"open", "merge"}
    BY <2>1 DEF Paired
  <2> QED BY <1>6, <2>1, <2>2, <2>3
<1> QED BY <1>1, <1>2, <1>4, <1>5, <1>6 DEF t

LEMMA WriterOpens ==
    ASSUME FInv, OneWriter, CacheTypes', Clock', NEW r \in Roots, OpenIndex(r) PROVE FInv'
<1> DEFINE pr == proc[r]
           ix == Head(pr.todo).ix
<1>1. /\ r \in Procs /\ pr \in ProcRec /\ proc \in [Procs -> ProcRec] /\ Task(r, "open")
      /\ UNCHANGED <<index, changes, name, store>>
  BY WriterState DEF OpenIndex
<1>2. Named'
  BY <1>1 DEF FInv, Named
<1>3. PICK pre : Building(index, name, store, pr, pre, "sources") /\ pre # <<>>
  <2>1. ~Opening(name, pr)
    BY <1>1, OpeningTasks DEF Task, Do
  <2>2. PICK pre, g : /\ Building(index, name, store, pr, pre, g)
                      /\ pre = <<>> => g = "open"
                      /\ pre # <<>> => \/ g = "sources" /\ "open" \in {"open", "merge"}
                                       \/ g \in {"unlink", "sync"} /\ "open" = "collect"
    BY <1>1, <2>1, WriterTask
  <2>3. pre # <<>>
    BY <2>2 DEF Building, Stages
  <2> QED BY <2>2, <2>3
<1>4. /\ Head(pr.todo) = pre[1] /\ Tail(pr.todo) = Tail(pre) \o Rest("sources") /\ pre \in Seq(TaskRec)
  BY <1>3, TaskStage DEF Building
<1>5. /\ ~store[pr.map].torn /\ store[pr.map].kept /\ pr.out = 0 /\ store[pr.map].dirty
      /\ Reads(index, pr, pre) /\ NoDb(store[pr.map]) /\ store[pr.map].provs = {}
      /\ pr.newdeps = Needs(store[pr.map]) /\ pr.map # 0 /\ pr.map = name["pkg"]
  BY <1>3 DEF Building, Phase, Stage
<1>6. pre[1].do = "open" /\ pre[1].ix = ix
  BY <1>1, <1>4 DEF Task
<1>7. /\ Tail(pre) \in Seq(TaskRec) /\ Paired(Tail(pre)) /\ ix \in Listed
      /\ Tail(pre) # <<>> /\ Tail(pre)[1] = Do("merge", ix)
  BY <1>3, <1>4, <1>5, <1>6, PairedTail DEF Reads
<1>8. Do("merge", ix).do = "merge" /\ Do("merge", ix).ix = ix
  BY DEF Do
<1> DEFINE one == [pr EXCEPT !.todo = Tail(pr.todo)]
           x == [one EXCEPT !.todo = Tail(Tail(pr.todo))]
           y == [one EXCEPT !.open = index[ix]]
<1>9. one.todo = Tail(pr.todo)
  BY <1>1 DEF ProcRec
<1>10. \/ proc' = [proc EXCEPT ![r] = x]
       \/ proc' = [proc EXCEPT ![r] = y] /\ Exists(ix)
  <2>1. \/ proc' = [proc EXCEPT ![r] = [one EXCEPT !.todo = Tail(@)]]
        \/ proc' = [proc EXCEPT ![r] = y] /\ Exists(ix)
    BY DEF OpenIndex, Done
  <2>2. [one EXCEPT !.todo = Tail(@)] = x
    BY <1>9
  <2> HIDE DEF one, x, y
  <2> QED BY <2>1, <2>2
<1>11. /\ x.at = "build" /\ x.todo = Tail(Tail(pr.todo)) /\ x.map = pr.map /\ x.out = 0 /\ x.newdeps = pr.newdeps
       /\ y.at = "build" /\ y.todo = Tail(pr.todo) /\ y.map = pr.map /\ y.out = 0 /\ y.newdeps = pr.newdeps
       /\ y.open = index[ix]
  BY <1>1, <1>5 DEF ProcRec, Task
<1> HIDE DEF x, y, one, ix
<1>12. "sources" \in Stages /\ Rest("sources") \in Seq(TaskRec)
  BY Chain DEF Stages
<1>13. Working(index, name, store', x)
  <2>1. /\ Tail(Tail(pre)) \in Seq(TaskRec) /\ Paired(Tail(Tail(pre)))
        /\ Tail(Tail(pre)) # <<>> => Tail(Tail(pre))[1].do = "open"
    BY <1>7, <1>8, PairedTail
  <2>2. x.todo = Tail(Tail(pre)) \o Rest("sources")
    <3> DEFINE t == Tail(pre)
    <3> HIDE DEF t
    <3>1. t \in Seq(TaskRec) /\ t # <<>> => Tail(t \o Rest("sources")) = Tail(t) \o Rest("sources")
      BY <1>12, Leading
    <3> QED BY <1>4, <1>7, <1>11, <3>1 DEF t
  <2>3. Reads(index, x, Tail(Tail(pre)))
    BY <2>1 DEF Reads
  <2>4. Phase(index, name, store', x, Tail(Tail(pre)), "sources")
    BY <1>1, <1>5, <1>11, <2>3 DEF Phase, Stage
  <2> QED BY <1>5, <1>11, <1>12, <2>1, <2>2, <2>4, GoesOn
<1>14. Exists(ix) => Working(index, name, store', y)
  <2> SUFFICES ASSUME Exists(ix) PROVE Working(index, name, store', y)
    OBVIOUS
  <2>1. index[ix] \in IndexRec /\ index[ix].mtime # 0
    BY <1>7, WriterState, ListedIndexes DEF Exists
  <2>2. Reads(index, y, Tail(pre))
    BY <1>7, <1>8, <1>11, <2>1 DEF Reads
  <2>3. Phase(index, name, store', y, Tail(pre), "sources")
    BY <1>1, <1>5, <1>11, <2>2 DEF Phase, Stage
  <2> QED BY <1>4, <1>5, <1>7, <1>11, <1>12, <2>3, GoesOn
<1>15. \E z : proc' = [proc EXCEPT ![r] = z] /\ Working(index, name, store', z)
  BY <1>10, <1>13, <1>14
<1>16. PICK z : proc' = [proc EXCEPT ![r] = z] /\ Working(index, name, store', z)
  BY <1>15
<1> QED BY <1>1, <1>2, <1>16, WriterStep

\* A file more in the cache.
LEMMA Push ==
    ASSUME NEW files \in Seq(FileRec), NEW f \in FileRec
    PROVE  LET new == <<f>> \o files IN
           /\ new \in Seq(FileRec)
           /\ \A k \in DOMAIN new : new[k] = f \/ \E j \in DOMAIN files : new[k] = files[j]
           /\ \A j \in DOMAIN files : j + 1 \in DOMAIN new /\ new[j + 1] = files[j]
           /\ Needed(new) = f.kind.needs \cup Needed(files)
           /\ ProvidesDue(files) \subseteq ProvidesDue(new)
<1> DEFINE new == <<f>> \o files
<1>1. <<f>> \in Seq(FileRec) /\ Len(<<f>>) = 1 /\ <<f>>[1] = f
  OBVIOUS
<1>2. /\ new \in Seq(FileRec) /\ Len(new) = Len(files) + 1 /\ Len(files) \in Nat
      /\ DOMAIN new = 1..Len(new) /\ DOMAIN files = 1..Len(files)
      /\ \A i \in 1..1 + Len(files) : new[i] = IF i <= 1 THEN <<f>>[i] ELSE files[i - 1]
  BY <1>1, ConcatProperties
<1> HIDE DEF new
<1>3. 1 \in DOMAIN new /\ new[1] = f
  BY <1>1, <1>2
<1>4. \A j \in DOMAIN files : j + 1 \in DOMAIN new /\ new[j + 1] = files[j]
  BY <1>2
<1>5. ASSUME NEW k \in DOMAIN new PROVE new[k] = f \/ \E j \in DOMAIN files : new[k] = files[j]
  <2>1. k # 1 => k - 1 \in DOMAIN files /\ new[k] = files[k - 1]
    BY <1>2, <1>5
  <2> QED BY <1>3, <2>1
<1>6. Needed(new) = f.kind.needs \cup Needed(files)
  <2>1. Needed(new) \subseteq f.kind.needs \cup Needed(files)
    BY <1>5 DEF Needed
  <2>2. f.kind.needs \subseteq Needed(new)
    BY <1>3 DEF Needed
  <2>3. Needed(files) \subseteq Needed(new)
    BY <1>4 DEF Needed
  <2> QED BY <2>1, <2>2, <2>3
<1>7. ASSUME NEW d \in ProvidesDue(files) PROVE d \in ProvidesDue(new)
  <2>1. PICK k \in DOMAIN files, path \in Needed(files) : d = <<files[k].ix, path>>
    BY DEF ProvidesDue
  <2>2. PICK j \in DOMAIN files : d \in {<<files[j].ix, p>> : p \in files[j].kind.owns}
    BY DEF ProvidesDue
  <2>3. k + 1 \in DOMAIN new /\ path \in Needed(new) /\ d = <<new[k + 1].ix, path>>
    BY <1>4, <1>6, <2>1
  <2>4. j + 1 \in DOMAIN new /\ d \in {<<new[j + 1].ix, p>> : p \in new[j + 1].kind.owns}
    BY <1>4, <2>2
  <2>5. d \in {<<new[l].ix, p>> : l \in DOMAIN new, p \in Needed(new)}
    BY <2>3
  <2>6. d \in UNION {{<<new[l].ix, p>> : p \in new[l].kind.owns} : l \in DOMAIN new}
    BY <2>4
  <2> QED BY <2>5, <2>6 DEF ProvidesDue
<1> QED BY <1>2, <1>4, <1>5, <1>6, <1>7 DEF new

LEMMA WriterMerges ==
    ASSUME FInv, OneWriter, CacheTypes', Clock', NEW r \in Roots, Merge(r) PROVE FInv'
<1> DEFINE pr == proc[r]
           ix == Head(pr.todo).ix
           db == ix = Database
           kind == IF db THEN index[ix].kind ELSE pr.open.kind
           mtime == IF db THEN pr.dbtime ELSE index[ix].mtime
           st == store[pr.map]
           f == [ix |-> ix, mtime |-> mtime, kind |-> kind, late |-> ~db /\ mtime # pr.open.mtime]
           st2 == [st EXCEPT !.files = <<f>> \o @]
           x == [[pr EXCEPT !.todo = Tail(pr.todo)] EXCEPT !.newdeps = @ \/ kind.needs # {},
                                                            !.open = [mtime |-> 0]]
<1>1. /\ r \in Procs /\ pr \in ProcRec /\ proc \in [Procs -> ProcRec] /\ Task(r, "merge")
      /\ index \in [Indexes -> IndexRec] /\ changes \in Nat /\ name \in [Names -> 0..NStores]
      /\ Names = {"pkg", "src"} /\ NStores \in Nat
  BY WriterState DEF Merge
<1>2. /\ Exists(ix) /\ WriteMap(r, st2) /\ proc' = [proc EXCEPT ![r] = x]
      /\ index' = index /\ changes' = changes /\ name' = name
  BY DEF Merge, Done
<1>3. PICK pre, g : /\ Building(index, name, store, pr, pre, g)
                    /\ \/ pre = <<>> /\ g = "merge"
                       \/ pre # <<>> /\ g = "sources"
  <2>1. ~Opening(name, pr)
    BY <1>1, OpeningTasks DEF Task, Do
  <2>2. PICK pre, g : /\ Building(index, name, store, pr, pre, g)
                      /\ pre = <<>> => g = "merge"
                      /\ pre # <<>> => \/ g = "sources" /\ "merge" \in {"open", "merge"}
                                       \/ g \in {"unlink", "sync"} /\ "merge" = "collect"
    BY <1>1, <2>1, WriterTask
  <2> QED BY <2>2
<1>4. /\ ~st.torn /\ st.kept /\ pr.out = 0 /\ st.dirty /\ pr.map # 0 /\ pr.map = name["pkg"]
      /\ Stage(index, name, store, pr, st, pre, g) /\ pr.map \in 1..NStores
  BY <1>1, <1>3 DEF Building, Phase
<1>5. st \in StoreRec /\ Base(index, changes, st)
  BY <1>4, WriterState DEF PkgOK
<1>6. x.at = "build" /\ x.todo = Tail(pr.todo) /\ x.map = pr.map /\ x.out = 0
      /\ x.newdeps = (pr.newdeps \/ kind.needs # {})
  BY <1>1, <1>4 DEF ProcRec, Task
\* What is merged.
<1>7. /\ f.ix = ix /\ f.mtime = mtime /\ f.kind = kind /\ f \in FileRec /\ Dated(index, changes, f)
      /\ (g = "merge" => ix = Database /\ kind = index[ix].kind)
      /\ (g = "sources" => ix # Database /\ Head(pr.todo) = pre[1])
  <2>1. CASE g = "merge"
    <3>1. Head(pr.todo) = Head(Rest("merge"))
      BY <1>3, <2>1, StageTask DEF Stages
    <3>2. Head(Rest("merge")) = Do("merge", Database)
      BY Chain
    <3>3. ix = Database /\ Database \in Indexes
      BY <3>1, <3>2 DEF Do, Indexes
    <3>4. pr.dbtime \in Nat /\ pr.dbtime # 0 /\ pr.dbtime <= changes + 1 /\ index[Database].kind \in Contents
      BY <1>1, <3>3 DEF ProcRec, IndexRec, FInv, Clock, Task
    <3>5. f = [ix |-> Database, mtime |-> pr.dbtime, kind |-> index[Database].kind, late |-> FALSE]
      BY <3>3
    <3>6. f \in FileRec
      BY <3>3, <3>4, <3>5 DEF FileRec
    <3>7. Dated(index, changes, f)
      BY <3>4, <3>5 DEF Dated
    <3> QED BY <2>1, <3>3, <3>6, <3>7
  <2>2. CASE g = "sources"
    <3>1. Head(pr.todo) = pre[1] /\ 1 \in DOMAIN pre /\ pre # <<>>
      BY <1>3, <2>2, TaskStage
    <3>2. Reads(index, pr, pre) /\ pre[1].do = "merge"
      BY <1>1, <1>4, <2>2, <3>1 DEF Stage, Task
    <3>3. ix \in Listed
      BY <3>1, <3>2 DEF Reads, Paired
    <3>4. ix \in Indexes /\ ix # Database
      BY <3>3, ListedIndexes
    <3>5. /\ pr.open \in IndexRec /\ pr.open.mtime # 0
          /\ pr.open.mtime = index[ix].mtime => pr.open.kind = index[ix].kind
      BY <3>1, <3>2 DEF Reads
    <3>6. f = [ix |-> ix, mtime |-> index[ix].mtime, kind |-> pr.open.kind,
               late |-> index[ix].mtime # pr.open.mtime]
      BY <3>4
    <3>7. index[ix].mtime \in Nat /\ index[ix].mtime # 0 /\ index[ix].mtime <= changes + 1
      BY <1>1, <1>2, <3>4 DEF IndexRec, Exists, FInv, Clock
    <3>8. f \in FileRec
      BY <3>4, <3>5, <3>6, <3>7 DEF FileRec, IndexRec
    <3>9. Dated(index, changes, f)
      <4>1. f.mtime # 0 /\ f.mtime <= changes + 1
        BY <3>6, <3>7
      <4>2. f.late \/ f.kind = index[f.ix].kind
        BY <3>5, <3>6
      <4> HIDE DEF f
      <4> QED BY <4>1, <4>2 DEF Dated, Stale
    <3> QED BY <2>2, <3>1, <3>4, <3>8, <3>9
  <2> QED BY <1>3, <2>1, <2>2
<1> HIDE DEF f, x, mtime, kind, ix
<1>8. st.files \in Seq(FileRec)
  BY <1>5 DEF StoreRec
<1> DEFINE new == <<f>> \o st.files
<1>9. /\ new \in Seq(FileRec)
      /\ \A k \in DOMAIN new : new[k] = f \/ \E j \in DOMAIN st.files : new[k] = st.files[j]
      /\ \A j \in DOMAIN st.files : j + 1 \in DOMAIN new /\ new[j + 1] = st.files[j]
      /\ Needed(new) = f.kind.needs \cup Needed(st.files)
      /\ ProvidesDue(st.files) \subseteq ProvidesDue(new)
  BY <1>7, <1>8, Push
<1>10. st2 = [st EXCEPT !.files = new]
  OBVIOUS
<1> HIDE DEF st2, new, st
<1>11. /\ st2 \in StoreRec /\ ~st2.torn
  BY <1>4, <1>5, <1>9, <1>10 DEF StoreRec
<1> DEFINE st3 == store'[pr.map]
<1>12. st3 = [st2 EXCEPT !.safe = FALSE] /\ \A s \in 1..NStores : s # pr.map => store'[s] = store[s]
  BY <1>2, <1>4, <1>11, MapWritten
<1> HIDE DEF st3
<1>13. /\ st3 \in StoreRec /\ ~st3.torn /\ st3.kept /\ st3.dirty /\ st3.files = new /\ st3.provs = st.provs
       /\ st3.fdeps = st.fdeps
  BY <1>4, <1>5, <1>10, <1>11, <1>12 DEF StoreRec
<1>14. Base(index, changes, st3)
  <2>1. Dates(index, changes, st3)
    BY <1>5, <1>7, <1>9, <1>13 DEF Base, Dates
  <2>2. st.provs \subseteq ProvidesDue(new)
    BY <1>5, <1>9 DEF Base
  <2> QED BY <1>13, <2>1, <2>2 DEF Base
<1>15. PkgOK(index, changes, st3)
  BY <1>13, <1>14 DEF PkgOK, Unfinished
<1>16. Needed(st3.files) = kind.needs \cup Needed(st.files)
  BY <1>7, <1>9, <1>13
<1>17. Working(index, name, store', x)
  <2>1. CASE g = "sources"
    <3>1. Reads(index, pr, pre) /\ NoDb(st) /\ st.provs = {} /\ pr.newdeps = Needs(st)
      BY <1>4, <2>1 DEF Stage
    <3>2. /\ pre # <<>> /\ pre \in Seq(TaskRec) /\ Tail(pr.todo) = Tail(pre) \o Rest("sources")
          /\ Head(pr.todo) = pre[1]
      BY <1>3, <2>1, TaskStage DEF Building
    <3>3. /\ Tail(pre) \in Seq(TaskRec) /\ Paired(Tail(pre))
          /\ Tail(pre) # <<>> => Tail(pre)[1].do = "open"
      BY <1>1, <3>1, <3>2, PairedTail DEF Reads, Task
    <3>4. Reads(index, x, Tail(pre))
      BY <3>3 DEF Reads
    <3>5. NoDb(st3)
      BY <1>7, <1>9, <1>13, <2>1, <3>1 DEF NoDb
    <3>6. x.newdeps = Needs(st3)
      BY <1>6, <1>16, <3>1 DEF Needs
    <3>7. Stage(index, name, store', x, st3, Tail(pre), "sources")
      BY <1>13, <3>1, <3>4, <3>5, <3>6 DEF Stage
    <3>8. Phase(index, name, store', x, Tail(pre), "sources")
      BY <1>6, <1>13, <3>7 DEF Phase, st3
    <3> QED BY <1>4, <1>6, <3>2, <3>3, <3>8, GoesOn DEF Stages
  <2>2. CASE g = "merge"
    <3>1. Ready(index, pr, st)
      BY <1>4, <2>2 DEF Stage
    <3>2. Tail(pr.todo) = Tail(Rest("merge"))
      BY <1>3, <2>2, StageTask DEF Stages
    <3>3. Tail(Rest("merge")) = Rest("status")
      BY Chain
    <3>4. Entered(index, x, st3)
      <4>1. ASSUME ~x.newdeps PROVE Needed(st3.files) = Needed(st.files)
        BY <1>6, <1>16, <4>1
      <4>2. ASSUME ~x.newdeps, Fresh(index, st3), NEW i \in Indexes \ {Database} PROVE Has(st3, i)
        <5>1. Fresh(index, st)
          BY <1>9, <1>13, <4>2 DEF Fresh
        <5>2. Has(st, i)
          BY <3>1, <4>2, <5>1 DEF Ready, Whole
        <5>3. \A k \in DOMAIN st3.files : st3.files[k].ix = i => \E j \in DOMAIN st.files : st3.files[k] = st.files[j]
          BY <1>7, <1>9, <1>13, <2>2, <4>2
        <5> QED BY <1>13, <4>1, <4>2, <5>2, <5>3 DEF Has
      <4>3. ASSUME ~x.newdeps, ~st3.fdeps PROVE ~Needs(st3)
        <5>1. ~st.fdeps /\ ~Needs(st)
          BY <1>13, <3>1, <4>3 DEF Ready, Needs
        <5> QED BY <4>1, <4>3, <5>1 DEF Needs
      <4> QED BY <4>2, <4>3 DEF Entered
    <3>5. Stage(index, name, store', x, st3, <<>>, "status")
      BY <3>4 DEF Stage
    <3>6. Phase(index, name, store', x, <<>>, "status")
      BY <1>6, <1>13, <3>5 DEF Phase, st3
    <3>7. "status" \in Stages /\ x.todo = <<>> \o Rest("status") /\ <<>> \in Seq(TaskRec)
      BY <1>6, <3>2, <3>3, NoSingles DEF Stages
    <3> QED BY <1>4, <1>6, <3>6, <3>7, GoesOn
  <2> QED BY <1>3, <2>1, <2>2
<1> QED BY <1>2, <1>4, <1>12, <1>15, <1>17, WriterWrites DEF st3

-----------------------------------------------------------------------------
(* ... the provides.                                                        *)

\* A cache no package of which depends on a file has all the provides it needs.
LEMMA NothingNeeded ==
    ASSUME NEW st, ~Needs(st) PROVE \A ix : Has(st, ix)
BY DEF Needs, Has

LEMMA CollectsIndexes ==
    /\ CollectFrom(Sources) \in Seq(TaskRec) /\ Collects(CollectFrom(Sources))
    /\ CollectFrom(<<Database>>) \in Seq(TaskRec) /\ Collects(CollectFrom(<<Database>>))
    /\ CollectFrom(Append(Sources, Database)) \in Seq(TaskRec) /\ Collects(CollectFrom(Append(Sources, Database)))
    /\ CollectFrom(<<>>) \in Seq(TaskRec) /\ Collects(CollectFrom(<<>>))
    /\ \A ix \in Listed : \E i \in DOMAIN CollectFrom(Sources) : CollectFrom(Sources)[i].ix = ix
    /\ \A ix \in Indexes : \E i \in DOMAIN CollectFrom(Append(Sources, Database)) :
                              CollectFrom(Append(Sources, Database))[i].ix = ix
    /\ \E i \in DOMAIN CollectFrom(<<Database>>) : CollectFrom(<<Database>>)[i].ix = Database
<1> DEFINE all == Append(Sources, Database)
           one == <<Database>>
<1>1. /\ Sources \in Seq(Indexes) /\ one \in Seq(Indexes) /\ <<>> \in Seq(Indexes) /\ all \in Seq(Indexes)
      /\ Indexes = Listed \cup {Database} /\ Database \in Indexes
  BY ListedIndexes DEF Indexes
<1>2. \A ix \in Listed : \E i \in DOMAIN Sources : Sources[i] = ix
  BY DEF Listed
<1>3. \A ix \in Indexes : \E i \in DOMAIN all : all[i] = ix
  <2>1. Len(all) = Len(Sources) + 1 /\ all[Len(Sources) + 1] = Database
        /\ \A i \in 1..Len(Sources) : all[i] = Sources[i]
    BY <1>1
  <2>2. DOMAIN all = 1..Len(all) /\ Len(Sources) \in Nat /\ DOMAIN Sources = 1..Len(Sources)
    BY <1>1
  <2> HIDE DEF all
  <2>3. \A i \in DOMAIN Sources : i \in DOMAIN all /\ all[i] = Sources[i]
    BY <2>1, <2>2
  <2>4. Len(Sources) + 1 \in DOMAIN all
    BY <2>1, <2>2
  <2> QED BY <1>1, <1>2, <2>1, <2>3, <2>4
<1>4. 1 \in DOMAIN one /\ one[1] = Database
  OBVIOUS
<1> HIDE DEF all, one
<1>5. \A seq \in Seq(Indexes) :
          /\ CollectFrom(seq) \in Seq(TaskRec) /\ Collects(CollectFrom(seq))
          /\ \A i \in DOMAIN seq : i \in DOMAIN CollectFrom(seq) /\ CollectFrom(seq)[i].ix = seq[i]
  BY CollectsAll, PlainIsTask
<1>6. /\ CollectFrom(Sources) \in Seq(TaskRec) /\ Collects(CollectFrom(Sources))
      /\ CollectFrom(one) \in Seq(TaskRec) /\ Collects(CollectFrom(one))
      /\ CollectFrom(all) \in Seq(TaskRec) /\ Collects(CollectFrom(all))
      /\ CollectFrom(<<>>) \in Seq(TaskRec) /\ Collects(CollectFrom(<<>>))
  BY <1>1, <1>5
<1>7. \A ix \in Listed : \E i \in DOMAIN CollectFrom(Sources) : CollectFrom(Sources)[i].ix = ix
  BY <1>1, <1>2, <1>5
<1>8. \A ix \in Indexes : \E i \in DOMAIN CollectFrom(all) : CollectFrom(all)[i].ix = ix
  <2> SUFFICES ASSUME NEW ix \in Indexes
               PROVE  \E i \in DOMAIN CollectFrom(all) : CollectFrom(all)[i].ix = ix
    OBVIOUS
  <2>1. PICK i \in DOMAIN all : all[i] = ix
    BY <1>3
  <2>2. i \in DOMAIN CollectFrom(all) /\ CollectFrom(all)[i].ix = all[i]
    BY <1>1, <1>5
  <2> QED BY <2>1, <2>2
<1>9. \E i \in DOMAIN CollectFrom(one) : CollectFrom(one)[i].ix = Database
  BY <1>1, <1>4, <1>5
<1> QED BY <1>6, <1>7, <1>8, <1>9 DEF all, one

LEMMA WriterHasSources ==
    ASSUME FInv, OneWriter, CacheTypes', Clock', NEW r \in Roots, SourcesMerged(r) PROVE FInv'
<1> DEFINE pr == proc[r]
           st == store[pr.map]
           more == IF pr.newdeps THEN CollectFrom(Sources) ELSE <<>>
           st2 == [st EXCEPT !.opts = pr.opts, !.fdeps = pr.newdeps]
           x == [pr EXCEPT !.newdeps = FALSE, !.todo = more \o Tail(pr.todo)]
           st3 == store'[pr.map]
<1>1. /\ r \in Procs /\ pr \in ProcRec /\ proc \in [Procs -> ProcRec] /\ Task(r, "sources")
      /\ name \in [Names -> 0..NStores] /\ Names = {"pkg", "src"} /\ NStores \in Nat
  BY WriterState DEF SourcesMerged
<1>2. /\ WriteMap(r, st2) /\ proc' = [proc EXCEPT ![r] = x]
      /\ index' = index /\ changes' = changes /\ name' = name
  BY DEF SourcesMerged
<1>3. Building(index, name, store, pr, <<>>, "sources")
  BY <1>1, WriterBuilds
<1>4. /\ ~st.torn /\ st.kept /\ pr.out = 0 /\ st.dirty /\ pr.map # 0 /\ pr.map = name["pkg"]
      /\ NoDb(st) /\ pr.newdeps = Needs(st)
  BY <1>3 DEF Building, Phase, Stage
<1>5. st \in StoreRec /\ Base(index, changes, st)
  BY <1>4, WriterState DEF PkgOK
<1>6. Tail(pr.todo) = Rest("unlink")
  <2>1. Tail(pr.todo) = Tail(Rest("sources"))
    BY <1>3, StageTask
  <2>2. Tail(Rest("sources")) = Rest("unlink")
    BY Chain
  <2> QED BY <2>1, <2>2
<1>7. x.at = "build" /\ x.todo = more \o Rest("unlink") /\ x.map = pr.map /\ x.out = 0 /\ x.newdeps = FALSE
  BY <1>1, <1>4, <1>6 DEF ProcRec, Task
<1> HIDE DEF x, st
<1>8. st2 \in StoreRec /\ ~st2.torn /\ pr.newdeps \in BOOLEAN
  BY <1>1, <1>4, <1>5 DEF StoreRec, ProcRec
<1>9. st3 = [st2 EXCEPT !.safe = FALSE] /\ \A s \in 1..NStores : s # pr.map => store'[s] = store[s]
  BY <1>2, <1>4, <1>8, MapWritten
<1> HIDE DEF st3
<1>10. /\ st3 \in StoreRec /\ ~st3.torn /\ st3.kept /\ st3.dirty /\ st3.files = st.files /\ st3.provs = st.provs
       /\ st3.fdeps = pr.newdeps
  BY <1>1, <1>4, <1>5, <1>8, <1>9 DEF StoreRec
<1>11. Base(index, changes, st3) /\ NoDb(st3) /\ st3.fdeps = Needs(st3)
  BY <1>4, <1>5, <1>10, SameFiles DEF Needs
<1>12. PkgOK(index, changes, st3)
  BY <1>10, <1>11 DEF PkgOK
<1>13. more \in Seq(TaskRec) /\ Collects(more)
  BY CollectsIndexes DEF Collects
<1>14. Pending(index, st3, more)
  <2>1. CASE pr.newdeps
    <3>1. \A ix \in Listed : \E i \in DOMAIN more : more[i].ix = ix
      BY <2>1, CollectsIndexes
    <3>2. Has(st3, Database)
      BY <1>11 DEF NoDb, Has
    <3> QED BY <3>1, <3>2, ListedIndexes DEF Pending
  <2>2. CASE ~pr.newdeps
    <3>1. ~Needs(st3)
      BY <1>10, <1>11, <2>2
    <3> QED BY <3>1, NothingNeeded DEF Pending
  <2> QED BY <2>1, <2>2
<1> HIDE DEF more
<1>15. Stage(index, name, store', x, st3, more, "unlink")
  BY <1>7, <1>11, <1>13, <1>14 DEF Stage
<1>16. Phase(index, name, store', x, more, "unlink")
  BY <1>7, <1>10, <1>15 DEF Phase, st3
<1>17. Working(index, name, store', x)
  BY <1>4, <1>7, <1>13, <1>16, GoesOn DEF Stages
<1> QED BY <1>2, <1>4, <1>9, <1>12, <1>17, WriterWrites DEF st3

LEMMA WriterHasStatus ==
    ASSUME FInv, OneWriter, CacheTypes', Clock', NEW r \in Roots, StatusMerged(r) PROVE FInv'
<1> DEFINE pr == proc[r]
           st == store[pr.map]
           over == IF pr.newdeps THEN Append(Sources, Database)
                   ELSE IF st.fdeps THEN <<Database>> ELSE <<>>
           more == CollectFrom(over)
           st2 == [st EXCEPT !.fdeps = @ \/ pr.newdeps]
           x == [pr EXCEPT !.todo = more \o Tail(pr.todo)]
           st3 == store'[pr.map]
<1>1. /\ r \in Procs /\ pr \in ProcRec /\ proc \in [Procs -> ProcRec] /\ Task(r, "status")
      /\ name \in [Names -> 0..NStores] /\ Names = {"pkg", "src"} /\ NStores \in Nat
  BY WriterState DEF StatusMerged
<1>2. /\ WriteMap(r, st2) /\ proc' = [proc EXCEPT ![r] = x]
      /\ index' = index /\ changes' = changes /\ name' = name
  BY DEF StatusMerged
<1>3. Building(index, name, store, pr, <<>>, "status")
  BY <1>1, WriterBuilds
<1>4. /\ ~st.torn /\ st.kept /\ pr.out = 0 /\ st.dirty /\ pr.map # 0 /\ pr.map = name["pkg"]
      /\ Entered(index, pr, st)
  BY <1>3 DEF Building, Phase, Stage
<1>5. st \in StoreRec /\ Base(index, changes, st)
  BY <1>4, WriterState DEF PkgOK
<1>6. Tail(pr.todo) = Rest("sync")
  <2>1. Tail(pr.todo) = Tail(Rest("status"))
    BY <1>3, StageTask
  <2>2. Tail(Rest("status")) = Rest("sync")
    BY Chain
  <2> QED BY <2>1, <2>2
<1>7. x.at = "build" /\ x.todo = more \o Rest("sync") /\ x.map = pr.map /\ x.out = 0
  BY <1>1, <1>4, <1>6 DEF ProcRec, Task
<1> HIDE DEF x, st
<1>8. st2 \in StoreRec /\ ~st2.torn
  <2>1. st.fdeps \in BOOLEAN /\ pr.newdeps \in BOOLEAN
    BY <1>1, <1>5 DEF StoreRec, ProcRec
  <2> QED BY <1>4, <1>5, <2>1 DEF StoreRec
<1>9. st3 = [st2 EXCEPT !.safe = FALSE] /\ \A s \in 1..NStores : s # pr.map => store'[s] = store[s]
  BY <1>2, <1>4, <1>8, MapWritten
<1> HIDE DEF st3
<1>10. /\ st3 \in StoreRec /\ ~st3.torn /\ st3.kept /\ st3.dirty /\ st3.files = st.files /\ st3.provs = st.provs
  <2>1. /\ ~st2.torn /\ st2.kept /\ st2.dirty /\ st2.files = st.files /\ st2.provs = st.provs
    BY <1>4, <1>5 DEF StoreRec
  <2> HIDE DEF st2
  <2> QED BY <1>8, <1>9, <2>1 DEF StoreRec
<1>11. Base(index, changes, st3)
  BY <1>5, <1>10, SameFiles
<1>12. PkgOK(index, changes, st3)
  BY <1>10, <1>11 DEF PkgOK, Unfinished
<1>13. more \in Seq(TaskRec) /\ Collects(more)
  BY CollectsIndexes
<1>14. Pending(index, st3, more)
  <2>1. CASE pr.newdeps
    BY <2>1, CollectsIndexes DEF Pending
  <2>2. CASE ~pr.newdeps /\ st.fdeps
    <3>1. \E i \in DOMAIN more : more[i].ix = Database
      BY <2>2, CollectsIndexes
    <3>2. Fresh(index, st3) => \A ix \in Indexes \ {Database} : Has(st3, ix)
      BY <1>4, <1>10, <2>2, SameFiles DEF Entered
    <3> QED BY <3>1, <3>2 DEF Pending
  <2>3. CASE ~pr.newdeps /\ ~st.fdeps
    <3>1. ~Needs(st3)
      BY <1>4, <1>10, <2>3, SameFiles DEF Entered
    <3> QED BY <3>1, NothingNeeded DEF Pending
  <2> QED BY <2>1, <2>2, <2>3
<1> HIDE DEF more
<1>15. Stage(index, name, store', x, st3, more, "sync")
  BY <1>13, <1>14 DEF Stage
<1>16. Phase(index, name, store', x, more, "sync")
  BY <1>7, <1>10, <1>15 DEF Phase, st3
<1>17. Working(index, name, store', x)
  BY <1>4, <1>7, <1>13, <1>16, GoesOn DEF Stages
<1> QED BY <1>2, <1>4, <1>9, <1>12, <1>17, WriterWrites DEF st3

LEMMA WriterCollects ==
    ASSUME FInv, OneWriter, CacheTypes', Clock', NEW r \in Roots, Collect(r) PROVE FInv'
<1> DEFINE pr == proc[r]
           st == store[pr.map]
           ix == Head(pr.todo).ix
           merged == UNION {st.files[k].kind.owns : k \in Positions(st, ix)}
           now == index[ix].kind.owns \cap merged \cap Needed(st.files)
           same == \E k \in Positions(st, ix) : st.files[k].kind = index[ix].kind
           x == [pr EXCEPT !.todo = Tail(pr.todo)]
           st3 == store'[pr.map]
<1>1. /\ r \in Procs /\ pr \in ProcRec /\ proc \in [Procs -> ProcRec] /\ Task(r, "collect")
      /\ name \in [Names -> 0..NStores] /\ Names = {"pkg", "src"} /\ NStores \in Nat
      /\ index \in [Indexes -> IndexRec]
  BY WriterState DEF Collect
<1>2. /\ proc' = [proc EXCEPT ![r] = x] /\ index' = index /\ changes' = changes /\ name' = name
  BY DEF Collect, Done
<1>3. PICK got \in SUBSET now : /\ same => got = now
                                /\ WriteMap(r, [st EXCEPT !.provs = @ \cup {<<ix, path>> : path \in got}])
  BY DEF Collect
<1>4. PICK pre, g : Building(index, name, store, pr, pre, g) /\ pre # <<>> /\ g \in {"unlink", "sync"}
  <2>1. ~Opening(name, pr)
    BY <1>1, OpeningTasks DEF Task, Do
  <2>2. PICK pre, g : /\ Building(index, name, store, pr, pre, g)
                      /\ pre = <<>> => g = "collect"
                      /\ pre # <<>> => \/ g = "sources" /\ "collect" \in {"open", "merge"}
                                       \/ g \in {"unlink", "sync"} /\ "collect" = "collect"
    BY <1>1, <2>1, WriterTask
  <2>3. pre # <<>>
    BY <2>2 DEF Building, Stages
  <2> QED BY <2>2, <2>3
<1>5. /\ ~st.torn /\ st.kept /\ pr.out = 0 /\ st.dirty /\ pr.map # 0 /\ pr.map = name["pkg"]
      /\ Stage(index, name, store, pr, st, pre, g) /\ Collects(pre) /\ Pending(index, st, pre)
  BY <1>4 DEF Building, Phase, Stage
<1>6. st \in StoreRec /\ Base(index, changes, st)
  BY <1>5, WriterState DEF PkgOK
<1>7. /\ Tail(pr.todo) = Tail(pre) \o Rest(g) /\ Tail(pre) \in Seq(TaskRec) /\ pre \in Seq(TaskRec)
      /\ 1 \in DOMAIN pre /\ pre[1].ix = ix /\ ix \in Indexes
      /\ Len(Tail(pre)) = Len(pre) - 1 /\ \A i \in DOMAIN Tail(pre) : Tail(pre)[i] = pre[i + 1]
  BY <1>4, <1>5, TaskStage DEF Building, Collects
<1>8. x.at = "build" /\ x.todo = Tail(pr.todo) /\ x.map = pr.map /\ x.out = 0 /\ x.newdeps = pr.newdeps
  BY <1>1, <1>5 DEF ProcRec, Task
<1>9. \A path \in got : /\ path \in Needed(st.files)
                        /\ \E k \in DOMAIN st.files : st.files[k].ix = ix /\ path \in st.files[k].kind.owns
  BY <1>3 DEF Positions
<1> DEFINE more == {<<ix, path>> : path \in got}
           st2 == [st EXCEPT !.provs = @ \cup more]
<1>10. more \subseteq ProvidesDue(st.files) /\ more \subseteq Indexes \X Paths
  <2> SUFFICES ASSUME NEW path \in got
               PROVE  <<ix, path>> \in ProvidesDue(st.files) /\ <<ix, path>> \in Indexes \X Paths
    OBVIOUS
  <2>1. PICK k \in DOMAIN st.files : st.files[k].ix = ix /\ path \in st.files[k].kind.owns
    BY <1>9
  <2>2. st.files[k] \in FileRec
    BY <1>6 DEF StoreRec
  <2>3. path \in Paths
    BY <2>1, <2>2 DEF FileRec, Paths
  <2>4. path \in Needed(st.files)
    BY <1>9
  <2> DEFINE d == <<ix, path>>
             due == {<<st.files[j].ix, q>> : j \in DOMAIN st.files, q \in Needed(st.files)}
             of(j) == {<<st.files[j].ix, q>> : q \in st.files[j].kind.owns}
             owned == {of(j) : j \in DOMAIN st.files}
  <2>5. d \in due
    <3>1. d = <<st.files[k].ix, path>>
      BY <2>1
    <3> HIDE DEF d
    <3> QED BY <2>4, <3>1
  <2>6. d \in of(k)
    BY <2>1
  <2>7. of(k) \in owned
    OBVIOUS
  <2>8. d \in UNION owned
    BY <2>6, <2>7
  <2>9. ProvidesDue(st.files) = due \cap UNION owned
    BY DEF ProvidesDue
  <2>10. d \in ProvidesDue(st.files)
    <3> HIDE DEF d, due, owned
    <3> QED BY <2>5, <2>8, <2>9
  <2> QED BY <1>7, <2>3, <2>10
\* What was not stale had all its provides collected.
<1>11. Fresh(index, st) => \A k \in DOMAIN st.files : st.files[k].ix = ix =>
          \A path \in st.files[k].kind.owns \cap Needed(st.files) : <<ix, path>> \in more
  <2> SUFFICES ASSUME Fresh(index, st), NEW k \in DOMAIN st.files, st.files[k].ix = ix,
                      NEW path \in st.files[k].kind.owns \cap Needed(st.files)
               PROVE  path \in got
    OBVIOUS
  <2>1. st.files[k].kind = index[ix].kind
    BY <1>6 DEF Fresh, Base, Dates, Dated
  <2>2. k \in Positions(st, ix)
    BY DEF Positions
  <2>3. path \in now /\ same
    BY <2>1, <2>2
  <2> QED BY <1>3, <2>3
<1> HIDE DEF more, x, st, ix
<1>12. st2 \in StoreRec /\ ~st2.torn
  BY <1>5, <1>6, <1>10 DEF StoreRec
<1>13. st3 = [st2 EXCEPT !.safe = FALSE] /\ \A s \in 1..NStores : s # pr.map => store'[s] = store[s]
  <2>1. WriteMap(r, st2)
    BY <1>3 DEF st, more
  <2> HIDE DEF st2
  <2> QED BY <1>5, <1>12, <2>1, MapWritten
<1> HIDE DEF st3
<1>14. /\ st3 \in StoreRec /\ ~st3.torn /\ st3.kept /\ st3.dirty /\ st3.files = st.files
       /\ st3.provs = st.provs \cup more /\ st3.fdeps = st.fdeps
  BY <1>5, <1>6, <1>12, <1>13 DEF StoreRec
<1>15. /\ Base(index, changes, st3) /\ (Fresh(index, st3) <=> Fresh(index, st))
       /\ (NoDb(st3) <=> NoDb(st)) /\ (Needs(st3) <=> Needs(st))
  BY <1>6, <1>10, <1>14 DEF Base, Dates, Fresh, NoDb, Needs
<1>16. PkgOK(index, changes, st3)
  BY <1>14, <1>15 DEF PkgOK, Unfinished
<1>17. Pending(index, st3, Tail(pre))
  <2> SUFFICES ASSUME Fresh(index, st3), NEW i \in Indexes
               PROVE  Has(st3, i) \/ \E j \in DOMAIN Tail(pre) : Tail(pre)[j].ix = i
    BY DEF Pending
  <2>1. Fresh(index, st)
    BY <1>15
  <2>2. CASE Has(st, i)
    BY <1>14, <2>2 DEF Has
  <2>3. CASE i = ix
    BY <1>11, <1>14, <2>1, <2>3 DEF Has
  <2>4. CASE ~Has(st, i) /\ i # ix
    <3>1. PICK j \in DOMAIN pre : pre[j].ix = i
      BY <1>5, <2>1, <2>4 DEF Pending
    <3>2. j # 1
      BY <1>7, <2>4, <3>1
    <3>3. j - 1 \in DOMAIN Tail(pre) /\ Tail(pre)[j - 1] = pre[j]
      <4> DEFINE t == Tail(pre)
      <4>1. t \in Seq(TaskRec) /\ Len(t) = Len(pre) - 1 /\ \A o \in DOMAIN t : t[o] = pre[o + 1]
        BY <1>7
      <4> HIDE DEF t
      <4>2. DOMAIN t = 1..Len(t) /\ DOMAIN pre = 1..Len(pre) /\ Len(pre) \in Nat
        BY <1>7, <4>1
      <4> QED BY <3>1, <3>2, <4>1, <4>2 DEF t
    <3> QED BY <3>1, <3>3
  <2> QED BY <2>2, <2>3, <2>4
<1>18. Collects(Tail(pre))
  <2> DEFINE t == Tail(pre)
  <2>1. t \in Seq(TaskRec) /\ Len(t) = Len(pre) - 1 /\ \A o \in DOMAIN t : t[o] = pre[o + 1]
    BY <1>7
  <2> HIDE DEF t
  <2>2. DOMAIN t = 1..Len(t) /\ DOMAIN pre = 1..Len(pre) /\ Len(pre) \in Nat
    BY <1>7, <2>1
  <2>3. \A o \in DOMAIN t : o + 1 \in DOMAIN pre /\ t[o] = pre[o + 1]
    BY <2>1, <2>2
  <2> QED BY <1>5, <2>3 DEF Collects, t
<1>19. Stage(index, name, store', x, st3, Tail(pre), g)
  <2>1. CASE g = "unlink"
    <3>1. NoDb(st) /\ ~pr.newdeps /\ st.fdeps = Needs(st)
      BY <1>5, <2>1 DEF Stage
    <3>2. st3.fdeps = Needs(st3)
      BY <1>14, <3>1 DEF Needs
    <3> QED BY <1>8, <1>15, <1>17, <1>18, <2>1, <3>1, <3>2 DEF Stage
  <2>2. CASE g = "sync"
    BY <1>17, <1>18, <2>2 DEF Stage
  <2> QED BY <1>4, <2>1, <2>2
<1>20. Phase(index, name, store', x, Tail(pre), g)
  BY <1>4, <1>8, <1>14, <1>19 DEF Phase, st3
<1>21. Working(index, name, store', x)
  BY <1>4, <1>5, <1>7, <1>8, <1>20, GoesOn DEF Stages
<1> QED BY <1>2, <1>5, <1>13, <1>16, <1>21, WriterWrites DEF st3

-----------------------------------------------------------------------------
(* ... the source cache that is read, and the one that is written.          *)

LEMMA WriterPreloads ==
    ASSUME FInv, OneWriter, CacheTypes', Clock', NEW r \in Roots, Preload(r) PROVE FInv'
<1> DEFINE pr == proc[r]
           src == store[name["src"]]
           st2 == [src EXCEPT !.kept = TRUE]
           x == [[pr EXCEPT !.todo = Tail(pr.todo)] EXCEPT !.other = name["src"] # pr.seen, !.seen = 0]
           st3 == store'[pr.map]
<1>1. /\ r \in Procs /\ pr \in ProcRec /\ proc \in [Procs -> ProcRec] /\ Task(r, "preload")
      /\ name \in [Names -> 0..NStores] /\ Names = {"pkg", "src"} /\ NStores \in Nat /\ name["src"] # 0
  BY WriterState DEF Preload
<1>2. /\ WriteMap(r, st2) /\ proc' = [proc EXCEPT ![r] = x]
      /\ index' = index /\ changes' = changes /\ name' = name
  BY DEF Preload, Done
<1>3. Building(index, name, store, pr, <<>>, "preload")
  BY <1>1, WriterBuilds
<1>4. pr.out = 0 /\ pr.map # 0 /\ pr.map = name["pkg"] /\ ~src.dirty /\ ~pr.newdeps
  BY <1>3 DEF Building, Phase, Stage
<1>5. src \in StoreRec /\ Base(index, changes, src) /\ NoDb(src) /\ Clean(index, src) /\ src.fdeps = Needs(src)
  BY <1>1, <1>4, WriterState DEF SrcOK, Unfinished
<1>6. Tail(pr.todo) = Rest("generator")
  <2>1. Tail(pr.todo) = Tail(Rest("preload"))
    BY <1>3, StageTask
  <2>2. Tail(Rest("preload")) = Rest("generator")
    BY Chain
  <2> QED BY <2>1, <2>2
<1>7. x.at = "build" /\ x.todo = Rest("generator") /\ x.map = pr.map /\ x.out = 0 /\ x.newdeps = FALSE
  BY <1>1, <1>4, <1>6 DEF ProcRec, Task
<1> HIDE DEF x, src
<1>8. st2 \in StoreRec /\ ~st2.torn
  BY <1>5 DEF StoreRec, Clean
<1>9. st3 = [st2 EXCEPT !.safe = FALSE] /\ \A s \in 1..NStores : s # pr.map => store'[s] = store[s]
  BY <1>2, <1>4, <1>8, MapWritten
<1> HIDE DEF st3
<1>10. /\ st3 \in StoreRec /\ ~st3.torn /\ st3.kept /\ st3.files = src.files /\ st3.provs = src.provs
       /\ st3.fdeps = src.fdeps
  BY <1>5, <1>8, <1>9 DEF StoreRec
<1>11. Base(index, changes, st3) /\ NoDb(st3) /\ st3.fdeps = Needs(st3) /\ Whole(index, st3)
  BY <1>5, <1>10, SameFiles DEF Clean, Needs
<1>12. PkgOK(index, changes, st3)
  BY <1>10, <1>11 DEF PkgOK
<1>13. Stage(index, name, store', x, st3, <<>>, "generator")
  BY <1>7, <1>11 DEF Stage, Ready
<1>14. Phase(index, name, store', x, <<>>, "generator")
  BY <1>7, <1>10, <1>13 DEF Phase, st3
<1>15. Working(index, name, store', x)
  BY <1>4, <1>7, <1>14, NoSingles, GoesOn DEF Stages
<1> QED BY <1>2, <1>4, <1>9, <1>12, <1>15, WriterWrites DEF st3

LEMMA WriterReopens ==
    ASSUME FInv, OneWriter, CacheTypes', Clock', NEW r \in Roots, Generator(r) PROVE FInv'
<1> DEFINE pr == proc[r]
           st == store[pr.map]
           x == [pr EXCEPT !.todo = Tail(pr.todo)]
           st3 == [st EXCEPT !.dirty = TRUE, !.kept = TRUE]
<1>1. /\ r \in Procs /\ pr \in ProcRec /\ proc \in [Procs -> ProcRec] /\ Task(r, "generator")
      /\ name \in [Names -> 0..NStores] /\ Names = {"pkg", "src"} /\ NStores \in Nat /\ DOMAIN store = 1..NStores
  BY WriterState DEF Generator
<1>2. /\ store' = [store EXCEPT ![pr.map].dirty = TRUE, ![pr.map].kept = TRUE] /\ proc' = [proc EXCEPT ![r] = x]
      /\ index' = index /\ changes' = changes /\ name' = name
  BY DEF Generator, Done
<1>3. Building(index, name, store, pr, <<>>, "generator")
  BY <1>1, WriterBuilds
<1>4. /\ pr.out = 0 /\ pr.map # 0 /\ pr.map = name["pkg"] /\ ~st.torn /\ Ready(index, pr, st)
      /\ pr.map \in 1..NStores
  BY <1>3, WriterState DEF Building, Phase, Stage
<1>5. st \in StoreRec /\ Base(index, changes, st)
  BY <1>4, WriterState DEF PkgOK
<1>6. Tail(pr.todo) = Rest("merge")
  <2>1. Tail(pr.todo) = Tail(Rest("generator"))
    BY <1>3, StageTask
  <2>2. Tail(Rest("generator")) = Rest("merge")
    BY Chain
  <2> QED BY <2>1, <2>2
<1>7. x.at = "build" /\ x.todo = Rest("merge") /\ x.map = pr.map /\ x.out = 0 /\ x.newdeps = pr.newdeps
  BY <1>1, <1>4, <1>6 DEF ProcRec, Task
<1>8. store'[pr.map] = st3 /\ \A s \in 1..NStores : s # pr.map => store'[s] = store[s]
  BY <1>1, <1>2, <1>4
<1>9. /\ st3 \in StoreRec /\ ~st3.torn /\ st3.kept /\ st3.dirty /\ st3.files = st.files /\ st3.provs = st.provs
      /\ st3.fdeps = st.fdeps
  BY <1>4, <1>5 DEF StoreRec
<1> HIDE DEF x, st, st3
<1>10. Base(index, changes, st3) /\ Ready(index, x, st3)
  <2>1. NoDb(st) /\ ~pr.newdeps /\ st.fdeps = Needs(st) /\ Whole(index, st)
    BY <1>4 DEF Ready
  <2>2. Base(index, changes, st3) /\ NoDb(st3) /\ Whole(index, st3) /\ st3.fdeps = Needs(st3)
    BY <1>5, <1>9, <2>1, SameFiles DEF Needs
  <2> QED BY <1>7, <2>1, <2>2 DEF Ready
<1>11. PkgOK(index, changes, st3)
  BY <1>9, <1>10 DEF PkgOK, Unfinished
<1>12. Stage(index, name, store', x, st3, <<>>, "merge")
  BY <1>10 DEF Stage
<1>13. Phase(index, name, store', x, <<>>, "merge")
  BY <1>7, <1>8, <1>9, <1>12 DEF Phase
<1>14. Working(index, name, store', x)
  BY <1>4, <1>7, <1>13, NoSingles, GoesOn DEF Stages
<1> QED BY <1>2, <1>4, <1>8, <1>11, <1>14, WriterWrites

LEMMA WriterCopies ==
    ASSUME FInv, OneWriter, CacheTypes', Clock', NEW r \in Roots, WriteData(r) PROVE FInv'
<1> DEFINE pr == proc[r]
           st == store[pr.map]
           alone == ~(Cardinality({q \in Procs : proc[q].out = pr.out}) > 1)
           x == [pr EXCEPT !.todo = Tail(pr.todo)]
           cp == [st EXCEPT !.safe = TRUE, !.kept = TRUE, !.torn = @ \/ ~alone]
<1>1. /\ r \in Procs /\ pr \in ProcRec /\ proc \in [Procs -> ProcRec] /\ Task(r, "data")
      /\ name \in [Names -> 0..NStores] /\ Names = {"pkg", "src"} /\ NStores \in Nat /\ DOMAIN store = 1..NStores
  BY WriterState DEF WriteData
<1>2. /\ store' = [store EXCEPT ![pr.out] = cp] /\ proc' = [proc EXCEPT ![r] = x]
      /\ index' = index /\ changes' = changes /\ name' = name
  BY DEF WriteData, Done
<1>3. Building(index, name, store, pr, <<>>, "data")
  BY <1>1, WriterBuilds
<1>4. /\ pr.out # 0 /\ pr.out = name["src"] /\ pr.out \in 1..NStores
      /\ pr.map # 0 /\ pr.map = name["pkg"] /\ pr.map # pr.out
      /\ ~st.torn /\ st.kept /\ st.dirty /\ Ready(index, pr, st)
  BY <1>3, WriterState DEF Building, Phase, Stage
<1>5. st \in StoreRec /\ Base(index, changes, st) /\ PkgOK(index, changes, st)
  BY <1>4, WriterState DEF PkgOK
<1>6. Tail(pr.todo) = Rest("flag")
  <2>1. Tail(pr.todo) = Tail(Rest("data"))
    BY <1>3, StageTask
  <2>2. Tail(Rest("data")) = Rest("flag")
    BY Chain
  <2> QED BY <2>1, <2>2
<1>7. x.at = "build" /\ x.todo = Rest("flag") /\ x.map = pr.map /\ x.out = pr.out /\ x.newdeps = pr.newdeps
  BY <1>1, <1>4, <1>6 DEF ProcRec, Task
<1>8. store'[pr.out] = cp /\ \A s \in 1..NStores : s # pr.out => store'[s] = store[s]
  BY <1>1, <1>2, <1>4
<1>9. alone
  BY <1>4, WriterAlone
<1> HIDE DEF x, st, alone
<1>10. /\ cp \in StoreRec /\ cp.safe /\ cp.kept /\ cp.dirty /\ cp.files = st.files /\ cp.provs = st.provs
       /\ cp.fdeps = st.fdeps
  BY <1>4, <1>5, <1>9 DEF StoreRec
<1>11. ~cp.torn
  BY <1>4, <1>5, <1>9 DEF StoreRec
<1> HIDE DEF cp
<1>12. NoDb(st) /\ st.fdeps = Needs(st) /\ Whole(index, st)
  BY <1>4 DEF Ready
<1>13. /\ Base(index, changes, cp) /\ NoDb(cp) /\ Whole(index, cp) /\ cp.fdeps = Needs(cp)
  BY <1>5, <1>10, <1>12, SameFiles DEF Needs
<1>14. SrcOK(index, changes, cp) /\ Copied(index, name, store', x)
  BY <1>4, <1>7, <1>8, <1>10, <1>11, <1>13 DEF SrcOK, Unfinished, Copied
<1>15. store'[pr.map] = st /\ pr.map \in 1..NStores
  BY <1>1, <1>4, <1>8 DEF st
<1>16. Named'
  BY <1>2, <1>4, <1>5, <1>8, <1>14, <1>15 DEF Named
<1>17. Stage(index, name, store', x, st, <<>>, "flag")
  BY <1>4, <1>7, <1>14 DEF Stage, Ready
<1>18. Phase(index, name, store', x, <<>>, "flag")
  BY <1>4, <1>7, <1>15, <1>17 DEF Phase
<1>19. Working(index, name, store', x)
  BY <1>4, <1>7, <1>18, NoSingles, GoesOn DEF Stages
<1> QED BY <1>2, <1>16, <1>19, WriterStep

LEMMA WriterClears ==
    ASSUME FInv, OneWriter, CacheTypes', Clock', NEW r \in Roots, ClearFlag(r) PROVE FInv'
<1> DEFINE pr == proc[r]
           st == store[pr.map]
           st2 == [st EXCEPT !.dirty = FALSE]
           x == [pr EXCEPT !.todo = Tail(pr.todo)]
           st3 == store'[pr.map]
<1>1. /\ r \in Procs /\ pr \in ProcRec /\ proc \in [Procs -> ProcRec] /\ Task(r, "flag")
      /\ name \in [Names -> 0..NStores] /\ Names = {"pkg", "src"} /\ NStores \in Nat
  BY WriterState DEF ClearFlag
<1>2. /\ WriteMap(r, st2) /\ proc' = [proc EXCEPT ![r] = x]
      /\ index' = index /\ changes' = changes /\ name' = name
  BY DEF ClearFlag, Done
<1>3. Building(index, name, store, pr, <<>>, "flag")
  BY <1>1, WriterBuilds
<1>4. /\ pr.out \in 1..NStores /\ pr.map # 0 /\ pr.map = name["pkg"] /\ pr.map # pr.out
      /\ ~st.torn /\ st.kept /\ Ready(index, pr, st) /\ Copied(index, name, store, pr)
  BY <1>3, WriterState DEF Building, Phase, Stage, Copied
<1>5. st \in StoreRec /\ Base(index, changes, st)
  BY <1>4, WriterState DEF PkgOK
<1>6. Tail(pr.todo) = Rest("header")
  <2>1. Tail(pr.todo) = Tail(Rest("flag"))
    BY <1>3, StageTask
  <2>2. Tail(Rest("flag")) = Rest("header")
    BY Chain
  <2> QED BY <2>1, <2>2
<1>7. x.at = "build" /\ x.todo = Rest("header") /\ x.map = pr.map /\ x.out = pr.out /\ x.newdeps = pr.newdeps
  BY <1>1, <1>4, <1>6 DEF ProcRec, Task
<1> HIDE DEF x, st
<1>8. st2 \in StoreRec /\ ~st2.torn
  BY <1>4, <1>5 DEF StoreRec
<1>9. st3 = [st2 EXCEPT !.safe = FALSE] /\ \A s \in 1..NStores : s # pr.map => store'[s] = store[s]
  BY <1>2, <1>4, <1>8, MapWritten
<1> HIDE DEF st3
<1>10. /\ st3 \in StoreRec /\ ~st3.torn /\ st3.kept /\ st3.files = st.files /\ st3.provs = st.provs
       /\ st3.fdeps = st.fdeps
  BY <1>4, <1>5, <1>8, <1>9 DEF StoreRec
<1>11. NoDb(st) /\ ~pr.newdeps /\ st.fdeps = Needs(st) /\ Whole(index, st)
  BY <1>4 DEF Ready
<1>12. Base(index, changes, st3) /\ NoDb(st3) /\ st3.fdeps = Needs(st3) /\ Whole(index, st3)
  BY <1>5, <1>10, <1>11, SameFiles DEF Needs
<1>13. PkgOK(index, changes, st3)
  BY <1>10, <1>12 DEF PkgOK
<1>14. Copied(index, name, store', x)
  <2>1. store'[pr.out] = store[pr.out]
    BY <1>4, <1>9
  <2> QED BY <1>4, <1>7, <2>1 DEF Copied
<1>15. Stage(index, name, store', x, st3, <<>>, "header")
  BY <1>7, <1>11, <1>12, <1>14 DEF Stage, Ready
<1>16. Phase(index, name, store', x, <<>>, "header")
  BY <1>7, <1>10, <1>15 DEF Phase, st3
<1>17. Working(index, name, store', x)
  BY <1>4, <1>7, <1>16, NoSingles, GoesOn DEF Stages
<1> QED BY <1>2, <1>4, <1>9, <1>13, <1>17, WriterWrites DEF st3

LEMMA WriterHeads ==
    ASSUME FInv, OneWriter, CacheTypes', Clock', NEW r \in Roots, WriteHeader(r) PROVE FInv'
<1> DEFINE pr == proc[r]
           st == store[pr.map]
           src == store[pr.out]
           x == [[pr EXCEPT !.todo = Tail(pr.todo)] EXCEPT !.out = 0]
           st3 == [st EXCEPT !.dirty = TRUE]
           cp == [src EXCEPT !.dirty = FALSE, !.kept = FALSE]
<1>1. /\ r \in Procs /\ pr \in ProcRec /\ proc \in [Procs -> ProcRec] /\ Task(r, "header")
      /\ name \in [Names -> 0..NStores] /\ Names = {"pkg", "src"} /\ NStores \in Nat /\ DOMAIN store = 1..NStores
  BY WriterState DEF WriteHeader
<1>2. /\ store' = [store EXCEPT ![pr.out].dirty = FALSE, ![pr.out].kept = FALSE, ![pr.map].dirty = TRUE]
      /\ proc' = [proc EXCEPT ![r] = x]
      /\ index' = index /\ changes' = changes /\ name' = name
  BY DEF WriteHeader, Done
<1>3. Building(index, name, store, pr, <<>>, "header")
  BY <1>1, WriterBuilds
<1>4. /\ pr.out # 0 /\ pr.out = name["src"] /\ pr.out \in 1..NStores
      /\ pr.map # 0 /\ pr.map = name["pkg"] /\ pr.map # pr.out /\ pr.map \in 1..NStores
      /\ ~st.torn /\ st.kept /\ Ready(index, pr, st) /\ Copied(index, name, store, pr)
  BY <1>3, WriterState DEF Building, Phase, Stage, Copied
<1>5. /\ st \in StoreRec /\ Base(index, changes, st)
      /\ src \in StoreRec /\ Base(index, changes, src) /\ NoDb(src)
  BY <1>4, WriterState DEF PkgOK, SrcOK
<1>6. Tail(pr.todo) = Rest("merge")
  <2>1. Tail(pr.todo) = Tail(Rest("header"))
    BY <1>3, StageTask
  <2>2. Tail(Rest("header")) = Rest("merge")
    BY Chain
  <2> QED BY <2>1, <2>2
<1>7. x.at = "build" /\ x.todo = Rest("merge") /\ x.map = pr.map /\ x.out = 0 /\ x.newdeps = pr.newdeps
  BY <1>1, <1>4, <1>6 DEF ProcRec, Task
<1>8. store'[pr.out] = cp /\ store'[pr.map] = st3
  BY <1>1, <1>2, <1>4
<1>9. src.safe /\ ~src.torn /\ Whole(index, src) /\ src.fdeps = Needs(src)
  BY <1>4 DEF Copied
<1> HIDE DEF x, st, src
<1>10. /\ cp \in StoreRec /\ cp.safe /\ ~cp.torn /\ cp.kept = FALSE /\ cp.dirty = FALSE
       /\ cp.files = src.files /\ cp.provs = src.provs /\ cp.fdeps = src.fdeps
  BY <1>5, <1>9 DEF StoreRec
<1>11. /\ st3 \in StoreRec /\ ~st3.torn /\ st3.kept /\ st3.dirty
       /\ st3.files = st.files /\ st3.provs = st.provs /\ st3.fdeps = st.fdeps
  BY <1>4, <1>5 DEF StoreRec
<1> HIDE DEF cp, st3
<1>12. Base(index, changes, cp) /\ NoDb(cp) /\ Whole(index, cp) /\ cp.fdeps = Needs(cp)
  BY <1>5, <1>9, <1>10, SameFiles DEF Needs
<1>13. SrcOK(index, changes, cp)
  BY <1>10, <1>12 DEF SrcOK, Clean
<1>14. NoDb(st) /\ ~pr.newdeps /\ st.fdeps = Needs(st) /\ Whole(index, st)
  BY <1>4 DEF Ready
<1>15. Base(index, changes, st3) /\ NoDb(st3) /\ st3.fdeps = Needs(st3) /\ Whole(index, st3)
  BY <1>5, <1>11, <1>14, SameFiles DEF Needs
<1>16. PkgOK(index, changes, st3)
  BY <1>11, <1>15 DEF PkgOK
<1>17. Named'
  BY <1>2, <1>4, <1>8, <1>13, <1>16 DEF Named
<1>18. Stage(index, name, store', x, st3, <<>>, "merge")
  BY <1>7, <1>14, <1>15 DEF Stage, Ready
<1>19. Phase(index, name, store', x, <<>>, "merge")
  BY <1>7, <1>8, <1>11, <1>18 DEF Phase
<1>20. Working(index, name, store', x)
  BY <1>4, <1>7, <1>19, NoSingles, GoesOn DEF Stages
<1> QED BY <1>2, <1>17, <1>20, WriterStep

-----------------------------------------------------------------------------
(* ... the end of a build.                                                  *)

LEMMA WriterSyncs ==
    ASSUME FInv, OneWriter, CacheTypes', Clock', NEW r \in Roots, SyncMap(r) PROVE FInv'
<1> DEFINE pr == proc[r]
           st == store[pr.map]
           x == [pr EXCEPT !.todo = Tail(pr.todo)]
           st3 == [st EXCEPT !.safe = TRUE]
<1>1. /\ r \in Procs /\ pr \in ProcRec /\ proc \in [Procs -> ProcRec] /\ Task(r, "sync")
      /\ name \in [Names -> 0..NStores] /\ Names = {"pkg", "src"} /\ NStores \in Nat /\ DOMAIN store = 1..NStores
  BY WriterState DEF SyncMap
<1>2. /\ store' = [store EXCEPT ![pr.map].safe = TRUE] /\ proc' = [proc EXCEPT ![r] = x]
      /\ index' = index /\ changes' = changes /\ name' = name
  BY DEF SyncMap, Done
<1>3. Building(index, name, store, pr, <<>>, "sync")
  BY <1>1, WriterBuilds
<1>4. /\ pr.out = 0 /\ pr.map # 0 /\ pr.map = name["pkg"] /\ pr.map \in 1..NStores
      /\ ~st.torn /\ st.kept /\ st.dirty /\ Pending(index, st, <<>>)
  BY <1>3, WriterState DEF Building, Phase, Stage
<1>5. st \in StoreRec /\ Base(index, changes, st)
  BY <1>4, WriterState DEF PkgOK
<1>6. Tail(pr.todo) = Rest("clean")
  <2>1. Tail(pr.todo) = Tail(Rest("sync"))
    BY <1>3, StageTask
  <2>2. Tail(Rest("sync")) = Rest("clean")
    BY Chain
  <2> QED BY <2>1, <2>2
<1>7. x.at = "build" /\ x.todo = Rest("clean") /\ x.map = pr.map /\ x.out = 0
  BY <1>1, <1>4, <1>6 DEF ProcRec, Task
<1>8. store'[pr.map] = st3 /\ \A s \in 1..NStores : s # pr.map => store'[s] = store[s]
  BY <1>1, <1>2, <1>4
<1>9. /\ st3 \in StoreRec /\ ~st3.torn /\ st3.kept /\ st3.dirty /\ st3.safe
      /\ st3.files = st.files /\ st3.provs = st.provs
  BY <1>4, <1>5 DEF StoreRec
<1> HIDE DEF x, st, st3
<1>10. Whole(index, st)
  BY <1>4 DEF Pending, Whole
<1>11. Base(index, changes, st3) /\ Whole(index, st3)
  BY <1>5, <1>9, <1>10, SameFiles
<1>12. PkgOK(index, changes, st3)
  BY <1>9, <1>11 DEF PkgOK, Unfinished
<1>13. Stage(index, name, store', x, st3, <<>>, "clean")
  BY <1>9, <1>11 DEF Stage
<1>14. Phase(index, name, store', x, <<>>, "clean")
  BY <1>7, <1>8, <1>9, <1>13 DEF Phase
<1>15. Working(index, name, store', x)
  BY <1>4, <1>7, <1>14, NoSingles, GoesOn DEF Stages
<1> QED BY <1>2, <1>4, <1>8, <1>12, <1>15, WriterWrites

LEMMA WriterFinishes ==
    ASSUME FInv, OneWriter, CacheTypes', Clock', NEW r \in Roots, MarkClean(r) PROVE FInv'
<1> DEFINE pr == proc[r]
           st == store[pr.map]
           stamp == IF pr.since = changes THEN <<changes, pr.opts>> ELSE <<>>
           x == [pr EXCEPT !.at = "serve", !.out = pr.map, !.map = 0, !.todo = <<>>]
           st3 == [st EXCEPT !.dirty = FALSE, !.kept = FALSE, !.made = stamp]
<1>1. /\ r \in Procs /\ pr \in ProcRec /\ proc \in [Procs -> ProcRec] /\ Task(r, "clean")
      /\ name \in [Names -> 0..NStores] /\ Names = {"pkg", "src"} /\ NStores \in Nat /\ DOMAIN store = 1..NStores
      /\ changes \in Nat
  BY WriterState DEF MarkClean
<1>2. /\ store' = [store EXCEPT ![pr.map].dirty = FALSE, ![pr.map].kept = FALSE, ![pr.map].made = stamp]
      /\ proc' = [proc EXCEPT ![r] = x]
      /\ index' = index /\ changes' = changes /\ name' = name
  BY DEF MarkClean
<1>3. Building(index, name, store, pr, <<>>, "clean")
  BY <1>1, WriterBuilds
<1>4. /\ pr.map # 0 /\ pr.map = name["pkg"] /\ pr.map \in 1..NStores
      /\ ~st.torn /\ st.safe /\ Whole(index, st)
  BY <1>3, WriterState DEF Building, Phase, Stage
<1>5. st \in StoreRec /\ Base(index, changes, st)
  BY <1>4, WriterState DEF PkgOK
<1>6. x.at = "serve" /\ x.todo = <<>> /\ x.map = 0
  BY <1>1 DEF ProcRec
<1>7. store'[pr.map] = st3 /\ \A s \in 1..NStores : s # pr.map => store'[s] = store[s]
  BY <1>1, <1>2, <1>4
<1>8. stamp \in {<<>>} \cup (Nat \X Hashes)
  <2>1. pr.opts \in Hashes
    BY <1>1 DEF ProcRec
  <2>2. <<changes, pr.opts>> \in Nat \X Hashes
    BY <1>1, <2>1
  <2> QED BY <2>2
<1> HIDE DEF x, st, stamp
<1>9. /\ st3 \in StoreRec /\ ~st3.torn /\ st3.kept = FALSE /\ st3.dirty = FALSE /\ st3.safe
      /\ st3.files = st.files /\ st3.provs = st.provs
  BY <1>4, <1>5, <1>8 DEF StoreRec
<1> HIDE DEF st3
<1>10. Base(index, changes, st3) /\ Whole(index, st3)
  BY <1>4, <1>5, <1>9, SameFiles
<1>11. PkgOK(index, changes, st3)
  BY <1>9, <1>10 DEF PkgOK, Clean
<1>12. Working(index, name, store', x)
  BY <1>6 DEF Working
<1> QED BY <1>2, <1>4, <1>7, <1>11, <1>12, WriterWrites

\* A build that is refused or stopped, or a cache that is closed, leaves the files as they are.
LEMMA WriterLeaves ==
    ASSUME FInv, OneWriter, [Next]_vars, NEW r \in Roots, Refused(r) \/ Close(r) \/ Stop(r)
    PROVE  FInv'
<1>1. CacheTypes' /\ Clock' /\ Ages(index, changes, index', changes')
  BY ClockTicks DEF FInv
<1>2. proc' = [proc EXCEPT ![r] = Idle] /\ name' = name /\ Released
  BY DEF Refused, Close, Stop
<1>3. \A q \in Procs : proc'[q] = proc[q] \/ proc'[q] = Idle
  BY <1>2 DEF FInv, CacheTypes
<1>4. \A q \in Procs : q # r => proc'[q] = proc[q]
  BY <1>2 DEF FInv, CacheTypes
<1>5. \A n \in Names : name[n] # 0 => store'[name[n]] = store[name[n]]
  <2>1. name' \in [Names -> 0..NStores]
    BY <1>1 DEF CacheTypes
  <2> QED BY <1>2, <2>1, ReleasedKeeps DEF FInv
<1>6. \A q \in Procs \ Roots : Stranger(name, proc'[q])
  BY <1>4 DEF FInv, Apart
<1>7. \A q \in Roots : proc'[q] = proc[q] \/ proc'[q] = Idle
  BY <1>3, RootAssumption
<1> QED BY <1>1, <1>2, <1>5, <1>6, <1>7, OthersStep

LEMMA StrangerLeaves ==
    ASSUME FInv, [Next]_vars, NEW p \in Procs \ Roots, Step(p) \/ Stop(p)
    PROVE  FInv'
<1>1. CacheTypes' /\ Clock' /\ Ages(index, changes, index', changes')
  BY ClockTicks DEF FInv
<1>2. /\ name' = name /\ Stranger(name, proc'[p])
      /\ \A n \in Names : name[n] # 0 => store'[name[n]] = store[name[n]]
  BY StrangerStep
<1>3. \A q \in Procs : q # p => proc'[q] = proc[q]
  <2>1. PICK r \in ProcRec : proc' = [proc EXCEPT ![p] = r]
    BY ProcTypes DEF FInv
  <2> QED BY <2>1 DEF FInv, CacheTypes
<1>4. \A q \in Roots : proc'[q] = proc[q] \/ proc'[q] = Idle
  BY <1>3, RootAssumption
<1>5. \A q \in Procs \ Roots : Stranger(name, proc'[q])
  BY <1>2, <1>3 DEF FInv, Apart
<1> QED BY <1>1, <1>2, <1>4, <1>5, OthersStep

\* An index changes.
LEMMA IndexChanges ==
    ASSUME FInv, [Next]_vars, NEW ix \in Indexes, Change(ix)
    PROVE  FInv'
<1>1. CacheTypes' /\ Clock' /\ Ages(index, changes, index', changes')
  BY ClockTicks DEF FInv
<1>2. name' = name /\ store' = store /\ proc' = proc
  BY DEF Change
<1>3. \A q \in Procs \ Roots : Stranger(name, proc'[q])
  BY <1>2 DEF FInv, Apart
<1> QED BY <1>1, <1>2, <1>3, OthersStep

\* Power fails: of a file with its flag on the disk the flag is back, of one that was
\* clean all is there.
LEMMA PowerFails ==
    ASSUME FInv, [Next]_vars, PowerFailure
    PROVE  FInv'
<1>1. CacheTypes' /\ Clock' /\ index' = index /\ changes' = changes /\ name' = name
  BY ClockTicks DEF FInv, PowerFailure
<1>2. /\ name \in [Names -> 0..NStores] /\ Names = {"pkg", "src"}
      /\ \A p \in Procs : proc'[p] = Idle
  BY DEF FInv, CacheTypes, PowerFailure, Names
<1> DEFINE named == {name[n] : n \in Names} \ {0}
<1>3. PICK lost \in SUBSET {s \in named : ~store[s].safe /\ ~store[s].torn},
           old \in SUBSET {s \in named : store[s].dirty # store[s].kept} :
             store' = [s \in 1..NStores |->
                 IF s \notin named THEN Empty
                 ELSE [store[s] EXCEPT !.dirty = IF s \in old THEN store[s].kept ELSE @,
                                       !.torn = @ \/ s \in lost]]
  BY DEF PowerFailure
<1> DEFINE After(st, s) == [st EXCEPT !.dirty = IF s \in old THEN st.kept ELSE @, !.torn = @ \/ s \in lost]
<1>4. ASSUME NEW st \in StoreRec, NEW s, s \in lost => ~st.safe
      PROVE  /\ PkgOK(index, changes, st) => PkgOK(index, changes, After(st, s))
             /\ SrcOK(index, changes, st) => SrcOK(index, changes, After(st, s))
  <2> DEFINE st2 == After(st, s)
  <2> DEFINE dirty == IF s \in old THEN st.kept ELSE st.dirty
             torn == st.torn \/ s \in lost
  <2>0. /\ dirty \in BOOLEAN /\ torn \in BOOLEAN /\ (st.safe => torn = st.torn)
        /\ st2 = [st EXCEPT !.dirty = dirty, !.torn = torn]
    BY <1>4 DEF StoreRec
  <2> HIDE DEF torn, dirty, st2
  <2>1. /\ st2 \in StoreRec /\ st2.files = st.files /\ st2.provs = st.provs /\ st2.fdeps = st.fdeps
        /\ st2.kept = st.kept /\ st2.safe = st.safe
        /\ st2.dirty = (IF s \in old THEN st.kept ELSE st.dirty) /\ (st.safe => st2.torn = st.torn)
    <3>1. /\ st2 \in StoreRec /\ st2.files = st.files /\ st2.provs = st.provs /\ st2.fdeps = st.fdeps
          /\ st2.kept = st.kept /\ st2.safe = st.safe /\ st2.dirty = dirty /\ st2.torn = torn
      BY <1>4, <2>0 DEF StoreRec
    <3> QED BY <2>0, <3>1 DEF dirty
  <2>2. /\ Base(index, changes, st2) <=> Base(index, changes, st)
        /\ Whole(index, st2) <=> Whole(index, st)
        /\ (NoDb(st2) <=> NoDb(st)) /\ Needs(st2) = Needs(st)
    BY <2>1, SameFiles DEF Needs
  <2>3. Unfinished(st) => Unfinished(st2)
    BY <2>1 DEF Unfinished
  <2>4. Clean(index, st) => Clean(index, st2)
    BY <2>1, <2>2 DEF Clean
  <2>5. PkgOK(index, changes, st) => PkgOK(index, changes, st2)
    BY <2>1, <2>2, <2>3, <2>4 DEF PkgOK
  <2>6. SrcOK(index, changes, st) => SrcOK(index, changes, st2)
    BY <2>1, <2>2, <2>3, <2>4 DEF SrcOK
  <2> QED BY <2>5, <2>6 DEF st2
<1>5. \A n \in Names : name[n] # 0 => store'[name[n]] = After(store[name[n]], name[n])
  <2> SUFFICES ASSUME NEW n \in Names, name[n] # 0 PROVE store'[name[n]] = After(store[name[n]], name[n])
    OBVIOUS
  <2>1. name[n] \in 1..NStores /\ name[n] \in named
    BY <1>2, ListAssumption
  <2> DEFINE s == name[n]
  <2>2. s \in 1..NStores /\ s \in named
    BY <2>1
  <2> HIDE DEF s, named
  <2>3. store'[s] = [store[s] EXCEPT !.dirty = IF s \in old THEN store[s].kept ELSE @, !.torn = @ \/ s \in lost]
    BY <1>3, <2>2
  <2> QED BY <2>3 DEF s
<1>6. \A n \in Names : name[n] \in lost => ~store[name[n]].safe
  OBVIOUS
<1> HIDE DEF After, named
<1>7. name["pkg"] # 0 => PkgOK(index, changes, store'[name["pkg"]])
  <2> SUFFICES ASSUME name["pkg"] # 0 PROVE PkgOK(index, changes, store'[name["pkg"]])
    OBVIOUS
  <2>1. PkgOK(index, changes, store[name["pkg"]]) /\ store[name["pkg"]] \in StoreRec
    BY DEF FInv, Named, PkgOK
  <2> QED BY <1>2, <1>4, <1>5, <1>6, <2>1
<1>8. name["src"] # 0 => SrcOK(index, changes, store'[name["src"]])
  <2> SUFFICES ASSUME name["src"] # 0 PROVE SrcOK(index, changes, store'[name["src"]])
    OBVIOUS
  <2>1. SrcOK(index, changes, store[name["src"]]) /\ store[name["src"]] \in StoreRec
    BY DEF FInv, Named, SrcOK
  <2> QED BY <1>2, <1>4, <1>5, <1>6, <2>1
<1>9. Named'
  BY <1>1, <1>7, <1>8 DEF Named
<1>10. Apart'
  BY <1>1, <1>2, IdleWorks DEF FInv, Apart
<1>11. Writers'
  BY <1>2, IdleWorks, RootAssumption DEF Writers
<1> QED BY <1>1, <1>9, <1>10, <1>11 DEF FInv

-----------------------------------------------------------------------------
(* The invariant and the theorem.                                           *)

LEMMA FInit == Init => FInv
<1> SUFFICES ASSUME Init PROVE FInv
  OBVIOUS
<1>1. CacheTypes /\ Clock
  BY CacheInit
<1>2. name["pkg"] = 0 /\ name["src"] = 0 /\ \A p \in Procs : proc[p] = Idle
  BY DEF Init, Names
<1>3. Named
  BY <1>2 DEF Named
<1>4. Apart
  BY <1>1, <1>2, IdleWorks DEF Apart, CacheTypes
<1>5. Writers
  BY <1>2, IdleWorks, RootAssumption DEF Writers
<1> QED BY <1>1, <1>3, <1>4, <1>5 DEF FInv

LEMMA FNext == ASSUME FInv, OneWriter, [Next]_vars PROVE FInv'
<1>1. CacheTypes' /\ Clock'
  BY ClockTicks DEF FInv
<1>2. CASE UNCHANGED vars
  BY <1>2 DEF vars, FInv, CacheTypes, Clock, Named, Apart, Writers
<1>3. ASSUME NEW p \in Roots, Step(p) PROVE FInv'
  <2>1. CASE Start(p) \/ CheckPkg(p)
    BY <1>1, <1>3, <2>1, WriterStarts
  <2>2. CASE CheckSource(p)
    BY <1>1, <2>2, WriterBegins
  <2>3. CASE Unlink(p)
    BY <1>1, <2>3, WriterUnlinks
  <2>4. CASE Create(p)
    BY <1>1, <2>4, WriterCreates
  <2>5. CASE Preload(p)
    BY <1>1, <2>5, WriterPreloads
  <2>6. CASE Generator(p)
    BY <1>1, <2>6, WriterReopens
  <2>7. CASE OpenIndex(p)
    BY <1>1, <2>7, WriterOpens
  <2>8. CASE Merge(p)
    BY <1>1, <2>8, WriterMerges
  <2>9. CASE SourcesMerged(p)
    BY <1>1, <2>9, WriterHasSources
  <2>10. CASE StatusMerged(p)
    BY <1>1, <2>10, WriterHasStatus
  <2>11. CASE Collect(p)
    BY <1>1, <2>11, WriterCollects
  <2>12. CASE WriteData(p)
    BY <1>1, <2>12, WriterCopies
  <2>13. CASE ClearFlag(p)
    BY <1>1, <2>13, WriterClears
  <2>14. CASE WriteHeader(p)
    BY <1>1, <2>14, WriterHeads
  <2>15. CASE SyncMap(p)
    BY <1>1, <2>15, WriterSyncs
  <2>16. CASE MarkClean(p)
    BY <1>1, <2>16, WriterFinishes
  <2>17. CASE Refused(p) \/ Close(p)
    BY <2>17, WriterLeaves
  <2> QED BY <1>3, <2>1, <2>2, <2>3, <2>4, <2>5, <2>6, <2>7, <2>8, <2>9, <2>10, <2>11, <2>12, <2>13,
             <2>14, <2>15, <2>16, <2>17 DEF Step
<1>4. ASSUME NEW p \in Procs, Step(p) \/ Stop(p) PROVE FInv'
  <2>1. CASE p \in Roots
    BY <1>3, <1>4, <2>1, WriterLeaves
  <2>2. CASE p \notin Roots
    BY <1>4, <2>2, StrangerLeaves
  <2> QED BY <2>1, <2>2
<1>5. ASSUME NEW ix \in Indexes, Change(ix) PROVE FInv'
  BY <1>5, IndexChanges
<1>6. CASE PowerFailure
  BY <1>6, PowerFails
<1> QED BY <1>2, <1>4, <1>5, <1>6 DEF Next

\* The two caches on disk are at any time unfinished, or without the database, or
\* complete and safe on the disk; and the one writer is where its task list says.
THEOREM FilesInvariance == ASSUME OneWriter PROVE Spec => []FInv
<1>1. Init => FInv
  BY FInit
<1>2. FInv /\ [Next]_vars => FInv'
  BY FNext
<1> QED BY <1>1, <1>2, PTL DEF Spec

\* A package cache that CheckValidity accepts is what a build would make of the indexes
\* as they are now, unless an mtime lies: for any indexes, readers, changes, crashes and
\* power failures, with one process that may write the cache directory.
THEOREM AcceptedCaches == ASSUME OneWriter PROVE Spec => AcceptedIsCurrent
<1>1. FInv /\ [Next]_vars => [\A p \in Procs : Accepts(p) => LET st == store[name["pkg"]] IN Misdated(st) \/ IsCurrent(st)]_vars
  <2> SUFFICES ASSUME FInv, Next, NEW p \in Procs, Accepts(p)
               PROVE  Misdated(store[name["pkg"]]) \/ IsCurrent(store[name["pkg"]])
    OBVIOUS
  <2> QED BY AcceptsCurrent
<1>2. Spec => []FInv
  BY FilesInvariance
<1> QED BY <1>1, <1>2, PTL DEF Spec, AcceptedIsCurrent

-----------------------------------------------------------------------------
(* A build while the indexes stay as they are.                              *)

\* The index is in, or every index of the list that exists.
HasIndex(st, ix) == \E k \in DOMAIN st.files : st.files[k].ix = ix
HasAll(ind, st, list) == \A ix \in list : ind[ix].mtime # 0 => HasIndex(st, ix)

\* What is in the map is an index as it is, and once.
Single(st) == \A j, k \in DOMAIN st.files : st.files[j].ix = st.files[k].ix => j = k
Dating(ind, f) == f.mtime = ind[f.ix].mtime /\ f.mtime # 0
Exact(ind, st) ==
    \A k \in DOMAIN st.files :
        Dating(ind, st.files[k]) /\ (st.files[k].late \/ st.files[k].kind = ind[st.files[k].ix].kind)

\* What CheckValidity looks at, for an index list.
Valid(ind, st, opts, list) ==
    /\ ~st.dirty /\ st.opts = opts
    /\ \A k \in DOMAIN st.files : st.files[k].ix \in list /\ Dating(ind, st.files[k])
    /\ Single(st) /\ HasAll(ind, st, list)

\* The stages of any process; those in which it copies the sources are the writer's.
Points == {"sources", "collect", "create", "data", "flag", "header", "merge", "status",
           "sync", "clean", "preload", "generator"}

\* What is left to do, for a process that may write the files (r) and for others.
AfterSources(r) == IF r \in Roots THEN Rest("unlink") ELSE Rest("merge")
Left(r, g) ==
    CASE g = "sources" -> <<Do("sources", 0)>> \o AfterSources(r)
      [] g = "collect" -> AfterSources(r)
      [] OTHER         -> Rest(g)

\* Every source is in, or every index, under the options.
Sourced(ind, pr, st) == HasAll(ind, st, Listed) /\ st.opts = pr.opts
Filled(ind, pr, st)  == HasAll(ind, st, Indexes) /\ st.opts = pr.opts

\* The lists that were gone through are in, and the one that is open is not.
Opened(ind, pr, st, pre) ==
    /\ Reads(ind, pr, pre)
    /\ (pre # <<>> /\ pre[1].do = "merge") =>
          pr.open = ind[pre[1].ix] /\ ~HasIndex(st, pre[1].ix)
    /\ \A ix \in Listed : ind[ix].mtime # 0 =>
          HasIndex(st, ix) \/ \E i \in DOMAIN pre : pre[i].ix = ix

Point(ind, pr, st, pre, g) ==
    CASE g = "sources" -> /\ Opened(ind, pr, st, pre) /\ NoDb(st) /\ st.provs = {}
                          /\ pr.newdeps = Needs(st)
      [] g = "collect" -> /\ Collects(pre) /\ NoDb(st) /\ ~pr.newdeps /\ st.fdeps = Needs(st)
                          /\ Pending(ind, st, pre) /\ Sourced(ind, pr, st)
      [] g = "status"  -> Entered(ind, pr, st) /\ Filled(ind, pr, st)
      [] g = "sync"    -> Collects(pre) /\ Pending(ind, st, pre) /\ Filled(ind, pr, st)
      [] g = "clean"   -> Whole(ind, st) /\ Filled(ind, pr, st)
      [] g = "preload" -> st.files = <<>> /\ ~pr.newdeps
      [] OTHER         -> Ready(ind, pr, st) /\ Sourced(ind, pr, st)

Built(ind, pr, st, pre, g) ==
    /\ st \in StoreRec /\ ~st.torn /\ st.provs \subseteq ProvidesDue(st.files)
    /\ Exact(ind, st) /\ Single(st)
    /\ g \notin {"sources", "collect", "sync"} => pre = <<>>
    /\ Point(ind, pr, st, pre, g)

\* A process that builds in the map st is where its tasks say.
On(ind, pr, st, r, pre, g) ==
    /\ pre \in Seq(TaskRec) /\ g \in Points
    /\ pr.todo = pre \o Left(r, g) /\ Built(ind, pr, st, pre, g)

\* No index has changed since the process opened the database, and (Quiet) the source
\* cache it reads is the one it has checked.
Still(ind, ch, pr) == pr.since = ch /\ ~ind[Database].back
Quiet(ind, ch, pr) == Still(ind, ch, pr) /\ ~pr.other

Builds(ind, ch, nm, sto, pr, r) ==
    /\ pr.at # "off" => pr.since <= ch
    /\ (pr.at # "off" /\ Still(ind, ch, pr)) => pr.dbtime = ind[Database].mtime
    /\ pr.seen # 0 => ~pr.other
    /\ pr.at \in {"check", "source"} \/ (pr.at = "build" /\ pr.map = 0) =>
          ~pr.newdeps /\ ~pr.other /\ pr.seen = 0
    /\ pr.at = "build" =>
          /\ pr.map = 0 => r \in Roots
          /\ (r \in Roots /\ Still(ind, ch, pr)) =>
                ~pr.other /\ (Head(pr.todo).do = "preload" => pr.seen = nm["src"])
          /\ (pr.seen # 0 /\ pr.seen = nm["src"] /\ Quiet(ind, ch, pr)) =>
                Valid(ind, sto[pr.seen], pr.opts, Indexes \ {Database})
          /\ (pr.map # 0 /\ Quiet(ind, ch, pr)) =>
                \E pre, g : On(ind, pr, sto[pr.map], r, pre, g)

\* Every process has a map of its own.
Alone == \A p, q \in Procs : p # q /\ proc[p].map # 0 => proc[p].map # proc[q].map

\* What a finished cache says of its build.
Stamped(ind, ch, st) ==
    st.made # <<>> =>
        /\ st.made[1] <= ch
        /\ (st.made[1] = ch /\ ~ind[Database].back) => Valid(ind, st, st.made[2], Indexes)
Stamps ==
    /\ name["src"] # 0 => store[name["src"]].made = <<>>
    /\ name["pkg"] # 0 => Stamped(index, changes, store[name["pkg"]])
    /\ \A r \in Roots : proc[r].at \in {"source", "build"} /\ proc[r].map # 0 =>
          store[proc[r].map].made = <<>>

Builders == \A p \in Procs : Builds(index, changes, name, store, proc[p], p)

BInv == FInv /\ Alone /\ Stamps /\ Builders

-----------------------------------------------------------------------------
\* CheckValidity accepts what is valid.
LEMMA ValidMatches ==
    ASSUME NEW st \in StoreRec, NEW opts, NEW list \in SUBSET Indexes
    PROVE  Matches(st, opts, list) <=> Valid(index, st, opts, list)
<1> DEFINE here == {ix \in list : Exists(ix)}
<1>0. st.files \in Seq(FileRec) /\ DOMAIN st.files \subseteq Nat
  BY DEF StoreRec
<1>1. ASSUME NEW ix, NEW k
      PROVE  k \in Found(st, ix) <=>
                /\ k \in DOMAIN st.files /\ st.files[k].ix = ix /\ st.files[k].mtime = index[ix].mtime
                /\ \A o \in DOMAIN st.files : st.files[o].ix = ix => k <= o
  BY DEF Found, Positions
<1>2. ASSUME Matches(st, opts, list) PROVE Valid(index, st, opts, list)
  <2>1. ~st.dirty /\ st.opts = opts /\ \A ix \in here : Found(st, ix) # {}
    BY <1>2 DEF Matches
  <2>2. ASSUME NEW k \in DOMAIN st.files
        PROVE  /\ st.files[k].ix \in list /\ k \in Found(st, st.files[k].ix)
               /\ Exists(st.files[k].ix)
    <3>1. PICK ix \in here : k \in Found(st, ix)
      BY <1>2 DEF Matches
    <3> QED BY <1>1, <3>1
  <2>3. \A k \in DOMAIN st.files : st.files[k].ix \in list /\ Dating(index, st.files[k])
    BY <1>1, <2>2 DEF Dating, Exists
  <2>4. Single(st)
    <3> SUFFICES ASSUME NEW j \in DOMAIN st.files, NEW k \in DOMAIN st.files,
                        st.files[j].ix = st.files[k].ix
                 PROVE  j = k
      BY DEF Single
    <3>1. j <= k /\ k <= j
      BY <1>1, <2>2
    <3> QED BY <1>0, <3>1
  <2>5. HasAll(index, st, list)
    <3> SUFFICES ASSUME NEW ix \in list, index[ix].mtime # 0 PROVE HasIndex(st, ix)
      BY DEF HasAll
    <3>1. PICK k : k \in Found(st, ix)
      BY <2>1 DEF Exists
    <3> QED BY <1>1, <3>1 DEF HasIndex
  <2> QED BY <2>1, <2>3, <2>4, <2>5 DEF Valid
<1>3. ASSUME Valid(index, st, opts, list) PROVE Matches(st, opts, list)
  <2>1. ~st.dirty /\ st.opts = opts /\ Single(st) /\ HasAll(index, st, list)
    BY <1>3 DEF Valid
  <2>2. ASSUME NEW k \in DOMAIN st.files
        PROVE  st.files[k].ix \in here /\ k \in Found(st, st.files[k].ix)
    <3>1. st.files[k].ix \in list /\ Dating(index, st.files[k])
      BY <1>3 DEF Valid
    <3>2. \A o \in DOMAIN st.files : st.files[o].ix = st.files[k].ix => k <= o
      BY <1>0, <2>1 DEF Single
    <3> QED BY <1>1, <3>1, <3>2 DEF Dating, Exists
  <2>3. ASSUME NEW ix \in here PROVE Found(st, ix) # {}
    <3>1. PICK k \in DOMAIN st.files : st.files[k].ix = ix
      BY <2>1 DEF HasAll, HasIndex, Exists
    <3> QED BY <2>2, <3>1
  <2>4. DOMAIN st.files = UNION {Found(st, ix) : ix \in here}
    <3>1. DOMAIN st.files \subseteq UNION {Found(st, ix) : ix \in here}
      BY <2>2
    <3>2. UNION {Found(st, ix) : ix \in here} \subseteq DOMAIN st.files
      BY <1>1
    <3> QED BY <3>1, <3>2
  <2> QED BY <2>1, <2>3, <2>4 DEF Matches
<1> QED BY <1>2, <1>3

\* The tasks that are left.
LEMMA LeftChain ==
    ASSUME NEW r
    PROVE  /\ \A g \in Points : Left(r, g) \in Seq(TaskRec) /\ Left(r, g) # <<>>
           /\ Head(Left(r, "sources")) = Do("sources", 0) /\ Tail(Left(r, "sources")) = Left(r, "collect")
           /\ Left(r, "collect") = (IF r \in Roots THEN Rest("unlink") ELSE Rest("merge"))
           /\ \A g \in Points \ {"sources", "collect"} : Left(r, g) = Rest(g)
           /\ r \in Roots => Left(r, "sources") = Rest("sources")
<1>1. AfterSources(r) \in Seq(TaskRec) /\ AfterSources(r) # <<>>
  BY Chain DEF AfterSources, Stages
<1>2. Do("sources", 0) \in TaskRec
  BY DEF Do, TaskRec, PlainTask
<1>3. /\ <<Do("sources", 0)>> \o AfterSources(r) \in Seq(TaskRec)
      /\ <<Do("sources", 0)>> \o AfterSources(r) # <<>>
      /\ Head(<<Do("sources", 0)>> \o AfterSources(r)) = Do("sources", 0)
      /\ Tail(<<Do("sources", 0)>> \o AfterSources(r)) = AfterSources(r)
  <2> DEFINE t == Do("sources", 0)
             b == AfterSources(r)
  <2>1. t \in TaskRec /\ b \in Seq(TaskRec)
    BY <1>1, <1>2
  <2> HIDE DEF t, b
  <2>2. <<t>> \in Seq(TaskRec) /\ <<t>> # <<>> /\ <<t>>[1] = t /\ Tail(<<t>>) = <<>>
    BY <2>1
  <2>3. <<>> \in Seq(TaskRec) /\ <<>> \o b = b
    BY <2>1
  <2>4. <<t>> \o b \in Seq(TaskRec) /\ <<t>> \o b # <<>> /\ Head(<<t>> \o b) = t /\ Tail(<<t>> \o b) = b
    BY <2>1, <2>2, <2>3, Leading
  <2> QED BY <2>4 DEF t, b
<1>4. \A g \in Points \ {"sources", "collect"} : Left(r, g) = Rest(g) /\ g \in Stages
  BY DEF Left, Points, Stages
<1>5. r \in Roots => Left(r, "sources") = Rest("sources")
  BY DEF Left, Rest, AfterSources
<1>6. /\ Left(r, "sources") = <<Do("sources", 0)>> \o AfterSources(r)
      /\ Left(r, "collect") = AfterSources(r)
  BY DEF Left
<1>7. \A g \in Points : Left(r, g) \in Seq(TaskRec) /\ Left(r, g) # <<>>
  BY <1>1, <1>3, <1>4, <1>6, Chain DEF Points
<1> QED BY <1>3, <1>4, <1>5, <1>6, <1>7 DEF AfterSources

\* No task before the stage.
LEMMA NoPre == <<>> \in Seq(TaskRec) /\ \A r, g : g \in Points => <<>> \o Left(r, g) = Left(r, g)
<1>1. \A r, g : g \in Points => Left(r, g) \in Seq(TaskRec)
  BY LeftChain
<1> QED BY <1>1, ConcatEmptySeq

\* The first task tells the stage.
LEMMA OnTask ==
    ASSUME NEW ind, NEW pr, NEW st, NEW r, NEW g, On(ind, pr, st, r, <<>>, g)
    PROVE  /\ pr.todo = Left(r, g) /\ pr.todo # <<>>
           /\ g # "collect" => Head(pr.todo).do = g
           /\ g = "collect" => Head(pr.todo).do = IF r \in Roots THEN "unlink" ELSE "merge"
<1>1. g \in Points /\ pr.todo = <<>> \o Left(r, g) /\ Left(r, g) # <<>>
  BY LeftChain DEF On
<1>2. pr.todo = Left(r, g)
  BY <1>1, NoPre
<1>3. \A d, ix : Do(d, ix).do = d
  BY DEF Do
<1>4. Head(Left(r, "sources")).do = "sources"
  BY <1>3, LeftChain
<1>5. Head(Left(r, "collect")).do = IF r \in Roots THEN "unlink" ELSE "merge"
  BY <1>3, LeftChain, Chain
<1>6. ASSUME g \notin {"sources", "collect"} PROVE Head(Left(r, g)).do = g
  <2>1. Left(r, g) = Rest(g)
    BY <1>1, <1>6, LeftChain
  <2>2. \/ Head(Rest(g)) = Do(g, 0) \/ Head(Rest(g)) = Do(g, "src") \/ Head(Rest(g)) = Do(g, Database)
    BY <1>1, <1>6, Chain DEF Points
  <2> QED BY <1>3, <2>1, <2>2
<1> QED BY <1>1, <1>2, <1>4, <1>5, <1>6

\* Before the stage come the tasks for single indexes, and the first of them is next.
LEMMA OnSingle ==
    ASSUME NEW ind, NEW pr, NEW st, NEW r, NEW pre, NEW g, On(ind, pr, st, r, pre, g), pre # <<>>
    PROVE  /\ pr.todo # <<>> /\ Head(pr.todo) = pre[1] /\ Tail(pr.todo) = Tail(pre) \o Left(r, g)
           /\ Tail(pre) \in Seq(TaskRec) /\ 1 \in DOMAIN pre /\ Len(Tail(pre)) = Len(pre) - 1
           /\ \A i \in DOMAIN Tail(pre) : Tail(pre)[i] = pre[i + 1]
           /\ \/ g = "sources" /\ pre[1].do \in {"open", "merge"}
              \/ g \in {"collect", "sync"} /\ pre[1].do = "collect"
<1>1. /\ pre \in Seq(TaskRec) /\ g \in Points /\ pr.todo = pre \o Left(r, g)
      /\ Left(r, g) \in Seq(TaskRec) /\ Left(r, g) # <<>>
  BY LeftChain DEF On
<1>2. /\ pr.todo # <<>> /\ Head(pr.todo) = pre[1] /\ Tail(pr.todo) = Tail(pre) \o Left(r, g)
      /\ Tail(pre) \in Seq(TaskRec)
      /\ Len(Tail(pre)) = Len(pre) - 1 /\ \A i \in DOMAIN Tail(pre) : Tail(pre)[i] = pre[i + 1]
  BY <1>1, Leading
<1>3. 1 \in DOMAIN pre
  BY <1>1
<1>4. g \in {"sources", "collect", "sync"} /\ Point(ind, pr, st, pre, g)
  BY DEF On, Built
<1>5. g = "sources" => pre[1].do \in {"open", "merge"}
  BY <1>3, <1>4 DEF Point, Opened, Reads, Paired
<1>6. g \in {"collect", "sync"} => pre[1].do = "collect"
  BY <1>3, <1>4 DEF Point, Collects
<1> QED BY <1>2, <1>3, <1>4, <1>5, <1>6

\* Once the provides of the sources are collected, a process that does not write them
\* back is at the merge of the database.
LEMMA CollectedReady ==
    ASSUME NEW ind, NEW pr, NEW st, NEW r, On(ind, pr, st, r, <<>>, "collect")
    PROVE  \A g \in {"create", "data", "flag", "header", "merge", "generator"} : Built(ind, pr, st, <<>>, g)
<1>1. /\ NoDb(st) /\ ~pr.newdeps /\ st.fdeps = Needs(st) /\ Pending(ind, st, <<>>) /\ Sourced(ind, pr, st)
  BY DEF On, Built, Point
<1>2. Whole(ind, st)
  BY <1>1 DEF Pending, Whole
<1> QED BY <1>1, <1>2 DEF On, Built, Point, Ready

\* What is known at a task of a kind of its own.
LEMMA OnStage ==
    ASSUME NEW ind, NEW pr, NEW st, NEW r, NEW pre, NEW g, On(ind, pr, st, r, pre, g),
           NEW d, Head(pr.todo).do = d
    PROVE  /\ d \notin {"open", "merge", "collect", "unlink"} => On(ind, pr, st, r, <<>>, d)
           /\ d = "open" => pre # <<>> /\ g = "sources"
           /\ d = "merge" => \/ pre # <<>> /\ g = "sources"
                             \/ On(ind, pr, st, r, <<>>, "merge")
           /\ d = "collect" => pre # <<>> /\ g \in {"collect", "sync"}
           /\ d = "unlink" => r \in Roots /\ On(ind, pr, st, r, <<>>, "collect")
<1>1. g \in Points
  BY DEF On
<1>2. CASE pre # <<>>
  BY <1>2, OnSingle
<1>3. CASE pre = <<>> /\ g # "collect"
  <2>1. On(ind, pr, st, r, <<>>, g)
    BY <1>3
  <2>2. g = d
    BY <1>3, <2>1, OnTask
  <2> QED BY <1>1, <1>3, <2>1, <2>2 DEF Points
<1>4. CASE pre = <<>> /\ g = "collect" /\ r \in Roots
  <2>1. On(ind, pr, st, r, <<>>, "collect")
    BY <1>4
  <2>2. d = "unlink"
    BY <1>4, <2>1, OnTask
  <2> QED BY <1>4, <2>1, <2>2
<1>5. CASE pre = <<>> /\ g = "collect" /\ r \notin Roots
  <2>1. On(ind, pr, st, r, <<>>, "collect")
    BY <1>5
  <2>2. d = "merge" /\ pr.todo = Left(r, "collect")
    BY <1>5, <2>1, OnTask
  <2>3. Left(r, "collect") = Left(r, "merge") /\ Left(r, "merge") = <<>> \o Left(r, "merge")
    <3>1. Left(r, "collect") = Rest("merge") /\ Left(r, "merge") = Rest("merge")
      BY <1>5, LeftChain DEF Points
    <3> QED BY <3>1, NoPre DEF Points
  <2>4. Built(ind, pr, st, <<>>, "merge")
    BY <2>1, CollectedReady
  <2>5. On(ind, pr, st, r, <<>>, "merge")
    BY <2>2, <2>3, <2>4, NoPre DEF On, Points
  <2> QED BY <2>2, <2>5
<1> QED BY <1>2, <1>3, <1>4, <1>5

\* What is not told apart by a build.
LEMMA SameBuilt ==
    ASSUME NEW ind, NEW pr, NEW st, NEW pre, NEW g, Built(ind, pr, st, pre, g),
           NEW x, x.newdeps = pr.newdeps, x.opts = pr.opts, x.open = pr.open,
           NEW st2 \in StoreRec, ~st2.torn, st2.files = st.files, st2.provs = st.provs,
           st2.opts = st.opts, st2.fdeps = st.fdeps
    PROVE  Built(ind, x, st2, pre, g)
<1>1. /\ Fresh(ind, st2) <=> Fresh(ind, st)
      /\ Whole(ind, st2) <=> Whole(ind, st)
      /\ \A ix : Has(st2, ix) <=> Has(st, ix)
      /\ (NoDb(st2) <=> NoDb(st)) /\ (Needs(st2) <=> Needs(st))
  BY SameFiles
<1>2. /\ \A list : HasAll(ind, st2, list) <=> HasAll(ind, st, list)
      /\ \A ix : HasIndex(st2, ix) <=> HasIndex(st, ix)
      /\ Exact(ind, st2) <=> Exact(ind, st)
      /\ Single(st2) <=> Single(st)
  BY DEF HasAll, HasIndex, Exact, Single
<1>3. /\ Pending(ind, st2, pre) <=> Pending(ind, st, pre)
      /\ Sourced(ind, x, st2) <=> Sourced(ind, pr, st)
      /\ Filled(ind, x, st2) <=> Filled(ind, pr, st)
  BY <1>1, <1>2 DEF Pending, Sourced, Filled
<1>4. Opened(ind, x, st2, pre) <=> Opened(ind, pr, st, pre)
  BY <1>2 DEF Opened, Reads
<1>5. /\ Entered(ind, x, st2) <=> Entered(ind, pr, st)
      /\ Ready(ind, x, st2) <=> Ready(ind, pr, st)
  BY <1>1 DEF Entered, Ready, Needs
<1>6. (pr.newdeps = Needs(st)) <=> (x.newdeps = Needs(st2))
  BY DEF Needs
<1>7. (st.fdeps = Needs(st)) <=> (st2.fdeps = Needs(st2))
  BY DEF Needs
<1>8. Point(ind, pr, st, pre, g)
  BY DEF Built
<1>9. Point(ind, x, st2, pre, g)
  <2>1. CASE g = "sources"
    BY <1>1, <1>4, <1>6, <1>8, <2>1 DEF Point
  <2>2. CASE g = "collect"
    BY <1>1, <1>3, <1>7, <1>8, <2>2 DEF Point
  <2>3. CASE g = "status"
    BY <1>3, <1>5, <1>8, <2>3 DEF Point
  <2>4. CASE g = "sync"
    BY <1>3, <1>8, <2>4 DEF Point
  <2>5. CASE g = "clean"
    BY <1>1, <1>3, <1>8, <2>5 DEF Point
  <2>6. CASE g = "preload"
    BY <1>8, <2>6 DEF Point
  <2>7. CASE g \notin {"sources", "collect", "status", "sync", "clean", "preload"}
    BY <1>3, <1>5, <1>8, <2>7 DEF Point
  <2> QED BY <2>1, <2>2, <2>3, <2>4, <2>5, <2>6, <2>7
<1> QED BY <1>2, <1>9 DEF Built

\* A step that writes the map of a process, which nobody else has.
LEMMA HeldMap ==
    ASSUME CacheTypes, Alone, NEW p \in Procs, proc[p].map # 0,
           NEW st \in StoreRec, ~st.torn, WriteMap(p, st)
    PROVE  LET st2 == store'[proc[p].map] IN
           /\ st2 \in StoreRec /\ ~st2.torn /\ st2.files = st.files /\ st2.provs = st.provs
           /\ st2.opts = st.opts /\ st2.fdeps = st.fdeps /\ st2.made = st.made
           /\ \A s \in 1..NStores : s # proc[p].map => store'[s] = store[s]
<1>1. DOMAIN store = 1..NStores /\ proc[p] \in ProcRec /\ NStores \in Nat
  BY ListAssumption DEF CacheTypes
<1>2. proc[p].map \in 1..NStores
  BY <1>1 DEF ProcRec
<1>3. ~Shared(proc[p].map)
  <2>1. {q \in Procs : proc[q].map = proc[p].map} = {p}
    BY DEF Alone
  <2>2. Cardinality({q \in Procs : proc[q].map = proc[p].map}) = 1
    BY <2>1, FS_Singleton
  <2> QED BY <2>2 DEF Shared
<1> DEFINE m == proc[p].map
           new == [st EXCEPT !.safe = FALSE, !.torn = @ \/ Shared(m)]
           st2 == store'[m]
<1>4. store' = [store EXCEPT ![m] = new]
  BY DEF WriteMap
<1>5. new = [st EXCEPT !.safe = FALSE]
  BY <1>3 DEF StoreRec
<1>6. /\ new \in StoreRec /\ ~new.torn /\ new.files = st.files /\ new.provs = st.provs
      /\ new.opts = st.opts /\ new.fdeps = st.fdeps /\ new.made = st.made
  BY <1>5 DEF StoreRec
<1> HIDE DEF new, m
<1>7. st2 = new /\ \A s \in 1..NStores : s # m => store'[s] = store[s]
  BY <1>1, <1>2, <1>4 DEF m
<1> HIDE DEF st2
<1> QED BY <1>6, <1>7 DEF st2, m

\* A process with a task of a build has a map.
LEMMA BuilderHasMap ==
    ASSUME BInv, NEW p \in Procs, NEW d, Task(p, d), d \notin {"unlink", "create"}
    PROVE  proc[p].map # 0
<1>1. CASE p \in Roots
  <2>1. Working(index, name, store, proc[p]) /\ proc[p].at = "build"
    BY <1>1 DEF BInv, FInv, Writers, Task
  <2>2. ~Opening(name, proc[p])
    BY OpeningTasks DEF Task, Do
  <2> QED BY <2>1, <2>2 DEF Working, Building
<1>2. CASE p \notin Roots
  BY <1>2 DEF BInv, Builders, Builds, Task
<1> QED BY <1>1, <1>2

\* What it knows while the indexes stay as they are.
LEMMA BuilderState ==
    ASSUME BInv, NEW p \in Procs, NEW d, Task(p, d), proc[p].map # 0, Quiet(index, changes, proc[p])
    PROVE  /\ \E pre, g : /\ On(index, proc[p], store[proc[p].map], p, pre, g)
                          /\ d = "open" => pre # <<>> /\ g = "sources"
                          /\ d = "merge" => \/ pre # <<>> /\ g = "sources"
                                            \/ pre = <<>> /\ g = "merge"
                          /\ d = "collect" => pre # <<>> /\ g \in {"collect", "sync"}
           /\ d \notin {"open", "merge", "collect", "unlink"} =>
                 On(index, proc[p], store[proc[p].map], p, <<>>, d)
           /\ d = "unlink" => /\ p \in Roots
                              /\ On(index, proc[p], store[proc[p].map], p, <<>>, "collect")
           /\ proc[p] \in ProcRec /\ proc[p].at = "build" /\ proc[p].dbtime = index[Database].mtime
           /\ index \in [Indexes -> IndexRec]
<1> DEFINE pr == proc[p]
           st == store[pr.map]
<1>1. /\ Builds(index, changes, name, store, pr, p) /\ pr.at = "build" /\ Head(pr.todo).do = d
      /\ pr \in ProcRec /\ index \in [Indexes -> IndexRec]
  BY DEF BInv, Builders, Task, FInv, CacheTypes
<1>2. pr.dbtime = index[Database].mtime
  BY <1>1 DEF Builds, Quiet
<1>3. PICK pre, g : On(index, pr, st, p, pre, g)
  BY <1>1 DEF Builds
<1> HIDE DEF pr, st
<1>5. /\ d \notin {"open", "merge", "collect", "unlink"} => On(index, pr, st, p, <<>>, d)
      /\ d = "open" => pre # <<>> /\ g = "sources"
      /\ d = "merge" => \/ pre # <<>> /\ g = "sources"
                        \/ On(index, pr, st, p, <<>>, "merge")
      /\ d = "collect" => pre # <<>> /\ g \in {"collect", "sync"}
      /\ d = "unlink" => p \in Roots /\ On(index, pr, st, p, <<>>, "collect")
  BY <1>1, <1>3, OnStage
<1>6. \E a, b : /\ On(index, pr, st, p, a, b)
                /\ d = "open" => a # <<>> /\ b = "sources"
                /\ d = "merge" => \/ a # <<>> /\ b = "sources"
                                  \/ a = <<>> /\ b = "merge"
                /\ d = "collect" => a # <<>> /\ b \in {"collect", "sync"}
  <2>1. CASE d = "merge" /\ On(index, pr, st, p, <<>>, "merge")
    BY <2>1
  <2>2. CASE ~(d = "merge" /\ On(index, pr, st, p, <<>>, "merge"))
    BY <1>3, <1>5, <2>2
  <2> QED BY <2>1, <2>2
<1> QED BY <1>1, <1>2, <1>5, <1>6 DEF pr, st

\* What follows the first.
LEMMA TailKeeps ==
    ASSUME NEW S, NEW seq \in Seq(S), seq # <<>>
    PROVE  /\ Tail(seq) \in Seq(S) /\ 1 \in DOMAIN seq /\ seq[1] \in S /\ Head(seq) = seq[1]
           /\ \A i \in DOMAIN seq : i # 1 => i - 1 \in DOMAIN Tail(seq) /\ Tail(seq)[i - 1] = seq[i]
           /\ \A i \in DOMAIN Tail(seq) : i + 1 \in DOMAIN seq /\ Tail(seq)[i] = seq[i + 1]
<1>1. Len(seq) \in Nat /\ Len(seq) # 0 /\ DOMAIN seq = 1..Len(seq)
  OBVIOUS
<1> DEFINE t == Tail(seq)
<1>2. t \in Seq(S) /\ Len(t) = Len(seq) - 1 /\ DOMAIN t = 1..Len(t) /\ \A i \in DOMAIN t : t[i] = seq[i + 1]
  BY <1>1
<1> HIDE DEF t
<1>3. seq[1] \in S /\ Head(seq) = seq[1] /\ 1 \in DOMAIN seq
  BY <1>1
<1> QED BY <1>1, <1>2, <1>3 DEF t

\* An open list is passed over, or is next to be merged.
LEMMA Opens ==
    ASSUME NEW ind \in [Indexes -> IndexRec], NEW pr, NEW st, NEW r, NEW pre,
           On(ind, pr, st, r, pre, "sources"), pre # <<>>, pre[1].do = "open"
    PROVE  LET ix == pre[1].ix IN
           /\ ix \in Listed /\ Head(pr.todo) = pre[1]
           /\ \A x : /\ x.todo = Tail(Tail(pr.todo)) /\ x.newdeps = pr.newdeps
                     /\ ind[ix].mtime = 0 \/ HasIndex(st, ix)
                     => On(ind, x, st, r, Tail(Tail(pre)), "sources")
           /\ \A x : /\ x.todo = Tail(pr.todo) /\ x.newdeps = pr.newdeps /\ x.open = ind[ix]
                     /\ ind[ix].mtime # 0 /\ ~HasIndex(st, ix)
                     => On(ind, x, st, r, Tail(pre), "sources")
<1> DEFINE ix == pre[1].ix
           t == Tail(pre)
           tt == Tail(t)
<1>1. /\ pre \in Seq(TaskRec) /\ Opened(ind, pr, st, pre) /\ NoDb(st) /\ st.provs = {}
      /\ pr.newdeps = Needs(st) /\ st \in StoreRec /\ ~st.torn /\ st.provs \subseteq ProvidesDue(st.files)
      /\ Exact(ind, st) /\ Single(st)
  BY DEF On, Built, Point
<1>2. Head(pr.todo) = pre[1] /\ Tail(pr.todo) = Tail(pre) \o Left(r, "sources")
  BY OnSingle
<1>3. /\ t \in Seq(TaskRec) /\ Paired(t) /\ ix \in Listed /\ t # <<>> /\ t[1] = Do("merge", ix)
  BY <1>1, PairedTail DEF Opened, Reads
<1>4. t[1].do = "merge" /\ t[1].ix = ix
  BY <1>3 DEF Do
<1>5. /\ \A i \in DOMAIN pre : i # 1 => i - 1 \in DOMAIN t /\ t[i - 1] = pre[i]
  BY <1>1, TailKeeps
<1> HIDE DEF t
<1>6. tt \in Seq(TaskRec) /\ Paired(tt) /\ (tt # <<>> => tt[1].do = "open")
  BY <1>3, <1>4, PairedTail
<1>7. \A i \in DOMAIN t : i # 1 => i - 1 \in DOMAIN tt /\ tt[i - 1] = t[i]
  BY <1>3, TailKeeps
<1>8. Left(r, "sources") \in Seq(TaskRec)
  BY LeftChain DEF Points
<1>9. Tail(Tail(pr.todo)) = tt \o Left(r, "sources")
  <2>1. Tail(pr.todo) = t \o Left(r, "sources")
    BY <1>2 DEF t
  <2> DEFINE l == Left(r, "sources")
  <2> HIDE DEF l
  <2>2. l \in Seq(TaskRec)
    BY <1>8 DEF l
  <2>3. Tail(t \o l) = tt \o l
    BY <1>3, <2>2, Leading
  <2> QED BY <2>1, <2>3 DEF l
<1>10. \A i \in Listed : ind[i].mtime # 0 =>
          \/ HasIndex(st, i) \/ i = ix
          \/ \E j \in DOMAIN t : t[j].ix = i
  <2> SUFFICES ASSUME NEW i \in Listed, ind[i].mtime # 0, ~HasIndex(st, i), i # ix
               PROVE  \E j \in DOMAIN t : t[j].ix = i
    OBVIOUS
  <2>1. PICK j \in DOMAIN pre : pre[j].ix = i
    BY <1>1 DEF Opened
  <2>2. j # 1
    BY <2>1
  <2> QED BY <1>5, <2>1, <2>2
<1>11. \A i \in Listed : ind[i].mtime # 0 =>
          \/ HasIndex(st, i) \/ i = ix
          \/ \E j \in DOMAIN tt : tt[j].ix = i
  <2> SUFFICES ASSUME NEW i \in Listed, ind[i].mtime # 0, ~HasIndex(st, i), i # ix
               PROVE  \E j \in DOMAIN tt : tt[j].ix = i
    OBVIOUS
  <2>1. PICK j \in DOMAIN t : t[j].ix = i
    BY <1>10
  <2>2. j # 1
    BY <1>4, <2>1
  <2> QED BY <1>7, <2>1, <2>2
<1> HIDE DEF ix, tt
<1>12. ASSUME NEW x, x.todo = Tail(Tail(pr.todo)), x.newdeps = pr.newdeps,
              ind[ix].mtime = 0 \/ HasIndex(st, ix)
       PROVE  On(ind, x, st, r, tt, "sources")
  <2>1. Reads(ind, x, tt)
    BY <1>6 DEF Reads
  <2>2. Opened(ind, x, st, tt)
    BY <1>6, <1>11, <1>12, <2>1 DEF Opened
  <2>3. Built(ind, x, st, tt, "sources")
    BY <1>1, <1>12, <2>2 DEF Built, Point
  <2> QED BY <1>6, <1>9, <1>12, <2>3 DEF On, Points
<1>13. ASSUME NEW x, x.todo = Tail(pr.todo), x.newdeps = pr.newdeps, x.open = ind[ix],
              ind[ix].mtime # 0, ~HasIndex(st, ix)
       PROVE  On(ind, x, st, r, t, "sources")
  <2>1. ind[ix] \in IndexRec
    BY <1>3, ListedIndexes
  <2>2. Reads(ind, x, t)
    BY <1>3, <1>4, <1>13, <2>1 DEF Reads
  <2>3. Opened(ind, x, st, t)
    <3>1. \A i \in Listed : ind[i].mtime # 0 => HasIndex(st, i) \/ \E j \in DOMAIN t : t[j].ix = i
      <4>1. 1 \in DOMAIN t
        BY <1>3
      <4> QED BY <1>4, <1>10, <4>1
    <3> QED BY <1>3, <1>4, <1>13, <2>2, <3>1 DEF Opened
  <2>4. Built(ind, x, st, t, "sources")
    BY <1>1, <1>13, <2>3 DEF Built, Point
  <2> QED BY <1>2, <1>3, <1>13, <2>4 DEF On, Points, t
<1> QED BY <1>2, <1>3, <1>12, <1>13 DEF ix, t, tt

\* An index that was not in the cache is merged.
LEMMA Grows ==
    ASSUME NEW ind, NEW st \in StoreRec, NEW f \in FileRec, Exact(ind, st), Single(st),
           ~HasIndex(st, f.ix), Dating(ind, f), f.kind = ind[f.ix].kind,
           st.provs \subseteq ProvidesDue(st.files),
           NEW st2 \in StoreRec, st2.files = <<f>> \o st.files, st2.provs = st.provs
    PROVE  /\ Exact(ind, st2) /\ Single(st2) /\ st2.provs \subseteq ProvidesDue(st2.files)
           /\ HasIndex(st2, f.ix) /\ \A ix : HasIndex(st, ix) => HasIndex(st2, ix)
           /\ Needed(st2.files) = f.kind.needs \cup Needed(st.files)
           /\ \A k \in DOMAIN st2.files : st2.files[k] = f \/ \E j \in DOMAIN st.files : st2.files[k] = st.files[j]
           /\ Fresh(ind, st2) => Fresh(ind, st)
<1> DEFINE old == st.files
           new == <<f>> \o old
<1>1. old \in Seq(FileRec)
  BY DEF StoreRec
<1>2. /\ new \in Seq(FileRec)
      /\ \A k \in DOMAIN new : new[k] = f \/ \E j \in DOMAIN old : new[k] = old[j]
      /\ \A j \in DOMAIN old : j + 1 \in DOMAIN new /\ new[j + 1] = old[j]
      /\ Needed(new) = f.kind.needs \cup Needed(old)
      /\ ProvidesDue(old) \subseteq ProvidesDue(new)
  BY <1>1, Push
<1>3. /\ 1 \in DOMAIN new /\ new[1] = f
      /\ \A k \in DOMAIN new : k # 1 => k - 1 \in DOMAIN old /\ new[k] = old[k - 1]
  <2>1. <<f>> \in Seq(FileRec) /\ Len(<<f>>) = 1 /\ <<f>>[1] = f
    OBVIOUS
  <2>2. /\ Len(new) = Len(old) + 1 /\ Len(old) \in Nat
        /\ DOMAIN new = 1..Len(new) /\ DOMAIN old = 1..Len(old)
        /\ \A i \in 1..1 + Len(old) : new[i] = IF i <= 1 THEN <<f>>[i] ELSE old[i - 1]
    BY <1>1, <2>1, ConcatProperties
  <2> HIDE DEF new, old
  <2> QED BY <2>1, <2>2
<1>4. DOMAIN new \subseteq Nat
  BY <1>2
<1>5. st2.files = new /\ st.files = old
  OBVIOUS
<1> HIDE DEF new, old
<1>6. Exact(ind, st2)
  BY <1>2, <1>5 DEF Exact
<1>7. Single(st2)
  <2> SUFFICES ASSUME NEW j \in DOMAIN new, NEW k \in DOMAIN new, new[j].ix = new[k].ix PROVE j = k
    BY <1>5 DEF Single
  <2>1. \A i \in DOMAIN old : old[i].ix # f.ix
    BY <1>5 DEF HasIndex
  <2>2. j = 1 <=> k = 1
    BY <1>3, <2>1
  <2>3. j # 1 /\ k # 1 => j - 1 = k - 1
    BY <1>3, <1>5 DEF Single
  <2> QED BY <1>4, <2>2, <2>3
<1>8. HasIndex(st2, f.ix) /\ \A ix : HasIndex(st, ix) => HasIndex(st2, ix)
  <2>1. HasIndex(st2, f.ix)
    BY <1>3, <1>5 DEF HasIndex
  <2>2. ASSUME NEW ix, HasIndex(st, ix) PROVE HasIndex(st2, ix)
    <3>1. PICK j \in DOMAIN old : old[j].ix = ix
      BY <1>5, <2>2 DEF HasIndex
    <3>2. j + 1 \in DOMAIN new /\ new[j + 1] = old[j]
      BY <1>2
    <3> QED BY <1>5, <3>1, <3>2 DEF HasIndex
  <2> QED BY <2>1, <2>2
<1>9. Fresh(ind, st2) => Fresh(ind, st)
  BY <1>2, <1>5 DEF Fresh
<1> QED BY <1>2, <1>5, <1>6, <1>7, <1>8, <1>9

\* A list is merged ...
LEMMA MergesIn ==
    ASSUME NEW ind \in [Indexes -> IndexRec], NEW pr, NEW st, NEW r, NEW pre,
           On(ind, pr, st, r, pre, "sources"), pre # <<>>, pre[1].do = "merge"
    PROVE  LET ix == pre[1].ix IN
           /\ ix \in Listed /\ ix # Database /\ Head(pr.todo) = pre[1] /\ st \in StoreRec /\ ~st.torn
           /\ pr.open = ind[ix] /\ ~HasIndex(st, ix)
<1> DEFINE ix == pre[1].ix
           t == Tail(pre)
<1>1. /\ pre \in Seq(TaskRec) /\ Opened(ind, pr, st, pre) /\ NoDb(st) /\ st.provs = {}
      /\ pr.newdeps = Needs(st) /\ st \in StoreRec /\ ~st.torn /\ st.provs \subseteq ProvidesDue(st.files)
      /\ Exact(ind, st) /\ Single(st)
  BY DEF On, Built, Point
<1>2. Head(pr.todo) = pre[1] /\ Tail(pr.todo) = Tail(pre) \o Left(r, "sources")
  BY OnSingle
<1>3. /\ t \in Seq(TaskRec) /\ Paired(t) /\ ix \in Listed /\ (t # <<>> => t[1].do = "open")
  BY <1>1, PairedTail DEF Opened, Reads
<1>4. pr.open = ind[ix] /\ ~HasIndex(st, ix)
  BY <1>1 DEF Opened
<1>5. ix # Database
  BY <1>3, ListedIndexes
<1> QED BY <1>1, <1>2, <1>3, <1>4, <1>5 DEF ix

\* The list that is open is merged.
LEMMA ListMerged ==
    ASSUME NEW ind \in [Indexes -> IndexRec], NEW pr, NEW st, NEW r, NEW pre,
           On(ind, pr, st, r, pre, "sources"), pre # <<>>, pre[1].do = "merge",
           NEW ix, ix = pre[1].ix, ind[ix].mtime # 0,
           NEW f \in FileRec, f.ix = ix, f.mtime = ind[ix].mtime, f.kind = ind[ix].kind,
           NEW x, NEW st2 \in StoreRec, ~st2.torn, st2.files = <<f>> \o st.files, st2.provs = st.provs,
           x.todo = Tail(pr.todo), x.newdeps = (pr.newdeps \/ f.kind.needs # {})
    PROVE  On(ind, x, st2, r, Tail(pre), "sources")
<1> DEFINE t == Tail(pre)
<1>1. /\ pre \in Seq(TaskRec) /\ Opened(ind, pr, st, pre) /\ NoDb(st) /\ st.provs = {}
      /\ pr.newdeps = Needs(st) /\ st \in StoreRec /\ ~st.torn /\ st.provs \subseteq ProvidesDue(st.files)
      /\ Exact(ind, st) /\ Single(st)
  BY DEF On, Built, Point
<1>2. Tail(pr.todo) = Tail(pre) \o Left(r, "sources")
  BY OnSingle
<1>3. /\ t \in Seq(TaskRec) /\ Paired(t) /\ (t # <<>> => t[1].do = "open")
  BY <1>1, PairedTail DEF Opened, Reads
<1>4. ix # Database /\ ~HasIndex(st, ix)
  BY MergesIn
<1>5. \A i \in DOMAIN pre : i # 1 => i - 1 \in DOMAIN t /\ t[i - 1] = pre[i]
  BY <1>1, TailKeeps
<1> HIDE DEF t
<1>6. /\ Exact(ind, st2) /\ Single(st2) /\ st2.provs \subseteq ProvidesDue(st2.files)
      /\ HasIndex(st2, f.ix) /\ \A i : HasIndex(st, i) => HasIndex(st2, i)
      /\ Needed(st2.files) = f.kind.needs \cup Needed(st.files)
      /\ \A k \in DOMAIN st2.files : st2.files[k] = f \/ \E j \in DOMAIN st.files : st2.files[k] = st.files[j]
  <2>1. Dating(ind, f) /\ f.kind = ind[f.ix].kind /\ ~HasIndex(st, f.ix)
    BY <1>4 DEF Dating
  <2> QED BY <1>1, <2>1, Grows
<1>7. NoDb(st2)
  BY <1>1, <1>4, <1>6 DEF NoDb
<1>8. x.newdeps = Needs(st2)
  BY <1>1, <1>6 DEF Needs
<1>9. Reads(ind, x, t)
  BY <1>3 DEF Reads
<1>10. \A i \in Listed : ind[i].mtime # 0 => HasIndex(st2, i) \/ \E j \in DOMAIN t : t[j].ix = i
  <2> SUFFICES ASSUME NEW i \in Listed, ind[i].mtime # 0, ~HasIndex(st2, i)
               PROVE  \E j \in DOMAIN t : t[j].ix = i
    OBVIOUS
  <2>1. PICK j \in DOMAIN pre : pre[j].ix = i
    BY <1>1, <1>6 DEF Opened
  <2>2. j # 1
    BY <1>6, <2>1
  <2> QED BY <1>5, <2>1, <2>2
<1>11. Opened(ind, x, st2, t)
  BY <1>3, <1>9, <1>10 DEF Opened
<1>12. Built(ind, x, st2, t, "sources")
  BY <1>1, <1>6, <1>7, <1>8, <1>11 DEF Built, Point
<1> QED BY <1>2, <1>3, <1>12 DEF On, Points, t

\* ... and the database.
LEMMA EntersIn ==
    ASSUME NEW ind \in [Indexes -> IndexRec], NEW pr, NEW st, NEW r,
           On(ind, pr, st, r, <<>>, "merge"), ind[Database].mtime # 0,
           NEW f \in FileRec, f.ix = Database, f.mtime = ind[Database].mtime, f.kind = ind[Database].kind,
           NEW x, NEW st2 \in StoreRec, ~st2.torn, st2.files = <<f>> \o st.files, st2.provs = st.provs,
           st2.opts = st.opts, st2.fdeps = st.fdeps,
           x.todo = Tail(pr.todo), x.newdeps = (pr.newdeps \/ f.kind.needs # {}), x.opts = pr.opts
    PROVE  On(ind, x, st2, r, <<>>, "status")
<1>1. /\ Ready(ind, pr, st) /\ Sourced(ind, pr, st) /\ st \in StoreRec /\ Exact(ind, st) /\ Single(st)
      /\ st.provs \subseteq ProvidesDue(st.files)
  BY DEF On, Built, Point
<1>2. ~HasIndex(st, f.ix) /\ Dating(ind, f) /\ f.kind = ind[f.ix].kind
  BY <1>1 DEF Ready, NoDb, HasIndex, Dating
<1>3. /\ Exact(ind, st2) /\ Single(st2) /\ st2.provs \subseteq ProvidesDue(st2.files)
      /\ HasIndex(st2, f.ix) /\ \A ix : HasIndex(st, ix) => HasIndex(st2, ix)
      /\ Needed(st2.files) = f.kind.needs \cup Needed(st.files)
      /\ \A k \in DOMAIN st2.files : st2.files[k] = f \/ \E j \in DOMAIN st.files : st2.files[k] = st.files[j]
      /\ Fresh(ind, st2) => Fresh(ind, st)
  BY <1>1, <1>2, Grows
<1>4. Filled(ind, x, st2)
  BY <1>1, <1>3, ListedIndexes DEF Filled, Sourced, HasAll
<1>5. Entered(ind, x, st2)
  <2>1. ASSUME ~x.newdeps PROVE Needed(st2.files) = Needed(st.files)
    BY <1>3, <2>1
  <2>2. ASSUME ~x.newdeps, Fresh(ind, st2), NEW i \in Indexes \ {Database} PROVE Has(st2, i)
    <3>1. Has(st, i)
      BY <1>1, <1>3, <2>2 DEF Ready, Whole
    <3>2. \A k \in DOMAIN st2.files : st2.files[k].ix = i => \E j \in DOMAIN st.files : st2.files[k] = st.files[j]
      BY <1>3, <2>2
    <3> QED BY <2>1, <2>2, <3>1, <3>2 DEF Has
  <2>3. ASSUME ~x.newdeps, ~st2.fdeps PROVE ~Needs(st2)
    <3>1. ~st.fdeps /\ ~Needs(st)
      BY <1>1, <2>3 DEF Ready, Needs
    <3> QED BY <2>1, <2>3, <3>1 DEF Needs
  <2> QED BY <2>2, <2>3 DEF Entered
<1>6. Built(ind, x, st2, <<>>, "status")
  BY <1>3, <1>4, <1>5 DEF Built, Point
<1>7. x.todo = <<>> \o Left(r, "status")
  <2>1. Left(r, "merge") = Rest("merge") /\ Left(r, "status") = Rest("status")
    BY LeftChain DEF Points
  <2>2. pr.todo = Left(r, "merge")
    BY OnTask
  <2>3. Tail(Rest("merge")) = Rest("status")
    BY Chain
  <2>4. <<>> \o Left(r, "status") = Left(r, "status")
    BY NoPre DEF Points
  <2> QED BY <2>1, <2>2, <2>3, <2>4
<1> QED BY <1>6, <1>7, NoPre DEF On, Points

\* The sources are in.
LEMMA SourcesIn ==
    ASSUME NEW ind, NEW pr, NEW st, NEW r, On(ind, pr, st, r, <<>>, "sources"),
           NEW more, more = (IF pr.newdeps THEN CollectFrom(Sources) ELSE <<>>),
           NEW x, NEW st2 \in StoreRec, ~st2.torn, st2.files = st.files, st2.provs = st.provs,
           st2.opts = pr.opts, st2.fdeps = pr.newdeps,
           x.todo = more \o Tail(pr.todo), x.newdeps = FALSE, x.opts = pr.opts
    PROVE  On(ind, x, st2, r, more, "collect")
<1>1. /\ Opened(ind, pr, st, <<>>) /\ NoDb(st) /\ pr.newdeps = Needs(st) /\ Exact(ind, st) /\ Single(st)
      /\ st.provs \subseteq ProvidesDue(st.files)
  BY DEF On, Built, Point
<1>2. /\ NoDb(st2) /\ (Needs(st2) <=> Needs(st)) /\ Exact(ind, st2) /\ Single(st2)
  BY <1>1, SameFiles DEF Exact, Single
<1>3. st2.fdeps = Needs(st2)
  BY <1>1 DEF Needs
<1>4. Sourced(ind, x, st2)
  <2>1. HasAll(ind, st, Listed)
    BY <1>1 DEF Opened, HasAll
  <2> QED BY <2>1 DEF Sourced, HasAll, HasIndex
<1>5. more \in Seq(TaskRec) /\ Collects(more)
  BY CollectsIndexes DEF Collects
<1>6. Pending(ind, st2, more)
  <2>1. CASE pr.newdeps
    <3>1. \A ix \in Listed : \E i \in DOMAIN more : more[i].ix = ix
      BY <2>1, CollectsIndexes
    <3>2. Has(st2, Database)
      BY <1>2 DEF NoDb, Has
    <3> QED BY <3>1, <3>2, ListedIndexes DEF Pending
  <2>2. CASE ~pr.newdeps
    <3>1. ~Needs(st2)
      BY <1>1, <1>2, <2>2
    <3> QED BY <3>1, NothingNeeded DEF Pending
  <2> QED BY <2>1, <2>2
<1>7. Built(ind, x, st2, more, "collect")
  BY <1>1, <1>2, <1>3, <1>4, <1>5, <1>6 DEF Built, Point
<1>8. x.todo = more \o Left(r, "collect")
  <2>1. pr.todo = Left(r, "sources")
    BY OnTask
  <2> QED BY <2>1, LeftChain
<1> QED BY <1>5, <1>7, <1>8 DEF On, Points

\* All is in.
LEMMA StatusIn ==
    ASSUME NEW ind, NEW pr, NEW st, NEW r, On(ind, pr, st, r, <<>>, "status"), pr.newdeps \in BOOLEAN,
           NEW more, more = CollectFrom(IF pr.newdeps THEN Append(Sources, Database)
                                        ELSE IF st.fdeps THEN <<Database>> ELSE <<>>),
           NEW x, NEW st2 \in StoreRec, ~st2.torn, st2.files = st.files, st2.provs = st.provs,
           st2.opts = st.opts, x.todo = more \o Tail(pr.todo), x.opts = pr.opts
    PROVE  On(ind, x, st2, r, more, "sync")
<1>1. /\ Entered(ind, pr, st) /\ Filled(ind, pr, st) /\ Exact(ind, st) /\ Single(st)
      /\ st.provs \subseteq ProvidesDue(st.files) /\ st \in StoreRec
  BY DEF On, Built, Point
<1>2. /\ Exact(ind, st2) /\ Single(st2) /\ (Fresh(ind, st2) <=> Fresh(ind, st))
      /\ (Needs(st2) <=> Needs(st)) /\ \A ix : Has(st2, ix) <=> Has(st, ix)
  BY <1>1, SameFiles DEF Exact, Single
<1>3. Filled(ind, x, st2)
  BY <1>1 DEF Filled, HasAll, HasIndex
<1>4. more \in Seq(TaskRec) /\ Collects(more)
  BY CollectsIndexes
<1>5. Pending(ind, st2, more)
  <2>0. st.fdeps \in BOOLEAN
    BY <1>1 DEF StoreRec
  <2>1. CASE pr.newdeps
    BY <2>1, CollectsIndexes DEF Pending
  <2>2. CASE ~pr.newdeps /\ st.fdeps
    <3>1. \E i \in DOMAIN more : more[i].ix = Database
      BY <2>2, CollectsIndexes
    <3>2. Fresh(ind, st2) => \A ix \in Indexes \ {Database} : Has(st2, ix)
      BY <1>1, <1>2, <2>2 DEF Entered
    <3> QED BY <3>1, <3>2 DEF Pending
  <2>3. CASE ~pr.newdeps /\ ~st.fdeps
    <3>1. ~Needs(st2)
      BY <1>1, <1>2, <2>3 DEF Entered
    <3> QED BY <3>1, NothingNeeded DEF Pending
  <2> QED BY <2>0, <2>1, <2>2, <2>3
<1>6. Built(ind, x, st2, more, "sync")
  BY <1>1, <1>2, <1>3, <1>4, <1>5 DEF Built, Point
<1>7. x.todo = more \o Left(r, "sync")
  <2>1. Left(r, "status") = Rest("status") /\ Left(r, "sync") = Rest("sync")
    BY LeftChain DEF Points
  <2>2. pr.todo = Left(r, "status")
    BY OnTask
  <2> QED BY <2>1, <2>2, Chain
<1> QED BY <1>4, <1>6, <1>7 DEF On, Points

\* The provides that one index can still have.
ProvidesOf(ix, paths) == {<<ix, path>> : path \in paths}
Merged(st, ix)     == UNION {st.files[k].kind.owns : k \in Positions(st, ix)}
Owned(ind, st, ix) == ind[ix].kind.owns \cap Merged(st, ix) \cap Needed(st.files)

\* The task of a stage that collects.
LEMMA CollectTask ==
    ASSUME NEW ind, NEW pr, NEW st, NEW r, NEW pre, NEW g, On(ind, pr, st, r, pre, g),
           pre # <<>>, g \in {"collect", "sync"}
    PROVE  pre[1].ix \in Indexes /\ Head(pr.todo) = pre[1] /\ st \in StoreRec /\ ~st.torn
<1>1. Collects(pre) /\ st \in StoreRec /\ ~st.torn
  BY DEF On, Built, Point
<1> QED BY <1>1, OnSingle DEF Collects

\* The provides of one index are collected.
LEMMA CollectsIn ==
    ASSUME NEW ind, NEW pr, NEW st, NEW r, NEW pre, NEW g, On(ind, pr, st, r, pre, g),
           pre # <<>>, g \in {"collect", "sync"},
           NEW ix, ix = pre[1].ix, NEW got \in SUBSET Owned(ind, st, ix),
           (\E k \in Positions(st, ix) : st.files[k].kind = ind[ix].kind) => got = Owned(ind, st, ix),
           NEW x, NEW st2 \in StoreRec, ~st2.torn, st2.files = st.files,
           st2.provs = st.provs \cup ProvidesOf(ix, got),
           st2.opts = st.opts, st2.fdeps = st.fdeps,
           x.todo = Tail(pr.todo), x.newdeps = pr.newdeps, x.opts = pr.opts
    PROVE  On(ind, x, st2, r, Tail(pre), g)
<1> DEFINE t == Tail(pre)
<1>1. /\ pre \in Seq(TaskRec) /\ Collects(pre) /\ Pending(ind, st, pre) /\ st \in StoreRec /\ ~st.torn
      /\ st.provs \subseteq ProvidesDue(st.files) /\ Exact(ind, st) /\ Single(st)
  BY DEF On, Built, Point
<1>2. Head(pr.todo) = pre[1] /\ Tail(pr.todo) = Tail(pre) \o Left(r, g)
  BY OnSingle
<1>3. /\ t \in Seq(TaskRec) /\ 1 \in DOMAIN pre
      /\ \A i \in DOMAIN pre : i # 1 => i - 1 \in DOMAIN t /\ t[i - 1] = pre[i]
      /\ \A i \in DOMAIN t : i + 1 \in DOMAIN pre /\ t[i] = pre[i + 1]
  BY <1>1, TailKeeps
<1>4. Collects(t)
  BY <1>1, <1>3 DEF Collects
<1> HIDE DEF t
<1> DEFINE more == {<<ix, path>> : path \in got}
<1>5. \A path \in got : /\ path \in Needed(st.files)
                        /\ \E k \in DOMAIN st.files : st.files[k].ix = ix /\ path \in st.files[k].kind.owns
  <2> SUFFICES ASSUME NEW path \in got
               PROVE  /\ path \in Needed(st.files)
                      /\ \E k \in DOMAIN st.files : st.files[k].ix = ix /\ path \in st.files[k].kind.owns
    OBVIOUS
  <2>1. path \in Owned(ind, st, ix)
    OBVIOUS
  <2>2. /\ path \in Needed(st.files)
        /\ path \in Merged(st, ix)
    BY <2>1 DEF Owned
  <2>3. PICK k \in Positions(st, ix) : path \in st.files[k].kind.owns
    BY <2>2 DEF Merged
  <2> QED BY <2>2, <2>3 DEF Positions
<1>6. more \subseteq ProvidesDue(st.files)
  <2> SUFFICES ASSUME NEW path \in got PROVE <<ix, path>> \in ProvidesDue(st.files)
    OBVIOUS
  <2>1. PICK k \in DOMAIN st.files : st.files[k].ix = ix /\ path \in st.files[k].kind.owns
    BY <1>5
  <2>2. path \in Needed(st.files)
    BY <1>5
  <2> DEFINE d == <<ix, path>>
             due == {<<st.files[j].ix, q>> : j \in DOMAIN st.files, q \in Needed(st.files)}
             of(j) == {<<st.files[j].ix, q>> : q \in st.files[j].kind.owns}
             owned == {of(j) : j \in DOMAIN st.files}
  <2>3. d \in due
    <3>1. d = <<st.files[k].ix, path>>
      BY <2>1
    <3> HIDE DEF d
    <3> QED BY <2>2, <3>1
  <2>4. d \in of(k)
    BY <2>1
  <2>5. of(k) \in owned
    OBVIOUS
  <2>6. d \in UNION owned
    BY <2>4, <2>5
  <2>7. ProvidesDue(st.files) = due \cap UNION owned
    BY DEF ProvidesDue
  <2>8. d \in ProvidesDue(st.files)
    <3> HIDE DEF d, due, owned
    <3> QED BY <2>3, <2>6, <2>7
  <2> QED BY <2>8
<1>7. Fresh(ind, st) => \A k \in DOMAIN st.files : st.files[k].ix = ix =>
          \A path \in st.files[k].kind.owns \cap Needed(st.files) : <<ix, path>> \in more
  <2> SUFFICES ASSUME Fresh(ind, st), NEW k \in DOMAIN st.files, st.files[k].ix = ix,
                      NEW path \in st.files[k].kind.owns \cap Needed(st.files)
               PROVE  path \in got
    OBVIOUS
  <2>1. st.files[k].kind = ind[ix].kind
    BY <1>1 DEF Fresh, Stale, Exact
  <2>2. k \in Positions(st, ix)
    BY DEF Positions
  <2>3. path \in Owned(ind, st, ix)
    <3>1. path \in Merged(st, ix)
      BY <2>2 DEF Merged
    <3> QED BY <2>1, <3>1 DEF Owned
  <2> QED BY <2>1, <2>2, <2>3
<1> HIDE DEF more
<1>8. st2.provs = st.provs \cup more
  BY DEF more, ProvidesOf
<1>9. /\ (Fresh(ind, st2) <=> Fresh(ind, st)) /\ (NoDb(st2) <=> NoDb(st)) /\ (Needs(st2) <=> Needs(st))
      /\ Exact(ind, st2) /\ Single(st2)
  BY <1>1 DEF Fresh, NoDb, Needs, Exact, Single
<1>10. Pending(ind, st2, t)
  <2> SUFFICES ASSUME Fresh(ind, st2), NEW i \in Indexes
               PROVE  Has(st2, i) \/ \E j \in DOMAIN t : t[j].ix = i
    BY DEF Pending
  <2>1. Fresh(ind, st)
    BY <1>9
  <2>2. CASE Has(st, i)
    BY <1>8, <2>2 DEF Has
  <2>3. CASE i = ix
    BY <1>7, <1>8, <2>1, <2>3 DEF Has
  <2>4. CASE ~Has(st, i) /\ i # ix
    <3>1. PICK j \in DOMAIN pre : pre[j].ix = i
      BY <1>1, <2>1, <2>4 DEF Pending
    <3>2. j # 1
      BY <2>4, <3>1
    <3> QED BY <1>3, <3>1, <3>2
  <2> QED BY <2>2, <2>3, <2>4
<1>11. Point(ind, x, st2, t, g)
  <2>1. CASE g = "collect"
    <3>1. /\ NoDb(st) /\ ~pr.newdeps /\ st.fdeps = Needs(st) /\ Sourced(ind, pr, st)
      BY <2>1 DEF On, Built, Point
    <3>2. st2.fdeps = Needs(st2) /\ Sourced(ind, x, st2)
      BY <3>1 DEF Needs, Sourced, HasAll, HasIndex
    <3> QED BY <1>4, <1>9, <1>10, <2>1, <3>1, <3>2 DEF Point
  <2>2. CASE g = "sync"
    <3>1. Filled(ind, pr, st)
      BY <2>2 DEF On, Built, Point
    <3>2. Filled(ind, x, st2)
      BY <3>1 DEF Filled, HasAll, HasIndex
    <3> QED BY <1>4, <1>10, <2>2, <3>2 DEF Point
  <2> QED BY <2>1, <2>2
<1>12. st2.provs \subseteq ProvidesDue(st2.files)
  BY <1>1, <1>6, <1>8
<1>13. Built(ind, x, st2, t, g)
  BY <1>9, <1>11, <1>12 DEF Built
<1>14. x.todo = t \o Left(r, g)
  BY <1>2 DEF t
<1> QED BY <1>3, <1>13, <1>14 DEF On, Points, t

\* The stages that follow each other without a change of what is in the cache.
LEMMA NextStage ==
    ASSUME NEW ind, NEW pr, NEW st, NEW r, NEW g, On(ind, pr, st, r, <<>>, g),
           NEW x, x.todo = Tail(pr.todo), x.newdeps = pr.newdeps, x.opts = pr.opts, x.open = pr.open,
           NEW st2 \in StoreRec, ~st2.torn, st2.files = st.files, st2.provs = st.provs,
           st2.opts = st.opts, st2.fdeps = st.fdeps
    PROVE  /\ g = "collect" /\ r \in Roots => On(ind, x, st2, r, <<>>, "create")
           /\ g = "create" => On(ind, x, st2, r, <<>>, "data")
           /\ g = "data" => On(ind, x, st2, r, <<>>, "flag")
           /\ g = "flag" => On(ind, x, st2, r, <<>>, "header")
           /\ g = "header" => On(ind, x, st2, r, <<>>, "merge")
           /\ g = "generator" => On(ind, x, st2, r, <<>>, "merge")
           /\ g = "sync" => On(ind, x, st2, r, <<>>, "clean")
<1>1. \A h : Built(ind, pr, st, <<>>, h) => Built(ind, x, st2, <<>>, h)
  BY SameBuilt
<1>2. pr.todo = Left(r, g) /\ g \in Points /\ Built(ind, pr, st, <<>>, g)
  BY OnTask DEF On
<1>3. \A h \in Points : x.todo = Left(r, h) /\ Built(ind, pr, st, <<>>, h) => On(ind, x, st2, r, <<>>, h)
  BY <1>1, NoPre DEF On
<1>4. /\ \A h \in Points \ {"sources", "collect"} : Left(r, h) = Rest(h)
      /\ r \in Roots => Left(r, "collect") = Rest("unlink")
  BY LeftChain
<1>5. g \in {"create", "data", "flag", "header", "generator"} =>
         \A h \in {"data", "flag", "header", "merge"} : Built(ind, pr, st, <<>>, h)
  BY <1>2 DEF Built, Point
<1>6. CASE g = "collect" /\ r \in Roots
  <2>1. Built(ind, pr, st, <<>>, "create")
    BY <1>6, CollectedReady
  <2> QED BY <1>2, <1>3, <1>4, <1>6, <2>1, Chain DEF Points
<1>7. CASE g = "create"
  BY <1>2, <1>3, <1>4, <1>5, <1>7, Chain DEF Points
<1>8. CASE g = "data"
  BY <1>2, <1>3, <1>4, <1>5, <1>8, Chain DEF Points
<1>9. CASE g = "flag"
  BY <1>2, <1>3, <1>4, <1>5, <1>9, Chain DEF Points
<1>10. CASE g = "header"
  BY <1>2, <1>3, <1>4, <1>5, <1>10, Chain DEF Points
<1>11. CASE g = "generator"
  BY <1>2, <1>3, <1>4, <1>5, <1>11, Chain DEF Points
<1>12. CASE g = "sync"
  <2>1. Pending(ind, st, <<>>) /\ Filled(ind, pr, st)
    BY <1>2, <1>12 DEF Built, Point
  <2>2. Whole(ind, st)
    BY <2>1 DEF Pending, Whole
  <2>3. Built(ind, pr, st, <<>>, "clean")
    BY <1>2, <2>1, <2>2 DEF Built, Point
  <2> QED BY <1>2, <1>3, <1>4, <1>12, <2>3, Chain DEF Points
<1> QED BY <1>6, <1>7, <1>8, <1>9, <1>10, <1>11, <1>12

\* The source cache that was checked is read.
LEMMA PreloadsIn ==
    ASSUME NEW ind, NEW ch, NEW pr, NEW st, NEW r, On(ind, pr, st, r, <<>>, "preload"),
           NEW src \in StoreRec, Valid(ind, src, pr.opts, Indexes \ {Database}), SrcOK(ind, ch, src),
           \A ix \in Indexes : ind[ix].back => ix = Database,
           NEW x, x.todo = Tail(pr.todo), x.newdeps = pr.newdeps, x.opts = pr.opts,
           NEW st2 \in StoreRec, ~st2.torn, st2.files = src.files, st2.provs = src.provs,
           st2.opts = src.opts, st2.fdeps = src.fdeps
    PROVE  On(ind, x, st2, r, <<>>, "generator")
<1>1. /\ Base(ind, ch, src) /\ NoDb(src) /\ Clean(ind, src) /\ src.fdeps = Needs(src)
  BY DEF SrcOK, Unfinished, Valid
<1>2. /\ src.opts = pr.opts /\ Single(src) /\ HasAll(ind, src, Indexes \ {Database})
      /\ \A k \in DOMAIN src.files : src.files[k].ix \in Indexes \ {Database} /\ Dating(ind, src.files[k])
  BY DEF Valid
<1>3. Exact(ind, src)
  <2> SUFFICES ASSUME NEW k \in DOMAIN src.files
               PROVE  Dating(ind, src.files[k]) /\ (src.files[k].late \/ src.files[k].kind = ind[src.files[k].ix].kind)
    BY DEF Exact
  <2>1. Dated(ind, ch, src.files[k])
    BY <1>1 DEF Base, Dates
  <2> QED BY <1>2, <2>1 DEF Dated, Stale, Dating
<1>4. ~pr.newdeps
  BY DEF On, Built, Point
<1>5. Listed \subseteq Indexes \ {Database}
  BY ListedIndexes
<1>6. /\ Exact(ind, st2) /\ Single(st2) /\ HasAll(ind, st2, Listed)
      /\ st2.provs \subseteq ProvidesDue(st2.files)
  BY <1>1, <1>2, <1>3, <1>5 DEF Exact, Single, HasAll, HasIndex, Base
<1>7. NoDb(st2) /\ st2.fdeps = Needs(st2) /\ Whole(ind, st2)
  BY <1>1, SameFiles DEF Needs, Clean
<1>8. Built(ind, x, st2, <<>>, "generator")
  BY <1>2, <1>4, <1>6, <1>7 DEF Built, Point, Ready, Sourced
<1>9. x.todo = Left(r, "generator")
  <2>1. pr.todo = Left(r, "preload")
    BY OnTask
  <2> QED BY <2>1, LeftChain, Chain DEF Points
<1> QED BY <1>8, <1>9, NoPre DEF On, Points

-----------------------------------------------------------------------------
(* The steps of a build.                                                    *)

Continues(p) == \E pre, g : g # "preload" /\ On(index, proc'[p], store'[proc'[p].map], p, pre, g)

\* A list is opened, or passed over.
LEMMA BuildOpens ==
    ASSUME BInv, NEW p \in Procs, OpenIndex(p), Quiet(index, changes, proc[p]) PROVE Continues(p)
<1> DEFINE pr == proc[p]
           st == store[pr.map]
           ix == Head(pr.todo).ix
           one == [pr EXCEPT !.todo = Tail(pr.todo)]
           x == [one EXCEPT !.todo = Tail(Tail(pr.todo))]
           y == [one EXCEPT !.open = index[ix]]
<1>1. Task(p, "open") /\ store' = store /\ proc \in [Procs -> ProcRec]
  BY DEF OpenIndex, BInv, FInv, CacheTypes
<1>2. pr.map # 0
  BY <1>1, BuilderHasMap
<1>3. /\ pr \in ProcRec /\ index \in [Indexes -> IndexRec]
      /\ \E pre, g : On(index, pr, st, p, pre, g) /\ pre # <<>> /\ g = "sources"
  BY <1>1, <1>2, BuilderState
<1>4. PICK pre : On(index, pr, st, p, pre, "sources") /\ pre # <<>>
  BY <1>3
<1>5. Head(pr.todo) = pre[1] /\ Head(pr.todo).do = "open"
  BY <1>1, <1>4, OnSingle DEF Task
<1>6. pre[1].do = "open" /\ pre[1].ix = ix
  BY <1>5
<1> DEFINE skip == ~Exists(ix) \/ Found(st, ix) # {}
<1>7. \/ proc' = [proc EXCEPT ![p] = x] /\ skip
      \/ proc' = [proc EXCEPT ![p] = y] /\ ~skip
  <2>1. one.todo = Tail(pr.todo)
    BY <1>3 DEF ProcRec
  <2>2. \/ proc' = [proc EXCEPT ![p] = [one EXCEPT !.todo = Tail(@)]] /\ skip
        \/ proc' = [proc EXCEPT ![p] = y] /\ ~skip
    BY DEF OpenIndex, Done
  <2>3. [one EXCEPT !.todo = Tail(@)] = x
    BY <2>1
  <2> HIDE DEF one, x, y, skip
  <2> QED BY <2>2, <2>3
<1>8. /\ x.todo = Tail(Tail(pr.todo)) /\ x.map = pr.map /\ x.newdeps = pr.newdeps
      /\ y.todo = Tail(pr.todo) /\ y.map = pr.map /\ y.newdeps = pr.newdeps /\ y.open = index[ix]
  BY <1>3 DEF ProcRec
<1>9. skip <=> index[ix].mtime = 0 \/ HasIndex(st, ix)
  <2>1. Exact(index, st) /\ Single(st) /\ st \in StoreRec
    BY <1>4 DEF On, Built
  <2>2. DOMAIN st.files \subseteq Nat
    BY <2>1 DEF StoreRec
  <2>3. Found(st, ix) # {} => HasIndex(st, ix)
    BY DEF Found, Positions, HasIndex
  <2>4. ASSUME HasIndex(st, ix) PROVE Found(st, ix) # {}
    <3>1. PICK k \in DOMAIN st.files : st.files[k].ix = ix
      BY <2>4 DEF HasIndex
    <3>2. st.files[k].mtime = index[ix].mtime
      BY <2>1, <3>1 DEF Exact, Dating
    <3>3. \A o \in Positions(st, ix) : k <= o
      BY <2>1, <2>2, <3>1 DEF Positions, Single
    <3>4. k \in Found(st, ix)
      BY <3>1, <3>2, <3>3 DEF Found, Positions
    <3> QED BY <3>4
  <2> QED BY <2>3, <2>4 DEF Exists
<1> HIDE DEF x, y, one, skip, st, ix
<1>10. skip => On(index, x, st, p, Tail(Tail(pre)), "sources")
  BY <1>3, <1>4, <1>6, <1>8, <1>9, Opens
<1>11. ~skip => On(index, y, st, p, Tail(pre), "sources")
  BY <1>3, <1>4, <1>6, <1>8, <1>9, Opens
<1>12. CASE proc' = [proc EXCEPT ![p] = x] /\ skip
  <2>1. proc'[p] = x /\ store'[x.map] = st
    BY <1>1, <1>8, <1>12 DEF st
  <2> QED BY <1>10, <1>12, <2>1 DEF Continues
<1>13. CASE proc' = [proc EXCEPT ![p] = y] /\ ~skip
  <2>1. proc'[p] = y /\ store'[y.map] = st
    BY <1>1, <1>8, <1>13 DEF st
  <2> QED BY <1>11, <1>13, <2>1 DEF Continues
<1> QED BY <1>7, <1>12, <1>13

\* What a process knows that merges an opened list, or the database.
LEMMA MergeState ==
    ASSUME BInv, NEW p \in Procs, Task(p, "merge"), Quiet(index, changes, proc[p])
    PROVE  /\ proc[p] \in ProcRec /\ index \in [Indexes -> IndexRec]
           /\ proc[p].dbtime = index[Database].mtime
           /\ \E pre, g : /\ On(index, proc[p], store[proc[p].map], p, pre, g)
                          /\ \/ pre # <<>> /\ g = "sources"
                             \/ pre = <<>> /\ g = "merge"
<1>1. proc[p].map # 0
  BY BuilderHasMap
<1>2. /\ proc[p] \in ProcRec /\ index \in [Indexes -> IndexRec]
      /\ proc[p].dbtime = index[Database].mtime
  BY <1>1, BuilderState
<1>3. PICK pre, g : /\ On(index, proc[p], store[proc[p].map], p, pre, g)
                    /\ \/ pre # <<>> /\ g = "sources"
                       \/ pre = <<>> /\ g = "merge"
  BY <1>1, BuilderState
<1> QED BY <1>2, <1>3

\* What was opened is merged, or the database.
LEMMA BuildMerges ==
    ASSUME BInv, NEW p \in Procs, Merge(p), Quiet(index, changes, proc[p]) PROVE Continues(p)
<1>0. /\ proc[p] \in ProcRec /\ index \in [Indexes -> IndexRec]
      /\ proc[p].dbtime = index[Database].mtime
      /\ \E pre, g : /\ On(index, proc[p], store[proc[p].map], p, pre, g)
                     /\ \/ pre # <<>> /\ g = "sources"
                        \/ pre = <<>> /\ g = "merge"
  <2>1. Task(p, "merge")
    BY DEF Merge
  <2> QED BY <2>1, MergeState
<1> DEFINE pr == proc[p]
           ix == Head(pr.todo).ix
           db == ix = Database
           kind == IF db THEN index[ix].kind ELSE pr.open.kind
           mtime == IF db THEN pr.dbtime ELSE index[ix].mtime
           st == store[pr.map]
           f == [ix |-> ix, mtime |-> mtime, kind |-> kind, late |-> ~db /\ mtime # pr.open.mtime]
           sta == [st EXCEPT !.files = <<f>> \o @]
           x == [[pr EXCEPT !.todo = Tail(pr.todo)] EXCEPT !.newdeps = @ \/ kind.needs # {},
                                                            !.open = [mtime |-> 0]]
           st2 == store'[pr.map]
<1>1. /\ Task(p, "merge") /\ Exists(ix) /\ WriteMap(p, sta) /\ proc' = [proc EXCEPT ![p] = x]
      /\ proc \in [Procs -> ProcRec] /\ CacheTypes /\ Alone
  BY DEF Merge, Done, BInv, FInv, CacheTypes
<1>2. pr.map # 0
  BY <1>1, BuilderHasMap
<1>3. /\ pr \in ProcRec /\ index \in [Indexes -> IndexRec] /\ pr.dbtime = index[Database].mtime
      /\ \E pre, g : /\ On(index, pr, st, p, pre, g)
                     /\ \/ pre # <<>> /\ g = "sources"
                        \/ pre = <<>> /\ g = "merge"
  BY <1>0
<1>4. PICK pre, g : /\ On(index, pr, st, p, pre, g)
                    /\ \/ pre # <<>> /\ g = "sources"
                       \/ pre = <<>> /\ g = "merge"
  BY <1>3
<1>5. st \in StoreRec /\ ~st.torn
  BY <1>4 DEF On, Built
<1>6. /\ x.todo = Tail(pr.todo) /\ x.map = pr.map /\ x.newdeps = (pr.newdeps \/ kind.needs # {})
      /\ x.opts = pr.opts
  BY <1>3 DEF ProcRec
<1>7. f.ix = ix /\ f.mtime = mtime /\ f.kind = kind /\ sta.files = <<f>> \o st.files
  BY <1>5 DEF StoreRec
<1>8. /\ ix \in Indexes /\ mtime = index[ix].mtime /\ kind = index[ix].kind /\ f \in FileRec
      /\ g = "sources" => pre[1].do = "merge" /\ pre[1].ix = ix
      /\ g = "merge" => ix = Database
  <2>1. CASE g = "sources"
    <3>1. Head(pr.todo) = pre[1] /\ Head(pr.todo).do = "merge"
      BY <1>1, <1>4, <2>1, OnSingle DEF Task
    <3>2. pre[1].do = "merge" /\ pre[1].ix = ix
      BY <3>1
    <3>3. On(index, pr, st, p, pre, "sources") /\ pre # <<>>
      BY <1>4, <2>1
    <3> HIDE DEF pr, st, ix
    <3>4. pre[1].ix \in Listed /\ pre[1].ix # Database /\ pr.open = index[pre[1].ix]
      BY <1>3, <3>2, <3>3, MergesIn
    <3>5. ix \in Indexes /\ ix # Database /\ pr.open = index[ix]
      BY <3>2, <3>4, ListedIndexes
    <3>6. mtime = index[ix].mtime /\ kind = index[ix].kind /\ index[ix] \in IndexRec
      BY <1>3, <3>5
    <3>7. f \in FileRec
      BY <3>5, <3>6 DEF FileRec, IndexRec
    <3> QED BY <2>1, <3>2, <3>5, <3>6, <3>7
  <2>2. CASE g = "merge"
    <3>1. pr.todo = Left(p, "merge")
      BY <1>4, <2>2, OnTask
    <3>2. Head(pr.todo) = Do("merge", Database)
      BY <3>1, LeftChain, Chain DEF Points
    <3>3. ix = Database /\ Database \in Indexes
      BY <3>2 DEF Do, Indexes
    <3> HIDE DEF pr, st, ix
    <3>4. mtime = index[ix].mtime /\ kind = index[ix].kind /\ index[ix] \in IndexRec /\ db
      BY <1>3, <3>3
    <3>5. f \in FileRec
      BY <3>3, <3>4 DEF FileRec, IndexRec
    <3> QED BY <2>2, <3>3, <3>4, <3>5
  <2> QED BY <1>4, <2>1, <2>2
<1> HIDE DEF f, kind, mtime
<1>9. sta \in StoreRec /\ ~sta.torn /\ sta.provs = st.provs /\ sta.opts = st.opts /\ sta.fdeps = st.fdeps
  <2>1. st.files \in Seq(FileRec)
    BY <1>5 DEF StoreRec
  <2>2. <<f>> \o st.files \in Seq(FileRec)
    BY <1>8, <2>1, Push
  <2> DEFINE new == <<f>> \o st.files
  <2> HIDE DEF new, st
  <2>3. sta = [st EXCEPT !.files = new]
    BY DEF new
  <2> QED BY <1>5, <2>2, <2>3 DEF StoreRec, new
<1> HIDE DEF sta, x, st, ix
<1>10. /\ st2 \in StoreRec /\ ~st2.torn /\ st2.files = sta.files /\ st2.provs = sta.provs
       /\ st2.opts = sta.opts /\ st2.fdeps = sta.fdeps
  BY <1>1, <1>2, <1>9, HeldMap
<1>11. store'[x.map] = st2 /\ proc'[p] = x
  BY <1>1, <1>6
<1> HIDE DEF st2
<1>12. st2.files = <<f>> \o st.files /\ st2.provs = st.provs /\ st2.opts = st.opts /\ st2.fdeps = st.fdeps
  BY <1>7, <1>9, <1>10 DEF st
<1>13. CASE g = "sources"
  <2>1. On(index, x, st2, p, Tail(pre), "sources")
    <3>1. On(index, pr, st, p, pre, "sources") /\ pre # <<>> /\ pre[1].do = "merge"
      BY <1>4, <1>8, <1>13
    <3>2. ix = pre[1].ix
      BY <1>8, <1>13
    <3>3. /\ f \in FileRec /\ index[ix].mtime # 0 /\ f.ix = ix /\ f.mtime = index[ix].mtime
          /\ f.kind = index[ix].kind /\ x.newdeps = (pr.newdeps \/ f.kind.needs # {})
      BY <1>1, <1>6, <1>7, <1>8 DEF Exists, ix
    <3>4. /\ st2 \in StoreRec /\ ~st2.torn /\ st2.files = <<f>> \o st.files /\ st2.provs = st.provs
          /\ x.todo = Tail(pr.todo)
      BY <1>6, <1>10, <1>12
    <3> QED BY <1>3, <3>1, <3>2, <3>3, <3>4, ListMerged
  <2> QED BY <1>11, <2>1 DEF Continues
<1>14. CASE g = "merge"
  <2>1. On(index, x, st2, p, <<>>, "status")
    <3>1. On(index, pr, st, p, <<>>, "merge")
      BY <1>4, <1>14
    <3>2. /\ f \in FileRec /\ index[Database].mtime # 0 /\ f.ix = Database /\ f.mtime = index[Database].mtime
          /\ f.kind = index[Database].kind /\ x.newdeps = (pr.newdeps \/ f.kind.needs # {})
      BY <1>1, <1>6, <1>7, <1>8, <1>14 DEF Exists, ix
    <3> QED BY <1>3, <1>6, <1>10, <1>12, <3>1, <3>2, EntersIn
  <2> QED BY <1>11, <2>1 DEF Continues
<1> QED BY <1>4, <1>13, <1>14

\* The sources are in.
LEMMA BuildSources ==
    ASSUME BInv, NEW p \in Procs, SourcesMerged(p), Quiet(index, changes, proc[p]) PROVE Continues(p)
<1> DEFINE pr == proc[p]
           st == store[pr.map]
           more == IF pr.newdeps THEN CollectFrom(Sources) ELSE <<>>
           sta == [st EXCEPT !.opts = pr.opts, !.fdeps = pr.newdeps]
           x == [pr EXCEPT !.newdeps = FALSE, !.todo = more \o Tail(pr.todo)]
           st2 == store'[pr.map]
<1>1. /\ Task(p, "sources") /\ WriteMap(p, sta) /\ proc' = [proc EXCEPT ![p] = x]
      /\ proc \in [Procs -> ProcRec] /\ CacheTypes /\ Alone
  BY DEF SourcesMerged, BInv, FInv, CacheTypes
<1>2. pr.map # 0
  BY <1>1, BuilderHasMap
<1>3. On(index, pr, st, p, <<>>, "sources") /\ pr \in ProcRec
  BY <1>1, <1>2, BuilderState
<1>4. st \in StoreRec /\ ~st.torn
  BY <1>3 DEF On, Built
<1>5. x.todo = more \o Tail(pr.todo) /\ x.map = pr.map /\ x.newdeps = FALSE /\ x.opts = pr.opts
  BY <1>3 DEF ProcRec
<1>6. /\ sta \in StoreRec /\ ~sta.torn /\ sta.files = st.files /\ sta.provs = st.provs
      /\ sta.opts = pr.opts /\ sta.fdeps = pr.newdeps
  BY <1>3, <1>4 DEF StoreRec, ProcRec
<1> HIDE DEF sta, x, st
<1>7. /\ st2 \in StoreRec /\ ~st2.torn /\ st2.files = sta.files /\ st2.provs = sta.provs
      /\ st2.opts = sta.opts /\ st2.fdeps = sta.fdeps
  BY <1>1, <1>2, <1>6, HeldMap
<1>8. store'[x.map] = st2 /\ proc'[p] = x
  BY <1>1, <1>5
<1> HIDE DEF st2
<1>9. On(index, x, st2, p, more, "collect")
  BY <1>3, <1>5, <1>6, <1>7, SourcesIn
<1> QED BY <1>8, <1>9 DEF Continues

\* The database is in.
LEMMA BuildStatus ==
    ASSUME BInv, NEW p \in Procs, StatusMerged(p), Quiet(index, changes, proc[p]) PROVE Continues(p)
<1> DEFINE pr == proc[p]
           st == store[pr.map]
           over == IF pr.newdeps THEN Append(Sources, Database)
                   ELSE IF st.fdeps THEN <<Database>> ELSE <<>>
           more == CollectFrom(over)
           sta == [st EXCEPT !.fdeps = @ \/ pr.newdeps]
           x == [pr EXCEPT !.todo = more \o Tail(pr.todo)]
           st2 == store'[pr.map]
<1>1. /\ Task(p, "status") /\ WriteMap(p, sta) /\ proc' = [proc EXCEPT ![p] = x]
      /\ proc \in [Procs -> ProcRec] /\ CacheTypes /\ Alone
  BY DEF StatusMerged, BInv, FInv, CacheTypes
<1>2. pr.map # 0
  BY <1>1, BuilderHasMap
<1>3. On(index, pr, st, p, <<>>, "status") /\ pr \in ProcRec
  BY <1>1, <1>2, BuilderState
<1>4. st \in StoreRec /\ ~st.torn
  BY <1>3 DEF On, Built
<1>5. x.todo = more \o Tail(pr.todo) /\ x.map = pr.map /\ x.opts = pr.opts /\ pr.newdeps \in BOOLEAN
  BY <1>3 DEF ProcRec
<1>6. /\ sta \in StoreRec /\ ~sta.torn /\ sta.files = st.files /\ sta.provs = st.provs /\ sta.opts = st.opts
  <2>1. st.fdeps \in BOOLEAN
    BY <1>4 DEF StoreRec
  <2> QED BY <1>4, <1>5, <2>1 DEF StoreRec
<1> HIDE DEF sta, x
<1>7. /\ st2 \in StoreRec /\ ~st2.torn /\ st2.files = sta.files /\ st2.provs = sta.provs
      /\ st2.opts = sta.opts
  BY <1>1, <1>2, <1>6, HeldMap
<1>8. store'[x.map] = st2 /\ proc'[p] = x
  BY <1>1, <1>5
<1> HIDE DEF st2, st
<1>9. On(index, x, st2, p, more, "sync")
  BY <1>3, <1>5, <1>6, <1>7, StatusIn
<1> QED BY <1>8, <1>9 DEF Continues

\* The provides of one index are in.
LEMMA BuildCollects ==
    ASSUME BInv, NEW p \in Procs, Collect(p), Quiet(index, changes, proc[p]) PROVE Continues(p)
<1> DEFINE pr == proc[p]
           st == store[pr.map]
           ix == Head(pr.todo).ix
           merged == UNION {st.files[k].kind.owns : k \in Positions(st, ix)}
           now == index[ix].kind.owns \cap merged \cap Needed(st.files)
           same == \E k \in Positions(st, ix) : st.files[k].kind = index[ix].kind
           x == [pr EXCEPT !.todo = Tail(pr.todo)]
           st2 == store'[pr.map]
<1>1. /\ Task(p, "collect") /\ proc' = [proc EXCEPT ![p] = x]
      /\ proc \in [Procs -> ProcRec] /\ CacheTypes /\ Alone
  BY DEF Collect, Done, BInv, FInv, CacheTypes
<1>2. PICK got \in SUBSET now : /\ same => got = now
                                /\ WriteMap(p, [st EXCEPT !.provs = @ \cup {<<ix, path>> : path \in got}])
  BY DEF Collect
<1>3. pr.map # 0
  BY <1>1, BuilderHasMap
<1>4. /\ pr \in ProcRec
      /\ \E pre, g : /\ On(index, pr, st, p, pre, g)
                     /\ pre # <<>> /\ g \in {"collect", "sync"}
  BY <1>1, <1>3, BuilderState
<1>5. PICK pre, g : On(index, pr, st, p, pre, g) /\ pre # <<>> /\ g \in {"collect", "sync"}
  BY <1>4
<1>6. pre[1].ix \in Indexes /\ Head(pr.todo) = pre[1] /\ st \in StoreRec /\ ~st.torn
  BY <1>5, CollectTask
<1>7. ix = pre[1].ix /\ ix \in Indexes
  BY <1>6
<1>8. x.todo = Tail(pr.todo) /\ x.map = pr.map /\ x.newdeps = pr.newdeps /\ x.opts = pr.opts
  BY <1>4 DEF ProcRec
<1>9. now = Owned(index, st, ix)
  BY DEF Owned, Merged
<1> DEFINE more == {<<ix, path>> : path \in got}
           sta == [st EXCEPT !.provs = @ \cup more]
<1>10. more \subseteq Indexes \X Paths
  <2> SUFFICES ASSUME NEW path \in got PROVE path \in Paths
    BY <1>7
  <2>1. path \in merged
    BY <1>2
  <2>2. PICK k \in Positions(st, ix) : path \in st.files[k].kind.owns
    BY <2>1
  <2>3. k \in DOMAIN st.files
    BY DEF Positions
  <2>4. st.files[k] \in FileRec
    BY <1>6, <2>3 DEF StoreRec
  <2> QED BY <2>2, <2>4 DEF FileRec, Paths
<1>11. got \in SUBSET Owned(index, st, ix)
  <2> HIDE DEF now
  <2> QED BY <1>2, <1>9
<1>12. (\E k \in Positions(st, ix) : st.files[k].kind = index[ix].kind) => got = Owned(index, st, ix)
  <2>1. same => got = now
    BY <1>2
  <2> HIDE DEF now
  <2> QED BY <1>9, <2>1
<1>13. WriteMap(p, sta)
  BY <1>2
<1> HIDE DEF more, now, merged, x
<1>14. /\ sta \in StoreRec /\ ~sta.torn /\ sta.files = st.files /\ sta.provs = st.provs \cup more
       /\ sta.opts = st.opts /\ sta.fdeps = st.fdeps
  <2> HIDE DEF st
  <2> QED BY <1>6, <1>10 DEF StoreRec
<1> HIDE DEF sta, st
<1>15. /\ st2 \in StoreRec /\ ~st2.torn /\ st2.files = sta.files /\ st2.provs = sta.provs
       /\ st2.opts = sta.opts /\ st2.fdeps = sta.fdeps
  BY <1>1, <1>3, <1>13, <1>14, HeldMap
<1>16. store'[x.map] = st2 /\ proc'[p] = x
  BY <1>1, <1>8
<1> HIDE DEF st2, ix
<1>17. st2.files = st.files /\ st2.provs = st.provs \cup ProvidesOf(ix, got)
  BY <1>14, <1>15 DEF more, ProvidesOf
<1>18. On(index, x, st2, p, Tail(pre), g)
  <2>1. /\ st2 \in StoreRec /\ ~st2.torn /\ st2.opts = st.opts /\ st2.fdeps = st.fdeps
        /\ On(index, pr, st, p, pre, g) /\ pre # <<>> /\ g \in {"collect", "sync"} /\ ix = pre[1].ix
        /\ x.todo = Tail(pr.todo) /\ x.newdeps = pr.newdeps /\ x.opts = pr.opts
    BY <1>5, <1>7, <1>8, <1>14, <1>15
  <2> HIDE DEF pr
  <2> QED BY ONLY <2>1, <1>11, <1>12, <1>17, CollectsIn
<1> QED BY <1>5, <1>16, <1>18 DEF Continues

\* The stages that say nothing new of the cache: x is the process after the step, st2 the map.
LEMMA BuildPlain ==
    ASSUME BInv, NEW p \in Procs, NEW d, Task(p, d), proc[p].map # 0, Quiet(index, changes, proc[p]),
           d \in {"unlink", "create", "data", "flag", "header", "generator", "sync"},
           NEW x, proc'[p] = x, x.todo = Tail(proc[p].todo), x.newdeps = proc[p].newdeps,
           x.opts = proc[p].opts, x.open = proc[p].open, x.map = proc[p].map,
           NEW st2, st2 = store'[proc[p].map],
           st2.files = store[proc[p].map].files, st2.provs = store[proc[p].map].provs,
           st2.opts = store[proc[p].map].opts, st2.fdeps = store[proc[p].map].fdeps,
           store[proc[p].map] \in StoreRec /\ ~store[proc[p].map].torn => st2 \in StoreRec /\ ~st2.torn
    PROVE  Continues(p)
<1> DEFINE pr == proc[p]
           st == store[pr.map]
<1>1. /\ d # "unlink" => On(index, pr, st, p, <<>>, d)
      /\ d = "unlink" => p \in Roots /\ On(index, pr, st, p, <<>>, "collect")
      /\ \E pre, g : On(index, pr, st, p, pre, g)
  <2>1. d \notin {"open", "merge", "collect"}
    OBVIOUS
  <2> QED BY <2>1, BuilderState
<1>2. st \in StoreRec /\ ~st.torn
  BY <1>1 DEF On, Built
<1>3. st2 \in StoreRec /\ ~st2.torn
  BY <1>2
<1> HIDE DEF st
<1>4. /\ x.todo = Tail(pr.todo) /\ x.newdeps = pr.newdeps /\ x.opts = pr.opts /\ x.open = pr.open
      /\ st2.files = st.files /\ st2.provs = st.provs /\ st2.opts = st.opts /\ st2.fdeps = st.fdeps
  BY DEF st
<1> HIDE DEF pr
<1>5. \E g : g # "preload" /\ On(index, x, st2, p, <<>>, g)
  <2>1. CASE d = "unlink"
    BY <1>1, <1>3, <1>4, <2>1, NextStage
  <2>2. CASE d # "unlink"
    <3>1. On(index, pr, st, p, <<>>, d)
      BY <1>1, <2>2
    <3>2. /\ d = "create" => On(index, x, st2, p, <<>>, "data")
          /\ d = "data" => On(index, x, st2, p, <<>>, "flag")
          /\ d = "flag" => On(index, x, st2, p, <<>>, "header")
          /\ d = "header" => On(index, x, st2, p, <<>>, "merge")
          /\ d = "generator" => On(index, x, st2, p, <<>>, "merge")
          /\ d = "sync" => On(index, x, st2, p, <<>>, "clean")
      BY <1>3, <1>4, <3>1, NextStage
    <3> QED BY <2>2, <3>2
  <2> QED BY <2>1, <2>2
<1>6. store'[x.map] = st2 /\ proc'[p] = x
  OBVIOUS
<1> QED BY <1>5, <1>6 DEF Continues

\* Only a process that may write the files has a task on them.
LEMMA FileTasks ==
    ASSUME FInv, NEW p \in Procs, NEW d, Task(p, d), d \in {"unlink", "create", "data", "flag", "header"}
    PROVE  p \in Roots
<1> SUFFICES ASSUME p \notin Roots PROVE FALSE
  OBVIOUS
<1>1. proc[p].todo \in Seq(PlainTask) /\ CacheTypes
  BY DEF FInv, Apart, Stranger
<1>2. /\ Head(proc[p].todo) \in TaskRec /\ Head(proc[p].todo).do = d
      /\ Head(proc[p].todo) \in PlainTask
  BY <1>1, FirstTask
<1> QED BY <1>2, TaskKinds

\* What the writer knows of the two files at such a task, once it has a map.
LEMMA FileState ==
    ASSUME FInv, NEW p \in Procs, NEW d, Task(p, d), d \in {"unlink", "create", "data", "flag", "header"},
           proc[p].map # 0
    PROVE  /\ p \in Roots /\ proc[p].map = name["pkg"] /\ proc[p].map # name["src"]
           /\ proc[p].map \in 1..NStores
           /\ d = "unlink" => Head(proc[p].todo) = Do("unlink", "src")
           /\ d = "create" => Head(proc[p].todo) = Do("create", "src") /\ name["src"] = 0
           /\ d \in {"data", "header"} => /\ proc[p].out # 0 /\ proc[p].out = name["src"]
                                          /\ store[name["src"]].dirty
<1>1. p \in Roots
  BY FileTasks
<1>2. ~Opening(name, proc[p])
  BY DEF Opening
<1>3. PICK pre, g : /\ Building(index, name, store, proc[p], pre, g)
                    /\ pre = <<>> => g = d
                    /\ pre # <<>> => \/ g = "sources" /\ d \in {"open", "merge"}
                                     \/ g \in {"unlink", "sync"} /\ d = "collect"
  BY <1>1, <1>2, WriterTask
<1>4. pre = <<>> /\ g = d /\ Building(index, name, store, proc[p], <<>>, d)
  BY <1>3
<1>5. proc[p].map = name["pkg"] /\ Phase(index, name, store, proc[p], <<>>, d)
  BY <1>4 DEF Building
<1>6. proc[p].map # name["src"] /\ proc[p].map \in 1..NStores
  BY <1>1, <1>5, WriterState
<1>7. Head(proc[p].todo) = Head(Rest(d))
  BY <1>4, StageTask
<1>8. d = "create" => name["src"] = 0
  BY <1>5 DEF Phase, Stage
<1>9. d = "data" => proc[p].out # 0 /\ proc[p].out = name["src"] /\ store[name["src"]].dirty
  BY <1>5 DEF Phase, Stage, Empty
<1>10. d = "header" => proc[p].out # 0 /\ proc[p].out = name["src"] /\ store[name["src"]].dirty
  BY <1>5 DEF Phase, Stage, Copied
<1> QED BY <1>1, <1>5, <1>6, <1>7, <1>8, <1>9, <1>10, Chain

\* The steps that go from one stage to the next.
LEMMA BuildGoes ==
    ASSUME BInv, NEW p \in Procs, proc[p].map # 0, Quiet(index, changes, proc[p]),
           Unlink(p) \/ Create(p) \/ WriteData(p) \/ ClearFlag(p) \/ WriteHeader(p) \/ Generator(p) \/ SyncMap(p)
    PROVE  Continues(p)
<1> DEFINE pr == proc[p]
           m == pr.map
           st == store[m]
           x == proc'[p]
           st2 == store'[m]
<1>1. /\ proc \in [Procs -> ProcRec] /\ pr \in ProcRec /\ CacheTypes /\ Alone /\ FInv
      /\ DOMAIN store = 1..NStores /\ NStores \in Nat
  BY ListAssumption DEF BInv, FInv, CacheTypes
<1>2. m \in 1..NStores /\ m \in Used
  BY <1>1 DEF ProcRec, Used
<1>3. \A y : proc' = [proc EXCEPT ![p] = y] => x = y
  BY <1>1
<1>4. /\ Done(p).todo = Tail(pr.todo) /\ Done(p).newdeps = pr.newdeps /\ Done(p).opts = pr.opts
      /\ Done(p).open = pr.open /\ Done(p).map = m
      /\ \A s : LET y == [Done(p) EXCEPT !.out = s] IN
            /\ y.todo = Tail(pr.todo) /\ y.newdeps = pr.newdeps /\ y.opts = pr.opts
            /\ y.open = pr.open /\ y.map = m
  BY <1>1 DEF Done, ProcRec
<1> DEFINE Same == /\ st2.files = st.files /\ st2.provs = st.provs
                   /\ st2.opts = st.opts /\ st2.fdeps = st.fdeps
                   /\ st \in StoreRec /\ ~st.torn => st2 \in StoreRec /\ ~st2.torn
           Next1 == /\ x.todo = Tail(pr.todo) /\ x.newdeps = pr.newdeps /\ x.opts = pr.opts
                    /\ x.open = pr.open /\ x.map = m
<1>5. ASSUME NEW d, Task(p, d), Same, Next1,
             d \in {"unlink", "create", "data", "flag", "header", "generator", "sync"}
      PROVE  Continues(p)
  <2>1. /\ x.todo = Tail(proc[p].todo) /\ x.newdeps = proc[p].newdeps
        /\ x.opts = proc[p].opts /\ x.open = proc[p].open /\ x.map = proc[p].map
    BY <1>5
  <2>2. /\ st2.files = store[proc[p].map].files /\ st2.provs = store[proc[p].map].provs
        /\ st2.opts = store[proc[p].map].opts /\ st2.fdeps = store[proc[p].map].fdeps
        /\ store[proc[p].map] \in StoreRec /\ ~store[proc[p].map].torn => st2 \in StoreRec /\ ~st2.torn
    BY <1>5
  <2> HIDE DEF Same, Next1
  <2> QED BY <1>5, <2>1, <2>2, BuildPlain
<1>6. st2 = st => Same
  OBVIOUS
<1>7. proc' = [proc EXCEPT ![p] = Done(p)] => Next1
  BY <1>3, <1>4
<1> HIDE DEF Next1
<1>8. ASSUME NEW d, Task(p, d) PROVE st \in StoreRec /\ ~st.torn
  <2>1. \E pre, g : On(index, pr, st, p, pre, g)
    BY <1>8, BuilderState
  <2> QED BY <2>1 DEF On, Built
<1> HIDE DEF Same
<1>9. CASE Unlink(p)
  <2>1. proc' = [proc EXCEPT ![p] = Done(p)] /\ Task(p, "unlink") /\ Released
    BY <1>9 DEF Unlink
  <2>2. proc'[p].map = m
    BY <1>7, <2>1 DEF Next1
  <2>3. m \in Used'
    BY <2>2 DEF Used
  <2>4. st2 = st
    BY <1>2, <2>1, <2>3 DEF Released
  <2> QED BY <1>5, <1>6, <1>7, <2>1, <2>4
<1>10. CASE Create(p)
  <2>1. Task(p, "create")
    BY <1>10 DEF Create
  <2>2. Head(pr.todo) = Do("create", "src") /\ name["src"] = 0
    BY <1>1, <2>1, FileState
  <2>3. Head(pr.todo).ix = "src"
    BY <2>2 DEF Do
  <2>4. /\ Free # {} /\ store' = [store EXCEPT ![NewStore] = Empty]
        /\ proc' = [proc EXCEPT ![p] = [Done(p) EXCEPT !.out = NewStore]]
    BY <1>10, <2>2, <2>3 DEF Create
  <2>5. m # NewStore
    BY <1>2, <2>4, FreeStore
  <2>6. st2 = st
    BY <1>1, <1>2, <2>4, <2>5
  <2>7. Next1
    BY <1>3, <1>4, <2>4 DEF Next1
  <2> QED BY <1>5, <1>6, <2>1, <2>6, <2>7
<1>11. CASE WriteData(p)
  <2>1. Task(p, "data") /\ proc' = [proc EXCEPT ![p] = Done(p)]
    BY <1>11 DEF WriteData
  <2>2. pr.out # m
    BY <1>1, <2>1, FileState
  <2>3. \E new : store' = [store EXCEPT ![pr.out] = new]
    BY <1>11 DEF WriteData
  <2>4. st2 = st
    BY <1>1, <1>2, <2>2, <2>3
  <2> QED BY <1>5, <1>6, <1>7, <2>1, <2>4
<1>12. CASE ClearFlag(p)
  <2>1. Task(p, "flag") /\ proc' = [proc EXCEPT ![p] = Done(p)] /\ WriteMap(p, [st EXCEPT !.dirty = FALSE])
    BY <1>12 DEF ClearFlag
  <2>3. st \in StoreRec /\ ~st.torn
    BY <1>8, <2>1
  <2> DEFINE sta == [st EXCEPT !.dirty = FALSE]
  <2>4. /\ sta \in StoreRec /\ ~sta.torn /\ sta.files = st.files /\ sta.provs = st.provs
        /\ sta.opts = st.opts /\ sta.fdeps = st.fdeps
    BY <2>3 DEF StoreRec
  <2> HIDE DEF sta
  <2>5. /\ st2 \in StoreRec /\ ~st2.torn /\ st2.files = sta.files /\ st2.provs = sta.provs
        /\ st2.opts = sta.opts /\ st2.fdeps = sta.fdeps
    BY <1>1, <2>1, <2>4, HeldMap DEF sta
  <2>6. Same
    BY <2>4, <2>5 DEF Same
  <2> QED BY <1>5, <1>7, <2>1, <2>6
<1>13. CASE WriteHeader(p)
  <2>1. Task(p, "header") /\ proc' = [proc EXCEPT ![p] = [Done(p) EXCEPT !.out = 0]]
    BY <1>13 DEF WriteHeader
  <2>2. pr.out # m
    BY <1>1, <2>1, FileState
  <2>3. st2 = [st EXCEPT !.dirty = TRUE]
    <3>1. store' = [store EXCEPT ![pr.out].dirty = FALSE, ![pr.out].kept = FALSE, ![m].dirty = TRUE]
      BY <1>13 DEF WriteHeader
    <3> QED BY <1>1, <1>2, <2>2, <3>1
  <2>4. Same
    <3>1. st \in StoreRec /\ ~st.torn
      BY <1>8, <2>1
    <3> QED BY <2>3, <3>1 DEF Same, StoreRec
  <2>5. Next1
    BY <1>3, <1>4, <2>1 DEF Next1
  <2> QED BY <1>5, <2>1, <2>4, <2>5
<1>14. CASE Generator(p)
  <2>1. Task(p, "generator") /\ proc' = [proc EXCEPT ![p] = Done(p)]
    BY <1>14 DEF Generator
  <2>2. st2 = [st EXCEPT !.dirty = TRUE, !.kept = TRUE]
    <3>1. store' = [store EXCEPT ![m].dirty = TRUE, ![m].kept = TRUE]
      BY <1>14 DEF Generator
    <3> QED BY <1>1, <1>2, <3>1
  <2>3. Same
    <3>1. st \in StoreRec /\ ~st.torn
      BY <1>8, <2>1
    <3> QED BY <2>2, <3>1 DEF Same, StoreRec
  <2> QED BY <1>5, <1>7, <2>1, <2>3
<1>15. CASE SyncMap(p)
  <2>1. Task(p, "sync") /\ proc' = [proc EXCEPT ![p] = Done(p)]
    BY <1>15 DEF SyncMap
  <2>2. st2 = [st EXCEPT !.safe = TRUE]
    <3>1. store' = [store EXCEPT ![m].safe = TRUE]
      BY <1>15 DEF SyncMap
    <3> QED BY <1>1, <1>2, <3>1
  <2>3. Same
    <3>1. st \in StoreRec /\ ~st.torn
      BY <1>8, <2>1
    <3> QED BY <2>2, <3>1 DEF Same, StoreRec
  <2> QED BY <1>5, <1>7, <2>1, <2>3
<1> QED BY <1>9, <1>10, <1>11, <1>12, <1>13, <1>14, <1>15

\* The source cache is the one that was checked.
LEMMA BuildPreloads ==
    ASSUME BInv, NEW p \in Procs, Preload(p), Still(index, changes, proc[p]), ~proc'[p].other
    PROVE  Continues(p)
<1> DEFINE pr == proc[p]
           st == store[pr.map]
           src == store[name["src"]]
           sta == [src EXCEPT !.kept = TRUE]
           x == [[pr EXCEPT !.todo = Tail(pr.todo)] EXCEPT !.other = name["src"] # pr.seen, !.seen = 0]
           st2 == store'[pr.map]
<1>1. /\ Task(p, "preload") /\ name["src"] # 0 /\ WriteMap(p, sta) /\ proc' = [proc EXCEPT ![p] = x]
      /\ proc \in [Procs -> ProcRec] /\ CacheTypes /\ Alone /\ pr \in ProcRec
  BY DEF Preload, Done, BInv, FInv, CacheTypes
<1>2. pr.map # 0
  BY <1>1, BuilderHasMap
<1>3. /\ x.todo = Tail(pr.todo) /\ x.map = pr.map /\ x.newdeps = pr.newdeps /\ x.opts = pr.opts
      /\ x.other = (name["src"] # pr.seen)
  BY <1>1 DEF ProcRec
<1>4. proc'[p] = x
  BY <1>1
<1>5. name["src"] = pr.seen
  BY <1>3, <1>4
<1>6. Builds(index, changes, name, store, pr, p) /\ pr.at = "build"
  BY <1>1 DEF BInv, Builders, Task
<1>7. Quiet(index, changes, pr)
  BY <1>1, <1>5, <1>6 DEF Builds, Quiet
<1>8. On(index, pr, st, p, <<>>, "preload")
  BY <1>1, <1>2, <1>7, BuilderState
<1>9. Valid(index, src, pr.opts, Indexes \ {Database})
  BY <1>1, <1>5, <1>6, <1>7 DEF Builds
<1>10. /\ SrcOK(index, changes, src) /\ src \in StoreRec
       /\ \A ix \in Indexes : index[ix].back => ix = Database
  BY <1>1 DEF BInv, FInv, Named, SrcOK, Clock
<1>11. ~src.torn
  BY <1>9, <1>10 DEF Valid, SrcOK, Unfinished, Clean
<1> HIDE DEF x, st, src
<1>12. /\ sta \in StoreRec /\ ~sta.torn /\ sta.files = src.files /\ sta.provs = src.provs
       /\ sta.opts = src.opts /\ sta.fdeps = src.fdeps
  BY <1>10, <1>11 DEF StoreRec
<1> HIDE DEF sta
<1>13. /\ st2 \in StoreRec /\ ~st2.torn /\ st2.files = sta.files /\ st2.provs = sta.provs
       /\ st2.opts = sta.opts /\ st2.fdeps = sta.fdeps
  BY <1>1, <1>2, <1>12, HeldMap
<1>14. store'[x.map] = st2
  BY <1>3
<1> HIDE DEF st2
<1>15. On(index, x, st2, p, <<>>, "generator")
  BY <1>3, <1>8, <1>9, <1>10, <1>12, <1>13, PreloadsIn
<1> QED BY <1>4, <1>14, <1>15 DEF Continues

-----------------------------------------------------------------------------
(* What a step of one process does to what the others have.                 *)

\* A file is made where there is none, in a store that nobody uses.
LEMMA CreatesNew ==
    ASSUME FInv, NEW p \in Procs, Create(p)
    PROVE  LET n == Head(proc[p].todo).ix IN
           /\ n \in Names /\ name[n] = 0 /\ NewStore \in 1..NStores /\ NewStore \notin Used
           /\ store' = [store EXCEPT ![NewStore] = Empty] /\ name' = [name EXCEPT ![n] = NewStore]
           /\ n = "pkg" => /\ proc[p].map = 0
                           /\ proc' = [proc EXCEPT ![p] = [@ EXCEPT !.map = NewStore, !.at = "source", !.todo = <<>>]]
           /\ n = "src" => proc' = [proc EXCEPT ![p] = [Done(p) EXCEPT !.out = NewStore]] /\ proc[p].map # 0
<1> DEFINE n == Head(proc[p].todo).ix
<1>1. Task(p, "create")
  BY DEF Create
<1>2. p \in Roots
  BY <1>1, FileTasks
<1>3. CASE proc[p].map # 0
  <2>1. Head(proc[p].todo) = Do("create", "src") /\ name["src"] = 0
    BY <1>1, <1>3, FileState
  <2>2. n = "src"
    BY <2>1 DEF Do
  <2>3. /\ Free # {} /\ store' = [store EXCEPT ![NewStore] = Empty] /\ name' = [name EXCEPT ![n] = NewStore]
        /\ proc' = [proc EXCEPT ![p] = [Done(p) EXCEPT !.out = NewStore]]
    BY <2>1, <2>2 DEF Create
  <2> QED BY <1>3, <2>1, <2>2, <2>3, FreeStore DEF Names
<1>4. CASE proc[p].map = 0
  <2>1. Opening(name, proc[p])
    <3>1. Working(index, name, store, proc[p]) /\ proc[p].at = "build"
      BY <1>1, <1>2, WriterState DEF Task
    <3> QED BY <1>4, <3>1 DEF Working, Building
  <2>2. Head(proc[p].todo) = Do("create", "pkg") /\ name["pkg"] = 0
    BY <1>1, <2>1, OpeningTasks DEF Task, Do
  <2>3. n = "pkg"
    BY <2>2 DEF Do
  <2>4. /\ Free # {} /\ store' = [store EXCEPT ![NewStore] = Empty] /\ name' = [name EXCEPT ![n] = NewStore]
        /\ proc' = [proc EXCEPT ![p] = [@ EXCEPT !.map = NewStore, !.at = "source", !.todo = <<>>]]
    BY <2>2, <2>3 DEF Create
  <2> QED BY <1>4, <2>2, <2>3, <2>4, FreeStore DEF Names
<1> QED BY <1>3, <1>4

\* The tasks that write the map.
WritesMap(p) == Preload(p) \/ Merge(p) \/ SourcesMerged(p) \/ StatusMerged(p) \/ Collect(p) \/ ClearFlag(p)

\* Such a step writes no other store and gives no name.
LEMMA MapWriters ==
    ASSUME NEW p, WritesMap(p)
    PROVE  (\E new : store' = [store EXCEPT ![proc[p].map] = new]) /\ name' = name /\ index' = index
<1>1. \A st : WriteMap(p, st) => \E new : store' = [store EXCEPT ![proc[p].map] = new]
  BY DEF WriteMap
<1>2. \E st : WriteMap(p, st)
  <2>1. CASE Preload(p)
    BY <2>1 DEF Preload
  <2>2. CASE Merge(p)
    BY <2>2 DEF Merge
  <2>3. CASE SourcesMerged(p)
    BY <2>3 DEF SourcesMerged
  <2>4. CASE StatusMerged(p)
    BY <2>4 DEF StatusMerged
  <2>5. CASE Collect(p)
    BY <2>5 DEF Collect
  <2>6. CASE ClearFlag(p)
    BY <2>6 DEF ClearFlag
  <2> QED BY <2>1, <2>2, <2>3, <2>4, <2>5, <2>6 DEF WritesMap
<1>3. name' = name /\ index' = index
  BY DEF WritesMap, Preload, Merge, SourcesMerged, StatusMerged, Collect, ClearFlag
<1> QED BY <1>1, <1>2, <1>3

\* A step writes the map of the process, or the source cache that is not finished.
LEMMA StepStores ==
    ASSUME FInv, NEW p \in Procs, Step(p) \/ Stop(p), NEW s \in 1..NStores, s \in Used, s \in Used'
    PROVE  \/ store'[s] = store[s]
           \/ s = proc[p].map
           \/ p \in Roots /\ s = name["src"] /\ store[s].dirty
<1>0. DOMAIN store = 1..NStores /\ CacheTypes
  BY DEF FInv, CacheTypes
<1>1. CASE Start(p) \/ CheckPkg(p) \/ OpenIndex(p)
  BY <1>1 DEF Start, CheckPkg, OpenIndex
<1>2. CASE Unlink(p) \/ Close(p) \/ Stop(p) \/ Refused(p)
  <2>1. Released
    BY <1>2 DEF Unlink, Close, Stop, Refused
  <2> QED BY <2>1 DEF Released
<1>3. CASE Create(p)
  <2>1. store' = [store EXCEPT ![NewStore] = Empty] /\ NewStore \notin Used
    BY <1>3, CreatesNew
  <2> QED BY <1>0, <2>1
<1>4. CASE CheckSource(p)
  <2>1. store' = store \/ (Free # {} /\ store' = [store EXCEPT ![NewStore] = Empty])
    BY <1>4 DEF CheckSource
  <2> QED BY <1>0, <2>1, FreeStore
<1>5. CASE WritesMap(p)
  BY <1>0, <1>5, MapWriters
<1>6. CASE WriteData(p) \/ WriteHeader(p)
  <2>1. Task(p, "data") \/ Task(p, "header")
    BY <1>6 DEF WriteData, WriteHeader
  <2>2. proc[p].map # 0
    <3>1. p \in Roots
      BY <2>1, FileTasks
    <3>2. Working(index, name, store, proc[p]) /\ proc[p].at = "build"
      BY <2>1, <3>1, WriterState DEF Task
    <3>3. ~Opening(name, proc[p])
      BY <2>1, OpeningTasks DEF Task, Do
    <3> QED BY <3>2, <3>3 DEF Working, Building
  <2>3. p \in Roots /\ proc[p].out = name["src"] /\ store[name["src"]].dirty
    BY <2>1, <2>2, FileState
  <2>4. s # proc[p].map /\ s # proc[p].out => store'[s] = store[s]
    BY <1>0, <1>6 DEF WriteData, WriteHeader
  <2> QED BY <2>3, <2>4
<1>7. CASE Generator(p) \/ SyncMap(p) \/ MarkClean(p)
  BY <1>0, <1>7 DEF Generator, SyncMap, MarkClean
<1> QED BY <1>1, <1>2, <1>3, <1>4, <1>5, <1>6, <1>7 DEF Step, WritesMap

\* A name goes, or is given to a new store.
LEMMA StepNames ==
    ASSUME FInv, NEW p \in Procs, Step(p) \/ Stop(p), NEW n \in Names
    PROVE  \/ name'[n] = name[n]
           \/ name'[n] = 0
           \/ name[n] = 0 /\ name'[n] \notin Used /\ store'[name'[n]] = Empty
<1>0. DOMAIN store = 1..NStores /\ name \in [Names -> 0..NStores]
  BY DEF FInv, CacheTypes
<1>1. CASE Unlink(p)
  BY <1>0, <1>1 DEF Unlink
<1>2. CASE Create(p)
  <2> DEFINE i == Head(proc[p].todo).ix
  <2>1. /\ i \in Names /\ name[i] = 0 /\ NewStore \in 1..NStores /\ NewStore \notin Used
        /\ store' = [store EXCEPT ![NewStore] = Empty] /\ name' = [name EXCEPT ![i] = NewStore]
    BY <1>2, CreatesNew
  <2> HIDE DEF i
  <2>2. name'[n] = name[n] \/ (n = i /\ name'[n] = NewStore)
    BY <1>0, <2>1
  <2>3. store'[NewStore] = Empty
    BY <1>0, <2>1
  <2> QED BY <2>1, <2>2, <2>3
<1>3. CASE name' = name
  BY <1>3
<1>4. ~Unlink(p) /\ ~Create(p) => name' = name
  BY MapWriters DEF Step, Stop, Start, CheckPkg, CheckSource, Preload, Generator, OpenIndex, Merge, SourcesMerged,
     StatusMerged, Collect, WriteData, ClearFlag, WriteHeader, SyncMap, MarkClean, Refused, Close
<1> QED BY <1>1, <1>2, <1>3, <1>4

\* A map goes, or is a new one.
LEMMA StepMap ==
    ASSUME FInv, NEW p \in Procs, Step(p) \/ Stop(p)
    PROVE  \/ proc'[p].map = proc[p].map
           \/ proc'[p].map = 0
           \/ proc'[p].map \in 1..NStores \ Used /\ store'[proc'[p].map] = Empty
<1> DEFINE pr == proc[p]
<1>0. DOMAIN store = 1..NStores /\ proc \in [Procs -> ProcRec] /\ pr \in ProcRec
  BY DEF FInv, CacheTypes
<1>1. CASE Create(p)
  <2> DEFINE i == Head(pr.todo).ix
  <2>1. /\ i \in Names /\ NewStore \in 1..NStores /\ NewStore \notin Used
        /\ store' = [store EXCEPT ![NewStore] = Empty]
        /\ i = "pkg" => proc' = [proc EXCEPT ![p] = [@ EXCEPT !.map = NewStore, !.at = "source", !.todo = <<>>]]
        /\ i = "src" => proc' = [proc EXCEPT ![p] = [Done(p) EXCEPT !.out = NewStore]]
    BY <1>1, CreatesNew
  <2> HIDE DEF i
  <2>2. store'[NewStore] = Empty
    BY <1>0, <2>1
  <2>3. i = "pkg" => proc'[p].map = NewStore
    BY <1>0, <2>1 DEF ProcRec
  <2>4. i = "src" => proc'[p].map = pr.map
    <3>1. [Done(p) EXCEPT !.out = NewStore].map = pr.map
      BY <1>0 DEF ProcRec, Done
    <3> DEFINE y == [Done(p) EXCEPT !.out = NewStore]
    <3>2. i = "src" => proc' = [proc EXCEPT ![p] = y]
      BY <2>1
    <3> HIDE DEF y
    <3>3. i = "src" => proc'[p] = y
      BY <1>0, <3>2
    <3> QED BY <3>1, <3>3 DEF y
  <2> QED BY <2>1, <2>2, <2>3, <2>4 DEF Names
<1>2. CASE CheckSource(p)
  <2>1. CASE InFile(p)
    <3>1. \E a, b : proc' = [proc EXCEPT ![p].at = "build", ![p].map = pr.map, ![p].seen = a, ![p].todo = b]
      BY <1>2, <2>1 DEF CheckSource
    <3> QED BY <1>0, <3>1 DEF ProcRec
  <2>2. CASE ~InFile(p)
    <3>1. /\ \E a, b : proc' = [proc EXCEPT ![p].at = "build", ![p].map = NewStore, ![p].seen = a, ![p].todo = b]
          /\ Free # {} /\ store' = [store EXCEPT ![NewStore] = Empty]
      BY <1>2, <2>2 DEF CheckSource
    <3>2. proc'[p].map = NewStore
      BY <1>0, <3>1 DEF ProcRec
    <3>3. NewStore \in 1..NStores \ Used
      BY <3>1, FreeStore
    <3> QED BY <1>0, <3>1, <3>2, <3>3
  <2> QED BY <2>1, <2>2
<1>3. CASE Start(p)
  BY <1>0, <1>3 DEF Start, Idle
<1>4. CASE Close(p) \/ Stop(p) \/ Refused(p)
  BY <1>0, <1>4 DEF Close, Stop, Refused, Idle
<1>5. CASE MarkClean(p)
  BY <1>0, <1>5 DEF MarkClean, ProcRec
<1> DEFINE Same(x) == x.map = pr.map
           Made(x) == proc' = [proc EXCEPT ![p] = x]
<1>6. \A x : Made(x) /\ Same(x) => proc'[p].map = pr.map
  BY <1>0
<1>7. /\ Same(Done(p)) /\ \A s : Same([Done(p) EXCEPT !.out = s])
      /\ \A t : Same([Done(p) EXCEPT !.todo = t]) /\ Same([Done(p) EXCEPT !.open = t])
      /\ \A n, o : Same([Done(p) EXCEPT !.newdeps = n, !.open = o])
      /\ \A n, o : Same([Done(p) EXCEPT !.other = n, !.seen = o])
      /\ \A n, t : Same([pr EXCEPT !.newdeps = n, !.todo = t]) /\ Same([pr EXCEPT !.todo = t])
  BY <1>0 DEF Done, ProcRec
<1> HIDE DEF Same
<1>8. CASE CheckPkg(p)
  BY <1>0, <1>8 DEF CheckPkg, ProcRec
<1>9. CASE Unlink(p) \/ Generator(p) \/ Collect(p) \/ WriteData(p) \/ ClearFlag(p) \/ SyncMap(p)
  <2>1. Made(Done(p))
    BY <1>9 DEF Unlink, Generator, Collect, WriteData, ClearFlag, SyncMap
  <2> HIDE DEF Made
  <2> QED BY <1>6, <1>7, <2>1
<1>10. CASE Preload(p)
  <2>1. \E n, o : Made([Done(p) EXCEPT !.other = n, !.seen = o])
    BY <1>10 DEF Preload
  <2> HIDE DEF Made
  <2> QED BY <1>6, <1>7, <2>1
<1>11. CASE WriteHeader(p)
  <2>1. \E s : Made([Done(p) EXCEPT !.out = s])
    BY <1>11 DEF WriteHeader
  <2> HIDE DEF Made
  <2> QED BY <1>6, <1>7, <2>1
<1>12. CASE OpenIndex(p)
  <2>1. \E t : Made([Done(p) EXCEPT !.todo = t]) \/ Made([Done(p) EXCEPT !.open = t])
    BY <1>12 DEF OpenIndex
  <2> HIDE DEF Made
  <2> QED BY <1>6, <1>7, <2>1
<1>13. CASE Merge(p)
  <2>1. \E n, o : Made([Done(p) EXCEPT !.newdeps = n, !.open = o])
    BY <1>13 DEF Merge
  <2> HIDE DEF Made
  <2> QED BY <1>6, <1>7, <2>1
<1>14. CASE SourcesMerged(p) \/ StatusMerged(p)
  <2>1. \E n, t : Made([pr EXCEPT !.newdeps = n, !.todo = t]) \/ Made([pr EXCEPT !.todo = t])
    BY <1>14 DEF SourcesMerged, StatusMerged
  <2> HIDE DEF Made
  <2> QED BY <1>6, <1>7, <2>1
<1> QED BY <1>1, <1>2, <1>3, <1>4, <1>5, <1>8, <1>9, <1>10, <1>11, <1>12, <1>13, <1>14 DEF Step

\* No other process changes.
LEMMA OthersStay ==
    ASSUME CacheTypes, NEW p \in Procs, Step(p) \/ Stop(p), NEW q \in Procs, q # p
    PROVE  proc'[q] = proc[q]
<1>1. PICK x \in ProcRec : proc' = [proc EXCEPT ![p] = x]
  BY ProcTypes
<1> QED BY <1>1 DEF CacheTypes

\* The writer has the package cache in its map.
LEMMA WriterMap ==
    ASSUME FInv, NEW r \in Roots, proc[r].map # 0
    PROVE  proc[r].map = name["pkg"] /\ proc[r].at \in {"source", "build"} /\ proc[r].map # name["src"]
<1>1. Working(index, name, store, proc[r]) /\ proc[r] \in ProcRec
  BY WriterState
<1>2. proc[r].at \in {"source", "build"}
  BY <1>1 DEF Working, ProcRec
<1>3. proc[r].map = name["pkg"]
  BY <1>1, <1>2 DEF Working, Opening, Building
<1> QED BY <1>2, <1>3, WriterState

\* Every map keeps what it has while its process does nothing.
LEMMA MapKept ==
    ASSUME BInv, OneWriter, NEW p \in Procs, Step(p) \/ Stop(p), NEW q \in Procs, q # p, proc[q].map # 0
    PROVE  store'[proc[q].map] = store[proc[q].map]
<1> DEFINE s == proc[q].map
<1>1. proc'[q] = proc[q] /\ FInv /\ Alone /\ proc[q] \in ProcRec /\ NStores \in Nat
  BY OthersStay, ListAssumption DEF BInv, FInv, CacheTypes
<1>2. s \in 1..NStores /\ s \in Used /\ s \in Used'
  BY <1>1 DEF ProcRec, Used
<1>3. s # proc[p].map
  BY <1>1 DEF Alone
<1>4. ~(p \in Roots /\ s = name["src"])
  <2>1. CASE q \in Roots
    BY <2>1 DEF OneWriter
  <2>2. CASE q \notin Roots
    BY <1>1, <2>2 DEF FInv, Apart, Stranger
  <2> QED BY <2>1, <2>2
<1> HIDE DEF s
<1>5. store'[s] = store[s]
  BY <1>1, <1>2, <1>3, <1>4, StepStores
<1> QED BY <1>5 DEF s

\* No step gives a process the map of another.
LEMMA AloneKept ==
    ASSUME BInv, NEW p \in Procs, Step(p) \/ Stop(p)
    PROVE  Alone'
<1>1. /\ Alone /\ FInv
      /\ \A q \in Procs : q # p => proc'[q] = proc[q]
  BY OthersStay DEF BInv, FInv
<1>2. \/ proc'[p].map = proc[p].map
      \/ proc'[p].map = 0
      \/ proc'[p].map \in 1..NStores \ Used /\ store'[proc'[p].map] = Empty
  BY <1>1, StepMap
<1>3. \A q \in Procs : proc[q].map \in Used
  BY DEF Used
<1> SUFFICES ASSUME NEW a \in Procs, NEW b \in Procs, a # b, proc'[a].map # 0 PROVE proc'[a].map # proc'[b].map
  BY DEF Alone
<1>4. proc[a].map # 0 => proc[a].map # proc[b].map
  BY <1>1 DEF Alone
<1>5. proc[b].map # 0 => proc[a].map # proc[b].map
  BY <1>1 DEF Alone
<1>6. CASE a = p
  BY <1>1, <1>2, <1>3, <1>4, <1>6
<1>7. CASE b = p
  BY <1>1, <1>2, <1>3, <1>5, <1>4, <1>7
<1> QED BY <1>1, <1>4, <1>6, <1>7

\* The source cache that was checked stays valid, or is another one.
LEMMA SrcKept ==
    ASSUME BInv, OneWriter, NEW p \in Procs, Step(p) \/ Stop(p), NEW s, s # 0, s \in Used, s \in Used', s = name'["src"],
           NEW opts, s = name["src"] => Valid(index, store[s], opts, Indexes \ {Database})
    PROVE  s = name["src"] /\ Valid(index, store'[s], opts, Indexes \ {Database})
<1>1. FInv /\ Alone /\ name \in [Names -> 0..NStores] /\ NStores \in Nat
  BY ListAssumption DEF BInv, FInv, CacheTypes
<1>2. s = name["src"]
  BY <1>1, StepNames DEF Names
<1>3. s \in 1..NStores
  BY <1>1, <1>2 DEF Names
<1>4. s # proc[p].map
  <2>1. CASE p \in Roots
    BY <1>1, <1>2, <2>1, WriterMap
  <2>2. CASE p \notin Roots
    BY <1>1, <1>2, <2>2 DEF FInv, Apart, Stranger
  <2> QED BY <2>1, <2>2
<1>5. ~store[s].dirty
  BY <1>2 DEF Valid
<1>6. store'[s] = store[s]
  BY <1>1, <1>3, <1>4, <1>5, StepStores
<1> QED BY <1>2, <1>6

\* What becomes of the indexes.
LEMMA StillStep ==
    ASSUME CacheTypes, Clock, NEW p \in Procs, Step(p) \/ Stop(p)
    PROVE  changes' = changes /\ (index' = index \/ index'[Database].back)
<1>1. changes' = changes
  BY StepFiles
<1>2. \/ index' = index
      \/ /\ proc[p].at # "off"
         /\ index' = [index EXCEPT ![Database].mtime = proc[p].dbtime, ![Database].back = TRUE]
  BY StepIndexes
<1>3. index \in [Indexes -> IndexRec] /\ Database \in Indexes /\ index[Database] \in IndexRec
  BY DEF CacheTypes, Indexes
<1>4. index' = [index EXCEPT ![Database].mtime = proc[p].dbtime, ![Database].back = TRUE] => index'[Database].back
  BY <1>3 DEF IndexRec
<1> QED BY <1>1, <1>2, <1>4

\* A process that does nothing.
LEMMA BuilderWaits ==
    ASSUME BInv, OneWriter, NEW p \in Procs, Step(p) \/ Stop(p), NEW q \in Procs, q # p
    PROVE  Builds(index', changes', name', store', proc'[q], q)
<1> DEFINE pr == proc[q]
<1>1. /\ proc'[q] = pr /\ CacheTypes /\ Clock /\ FInv /\ pr \in ProcRec
      /\ Builds(index, changes, name, store, pr, q)
  BY OthersStay DEF BInv, FInv, CacheTypes, Builders
<1>2. changes' = changes /\ (index' = index \/ index'[Database].back)
  BY <1>1, StillStep
<1>3. Still(index', changes', pr) => index' = index /\ Still(index, changes, pr)
  BY <1>2 DEF Still
<1>4. pr.map # 0 => store'[pr.map] = store[pr.map]
  BY MapKept
<1>5. q \in Roots => name' = name
  <2> SUFFICES ASSUME q \in Roots PROVE name' = name
    OBVIOUS
  <2>1. p \in Procs \ Roots
    BY DEF OneWriter
  <2> QED BY <1>1, <2>1, StrangerStep
<1>6. ASSUME pr.at = "build", pr.seen # 0, pr.seen = name'["src"], Quiet(index', changes', pr)
      PROVE  Valid(index', store'[pr.seen], pr.opts, Indexes \ {Database})
  <2>1. index' = index /\ Quiet(index, changes, pr)
    BY <1>3, <1>6 DEF Quiet
  <2>2. pr.seen \in Used /\ pr.seen \in Used'
    BY <1>1 DEF Used
  <2>3. pr.seen = name["src"] => Valid(index, store[pr.seen], pr.opts, Indexes \ {Database})
    BY <1>1, <1>6, <2>1 DEF Builds
  <2> QED BY <1>6, <2>1, <2>2, <2>3, SrcKept
<1>7. ASSUME pr.at = "build", pr.map # 0, Quiet(index', changes', pr)
      PROVE  \E pre, g : On(index', pr, store'[pr.map], q, pre, g)
  <2>1. index' = index /\ Quiet(index, changes, pr)
    BY <1>3, <1>7 DEF Quiet
  <2>2. \E pre, g : On(index, pr, store[pr.map], q, pre, g)
    BY <1>1, <1>7, <2>1 DEF Builds
  <2> QED BY <1>4, <1>7, <2>1, <2>2
<1> HIDE DEF pr
<1>8. Builds(index', changes', name', store', pr, q)
  BY <1>1, <1>2, <1>3, <1>5, <1>6, <1>7 DEF Builds
<1> QED BY <1>1, <1>8

\* Reading the source cache again is the first task of a build or none.
LEMMA PreloadFirst ==
    ASSUME NEW p, Continues(p)
    PROVE  Head(proc'[p].todo).do # "preload"
<1> DEFINE x == proc'[p]
           st2 == store'[x.map]
<1>1. PICK pre, g : g # "preload" /\ On(index, x, st2, p, pre, g)
  BY DEF Continues
<1> HIDE DEF x, st2
<1>2. CASE pre = <<>>
  <2>1. On(index, x, st2, p, <<>>, g)
    BY <1>1, <1>2
  <2>2. /\ g # "collect" => Head(x.todo).do = g
        /\ g = "collect" => Head(x.todo).do = IF p \in Roots THEN "unlink" ELSE "merge"
    BY <2>1, OnTask
  <2>3. Head(x.todo).do # "preload"
    BY <1>1, <2>2
  <2> QED BY <2>3 DEF x
<1>3. CASE pre # <<>>
  <2>1. /\ Head(x.todo) = pre[1]
        /\ \/ g = "sources" /\ pre[1].do \in {"open", "merge"}
           \/ g \in {"collect", "sync"} /\ pre[1].do = "collect"
    BY <1>1, <1>3, OnSingle
  <2>2. Head(x.todo).do # "preload"
    BY <2>1
  <2> QED BY <2>2 DEF x
<1> QED BY <1>2, <1>3

\* A process that goes on with its build.
LEMMA BuilderContinues ==
    ASSUME BInv, OneWriter, NEW p \in Procs, Step(p), index' = index, proc[p].at = "build", proc[p].map # 0,
           NEW x, proc'[p] = x, x.at = "build", x.map = proc[p].map, x.since = proc[p].since,
           x.dbtime = proc[p].dbtime, x.opts = proc[p].opts, x.other = proc[p].other, x.seen = proc[p].seen,
           Quiet(index, changes, proc[p]) => Continues(p)
    PROVE  Builds(index', changes', name', store', proc'[p], p)
<1> DEFINE pr == proc[p]
<1>1. /\ CacheTypes /\ Clock /\ FInv /\ Builds(index, changes, name, store, pr, p) /\ changes' = changes
  BY StillStep DEF BInv, FInv, Builders
<1>2. Still(index', changes', x) <=> Still(index, changes, pr)
  BY <1>1 DEF Still
<1>3. Quiet(index', changes', x) <=> Quiet(index, changes, pr)
  BY <1>2 DEF Quiet
<1>4. ASSUME p \in Roots, Still(index', changes', x)
      PROVE  ~x.other /\ (Head(x.todo).do = "preload" => x.seen = name'["src"])
  <2>1. ~pr.other
    BY <1>1, <1>2, <1>4 DEF Builds
  <2>2. Continues(p)
    BY <1>2, <1>4, <2>1 DEF Quiet
  <2>3. Head(x.todo).do # "preload"
    BY <2>2, PreloadFirst
  <2> QED BY <2>1, <2>3
<1>5. ASSUME x.seen # 0, x.seen = name'["src"], Quiet(index', changes', x)
      PROVE  Valid(index', store'[x.seen], x.opts, Indexes \ {Database})
  <2>1. pr.seen \in Used /\ x.seen \in Used'
    BY DEF Used
  <2>2. pr.seen = name["src"] => Valid(index, store[pr.seen], pr.opts, Indexes \ {Database})
    BY <1>1, <1>3, <1>5 DEF Builds
  <2> DEFINE s == x.seen
             o == x.opts
  <2>3. /\ s # 0 /\ s \in Used /\ s \in Used' /\ s = name'["src"]
        /\ s = name["src"] => Valid(index, store[s], o, Indexes \ {Database})
    BY <1>5, <2>1, <2>2
  <2> HIDE DEF s, o
  <2>4. Valid(index, store'[s], o, Indexes \ {Database})
    BY <2>3, SrcKept
  <2> QED BY <2>4 DEF s, o
<1>6. ASSUME Quiet(index', changes', x)
      PROVE  \E pre, g : On(index', x, store'[x.map], p, pre, g)
  BY <1>3, <1>6 DEF Continues
<1>8. Still(index', changes', x) => x.dbtime = index'[Database].mtime
  BY <1>1, <1>2 DEF Builds
<1>9. x.seen # 0 => ~x.other
  BY <1>1 DEF Builds
<1>10. x.since <= changes'
  BY <1>1 DEF Builds
<1>11. Builds(index', changes', name', store', x, p)
  BY <1>4, <1>5, <1>6, <1>8, <1>9, <1>10 DEF Builds
<1> QED BY <1>11

\* A step of a process that has a map and does not read the source cache or finish.
Goes(p) ==
    \/ Unlink(p) \/ Create(p) \/ WriteData(p) \/ ClearFlag(p) \/ WriteHeader(p) \/ Generator(p) \/ SyncMap(p)
    \/ OpenIndex(p) \/ Merge(p) \/ SourcesMerged(p) \/ StatusMerged(p) \/ Collect(p)

\* It is a step of a build and leaves the indexes alone.
LEMMA GoesTask ==
    ASSUME NEW p, Goes(p)
    PROVE  proc[p].at = "build" /\ index' = index /\ Step(p)
BY DEF Goes, Unlink, Create, WriteData, ClearFlag, WriteHeader, Generator, SyncMap,
       OpenIndex, Merge, SourcesMerged, StatusMerged, Collect, Task, Step

\* What it keeps of itself.
LEMMA GoesKeeps ==
    ASSUME FInv, NEW p \in Procs, Goes(p), proc[p].map # 0
    PROVE  LET x == proc'[p] IN
           /\ x.at = "build" /\ x.map = proc[p].map /\ x.since = proc[p].since
           /\ x.dbtime = proc[p].dbtime /\ x.opts = proc[p].opts /\ x.other = proc[p].other
           /\ x.seen = proc[p].seen
<1> DEFINE pr == proc[p]
           Same(x) == /\ x.at = pr.at /\ x.map = pr.map /\ x.since = pr.since /\ x.dbtime = pr.dbtime
                      /\ x.opts = pr.opts /\ x.other = pr.other /\ x.seen = pr.seen
<1>1. proc \in [Procs -> ProcRec] /\ pr \in ProcRec /\ pr.at = "build"
  BY GoesTask DEF FInv, CacheTypes
<1>2. \A x : proc' = [proc EXCEPT ![p] = x] /\ Same(x) => Same(proc'[p])
  BY <1>1
<1>3. /\ Same(Done(p)) /\ \A s : Same([Done(p) EXCEPT !.out = s])
      /\ \A t : Same([Done(p) EXCEPT !.todo = t]) /\ \A o : Same([Done(p) EXCEPT !.open = o])
      /\ \A n, o : Same([Done(p) EXCEPT !.newdeps = n, !.open = o])
      /\ \A n, t : Same([pr EXCEPT !.newdeps = n, !.todo = t]) /\ Same([pr EXCEPT !.todo = t])
  BY <1>1 DEF Done, ProcRec
<1> HIDE DEF Same
<1>4. CASE Unlink(p) \/ WriteData(p) \/ ClearFlag(p) \/ Generator(p) \/ SyncMap(p) \/ Collect(p)
  <2>1. proc' = [proc EXCEPT ![p] = Done(p)]
    BY <1>4 DEF Unlink, WriteData, ClearFlag, Generator, SyncMap, Collect
  <2> QED BY <1>1, <1>2, <1>3, <2>1 DEF Same
<1>5. CASE Create(p)
  <2>1. proc' = [proc EXCEPT ![p] = [Done(p) EXCEPT !.out = NewStore]]
    BY <1>5, CreatesNew DEF Names
  <2>2. Same([Done(p) EXCEPT !.out = NewStore])
    BY <1>3
  <2>3. Same(proc'[p])
    BY <1>2, <2>1, <2>2
  <2> QED BY <1>1, <2>3 DEF Same
<1>6. CASE WriteHeader(p)
  <2>1. proc' = [proc EXCEPT ![p] = [Done(p) EXCEPT !.out = 0]]
    BY <1>6 DEF WriteHeader
  <2>2. Same([Done(p) EXCEPT !.out = 0])
    BY <1>3
  <2>3. Same(proc'[p])
    BY <1>2, <2>1, <2>2
  <2> QED BY <1>1, <2>3 DEF Same
<1>7. CASE OpenIndex(p)
  <2> DEFINE a == [Done(p) EXCEPT !.todo = Tail(@)]
             b == [Done(p) EXCEPT !.open = index[Head(pr.todo).ix]]
  <2>1. (proc' = [proc EXCEPT ![p] = a]) \/ (proc' = [proc EXCEPT ![p] = b])
    <3> DEFINE s == ~Exists(Head(pr.todo).ix) \/ Found(store[pr.map], Head(pr.todo).ix) # {}
    <3>1. proc' = [proc EXCEPT ![p] = IF s THEN a ELSE b]
      BY <1>7 DEF OpenIndex
    <3> HIDE DEF s, a, b
    <3> QED BY <3>1
  <2>2. Same(a) /\ Same(b)
    BY <1>3
  <2> HIDE DEF a, b
  <2>3. Same(proc'[p])
    BY <1>2, <2>1, <2>2
  <2> QED BY <1>1, <2>3 DEF Same
<1>8. CASE Merge(p)
  <2>1. \E n, o : proc' = [proc EXCEPT ![p] = [Done(p) EXCEPT !.newdeps = n, !.open = o]]
    BY <1>8 DEF Merge
  <2>2. Same(proc'[p])
    BY <1>2, <1>3, <2>1
  <2> QED BY <1>1, <2>2 DEF Same
<1>9. CASE SourcesMerged(p)
  <2>1. \E n, t : proc' = [proc EXCEPT ![p] = [pr EXCEPT !.newdeps = n, !.todo = t]]
    BY <1>9 DEF SourcesMerged
  <2>2. Same(proc'[p])
    BY <1>2, <1>3, <2>1
  <2> QED BY <1>1, <2>2 DEF Same
<1>10. CASE StatusMerged(p)
  <2>1. \E t : proc' = [proc EXCEPT ![p] = [pr EXCEPT !.todo = t]]
    BY <1>10 DEF StatusMerged
  <2>2. Same(proc'[p])
    BY <1>2, <1>3, <2>1
  <2> QED BY <1>1, <2>2 DEF Same
<1> QED BY <1>4, <1>5, <1>6, <1>7, <1>8, <1>9, <1>10 DEF Goes

\* So what it has built stays as its tasks say.
LEMMA BuilderGoes ==
    ASSUME BInv, OneWriter, NEW p \in Procs, Goes(p), proc[p].map # 0
    PROVE  Builds(index', changes', name', store', proc'[p], p)
<1>1. proc[p].at = "build" /\ index' = index /\ Step(p) /\ FInv
  BY GoesTask DEF BInv
<1>2. ASSUME Quiet(index, changes, proc[p]) PROVE Continues(p)
  BY <1>2, BuildGoes, BuildOpens, BuildMerges, BuildSources, BuildStatus, BuildCollects DEF Goes
<1> DEFINE x == proc'[p]
<1>3. /\ x.at = "build" /\ x.map = proc[p].map /\ x.since = proc[p].since
      /\ x.dbtime = proc[p].dbtime /\ x.opts = proc[p].opts /\ x.other = proc[p].other
      /\ x.seen = proc[p].seen
  BY <1>1, GoesKeeps
<1>4. proc'[p] = x
  OBVIOUS
<1> HIDE DEF x
<1> QED BY <1>1, <1>2, <1>3, <1>4, BuilderContinues

\* Outside of a build there is little to keep.
LEMMA NotBuilding ==
    ASSUME NEW ind, NEW ch, NEW nm, NEW sto, NEW r, NEW x, x.at # "build",
           x.at # "off" => x.since <= ch,
           (x.at # "off" /\ Still(ind, ch, x)) => x.dbtime = ind[Database].mtime,
           x.seen # 0 => ~x.other,
           x.at \in {"check", "source"} => ~x.newdeps /\ ~x.other /\ x.seen = 0
    PROVE  Builds(ind, ch, nm, sto, x, r)
BY DEF Builds

\* Before there is a file to build in.
LEMMA NotYetBuilding ==
    ASSUME NEW ind, NEW ch, NEW nm, NEW sto, NEW r \in Roots, NEW x, x.at = "build", x.map = 0,
           x.since <= ch, Still(ind, ch, x) => x.dbtime = ind[Database].mtime,
           ~x.newdeps, ~x.other, x.seen = 0, Head(x.todo).do # "preload"
    PROVE  Builds(ind, ch, nm, sto, x, r)
BY DEF Builds

\* A process that starts, or looks at the package cache.
LEMMA BuilderStarts ==
    ASSUME BInv, NEW p \in Procs, Start(p) \/ CheckPkg(p)
    PROVE  Builds(index', changes', name', store', proc'[p], p)
<1> DEFINE pr == proc[p]
<1>1. /\ CacheTypes /\ FInv /\ Builds(index, changes, name, store, pr, p)
      /\ proc \in [Procs -> ProcRec] /\ pr \in ProcRec /\ changes \in Nat
  BY DEF BInv, FInv, Builders, CacheTypes
<1>2. index' = index /\ changes' = changes
  BY DEF Start, CheckPkg
<1>3. CASE Start(p)
  <2>1. PICK opts \in Options, lock \in BOOLEAN :
            proc' = [proc EXCEPT ![p] = [Idle EXCEPT !.at = "check", !.opts = opts, !.lock = lock,
                                            !.dbtime = index[Database].mtime, !.since = changes]]
    BY <1>3 DEF Start
  <2> DEFINE x == [Idle EXCEPT !.at = "check", !.opts = opts, !.lock = lock,
                               !.dbtime = index[Database].mtime, !.since = changes]
  <2>2. /\ x.at = "check" /\ x.dbtime = index[Database].mtime /\ x.since = changes
        /\ ~x.newdeps /\ ~x.other /\ x.seen = 0
    BY DEF Idle
  <2>3. proc'[p] = x
    BY <1>1, <2>1
  <2> HIDE DEF x
  <2>4. x.at # "build" /\ x.since <= changes' /\ x.dbtime = index'[Database].mtime
    BY <1>1, <1>2, <2>2
  <2> QED BY <2>2, <2>3, <2>4, NotBuilding
<1>4. CASE CheckPkg(p)
  <2> DEFINE u == <<Do("unlink", "pkg"), Do("create", "pkg")>>
             x == [pr EXCEPT !.at = "serve", !.out = name["pkg"]]
             y == [pr EXCEPT !.at = "build", !.todo = u]
             z == [pr EXCEPT !.at = "source"]
  <2>1. /\ pr.at = "check"
        /\ \/ proc' = [proc EXCEPT ![p] = x]
           \/ p \in Roots /\ proc' = [proc EXCEPT ![p] = y]
           \/ proc' = [proc EXCEPT ![p] = z]
    BY <1>4 DEF CheckPkg, InFile
  <2>2. Head(u).do # "preload"
    BY DEF Do
  <2> HIDE DEF u
  <2>3. /\ x.at = "serve" /\ x.since = pr.since /\ x.dbtime = pr.dbtime /\ x.seen = pr.seen /\ x.other = pr.other
        /\ z.at = "source" /\ z.since = pr.since /\ z.dbtime = pr.dbtime /\ z.seen = pr.seen /\ z.other = pr.other
        /\ z.newdeps = pr.newdeps
        /\ y.at = "build" /\ y.since = pr.since /\ y.dbtime = pr.dbtime /\ y.seen = pr.seen /\ y.other = pr.other
        /\ y.newdeps = pr.newdeps /\ y.todo = u /\ y.map = pr.map
    BY <1>1 DEF ProcRec
  <2> HIDE DEF x, y, z
  <2>4. proc'[p] = x \/ (p \in Roots /\ proc'[p] = y) \/ proc'[p] = z
    BY <1>1, <2>1
  <2>5. /\ pr.since <= changes /\ (Still(index, changes, pr) => pr.dbtime = index[Database].mtime)
        /\ ~pr.newdeps /\ ~pr.other /\ pr.seen = 0
    BY <1>1, <2>1 DEF Builds
  <2>6. \A w : w.since = pr.since => (Still(index', changes', w) <=> Still(index, changes, pr))
    BY <1>2 DEF Still
  <2>7. CASE proc'[p] = x
    <3>1. Builds(index', changes', name', store', x, p)
      BY <1>2, <2>3, <2>5, <2>6, NotBuilding
    <3> QED BY <2>7, <3>1
  <2>8. CASE p \in Roots /\ proc'[p] = y
    <3>1. pr.map = 0
      BY <1>1, <2>1, <2>8, WriterState DEF Working
    <3>2. Builds(index', changes', name', store', y, p)
      BY <1>2, <2>2, <2>3, <2>5, <2>6, <2>8, <3>1, NotYetBuilding
    <3> QED BY <2>8, <3>2
  <2>9. CASE proc'[p] = z
    <3>1. Builds(index', changes', name', store', z, p)
      BY <1>2, <2>3, <2>5, <2>6, NotBuilding
    <3> QED BY <2>9, <3>1
  <2> QED BY <2>4, <2>7, <2>8, <2>9
<1> QED BY <1>3, <1>4

\* One that ends its build.
LEMMA BuilderLeaves ==
    ASSUME BInv, NEW p \in Procs, MarkClean(p) \/ Close(p) \/ Refused(p) \/ Stop(p)
    PROVE  Builds(index', changes', name', store', proc'[p], p)
<1> DEFINE pr == proc[p]
<1>1. /\ CacheTypes /\ FInv /\ Builds(index, changes, name, store, pr, p)
      /\ proc \in [Procs -> ProcRec] /\ pr \in ProcRec /\ changes \in Nat
  BY DEF BInv, FInv, Builders, CacheTypes
<1>2. CASE MarkClean(p)
  <2> DEFINE x == [pr EXCEPT !.at = "serve", !.out = pr.map, !.map = 0, !.todo = <<>>]
  <2>1. pr.at = "build" /\ proc' = [proc EXCEPT ![p] = x] /\ index' = index /\ changes' = changes
    BY <1>2 DEF MarkClean, Task
  <2>2. /\ x.at = "serve" /\ x.since = pr.since /\ x.dbtime = pr.dbtime /\ x.seen = pr.seen
        /\ x.other = pr.other
    BY <1>1 DEF ProcRec
  <2> HIDE DEF x
  <2>3. /\ pr.since <= changes /\ (Still(index, changes, pr) => pr.dbtime = index[Database].mtime)
        /\ pr.seen # 0 => ~pr.other
    BY <1>1, <2>1 DEF Builds
  <2>4. Still(index', changes', x) <=> Still(index, changes, pr)
    BY <2>1, <2>2 DEF Still
  <2>5. Builds(index', changes', name', store', x, p)
    <3>1. x.since <= changes' /\ (Still(index', changes', x) => x.dbtime = index'[Database].mtime)
      BY <2>1, <2>2, <2>3, <2>4
    <3>2. x.seen # 0 => ~x.other
      BY <1>1, <2>2 DEF Builds
    <3> QED BY <2>2, <3>1, <3>2, NotBuilding
  <2> QED BY <1>1, <2>1, <2>5
<1>3. CASE Close(p) \/ Refused(p) \/ Stop(p)
  <2>1. proc' = [proc EXCEPT ![p] = Idle]
    BY <1>3 DEF Close, Refused, Stop
  <2>2. proc'[p] = Idle
    BY <1>1, <2>1
  <2>3. Idle.at = "off" /\ Idle.seen = 0
    BY DEF Idle
  <2>4. Builds(index', changes', name', store', Idle, p)
    BY <2>3, NotBuilding
  <2> QED BY <2>2, <2>4
<1> QED BY <1>2, <1>3

\* The package cache is taken away and made anew.
LEMMA BuilderOpens ==
    ASSUME BInv, NEW p \in Procs, Goes(p), proc[p].map = 0
    PROVE  Builds(index', changes', name', store', proc'[p], p)
<1> DEFINE pr == proc[p]
<1>1. /\ CacheTypes /\ FInv /\ Builds(index, changes, name, store, pr, p)
      /\ proc \in [Procs -> ProcRec] /\ pr \in ProcRec /\ changes \in Nat /\ pr.at = "build"
  BY GoesTask DEF BInv, FInv, Builders, CacheTypes
<1>2. /\ p \in Roots /\ pr.since <= changes /\ (Still(index, changes, pr) => pr.dbtime = index[Database].mtime)
      /\ ~pr.newdeps /\ ~pr.other /\ pr.seen = 0
  BY <1>1 DEF Builds
<1>3. Unlink(p) \/ Create(p)
  <2> SUFFICES ASSUME ~Unlink(p), ~Create(p) PROVE FALSE
    OBVIOUS
  <2>1. \/ Task(p, "data") \/ Task(p, "flag") \/ Task(p, "header") \/ Task(p, "generator") \/ Task(p, "sync")
        \/ Task(p, "open") \/ Task(p, "merge") \/ Task(p, "sources") \/ Task(p, "status") \/ Task(p, "collect")
    BY DEF Goes, WriteData, ClearFlag, WriteHeader, Generator, SyncMap,
           OpenIndex, Merge, SourcesMerged, StatusMerged, Collect
  <2> QED BY <2>1, BuilderHasMap
<1>4. index' = index /\ changes' = changes
  BY <1>3 DEF Unlink, Create
<1>5. \A w : w.since = pr.since => (Still(index', changes', w) <=> Still(index, changes, pr))
  BY <1>4 DEF Still
<1>6. CASE Unlink(p)
  <2>1. Opening(name, pr)
    <3>1. Working(index, name, store, pr)
      BY <1>1, <1>2, WriterState
    <3> QED BY <1>1, <3>1 DEF Working, Building
  <2>2. Task(p, "unlink") /\ proc' = [proc EXCEPT ![p] = Done(p)]
    BY <1>6 DEF Unlink
  <2>3. Tail(pr.todo) = <<Do("create", "pkg")>>
    BY <2>1, <2>2, OpeningTasks DEF Task, Do
  <2> DEFINE x == Done(p)
             t == Tail(pr.todo)
  <2>4. Head(t).do # "preload"
    <3> DEFINE c == Do("create", "pkg")
    <3>1. t = <<c>> /\ c.do = "create"
      BY <2>3 DEF Do
    <3> HIDE DEF c, t
    <3>2. Head(t) = c
      BY <3>1
    <3> QED BY <3>1, <3>2
  <2>5. /\ x.at = "build" /\ x.since = pr.since /\ x.dbtime = pr.dbtime /\ x.seen = pr.seen /\ x.other = pr.other
        /\ x.newdeps = pr.newdeps /\ x.map = pr.map /\ x.todo = t
    BY <1>1 DEF ProcRec, Done
  <2>6. proc'[p] = x
    BY <1>1, <2>2
  <2> HIDE DEF x, t
  <2>7. Builds(index', changes', name', store', x, p)
    BY <1>2, <1>4, <1>5, <2>4, <2>5, NotYetBuilding
  <2> QED BY <2>6, <2>7
<1>7. CASE Create(p)
  <2> DEFINE i == Head(pr.todo).ix
             x == [pr EXCEPT !.map = NewStore, !.at = "source", !.todo = <<>>]
  <2>1. i \in Names /\ i # "src" /\ (i = "pkg" => proc' = [proc EXCEPT ![p] = x])
    BY <1>1, <1>7, CreatesNew
  <2>2. /\ x.at = "source" /\ x.since = pr.since /\ x.dbtime = pr.dbtime /\ x.seen = pr.seen /\ x.other = pr.other
        /\ x.newdeps = pr.newdeps
    BY <1>1 DEF ProcRec
  <2> HIDE DEF x
  <2>3. proc'[p] = x
    BY <1>1, <2>1 DEF Names
  <2>4. Builds(index', changes', name', store', x, p)
    BY <1>2, <1>4, <1>5, <2>2, NotBuilding
  <2> QED BY <2>3, <2>4
<1> QED BY <1>3, <1>6, <1>7

\* Building from nothing goes through every list.
LEMMA MergesAll == \A ix \in Listed : \E i \in DOMAIN MergeSources : MergeSources[i].ix = ix
<1> SUFFICES ASSUME NEW ix \in Listed PROVE \E i \in DOMAIN MergeSources : MergeSources[i].ix = ix
  OBVIOUS
<1> DEFINE n == Len(Sources)
<1>1. n \in Nat /\ DOMAIN Sources = 1..n
  BY ListAssumption
<1>2. PICK j \in 1..n : ix = Sources[j]
  BY <1>1 DEF Listed
<1> DEFINE i == 2 * j - 1
<1>3. i \in 1..2 * n /\ (i + 1) \div 2 = j
  BY <1>1
<1>4. MergeSources[i] = Do(IF i % 2 = 1 THEN "open" ELSE "merge", Sources[(i + 1) \div 2])
  BY <1>3 DEF MergeSources
<1>5. MergeSources[i].ix = ix
  BY <1>2, <1>3, <1>4 DEF Do
<1>6. DOMAIN MergeSources = 1..2 * n
  BY DEF MergeSources
<1> QED BY <1>3, <1>5, <1>6

\* The two lists of tasks as stages.
LEMMA ScratchIsLeft ==
    ASSUME NEW p
    PROVE  ScratchTasks(p) = MergeSources \o Left(p, "sources") /\ Left(p, "preload") = ReuseTasks
<1>1. p \in Roots => ScratchTasks(p) = MergeSources \o Left(p, "sources")
  BY ScratchIsRest, LeftChain
<1>2. ASSUME p \notin Roots PROVE ScratchTasks(p) = MergeSources \o Left(p, "sources")
  <2> DEFINE m == MergeSources
             s == <<Do("sources", 0)>>
             t == StatusTasks
             T == PlainTask
  <2>1. m \in Seq(T) /\ s \in Seq(T) /\ t \in Seq(T)
    BY MergesPaired, StatusPlain
  <2>2. ScratchTasks(p) = m \o s \o <<>> \o t
    BY <1>2 DEF ScratchTasks, InFile
  <2>3. Left(p, "sources") = s \o t
    BY <1>2 DEF Left, AfterSources, Rest
  <2> HIDE DEF m, s, t, T
  <2>4. m \o s \in Seq(T) /\ (m \o s) \o <<>> = m \o s
    BY <2>1, ConcatProperties, ConcatEmptySeq
  <2>5. (m \o s) \o t = m \o (s \o t)
    BY <2>1, ConcatAssociative
  <2> QED BY <2>2, <2>3, <2>4, <2>5 DEF m
<1>3. Left(p, "preload") = ReuseTasks
  BY DEF Left, Rest
<1> QED BY <1>1, <1>2, <1>3

\* What a build starts from.
LEMMA BeginsBuilt ==
    ASSUME NEW ind, NEW x, x.newdeps = FALSE, NEW p
    PROVE  /\ x.todo = ReuseTasks => On(ind, x, Empty, p, <<>>, "preload")
           /\ x.todo = ScratchTasks(p) => On(ind, x, Empty, p, MergeSources, "sources")
<1>1. /\ Empty \in StoreRec /\ ~Empty.torn /\ Empty.provs = {} /\ NoDb(Empty) /\ ~Needs(Empty)
      /\ Empty.files = <<>> /\ DOMAIN <<>> = {}
  BY EmptyOK DEF Empty
<1>2. Exact(ind, Empty) /\ Single(Empty) /\ Empty.provs \subseteq ProvidesDue(Empty.files)
  BY <1>1 DEF Exact, Single
<1>3. ASSUME x.todo = ReuseTasks PROVE On(ind, x, Empty, p, <<>>, "preload")
  <2>1. x.todo = <<>> \o Left(p, "preload") /\ <<>> \in Seq(TaskRec)
    BY <1>3, ScratchIsLeft, NoPre DEF Points
  <2>2. Built(ind, x, Empty, <<>>, "preload")
    BY <1>1, <1>2 DEF Built, Point
  <2> QED BY <2>1, <2>2 DEF On, Points
<1>4. ASSUME x.todo = ScratchTasks(p) PROVE On(ind, x, Empty, p, MergeSources, "sources")
  <2>1. x.todo = MergeSources \o Left(p, "sources") /\ MergeSources \in Seq(TaskRec)
    BY <1>4, ScratchIsLeft, MergesPaired, PlainIsTask
  <2>2. Opened(ind, x, Empty, MergeSources)
    BY MergesPaired, MergesAll DEF Opened, Reads
  <2>3. x.newdeps = Needs(Empty)
    BY <1>1 DEF Needs
  <2>4. Built(ind, x, Empty, MergeSources, "sources")
    BY <1>1, <1>2, <2>2, <2>3 DEF Built, Point
  <2> QED BY <2>1, <2>4 DEF On, Points
<1> QED BY <1>3, <1>4

\* The start of a build that has a map.
LEMMA BuilderBegins ==
    ASSUME NEW ind, NEW ch, NEW nm, NEW sto, NEW r, NEW x, x.at = "build", x.map # 0, x.since <= ch,
           Still(ind, ch, x) => x.dbtime = ind[Database].mtime, ~x.other,
           (r \in Roots /\ Head(x.todo).do = "preload") => x.seen = nm["src"],
           (x.seen # 0 /\ x.seen = nm["src"] /\ Quiet(ind, ch, x)) =>
              Valid(ind, sto[x.seen], x.opts, Indexes \ {Database}),
           Quiet(ind, ch, x) => \E pre, g : On(ind, x, sto[x.map], r, pre, g)
    PROVE  Builds(ind, ch, nm, sto, x, r)
BY DEF Builds

\* From the source cache that was checked, or from nothing.
LEMMA BuilderChecks ==
    ASSUME BInv, NEW p \in Procs, CheckSource(p)
    PROVE  Builds(index', changes', name', store', proc'[p], p)
<1> DEFINE pr == proc[p]
           list == Indexes \ {Database}
           reuse == CheckValidity("src", pr.opts, list)
           seen == IF reuse THEN name["src"] ELSE 0
           todo == IF reuse THEN ReuseTasks ELSE ScratchTasks(p)
           s == IF InFile(p) THEN pr.map ELSE NewStore
           x == [pr EXCEPT !.at = "build", !.map = s, !.seen = seen, !.todo = todo]
<1>1. /\ FInv /\ Builds(index, changes, name, store, pr, p) /\ proc \in [Procs -> ProcRec] /\ pr \in ProcRec
      /\ DOMAIN store = 1..NStores /\ NStores \in Nat /\ name \in [Names -> 0..NStores] /\ Names = {"pkg", "src"}
  BY ListAssumption DEF BInv, FInv, Builders, CacheTypes, Names
<1>2. /\ pr.at = "source" /\ (p \in Roots \/ Free # {}) /\ proc' = [proc EXCEPT ![p] = x]
      /\ index' = index /\ changes' = changes /\ name' = name
      /\ store' = IF p \in Roots THEN store ELSE [store EXCEPT ![NewStore] = Empty]
  BY DEF CheckSource, InFile
<1>3. /\ pr.since <= changes /\ (Still(index, changes, pr) => pr.dbtime = index[Database].mtime)
      /\ ~pr.newdeps /\ ~pr.other /\ pr.seen = 0
  BY <1>1, <1>2 DEF Builds
<1>4. s \in 1..NStores /\ store'[s] = Empty /\ \A i \in Used \cap (1..NStores) : store'[i] = store[i]
  <2>1. CASE p \in Roots
    <3>1. pr.map # 0 /\ store[pr.map] = Empty
      BY <1>1, <1>2, <2>1, WriterState DEF Working
    <3>2. pr.map \in 1..NStores
      BY <1>1, <3>1 DEF ProcRec
    <3> QED BY <1>2, <2>1, <3>1, <3>2 DEF InFile
  <2>2. CASE p \notin Roots
    <3>1. NewStore \in 1..NStores /\ NewStore \notin Used
      BY <1>2, <2>2, FreeStore
    <3> QED BY <1>1, <1>2, <2>2, <3>1 DEF InFile
  <2> QED BY <2>1, <2>2
<1>5. ASSUME reuse PROVE name["src"] # 0 /\ Valid(index, store'[name["src"]], pr.opts, list)
  <2> DEFINE n == name["src"]
  <2>1. n # 0 /\ Matches(store[n], pr.opts, list)
    BY <1>5 DEF CheckValidity
  <2>2. store[n] \in StoreRec
    BY <1>1, <2>1 DEF FInv, Named, SrcOK
  <2>3. n \in Used /\ n \in 1..NStores
    BY <1>1, <2>1 DEF Used
  <2>4. store'[n] = store[n]
    BY <1>4, <2>3
  <2> HIDE DEF n
  <2>5. list \in SUBSET Indexes
    OBVIOUS
  <2> HIDE DEF list
  <2>6. Valid(index, store[n], pr.opts, list)
    BY <2>1, <2>2, <2>5, ValidMatches
  <2> QED BY <2>1, <2>4, <2>6 DEF n
<1>6. seen # 0 => reuse
  OBVIOUS
<1>7. /\ reuse => seen = name["src"] /\ todo = ReuseTasks
      /\ ~reuse => seen = 0 /\ todo = ScratchTasks(p)
  OBVIOUS
<1> HIDE DEF reuse, seen, todo, s, list
<1>8. /\ x.at = "build" /\ x.map = s /\ x.seen = seen /\ x.todo = todo /\ x.since = pr.since
      /\ x.dbtime = pr.dbtime /\ x.other = pr.other /\ x.opts = pr.opts /\ x.newdeps = FALSE
  BY <1>1, <1>3 DEF ProcRec
<1> HIDE DEF x
<1>9. Still(index', changes', x) <=> Still(index, changes, pr)
  BY <1>2, <1>8 DEF Still
<1>10. /\ reuse => On(index', x, store'[x.map], p, <<>>, "preload")
       /\ ~reuse => On(index', x, store'[x.map], p, MergeSources, "sources")
  BY <1>4, <1>7, <1>8, BeginsBuilt
<1>11. ~reuse => Head(x.todo).do # "preload"
  <2> SUFFICES ASSUME ~reuse PROVE Head(x.todo).do # "preload"
    OBVIOUS
  <2> DEFINE m == MergeSources
             st == store'[x.map]
  <2>1. On(index', x, st, p, m, "sources")
    BY <1>10
  <2> HIDE DEF m, st
  <2>2. CASE m = <<>>
    <3>1. On(index', x, st, p, <<>>, "sources")
      BY <2>1, <2>2
    <3>2. Head(x.todo).do = "sources"
      BY <3>1, OnTask
    <3> QED BY <3>2
  <2>3. CASE m # <<>>
    <3>1. Head(x.todo) = m[1] /\ m[1].do \in {"open", "merge"}
      BY <2>1, <2>3, OnSingle
    <3> QED BY <3>1
  <2> QED BY <2>2, <2>3
<1>12. x.map # 0
  BY <1>1, <1>4, <1>8
<1>13. x.since <= changes' /\ ~x.other /\ (Still(index', changes', x) => x.dbtime = index'[Database].mtime)
  BY <1>2, <1>3, <1>8, <1>9
<1>14. (p \in Roots /\ Head(x.todo).do = "preload") => x.seen = name'["src"]
  BY <1>2, <1>7, <1>8, <1>11
<1>15. x.seen # 0 => Valid(index', store'[x.seen], x.opts, Indexes \ {Database})
  BY <1>2, <1>5, <1>6, <1>7, <1>8 DEF list
<1>16. \E pre, g : On(index', x, store'[x.map], p, pre, g)
  BY <1>10
<1>17. Builds(index', changes', name', store', x, p)
  BY <1>8, <1>12, <1>13, <1>14, <1>15, <1>16, BuilderBegins
<1>18. proc'[p] = x
  BY <1>1, <1>2
<1> QED BY <1>17, <1>18

\* The source cache is read.
LEMMA BuilderPreloads ==
    ASSUME BInv, NEW p \in Procs, Preload(p)
    PROVE  Builds(index', changes', name', store', proc'[p], p)
<1> DEFINE pr == proc[p]
           x == [[pr EXCEPT !.todo = Tail(pr.todo)] EXCEPT !.other = name["src"] # pr.seen, !.seen = 0]
<1>1. /\ Builds(index, changes, name, store, pr, p) /\ proc \in [Procs -> ProcRec] /\ pr \in ProcRec
      /\ Task(p, "preload") /\ proc' = [proc EXCEPT ![p] = x]
      /\ index' = index /\ changes' = changes /\ name' = name
  BY DEF Preload, Done, BInv, FInv, Builders, CacheTypes
<1>2. pr.map # 0 /\ pr.at = "build" /\ Head(pr.todo).do = "preload"
  BY <1>1, BuilderHasMap DEF Task
<1>3. /\ x.at = "build" /\ x.map = pr.map /\ x.since = pr.since /\ x.dbtime = pr.dbtime
      /\ x.other = (name["src"] # pr.seen) /\ x.seen = 0 /\ x.opts = pr.opts
  BY <1>1, <1>2 DEF ProcRec
<1>4. proc'[p] = x
  BY <1>1
<1> HIDE DEF x
<1>5. Still(index', changes', x) <=> Still(index, changes, pr)
  BY <1>1, <1>3 DEF Still
<1>6. (p \in Roots /\ Still(index', changes', x)) => ~x.other
  BY <1>1, <1>2, <1>3, <1>5 DEF Builds
<1>7. Quiet(index', changes', x) => Continues(p)
  BY <1>4, <1>5, BuildPreloads DEF Quiet
<1>8. Continues(p) => Head(x.todo).do # "preload"
  BY <1>4, PreloadFirst
<1>9. Quiet(index', changes', x) => \E pre, g : On(index', x, store'[x.map], p, pre, g)
  BY <1>1, <1>4, <1>7 DEF Continues
<1>10. x.since <= changes' /\ (Still(index', changes', x) => x.dbtime = index'[Database].mtime)
  BY <1>1, <1>2, <1>3, <1>5 DEF Builds
<1>11. (p \in Roots /\ Still(index', changes', x)) => ~x.other /\ Head(x.todo).do # "preload"
  BY <1>6, <1>7, <1>8 DEF Quiet
<1>12. Builds(index', changes', name', store', x, p)
  BY <1>2, <1>3, <1>9, <1>10, <1>11 DEF Builds
<1> QED BY <1>4, <1>12

\* A process that does a step.
LEMMA BuilderActs ==
    ASSUME BInv, OneWriter, NEW p \in Procs, Step(p) \/ Stop(p)
    PROVE  Builds(index', changes', name', store', proc'[p], p)
<1>1. CASE Goes(p)
  BY <1>1, BuilderGoes, BuilderOpens
<1>2. CASE Start(p) \/ CheckPkg(p)
  BY <1>2, BuilderStarts
<1>3. CASE MarkClean(p) \/ Close(p) \/ Refused(p) \/ Stop(p)
  BY <1>3, BuilderLeaves
<1>4. CASE CheckSource(p)
  BY <1>4, BuilderChecks
<1>5. CASE Preload(p)
  BY <1>5, BuilderPreloads
<1> QED BY <1>1, <1>2, <1>3, <1>4, <1>5 DEF Step, Goes

\* Every process after the step of one.
LEMMA BuildersStep ==
    ASSUME BInv, OneWriter, NEW p \in Procs, Step(p) \/ Stop(p)
    PROVE  Builders'
<1> SUFFICES ASSUME NEW q \in Procs PROVE Builds(index', changes', name', store', proc'[q], q)
  BY DEF Builders
<1>1. CASE q = p
  BY <1>1, BuilderActs
<1>2. CASE q # p
  BY <1>2, BuilderWaits
<1> QED BY <1>1, <1>2

-----------------------------------------------------------------------------
(* What a finished cache says of its build.                                 *)

\* A step of the writer that is not the last of a build leaves no cache finished that
\* it has written to.
LEMMA WriterMade ==
    ASSUME BInv, NEW p \in Roots, Step(p) \/ Stop(p), NEW s, s \in {name["pkg"], name["src"]}, s # 0, s \in Used'
    PROVE  store'[s] = store[s] \/ store'[s].made = <<>> \/ (MarkClean(p) /\ s = proc[p].map)
<1> DEFINE m == proc[p].map
           out == proc[p].out
           src == name["src"]
<1>1. /\ p \in Procs /\ FInv /\ DOMAIN store = 1..NStores /\ NStores \in Nat /\ s \in 1..NStores
      /\ store[s] \in StoreRec /\ s \in Used /\ name \in [Names -> 0..NStores]
  <2>1. FInv /\ p \in Procs /\ name \in [Names -> 0..NStores] /\ NStores \in Nat /\ DOMAIN store = 1..NStores
    BY WriterState DEF BInv
  <2>2. s \in 1..NStores /\ s \in Used
    BY <2>1 DEF Names, Used
  <2>3. store[s] \in StoreRec
    BY <2>1 DEF FInv, Named, PkgOK, SrcOK
  <2> QED BY <2>1, <2>2, <2>3
<1>2. m # 0 => /\ m = name["pkg"] /\ m # src /\ m \in 1..NStores
               /\ store[m] \in StoreRec /\ store[m].made = <<>>
  <2> SUFFICES ASSUME m # 0 PROVE /\ m = name["pkg"] /\ m # src /\ m \in 1..NStores
                                  /\ store[m] \in StoreRec /\ store[m].made = <<>>
    OBVIOUS
  <2>1. m = name["pkg"] /\ m # src /\ proc[p].at \in {"source", "build"}
    BY <1>1, WriterMap
  <2>2. m \in 1..NStores
    BY <1>1, <2>1 DEF Names
  <2>3. store[m] \in StoreRec
    BY <1>1, <2>1 DEF FInv, Named, PkgOK
  <2> QED BY <2>1, <2>2, <2>3 DEF BInv, Stamps
<1>3. src # 0 => store[src] \in StoreRec /\ store[src].made = <<>> /\ src \in 1..NStores
  BY <1>1 DEF BInv, FInv, Named, SrcOK, Stamps, Names
<1>4. CASE Start(p) \/ CheckPkg(p) \/ OpenIndex(p) \/ CheckSource(p)
  <2>1. store' = store
    BY <1>4 DEF Start, CheckPkg, OpenIndex, CheckSource, InFile
  <2> QED BY <2>1
<1>5. CASE Unlink(p) \/ Close(p) \/ Stop(p) \/ Refused(p)
  <2>1. Released
    BY <1>5 DEF Unlink, Close, Stop, Refused
  <2> QED BY <1>1, <2>1 DEF Released
<1>6. CASE Create(p)
  <2>1. store' = [store EXCEPT ![NewStore] = Empty] /\ NewStore \notin Used
    BY <1>1, <1>6, CreatesNew
  <2> QED BY <1>1, <2>1
<1> DEFINE Plain(st) == \A w : [st EXCEPT !.safe = FALSE, !.torn = w].made = <<>>
<1>7. ASSUME NEW st, Plain(st), WriteMap(p, st)
      PROVE  store'[s] = store[s] \/ store'[s].made = <<>>
  <2> DEFINE new == [st EXCEPT !.safe = FALSE, !.torn = @ \/ Shared(m)]
  <2>1. new.made = <<>>
    BY <1>7
  <2>2. store' = [store EXCEPT ![m] = new]
    BY <1>7 DEF WriteMap
  <2> HIDE DEF new, m
  <2>3. store'[s] = store[s] \/ store'[s] = new
    BY <1>1, <2>2
  <2> QED BY <2>1, <2>3
<1>8. ASSUME NEW st \in StoreRec, st.made = <<>>
      PROVE  /\ \A a : Plain([st EXCEPT !.kept = a]) /\ Plain([st EXCEPT !.files = a])
             /\ \A a : Plain([st EXCEPT !.fdeps = a]) /\ Plain([st EXCEPT !.provs = a])
             /\ \A a : Plain([st EXCEPT !.dirty = a])
             /\ \A a, b : Plain([st EXCEPT !.opts = a, !.fdeps = b])
  BY <1>8 DEF StoreRec
<1> HIDE DEF Plain
<1>9. CASE Preload(p)
  <2>1. src # 0 /\ WriteMap(p, [store[src] EXCEPT !.kept = TRUE])
    BY <1>9 DEF Preload
  <2>2. Plain([store[src] EXCEPT !.kept = TRUE])
    BY <1>3, <1>8, <2>1
  <2> QED BY <1>7, <2>1, <2>2
<1> DEFINE Works == Merge(p) \/ SourcesMerged(p) \/ StatusMerged(p) \/ Collect(p) \/ ClearFlag(p)
<1>10. WriteData(p) \/ WriteHeader(p) \/ Generator(p) \/ SyncMap(p) \/ Preload(p) \/ Works => m # 0
  <2> SUFFICES ASSUME WriteData(p) \/ WriteHeader(p) \/ Generator(p) \/ SyncMap(p) \/ Preload(p) \/ Works
               PROVE  m # 0
    OBVIOUS
  <2>1. \/ Task(p, "data") \/ Task(p, "header") \/ Task(p, "generator") \/ Task(p, "sync") \/ Task(p, "preload")
        \/ Task(p, "merge") \/ Task(p, "sources") \/ Task(p, "status") \/ Task(p, "collect") \/ Task(p, "flag")
    BY DEF WriteData, WriteHeader, Generator, SyncMap, Preload, Merge, SourcesMerged, StatusMerged, Collect, ClearFlag
  <2> QED BY <1>1, <2>1, BuilderHasMap
<1>11. CASE Works
  <2> DEFINE st == store[m]
  <2>1. st \in StoreRec /\ st.made = <<>>
    BY <1>2, <1>10, <1>11
  <2>2. \/ \E a : WriteMap(p, [st EXCEPT !.files = a]) \/ WriteMap(p, [st EXCEPT !.fdeps = a])
        \/ \E a : WriteMap(p, [st EXCEPT !.provs = a]) \/ WriteMap(p, [st EXCEPT !.dirty = a])
        \/ \E a, b : WriteMap(p, [st EXCEPT !.opts = a, !.fdeps = b])
    <3>1. Merge(p) => \E a : WriteMap(p, [st EXCEPT !.files = a])
      BY DEF Merge
    <3>2. SourcesMerged(p) => \E a, b : WriteMap(p, [st EXCEPT !.opts = a, !.fdeps = b])
      BY DEF SourcesMerged
    <3>3. StatusMerged(p) => \E a : WriteMap(p, [st EXCEPT !.fdeps = a])
      BY DEF StatusMerged
    <3>4. Collect(p) => \E a : WriteMap(p, [st EXCEPT !.provs = a])
      BY DEF Collect
    <3>5. ClearFlag(p) => \E a : WriteMap(p, [st EXCEPT !.dirty = a])
      BY DEF ClearFlag
    <3> QED BY <1>11, <3>1, <3>2, <3>3, <3>4, <3>5
  <2> HIDE DEF st, m
  <2> QED BY <1>7, <1>8, <2>1, <2>2
<1>12. CASE WriteData(p)
  <2>1. m # 0 /\ out # m
    <3>1. Task(p, "data")
      BY <1>12 DEF WriteData
    <3> QED BY <1>1, <1>10, <1>12, <3>1, FileState
  <2> DEFINE torn == store[m].torn \/ Cardinality({q \in Procs : proc[q].out = out}) > 1
             new == [store[m] EXCEPT !.safe = TRUE, !.kept = TRUE, !.torn = torn]
  <2>2. store' = [store EXCEPT ![out] = new]
    BY <1>12 DEF WriteData
  <2> HIDE DEF torn
  <2>3. new.made = <<>>
    BY <1>2, <2>1 DEF StoreRec
  <2> HIDE DEF new
  <2> QED BY <1>1, <2>2, <2>3
<1>13. CASE WriteHeader(p)
  <2>1. m # 0 /\ out # m /\ out = src /\ src # 0
    <3>1. Task(p, "header")
      BY <1>13 DEF WriteHeader
    <3> QED BY <1>1, <1>10, <1>13, <3>1, FileState
  <2>2. store' = [store EXCEPT ![out].dirty = FALSE, ![out].kept = FALSE, ![m].dirty = TRUE]
    BY <1>13 DEF WriteHeader
  <2>3. store[m].made = <<>> /\ store[m] \in StoreRec /\ store[out].made = <<>> /\ store[out] \in StoreRec
        /\ m \in 1..NStores /\ out \in 1..NStores
    BY <1>2, <1>3, <2>1
  <2> DEFINE a == [store[m] EXCEPT !.dirty = TRUE]
             b == [store[out] EXCEPT !.dirty = FALSE, !.kept = FALSE]
  <2>4. a.made = <<>> /\ b.made = <<>>
    BY <2>3 DEF StoreRec
  <2>5. store'[m] = a /\ store'[out] = b /\ (s # m /\ s # out => store'[s] = store[s])
    BY <1>1, <2>1, <2>2, <2>3
  <2> QED BY <2>4, <2>5
<1>14. CASE Generator(p) \/ SyncMap(p)
  <2> DEFINE a == [store[m] EXCEPT !.dirty = TRUE, !.kept = TRUE]
             b == [store[m] EXCEPT !.safe = TRUE]
  <2>1. store' = [store EXCEPT ![m] = a] \/ store' = [store EXCEPT ![m] = b]
    BY <1>1, <1>2, <1>10, <1>14 DEF Generator, SyncMap
  <2>2. a.made = <<>> /\ b.made = <<>>
    BY <1>2, <1>10, <1>14 DEF StoreRec
  <2> HIDE DEF a, b
  <2> QED BY <1>1, <2>1, <2>2
<1>15. CASE MarkClean(p)
  <2>1. \E new : store' = [store EXCEPT ![m] = new]
    <3>1. store' = [store EXCEPT ![m].dirty = FALSE, ![m].kept = FALSE,
                                 ![m].made = IF proc[p].since = changes THEN <<changes, proc[p].opts>> ELSE <<>>]
      BY <1>15 DEF MarkClean
    <3> DEFINE v == IF proc[p].since = changes THEN <<changes, proc[p].opts>> ELSE <<>>
    <3>2. store' = [store EXCEPT ![m].dirty = FALSE, ![m].kept = FALSE, ![m].made = v]
      BY <3>1
    <3> HIDE DEF v
    <3>3. store' = [store EXCEPT ![m] = store'[m]]
      BY <1>1, <3>2
    <3> QED BY <3>3
  <2> QED BY <1>1, <1>15, <2>1
<1> QED BY <1>4, <1>5, <1>6, <1>9, <1>11, <1>12, <1>13, <1>14, <1>15 DEF Step

\* The last step of a build: the cache is valid now if no index has changed.
LEMMA CleanStamped ==
    ASSUME BInv, NEW p \in Roots, MarkClean(p)
    PROVE  Stamped(index', changes', store'[proc[p].map])
<1> DEFINE pr == proc[p]
           m == pr.map
           st == store[m]
           made == IF pr.since = changes THEN <<changes, pr.opts>> ELSE <<>>
           st2 == [st EXCEPT !.dirty = FALSE, !.kept = FALSE, !.made = made]
<1>1. /\ p \in Procs /\ FInv /\ DOMAIN store = 1..NStores /\ NStores \in Nat /\ changes \in Nat
      /\ name \in [Names -> 0..NStores] /\ Builds(index, changes, name, store, pr, p)
  BY WriterState DEF BInv, Builders
<1>2. Task(p, "clean") /\ index' = index /\ changes' = changes
  BY DEF MarkClean
<1>3. m # 0 /\ pr.at = "build"
  BY <1>1, <1>2, BuilderHasMap DEF Task
<1>4. m = name["pkg"]
  BY <1>1, <1>3, WriterMap
<1>5. m \in 1..NStores /\ st \in StoreRec
  BY <1>1, <1>3, <1>4 DEF Names, FInv, Named, PkgOK
<1>6. store'[m] = st2
  <2>1. store' = [store EXCEPT ![m].dirty = FALSE, ![m].kept = FALSE, ![m].made = made]
    BY DEF MarkClean
  <2> HIDE DEF made
  <2> QED BY <1>1, <1>5, <2>1
<1>7. st2.made = made /\ ~st2.dirty /\ st2.opts = st.opts /\ st2.files = st.files
  BY <1>5 DEF StoreRec
<1> HIDE DEF st2
<1>8. ASSUME made # <<>>, ~index[Database].back
      PROVE  Valid(index, st2, pr.opts, Indexes)
  <2>1. Still(index, changes, pr)
    BY <1>8 DEF Still
  <2>2. Quiet(index, changes, pr)
    BY <1>1, <1>3, <2>1 DEF Builds, Quiet
  <2>3. On(index, pr, st, p, <<>>, "clean")
    BY <1>1, <1>2, <1>3, <2>2, BuilderState
  <2>4. Exact(index, st) /\ Single(st) /\ HasAll(index, st, Indexes) /\ st.opts = pr.opts
    BY <2>3 DEF On, Built, Point, Filled
  <2>5. ASSUME NEW k \in DOMAIN st2.files PROVE st2.files[k].ix \in Indexes /\ Dating(index, st2.files[k])
    <3>1. st.files[k] \in FileRec
      BY <1>5, <1>7 DEF StoreRec
    <3> QED BY <1>7, <2>4, <3>1 DEF Exact, FileRec
  <2>6. Single(st2) /\ HasAll(index, st2, Indexes)
    BY <1>7, <2>4 DEF Single, HasAll, HasIndex
  <2> QED BY <1>7, <2>4, <2>5, <2>6 DEF Valid
<1>9. made # <<>> => made[1] = changes /\ made[2] = pr.opts
  OBVIOUS
<1> HIDE DEF made
<1>10. Stamped(index, changes, st2)
  BY <1>1, <1>7, <1>8, <1>9 DEF Stamped
<1> QED BY <1>2, <1>6, <1>10 DEF m

\* No step makes a finished cache say what is not so.
LEMMA StampsStep ==
    ASSUME BInv, OneWriter, NEW p \in Procs, Step(p) \/ Stop(p)
    PROVE  Stamps'
<1>1. /\ FInv /\ Stamps /\ CacheTypes /\ Clock /\ name \in [Names -> 0..NStores] /\ NStores \in Nat
      /\ Names = {"pkg", "src"}
  BY ListAssumption DEF BInv, FInv, CacheTypes, Names
<1>2. Empty.made = <<>>
  BY DEF Empty
\* A file that keeps its name.
<1>3. ASSUME NEW s, s \in {name["pkg"], name["src"]}, s # 0, s \in Used'
      PROVE  store'[s] = store[s] \/ store'[s].made = <<>> \/ (p \in Roots /\ MarkClean(p) /\ s = proc[p].map)
  <2>1. CASE p \in Roots
    BY <1>3, <2>1, WriterMade
  <2>2. CASE p \notin Roots
    <3>1. \A n \in Names : name[n] # 0 => store'[name[n]] = store[name[n]]
      BY <1>1, <2>2, StrangerStep
    <3> QED BY <1>1, <1>3, <3>1
  <2> QED BY <2>1, <2>2
<1>4. \A n \in Names : name'[n] \in Used'
  BY DEF Used
<1>5. p \in Roots /\ proc[p].map # 0 => proc[p].map # name["src"]
  BY <1>1, WriterMap
<1>6. name'["src"] # 0 => store'[name'["src"]].made = <<>>
  <2> SUFFICES ASSUME name'["src"] # 0 PROVE store'[name'["src"]].made = <<>>
    OBVIOUS
  <2>1. name'["src"] = name["src"] \/ store'[name'["src"]] = Empty
    BY <1>1, StepNames
  <2>2. CASE name'["src"] = name["src"]
    <3> DEFINE s == name["src"]
    <3>1. s # 0 /\ s \in Used' /\ store[s].made = <<>>
      BY <1>1, <1>4, <2>2 DEF Stamps
    <3>2. ~(p \in Roots /\ s = proc[p].map)
      BY <1>5, <3>1
    <3> QED BY <1>3, <2>2, <3>1, <3>2
  <2> QED BY <1>2, <2>1, <2>2
<1>7. name'["pkg"] # 0 => Stamped(index', changes', store'[name'["pkg"]])
  <2> SUFFICES ASSUME name'["pkg"] # 0 PROVE Stamped(index', changes', store'[name'["pkg"]])
    OBVIOUS
  <2>0. \A st : st.made = <<>> => Stamped(index', changes', st)
    BY DEF Stamped
  <2>1. name'["pkg"] = name["pkg"] \/ store'[name'["pkg"]] = Empty
    BY <1>1, StepNames
  <2>2. CASE name'["pkg"] = name["pkg"]
    <3> DEFINE s == name["pkg"]
    <3>1. s # 0 /\ s \in Used' /\ Stamped(index, changes, store[s])
      BY <1>1, <1>4, <2>2 DEF Stamps
    <3>2. changes' = changes /\ (index' = index \/ index'[Database].back)
      BY <1>1, StillStep
    <3>3. Stamped(index', changes', store[s])
      BY <3>1, <3>2 DEF Stamped
    <3>4. p \in Roots /\ MarkClean(p) => Stamped(index', changes', store'[proc[p].map])
      BY CleanStamped
    <3>5. CASE store'[s] = store[s]
      BY <2>2, <3>3, <3>5
    <3>6. CASE store'[s].made = <<>>
      BY <2>0, <2>2, <3>6
    <3>7. CASE p \in Roots /\ MarkClean(p) /\ s = proc[p].map
      BY <2>2, <3>4, <3>7
    <3> QED BY <1>3, <3>1, <3>5, <3>6, <3>7
  <2> QED BY <1>2, <2>0, <2>1, <2>2
<1>8. ASSUME NEW r \in Roots, proc'[r].at \in {"source", "build"}, proc'[r].map # 0
      PROVE  store'[proc'[r].map].made = <<>>
  <2>0. r \in Procs
    BY RootAssumption
  <2>1. CASE r # p
    <3>1. proc'[r] = proc[r]
      BY <1>1, <2>0, <2>1, OthersStay
    <3>2. store'[proc[r].map] = store[proc[r].map]
      BY <1>8, <2>0, <2>1, <3>1, MapKept
    <3> QED BY <1>1, <1>8, <3>1, <3>2 DEF Stamps
  <2>2. CASE r = p
    <3>1. proc'[p].map = proc[p].map \/ store'[proc'[p].map] = Empty
      BY <1>1, <1>8, <2>2, StepMap
    <3>2. CASE proc'[p].map = proc[p].map
      <4> DEFINE m == proc[p].map
      <4>1. m # 0 /\ m = name["pkg"] /\ proc[p].at \in {"source", "build"}
        BY <1>1, <1>8, <2>2, <3>2, WriterMap
      <4>2. store[m].made = <<>>
        BY <1>1, <2>2, <4>1 DEF Stamps
      <4>3. m \in Used'
        BY <3>2 DEF Used
      <4>4. ~MarkClean(p)
        <5>1. MarkClean(p) => proc'[p].map = 0
          BY <1>1 DEF MarkClean, CacheTypes, ProcRec
        <5> QED BY <1>8, <2>2, <5>1
      <4> QED BY <1>3, <2>2, <3>2, <4>1, <4>2, <4>3, <4>4
    <3> QED BY <1>2, <2>2, <3>1, <3>2
  <2> QED BY <2>1, <2>2
<1> QED BY <1>6, <1>7, <1>8 DEF Stamps

\* An index changes: what was built before is not of now.
LEMMA ChangeKeeps ==
    ASSUME BInv, NEW ix \in Indexes, Change(ix)
    PROVE  Alone' /\ Stamps' /\ Builders'
<1>1. /\ store' = store /\ name' = name /\ proc' = proc /\ changes' = changes + 1 /\ changes \in Nat
      /\ proc \in [Procs -> ProcRec] /\ FInv /\ Alone /\ Stamps /\ Builders
  BY DEF Change, BInv, FInv, CacheTypes
<1>2. Alone'
  BY <1>1 DEF Alone
<1>3. ASSUME NEW st \in StoreRec, Stamped(index, changes, st) PROVE Stamped(index', changes', st)
  <2> SUFFICES ASSUME st.made # <<>> PROVE st.made[1] <= changes' /\ st.made[1] # changes'
    BY DEF Stamped
  <2>1. st.made \in Nat \X Hashes
    BY DEF StoreRec
  <2>2. st.made[1] \in Nat /\ st.made[1] <= changes
    BY <1>3, <2>1 DEF Stamped
  <2> QED BY <1>1, <2>2
<1>4. Stamps'
  <2>1. name["pkg"] # 0 => store[name["pkg"]] \in StoreRec
    BY <1>1 DEF FInv, Named, PkgOK
  <2> QED BY <1>1, <1>3, <2>1 DEF Stamps
<1>5. ASSUME NEW q \in Procs PROVE Builds(index', changes', name', store', proc'[q], q)
  <2> DEFINE pr == proc[q]
  <2>1. proc'[q] = pr /\ pr.since \in Nat /\ Builds(index, changes, name, store, pr, q)
    BY <1>1 DEF Builders, ProcRec
  <2> HIDE DEF pr
  <2>2. pr.at # "off" => pr.since <= changes' /\ pr.since # changes'
    BY <1>1, <2>1 DEF Builds
  <2>3. pr.at # "off" => ~Still(index', changes', pr) /\ ~Quiet(index', changes', pr)
    BY <2>2 DEF Still, Quiet
  <2>4. Builds(index', changes', name', store', pr, q)
    BY <2>1, <2>2, <2>3 DEF Builds
  <2> QED BY <2>1, <2>4
<1> QED BY <1>2, <1>4, <1>5 DEF Builders

\* A process that has left.
LEMMA IdleBuilds ==
    ASSUME NEW ind, NEW ch, NEW nm, NEW sto, NEW r PROVE Builds(ind, ch, nm, sto, Idle, r)
<1>1. Idle.at = "off" /\ Idle.seen = 0
  BY DEF Idle
<1> QED BY <1>1, NotBuilding

\* Power fails: a cache that was valid is clean, so it stays as it is.
LEMMA PowerKeeps ==
    ASSUME BInv, PowerFailure
    PROVE  Alone' /\ Stamps' /\ Builders'
<1>1. /\ index' = index /\ changes' = changes /\ name' = name /\ FInv /\ Stamps /\ Clock
      /\ name \in [Names -> 0..NStores] /\ Names = {"pkg", "src"} /\ NStores \in Nat /\ DOMAIN store = 1..NStores
      /\ \A p \in Procs : proc'[p] = Idle
  BY ListAssumption DEF BInv, FInv, CacheTypes, PowerFailure, Names
<1>2. \A p \in Procs : proc'[p].map = 0
  BY <1>1 DEF Idle
<1>3. Alone' /\ Builders'
  BY <1>1, <1>2, IdleBuilds DEF Alone, Builders
<1> DEFINE named == {name[n] : n \in Names} \ {0}
<1>4. PICK lost \in SUBSET {s \in named : ~store[s].safe /\ ~store[s].torn},
           old \in SUBSET {s \in named : store[s].dirty # store[s].kept} :
             store' = [s \in 1..NStores |->
                 IF s \notin named THEN Empty
                 ELSE [store[s] EXCEPT !.dirty = IF s \in old THEN store[s].kept ELSE @,
                                       !.torn = @ \/ s \in lost]]
  BY DEF PowerFailure
<1>5. ASSUME NEW n \in Names, name[n] # 0, store[name[n]] \in StoreRec
      PROVE  LET st == store[name[n]]
                 st2 == store'[name[n]]
             IN /\ st2.made = st.made /\ st2.opts = st.opts /\ st2.files = st.files
                /\ ~st.dirty /\ ~st.kept => ~st2.dirty
  <2> DEFINE s == name[n]
             st == store[s]
             dirty == IF s \in old THEN st.kept ELSE st.dirty
             torn == st.torn \/ s \in lost
             st2 == [st EXCEPT !.dirty = dirty, !.torn = torn]
  <2>1. s \in 1..NStores /\ s \in named
    BY <1>1, <1>5
  <2>2. ~st.dirty /\ ~st.kept => ~dirty
    OBVIOUS
  <2>3. store'[s] = [store[s] EXCEPT !.dirty = IF s \in old THEN store[s].kept ELSE @, !.torn = @ \/ s \in lost]
    <3> HIDE DEF s, named
    <3> QED BY <1>4, <2>1
  <2>4. store'[s] = st2
    BY <2>3
  <2> HIDE DEF dirty, torn
  <2>5. st2.made = st.made /\ st2.opts = st.opts /\ st2.files = st.files /\ st2.dirty = dirty
    BY <1>5 DEF StoreRec
  <2> QED BY <2>2, <2>4, <2>5
<1>6. name["src"] # 0 => store'[name["src"]].made = <<>>
  <2> SUFFICES ASSUME name["src"] # 0 PROVE store'[name["src"]].made = <<>>
    OBVIOUS
  <2>1. store[name["src"]] \in StoreRec /\ store[name["src"]].made = <<>>
    BY <1>1 DEF FInv, Named, SrcOK, Stamps
  <2> QED BY <1>1, <1>5, <2>1
<1>7. name["pkg"] # 0 => Stamped(index, changes, store'[name["pkg"]])
  <2> SUFFICES ASSUME name["pkg"] # 0 PROVE Stamped(index, changes, store'[name["pkg"]])
    OBVIOUS
  <2> DEFINE st == store[name["pkg"]]
             st2 == store'[name["pkg"]]
  <2>1. st \in StoreRec /\ Stamped(index, changes, st) /\ PkgOK(index, changes, st)
    BY <1>1 DEF FInv, Named, PkgOK, Stamps
  <2>2. /\ st2.made = st.made /\ st2.opts = st.opts /\ st2.files = st.files
        /\ ~st.dirty /\ ~st.kept => ~st2.dirty
    BY <1>1, <1>5, <2>1
  <2> HIDE DEF st, st2
  <2>3. ASSUME NEW opts, Valid(index, st, opts, Indexes) PROVE Valid(index, st2, opts, Indexes)
    <3>1. Database \in Indexes /\ index[Database].mtime # 0
      BY <1>1 DEF Indexes, Clock
    <3>2. HasIndex(st, Database)
      BY <2>3, <3>1 DEF Valid, HasAll
    <3>3. ~NoDb(st)
      BY <3>2 DEF NoDb, HasIndex
    <3>4. ~st.dirty /\ ~st.kept
      BY <2>1, <2>3, <3>3 DEF Valid, PkgOK, Unfinished, Clean
    <3>5. Single(st2) /\ HasAll(index, st2, Indexes)
      BY <2>2, <2>3 DEF Valid, Single, HasAll, HasIndex
    <3> QED BY <2>2, <2>3, <3>4, <3>5 DEF Valid
  <2>4. Stamped(index, changes, st2)
    BY <2>1, <2>2, <2>3 DEF Stamped
  <2> QED BY <2>4 DEF st2
<1>8. Stamps'
  BY <1>1, <1>2, <1>6, <1>7, RootAssumption DEF Stamps
<1> QED BY <1>3, <1>8

-----------------------------------------------------------------------------
(* The second invariant and its theorems.                                   *)

\* Nothing is built yet.
LEMMA BInit == Init => BInv
<1> SUFFICES ASSUME Init PROVE BInv
  OBVIOUS
<1>1. name["pkg"] = 0 /\ name["src"] = 0 /\ \A p \in Procs : proc[p] = Idle
  BY DEF Init, Names
<1>2. \A p \in Procs : proc[p].map = 0
  BY <1>1 DEF Idle
<1>3. Alone /\ Stamps /\ Builders
  BY <1>1, <1>2, IdleBuilds, RootAssumption DEF Alone, Stamps, Builders
<1> QED BY <1>3, FInit DEF BInv

\* Every step keeps it.
LEMMA BNext == ASSUME BInv, OneWriter, [Next]_vars PROVE BInv'
<1>1. FInv'
  BY FNext DEF BInv
<1>2. CASE UNCHANGED vars
  <2>1. /\ index' = index /\ changes' = changes /\ name' = name /\ store' = store /\ proc' = proc
        /\ Alone /\ Stamps /\ Builders
    BY <1>2 DEF vars, BInv
  <2>2. Alone' /\ Stamps' /\ Builders'
    BY <2>1 DEF Alone, Stamps, Builders
  <2> QED BY <1>1, <2>2 DEF BInv
<1>3. ASSUME NEW p \in Procs, Step(p) \/ Stop(p) PROVE BInv'
  BY <1>1, <1>3, AloneKept, StampsStep, BuildersStep DEF BInv
<1>4. ASSUME NEW ix \in Indexes, Change(ix) PROVE BInv'
  BY <1>1, <1>4, ChangeKeeps DEF BInv
<1>5. CASE PowerFailure
  BY <1>1, <1>5, PowerKeeps DEF BInv
<1> QED BY <1>2, <1>3, <1>4, <1>5 DEF Next

\* While the indexes stay as they are a build, wherever it is, has what it has gone
\* through and nothing else; and a finished cache is accepted until an index changes.
THEOREM BuildsInvariance == ASSUME OneWriter PROVE Spec => []BInv
<1>1. Init => BInv
  BY BInit
<1>2. BInv /\ [Next]_vars => BInv'
  BY BNext
<1> QED BY <1>1, <1>2, PTL DEF Spec

\* Whose step it was.
LEMMA StepOf ==
    ASSUME CacheTypes, Next, NEW p \in Procs, proc'[p].at # proc[p].at, proc'[p].at # "off"
    PROVE  Step(p) \/ Stop(p)
<1>1. PowerFailure => proc'[p].at = "off"
  <2>1. PowerFailure => proc' = [q \in Procs |-> Idle]
    BY DEF PowerFailure
  <2> QED BY <2>1 DEF Idle
<1>2. (\E ix \in Indexes : Change(ix)) => proc' = proc
  BY DEF Change
<1>3. ASSUME NEW q \in Procs, Step(q) \/ Stop(q) PROVE q = p
  BY <1>3, OthersStay
<1> QED BY <1>1, <1>2, <1>3 DEF Next

\* A build is finished by its last task.
LEMMA FinishesClean ==
    ASSUME CacheTypes, Next, NEW p \in Procs, Finishes(p) PROVE MarkClean(p)
<1>1. Step(p) \/ Stop(p)
  BY StepOf DEF Finishes
<1>2. proc \in [Procs -> ProcRec] /\ proc[p] \in ProcRec /\ proc[p].at = "build" /\ proc'[p].at = "serve"
  BY DEF CacheTypes, Finishes
<1> DEFINE pr == proc[p]
<1> DEFINE Unserved(x) == x.at # "serve"
           Made(x) == proc' = [proc EXCEPT ![p] = x]
<1>3. \A x : Unserved(x) => ~Made(x)
  BY <1>2
<1>4. /\ Unserved(Done(p)) /\ Unserved(Idle) /\ \A s : Unserved([Done(p) EXCEPT !.out = s])
      /\ \A t : Unserved([Done(p) EXCEPT !.todo = t]) /\ Unserved([Done(p) EXCEPT !.open = t])
      /\ \A n, o : Unserved([Done(p) EXCEPT !.newdeps = n, !.open = o])
      /\ \A n, o : Unserved([Done(p) EXCEPT !.other = n, !.seen = o])
      /\ \A n, t : Unserved([pr EXCEPT !.newdeps = n, !.todo = t]) /\ Unserved([pr EXCEPT !.todo = t])
      /\ \A m : Unserved([pr EXCEPT !.map = m, !.at = "source", !.todo = <<>>])
  BY <1>2 DEF Done, ProcRec, Idle
<1> HIDE DEF Unserved
<1>5. ~Start(p) /\ ~CheckPkg(p) /\ ~CheckSource(p) /\ ~Close(p)
  BY <1>2 DEF Start, CheckPkg, CheckSource, Close
<1>6. ~Stop(p) /\ ~Refused(p)
  BY <1>3, <1>4 DEF Stop, Refused
<1>7. ~Unlink(p) /\ ~WriteData(p) /\ ~ClearFlag(p) /\ ~Generator(p) /\ ~SyncMap(p) /\ ~Collect(p)
  BY <1>3, <1>4 DEF Unlink, WriteData, ClearFlag, Generator, SyncMap, Collect
<1>8. ~Create(p)
  <2>1. Create(p) => \/ \E m : Made([pr EXCEPT !.map = m, !.at = "source", !.todo = <<>>])
                     \/ \E s : Made([Done(p) EXCEPT !.out = s])
    BY DEF Create
  <2> HIDE DEF Made
  <2> QED BY <1>3, <1>4, <2>1
<1>9. ~OpenIndex(p)
  <2>1. OpenIndex(p) => \/ \E t : Made([Done(p) EXCEPT !.todo = t])
                        \/ \E t : Made([Done(p) EXCEPT !.open = t])
    BY DEF OpenIndex
  <2> HIDE DEF Made
  <2> QED BY <1>3, <1>4, <2>1
<1>10. ~Preload(p) /\ ~WriteHeader(p)
  <2>1. Preload(p) => \E n, o : Made([Done(p) EXCEPT !.other = n, !.seen = o])
    BY DEF Preload
  <2>2. WriteHeader(p) => \E s : Made([Done(p) EXCEPT !.out = s])
    BY DEF WriteHeader
  <2> HIDE DEF Made
  <2> QED BY <1>3, <1>4, <2>1, <2>2
<1>11. ~Merge(p)
  <2>1. Merge(p) => \E n, o : Made([Done(p) EXCEPT !.newdeps = n, !.open = o])
    BY DEF Merge
  <2> HIDE DEF Made
  <2> QED BY <1>3, <1>4, <2>1
<1>12. ~SourcesMerged(p) /\ ~StatusMerged(p)
  <2>1. SourcesMerged(p) => \E n, t : Made([pr EXCEPT !.newdeps = n, !.todo = t])
    BY DEF SourcesMerged
  <2>2. StatusMerged(p) => \E t : Made([pr EXCEPT !.todo = t])
    BY DEF StatusMerged
  <2> HIDE DEF Made
  <2> QED BY <1>3, <1>4, <2>1, <2>2
<1> QED BY <1>1, <1>5, <1>6, <1>7, <1>8, <1>9, <1>10, <1>11, <1>12 DEF Step

\* What is whole, of the indexes as they are, is current.
LEMMA WholeCurrent ==
    ASSUME CacheTypes, Clock, NEW st \in StoreRec, ~st.torn, st.provs \subseteq ProvidesDue(st.files),
           Exact(index, st), Whole(index, st), HasAll(index, st, Indexes), ~Misdated(st)
    PROVE  IsCurrent(st)
<1>1. \A k \in DOMAIN st.files : st.files[k] \in FileRec /\ st.files[k].ix \in Indexes
  <2>1. \A k \in DOMAIN st.files : st.files[k] \in FileRec
    BY DEF StoreRec
  <2> QED BY <2>1 DEF FileRec
<1>2. /\ \A k \in DOMAIN st.files : ~st.files[k].late
      /\ \A ix \in Indexes : ~index[ix].back
  BY DEF Misdated, Clock
<1>3. \A k \in DOMAIN st.files : /\ st.files[k].kind = index[st.files[k].ix].kind /\ Exists(st.files[k].ix)
                                 /\ ~Stale(index, st.files[k])
  BY <1>1, <1>2 DEF Exact, Dating, Exists, Stale
<1>4. \A ix \in Indexes : Has(st, ix)
  BY <1>3 DEF Whole, Fresh
<1>5. Holds(st) = Current
  <2>1. Holds(st) \subseteq Current
    BY <1>1, <1>3 DEF Holds, Current
  <2>2. ASSUME NEW ix \in Indexes, Exists(ix)
        PROVE  [ix |-> ix, kind |-> index[ix].kind] \in Holds(st)
    <3>1. PICK k \in DOMAIN st.files : st.files[k].ix = ix
      BY <2>2 DEF HasAll, HasIndex, Exists
    <3> QED BY <1>3, <3>1 DEF Holds
  <2>3. Current \subseteq Holds(st)
    BY <2>2 DEF Current
  <2> QED BY <2>1, <2>3
<1>6. ProvidesDue(st.files) \subseteq st.provs
  <2> SUFFICES ASSUME NEW d \in ProvidesDue(st.files) PROVE d \in st.provs
    OBVIOUS
  <2>1. PICK k \in DOMAIN st.files, path \in Needed(st.files) : d = <<st.files[k].ix, path>>
    BY DEF ProvidesDue
  <2>2. PICK j \in DOMAIN st.files : d \in {<<st.files[j].ix, q>> : q \in st.files[j].kind.owns}
    BY DEF ProvidesDue
  <2>3. st.files[j].ix \in Indexes /\ d = <<st.files[j].ix, path>> /\ path \in st.files[j].kind.owns
    BY <1>1, <2>1, <2>2
  <2> QED BY <1>4, <2>1, <2>3 DEF Has
<1> QED BY <1>5, <1>6 DEF IsCurrent

\* A process that builds while no index changes hands out a cache that is current, from
\* the source cache or from nothing, on disk or in memory: for any indexes, other
\* readers, crashes and power failures, with one process that may write the cache
\* directory.
THEOREM BuiltCaches == ASSUME OneWriter PROVE Spec => BuiltIsWhole
<1> DEFINE Good(p) == Finishes(p) /\ proc[p].since = changes /\ ~proc[p].other
                         => LET st == store[proc[p].map] IN Misdated(st) \/ IsCurrent(st)
<1>1. BInv /\ [Next]_vars => [\A p \in Procs : Good(p)]_vars
  <2> SUFFICES ASSUME BInv, Next, NEW p \in Procs, Finishes(p), proc[p].since = changes, ~proc[p].other,
                      ~Misdated(store[proc[p].map])
               PROVE  IsCurrent(store[proc[p].map])
    OBVIOUS
  <2> DEFINE pr == proc[p]
             st == store[pr.map]
  <2>1. FInv /\ CacheTypes /\ Clock
    BY DEF BInv, FInv
  <2>2. Task(p, "clean")
    BY <2>1, FinishesClean DEF MarkClean
  <2>3. pr.map # 0
    BY <2>2, BuilderHasMap
  <2>4. Quiet(index, changes, pr)
    BY DEF Quiet, Still, Misdated
  <2>5. On(index, pr, st, p, <<>>, "clean")
    BY <2>2, <2>3, <2>4, BuilderState
  <2> HIDE DEF pr
  <2>6. /\ st \in StoreRec /\ ~st.torn /\ st.provs \subseteq ProvidesDue(st.files)
        /\ Exact(index, st) /\ Whole(index, st) /\ HasAll(index, st, Indexes)
    BY <2>5 DEF On, Built, Point, Filled
  <2>7. ~Misdated(st)
    BY DEF pr
  <2> HIDE DEF st
  <2>8. IsCurrent(st)
    BY <2>1, <2>6, <2>7, WholeCurrent
  <2> QED BY <2>8 DEF st, pr
<1>2. Spec => []BInv
  BY BuildsInvariance
<1> QED BY <1>1, <1>2, PTL DEF Spec, BuiltIsWhole

\* A package cache finished under the options of a process since the last change of an
\* index is never built again by it: for any indexes, readers, crashes and power
\* failures, with one process that may write the cache directory.
THEOREM RebuiltCaches == ASSUME OneWriter PROVE Spec => RebuiltForCause
<1>1. BInv /\ [Next]_vars =>
         [\A p \in Procs : Rejects(p) /\ name["pkg"] # 0 /\ ~index[Database].back
              => store[name["pkg"]].made # <<changes, proc[p].opts>>]_vars
  <2> SUFFICES ASSUME BInv, Next, NEW p \in Procs, Rejects(p), name["pkg"] # 0, ~index[Database].back,
                      store[name["pkg"]].made = <<changes, proc[p].opts>>
               PROVE  FALSE
    OBVIOUS
  <2> DEFINE st == store[name["pkg"]]
             opts == proc[p].opts
  <2>1. CacheTypes /\ FInv /\ Stamps /\ proc \in [Procs -> ProcRec] /\ proc[p] \in ProcRec
    BY DEF BInv, FInv, CacheTypes
  <2>2. Step(p) \/ Stop(p)
    BY <2>1, StepOf DEF Rejects
  <2>3. CheckPkg(p)
    BY <2>1, <2>2 DEF Rejects, Step, Stop, Start, CheckSource, Unlink, Create, Preload, Generator, OpenIndex,
          Merge, SourcesMerged, StatusMerged, Collect, WriteData, ClearFlag, WriteHeader, SyncMap, MarkClean,
          Refused, Close, Task
  <2>4. ~CheckValidity("pkg", opts, Indexes)
    <3>1. CheckValidity("pkg", opts, Indexes) => proc'[p].at = "serve"
      BY <2>1, <2>3 DEF CheckPkg, ProcRec
    <3> QED BY <3>1 DEF Rejects
  <2>5. st \in StoreRec /\ Stamped(index, changes, st)
    BY <2>1 DEF FInv, Named, PkgOK, Stamps
  <2>6. st.made # <<>> /\ st.made[1] = changes /\ st.made[2] = opts
    OBVIOUS
  <2> HIDE DEF opts
  <2>7. Valid(index, st, opts, Indexes)
    BY <2>5, <2>6 DEF Stamped
  <2> HIDE DEF st
  <2>8. Matches(st, opts, Indexes)
    BY <2>5, <2>7, ValidMatches
  <2> QED BY <2>4, <2>8 DEF CheckValidity, st
<1>2. Spec => []BInv
  BY BuildsInvariance
<1> QED BY <1>1, <1>2, PTL DEF Spec, RebuiltForCause
=============================================================================
