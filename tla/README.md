# A verification model of APT

This directory holds TLA+ specifications of the core of this APT tree
(`src/apt`, an APT 0.5 with RPM support), the TLC configurations that check
them on small instances, and proofs checked by TLAPS.  Six components are modelled:

- the *acquire system*, the download scheduler in `apt-pkg/acquire*.cc` that every
  `apt-get update`, `install` and `source` runs through: a select loop and one child
  process per queue, counters that decide when it stops, and callbacks that re-enter the
  queues they are called from;
- the *http method*, `methods/http.cc`, one of those children: it sends requests ahead
  and tells the replies apart by their order alone;
- the *dependency cache*, `apt-pkg/depcache.cc`, which knows what will become of every
  package and keeps that, four times over, up to date incrementally;
- the *problem resolver* and the upgrade algorithms, `apt-pkg/algorithms.cc`, under the
  commands of `apt-shell` that call them;
- the *ordering* of packages and the *package manager*, `apt-pkg/orderlist.cc`,
  `packagemanager.cc` and `rpm/rpmpm.cc`, over several discs;
- the *cache files*, `apt-pkg/pkgcachegen.cc`: who builds, trusts and reuses the two
  package caches on disk.

## 1. The system and its parts

| Component | State | Operations | What makes it correct |
|---|---|---|---|
| Scheduler `pkgAcquire` (`acquire.cc`) | items, queues, workers, configs, `ToFetch`, `Running` | `Enqueue`, `Dequeue`, `Run`, `Bump`, `Shutdown`, `GetConfig` | `ToFetch` counts what is queued; `Run` ends, and only when nothing is left |
| `Queue` (`acquire.cc`) | list of `QItem`s, `PipeDepth`, `MaxPipeDepth`, workers | `Enqueue`, `Dequeue`, `Startup`, `Shutdown`, `Cycle`, `ItemDone`, `FindItem` | `PipeDepth` counts what the worker has; nothing is lost; a reply finds its item |
| `Worker` (`acquire-worker.cc`) | `OutQueue`, `MessageQueue`, `CurrentItem`, the child | `QueueItem`, `InFdReady`, `OutFdReady`, `RunMessages`, `MethodFailure`, `MediaChange`, `Authenticate` | replies handled in order; `CurrentItem` never dangles |
| Items (`acquire-item.cc`) | `Status`, `Complete`, `Retries`, `Vf`, `StoreFilename`, flags | `Done`, `Failed`, `Finished`, constructors | bounded attempts; every stage reached; `StoreFilename` only for what arrived |
| Method engine (`acquire-method.cc`) | `Queue`, `Messages` | `Run`, `URIStart`, `URIDone`, `Fail`, `Redirect`, `MediaFail`, `NeedAuth` | no request lost or reordered; acknowledgements reach the question |
| HTTP method (`methods/http.cc`) | `QueueBack`, `ServerState`, buffers, the file | `Fetch`, `Loop`, `Go`, `ServerDie`, `DealWithHeaders`, `RunData` | replies stay in step with requests; a file is its own and whole; everything is answered |
| Other transfer methods (`methods/`) | connection state | `Fetch`, `Loop` | each request gets one final reply |
| Dependency cache (`depcache.cc`) | per-package states, counters | `MarkInstall`, `MarkKeep`, `MarkDelete`, `SetReInstall`, `SetCandidateVersion`, `Update`, `State::Save`, `Restore` | states, counters and sizes equal a full recount after every mark; `MarkInstall` ends |
| Problem resolver (`algorithms.cc`) | flags, scores, sorted list, kill list | `Resolve`, `ResolveByKeep`, `DoUpgrade`, `InstallProtect`, `RemoveDepends` | it ends; what is protected stays; the kill list fits; nothing gets worse |
| Upgrades and commands (`algorithms.cc`, `apt-shell.cc`, `apt-get.cc`) | the marks, a saved state | `install`, `remove`, `keep`, `upgrade`, `dist-upgrade`, fix-broken, fix-missing | what is offered is what was asked, whole; what is declined is put back |
| Ordering (`orderlist.cc`) | visit flags, lists, recorded loops | `OrderUnpack`, `VisitNode`, `DepXXX`, `AddLoop` | a permutation of what changes; it ends on any loop; pre-dependencies first |
| Package manager (`packagemanager.cc`, `rpm/rpmpm.cc`) | flags, file names, operations, rpm's options | `GetArchives`, `OrderInstall`, `SmartUnPack`, `SmartRemove`, `ConfigureAll`, `Go` | each package handed over once; the plan is reached, over any number of discs |
| Cache files (`pkgcachegen.cc`, `rpm/rpmindexfile.cc`) | two files, a map, the `Dirty` flag | `pkgMakeStatusCache`, `CheckValidity`, `BuildCache`, `CollectFileProvides` | a cache that is trusted is that of the indexes as they are |
| Policy (`policy.cc`, `versionmatch.cc`) | pins | `GetCandidateVer`, `GetPriority` | the candidate is the highest pin |
| Cache records (`pkgcachegen.cc`, `mmap.cc`) | memory map, pools, hash tables | `NewPackage`, `NewVersion`, `Allocate` | pools do not overlap; lists stay linked |
| RPM and Debian parsing, source lists, utilities, bindings | mostly none | parsing, `librpm` calls, printing | - |

How they meet: `pkgMakeStatusCache` makes the package cache ready, over which the
dependency cache is a table of marks.  A command of the shell marks packages, has the
marks made whole by the resolver, and asks the user.  What is agreed goes to
`InstallPackages`: the package manager orders the packages that change, makes an acquire
item for each archive, runs the scheduler, and hands rpm what has arrived; if some are on
another disc it goes round again, and if some did not arrive fix-missing resolves once
more.

Within the acquire system: a front end constructs items on a `pkgAcquire`; a constructor
calls `QueueURI`, i.e. `pkgAcquire::Enqueue`, which names and makes a `Queue` and
appends a `QItem`.  `pkgAcquire::Run` starts every queue (which forks a method
process per `Worker`), then selects.  `Queue::Cycle` hands idle `QItem`s to the
worker, which appends `600 URI Acquire` messages to `OutQueue`; the loop writes
them.  The child answers `200`, `201`, `400` or `103`; `Worker::RunMessages` looks
the `QItem` up *by URI*, calls `Queue::ItemDone` (which dequeues the item and
cycles the queue) and only then the item's `Done` or `Failed`, which may queue the
item again, in the same queue or in a new one that is started on the spot.

What is hard:

- *acquire*: the callbacks re-enter the scheduler between two of its own steps; two
  processes exchange messages over pipes that are read and written in arbitrary parts;
  children die at any moment; a cancelled run leaves its queues as they are and may be run
  again; a redirect renames a request that is in flight; and two counters (`ToFetch`,
  `PipeDepth`) are maintained incrementally along all of it.
- *http*: requests are sent before the replies to earlier ones have come, a redirect moves
  a sent request to the end of the queue, and a connection may end after any byte, in the
  middle of a page that nobody wants or of a file that can be resumed.
- *dependency cache*: which dependencies a change can reach; brackets of `Remove` and
  `Add` that must see the same fields; states that are saved and put back; and
  `MarkInstall`, which walks a package's dependencies while the calls below it install and
  delete other packages, its own callers included.
- *resolver*: it starts its list again as long as anything changes, tries marks and takes
  them back, and only sometimes takes back all that they pulled in.
- *ordering*: a depth-first walk over a graph with loops, with flags that are set and
  unwound on the way, four times over the list it is rebuilding.
- *cache files*: processes of different users read, truncate, unlink and rewrite the same
  two names without a lock while the indexes change under them; and power may fail.

`PROJECT.json` lists these hazards one by one, with the property that guards each.

## 2. The modules

| Module | Models |
|---|---|
| `AcquireItem` | the item handlers, as functions from an item's state and an answer to a *verdict*: new state, `Status`, whether it dequeues, what it queues |
| `AcquireQueues` | the `pkgAcquire` object as a record, and the operations of `Queue` and `pkgAcquire` on it as operators on records |
| `Acquire` | the state machine: the caller, `Run`'s loop, the workers' messages, the child processes; all invariants and temporal properties |
| `Downloader` | the abstract specification: what callers are promised |
| `AcquireRefines` | the refinement mapping from `Acquire` to `Downloader` |
| `MCAcquire` | small instances: the methods' capabilities, a world of URIs and items |
| `MethodAck` | `NeedAuth` and `MediaFail`: the wait for a `603`/`604` among `600`s, and `Worker::Authenticate`/`MediaChange` |
| `HttpMethod`, `MCHttp` | the http method, its connections and the servers; small sites |
| `DepCache` | the `pkgDepCache` object as a record, `Update` and the manipulators as operators on it, and the machine that calls them in any order; `Scratch`, the computation from scratch that `Update` is to agree with |
| `DepCacheInstall` | `MarkInstallRec` and `MarkInstall2` on top of it, as a machine with a stack |
| `ProblemResolver` | `pkgProblemResolver` on top of that, as a machine with one step per member of an or group and per version |
| `Upgrades` | the commands of the shell, the upgrade algorithms and fix-missing on top of that |
| `OrderList` | `pkgOrderList` on top of `DepCache`, as a machine with a stack |
| `PackageManager` | `pkgPackageManager`, its rpm half and the loop of `InstallPackages` on top of that |
| `CacheFiles` | the two cache files, the processes that build and use them, the indexes, the disk |
| `PackageWorlds` | small package caches |
| `MCDepCache`, `MCDepCacheInstall`, `MCUpgrades`, `MCPackageManager`, `MCCacheFiles` | the machines on small instances |
| `AcquireProofs`, `AcquireChannelsProofs`, `AcquireRefinesProofs` | theorems about the scheduler (after lemmas about the handlers of `AcquireItem` and the operators of `AcquireQueues`), about what is under way to and from its workers, and that it implements `Downloader` |
| `HttpMethodProofs`, `DepCacheProofs`, `PackageManagerProofs`, `MethodAckProofs`, `CacheFilesProofs` | theorems about those machines |

`Acquire`, `MethodAck` and `HttpMethod` look at the same method engine from three sides:
in `Acquire` a request is answered without questions to the user and by any method; in
`MethodAck` the questions are the subject and the scheduler is reduced to its window; in
`HttpMethod` the subject is what one method does with its queue.

### How state and actions correspond: acquire

`acq` is the `pkgAcquire` object.  A queue's linked list is the set of its elements
in `acq.qitems` ordered by `pos` (append order); `acq.mine` holds the `QItem`s whose
`Worker` pointer equals the queue's worker, which for a `QItem` that was never
handed out is *uninitialised memory*: `Queue::Enqueue` does not set it, so `Garbage`
lets it match or not.  `counter` is `QueueCounter`, `depth` and `maxDepth` are
`PipeDepth` and `MaxPipeDepth`, `out` is `Worker::OutQueue`, `error` is
`_error->PendingError()`, `configs`/`known` tell a `MethodConfig` that exists from one
that was filled in by `100 Capabilities`.

`pipe`, `fetch` and `answers` are what is on its way to the child, what the child
holds in `pkgAcqMethod::Queue`, and what it has written.  Requests and replies carry
the *owner* they were made for as a ghost field; the code matches by URI only, and so
does the model.

One action is one of: a call by the front end (`NewItem`, `Run`, `DropItem`,
`Shutdown`), a turn of the loop (`StartQueue`, `Select`, `InReady`, `OutReady`,
`EndRound`, and the exits `Break`, `Cancel`, `Fetched`), one message of
`RunMessages` (`Redirected`, `URIStart`, `URIDone`, `URIFailure`), or a
step of a child (`Receive`, `SendStart`, `Answered`, `Redirect`, `Die`).  A handler
is one action with everything it calls: `URIDone` is `FindItem`, `ItemDone`,
`Dequeue`, `Cycle`, the item's `Done`, its `Dequeue` and `QueueURI`, and the start of
a new queue, in the code's order.  `RunFds` visits workers in list order; the model
takes them in any order.  The branches of `RunMessages` that reject a reply no `QItem`
matches have no action: such a reply would hold the model's loop up for ever, and
`RunTerminates` shows that none comes.  A read takes all that is in the pipe, a write any non-empty
part of `OutQueue`.

Abstractions: file contents, digests, sizes and names are reduced to the outcome
of the check a handler makes (`ok`, `bad`, `ims`, `norename`); the start-up exchange
of a method succeeds or fails in one step; log, status and configuration messages
change no scheduler state and are left out; a `103` carries any URI the constant
`Redirects` allows.  `ReadMessages` delivers whole messages: a partial one stays in
the buffer and is delivered by a later read, which the model covers by the child
writing later.

`Downloader` is what a caller is promised: items are absent, waiting, active or
settled; at most `Limit[q]` of a queue are active; an answer settles its item or
sends it on with strictly fewer attempts left; what is settled is not touched again;
`Continue` is returned only when everything is settled.  The attempts an item has left
(`Attempts` in `AcquireRefines`: sources, retries, and stages still to come) are the
variant that shows every item's work is bounded.

### How state and actions correspond: dependency cache

`dc` is the `pkgDepCache` object: `cand`, `inst`, `mode`, `purge` and `reinst` are the
fields `CandidateVer`, `InstallVer`, `Mode` and two bits of `iFlags` of each package's
`StateCache`; `dep` and `group` are the low and the `DepG` bits of `DepState`; `ver` is
the three `Min` bits of a package's `DepState`; `count`, `usr` and `down` are the
counters, `iUsrSize` and `iDownloadSize`.  `saved` is a `pkgDepCache::State`, as the
shell's `AutoRestore` keeps one.  The package cache (`Pkg`, `Ver`, `Dep`) is constant, and
so is the policy's candidate.  `hits` of a dependency are the versions whose own or
provided version passes the version check, so `VS().CheckDep` is a set.

A manipulator is one action, since nothing runs in between.  `Update(s, u, p)` has what
the code does in sequence: `s` is the record when the package was taken out of the
totals, `u` the one with the new mode and version.  The code updates dependency by
dependency and takes every parent out of the counters and back in around it; the
totals of that sequence telescope to the difference of the two ends over the packages
touched (`Recount`), and a dependency reached twice is computed the second time from the
same fields.  What the code does *not* reach keeps its old value in the model too: this
is what `StatesExact` is about.

In `DepCacheInstall` a frame of `frames` is one call of `MarkInstallRec` that has not
returned, with the version whose dependencies it walks, the next or group, `Restricted`
and `AddMarkAgain`; one step handles one or group (`SkipGroup`, `PutOff`, `Recurse`,
`GiveUp`) or returns.  `wave` is `MarkInstall2`: the sets `MA` and `MAA` and what is left
of the current pass.  A `std::set<PkgIterator>` is ordered by addresses, so a pass takes
its packages in any order.

### How state and actions correspond: resolver and commands

`ProblemResolver` extends `DepCacheInstall`: a mark it makes is an operator of `DepCache`,
and only `MarkInstall` with its recursion has steps of its own (`Marking` in `Upgrades`).
`fix` is the `pkgProblemResolver` object: `Flags` as the sets `protect`, `remove`, `pre`
(`PreInstalled`) and `up` (`Upgradable`), `Scores` as signed shorts, and the sorted list.
`pass` says where `Resolve` or `ResolveByKeep` is; `look` is the broken package `Resolve`
looks at, with the or group, its member and the version it has come to, and `kills` the
array `KillList`.  One step is one or group (`Group`), one member (`Member`, `MemberMet`,
`MemberLost`) or one version (`FixSelf`, `FixShielded`, `PassBy`, `FixOther`); a call of
`DoUpgrade` with its recursion is part of the step that makes it.  What the code does by
oversight the model does too: `Flags[I->ID] &= ReInstateTried` (`algorithms.cc:886`) clears
every flag and never sets the one it names; a member of an or group that is not critical is
passed over only as the first or the last one (`:954`); `DoUpgrade` returns failure for
a group whose first member failed although a later one is met.

`Upgrades` is `apt-shell`, whose code for these commands `apt-get` repeats.  `shell` says
which command is under way and what marks it still has to make; `saved` is the `State` of
its `AutoRestore`.  A command checks the dependencies (`CheckDeps`, which may repair them
with `pkgFixBroken` and minimize the result), marks what was named (`Asks`), removes
what only removed packages need (`Sweep`, the one loop of `RemoveDepends` in any order),
marks what is protected once more, resolves, and is confirmed, declined or refused.
`FixMissing` is what follows a commit whose archives did not all arrive.

Left out: virtual names, versions and releases on the command line, `--reinstall`,
`DSelectUpgrade`; `pkgApplyStatus`, whose repairs are for half-configured packages, which
rpm does not have.  `Held` are the packages whose `SelectedState` is hold: only the Debian
back end sets that, rpm holds through `rpmSystem::ProcessCache`, which `Held` stands for.
`SortSeq` is the `qsort` of the scores, taken to be stable as glibc's merge sort is.  Two branches
have no package that takes them: `Lost` in `AfterVersions`, which needs a package that is
broken as it is installed, and members two and on of an or group that is not critical.

### How state and actions correspond: ordering and package manager

`OrderList` keeps `List`, `NList` (`out`), `AfterList` and the bits of `Flags`.  A frame of `calls` is a
`VisitNode` that has not returned: its package, the visitor (`DepUnPackCrit`, `DepUnPackPreD`,
...) as `prim`, and what it has left to consider, as stages of forward or reverse
dependencies.  `Consider` looks at one dependency, `Descend` visits a package,
`Leave` puts the package in the list or, if it has the flag `After`, on the list of
those put off; `EndPass` goes on with the next of the four passes.  A dependency that leads
back to a package being visited is recorded by `AddLoop`, of which there are at most
`MaxLoops`.  Which dependency comes first is left open, since the order in a cache is that
of its index files.

`PackageManager` is the loop of `InstallPackages` (`cmdline/apt-get.cc:862`): `GetArchives`
orders and asks for archives, `Fetch` gets those on one of the `Discs`, `OrderInstall` orders
again with the file names known and hands packages over one by one until one
`IsMissing`, `Go` becomes `Succeed` or `Fail`, and if anything was left over it starts
again.  `sys` is what rpm has installed; a transaction is checked by rpm unless the options say
`--nodeps`, which the loop adds when it splits the transaction and never takes back.  It adds
it to the options for installing, which `Process` reads only for a transaction that installs
or upgrades something (`rpmpm.cc:789`), and what it has read stays (`unchecked`): so a leg that only
removes is checked, unless one that installs came before (`NoDeps`).

Two simplifications: a transaction that fails has done nothing (`Fail`; rpm may stop half-way), and
an internal error of `OrderInstall` ends the run (`internal`), where the loop would go on if another
disc is awaited.

Left out: `OrderCritical`, `SmartConfigure`, `DepAdd`, `EarlyRemove`, `CheckRConflicts`,
which nothing in this tree calls, and the order within `ConfigureAll`, whose result
`pkgRPMPM::Go` passes over.

### How state and actions correspond: http method

A connection is a sequence of tokens: the headers of a reply, a byte, a line of
chunked encoding.  `m` is the method: `queue` with `sent` elements before `QueueBack`, `out`
and `in` the two `CircleBuf`s, `limit` the read limit of `In`, and the fields of `ServerState`
that steer it.  An action is a turn of `Loop` (`Top`, which connects and fetches; `Headers`;
`Whole` and `Chunked`, which are `RunData`), and each call of `Go` in it is a step in which
any number of tokens arrive, the connection may end, and what apt has written is read.
The servers answer by `Site`, may grant a range or ignore it, hang up where `close` says, or
stop at any token; nothing is expected of them.  `seen` and `stop` are the redirect loop detection.

What `DoneIsWhole` and `OwnBytes` except is what the code does: a connection that ends while
the headers are read lets `RunData` take what is buffered for all there is (`early`, see
`Short.cfg` in section 3); the length of a page that is `Connection: close` without a length cannot be told; and a
chunked file that is cut has the chunk sizes of the rest written into it by `ServerDie`, so it
may not be resumed (`Chunks.cfg`); if it comes in one piece it is whole all the same.  A
discarded error page that is cut leaves a pending error behind that makes the next
connection fail once, transiently.  `Location` is never cleared, so a
redirect without one would follow the last.

### How state and actions correspond: cache files

`store` holds what is mapped: the two named files, unlinked files that are still mapped, and
memory maps.  A process goes through `pkgMakeStatusCache`: `CheckPkg` and `CheckSource` are
`CheckValidity` of the two names, then `todo` is the list of steps of the build it has
decided on, one for each system call or merged index that others can come between.
`Dirty` is set first and cleared last, and `msync` makes what it precedes safe: `kept`, `safe`
and `torn` say what a power failure would leave.  An index has contents (`kind`: the files it
owns and those it needs) and an mtime; `Change` replaces it.  rpm's database is special:
`UnLock` puts its mtime back (`rpmhandler.cc:473`), which `back` records.

`Misdated` names the two ways in which an mtime does not tell: a list replaced between its
`open` and its `stat`, and `UnLock`.  `CheckValidity` is one step.  Two processes that may both
write the directory can truncate each other's file while it is built (`pkgcachegen.cc:815`,
`unlink` and `open` without a lock): with two writers TLC finds an accepted cache that is
not current.  So the run has one of them and another process that only reads, and the theorem assumes as much
(`OneWriter`).
`CollectFileProvides` from another version of an index than was merged adds some of
what the two have in common.

## 3. What is checked

Twelve runs.  Ten pass, each within three minutes; two show a disagreement
between the code and what a comment says of it.  Three more configurations end in a
counterexample and belong to observations below.

| Run | Instance | Shows |
|---|---|---|
| `pipeline` | two archives (one with a retry, one with a second source over another method) and a file with a retry, HTTP with a window of 2, one redirect to a fresh URI | `PipeDepthExact`, `NothingLost`, `ReplyFindsItsItem`, and the one type invariant |
| `discs` | an archive, a file and a release file on one CD-ROM queue, a preferred URI, workers that survive a run, cancellation, two runs, item deletion and `Shutdown` | `ToFetchExact`, `CurrentItemLive`, `ContinueMeansSettled`, `ImplementsDownloader` |
| `terminates` | an archive and an index in one queue per access method, a redirect onto a URI that is itself in flight, methods that do not start or die, every answer | `QueuedIsOpen` even if replies are misattributed, and `RunTerminates` |
| `ack` | four requests, a window of three, two questions | `RequestsKept`, `WaitEndsOrBuried` |
| `marks` | two mail servers that provide and conflict with one name, one half installed, a mailer with an or group, its replacement that obsoletes it, an ignored dependency; every sequence of marks, purges, reinstallations and new candidates, with a state that is saved, restored or confirmed | `StatesExact`, `CountersExact`, `SizesExact` |
| `install` | an ambiguous dependency, one that is settled by a later one, a package whose installation another forbids, two packages that need each other and one conflicts; `MarkInstall` from every state that single marks reach | `InstallEndsOrWavers`, `PulledInByNeed` |
| `resolve` | an application and a plugin that want different versions of a library, a mail server that obsoletes another, an or group that nothing meets first, a task with a choice of viewers; two commands of two names each, any archives missing afterwards | `GrantedAsAsked`, `ProtectedStands`, `KillsFit`, `ReInstateHarmless`, `UpgradeStaysWhole`, `MinimalUpgrade`, `SweepSpares`, `CommandEnds` |
| `order` | a library that conflicts with the old perl, which needs the new library first; a loop with the shell, whose old version needs the old mail server; one that obsoletes it; a mailer that pre-depends on that and obsoletes the old shell only; every plan of these that breaks nothing, over four discs in any order | `ListComplete`, `NothingInternal`, `HandedOnce`, `RpmAccepts`, `PlanReached`, `PreDependsFirst`, `OrderEnds` |
| `http` | files, redirects to another server and in a circle, an error page, an unchanged file, nonsense; two servers that hang up, cut, ignore ranges or never answer | `InStep`, `OwnBytes`, `DoneIsWhole`, `FailsForCause`, `Answered` |
| `cachefiles` | a process that may write and one that may not, a package list and the rpm database, either with or without file dependencies; a change, a stop and a power failure at any step | `AcceptedIsCurrent`, `BuiltIsWhole`, `RebuiltForCause` |
| `sweep` (violation) | as `resolve` | `SweepHarmless` fails |
| `all_indexes` (violation) | as `cachefiles` | `HasAllIndexes` fails |

Each property of a passing run is paired with a mutant: a variant of one definition
with a plausible bug (`..._NoDepth`, `..._Once`, ..., kept next to the
definition it varies), under which TLC reports the property violated.

**Bounds.**

- *acquire*: two or three items suffice for every pairwise interaction of items in a
  queue (order, same URI, one retried while the other waits), a window of 2 is the
  smallest that pipelines (the code's is 10), one host queue plus one or two others are
  what an item passes through, and two runs are enough to see what one leaves for the
  next.  `runs < MaxRuns` in `NewItem` and `Run` is the only bound in a guard of
  `Acquire`.  An item name stands for one object, so `deleted` keeps it from being reused.
- *`MethodAck`*: `Requests` and `MaxAsks` bound the messages; four requests with a window
  of three let an acknowledgement be read in front of, between and behind requests.
- *dependency cache*: its states are finite.  The world has a chain of everything `Update`
  follows: a name provided by several packages, an or group, a negative dependency, a
  package whose current, candidate and installed versions all differ.  `GuardUpTo` limits the
  states from which a state is saved to those with fewer packages marked than that.
  `MaxDepth` of `MarkInstall` is 3 where the code has 100; `tick` and `tock`, which want and
  delete each other, reach either.  In `resolve` it is 100.
- *commands*: `MaxAsks` names in a command and `MaxCommands` commands: the second starts
  from whatever marks, even broken ones, the first has left.  `MaxRounds` is the 10 of the
  code, and every conflict of the world is decided well before.
- *ordering*: seven packages have a loop, a chain of pre-dependencies and a package put
  put off because its file is elsewhere; four discs that overlap give plans of up to four legs.
  They reach what the properties make exceptions for: a leg that only removes, is checked and breaks
  the old shell (the strict `~NoDeps => Sound(Applied)` fails), and an upgraded package that
  rpm has removed as obsolete before its turn.
- *http*: `PipelineDepth` 1 lets two requests be under way (the code has 10); a file of
  three bytes can be cut at its beginning, inside and at its end; an item is asked for at most twice.
- *cache files*: one change of an index and one fault; two paths that packages own or need,
  since a new file dependency of the database has to be told from one of the sources; and
  `NStores`, the two files, one that has lost its name and a memory map.

`CHECK_DEADLOCK FALSE` appears where the system may stop: a caller that is done, a plan that
is carried out, a method without requests.  The shell of `resolve` can always quit, so
there deadlock is checked.

**Fairness.**  `Acquire`, `HttpMethod` and `Upgrades` state weak fairness of a thread with
the condition under which it can go on spelt out, which TLC evaluates far faster than
`ENABLED`.  That the condition implies `ENABLED` of the step TLC has confirmed for `Acquire` and
`HttpMethod` on the instances of their runs; in `resolve` deadlock is checked, so that a
command can always go on.  In `Acquire`, the loop is a single thread that runs whenever
`select` returns; a child that has a request reads it and answers it, or dies.  Nothing is
assumed of the choice between steps, of the user, the caller or cancellation; `SendStart`,
`Redirect` and `Die` are not fair.  Without
the second, `Run` may rightly wait for ever for a server.  In `HttpMethod` only the method is
fair, because `select` times out: of the server nothing is expected.  In `MethodAck`, the
method and the user's answer are weakly fair.  `DepCacheInstall`, `Upgrades` and `OrderList`
are loops of one thread which, once called, go on until they return; nothing is assumed of who calls.

**What the violations say.**

- `sweep`: the comment on `RemoveDepends` (`algorithms.cc:1347`) says that it removes what is
  "required only by packages already being removed".  What a package that stays or comes
  requires is spared only if its *current* version satisfies it (`:1388`).  A library that
  is being upgraded because a new package requires the new version, and that a removed
  package required as well, is marked for removal, and the new package breaks.  `SweepSpares`
  says what does hold: a package that was to stay as it is, is not taken from anybody.
- `all_indexes`: the comment on `pkgMakeStatusCache` (`pkgcachegen.cc:774`) says that the
  cache has all index files.  The source cache is validated at `:844` and opened again by name at
  `:848`; a process that rebuilds it in between has created it and not yet written it.
  Nothing is read, which succeeds; the generator begins a new cache on the empty map and only
  the status file is merged.  `BuiltIsWhole` says that this is the only way to
  a cache that is not whole, apart from misleading mtimes.

**Other observations**, which have no run of their own.  Of the HTTP method, with a configuration
that stops at a counterexample for each:

- `InStep` fails under `Alone.cfg`, a file that redirects to another of the same server, asked
  for alone or with it.  The comment in `Redirect` (`acquire-method.cc:541`) says that it moves the request to
  the end of the queue "past the end of the current pipeline" to keep the pipeline
  synchronized.  A request that is alone in the queue moves nowhere, and `QueueBack` stays behind
  it (`:546`): it counts as sent.  If the new URI is on the same server, nothing is asked for on
  the open connection, and the method waits for a reply to a request it never made, until
  `select` times out; with the next connection it is asked for.
- `DoneIsTransferred` fails under `Short.cfg`, the instance of `http`.  `doc/method.sgml:254` says that `201 URI Done` indicates "that a URI has completed being
  transfered".  If the connection is closed by the time the headers have been read, `RunData`'s
  `Go` is refused once the buffer is empty (`http.cc:728`), and the `Flush` it ends with
  (`:481`) returns true for an empty buffer (`:823`), whatever the limit says: a file that was
  cut short is reported done.  (apt's items compare sizes and MD5 sums where they know them.)
- `ResumedIsWhole` fails under `Chunks.cfg`, a chunked file that may be asked for again: the
  same sentence.  When the connection ends, `ServerDie` dumps the buffer into the
  file (`http.cc:846`), which for a chunked file are chunk sizes and line ends too; asked for again,
  `SendReq` resumes the file (`:683`), and what is then reported done is not the server's file.

Of the acquire system:

- A cancelled `Run` deletes its workers but leaves `PipeDepth` and `StatFetching`; `apt-get
  update` calls `Run` a second time without looking at the first result (`apt-get.cc:1848`,
  `:1883`), and that run waits for nobody.  So `RunTerminates` is checked without
  cancellation.
- `NeedAuth` and `MediaFail` look at the front message of each read only
  (`acquire-method.cc:312`); an acknowledgement read behind a `600` waits for the next
  message.  `WaitEndsOrBuried` shows that this is the only way for the wait to last.
- The worker announces a refusal as `Failed: true` (`acquire-worker.cc:419`, `:447`), the method
  looks for `Fail` (`acquire-method.cc:336`), and so takes a refusal for consent.
- The comment on `Shutdown` (`acquire.cc:86`) says it clears the queues, yet an item that is
  being fetched refuses to be dequeued (`acquire.cc:569`) and keeps its count; the model
  carries that as `leaked`, and `ToFetchExact` says that nothing else is ever lost.
- `Queue::Enqueue` cycles only when the item is alone in its queue (`acquire.cc:560`), so a
  pipe with room stays under-filled until the next reply, although the comment at `:681`
  says that the pipe is kept full.
- `FindItem` (`acquire.cc:651`) compares URIs only, so after a redirect to a URI that another
  request of the queue is waiting for, a reply settles the other item: `ReplyFindsItsItem` is
  checked where redirects lead to fresh URIs, and `terminates` checks what survives where
  they do not.

Of the dependency cache and the resolver:

- `SetCandidateVersion` assigns the candidate before `Update` looks at what the candidate
  provides (`depcache.cc:1021`, `:1025`), so dependencies on what only the old candidate
  provided stay as they were.  `StatesExact` holds with other candidates where the versions
  of a package provide the same, as in `marks`.
- For a package that is up to date, the candidate is the install version, and
  `SetCandidateVersion` (`depcache.cc:1019`) moves both while the mode stays *keep*, although
  `depcache.h:30` says that the mode selects the install version; `ModeSelects` is proved
  without other candidates.
- `MarkInstall2` stops when two waves leave the same packages over (`depcache.cc:975`).  A
  package `desk` that depends on `printer` and conflicts with it installs a provider `ink`
  that is itself left over in one wave, and deletes it before that in the next: the waves
  leave {`desk`}, {`ink`, `desk`}, {`desk`}, ... and, if `ink` has the lower address, never
  agree.  `InstallEndsOrWavers` says that this, a wave that leaves over what the one before had
  settled, is the only way for a call to last.
- An `Obsoletes` that a newer candidate fixes is pursued through `AllTargets`, which also lists
  versions that merely provide the obsoleted name (`pkgcache.cc:431`) and that `CheckDep`
  never looks at (`depcache.cc:272`); one of these may be installed.  `PulledInByNeed` names
  the exception.
- `upgrade` looks at the result of `ResolveByKeep` and not at the number of broken packages;
  a fix-missing that fails leaves its marks broken.

Of the rest:

- `PutOffTogether` fails under `PutOff.cfg`, the instance of `order` without `m2_sh`.  The comment at
  `orderlist.cc:51` says that any package which requires one that is put off "to be ordered before
  will inherit the after flag and so on".  `CheckDep` sets the flag of the parent only when it
  finds a version that is there or was added before (`:944`, `:982`).  A mailer that pre-depends on a
  mail server that is put off, and is visited first, finds none: it visits the server only in the passes
  that do not skip what is missing, is itself listed, and is unpacked in a leg before the server.
- A removal is not put off with what waits for another disc (`:876` skips it) and is done with the first.
  If that leg installs nothing, rpm checks it, and refuses it for the sake of what was to be
  upgraded later; the installation then fails as a whole, when its last leg is done.  `RpmAccepts`
  says that, as long as no leg has failed, rpm has no other cause to refuse what it checks.
- A comment (`pkgcachegen.cc:920`) says that the source cache is written without the file
  provides, on purpose; those that the sources themselves need are in it.

## 4. What is proved

`tlapm` checks, for every value of the constants (any items, URIs, methods, limits and
any number of runs), under the named assumptions `ItemAssumption`, `QueueAssumption`
and `AcquireAssumption` only:

| Theorem (`AcquireProofs`) | Statement |
|---|---|
| `Invariance` | `Spec => []IInv` |
| `TypeCorrect` | `Spec => []TypeOK` |
| `ToFetchCounts` | `Spec => []ToFetchExact` |
| `QueuedAreOpen` | `Spec => []QueuedIsOpen` |
| `ContinueSettles` | `Spec => ContinueMeansSettled` |

None of these is inductive alone.  `ToFetchExact` needs that an item has at most one
`QItem` and that `QueueCounter` says so (`AtMostOnce`), because `ItemDone` decides by
`QueueCounter` whether `ToFetch` goes down; that needs that a handler queues its item
only once `ItemDone` has taken it out; the redirect needs that positions in a queue are
distinct (`Keyed`), so that renaming a `QItem` neither merges nor splits it; deleting
all items at `Shutdown` needs that owners of `QItem`s exist and that what is being
fetched is queued (`QueuedIsOpen`), so that the owners of the `QItem`s are exactly the
freed and the stuck items; and `ContinueMeansSettled` needs that an archive that is
complete is out of the queues and, while `Done`, has its `StoreFilename`
(`CompleteIsKept`).  Their conjunction is `IInv`; TLC confirms it on the instances of
`pipeline` and `discs`.

The argument follows the modules.  First come lemmas on the operators: every handler returns
a *legal* verdict (never `StatFetching`; an archive's never queues what is complete), and
each operator keeps a record `Sound`: the scan order
of `Cycle` is a total order, `Rank` numbers the idle items, and so `Picked` never
exceeds the room in the pipe (`PickedFits`); handing out (`Fed`) changes statuses from
idle to fetching and nothing that is counted; `Enqueue` adds one `QItem` and one to
`ToFetch`, or neither; `ItemDone` removes one of each.  Then there is one lemma
per action, put together in `NextKeeps`.

| Theorem (`AcquireChannelsProofs`) | Assuming | Statement |
|---|---|---|
| `CurrentItemIsLive` | | `Spec => []CurrentItemLive` |
| `ChannelsInvariance` | `OwnURIs` | `Spec => []CInv` |
| `RepliesFindTheirItems` | `OwnURIs` | `Spec => []ReplyFindsItsItem` |
| `PipeDepthCounts` | `OwnURIs` | `Spec => []PipeDepthExact` |
| `NothingGetsLost` | `OwnURIs` | `Spec => []NothingLost` |

`OwnURIs` says that no two items name the same URI and that a redirect stays with its item:
there is a function from URIs to items that all of them respect.  Something like it is needed, since a reply
carries nothing but a URI: with `Redirects <- Colliding` in `MCAcquire` a reply settles the
other item.  The packages and indexes of a run have URIs of their own; where a server
redirects to is not for apt to say.  The instance of `discs` satisfies it, that of
`pipeline` has two items with one URI and the properties hold there all the same.

`CurrentItemLive` needs, next to `IInv`, that the item a worker is busy with is being fetched and has
its `QItem` in that queue (`CurrentFetched`).  The rest is one invariant, `CInv`.  Seen from a queue, the messages read and not yet
handled and those still in the pipe are one sequence of replies, and what the child
holds, what is in its pipe and what is in `OutQueue` one sequence of requests (`Chan`), so a
transfer from one buffer to the next is no step at all.  `Line` relates the two to the
`QItem`s: an item has at most one request under way and no reply behind its final one; if it
has anything under way, a `QItem` of it is at the worker, and the replies lead, redirect
by redirect (`Chain`), from the URI that the `QItem` has to the URI of the request.
So the next reply about an item names the URI its `QItem` has when the reply is handled.  `Deep` says that
`PipeDepth` is the number of items at the worker and within the limit; `Covered`, that without an
error, a dropped request or a death each of these has a request or a final reply;
`Clean`, that without an error there is no dead worker and nothing at a queue that has none.
There is one lemma for each operator of `AcquireQueues` and each kind of message, then one for each action.

| Theorem (`AcquireRefinesProofs`) | Assuming | Statement |
|---|---|---|
| `DownloaderImplemented` | `OwnURIs`, `CopyInPlace` | `Spec => ImplementsDownloader` |

`Downloader`'s `left` is the number of requests that an item can still cause (`Attempts`: its
further sources and retries, the copy, the decompression or the check of a signature), and
`phase` and `at` are read off the `QItem`s.  The proof shows of each action to which steps
of `Downloader` it maps: an enqueue spends an attempt (`Spends`), a settled item is not
touched, `Cycle` starts no more than the window holds (`Deep`), and `Run` returns Continue only when
all is settled.  `RInv` adds to `IInv` and `CInv` that an item is queued with the access
method of its URI and that an archive's position is within its sources.  `CopyInPlace` says that
the method of an item's copy URI is not `Local-Only` (`methods/copy.cc` does not announce it):
else a `Done` of the copy would ask for the copy again, for ever.

| Theorem (`DepCacheProofs`) | Assuming | Statement |
|---|---|---|
| `CacheExact` | `~MayChoose \/ SameProvides` | `Spec => []StatesExact` |
| `CountersRight` | `~MayChoose \/ SameProvides` | `Spec => []CountersExact` |
| `SizesRight` | `~MayChoose \/ SameProvides` | `Spec => []SizesExact` |
| `CacheTypes` | `~MayChoose \/ SameProvides` | `Spec => [](dc \in CacheType)` |
| `ModeSelects` | `~MayChoose` | `Spec => []VersionFollowsMode` |

These hold for any finite set of packages, any versions and dependencies that satisfy
`CacheAssumption` (a dependency's or group is within one version, a negative one stands
alone), and any sequence of marks, saves and restores.  Their first assumption is needed
(see the observations above): either no other candidate is chosen, or the versions of a
package provide the same.  The heart is `OneVersionSame`: a version of the changed package that was or is to
be chosen provides what `Update` looks at, so a dependency that `Update` leaves out is met
as before.  That needs to know that the install version is the current or the candidate one
or provides what they do (`Bounded`), which no property says.  `UpdateExact` then shows
that the groups and packages that are left out have not changed either, and `RecountExact`
that the counters follow: outside `touched` each package counts as before.  The sizes are
corrected for the changed package alone; that this gives the sum over all (`SumChanges`) is
by induction on the sets the sum goes through, for which `SumExists` and `SumUnique`
make the function that `AllSizes` chooses available.  The invariant
`IInv` is the conjunction (`Shape`, `Bounded`, `Exact`, `CountExact`, `SizeExact`) for the cache and for
the saved state.

| Theorem (`PackageManagerProofs`) | Assuming | Statement |
|---|---|---|
| `OrderComplete` | | `Run => []ListComplete` |
| `NoInternalError` | `NoneHalfDone` | `Run => []NothingInternal` |
| `NothingTwice` | `RpmSystem` | `Run => []HandedOnce` |
| `SuccessIsThePlan` | `RpmSystem` | `Run => []PlanReached` |
| `CheckedPasses` | `RpmSystem`, `NothingIgnored` | `Run => []RpmAccepts` |
| `PreDependenciesFirst` | `RpmSystem`, `NothingIgnored`, `GroupsAlike`, `NoHiddenLoop`, `MaxLoops # 0` | `Run => []PreDependsFirst` |

For any packages, dependencies, loops and discs that satisfy the named assumptions.
`ListComplete` is about the list between passes and during one; what makes it inductive
(`Walk`) is that during a pass the three colours of a package say where it is: `Added` if it is
in one of the two lists being built, `AddPending` if a `VisitNode` of it is on the stack,
`InList` if it is in the old list (`Placed`), and that it is there once (`Once`); and that what
the pass has gone by is coloured (`Behind`).  A call enters only a package that is listed and
not coloured, so no package is visited twice and none that does not change; when the pass
is through, the stack is empty and every listed package coloured, so the new lists hold the
same packages.  That `qsort` permutes the list is a fact about the library (`Sorted`).

`NoInternalError` adds `Assembly`: what `OrderInstall` has passed in the list is unpacked
or configured.  So `Perform` finds a package that is to change (it is listed) and has its
file (it is not missing), and after `ConfigureAll` nothing is left.  `NoneHalfDone`, that no
package is unpacked and not configured, is what the rpm back end guarantees: a kept package
that only waits to be configured is listed without a file, and `OrderInstall` would
hand it to `Install` all the same.

The other four are about caches that an rpm system gives.  `RpmSystem`
says that no package is half done, and that or groups are plain: what is not wanted stands in
none (`rpmlistparser.cc` makes no or groups at all, and calls every package of rpm's database
installed).  Nothing is assumed of what obsoletes what: an `Obsoletes` may hit some versions and
not others, and installed packages may obsolete each other.  TLC evaluates all the hypotheses of this table on the
instance of `order` (`WorldFits` in `MCPackageManager`, with `Needs` for the relation that
`NoHiddenLoop` asks for), so the theorems speak of the very machine that is run.

`NothingTwice` and `SuccessIsThePlan` need to know what a *plan* is.  `Chose` makes one by a
fold of marks over all packages; that each mark keeps the cache well formed and lets the
install version follow the mode (`Good`, `Follows`) carries over to the fold by induction on the sets it goes
through, and the lemmas about `Update` of `DepCacheProofs` turn its counters into the fact
that in an unbroken plan every dependency is met (`PlanSound`) and nothing that comes or stays obsoletes anything that
comes or stays (`NoConflict`).  `Legs` is then the inductive invariant: a package whose flag
says that it is still to be done is as the plan found it, or rpm has removed it for something that
obsoletes it and is where the plan wants it (`Lost`), and one whose flag says that it is done is where
the plan sends it, or in the transaction, or to be removed with what replaces it
(`Underway`, `Dealt`); what a newly installed package obsoletes is gone; a leg has everything unless
an archive is missing, in which case it is `transient` (`Archives`).  A transaction changes
`sys` by `Applied`, which leads from there to there (`AppliedUnderway`): what has arrived is never swept
away (`NeverSwept`), and what is lost stays lost until it is installed (`StaysLost`).  What has not arrived
after it awaits another disc, itself or what replaces it (`Lagging`); so a complete leg leads to
`dc.inst` (`AppliedReaches`).

`CheckedPasses` follows the code in what is checked (`NoDeps`), not the option alone.  Without the option
the leg is the whole plan, and the plan is sound.  With it only a leg that removes is checked; a
dependency that fails then is met in the plan, so it fails for the sake of a package that is not where
the plan sends it, and by `Lagging` that package awaits another disc (`ForNow`).  That no leg has failed is needed:
what a failed leg did not do is not done later, nor awaited.  An ignored dependency would be
met in the plan and fail rpm's check.  A leg that fails leaves `ok` false for good, so that success
means that all of them were applied.

`PreDependsFirst` is about an installation that is not split, whose one transaction has everything
in it: there nothing is put off (`Quiet`) and only the last of the four passes, `DepUnPackPre`, decides (`Pre`).  In it a pre-dependency of a package on
the stack is, at any moment, still to be considered, or answered by what is installed, or by a package that is
listed, or on the stack above it, or about to be visited (`Cared`).  What answers it is
listed when the package itself is, unless it was on the stack *below*: then the packages need each
other (`Reaches`), and `VisitNode` ends such a circle by noting a loop.  It looks for loops at the package that a dependency
names, not at those that provide the name, hence `NoHiddenLoop`: what provides a virtual name needs
nothing that pre-depends on it.  `MaxLoops # 0` says that a loop is noted at all, `GroupsAlike` that an or group is not
partly a pre-dependency.  `OrderInstall` then hands the list on in its order (`InStep`).

| Theorem (`MethodAckProofs`) | Statement |
|---|---|
| `AckKeepsRequests` | `Spec => []RequestsKept` |

For any number of requests, any window and any number of questions.  The invariant is
`RequestsKept` with the types of the buffers and the fact that `MyMessages` is empty
outside a wait: the four places a request can be in, read in order, are one sequence that
an action lengthens at the end, regroups, or takes an acknowledgement out of.

| Theorem (`HttpMethodProofs`) | Assuming | Statement |
|---|---|---|
| `HttpInvariance` | `SaneSite` | `Spec => []IInv` |
| `StaysInStep` | `SaneSite` | `Spec => []InStep` |
| `KeepsOwnBytes` | `SaneSite` | `Spec => []OwnBytes` |
| `ReportsDone` | `SaneSite` | `Spec => []DoneIsWhole` |
| `ReportsFailure` | `SaneSite` | `Spec => []FailsForCause` |

For any items, URIs and servers, anything apt may ask for, any pipeline depth, and files of any
size in any framing.  `SaneSite` is about the servers: an unchanged file and nonsense have no
body and a file has one, as HTTP wants it; a redirection names where it leads, nothing else
does, and it leads to another server.  The last is needed because of the counterexample of `Alone.cfg`; the one
before because `Location` is never cleared.  The site of `http` satisfies it.

Replies carry no name, so the invariant has to say what every token in the buffer and on the wire
is.  `Flow` does: what has come, what is on the wire and what the server will not send any more
(`lost`) are, together, the rest of the reply that is being read and whole replies to requests
`rs`; these are, in order, requests for the elements of the queue after the one being answered,
resumed from within what is on disk for their items (`Fits`); and while the
connection is whole nothing is lost, and `rs` with the buffered requests is all that `QueueBack` counts
as sent (`Agrees`).  That a token is read, written, sent or lost regroups the equation, a
redirect or a failure moves the elements it speaks of (`FlowKeeps`), a new request adds to its end
(`FlowExtends`).  `Stage` says what the rest of the reply is at each place of `Loop`
(`Left`): nothing at the top, if the connection is to be used again (`Reusable`); in the
body what the phase of the decoder has to go, which agrees with the limit of the `CircleBuf`
and the length of the file (`Reads`), so that a write never takes a byte of the next reply.
`Books` is about the items: what is queued and what apt has written and the method has not read
was asked for once each and not answered, from a URI its redirections lead to (`Due`); a file is a
beginning of the one file its URI leads to (`Files`), unless it is chunked and was asked for
before; and what has been told is true (`Causes`, `Wholes`).

Two functions of the model are folds, `Handle` over the messages and `FlattenSeq` over replies.
What they compute is proved all the same: an invariant of a fold is the statement that a *set*
of numbers is all of them, and a set, unlike a predicate, can be handed to the library's theorem on
least elements (`NatSet`, `HandleStays`, `FlatConcat`).

| Theorem (`CacheFilesProofs`) | Assuming | Statement |
|---|---|---|
| `FilesInvariance` | `OneWriter` | `Spec => []FInv` |
| `AcceptedCaches` | `OneWriter` | `Spec => AcceptedIsCurrent` |
| `BuildsInvariance` | `OneWriter` | `Spec => []BInv` |
| `BuiltCaches` | `OneWriter` | `Spec => BuiltIsWhole` |
| `RebuiltCaches` | `OneWriter` | `Spec => RebuiltForCause` |

For any package lists and database with any contents, any readers, changes, stops and power
failures, any number of mapped files (`NStores`).  `OneWriter` says that `Roots` has one member
at most; the code does not see to it (section 2), though the lock that `apt-get` takes
keeps two of its own processes apart.

That an accepted cache is current rests on what the named files are at every moment
(`Named`): the package cache is unfinished (`Dirty`, on the disk too), or lacks the
database, or is clean, which means safe on the disk, in one piece and with all provides of what
it was made of (`Whole`); the source cache is unfinished or clean and never has the
database.  A cache that lacks the database is what `ClearFlag` leaves for a moment under the
package cache's name: not dirty, but `CheckValidity` misses the status file.  Nothing that is
kept about a cache may depend on what its indexes are *now*, since they change at any time, so
`Whole` and the rest speak of caches that are `Fresh`: every index has the mtime that the cache
recorded.  An mtime is not given twice except by `UnLock` (`Clock`), so what is stale stays stale
(`Ages`, `AgesStore`), and what is fresh has the contents that were merged (`Dated`).

What a clean cache has, its builder has to have known all along.  `Working` follows the
writer through its list of tasks, which is a rest of the list it started with (`Rest(g)`, for the
*stage* `g`) behind the tasks for single indexes, and `Stage` says what the map has
got to by then: while the sources are merged, that the list that is open was read as it is, or
is another file by now (`Reads`); after `SourcesMerged`, that each index has its provides or a
`collect` task left (`Pending`); after the last of these, that the provides are complete (`Ready`),
in the copy as well (`Copied`); once the database is in, that nothing depends on a file that was
not depended on before, or `newdeps` says so (`Entered`), so that `StatusMerged` asks
for the right provides.  The other processes only read (`Apart`).  One lemma per action of the
writer, one for all actions of a reader, and one each for a change and a power failure make `FNext`.

The other two need to know what `FInv` lets go: a build that has met a change may hold
anything, as long as CheckValidity will not accept it, and the maps of the readers are of no
concern to the files.  `BInv` adds to `FInv` what holds of every builder, reader or writer,
while the indexes are still those it started from and the source cache is the one it checked
(`Quiet`).  `On` says, for each point of its task list, that the map has exactly the lists
that were gone through (`Opened`, `Sourced`, `Filled`), each once (`Single`) and as it is now
(`Exact`); at the last task that is `IsCurrent`, but for a list that was replaced between its
open and its stat.  Nobody else writes to the map (`Alone`), and the source cache that was
checked stays `Valid` until it is read or replaced.  `Stamps` ties the history variable `made`
to this: a cache whose build ended after the last change is `Valid`, and `ValidMatches` shows
that to be what CheckValidity accepts, which is `RebuiltForCause`.  After a change a build's
`since` is behind the clock for good (`ChangeKeeps`), and a power failure leaves a valid cache
alone because `FInv` has it clean on the disk (`PowerKeeps`).
TLC confirms `FInv` and `BInv` on the instance of `cachefiles`.

Only model-checked, and why:

- all liveness, which the prover cannot do;
- of `HttpMethod`, what happens where `SaneSite` does not hold;
- `DepCacheInstall`, the resolver and the commands: their subject is what a call reaches
  through any number of inner calls, and `DoUpgrade` is a recursive operator;
- the four properties of `PackageManager` where the assumptions of their theorems do not hold;
- nothing of the cache files, but their theorems assume `OneWriter`: with two processes that may
  write the directory `AcceptedIsCurrent` does not hold (section 2).

## 5. What is not modelled, and the plan

Not modelled of the components above: `pkgAcquire::Clean`, the progress display, partial
messages and the parsing of message headers; of http authentication, `100 Continue` and the
proxy; the other methods' protocols; of the dependency cache the flags that do not steer a
mark (`Auto`, `AutoKept`), the policy bits, which repeat the `Min` bits because
`IsImportantDep` is `IsCritical`, `MarkInstall1`, which nothing calls, and the static memo of
`CheckDep`; what sections 2 names of the others.

Not modelled at all: policy and version matching (a computation over the parsed
preferences, without state of its own); the records, hash tables and allocator of the cache
(no interleaving, and limits of megabytes); the parsing of indexes, headers, source lists and
configuration; the Debian back end, which this tree does not build; the Lua interpreter, the
generated Python bindings and the repository tools.

What would come next, in order:

1. That `StatesExact` and `CountersExact` hold during `MarkInstall` and the resolver too,
   which make marks only through the operators of `DepCache`.
2. Smaller pieces: `Policy` (pins against a reference choice), the allocator of `mmap`
   (disjoint pools, growth, 32-bit rounding), the ftp method's data connections.
