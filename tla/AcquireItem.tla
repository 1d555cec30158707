----------------------------- MODULE AcquireItem -----------------------------
(***************************************************************************)
(* What an Acquire::Item decides when a method process answers it: the     *)
(* Done and Failed handlers of pkgAcqIndex, pkgAcqIndexRel, pkgAcqArchive  *)
(* and pkgAcqFile (apt-pkg/acquire-item.cc).  The handlers are functions   *)
(* from the item's own state and the answer to a verdict; module Acquire   *)
(* applies the verdict to the queues.                                      *)
(*                                                                         *)
(* File names, sizes and digests are reduced to what the handlers branch   *)
(* on: a "bad" answer is one that fails the size, checksum or fingerprint  *)
(* check, a "norename" answer one whose final rename or symlink fails.     *)
(***************************************************************************)
EXTENDS Naturals, Sequences

CONSTANTS
    Items,      \* the Acquire::Item objects a caller may construct
    URI,        \* the URIs they fetch
    NoURI,      \* "nothing to queue"
    Access,     \* access methods: http, file, cdrom, copy, xz, gpg ...
    AccessOf,   \* [URI -> Access]
    Method,     \* [Access -> MethodConfig], what 100 Capabilities announced
    Conf,       \* [Items -> ItemConf], how each item was constructed
    SourceSymlinks  \* Acquire::Source-Symlinks

MethodConfig == [pipeline: BOOLEAN, localOnly: BOOLEAN, removable: BOOLEAN,
                 needsCleanup: BOOLEAN, single: BOOLEAN, preferred: BOOLEAN]

\* sources is the list Vf walks for an archive and the single URI otherwise;
\* copy is the "copy:" URI, post the decompression or "gpg:" URI; signed says
\* that a Release file is a Master of an authenticated repository.
ItemConf == [kind: {"index", "rel", "archive", "file"}, sources: Seq(URI),
             copy: URI, post: URI, retries: Nat, signed: BOOLEAN]

ASSUME ItemAssumption ==
    /\ NoURI \notin URI
    /\ AccessOf \in [URI -> Access]
    /\ Method \in [Access -> MethodConfig]
    /\ Conf \in [Items -> ItemConf]
    /\ SourceSymlinks \in BOOLEAN
    /\ \A i \in Items : Conf[i].kind # "archive" => Len(Conf[i].sources) = 1

Status == {"Idle", "Fetching", "Done", "Error"}

\* uri is Desc.URI, vf the position of Vf in the source list, second the
\* Decompression or Authentication flag, store a non-empty StoreFilename.
ItemState == [complete: BOOLEAN, uri: URI \cup {NoURI}, vf: Nat \ {0}, retries: Nat,
              second: BOOLEAN, store: BOOLEAN]

\* The outcomes of the checks a Done handler makes; "ims" is IMS-Hit: true.
Answer == {"ok", "bad", "ims", "norename"}

NewState(i) ==
    [complete |-> FALSE, uri |-> NoURI, vf |-> 1, retries |-> Conf[i].retries,
     second |-> FALSE, store |-> Conf[i].kind = "archive"]

\* What the handler leaves behind: the new item state, Status, whether it
\* calls Dequeue, and the URI it hands to QueueURI (NoURI: none).
Verdict(it, st, deq, u) == [it |-> it, status |-> st, dequeue |-> deq, next |-> u]

Verdicts == [it: ItemState, status: Status, dequeue: BOOLEAN,
             next: URI \cup {NoURI}]

Settled(it, st) == Verdict(it, st, TRUE, NoURI)

\* QueueURI with Desc.URI changed to u.
Requeue(it, u, deq) == Verdict([it EXCEPT !.uri = u], "Done", deq, u)

-----------------------------------------------------------------------------
(* pkgAcqArchive::QueueNext.  cached: the archive directory already holds a *)
(* file of the right size.  HasNext: a source is left to try and no error is *)
(* pending, which would make QueueNext return false.                         *)

HasNext(i, it, err) == it.vf <= Len(Conf[i].sources) /\ ~err

QueueNext(i, it, cached) ==
    IF cached
    THEN Verdict([it EXCEPT !.complete = TRUE, !.store = TRUE], "Done", FALSE, NoURI)
    ELSE Requeue([it EXCEPT !.vf = @ + 1], Conf[i].sources[it.vf], FALSE)

-----------------------------------------------------------------------------
(* Done handlers.  a is the access method that answered; methods of local   *)
(* media answer with a Filename other than DestFile.                        *)

\* Variant with a bug: what was copied into place is taken for a foreign file.
InPlace_Never(a) == FALSE

InPlace(a) == ~Method[a].localOnly

ArchiveDone(it, v) ==
    IF v = "bad" THEN Settled(it, "Error")
    ELSE Settled([it EXCEPT !.complete = TRUE, !.store = TRUE],
                 IF v = "norename" THEN "Error" ELSE "Done")

FileDone(i, it, a, v) ==
    IF v = "bad" THEN Verdict(it, "Error", FALSE, NoURI)
    ELSE LET got == [it EXCEPT !.complete = TRUE] IN
         IF v = "ims" \/ InPlace(a) THEN Settled(got, "Done")
         ELSE IF ~SourceSymlinks \/ Method[a].removable
              THEN Requeue(got, Conf[i].copy, TRUE)
              ELSE IF v = "norename" THEN Settled(it, "Error")
                                     ELSE Settled(got, "Done")

IndexDone(i, it, v) ==
    IF it.second
    THEN Settled(it, IF v \in {"bad", "norename"} THEN "Error" ELSE "Done")
    ELSE LET got == [it EXCEPT !.complete = TRUE] IN
         IF v = "ims" THEN Settled(got, "Done")
         ELSE Requeue([got EXCEPT !.second = TRUE], Conf[i].post, TRUE)

RelDone(i, it, a, v) ==
    IF it.second
    THEN Settled(it, IF v \in {"bad", "norename"} THEN "Error" ELSE "Done")
    ELSE LET got == [it EXCEPT !.complete = TRUE] IN
         IF v = "ims" THEN Settled(got, "Done")
         ELSE IF ~InPlace(a) THEN Requeue(got, Conf[i].copy, TRUE)
         ELSE IF Conf[i].signed
              THEN Requeue([got EXCEPT !.second = TRUE], Conf[i].post, TRUE)
              ELSE Settled(got, IF v \in {"bad", "norename"} THEN "Error" ELSE "Done")

Done(i, it, a, v) ==
    CASE Conf[i].kind = "archive" -> ArchiveDone(it, v)
      [] Conf[i].kind = "file"    -> FileDone(i, it, a, v)
      [] Conf[i].kind = "index"   -> IndexDone(i, it, v)
      [] Conf[i].kind = "rel"     -> RelDone(i, it, a, v)

-----------------------------------------------------------------------------
(* Failed handlers.  count is QueueCounter, transient the Transient-Failure *)
(* flag of the 400 message, err that an error is pending.                    *)

ItemFailed(it, a, transient, count) ==
    LET last == count <= 1 IN
    Verdict(it, IF ~last \/ (Method[a].localOnly /\ transient) THEN "Idle" ELSE "Error",
            last, NoURI)

\* Variant with a bug: the sources are walked again whatever Retries says.
ArchiveFailed_NoLimit(i, it, a, transient, count, cached, err) ==
    LET again == [it EXCEPT !.retries = @ - 1, !.vf = 1] IN
    IF HasNext(i, it, err) THEN QueueNext(i, it, cached)
    ELSE IF ~Method[a].localOnly /\ transient /\ HasNext(i, again, err)
    THEN QueueNext(i, again, cached)
    ELSE ItemFailed([it EXCEPT !.store = FALSE], a, transient, count)

ArchiveFailed(i, it, a, transient, count, cached, err) ==
    LET lost  == [it EXCEPT !.store = FALSE]
        again == [it EXCEPT !.retries = @ - 1, !.vf = 1]
    IN IF Method[a].removable /\ transient
       THEN ItemFailed([lost EXCEPT !.vf = Len(Conf[i].sources) + 1], a, transient, count)
       ELSE IF HasNext(i, it, err) THEN QueueNext(i, it, cached)
       ELSE IF it.retries > 0 /\ ~Method[a].localOnly /\ transient
       THEN IF HasNext(i, again, err) THEN QueueNext(i, again, cached)
            ELSE ItemFailed([again EXCEPT !.store = FALSE], a, transient, count)
       ELSE ItemFailed(lost, a, transient, count)

FileFailed(it, a, transient, count) ==
    IF it.retries > 0 /\ ~Method[a].localOnly /\ transient
    THEN Requeue([it EXCEPT !.retries = @ - 1], it.uri, FALSE)
    ELSE ItemFailed(it, a, transient, count)

RelFailed(i, it, a, transient, count) ==
    IF (Method[a].localOnly \/ ~transient) /\ ~Conf[i].signed
    THEN Settled([it EXCEPT !.complete = FALSE], "Done")
    ELSE ItemFailed(it, a, transient, count)

Failed(i, it, a, transient, count, cached, err) ==
    CASE Conf[i].kind = "archive" -> ArchiveFailed(i, it, a, transient, count, cached, err)
      [] Conf[i].kind = "file"    -> FileFailed(it, a, transient, count)
      [] Conf[i].kind = "index"   -> ItemFailed(it, a, transient, count)
      [] Conf[i].kind = "rel"     -> RelFailed(i, it, a, transient, count)

-----------------------------------------------------------------------------
\* The constructors: an archive queues its first source or finds the file in
\* the cache, every other item queues its only URI.
Constructed(i, cached, err) ==
    LET it == NewState(i)
        u  == Conf[i].sources[1] IN
    IF Conf[i].kind # "archive" THEN Verdict([it EXCEPT !.uri = u], "Idle", FALSE, u)
    ELSE IF ~HasNext(i, it, err) THEN Verdict(it, "Idle", FALSE, NoURI)
    ELSE IF cached THEN QueueNext(i, it, TRUE)
    ELSE [QueueNext(i, it, FALSE) EXCEPT !.status = "Idle"]

\* Variant with a bug: only what never completed is cleared.
Finished_Keep(i, it, st) == [it EXCEPT !.store = @ /\ (st # "Idle" \/ it.complete)]

\* pkgAcqArchive::Finished clears StoreFilename of what did not arrive.
Finished(i, it, st) ==
    [it EXCEPT !.store = @ /\ st = "Done" /\ it.complete]
=============================================================================
