----------------------------- MODULE MCCacheFiles ----------------------------
EXTENDS CacheFiles

CONSTANTS root, user, main, rpmdb, f, g

\* Two paths, so that a database may depend on a file no source depends on.
MCSources == <<main>>
MCKinds == (main :> {[needs |-> {}, owns |-> {f, g}], [needs |-> {f}, owns |-> {g}]}
            @@ rpmdb :> {[needs |-> {}, owns |-> {f}], [needs |-> {g}, owns |-> {f}]})
=============================================================================
