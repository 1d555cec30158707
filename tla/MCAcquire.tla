------------------------------ MODULE MCAcquire ------------------------------
(***************************************************************************)
(* Small instances of Acquire.  The methods announce the capabilities of   *)
(* the ones under methods/; every scenario picks a few items of one world. *)
(***************************************************************************)
EXTENDS AcquireRefines

Caps(flags) ==
    [pipeline |-> "pipeline" \in flags, localOnly |-> "localOnly" \in flags,
     removable |-> "removable" \in flags, needsCleanup |-> "needsCleanup" \in flags,
     single |-> "single" \in flags, preferred |-> "preferred" \in flags]

MCAccess == {"http", "ftp", "cdrom", "copy", "gzip", "gpg"}
MCMethod ==
    [a \in MCAccess |->
        CASE a = "http"  -> Caps({"pipeline"})
          [] a = "ftp"   -> Caps({})
          [] a = "cdrom" -> Caps({"single", "localOnly", "removable", "needsCleanup",
                                  "preferred"})
          [] OTHER       -> Caps({"single"})]

\* Where each URI lives: <<access, host>>.
Home ==
    [x1 |-> <<"http", "h">>, x3 |-> <<"http", "h">>,
     x9 |-> <<"http", "h">>,
     y1 |-> <<"ftp", "g">>, c1 |-> <<"cdrom", "d">>, c2 |-> <<"cdrom", "d">>,
     c3 |-> <<"cdrom", "d">>, p1 |-> <<"copy", "">>, p2 |-> <<"copy", "">>, z1 |-> <<"gzip", "">>,
     s1 |-> <<"gpg", "">>]

Archive(sources, retries) ==
    [kind |-> "archive", sources |-> sources, copy |-> "p1", post |-> "z1",
     retries |-> retries, signed |-> FALSE]
Plain(kind, source, copy, post, retries, signed) ==
    [kind |-> kind, sources |-> <<source>>, copy |-> copy, post |-> post,
     retries |-> retries, signed |-> signed]

World ==
    [arch1 |-> Archive(<<"x1">>, 1),
     arch3 |-> Archive(<<"x3", "y1">>, 0),
     disc2 |-> Archive(<<"c2">>, 0),
     index |-> Plain("index", "x3", "p1", "z1", 0, FALSE),
     relcd |-> Plain("rel", "c3", "p2", "s1", 0, TRUE),
     file  |-> Plain("file", "x3", "p1", "z1", 1, FALSE),
     filecd |-> Plain("file", "c1", "p1", "z1", 0, FALSE)]

MCConf     == [i \in Items |-> World[i]]
MCAccessOf == [u \in URI |-> Home[u][1]]
MCHostOf   == [u \in URI |-> Home[u][2]]

\* Two pipelined requests to one host, the first redirected to a fresh URI or
\* (Colliding) to the URI of the second.
NoRedirect == [u \in URI |-> {}]
ToFresh    == [u \in URI |-> IF u = "x1" THEN {"x9"} ELSE {}]
Colliding  == [u \in URI |-> IF u = "x1" THEN {"x3"} ELSE {}]
=============================================================================
