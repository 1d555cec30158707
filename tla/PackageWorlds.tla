------------------------------ MODULE PackageWorlds ------------------------------
(***************************************************************************)
(* Small package caches, as tables.  A dependency is named for the version *)
(* that has it and for its target; "none" is no version.                   *)
(***************************************************************************)
EXTENDS Integers, Sequences

P(current, candidate, needs) ==
    [current |-> current, candidate |-> candidate, needs |-> needs,
     configFiles |-> candidate = "b1"]
V(pkg, rank, provides) ==
    [pkg |-> pkg, rank |-> rank, provides |-> provides, files |-> pkg # "app",
     installed |-> 10 + rank, archive |-> rank]
D(type, parent, target, hits, alts, last) ==
    [type |-> type, parent |-> parent, target |-> target, hits |-> hits, alts |-> alts,
     last |-> last, ignored |-> FALSE]
Ignored(dependency) == [dependency EXCEPT !.ignored = TRUE]

-----------------------------------------------------------------------------
\* Two mail servers that provide and conflict with mta; a mailer whose new version
\* wants one of them by name; bsd, half unpacked, obsoletes the mailer
\* and does without.  That qmail needs bsd the packaging system is told to ignore.
MailPackage == {"exim", "qmail", "mailx", "bsd", "mta"}
MailVersion == {"e1", "q1", "q2", "m1", "m2", "b1"}
MailDependency == {"e1_mta", "q1_mta", "q2_exim", "q2_mailx", "q2_bsd", "m1_mta", "m2_exim",
                   "m2_qmail", "b1_mailx", "b1_mta"}
MailPkg ==
    [p \in MailPackage |->
     CASE p = "exim" -> P("e1", "e1", "Configure")
       [] p = "qmail" -> P("none", "q2", "Nothing")
       [] p = "mailx" -> P("m1", "m2", "Nothing")
       [] p = "bsd" -> P("none", "b1", "Unpack")
       [] p = "mta" -> P("none", "none", "Nothing")]
MailVer ==
    [v \in MailVersion |->
     CASE v = "e1" -> V("exim", 1, {"mta"}) [] v = "q1" -> V("qmail", 1, {"mta"})
       [] v = "q2" -> V("qmail", 2, {"mta"}) [] v = "m1" -> V("mailx", 1, {})
       [] v = "m2" -> V("mailx", 2, {}) [] v = "b1" -> V("bsd", 1, {})]
MailDep ==
    [d \in MailDependency |->
     CASE d = "e1_mta" -> D("Conflicts", "e1", "mta", {"e1", "q1", "q2"}, {"e1_mta"}, TRUE)
       [] d = "q1_mta" -> D("Conflicts", "q1", "mta", {"e1", "q1", "q2"}, {"q1_mta"}, TRUE)
       [] d = "q2_exim" -> D("Conflicts", "q2", "exim", {"e1"}, {"q2_exim"}, TRUE)
       [] d = "q2_mailx" -> D("Suggests", "q2", "mailx", {"m1", "m2"}, {"q2_mailx"}, TRUE)
       [] d = "q2_bsd" -> Ignored(D("Depends", "q2", "bsd", {"b1"}, {"q2_bsd"}, TRUE))
       [] d = "m1_mta" -> D("Depends", "m1", "mta", {"e1", "q1", "q2"}, {"m1_mta"}, TRUE)
       [] d = "m2_exim" -> D("Depends", "m2", "exim", {"e1"}, {"m2_exim"}, FALSE)
       [] d = "m2_qmail" -> D("Depends", "m2", "qmail", {"q2"}, {"m2_exim", "m2_qmail"}, TRUE)
       [] d = "b1_mailx" -> D("Obsoletes", "b1", "mailx", {"m1"}, {"b1_mailx"}, TRUE)
       [] d = "b1_mta" -> D("PreDepends", "b1", "mta", {"q1", "q2"}, {"b1_mta"}, TRUE)]

-----------------------------------------------------------------------------
\* An editor by any name, and one by its own; two packages that need each other
\* although one conflicts with the other.
EditorsPkg ==
    [ide |-> P("none", "i1", "Nothing"), word |-> P("none", "w1", "Nothing"),
     vi |-> P("none", "v1", "Nothing"), emacs |-> P("none", "s1", "Nothing"),
     lisp |-> P("z0", "z1", "Nothing"), tick |-> P("none", "t1", "Nothing"),
     tock |-> P("none", "k1", "Nothing"), editor |-> P("none", "none", "Nothing")]
EditorsVer ==
    [i1 |-> V("ide", 1, {}), w1 |-> V("word", 1, {}), v1 |-> V("vi", 1, {"editor"}),
     s1 |-> V("emacs", 1, {"editor"}), z0 |-> V("lisp", 1, {}), z1 |-> V("lisp", 2, {}),
     t1 |-> V("tick", 1, {}), k1 |-> V("tock", 1, {})]
EditorsDep ==
    [i1_editor |-> D("Depends", "i1", "editor", {"v1", "s1"}, {"i1_editor"}, TRUE),
     i1_emacs  |-> D("Depends", "i1", "emacs", {"s1"}, {"i1_emacs"}, TRUE),
     w1_lisp   |-> D("Conflicts", "w1", "lisp", {"z0"}, {"w1_lisp"}, TRUE),
     w1_editor |-> D("Depends", "w1", "editor", {"v1", "s1"}, {"w1_editor"}, TRUE),
     v1_lisp   |-> D("Conflicts", "v1", "lisp", {"z0", "z1"}, {"v1_lisp"}, TRUE),
     s1_lisp   |-> D("Depends", "s1", "lisp", {"z0", "z1"}, {"s1_lisp"}, TRUE),
     t1_not    |-> D("Conflicts", "t1", "tock", {"k1"}, {"t1_not"}, TRUE),
     t1_tock   |-> D("Depends", "t1", "tock", {"k1"}, {"t1_tock"}, TRUE),
     k1_not    |-> D("Conflicts", "k1", "tick", {"t1"}, {"k1_not"}, TRUE),
     k1_tick   |-> D("Depends", "k1", "tick", {"t1"}, {"k1_tick"}, TRUE)]
EditorsGroups ==
    [i1 |-> << <<"i1_editor">>, <<"i1_emacs">> >>, w1 |-> << <<"w1_lisp">>, <<"w1_editor">> >>,
     v1 |-> << <<"v1_lisp">> >>, s1 |-> << <<"s1_lisp">> >>, z0 |-> <<>>, z1 |-> <<>>,
     t1 |-> << <<"t1_not">>, <<"t1_tock">> >>, k1 |-> << <<"k1_not">>, <<"k1_tick">> >>]
EditorsPrio ==
    [i1 |-> 1, w1 |-> 2, v1 |-> 3, s1 |-> 4, z0 |-> 5, z1 |-> 6, t1 |-> 7, k1 |-> 8]

-----------------------------------------------------------------------------
\* An upgrade: a library that conflicts with the old perl, which needs the new
\* library to be unpacked; shell and perl need each other, and the old shell a mail
\* server; another takes its place and obsoletes it; the new mailer obsoletes the old shell,
\* not the new one.
UpgradePkg ==
    [libc |-> P("c1", "c2", "Nothing"), sh |-> P("s1", "s2", "Nothing"),
     perl |-> P("p1", "p2", "Nothing"), exim |-> P("e1", "e1", "Nothing"),
     postfix |-> P("none", "f1", "Nothing"), mailx |-> P("m1", "m2", "Nothing"),
     mta |-> P("none", "none", "Nothing")]
UpgradeVer ==
    [c1 |-> V("libc", 1, {}), c2 |-> V("libc", 2, {}), s1 |-> V("sh", 1, {}),
     s2 |-> V("sh", 2, {}), p1 |-> V("perl", 1, {}), p2 |-> V("perl", 2, {}),
     e1 |-> V("exim", 1, {"mta"}), f1 |-> V("postfix", 1, {"mta"}),
     m1 |-> V("mailx", 1, {}), m2 |-> V("mailx", 2, {})]
UpgradeDep ==
    [c2_perl |-> D("Conflicts", "c2", "perl", {"p1"}, {"c2_perl"}, TRUE),
     p2_libc |-> D("PreDepends", "p2", "libc", {"c2"}, {"p2_libc"}, TRUE),
     p1_libc |-> D("Depends", "p1", "libc", {"c1", "c2"}, {"p1_libc"}, TRUE),
     s2_perl |-> D("Depends", "s2", "perl", {"p1", "p2"}, {"s2_perl"}, TRUE),
     p2_sh   |-> D("Depends", "p2", "sh", {"s2"}, {"p2_sh"}, TRUE),
     s2_libc |-> D("PreDepends", "s2", "libc", {"c1", "c2"}, {"s2_libc"}, TRUE),
     s1_exim |-> D("Depends", "s1", "exim", {"e1"}, {"s1_exim"}, TRUE),
     f1_exim |-> D("Obsoletes", "f1", "exim", {"e1"}, {"f1_exim"}, TRUE),
     f1_mta  |-> D("Conflicts", "f1", "mta", {"e1", "f1"}, {"f1_mta"}, TRUE),
     m1_mta  |-> D("Depends", "m1", "mta", {"e1", "f1"}, {"m1_mta"}, TRUE),
     m2_mta  |-> D("PreDepends", "m2", "mta", {"f1"}, {"m2_mta"}, TRUE),
     m2_sh   |-> D("Obsoletes", "m2", "sh", {"s1"}, {"m2_sh"}, TRUE)]
UpgradeName ==
    [libc |-> 1, sh |-> 2, perl |-> 3, exim |-> 4, postfix |-> 5, mailx |-> 6, mta |-> 7]
UpgradePriority ==
    [c1 |-> 5, c2 |-> 5, s1 |-> 4, s2 |-> 4, p1 |-> 0, p2 |-> 0, e1 |-> 0, f1 |-> 0,
     m1 |-> 3, m2 |-> 3]
UpgradeChoices ==
    [libc |-> {"keep", "install"}, sh |-> {"keep", "install"}, perl |-> {"keep", "install"},
     exim |-> {"keep", "delete"}, postfix |-> {"keep", "install"},
     mailx |-> {"keep", "install", "reinstall", "delete"}, mta |-> {"keep"}]

-----------------------------------------------------------------------------
\* A desktop: an application and a plugin that want different versions of a library; a
\* mail server that obsoletes another, and a mailer that wants it, or else something that
\* no source has; a task that needs the application and a viewer, of which there are two,
\* the first without what it needs.
DesktopPackage == {"lib", "app", "plug", "exim", "postfix", "mailx", "desk", "xpdf", "evince",
                   "mta", "sendmail", "viewer"}
DesktopVersion == {"l1", "l2", "a1", "a2", "g1", "e1", "f1", "m1", "m2", "d1", "x1", "v1"}
DesktopDependency == {"a1_lib", "a2_lib", "g1_lib", "g1_exim", "f1_exim", "m1_mta", "m2_send",
                      "m2_post", "d1_app", "d1_view", "x1_send"}
DesktopPkg ==
    [p \in DesktopPackage |->
     CASE p = "lib" -> P("l1", "l2", "Nothing") [] p = "app" -> P("a1", "a2", "Nothing")
       [] p = "plug" -> P("g1", "g1", "Nothing")
       [] p = "exim" -> P("e1", "e1", "Nothing")
       [] p = "postfix" -> P("none", "f1", "Nothing")
       [] p = "mailx" -> P("m1", "m2", "Nothing")
       [] p = "desk" -> P("none", "d1", "Nothing")
       [] p = "xpdf" -> P("none", "x1", "Nothing")
       [] p = "evince" -> P("none", "v1", "Nothing")
       [] p = "mta" -> P("none", "none", "Nothing")
       [] p = "sendmail" -> P("none", "none", "Nothing")
       [] p = "viewer" -> P("none", "none", "Nothing")]
DesktopVer ==
    [v \in DesktopVersion |->
     CASE v = "l1" -> V("lib", 1, {}) [] v = "l2" -> V("lib", 2, {})
       [] v = "a1" -> V("app", 1, {}) [] v = "a2" -> V("app", 2, {})
       [] v = "g1" -> V("plug", 1, {}) [] v = "e1" -> V("exim", 1, {"mta"})
       [] v = "f1" -> V("postfix", 1, {"mta"}) [] v = "m1" -> V("mailx", 1, {})
       [] v = "m2" -> V("mailx", 2, {}) [] v = "d1" -> V("desk", 1, {})
       [] v = "x1" -> V("xpdf", 1, {"viewer"})
       [] v = "v1" -> V("evince", 1, {"viewer"})]
DesktopDep ==
    [d \in DesktopDependency |->
     CASE d = "a1_lib" -> D("Depends", "a1", "lib", {"l1", "l2"}, {"a1_lib"}, TRUE)
       [] d = "a2_lib" -> D("Depends", "a2", "lib", {"l2"}, {"a2_lib"}, TRUE)
       [] d = "g1_lib" -> D("Depends", "g1", "lib", {"l1"}, {"g1_lib"}, TRUE)
       [] d = "g1_exim" -> D("Depends", "g1", "exim", {"e1"}, {"g1_exim"}, TRUE)
       [] d = "f1_exim" -> D("Obsoletes", "f1", "exim", {"e1"}, {"f1_exim"}, TRUE)
       [] d = "m1_mta" -> D("Depends", "m1", "mta", {"e1", "f1"}, {"m1_mta"}, TRUE)
       [] d = "m2_send" -> D("Depends", "m2", "sendmail", {}, {"m2_send"}, FALSE)
       [] d = "m2_post" -> D("Depends", "m2", "postfix", {"f1"}, {"m2_send", "m2_post"}, TRUE)
       [] d = "d1_app" -> D("Depends", "d1", "app", {"a2"}, {"d1_app"}, TRUE)
       [] d = "d1_view" -> D("Depends", "d1", "viewer", {"x1", "v1"}, {"d1_view"}, TRUE)
       [] d = "x1_send" -> D("Depends", "x1", "sendmail", {}, {"x1_send"}, TRUE)]
DesktopGroups ==
    [v \in DesktopVersion |->
     CASE v = "l1" -> <<>> [] v = "l2" -> <<>> [] v = "a1" -> << <<"a1_lib">> >>
       [] v = "a2" -> << <<"a2_lib">> >>
       [] v = "g1" -> << <<"g1_lib">>, <<"g1_exim">> >> [] v = "e1" -> <<>>
       [] v = "f1" -> << <<"f1_exim">> >> [] v = "m1" -> << <<"m1_mta">> >>
       [] v = "m2" -> << <<"m2_send", "m2_post">> >>
       [] v = "d1" -> << <<"d1_app">>, <<"d1_view">> >>
       [] v = "x1" -> << <<"x1_send">> >> [] v = "v1" -> <<>>]
DesktopTargets ==
    [d \in DesktopDependency |->
     CASE d = "a1_lib" -> <<"l2", "l1">> [] d = "a2_lib" -> <<"l2">>
       [] d = "g1_lib" -> <<"l1">> [] d = "g1_exim" -> <<"e1">>
       [] d = "f1_exim" -> <<"e1">> [] d = "m1_mta" -> <<"e1", "f1">>
       [] d = "m2_send" -> <<>> [] d = "m2_post" -> <<"f1">> [] d = "d1_app" -> <<"a2">>
       [] d = "d1_view" -> <<"x1", "v1">> [] d = "x1_send" -> <<>>]
DesktopList == <<"lib", "app", "plug", "exim", "postfix", "mailx", "desk", "xpdf", "evince">>
DesktopPrio ==
    [l1 |-> 1, l2 |-> 2, a1 |-> 3, a2 |-> 4, g1 |-> 5, e1 |-> 6, f1 |-> 7, m1 |-> 8,
     m2 |-> 9, d1 |-> 10, x1 |-> 11, v1 |-> 12]
DesktopPriority == [v \in DesktopVersion |-> IF v \in {"l1", "l2"} THEN 1 ELSE 3]
DesktopNumber == [p \in DesktopPackage |-> 0]
=============================================================================
