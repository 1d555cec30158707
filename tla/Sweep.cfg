SPECIFICATION Shell
CONSTANTS
    Package = {"lib", "app", "plug", "exim", "postfix", "mailx", "desk", "xpdf", "evince", "mta", "sendmail", "viewer"}
    Version = {"l1", "l2", "a1", "a2", "g1", "e1", "f1", "m1", "m2", "d1", "x1", "v1"}
    Dependency = {"a1_lib", "a2_lib", "g1_lib", "g1_exim", "f1_exim", "m1_mta", "m2_send", "m2_post", "d1_app", "d1_view", "x1_send"}
    NoVer = "none"
    Pkg <- DesktopPkg
    Ver <- DesktopVer
    Dep <- DesktopDep
    Purges = {}
    ReInstalls = {}
    MayChoose = FALSE
    GuardUpTo = 0
    Groups <- DesktopGroups
    Prio <- DesktopPrio
    MaxDepth = 100
    Roots = {}
    PkgList <- DesktopList
    Targets <- DesktopTargets
    Essential = {}
    Importance <- DesktopNumber
    Priority <- DesktopPriority
    MaxRounds = 10
    Held = {}
    Pin <- DesktopNumber
    RemoveDepends = TRUE
    Asked = {"lib", "plug", "desk"}
    MaxAsks = 2
    MaxCommands = 2
PROPERTIES
    SweepHarmless
