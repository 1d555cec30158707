SPECIFICATION FairGo
CONSTANTS
    Package = {"ide", "word", "vi", "emacs", "lisp", "editor", "tick", "tock"}
    Version = {"i1", "w1", "v1", "s1", "z0", "z1", "t1", "k1"}
    Dependency = {"i1_editor", "i1_emacs", "w1_lisp", "w1_editor", "v1_lisp", "s1_lisp", "t1_not", "t1_tock", "k1_not", "k1_tick"}
    NoVer = "none"
    Pkg <- EditorsPkg
    Ver <- EditorsVer
    Dep <- EditorsDep
    Purges = {}
    ReInstalls = {}
    MayChoose = FALSE
    GuardUpTo = 0
    Groups <- EditorsGroups
    Prio <- EditorsPrio
    MaxDepth = 3
    Roots = {"ide", "word", "vi", "tick"}
PROPERTIES
    InstallEndsOrWavers
    PulledInByNeed
CHECK_DEADLOCK FALSE
