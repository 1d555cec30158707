SPECIFICATION Run
CONSTANTS
    Package = {"libc", "sh", "perl", "exim", "postfix", "mailx", "mta"}
    Version = {"c1", "c2", "s1", "s2", "p1", "p2", "e1", "f1", "m1", "m2"}
    Dependency = {"c2_perl", "p2_libc", "p1_libc", "s2_perl", "p2_sh", "s2_libc", "s1_exim", "f1_exim", "f1_mta", "m1_mta", "m2_mta"}
    NoVer = "none"
    Pkg <- UpgradePkg
    Ver <- UpgradeVer
    Dep <- Peaceful
    Purges = {}
    ReInstalls = {}
    MayChoose = FALSE
    GuardUpTo = 0
    Essential = {"sh"}
    Important = {}
    Priority <- UpgradePriority
    Name <- UpgradeName
    MaxLoops = 20
    Immediate = TRUE
    CopyAll = FALSE
    Asked <- UpgradeChoices
    Discs = {{"libc", "sh", "perl", "postfix", "mailx"}, {"libc", "perl", "mailx"}, {"sh", "postfix"}, {"perl", "postfix"}}
INVARIANT PutOffTogether
CHECK_DEADLOCK FALSE
