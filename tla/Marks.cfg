SPECIFICATION Spec
CONSTANTS
    Package = {"exim", "qmail", "mailx", "bsd", "mta"}
    Version = {"e1", "q1", "q2", "m1", "m2", "b1"}
    Dependency = {"e1_mta", "q1_mta", "q2_exim", "q2_mailx", "q2_bsd", "m1_mta", "m2_exim", "m2_qmail", "b1_mailx", "b1_mta"}
    NoVer = "none"
    Pkg <- MailPkg
    Ver <- MailVer
    Dep <- MailDep
    Purges = {"bsd", "mailx"}
    ReInstalls = {"mailx"}
    MayChoose = TRUE
    GuardUpTo = 1
INVARIANTS
    StatesExact
    CountersExact
    SizesExact
CHECK_DEADLOCK FALSE
