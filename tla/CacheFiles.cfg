CONSTANTS
    root = root
    user = user
    main = main
    rpmdb = rpmdb
    f = f
    g = g
    Procs = {root, user}
    Roots = {root}
    Sources <- MCSources
    Database = rpmdb
    Options = {1}
    Kinds <- MCKinds
    MaxChanges = 1
    MaxFaults = 1
    NStores = 4
SPECIFICATION Spec
PROPERTIES AcceptedIsCurrent BuiltIsWhole RebuiltForCause
CHECK_DEADLOCK FALSE
