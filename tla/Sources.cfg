CONSTANTS
    root = root
    user = user
    main = main
    rpmdb = rpmdb
    f = f
    g = g
    Procs = {root, user}
    Roots = {root}
    Sources <- MCSources
    Database = rpmdb
    Options = {1}
    Kinds <- MCKinds
    MaxChanges = 1
    MaxFaults = 1
    NStores = 4
SPECIFICATION Spec

PROPERTY HasAllIndexes
CHECK_DEADLOCK FALSE
