\* Every logger stays reachable: the whole protocol, safety.
CONSTANTS
    l1 = l1
    l2 = l2
    a1 = a1
    a2 = a2
    c1 = c1
    c2 = c2
    t1 = t1
    t2 = t2
    Nil = Nil
    Loggers = {l1, l2}
    Addrs = {a1, a2}
    Contexts = {c1, c2}
    Closers = {t1, t2}
    Configs <- AllConfigs
    DropsLoggers = FALSE
SPECIFICATION Spec
SYMMETRY Symmetry
INVARIANTS
    TypeOK
    CacheStoppedByOwnerOnly
    HookStoppedByOwnerOnly
    RootCloseReleases
    CloseWaitsForFile
PROPERTIES
    ImplementsRuntime
