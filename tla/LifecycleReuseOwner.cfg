\* A clone at the address of a collected root stops the shared cache.
CONSTANTS
    l1 = l1
    l2 = l2
    l3 = l3
    a1 = a1
    a2 = a2
    c1 = c1
    t1 = t1
    Nil = Nil
    Loggers = {l1, l2, l3}
    Addrs = {a1, a2}
    Contexts = {c1}
    Closers = {t1}
    Configs <- AllConfigs
    DropsLoggers = TRUE
SPECIFICATION Spec
SYMMETRY Symmetry
CHECK_DEADLOCK FALSE
INVARIANTS
    CacheStoppedByOwnerOnly
