\* Loggers are dropped and their addresses reused: teardown happens, every
\* Close returns, and no family ends the runtime of another.
CONSTANTS
    l1 = l1
    l2 = l2
    a1 = a1
    a2 = a2
    c1 = c1
    t1 = t1
    Nil = Nil
    Loggers = {l1, l2}
    Addrs = {a1, a2}
    Contexts = {c1}
    Closers = {t1}
    Configs <- SomeConfigs
    DropsLoggers = TRUE
SPECIFICATION FairSpec
CHECK_DEADLOCK FALSE
INVARIANTS
    RuntimeEndedByFamily
PROPERTIES
    CancelTearsDown
    EveryCloseReturns
