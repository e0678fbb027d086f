------------------------- MODULE MCLoggerLifecycle -------------------------
(* LoggerLifecycle on small sets of loggers, addresses and goroutines. *)
EXTENDS LoggerLifecycle, TLC

Symmetry == Permutations(Loggers) \cup Permutations(Addrs) \cup Permutations(Closers)

\* Every configuration, and those with most to tear down: with a context and
\* without, with a cache and without.
AllConfigs  == Config
SomeConfigs == {c \in Config : c.owned /\ (c.ctx = Nil => c.cached)}

=============================================================================
