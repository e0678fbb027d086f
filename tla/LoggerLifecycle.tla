-------------------------- MODULE LoggerLifecycle --------------------------
(***************************************************************************)
(* Ownership and teardown of what the loggers of one process share         *)
(* (logger_close.go, owned_output.go, the constructors and the clone       *)
(* methods of the four logger variants).                                   *)
(*                                                                         *)
(* A constructor makes a root logger with, depending on its configuration, *)
(* a time cache, an owned output file and a context whose cancellation     *)
(* tears both down.  With, WithLogLevel and LogLevel copy a logger: the    *)
(* clone shares the cache and the file of its root.  Two process-wide maps *)
(* say who owns what; both identify a logger by the uintptr value of its   *)
(* address, which does not keep the logger alive.                          *)
(*                                                                         *)
(* A time cache, an owned output and an AfterFunc registration are named   *)
(* by the root logger they were made for.                                  *)
(***************************************************************************)
EXTENDS Naturals, FiniteSets

CONSTANTS
    Loggers,      \* logger objects the process may allocate
    Addrs,        \* addresses the allocator hands out
    Contexts,     \* cancellable contexts
    Closers,      \* user goroutines that call Close
    Nil,
    Configs,      \* configurations that constructors are called with
    DropsLoggers  \* TRUE: the program lets loggers become unreachable

ASSUME LifecycleConstants ==
    /\ Nil \notin Loggers \cup Addrs \cup Contexts
    /\ Closers \cap Loggers = {}
    /\ Configs \subseteq [ctx: Contexts \cup {Nil}, cached: BOOLEAN, owned: BOOLEAN]
    /\ DropsLoggers \in BOOLEAN

VARIABLES
    stage,        \* how far the construction of a logger has got
    addr,         \* its address
    root,         \* the logger whose runtime it shares
    config,       \* context, cache and output a root was made with
    cacheOwners,  \* sync.Map: time cache -> owner token
    hooks,        \* sync.Map contextCancelOwners: owner token -> stop function
    after,        \* state of the AfterFunc registration of a root
    cancelled,    \* cancelled contexts
    stopped,      \* closed time caches
    once,         \* sync.Once of the owned output
    pc, by,       \* goroutines in closeLoggerRuntime and the logger they are in it for
    taken,        \* the stop function a goroutine has removed from hooks
    asked         \* history: the loggers on which Close was called

vars == <<stage, addr, root, config, cacheOwners, hooks, after, cancelled,
          stopped, once, pc, by, taken, asked>>

allocation == <<stage, addr, root, config>>
registries == <<cacheOwners, hooks, after>>
resources  == <<stopped, once>>
threads    == <<pc, by, taken>>

\* A cancellation hook runs in a goroutine of its own, named by its root.
Threads == Closers \cup Loggers

Config == [ctx: Contexts \cup {Nil}, cached: BOOLEAN, owned: BOOLEAN]

NoConfig == [ctx |-> Nil, cached |-> FALSE, owned |-> FALSE]

Allocated == {l \in Loggers : stage[l] # "free"}

Live == {l \in Allocated : stage[l] # "gone"}

Free(a) == \A l \in Live : addr[l] # a

\* Mutant: a clone carries the token of its root.
OwnerIsRoot(t) == addr[root[by[t]]]

Owner(t) == addr[by[t]]

\* Mutant: the runtime to close is looked up by token.
FamilyByToken(t) ==
    root[CHOOSE l \in Allocated :
            addr[l] = Owner(t) /\ (stage[l] = "gone" => \A m \in Live : addr[m] # Owner(t))]

Family(t) == root[by[t]]

\* Mutant: only loggers with a cache get a hook.
NeedsHookIfCached(l) == config[l].ctx # Nil /\ config[l].cached

\* The early returns of claimContextCancellation.
NeedsHook(l) == config[l].ctx # Nil /\ (config[l].cached \/ config[l].owned)

Init ==
    /\ stage = [l \in Loggers |-> "free"]
    /\ addr = [l \in Loggers |-> Nil]
    /\ root = [l \in Loggers |-> l]
    /\ config = [l \in Loggers |-> NoConfig]
    /\ cacheOwners = [l \in Loggers |-> Nil]
    /\ hooks = [a \in Addrs |-> Nil]
    /\ after = [l \in Loggers |-> "none"]
    /\ cancelled = {}
    /\ stopped = {}
    /\ once = [l \in Loggers |-> "todo"]
    /\ pc = [t \in Threads |-> "idle"]
    /\ by = [t \in Threads |-> IF t \in Loggers THEN t ELSE Nil]
    /\ taken = [t \in Threads |-> Nil]
    /\ asked = {}

-----------------------------------------------------------------------------
(* The constructor, and the methods that copy a logger. *)

NewRoot(l, a) ==
    /\ stage[l] = "free"
    /\ Free(a)
    /\ \E c \in Configs : config' = [config EXCEPT ![l] = c]
    /\ stage' = [stage EXCEPT ![l] = "claim"]
    /\ addr' = [addr EXCEPT ![l] = a]
    /\ UNCHANGED <<root, registries, cancelled, resources, threads, asked>>

\* Mutant: the map holds the logger instead of its token.
ClaimByPointer(l) ==
    /\ stage[l] = "claim"
    /\ cacheOwners' = IF config[l].cached THEN [cacheOwners EXCEPT ![l] = l] ELSE cacheOwners
    /\ stage' = [stage EXCEPT ![l] = IF NeedsHook(l) THEN "hook" ELSE "ready"]
    /\ UNCHANGED <<addr, root, config, hooks, after, cancelled, resources,
                   threads, asked>>

\* cacheOwners.LoadOrStore(cache, owner)
ClaimTimeCache(l) ==
    /\ stage[l] = "claim"
    /\ cacheOwners' = IF config[l].cached /\ cacheOwners[l] = Nil
                      THEN [cacheOwners EXCEPT ![l] = addr[l]]
                      ELSE cacheOwners
    /\ stage' = [stage EXCEPT ![l] = IF NeedsHook(l) THEN "hook" ELSE "ready"]
    /\ UNCHANGED <<addr, root, config, hooks, after, cancelled, resources,
                   threads, asked>>

\* context.AfterFunc on a context that is not done yet.
RegisterHook(l) ==
    /\ stage[l] = "hook"
    /\ config[l].ctx \notin cancelled
    /\ after' = [after EXCEPT ![l] = "armed"]
    /\ stage' = [stage EXCEPT ![l] = "store"]
    /\ UNCHANGED <<addr, root, config, cacheOwners, hooks, cancelled, resources,
                   threads, asked>>

\* context.AfterFunc on a context that is done: the function starts at once.
RegisterLateHook(l) ==
    /\ stage[l] = "hook"
    /\ config[l].ctx \in cancelled
    /\ after' = [after EXCEPT ![l] = "fired"]
    /\ pc' = [pc EXCEPT ![l] = "take"]
    /\ stage' = [stage EXCEPT ![l] = "store"]
    /\ UNCHANGED <<addr, root, config, cacheOwners, hooks, cancelled, resources,
                   by, taken, asked>>

\* contextCancelOwners.Store(owner, stop)
StoreHook(l) ==
    /\ stage[l] = "store"
    /\ hooks' = [hooks EXCEPT ![addr[l]] = l]
    /\ stage' = [stage EXCEPT ![l] = "ready"]
    /\ UNCHANGED <<addr, root, config, cacheOwners, after, cancelled, resources,
                   threads, asked>>

Clone(p, l, a) ==
    /\ stage[p] = "ready"
    /\ stage[l] = "free"
    /\ Free(a)
    /\ stage' = [stage EXCEPT ![l] = "ready"]
    /\ addr' = [addr EXCEPT ![l] = a]
    /\ root' = [root EXCEPT ![l] = root[p]]
    /\ UNCHANGED <<config, registries, cancelled, resources, threads, asked>>

\* The garbage collector takes a logger nothing refers to.  The maps hold
\* its address as a number and the hook closes over writer, cache and owner
\* token: neither refers to the logger.
Collect(l) ==
    /\ DropsLoggers
    /\ stage[l] = "ready"
    /\ stage' = [stage EXCEPT ![l] = "gone"]
    /\ UNCHANGED <<addr, root, config, registries, cancelled, resources,
                   threads, asked>>

-----------------------------------------------------------------------------
(* What starts a teardown. *)

Cancel(c) ==
    /\ c \notin cancelled
    /\ cancelled' = cancelled \cup {c}
    /\ UNCHANGED <<allocation, registries, resources, threads, asked>>

\* The cancelled context starts the registered function in its goroutine.
FireHook(l) ==
    /\ after[l] = "armed"
    /\ config[l].ctx \in cancelled
    /\ after' = [after EXCEPT ![l] = "fired"]
    /\ pc' = [pc EXCEPT ![l] = "take"]
    /\ UNCHANGED <<allocation, cacheOwners, hooks, cancelled, resources, by,
                   taken, asked>>

CallClose(t, l) ==
    /\ pc[t] \in {"idle", "returned"}
    /\ stage[l] = "ready"
    /\ pc' = [pc EXCEPT ![t] = "take"]
    /\ by' = [by EXCEPT ![t] = l]
    /\ asked' = asked \cup {l}
    /\ UNCHANGED <<allocation, registries, cancelled, resources, taken>>

-----------------------------------------------------------------------------
(* closeLoggerRuntime, one action per access to shared state. *)

\* contextCancelOwners.LoadAndDelete(owner)
TakeHook(t) ==
    /\ pc[t] = "take"
    /\ taken' = [taken EXCEPT ![t] = hooks[Owner(t)]]
    /\ hooks' = [hooks EXCEPT ![Owner(t)] = Nil]
    /\ pc' = [pc EXCEPT ![t] = IF hooks[Owner(t)] = Nil THEN "load" ELSE "stop"]
    /\ UNCHANGED <<allocation, cacheOwners, after, cancelled, resources, by, asked>>

\* stopFn(): it wins only over a function that has not started.
StopHook(t) ==
    /\ pc[t] = "stop"
    /\ after' = [after EXCEPT ![taken[t]] = IF @ = "armed" THEN "stopped" ELSE @]
    /\ taken' = [taken EXCEPT ![t] = Nil]
    /\ pc' = [pc EXCEPT ![t] = "load"]
    /\ UNCHANGED <<allocation, cacheOwners, hooks, cancelled, resources, by, asked>>

\* Mutant: any claim will do.
CacheClaimed(t) == cacheOwners[Family(t)] # Nil

\* claimed, ok := cacheOwners.Load(cache); ok && claimed == owner
OwnsCache(t) == cacheOwners[Family(t)] # Nil /\ cacheOwners[Family(t)] = Owner(t)

\* Mutant: the entry is deleted before the cache is closed.
LoadAndDeleteOwner(t) ==
    /\ pc[t] = "load"
    /\ pc' = [pc EXCEPT ![t] = IF config[Family(t)].cached /\ OwnsCache(t)
                               THEN "closeCache" ELSE "output"]
    /\ cacheOwners' = IF OwnsCache(t) THEN [cacheOwners EXCEPT ![Family(t)] = Nil]
                                      ELSE cacheOwners
    /\ UNCHANGED <<allocation, hooks, after, cancelled, resources, by, taken, asked>>

LoadOwner(t) ==
    /\ pc[t] = "load"
    /\ pc' = [pc EXCEPT ![t] = IF config[Family(t)].cached /\ OwnsCache(t)
                               THEN "closeCache" ELSE "output"]
    /\ UNCHANGED <<allocation, registries, cancelled, resources, by, taken, asked>>

CloseCache(t) ==
    /\ pc[t] = "closeCache"
    /\ stopped' = stopped \cup {Family(t)}
    /\ pc' = [pc EXCEPT ![t] = "delete"]
    /\ UNCHANGED <<allocation, registries, cancelled, once, by, taken, asked>>

DeleteOwner(t) ==
    /\ pc[t] = "delete"
    /\ cacheOwners' = [cacheOwners EXCEPT ![Family(t)] = Nil]
    /\ pc' = [pc EXCEPT ![t] = "output"]
    /\ UNCHANGED <<allocation, hooks, after, cancelled, resources, by, taken, asked>>

\* Mutant: every caller closes the file.
BeginCloseAgain(t) ==
    /\ pc[t] = "output"
    /\ config[Family(t)].owned
    /\ once' = [once EXCEPT ![Family(t)] = "running"]
    /\ pc' = [pc EXCEPT ![t] = "closing"]
    /\ UNCHANGED <<allocation, registries, cancelled, stopped, by, taken, asked>>

\* closeOutput: a standard stream or a writer of the user is left alone; the
\* first caller of an owned output's once.Do closes the file.
BeginCloseOutput(t) ==
    /\ pc[t] = "output"
    /\ config[Family(t)].owned
    /\ once[Family(t)] = "todo"
    /\ once' = [once EXCEPT ![Family(t)] = "running"]
    /\ pc' = [pc EXCEPT ![t] = "closing"]
    /\ UNCHANGED <<allocation, registries, cancelled, stopped, by, taken, asked>>

\* Mutant: a compare-and-swap instead of sync.Once, which does not wait.
SkipWithoutWaiting(t) ==
    /\ pc[t] = "output"
    /\ config[Family(t)].owned => once[Family(t)] # "todo"
    /\ pc' = [pc EXCEPT ![t] = "returned"]
    /\ UNCHANGED <<allocation, registries, cancelled, resources, by, taken, asked>>

\* once.Do returns at once after, and blocks during, the first call.
SkipCloseOutput(t) ==
    /\ pc[t] = "output"
    /\ config[Family(t)].owned => once[Family(t)] = "done"
    /\ pc' = [pc EXCEPT ![t] = "returned"]
    /\ UNCHANGED <<allocation, registries, cancelled, resources, by, taken, asked>>

\* Mutant: the first caller never marks the close as done.
EndWithoutMark(t) ==
    /\ pc[t] = "closing"
    /\ pc' = [pc EXCEPT ![t] = "returned"]
    /\ UNCHANGED <<allocation, registries, cancelled, resources, by, taken, asked>>

\* closer.Close() has returned.
EndCloseOutput(t) ==
    /\ pc[t] = "closing"
    /\ once' = [once EXCEPT ![Family(t)] = "done"]
    /\ pc' = [pc EXCEPT ![t] = "returned"]
    /\ UNCHANGED <<allocation, registries, cancelled, stopped, by, taken, asked>>

CloseStep(t) ==
    \/ TakeHook(t)
    \/ StopHook(t)
    \/ LoadOwner(t)
    \/ CloseCache(t)
    \/ DeleteOwner(t)
    \/ BeginCloseOutput(t)
    \/ SkipCloseOutput(t)
    \/ EndCloseOutput(t)

-----------------------------------------------------------------------------

Construct(l) ==
    \/ ClaimTimeCache(l)
    \/ RegisterHook(l)
    \/ RegisterLateHook(l)
    \/ StoreHook(l)

Next ==
    \/ \E l \in Loggers, a \in Addrs : NewRoot(l, a)
    \/ \E l \in Loggers : Construct(l)
    \/ \E p, l \in Loggers, a \in Addrs : Clone(p, l, a)
    \/ \E l \in Loggers : Collect(l)
    \/ \E c \in Contexts : Cancel(c)
    \/ \E l \in Loggers : FireHook(l)
    \/ \E t \in Closers, l \in Loggers : CallClose(t, l)
    \/ \E t \in Threads : CloseStep(t)

Spec == Init /\ [][Next]_vars

\* The scheduler runs every goroutine that can run: a constructor and a close
\* that have begun go on, and a cancelled context starts its functions.
\* Nothing obliges the program to cancel, to call Close or to make a logger.
Fairness ==
    /\ \A l \in Loggers : WF_vars(Construct(l)) /\ WF_vars(FireHook(l))
    /\ \A t \in Threads : WF_vars(CloseStep(t))

FairSpec == Spec /\ Fairness

-----------------------------------------------------------------------------
(* Properties. *)

Stages == {"free", "claim", "hook", "store", "ready", "gone"}

Pcs == {"idle", "take", "stop", "load", "closeCache", "delete", "output",
        "closing", "returned"}

\* The maps hold owner tokens and stop functions, never anything else.
TypeOK ==
    /\ stage \in [Loggers -> Stages]
    /\ addr \in [Loggers -> Addrs \cup {Nil}]
    /\ root \in [Loggers -> Loggers]
    /\ config \in [Loggers -> Config]
    /\ cacheOwners \in [Loggers -> Addrs \cup {Nil}]
    /\ hooks \in [Addrs -> Loggers \cup {Nil}]
    /\ after \in [Loggers -> {"none", "armed", "stopped", "fired"}]
    /\ cancelled \subseteq Contexts
    /\ stopped \subseteq Loggers
    /\ once \in [Loggers -> {"todo", "running", "done"}]
    /\ pc \in [Threads -> Pcs]
    /\ by \in [Threads -> Loggers \cup {Nil}]
    /\ taken \in [Threads -> Loggers \cup {Nil}]
    /\ asked \subseteq Loggers

\* Why the runtime of root r may go: its own Close, or its context.
RootCause(r) == r \in asked \/ config[r].ctx \in cancelled

\* The shared cache is stopped only by the owning logger, for a Close of that
\* logger or the end of its context, whatever its clones do
\* (closeLoggerRuntime's claimed == owner test).
CacheStoppedByOwnerOnly == \A r \in stopped : RootCause(r)

\* A pending context hook is given up only by a Close of the very logger it was
\* registered for: no other Close disarms it (the registry is keyed by owner).
HookStoppedByOwnerOnly == \A r \in Loggers : after[r] = "stopped" => r \in asked

\* When the Close of a root returns, its cache has stopped and neither map
\* mentions it any more, even if its context hook or another Close ran at the
\* same time.
RootCloseReleases ==
    \A t \in Closers :
        LET r == by[t] IN
        pc[t] = "returned" /\ root[r] = r =>
            /\ config[r].cached => r \in stopped
            /\ cacheOwners[r] = Nil
            /\ hooks[addr[r]] = Nil

\* No Close of a family returns while the file is still being closed: the
\* caller may rename or reopen it (ownedOutput's once.Do).
CloseWaitsForFile ==
    \A t \in Threads :
        pc[t] = "returned" /\ config[Family(t)].owned => once[Family(t)] = "done"

\* Even when addresses are reused, nobody outside a family stops its cache or
\* closes its file: closeLoggerRuntime reaches only what the closed logger
\* carries, and a hook only what it closed over.
RuntimeEndedByFamily ==
    \A r \in Loggers :
        r \in stopped \/ once[r] # "todo" =>
            \/ config[r].ctx \in cancelled
            \/ \E l \in asked : root[l] = r

Released(r) ==
    /\ config[r].cached => r \in stopped
    /\ config[r].owned => once[r] = "done"

\* Another logger has, or had, the address of r, and so its token.
Reused(r) == \E l \in Allocated \ {r} : addr[l] = addr[r]

\* Cancelling the context a logger was made with tears its resources down, in
\* whatever order cancellation, construction, clones, Close calls and the
\* collection of loggers happen (the hook of claimContextCancellation closes
\* over what it needs).  Only a shared token can prevent it: Close and the hook
\* of one of its loggers take the stop function of the other.
CancelTearsDown ==
    \A r \in Loggers :
        (stage[r] \in {"ready", "gone"} /\ root[r] = r /\ config[r].ctx \in cancelled)
            ~> (Released(r) \/ Reused(r))

\* A Close call that has begun returns: nobody waits for a file for ever.
EveryCloseReturns ==
    \A t \in Threads : pc[t] = "take" ~> pc[t] = "returned"

\* The registries, tokens and goroutines implement the promise of
\* SharedRuntime: every step is one the abstract runtime allows, or none.
Runtime == INSTANCE SharedRuntime WITH
    member <- [l \in Loggers |-> IF stage[l] = "free" THEN Nil ELSE root[l]]

ImplementsRuntime == Runtime!Spec

=============================================================================
