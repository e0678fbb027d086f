----------------------- MODULE LoggerLifecycleProofs -----------------------
(***************************************************************************)
(* Proofs about LoggerLifecycle for any number of loggers, contexts and    *)
(* goroutines.  What is of one family (types, who ended a runtime, who     *)
(* waited for a file) is proved for programs that drop loggers too.  What  *)
(* rests on owner tokens is proved under the assumption that the program   *)
(* keeps its loggers reachable; without it those theorems are false (see   *)
(* the run LifecycleReuseOwner).                                           *)
(***************************************************************************)
EXTENDS LoggerLifecycle, TLAPS

-----------------------------------------------------------------------------
(* What holds of a family whether or not the program drops loggers. *)

\* How far the construction of a logger has got, and what is settled by then.
FamilyAllocation ==
    /\ \A l \in Loggers : stage[l] \in {"free", "claim", "hook", "store"} => root[l] = l
    /\ \A l \in Loggers : stage[l] \in {"free", "claim", "hook"} => after[l] = "none"
    /\ \A l \in Loggers : after[l] # "none" => root[l] = l
    /\ \A l \in Loggers : stage[l] = "free" =>
            l \notin asked /\ l \notin stopped /\ once[l] = "todo"
    /\ \A l \in Loggers : stage[l] # "free" =>
            addr[l] \in Addrs /\ stage[root[l]] # "free"

\* A goroutine in closeLoggerRuntime has a cause inside the family, and one of
\* them at most is closing the file.
FamilyGoroutines ==
    /\ \A t \in Closers : pc[t] # "idle" => by[t] \in asked
    /\ \A t \in Loggers :
            /\ by[t] = t
            /\ pc[t] # "idle" => /\ after[t] = "fired"
                                 /\ config[t].ctx \in cancelled
    /\ \A t \in Threads : pc[t] = "closing" =>
            config[Family(t)].owned /\ once[Family(t)] = "running"
    /\ \A t, u \in Threads :
            pc[t] = "closing" /\ pc[u] = "closing" /\ Family(t) = Family(u) => t = u

FInv ==
    /\ TypeOK
    /\ FamilyAllocation
    /\ FamilyGoroutines
    /\ CloseWaitsForFile
    /\ RuntimeEndedByFamily

LEMMA InitFInv == Init => FInv
  BY LifecycleConstants
  DEF Init, FInv, TypeOK, FamilyAllocation, FamilyGoroutines, CloseWaitsForFile,
      RuntimeEndedByFamily, Config, NoConfig, Stages, Pcs, Threads

LEMMA StepFInv == FInv /\ [Next]_vars => FInv'
<1> SUFFICES ASSUME FInv, [Next]_vars PROVE FInv'
  OBVIOUS
<1> USE LifecycleConstants DEF FInv, Threads, allocation, registries, resources, threads
<1>1. ASSUME NEW l \in Loggers, NEW a \in Addrs, NewRoot(l, a) PROVE FInv'
  <2>1. TypeOK'
    BY <1>1 DEF NewRoot, TypeOK, FamilyAllocation, FamilyGoroutines, Config, Stages, Pcs, Owner, Family, Free, Live, Allocated
  <2>2. FamilyAllocation'
    BY <1>1 DEF NewRoot, TypeOK, FamilyAllocation, FamilyGoroutines, Owner, Family, Free, Live, Allocated
  <2>3. FamilyGoroutines'
    BY <1>1 DEF NewRoot, TypeOK, FamilyAllocation, FamilyGoroutines, Owner, Family, OwnsCache, Free, Live, Allocated
  <2>4. CloseWaitsForFile'
    BY <1>1 DEF NewRoot, TypeOK, FamilyAllocation, FamilyGoroutines, CloseWaitsForFile, Family, Free, Live, Allocated
  <2>5. RuntimeEndedByFamily'
    BY <1>1 DEF NewRoot, TypeOK, FamilyAllocation, FamilyGoroutines, RuntimeEndedByFamily, Family, Free, Live, Allocated
  <2>6. QED
    BY <2>1, <2>2, <2>3, <2>4, <2>5
<1>2. ASSUME NEW l \in Loggers, ClaimTimeCache(l) PROVE FInv'
  <2>1. TypeOK'
    BY <1>2 DEF ClaimTimeCache, TypeOK, FamilyAllocation, FamilyGoroutines, Config, Stages, Pcs, Owner, Family, NeedsHook
  <2>2. FamilyAllocation'
    BY <1>2 DEF ClaimTimeCache, TypeOK, FamilyAllocation, FamilyGoroutines, Owner, Family, NeedsHook
  <2>3. FamilyGoroutines'
    BY <1>2 DEF ClaimTimeCache, TypeOK, FamilyAllocation, FamilyGoroutines, Owner, Family, OwnsCache, NeedsHook
  <2>4. CloseWaitsForFile'
    BY <1>2 DEF ClaimTimeCache, TypeOK, FamilyAllocation, FamilyGoroutines, CloseWaitsForFile, Family, NeedsHook
  <2>5. RuntimeEndedByFamily'
    BY <1>2 DEF ClaimTimeCache, TypeOK, FamilyAllocation, FamilyGoroutines, RuntimeEndedByFamily, Family, NeedsHook
  <2>6. QED
    BY <2>1, <2>2, <2>3, <2>4, <2>5
<1>3. ASSUME NEW l \in Loggers, RegisterHook(l) PROVE FInv'
  <2>1. TypeOK'
    BY <1>3 DEF RegisterHook, TypeOK, FamilyAllocation, FamilyGoroutines, Config, Stages, Pcs, Owner, Family
  <2>2. FamilyAllocation'
    BY <1>3 DEF RegisterHook, TypeOK, FamilyAllocation, FamilyGoroutines, Owner, Family
  <2>3. FamilyGoroutines'
    BY <1>3 DEF RegisterHook, TypeOK, FamilyAllocation, FamilyGoroutines, Owner, Family, OwnsCache
  <2>4. CloseWaitsForFile'
    BY <1>3 DEF RegisterHook, TypeOK, FamilyAllocation, FamilyGoroutines, CloseWaitsForFile, Family
  <2>5. RuntimeEndedByFamily'
    BY <1>3 DEF RegisterHook, TypeOK, FamilyAllocation, FamilyGoroutines, RuntimeEndedByFamily, Family
  <2>6. QED
    BY <2>1, <2>2, <2>3, <2>4, <2>5
<1>4. ASSUME NEW l \in Loggers, RegisterLateHook(l) PROVE FInv'
  <2>1. TypeOK'
    BY <1>4 DEF RegisterLateHook, TypeOK, FamilyAllocation, FamilyGoroutines, Config, Stages, Pcs, Owner, Family
  <2>2. FamilyAllocation'
    BY <1>4 DEF RegisterLateHook, TypeOK, FamilyAllocation, FamilyGoroutines, Owner, Family
  <2>3. FamilyGoroutines'
    BY <1>4 DEF RegisterLateHook, TypeOK, FamilyAllocation, FamilyGoroutines, Owner, Family, OwnsCache
  <2>4. CloseWaitsForFile'
    BY <1>4 DEF RegisterLateHook, TypeOK, FamilyAllocation, FamilyGoroutines, CloseWaitsForFile, Family
  <2>5. RuntimeEndedByFamily'
    BY <1>4 DEF RegisterLateHook, TypeOK, FamilyAllocation, FamilyGoroutines, RuntimeEndedByFamily, Family
  <2>6. QED
    BY <2>1, <2>2, <2>3, <2>4, <2>5
<1>5. ASSUME NEW l \in Loggers, StoreHook(l) PROVE FInv'
  <2>1. TypeOK'
    BY <1>5 DEF StoreHook, TypeOK, FamilyAllocation, FamilyGoroutines, Config, Stages, Pcs, Owner, Family
  <2>2. FamilyAllocation'
    BY <1>5 DEF StoreHook, TypeOK, FamilyAllocation, FamilyGoroutines, Owner, Family
  <2>3. FamilyGoroutines'
    BY <1>5 DEF StoreHook, TypeOK, FamilyAllocation, FamilyGoroutines, Owner, Family, OwnsCache
  <2>4. CloseWaitsForFile'
    BY <1>5 DEF StoreHook, TypeOK, FamilyAllocation, FamilyGoroutines, CloseWaitsForFile, Family
  <2>5. RuntimeEndedByFamily'
    BY <1>5 DEF StoreHook, TypeOK, FamilyAllocation, FamilyGoroutines, RuntimeEndedByFamily, Family
  <2>6. QED
    BY <2>1, <2>2, <2>3, <2>4, <2>5
<1>6. ASSUME NEW p \in Loggers, NEW l \in Loggers, NEW a \in Addrs, Clone(p, l, a) PROVE FInv'
  <2>1. TypeOK'
    BY <1>6 DEF Clone, TypeOK, FamilyAllocation, FamilyGoroutines, Config, Stages, Pcs, Owner, Family, Free, Live, Allocated
  <2>2. FamilyAllocation'
    BY <1>6 DEF Clone, TypeOK, FamilyAllocation, FamilyGoroutines, Owner, Family, Free, Live, Allocated
  <2>3. FamilyGoroutines'
    BY <1>6 DEF Clone, TypeOK, FamilyAllocation, FamilyGoroutines, Owner, Family, OwnsCache, Free, Live, Allocated
  <2>4. CloseWaitsForFile'
    BY <1>6 DEF Clone, TypeOK, FamilyAllocation, FamilyGoroutines, CloseWaitsForFile, Family, Free, Live, Allocated
  <2>5. RuntimeEndedByFamily'
    BY <1>6 DEF Clone, TypeOK, FamilyAllocation, FamilyGoroutines, RuntimeEndedByFamily, Family, Free, Live, Allocated
  <2>6. QED
    BY <2>1, <2>2, <2>3, <2>4, <2>5
<1>7. ASSUME NEW l \in Loggers, Collect(l) PROVE FInv'
  <2>1. TypeOK'
    BY <1>7 DEF Collect, TypeOK, FamilyAllocation, FamilyGoroutines, Config, Stages, Pcs, Owner, Family
  <2>2. FamilyAllocation'
    BY <1>7 DEF Collect, TypeOK, FamilyAllocation, FamilyGoroutines, Owner, Family
  <2>3. FamilyGoroutines'
    BY <1>7 DEF Collect, TypeOK, FamilyAllocation, FamilyGoroutines, Owner, Family, OwnsCache
  <2>4. CloseWaitsForFile'
    BY <1>7 DEF Collect, TypeOK, FamilyAllocation, FamilyGoroutines, CloseWaitsForFile, Family
  <2>5. RuntimeEndedByFamily'
    BY <1>7 DEF Collect, TypeOK, FamilyAllocation, FamilyGoroutines, RuntimeEndedByFamily, Family
  <2>6. QED
    BY <2>1, <2>2, <2>3, <2>4, <2>5
<1>8. ASSUME NEW c \in Contexts, Cancel(c) PROVE FInv'
  <2>1. TypeOK'
    BY <1>8 DEF Cancel, TypeOK, FamilyAllocation, FamilyGoroutines, Config, Stages, Pcs, Owner, Family
  <2>2. FamilyAllocation'
    BY <1>8 DEF Cancel, TypeOK, FamilyAllocation, FamilyGoroutines, Owner, Family
  <2>3. FamilyGoroutines'
    BY <1>8 DEF Cancel, TypeOK, FamilyAllocation, FamilyGoroutines, Owner, Family, OwnsCache
  <2>4. CloseWaitsForFile'
    BY <1>8 DEF Cancel, TypeOK, FamilyAllocation, FamilyGoroutines, CloseWaitsForFile, Family
  <2>5. RuntimeEndedByFamily'
    BY <1>8 DEF Cancel, TypeOK, FamilyAllocation, FamilyGoroutines, RuntimeEndedByFamily, Family
  <2>6. QED
    BY <2>1, <2>2, <2>3, <2>4, <2>5
<1>9. ASSUME NEW l \in Loggers, FireHook(l) PROVE FInv'
  <2>1. TypeOK'
    BY <1>9 DEF FireHook, TypeOK, FamilyAllocation, FamilyGoroutines, Config, Stages, Pcs, Owner, Family
  <2>2. FamilyAllocation'
    BY <1>9 DEF FireHook, TypeOK, FamilyAllocation, FamilyGoroutines, Owner, Family
  <2>3. FamilyGoroutines'
    BY <1>9 DEF FireHook, TypeOK, FamilyAllocation, FamilyGoroutines, Owner, Family, OwnsCache
  <2>4. CloseWaitsForFile'
    BY <1>9 DEF FireHook, TypeOK, FamilyAllocation, FamilyGoroutines, CloseWaitsForFile, Family
  <2>5. RuntimeEndedByFamily'
    BY <1>9 DEF FireHook, TypeOK, FamilyAllocation, FamilyGoroutines, RuntimeEndedByFamily, Family
  <2>6. QED
    BY <2>1, <2>2, <2>3, <2>4, <2>5
<1>10. ASSUME NEW t \in Closers, NEW l \in Loggers, CallClose(t, l) PROVE FInv'
  <2>1. TypeOK'
    BY <1>10 DEF CallClose, TypeOK, FamilyAllocation, FamilyGoroutines, Config, Stages, Pcs, Owner, Family
  <2>2. FamilyAllocation'
    BY <1>10 DEF CallClose, TypeOK, FamilyAllocation, FamilyGoroutines, Owner, Family
  <2>3. FamilyGoroutines'
    BY <1>10 DEF CallClose, TypeOK, FamilyAllocation, FamilyGoroutines, Owner, Family, OwnsCache
  <2>4. CloseWaitsForFile'
    BY <1>10 DEF CallClose, TypeOK, FamilyAllocation, FamilyGoroutines, CloseWaitsForFile, Family
  <2>5. RuntimeEndedByFamily'
    BY <1>10 DEF CallClose, TypeOK, FamilyAllocation, FamilyGoroutines, RuntimeEndedByFamily, Family
  <2>6. QED
    BY <2>1, <2>2, <2>3, <2>4, <2>5
<1>11. ASSUME NEW t \in Threads, TakeHook(t) PROVE FInv'
  <2>1. TypeOK'
    BY <1>11 DEF TakeHook, TypeOK, FamilyAllocation, FamilyGoroutines, Config, Stages, Pcs, Owner, Family
  <2>2. FamilyAllocation'
    BY <1>11 DEF TakeHook, TypeOK, FamilyAllocation, FamilyGoroutines, Owner, Family
  <2>3. FamilyGoroutines'
    BY <1>11 DEF TakeHook, TypeOK, FamilyAllocation, FamilyGoroutines, Owner, Family, OwnsCache
  <2>4. CloseWaitsForFile'
    BY <1>11 DEF TakeHook, TypeOK, FamilyAllocation, FamilyGoroutines, CloseWaitsForFile, Family
  <2>5. RuntimeEndedByFamily'
    BY <1>11 DEF TakeHook, TypeOK, FamilyAllocation, FamilyGoroutines, RuntimeEndedByFamily, Family
  <2>6. QED
    BY <2>1, <2>2, <2>3, <2>4, <2>5
<1>12. ASSUME NEW t \in Threads, StopHook(t) PROVE FInv'
  <2>1. TypeOK'
    BY <1>12 DEF StopHook, TypeOK, FamilyAllocation, FamilyGoroutines, Config, Stages, Pcs, Owner, Family
  <2>2. FamilyAllocation'
    BY <1>12 DEF StopHook, TypeOK, FamilyAllocation, FamilyGoroutines, Owner, Family
  <2>3. FamilyGoroutines'
    BY <1>12 DEF StopHook, TypeOK, FamilyAllocation, FamilyGoroutines, Owner, Family, OwnsCache
  <2>4. CloseWaitsForFile'
    BY <1>12 DEF StopHook, TypeOK, FamilyAllocation, FamilyGoroutines, CloseWaitsForFile, Family
  <2>5. RuntimeEndedByFamily'
    BY <1>12 DEF StopHook, TypeOK, FamilyAllocation, FamilyGoroutines, RuntimeEndedByFamily, Family
  <2>6. QED
    BY <2>1, <2>2, <2>3, <2>4, <2>5
<1>13. ASSUME NEW t \in Threads, LoadOwner(t) PROVE FInv'
  <2>1. TypeOK'
    BY <1>13 DEF LoadOwner, TypeOK, FamilyAllocation, FamilyGoroutines, Config, Stages, Pcs, Owner, Family
  <2>2. FamilyAllocation'
    BY <1>13 DEF LoadOwner, TypeOK, FamilyAllocation, FamilyGoroutines, Owner, Family
  <2>3. FamilyGoroutines'
    BY <1>13 DEF LoadOwner, TypeOK, FamilyAllocation, FamilyGoroutines, Owner, Family, OwnsCache
  <2>4. CloseWaitsForFile'
    BY <1>13 DEF LoadOwner, TypeOK, FamilyAllocation, FamilyGoroutines, CloseWaitsForFile, Family
  <2>5. RuntimeEndedByFamily'
    BY <1>13 DEF LoadOwner, TypeOK, FamilyAllocation, FamilyGoroutines, RuntimeEndedByFamily, Family
  <2>6. QED
    BY <2>1, <2>2, <2>3, <2>4, <2>5
<1>14. ASSUME NEW t \in Threads, CloseCache(t) PROVE FInv'
  <2>1. TypeOK'
    BY <1>14 DEF CloseCache, TypeOK, FamilyAllocation, FamilyGoroutines, Config, Stages, Pcs, Owner, Family
  <2>2. FamilyAllocation'
    BY <1>14 DEF CloseCache, TypeOK, FamilyAllocation, FamilyGoroutines, Owner, Family
  <2>3. FamilyGoroutines'
    BY <1>14 DEF CloseCache, TypeOK, FamilyAllocation, FamilyGoroutines, Owner, Family, OwnsCache
  <2>4. CloseWaitsForFile'
    BY <1>14 DEF CloseCache, TypeOK, FamilyAllocation, FamilyGoroutines, CloseWaitsForFile, Family
  <2>5. RuntimeEndedByFamily'
    BY <1>14 DEF CloseCache, TypeOK, FamilyAllocation, FamilyGoroutines, RuntimeEndedByFamily, Family
  <2>6. QED
    BY <2>1, <2>2, <2>3, <2>4, <2>5
<1>15. ASSUME NEW t \in Threads, DeleteOwner(t) PROVE FInv'
  <2>1. TypeOK'
    BY <1>15 DEF DeleteOwner, TypeOK, FamilyAllocation, FamilyGoroutines, Config, Stages, Pcs, Owner, Family
  <2>2. FamilyAllocation'
    BY <1>15 DEF DeleteOwner, TypeOK, FamilyAllocation, FamilyGoroutines, Owner, Family
  <2>3. FamilyGoroutines'
    BY <1>15 DEF DeleteOwner, TypeOK, FamilyAllocation, FamilyGoroutines, Owner, Family, OwnsCache
  <2>4. CloseWaitsForFile'
    BY <1>15 DEF DeleteOwner, TypeOK, FamilyAllocation, FamilyGoroutines, CloseWaitsForFile, Family
  <2>5. RuntimeEndedByFamily'
    BY <1>15 DEF DeleteOwner, TypeOK, FamilyAllocation, FamilyGoroutines, RuntimeEndedByFamily, Family
  <2>6. QED
    BY <2>1, <2>2, <2>3, <2>4, <2>5
<1>16. ASSUME NEW t \in Threads, BeginCloseOutput(t) PROVE FInv'
  <2>1. TypeOK'
    BY <1>16 DEF BeginCloseOutput, TypeOK, FamilyAllocation, FamilyGoroutines, Config, Stages, Pcs, Owner, Family
  <2>2. FamilyAllocation'
    BY <1>16 DEF BeginCloseOutput, TypeOK, FamilyAllocation, FamilyGoroutines, Owner, Family
  <2>3. FamilyGoroutines'
    BY <1>16 DEF BeginCloseOutput, TypeOK, FamilyAllocation, FamilyGoroutines, Owner, Family, OwnsCache
  <2>4. CloseWaitsForFile'
    BY <1>16 DEF BeginCloseOutput, TypeOK, FamilyAllocation, FamilyGoroutines, CloseWaitsForFile, Family
  <2>5. RuntimeEndedByFamily'
    BY <1>16 DEF BeginCloseOutput, TypeOK, FamilyAllocation, FamilyGoroutines, RuntimeEndedByFamily, Family
  <2>6. QED
    BY <2>1, <2>2, <2>3, <2>4, <2>5
<1>17. ASSUME NEW t \in Threads, SkipCloseOutput(t) PROVE FInv'
  <2>1. TypeOK'
    BY <1>17 DEF SkipCloseOutput, TypeOK, FamilyAllocation, FamilyGoroutines, Config, Stages, Pcs, Owner, Family
  <2>2. FamilyAllocation'
    BY <1>17 DEF SkipCloseOutput, TypeOK, FamilyAllocation, FamilyGoroutines, Owner, Family
  <2>3. FamilyGoroutines'
    BY <1>17 DEF SkipCloseOutput, TypeOK, FamilyAllocation, FamilyGoroutines, Owner, Family, OwnsCache
  <2>4. CloseWaitsForFile'
    BY <1>17 DEF SkipCloseOutput, TypeOK, FamilyAllocation, FamilyGoroutines, CloseWaitsForFile, Family
  <2>5. RuntimeEndedByFamily'
    BY <1>17 DEF SkipCloseOutput, TypeOK, FamilyAllocation, FamilyGoroutines, RuntimeEndedByFamily, Family
  <2>6. QED
    BY <2>1, <2>2, <2>3, <2>4, <2>5
<1>18. ASSUME NEW t \in Threads, EndCloseOutput(t) PROVE FInv'
  <2>1. TypeOK'
    BY <1>18 DEF EndCloseOutput, TypeOK, FamilyAllocation, FamilyGoroutines, Config, Stages, Pcs, Owner, Family
  <2>2. FamilyAllocation'
    BY <1>18 DEF EndCloseOutput, TypeOK, FamilyAllocation, FamilyGoroutines, Owner, Family
  <2>3. FamilyGoroutines'
    BY <1>18 DEF EndCloseOutput, TypeOK, FamilyAllocation, FamilyGoroutines, Owner, Family, OwnsCache
  <2>4. CloseWaitsForFile'
    BY <1>18 DEF EndCloseOutput, TypeOK, FamilyAllocation, FamilyGoroutines, CloseWaitsForFile, Family
  <2>5. RuntimeEndedByFamily'
    BY <1>18 DEF EndCloseOutput, TypeOK, FamilyAllocation, FamilyGoroutines, RuntimeEndedByFamily, Family
  <2>6. QED
    BY <2>1, <2>2, <2>3, <2>4, <2>5
<1>19. CASE UNCHANGED vars
  BY <1>19 DEF vars, TypeOK, FamilyAllocation, FamilyGoroutines, CloseWaitsForFile,
                RuntimeEndedByFamily, Family
<1>20. QED
  BY <1>1, <1>2, <1>3, <1>4, <1>5, <1>6, <1>7, <1>8, <1>9, <1>10, <1>11, <1>12, <1>13, <1>14, <1>15, <1>16, <1>17, <1>18, <1>19
  DEF Next, Construct, CloseStep

LEMMA FInvariance == Spec => []FInv
<1>1. FInv /\ [Next]_vars => FInv'
  BY StepFInv
<1>2. QED
  BY InitFInv, <1>1, PTL DEF Spec

\* Every variable stays in its type, for any number of loggers.
THEOREM TypeCorrect == Spec => []TypeOK
BY FInvariance, PTL DEF FInv

\* A Close that returns has waited for the file of its family
\* (ownedOutput.Close).
THEOREM CloseWaits == Spec => []CloseWaitsForFile
BY FInvariance, PTL DEF FInv

\* Nobody outside a family stops its cache or closes its file, also when
\* loggers are collected and their addresses reused (closeLoggerRuntime).
THEOREM EndedByFamily == Spec => []RuntimeEndedByFamily
BY FInvariance, PTL DEF FInv

-----------------------------------------------------------------------------
(* The inductive invariant while no logger is collected. *)

\* While no logger is collected, an owner token names one logger.
TokensDistinct ==
    \A l, m \in Loggers :
        stage[l] # "free" /\ stage[m] # "free" /\ l # m => addr[l] # addr[m]

Allocation ==
    /\ \A l \in Loggers : stage[l] # "gone"
    /\ \A l \in Loggers : stage[l] \in {"free", "claim", "hook", "store"} => root[l] = l
    /\ \A l \in Loggers : stage[l] \in {"free", "claim", "hook"} => after[l] = "none"
    /\ \A l \in Loggers : after[l] # "none" => root[l] = l
    /\ \A l \in Loggers : stage[l] = "free" =>
            l \notin asked /\ l \notin stopped /\ once[l] = "todo"
    /\ \A l \in Loggers : stage[l] # "free" =>
            addr[l] \in Addrs /\ stage[root[l]] # "free" /\ root[root[l]] = root[l]

\* An entry of either registry is under the token of the logger it is for.
Registries ==
    /\ \A r \in Loggers : cacheOwners[r] # Nil =>
            stage[r] # "free" /\ root[r] = r /\ cacheOwners[r] = addr[r]
    /\ \A a \in Addrs : hooks[a] # Nil =>
            stage[hooks[a]] # "free" /\ addr[hooks[a]] = a

\* A goroutine in closeLoggerRuntime has a cause, and what it is about to do
\* concerns the logger it was called for.
Goroutines ==
    /\ \A t \in Closers : pc[t] # "idle" => by[t] \in asked
    /\ \A t \in Loggers :
            /\ by[t] = t
            /\ pc[t] # "idle" => /\ after[t] = "fired"
                                 /\ root[t] = t
                                 /\ config[t].ctx \in cancelled
    /\ \A t \in Threads : pc[t] = "stop" => taken[t] = by[t]
    /\ \A t \in Threads : pc[t] \in {"closeCache", "delete"} =>
            root[by[t]] = by[t] /\ config[by[t]].cached
    /\ \A t \in Threads : pc[t] = "closing" =>
            config[Family(t)].owned /\ once[Family(t)] = "running"
    /\ \A t, u \in Threads :
            pc[t] = "closing" /\ pc[u] = "closing" /\ Family(t) = Family(u) => t = u

IInv ==
    /\ TypeOK
    /\ TokensDistinct
    /\ Allocation
    /\ Registries
    /\ Goroutines
    /\ CacheStoppedByOwnerOnly
    /\ HookStoppedByOwnerOnly

-----------------------------------------------------------------------------
(* The initial states and the steps. *)

LEMMA InitIInv == Init => IInv
  BY LifecycleConstants
  DEF Init, IInv, TypeOK, TokensDistinct, Allocation, Registries, Goroutines,
      CacheStoppedByOwnerOnly, HookStoppedByOwnerOnly, Config, NoConfig,
      Stages, Pcs, Threads

LEMMA StepIInv == ~DropsLoggers /\ IInv /\ [Next]_vars => IInv'
<1> SUFFICES ASSUME ~DropsLoggers, IInv, [Next]_vars PROVE IInv'
  OBVIOUS
<1> USE LifecycleConstants DEF IInv, Threads, allocation, registries, resources, threads
<1>1. ASSUME NEW l \in Loggers, NEW a \in Addrs, NewRoot(l, a) PROVE IInv'
  <2>1. TypeOK'
    BY <1>1 DEF NewRoot, TypeOK, Config, Stages, Pcs, Owner, Family, Free, Live, Allocated
  <2>2. TokensDistinct'
    BY <1>1 DEF NewRoot, TypeOK, TokensDistinct, Allocation, Config, Stages, Free, Live, Allocated
  <2>3. Allocation'
    BY <1>1 DEF NewRoot, TypeOK, Allocation, Goroutines, Owner, Family, Free, Live, Allocated
  <2>4. Registries'
    BY <1>1 DEF NewRoot, TypeOK, TokensDistinct, Allocation, Registries, Goroutines, Owner, Family, Free, Live, Allocated
  <2>5. Goroutines'
    BY <1>1 DEF NewRoot, TypeOK, TokensDistinct, Allocation, Registries, Goroutines, Owner, Family, OwnsCache, Free, Live, Allocated
  <2>6. CacheStoppedByOwnerOnly'
    BY <1>1 DEF NewRoot, TypeOK, Allocation, Goroutines, CacheStoppedByOwnerOnly, RootCause, Family, Free, Live, Allocated
  <2>7. HookStoppedByOwnerOnly'
    BY <1>1 DEF NewRoot, TypeOK, Allocation, Goroutines, HookStoppedByOwnerOnly, Free, Live, Allocated
  <2>8. QED
    BY <2>1, <2>2, <2>3, <2>4, <2>5, <2>6, <2>7
<1>2. ASSUME NEW l \in Loggers, ClaimTimeCache(l) PROVE IInv'
  <2>1. TypeOK'
    BY <1>2 DEF ClaimTimeCache, TypeOK, Config, Stages, Pcs, Owner, Family, NeedsHook
  <2>2. TokensDistinct'
    BY <1>2 DEF ClaimTimeCache, TypeOK, TokensDistinct, Allocation, Config, Stages, NeedsHook
  <2>3. Allocation'
    BY <1>2 DEF ClaimTimeCache, TypeOK, Allocation, Goroutines, Owner, Family, NeedsHook
  <2>4. Registries'
    BY <1>2 DEF ClaimTimeCache, TypeOK, TokensDistinct, Allocation, Registries, Goroutines, Owner, Family, NeedsHook
  <2>5. Goroutines'
    BY <1>2 DEF ClaimTimeCache, TypeOK, TokensDistinct, Allocation, Registries, Goroutines, Owner, Family, OwnsCache, NeedsHook
  <2>6. CacheStoppedByOwnerOnly'
    BY <1>2 DEF ClaimTimeCache, TypeOK, Allocation, Goroutines, CacheStoppedByOwnerOnly, RootCause, Family, NeedsHook
  <2>7. HookStoppedByOwnerOnly'
    BY <1>2 DEF ClaimTimeCache, TypeOK, Allocation, Goroutines, HookStoppedByOwnerOnly, NeedsHook
  <2>8. QED
    BY <2>1, <2>2, <2>3, <2>4, <2>5, <2>6, <2>7
<1>3. ASSUME NEW l \in Loggers, RegisterHook(l) PROVE IInv'
  <2>1. TypeOK'
    BY <1>3 DEF RegisterHook, TypeOK, Config, Stages, Pcs, Owner, Family
  <2>2. TokensDistinct'
    BY <1>3 DEF RegisterHook, TypeOK, TokensDistinct, Allocation, Config, Stages
  <2>3. Allocation'
    BY <1>3 DEF RegisterHook, TypeOK, Allocation, Goroutines, Owner, Family
  <2>4. Registries'
    BY <1>3 DEF RegisterHook, TypeOK, TokensDistinct, Allocation, Registries, Goroutines, Owner, Family
  <2>5. Goroutines'
    BY <1>3 DEF RegisterHook, TypeOK, TokensDistinct, Allocation, Registries, Goroutines, Owner, Family, OwnsCache
  <2>6. CacheStoppedByOwnerOnly'
    BY <1>3 DEF RegisterHook, TypeOK, Allocation, Goroutines, CacheStoppedByOwnerOnly, RootCause, Family
  <2>7. HookStoppedByOwnerOnly'
    BY <1>3 DEF RegisterHook, TypeOK, Allocation, Goroutines, HookStoppedByOwnerOnly
  <2>8. QED
    BY <2>1, <2>2, <2>3, <2>4, <2>5, <2>6, <2>7
<1>4. ASSUME NEW l \in Loggers, RegisterLateHook(l) PROVE IInv'
  <2>1. TypeOK'
    BY <1>4 DEF RegisterLateHook, TypeOK, Config, Stages, Pcs, Owner, Family
  <2>2. TokensDistinct'
    BY <1>4 DEF RegisterLateHook, TypeOK, TokensDistinct, Allocation, Config, Stages
  <2>3. Allocation'
    BY <1>4 DEF RegisterLateHook, TypeOK, Allocation, Goroutines, Owner, Family
  <2>4. Registries'
    BY <1>4 DEF RegisterLateHook, TypeOK, TokensDistinct, Allocation, Registries, Goroutines, Owner, Family
  <2>5. Goroutines'
    BY <1>4 DEF RegisterLateHook, TypeOK, TokensDistinct, Allocation, Registries, Goroutines, Owner, Family, OwnsCache
  <2>6. CacheStoppedByOwnerOnly'
    BY <1>4 DEF RegisterLateHook, TypeOK, Allocation, Goroutines, CacheStoppedByOwnerOnly, RootCause, Family
  <2>7. HookStoppedByOwnerOnly'
    BY <1>4 DEF RegisterLateHook, TypeOK, Allocation, Goroutines, HookStoppedByOwnerOnly
  <2>8. QED
    BY <2>1, <2>2, <2>3, <2>4, <2>5, <2>6, <2>7
<1>5. ASSUME NEW l \in Loggers, StoreHook(l) PROVE IInv'
  <2>1. TypeOK'
    BY <1>5 DEF StoreHook, TypeOK, Config, Stages, Pcs, Owner, Family
  <2>2. TokensDistinct'
    BY <1>5 DEF StoreHook, TypeOK, TokensDistinct, Allocation, Config, Stages
  <2>3. Allocation'
    BY <1>5 DEF StoreHook, TypeOK, Allocation, Goroutines, Owner, Family
  <2>4. Registries'
    BY <1>5 DEF StoreHook, TypeOK, TokensDistinct, Allocation, Registries, Goroutines, Owner, Family
  <2>5. Goroutines'
    BY <1>5 DEF StoreHook, TypeOK, TokensDistinct, Allocation, Registries, Goroutines, Owner, Family, OwnsCache
  <2>6. CacheStoppedByOwnerOnly'
    BY <1>5 DEF StoreHook, TypeOK, Allocation, Goroutines, CacheStoppedByOwnerOnly, RootCause, Family
  <2>7. HookStoppedByOwnerOnly'
    BY <1>5 DEF StoreHook, TypeOK, Allocation, Goroutines, HookStoppedByOwnerOnly
  <2>8. QED
    BY <2>1, <2>2, <2>3, <2>4, <2>5, <2>6, <2>7
<1>6. ASSUME NEW p \in Loggers, NEW l \in Loggers, NEW a \in Addrs, Clone(p, l, a) PROVE IInv'
  <2>1. TypeOK'
    BY <1>6 DEF Clone, TypeOK, Config, Stages, Pcs, Owner, Family, Free, Live, Allocated
  <2>2. TokensDistinct'
    BY <1>6 DEF Clone, TypeOK, TokensDistinct, Allocation, Config, Stages, Free, Live, Allocated
  <2>3. Allocation'
    BY <1>6 DEF Clone, TypeOK, Allocation, Goroutines, Owner, Family, Free, Live, Allocated
  <2>4. Registries'
    BY <1>6 DEF Clone, TypeOK, TokensDistinct, Allocation, Registries, Goroutines, Owner, Family, Free, Live, Allocated
  <2>5. Goroutines'
    BY <1>6 DEF Clone, TypeOK, TokensDistinct, Allocation, Registries, Goroutines, Owner, Family, OwnsCache, Free, Live, Allocated
  <2>6. CacheStoppedByOwnerOnly'
    BY <1>6 DEF Clone, TypeOK, Allocation, Goroutines, CacheStoppedByOwnerOnly, RootCause, Family, Free, Live, Allocated
  <2>7. HookStoppedByOwnerOnly'
    BY <1>6 DEF Clone, TypeOK, Allocation, Goroutines, HookStoppedByOwnerOnly, Free, Live, Allocated
  <2>8. QED
    BY <2>1, <2>2, <2>3, <2>4, <2>5, <2>6, <2>7
<1>7. ASSUME NEW c \in Contexts, Cancel(c) PROVE IInv'
  <2>1. TypeOK'
    BY <1>7 DEF Cancel, TypeOK, Config, Stages, Pcs, Owner, Family
  <2>2. TokensDistinct'
    BY <1>7 DEF Cancel, TypeOK, TokensDistinct, Allocation, Config, Stages
  <2>3. Allocation'
    BY <1>7 DEF Cancel, TypeOK, Allocation, Goroutines, Owner, Family
  <2>4. Registries'
    BY <1>7 DEF Cancel, TypeOK, TokensDistinct, Allocation, Registries, Goroutines, Owner, Family
  <2>5. Goroutines'
    BY <1>7 DEF Cancel, TypeOK, TokensDistinct, Allocation, Registries, Goroutines, Owner, Family, OwnsCache
  <2>6. CacheStoppedByOwnerOnly'
    BY <1>7 DEF Cancel, TypeOK, Allocation, Goroutines, CacheStoppedByOwnerOnly, RootCause, Family
  <2>7. HookStoppedByOwnerOnly'
    BY <1>7 DEF Cancel, TypeOK, Allocation, Goroutines, HookStoppedByOwnerOnly
  <2>8. QED
    BY <2>1, <2>2, <2>3, <2>4, <2>5, <2>6, <2>7
<1>8. ASSUME NEW l \in Loggers, FireHook(l) PROVE IInv'
  <2>1. TypeOK'
    BY <1>8 DEF FireHook, TypeOK, Config, Stages, Pcs, Owner, Family
  <2>2. TokensDistinct'
    BY <1>8 DEF FireHook, TypeOK, TokensDistinct, Allocation, Config, Stages
  <2>3. Allocation'
    BY <1>8 DEF FireHook, TypeOK, Allocation, Goroutines, Owner, Family
  <2>4. Registries'
    BY <1>8 DEF FireHook, TypeOK, TokensDistinct, Allocation, Registries, Goroutines, Owner, Family
  <2>5. Goroutines'
    BY <1>8 DEF FireHook, TypeOK, TokensDistinct, Allocation, Registries, Goroutines, Owner, Family, OwnsCache
  <2>6. CacheStoppedByOwnerOnly'
    BY <1>8 DEF FireHook, TypeOK, Allocation, Goroutines, CacheStoppedByOwnerOnly, RootCause, Family
  <2>7. HookStoppedByOwnerOnly'
    BY <1>8 DEF FireHook, TypeOK, Allocation, Goroutines, HookStoppedByOwnerOnly
  <2>8. QED
    BY <2>1, <2>2, <2>3, <2>4, <2>5, <2>6, <2>7
<1>9. ASSUME NEW t \in Closers, NEW l \in Loggers, CallClose(t, l) PROVE IInv'
  <2>1. TypeOK'
    BY <1>9 DEF CallClose, TypeOK, Config, Stages, Pcs, Owner, Family
  <2>2. TokensDistinct'
    BY <1>9 DEF CallClose, TypeOK, TokensDistinct, Allocation, Config, Stages
  <2>3. Allocation'
    BY <1>9 DEF CallClose, TypeOK, Allocation, Goroutines, Owner, Family
  <2>4. Registries'
    BY <1>9 DEF CallClose, TypeOK, TokensDistinct, Allocation, Registries, Goroutines, Owner, Family
  <2>5. Goroutines'
    BY <1>9 DEF CallClose, TypeOK, TokensDistinct, Allocation, Registries, Goroutines, Owner, Family, OwnsCache
  <2>6. CacheStoppedByOwnerOnly'
    BY <1>9 DEF CallClose, TypeOK, Allocation, Goroutines, CacheStoppedByOwnerOnly, RootCause, Family
  <2>7. HookStoppedByOwnerOnly'
    BY <1>9 DEF CallClose, TypeOK, Allocation, Goroutines, HookStoppedByOwnerOnly
  <2>8. QED
    BY <2>1, <2>2, <2>3, <2>4, <2>5, <2>6, <2>7
<1>10. ASSUME NEW t \in Threads, TakeHook(t) PROVE IInv'
  <2>1. TypeOK'
    BY <1>10 DEF TakeHook, TypeOK, Allocation, Goroutines, Config, Stages, Pcs, Owner, Family
  <2>2. TokensDistinct'
    BY <1>10 DEF TakeHook, TypeOK, TokensDistinct, Allocation, Config, Stages
  <2>3. Allocation'
    BY <1>10 DEF TakeHook, TypeOK, Allocation, Goroutines, Owner, Family
  <2>4. Registries'
    BY <1>10 DEF TakeHook, TypeOK, TokensDistinct, Allocation, Registries, Goroutines, Owner, Family
  <2>5. Goroutines'
    BY <1>10 DEF TakeHook, TypeOK, TokensDistinct, Allocation, Registries, Goroutines, Owner, Family, OwnsCache
  <2>6. CacheStoppedByOwnerOnly'
    BY <1>10 DEF TakeHook, TypeOK, Allocation, Goroutines, CacheStoppedByOwnerOnly, RootCause, Family
  <2>7. HookStoppedByOwnerOnly'
    BY <1>10 DEF TakeHook, TypeOK, Allocation, Goroutines, HookStoppedByOwnerOnly
  <2>8. QED
    BY <2>1, <2>2, <2>3, <2>4, <2>5, <2>6, <2>7
<1>11. ASSUME NEW t \in Threads, StopHook(t) PROVE IInv'
  <2>1. TypeOK'
    BY <1>11 DEF StopHook, TypeOK, Config, Stages, Pcs, Owner, Family
  <2>2. TokensDistinct'
    BY <1>11 DEF StopHook, TypeOK, TokensDistinct, Allocation, Config, Stages
  <2>3. Allocation'
    BY <1>11 DEF StopHook, TypeOK, Allocation, Goroutines, Owner, Family
  <2>4. Registries'
    BY <1>11 DEF StopHook, TypeOK, TokensDistinct, Allocation, Registries, Goroutines, Owner, Family
  <2>5. Goroutines'
    BY <1>11 DEF StopHook, TypeOK, TokensDistinct, Allocation, Registries, Goroutines, Owner, Family, OwnsCache
  <2>6. CacheStoppedByOwnerOnly'
    BY <1>11 DEF StopHook, TypeOK, Allocation, Goroutines, CacheStoppedByOwnerOnly, RootCause, Family
  <2>7. HookStoppedByOwnerOnly'
    BY <1>11 DEF StopHook, TypeOK, Allocation, Goroutines, HookStoppedByOwnerOnly
  <2>8. QED
    BY <2>1, <2>2, <2>3, <2>4, <2>5, <2>6, <2>7
<1>12. ASSUME NEW t \in Threads, LoadOwner(t) PROVE IInv'
  <2>1. TypeOK'
    BY <1>12 DEF LoadOwner, TypeOK, Config, Stages, Pcs, Owner, Family
  <2>2. TokensDistinct'
    BY <1>12 DEF LoadOwner, TypeOK, TokensDistinct, Allocation, Config, Stages
  <2>3. Allocation'
    BY <1>12 DEF LoadOwner, TypeOK, Allocation, Goroutines, Owner, Family
  <2>4. Registries'
    BY <1>12 DEF LoadOwner, TypeOK, TokensDistinct, Allocation, Registries, Goroutines, Owner, Family
  <2>5. Goroutines'
    BY <1>12 DEF LoadOwner, TypeOK, TokensDistinct, Allocation, Registries, Goroutines, Owner, Family, OwnsCache
  <2>6. CacheStoppedByOwnerOnly'
    BY <1>12 DEF LoadOwner, TypeOK, Allocation, Goroutines, CacheStoppedByOwnerOnly, RootCause, Family
  <2>7. HookStoppedByOwnerOnly'
    BY <1>12 DEF LoadOwner, TypeOK, Allocation, Goroutines, HookStoppedByOwnerOnly
  <2>8. QED
    BY <2>1, <2>2, <2>3, <2>4, <2>5, <2>6, <2>7
<1>13. ASSUME NEW t \in Threads, CloseCache(t) PROVE IInv'
  <2>1. TypeOK'
    BY <1>13 DEF CloseCache, TypeOK, Allocation, Goroutines, Config, Stages, Pcs, Owner, Family
  <2>2. TokensDistinct'
    BY <1>13 DEF CloseCache, TypeOK, TokensDistinct, Allocation, Config, Stages
  <2>3. Allocation'
    BY <1>13 DEF CloseCache, TypeOK, Allocation, Goroutines, Owner, Family
  <2>4. Registries'
    BY <1>13 DEF CloseCache, TypeOK, TokensDistinct, Allocation, Registries, Goroutines, Owner, Family
  <2>5. Goroutines'
    BY <1>13 DEF CloseCache, TypeOK, TokensDistinct, Allocation, Registries, Goroutines, Owner, Family, OwnsCache
  <2>6. CacheStoppedByOwnerOnly'
    BY <1>13 DEF CloseCache, TypeOK, Allocation, Goroutines, CacheStoppedByOwnerOnly, RootCause, Family
  <2>7. HookStoppedByOwnerOnly'
    BY <1>13 DEF CloseCache, TypeOK, Allocation, Goroutines, HookStoppedByOwnerOnly
  <2>8. QED
    BY <2>1, <2>2, <2>3, <2>4, <2>5, <2>6, <2>7
<1>14. ASSUME NEW t \in Threads, DeleteOwner(t) PROVE IInv'
  <2>1. TypeOK'
    BY <1>14 DEF DeleteOwner, TypeOK, Config, Stages, Pcs, Owner, Family
  <2>2. TokensDistinct'
    BY <1>14 DEF DeleteOwner, TypeOK, TokensDistinct, Allocation, Config, Stages
  <2>3. Allocation'
    BY <1>14 DEF DeleteOwner, TypeOK, Allocation, Goroutines, Owner, Family
  <2>4. Registries'
    BY <1>14 DEF DeleteOwner, TypeOK, TokensDistinct, Allocation, Registries, Goroutines, Owner, Family
  <2>5. Goroutines'
    BY <1>14 DEF DeleteOwner, TypeOK, TokensDistinct, Allocation, Registries, Goroutines, Owner, Family, OwnsCache
  <2>6. CacheStoppedByOwnerOnly'
    BY <1>14 DEF DeleteOwner, TypeOK, Allocation, Goroutines, CacheStoppedByOwnerOnly, RootCause, Family
  <2>7. HookStoppedByOwnerOnly'
    BY <1>14 DEF DeleteOwner, TypeOK, Allocation, Goroutines, HookStoppedByOwnerOnly
  <2>8. QED
    BY <2>1, <2>2, <2>3, <2>4, <2>5, <2>6, <2>7
<1>15. ASSUME NEW t \in Threads, BeginCloseOutput(t) PROVE IInv'
  <2>1. TypeOK'
    BY <1>15 DEF BeginCloseOutput, TypeOK, Config, Stages, Pcs, Owner, Family
  <2>2. TokensDistinct'
    BY <1>15 DEF BeginCloseOutput, TypeOK, TokensDistinct, Allocation, Config, Stages
  <2>3. Allocation'
    BY <1>15 DEF BeginCloseOutput, TypeOK, Allocation, Goroutines, Owner, Family
  <2>4. Registries'
    BY <1>15 DEF BeginCloseOutput, TypeOK, TokensDistinct, Allocation, Registries, Goroutines, Owner, Family
  <2>5. Goroutines'
    BY <1>15 DEF BeginCloseOutput, TypeOK, TokensDistinct, Allocation, Registries, Goroutines, Owner, Family, OwnsCache
  <2>6. CacheStoppedByOwnerOnly'
    BY <1>15 DEF BeginCloseOutput, TypeOK, Allocation, Goroutines, CacheStoppedByOwnerOnly, RootCause, Family
  <2>7. HookStoppedByOwnerOnly'
    BY <1>15 DEF BeginCloseOutput, TypeOK, Allocation, Goroutines, HookStoppedByOwnerOnly
  <2>8. QED
    BY <2>1, <2>2, <2>3, <2>4, <2>5, <2>6, <2>7
<1>16. ASSUME NEW t \in Threads, SkipCloseOutput(t) PROVE IInv'
  <2>1. TypeOK'
    BY <1>16 DEF SkipCloseOutput, TypeOK, Config, Stages, Pcs, Owner, Family
  <2>2. TokensDistinct'
    BY <1>16 DEF SkipCloseOutput, TypeOK, TokensDistinct, Allocation, Config, Stages
  <2>3. Allocation'
    BY <1>16 DEF SkipCloseOutput, TypeOK, Allocation, Goroutines, Owner, Family
  <2>4. Registries'
    BY <1>16 DEF SkipCloseOutput, TypeOK, TokensDistinct, Allocation, Registries, Goroutines, Owner, Family
  <2>5. Goroutines'
    BY <1>16 DEF SkipCloseOutput, TypeOK, TokensDistinct, Allocation, Registries, Goroutines, Owner, Family, OwnsCache
  <2>6. CacheStoppedByOwnerOnly'
    BY <1>16 DEF SkipCloseOutput, TypeOK, Allocation, Goroutines, CacheStoppedByOwnerOnly, RootCause, Family
  <2>7. HookStoppedByOwnerOnly'
    BY <1>16 DEF SkipCloseOutput, TypeOK, Allocation, Goroutines, HookStoppedByOwnerOnly
  <2>8. QED
    BY <2>1, <2>2, <2>3, <2>4, <2>5, <2>6, <2>7
<1>17. ASSUME NEW t \in Threads, EndCloseOutput(t) PROVE IInv'
  <2>1. TypeOK'
    BY <1>17 DEF EndCloseOutput, TypeOK, Config, Stages, Pcs, Owner, Family
  <2>2. TokensDistinct'
    BY <1>17 DEF EndCloseOutput, TypeOK, TokensDistinct, Allocation, Config, Stages
  <2>3. Allocation'
    BY <1>17 DEF EndCloseOutput, TypeOK, Allocation, Goroutines, Owner, Family
  <2>4. Registries'
    BY <1>17 DEF EndCloseOutput, TypeOK, TokensDistinct, Allocation, Registries, Goroutines, Owner, Family
  <2>5. Goroutines'
    BY <1>17 DEF EndCloseOutput, TypeOK, TokensDistinct, Allocation, Registries, Goroutines, Owner, Family, OwnsCache
  <2>6. CacheStoppedByOwnerOnly'
    BY <1>17 DEF EndCloseOutput, TypeOK, Allocation, Goroutines, CacheStoppedByOwnerOnly, RootCause, Family
  <2>7. HookStoppedByOwnerOnly'
    BY <1>17 DEF EndCloseOutput, TypeOK, Allocation, Goroutines, HookStoppedByOwnerOnly
  <2>8. QED
    BY <2>1, <2>2, <2>3, <2>4, <2>5, <2>6, <2>7
<1>18. CASE UNCHANGED vars
  BY <1>18 DEF vars, TypeOK, TokensDistinct, Allocation, Registries, Goroutines, CacheStoppedByOwnerOnly, HookStoppedByOwnerOnly, RootCause, Family
<1>19. QED
  BY <1>1, <1>2, <1>3, <1>4, <1>5, <1>6, <1>7, <1>8, <1>9, <1>10, <1>11, <1>12, <1>13, <1>14, <1>15, <1>16, <1>17, <1>18 DEF Next, Construct, CloseStep, Collect

-----------------------------------------------------------------------------
(* Invariance. *)

THEOREM Invariance == ASSUME ~DropsLoggers PROVE Spec => []IInv
<1>1. IInv /\ [Next]_vars => IInv'
  BY StepIInv
<1>2. QED
  BY InitIInv, <1>1, PTL DEF Spec

\* A shared cache is stopped only for its root's Close or context
\* (closeLoggerRuntime).
THEOREM OwnerOnly == ASSUME ~DropsLoggers PROVE Spec => []CacheStoppedByOwnerOnly
BY Invariance, PTL DEF IInv

\* A pending hook is disarmed only by a Close of its own logger
\* (contextCloseStops).
THEOREM HookOfOwnerOnly == ASSUME ~DropsLoggers PROVE Spec => []HookStoppedByOwnerOnly
BY Invariance, PTL DEF IInv

-----------------------------------------------------------------------------
(* What a Close that has returned leaves behind. *)

StoppedWhenUnowned ==
    /\ \A r \in Loggers :
        /\ root[r] = r /\ stage[r] \in {"hook", "store", "ready"}
        /\ config[r].cached /\ cacheOwners[r] = Nil
        => r \in stopped
    /\ \A r \in Loggers : cacheOwners[r] # Nil => config[r].cached
    /\ \A t \in Threads : pc[t] = "delete" => by[t] \in stopped

ClosersLeaveNothing ==
    \A t \in Closers :
        /\ pc[t] # "idle" => stage[by[t]] = "ready"
        /\ pc[t] \notin {"idle", "take"} => hooks[addr[by[t]]] = Nil
        /\ pc[t] \in {"output", "closing", "returned"} /\ root[by[t]] = by[t] =>
                cacheOwners[by[t]] = Nil

RInv == StoppedWhenUnowned /\ ClosersLeaveNothing

LEMMA InitRInv == Init => RInv
  BY LifecycleConstants
  DEF Init, RInv, StoppedWhenUnowned, ClosersLeaveNothing, NoConfig, Threads

LEMMA StepRInv == ~DropsLoggers /\ IInv /\ RInv /\ [Next]_vars => RInv'
<1> SUFFICES ASSUME ~DropsLoggers, IInv, RInv, [Next]_vars PROVE RInv'
  OBVIOUS
<1> USE LifecycleConstants DEF IInv, RInv, Threads, allocation, registries, resources, threads
<1>1. ASSUME NEW l \in Loggers, NEW a \in Addrs, NewRoot(l, a) PROVE RInv'
  <2>1. StoppedWhenUnowned'
    BY <1>1 DEF NewRoot, TypeOK, Config, TokensDistinct, Allocation, Registries, Goroutines, StoppedWhenUnowned, Owner, Family, OwnsCache, Free, Live, Allocated
  <2>2. ClosersLeaveNothing'
    BY <1>1 DEF NewRoot, TypeOK, TokensDistinct, Allocation, Registries, Goroutines, ClosersLeaveNothing, StoppedWhenUnowned, Owner, Family, OwnsCache, Free, Live, Allocated
  <2>3. QED
    BY <2>1, <2>2
<1>2. ASSUME NEW l \in Loggers, ClaimTimeCache(l) PROVE RInv'
  <2>1. StoppedWhenUnowned'
    BY <1>2 DEF ClaimTimeCache, TypeOK, Config, TokensDistinct, Allocation, Registries, Goroutines, StoppedWhenUnowned, Owner, Family, OwnsCache, NeedsHook
  <2>2. ClosersLeaveNothing'
    BY <1>2 DEF ClaimTimeCache, TypeOK, TokensDistinct, Allocation, Registries, Goroutines, ClosersLeaveNothing, StoppedWhenUnowned, Owner, Family, OwnsCache, NeedsHook
  <2>3. QED
    BY <2>1, <2>2
<1>3. ASSUME NEW l \in Loggers, RegisterHook(l) PROVE RInv'
  <2>1. StoppedWhenUnowned'
    BY <1>3 DEF RegisterHook, TypeOK, Config, TokensDistinct, Allocation, Registries, Goroutines, StoppedWhenUnowned, Owner, Family, OwnsCache
  <2>2. ClosersLeaveNothing'
    BY <1>3 DEF RegisterHook, TypeOK, TokensDistinct, Allocation, Registries, Goroutines, ClosersLeaveNothing, StoppedWhenUnowned, Owner, Family, OwnsCache
  <2>3. QED
    BY <2>1, <2>2
<1>4. ASSUME NEW l \in Loggers, RegisterLateHook(l) PROVE RInv'
  <2>1. StoppedWhenUnowned'
    BY <1>4 DEF RegisterLateHook, TypeOK, Config, TokensDistinct, Allocation, Registries, Goroutines, StoppedWhenUnowned, Owner, Family, OwnsCache
  <2>2. ClosersLeaveNothing'
    BY <1>4 DEF RegisterLateHook, TypeOK, TokensDistinct, Allocation, Registries, Goroutines, ClosersLeaveNothing, StoppedWhenUnowned, Owner, Family, OwnsCache
  <2>3. QED
    BY <2>1, <2>2
<1>5. ASSUME NEW l \in Loggers, StoreHook(l) PROVE RInv'
  <2>1. StoppedWhenUnowned'
    BY <1>5 DEF StoreHook, TypeOK, Config, TokensDistinct, Allocation, Registries, Goroutines, StoppedWhenUnowned, Owner, Family, OwnsCache
  <2>2. ClosersLeaveNothing'
    BY <1>5 DEF StoreHook, TypeOK, TokensDistinct, Allocation, Registries, Goroutines, ClosersLeaveNothing, StoppedWhenUnowned, Owner, Family, OwnsCache
  <2>3. QED
    BY <2>1, <2>2
<1>6. ASSUME NEW p \in Loggers, NEW l \in Loggers, NEW a \in Addrs, Clone(p, l, a) PROVE RInv'
  <2>1. StoppedWhenUnowned'
    BY <1>6 DEF Clone, TypeOK, Config, TokensDistinct, Allocation, Registries, Goroutines, StoppedWhenUnowned, Owner, Family, OwnsCache, Free, Live, Allocated
  <2>2. ClosersLeaveNothing'
    BY <1>6 DEF Clone, TypeOK, TokensDistinct, Allocation, Registries, Goroutines, ClosersLeaveNothing, StoppedWhenUnowned, Owner, Family, OwnsCache, Free, Live, Allocated
  <2>3. QED
    BY <2>1, <2>2
<1>7. ASSUME NEW c \in Contexts, Cancel(c) PROVE RInv'
  <2>1. StoppedWhenUnowned'
    BY <1>7 DEF Cancel, TypeOK, Config, TokensDistinct, Allocation, Registries, Goroutines, StoppedWhenUnowned, Owner, Family, OwnsCache
  <2>2. ClosersLeaveNothing'
    BY <1>7 DEF Cancel, TypeOK, TokensDistinct, Allocation, Registries, Goroutines, ClosersLeaveNothing, StoppedWhenUnowned, Owner, Family, OwnsCache
  <2>3. QED
    BY <2>1, <2>2
<1>8. ASSUME NEW l \in Loggers, FireHook(l) PROVE RInv'
  <2>1. StoppedWhenUnowned'
    BY <1>8 DEF FireHook, TypeOK, Config, TokensDistinct, Allocation, Registries, Goroutines, StoppedWhenUnowned, Owner, Family, OwnsCache
  <2>2. ClosersLeaveNothing'
    BY <1>8 DEF FireHook, TypeOK, TokensDistinct, Allocation, Registries, Goroutines, ClosersLeaveNothing, StoppedWhenUnowned, Owner, Family, OwnsCache
  <2>3. QED
    BY <2>1, <2>2
<1>9. ASSUME NEW t \in Closers, NEW l \in Loggers, CallClose(t, l) PROVE RInv'
  <2>1. StoppedWhenUnowned'
    BY <1>9 DEF CallClose, TypeOK, Config, TokensDistinct, Allocation, Registries, Goroutines, StoppedWhenUnowned, Owner, Family, OwnsCache
  <2>2. ClosersLeaveNothing'
    BY <1>9 DEF CallClose, TypeOK, TokensDistinct, Allocation, Registries, Goroutines, ClosersLeaveNothing, StoppedWhenUnowned, Owner, Family, OwnsCache
  <2>3. QED
    BY <2>1, <2>2
<1>10. ASSUME NEW t \in Threads, TakeHook(t) PROVE RInv'
  <2>1. StoppedWhenUnowned'
    BY <1>10 DEF TakeHook, TypeOK, Config, TokensDistinct, Allocation, Registries, Goroutines, StoppedWhenUnowned, Owner, Family, OwnsCache
  <2>2. ClosersLeaveNothing'
    BY <1>10 DEF TakeHook, TypeOK, TokensDistinct, Allocation, Registries, Goroutines, ClosersLeaveNothing, StoppedWhenUnowned, Owner, Family, OwnsCache
  <2>3. QED
    BY <2>1, <2>2
<1>11. ASSUME NEW t \in Threads, StopHook(t) PROVE RInv'
  <2>1. StoppedWhenUnowned'
    BY <1>11 DEF StopHook, TypeOK, Config, TokensDistinct, Allocation, Registries, Goroutines, StoppedWhenUnowned, Owner, Family, OwnsCache
  <2>2. ClosersLeaveNothing'
    BY <1>11 DEF StopHook, TypeOK, TokensDistinct, Allocation, Registries, Goroutines, ClosersLeaveNothing, StoppedWhenUnowned, Owner, Family, OwnsCache
  <2>3. QED
    BY <2>1, <2>2
<1>12. ASSUME NEW t \in Threads, LoadOwner(t) PROVE RInv'
  <2>1. StoppedWhenUnowned'
    BY <1>12 DEF LoadOwner, TypeOK, Config, TokensDistinct, Allocation, Registries, Goroutines, StoppedWhenUnowned, Owner, Family, OwnsCache
  <2>2. ClosersLeaveNothing'
    BY <1>12 DEF LoadOwner, TypeOK, TokensDistinct, Allocation, Registries, Goroutines, ClosersLeaveNothing, StoppedWhenUnowned, Owner, Family, OwnsCache
  <2>3. QED
    BY <2>1, <2>2
<1>13. ASSUME NEW t \in Threads, CloseCache(t) PROVE RInv'
  <2>1. StoppedWhenUnowned'
    BY <1>13 DEF CloseCache, TypeOK, Config, TokensDistinct, Allocation, Registries, Goroutines, StoppedWhenUnowned, Owner, Family, OwnsCache
  <2>2. ClosersLeaveNothing'
    BY <1>13 DEF CloseCache, TypeOK, TokensDistinct, Allocation, Registries, Goroutines, ClosersLeaveNothing, StoppedWhenUnowned, Owner, Family, OwnsCache
  <2>3. QED
    BY <2>1, <2>2
<1>14. ASSUME NEW t \in Threads, DeleteOwner(t) PROVE RInv'
  <2>1. StoppedWhenUnowned'
    BY <1>14 DEF DeleteOwner, TypeOK, Config, TokensDistinct, Allocation, Registries, Goroutines, StoppedWhenUnowned, Owner, Family, OwnsCache
  <2>2. ClosersLeaveNothing'
    BY <1>14 DEF DeleteOwner, TypeOK, TokensDistinct, Allocation, Registries, Goroutines, ClosersLeaveNothing, StoppedWhenUnowned, Owner, Family, OwnsCache
  <2>3. QED
    BY <2>1, <2>2
<1>15. ASSUME NEW t \in Threads, BeginCloseOutput(t) PROVE RInv'
  <2>1. StoppedWhenUnowned'
    BY <1>15 DEF BeginCloseOutput, TypeOK, Config, TokensDistinct, Allocation, Registries, Goroutines, StoppedWhenUnowned, Owner, Family, OwnsCache
  <2>2. ClosersLeaveNothing'
    BY <1>15 DEF BeginCloseOutput, TypeOK, TokensDistinct, Allocation, Registries, Goroutines, ClosersLeaveNothing, StoppedWhenUnowned, Owner, Family, OwnsCache
  <2>3. QED
    BY <2>1, <2>2
<1>16. ASSUME NEW t \in Threads, SkipCloseOutput(t) PROVE RInv'
  <2>1. StoppedWhenUnowned'
    BY <1>16 DEF SkipCloseOutput, TypeOK, Config, TokensDistinct, Allocation, Registries, Goroutines, StoppedWhenUnowned, Owner, Family, OwnsCache
  <2>2. ClosersLeaveNothing'
    BY <1>16 DEF SkipCloseOutput, TypeOK, TokensDistinct, Allocation, Registries, Goroutines, ClosersLeaveNothing, StoppedWhenUnowned, Owner, Family, OwnsCache
  <2>3. QED
    BY <2>1, <2>2
<1>17. ASSUME NEW t \in Threads, EndCloseOutput(t) PROVE RInv'
  <2>1. StoppedWhenUnowned'
    BY <1>17 DEF EndCloseOutput, TypeOK, Config, TokensDistinct, Allocation, Registries, Goroutines, StoppedWhenUnowned, Owner, Family, OwnsCache
  <2>2. ClosersLeaveNothing'
    BY <1>17 DEF EndCloseOutput, TypeOK, TokensDistinct, Allocation, Registries, Goroutines, ClosersLeaveNothing, StoppedWhenUnowned, Owner, Family, OwnsCache
  <2>3. QED
    BY <2>1, <2>2
<1>18. CASE UNCHANGED vars
  BY <1>18 DEF vars, StoppedWhenUnowned, ClosersLeaveNothing, Family
<1>19. QED
  BY <1>1, <1>2, <1>3, <1>4, <1>5, <1>6, <1>7, <1>8, <1>9, <1>10, <1>11, <1>12, <1>13, <1>14, <1>15, <1>16, <1>17, <1>18 DEF Next, Construct, CloseStep, Collect

LEMMA RInvariance == ASSUME ~DropsLoggers PROVE Spec => []RInv
<1>1. IInv /\ RInv /\ [Next]_vars => RInv'
  BY StepRInv
<1>. QED
  BY <1>1, Invariance, InitRInv, PTL DEF Spec

\* The Close of a root leaves no running cache and no registry entry, against
\* any interleaving with other Close calls and the context hook.
THEOREM CloseReleases == ASSUME ~DropsLoggers PROVE Spec => []RootCloseReleases
<1>1. IInv /\ RInv => RootCloseReleases
  BY LifecycleConstants
  DEF IInv, RInv, TypeOK, Goroutines, Allocation, StoppedWhenUnowned,
      ClosersLeaveNothing, RootCloseReleases, Threads
<1>. QED
  BY <1>1, Invariance, RInvariance, PTL

-----------------------------------------------------------------------------
(* Refinement of the abstract runtime. *)

LEMMA InitRefines == Init => Runtime!Init
  BY LifecycleConstants DEF Init, Runtime!Init, NoConfig

LEMMA StepRefines ==
  ~DropsLoggers /\ IInv /\ [Next]_vars => [Runtime!Next]_Runtime!vars
<1> SUFFICES ASSUME ~DropsLoggers, IInv, [Next]_vars
             PROVE  [Runtime!Next]_Runtime!vars
  OBVIOUS
<1> DEFINE member == [m \in Loggers |-> IF stage[m] = "free" THEN Nil ELSE root[m]]
<1> USE LifecycleConstants DEF IInv, Threads, allocation, registries, resources, threads
<1>1. ASSUME NEW l \in Loggers, NEW a \in Addrs, NewRoot(l, a) PROVE Runtime!Next
  <2>1. member' = [member EXCEPT ![l] = l]
    BY <1>1 DEF NewRoot, TypeOK, Allocation
  <2>2. member[l] = Nil
    BY <1>1 DEF NewRoot
  <2>3. Runtime!Make(l)
    BY <1>1, <2>1, <2>2 DEF NewRoot, Runtime!Make
  <2>4. QED
    BY <2>3 DEF Runtime!Next
<1>2. ASSUME NEW l \in Loggers, ClaimTimeCache(l) PROVE UNCHANGED Runtime!vars
  BY <1>2 DEF ClaimTimeCache, Runtime!vars, TypeOK, Allocation, NeedsHook
<1>3. ASSUME NEW l \in Loggers, RegisterHook(l) PROVE UNCHANGED Runtime!vars
  BY <1>3 DEF RegisterHook, Runtime!vars, TypeOK, Allocation
<1>4. ASSUME NEW l \in Loggers, RegisterLateHook(l) PROVE UNCHANGED Runtime!vars
  BY <1>4 DEF RegisterLateHook, Runtime!vars, TypeOK, Allocation
<1>5. ASSUME NEW l \in Loggers, StoreHook(l) PROVE UNCHANGED Runtime!vars
  BY <1>5 DEF StoreHook, Runtime!vars, TypeOK, Allocation
<1>6. ASSUME NEW p \in Loggers, NEW l \in Loggers, NEW a \in Addrs, Clone(p, l, a) PROVE Runtime!Next
  <2>1. member' = [member EXCEPT ![l] = member[p]]
    BY <1>6 DEF Clone, TypeOK
  <2>2. member[l] = Nil /\ member[p] # Nil
    BY <1>6 DEF Clone, TypeOK
  <2>3. Runtime!Join(l, p)
    BY <1>6, <2>1, <2>2 DEF Clone, Runtime!Join
  <2>4. QED
    BY <2>3 DEF Runtime!Next
<1>7. ASSUME NEW c \in Contexts, Cancel(c) PROVE Runtime!Next
  <2>1. Runtime!EndContext(c)
    BY <1>7 DEF Cancel, Runtime!EndContext, TypeOK, Allocation, Goroutines, Config, Family
  <2>2. QED
    BY <1>7, <2>1 DEF Runtime!Next, TypeOK, Goroutines, Family
<1>8. ASSUME NEW l \in Loggers, FireHook(l) PROVE UNCHANGED Runtime!vars
  BY <1>8 DEF FireHook, Runtime!vars, TypeOK, Allocation
<1>9. ASSUME NEW t \in Closers, NEW l \in Loggers, CallClose(t, l) PROVE Runtime!Next
  <2>1. Runtime!Ask(l)
    BY <1>9 DEF CallClose, Runtime!Ask, TypeOK, Allocation, Goroutines, Config, Family
  <2>2. QED
    BY <1>9, <2>1 DEF Runtime!Next, TypeOK, Goroutines, Family
<1>10. ASSUME NEW t \in Threads, TakeHook(t) PROVE UNCHANGED Runtime!vars
  BY <1>10 DEF TakeHook, Runtime!vars, TypeOK, Allocation
<1>11. ASSUME NEW t \in Threads, StopHook(t) PROVE UNCHANGED Runtime!vars
  BY <1>11 DEF StopHook, Runtime!vars, TypeOK, Allocation
<1>12. ASSUME NEW t \in Threads, LoadOwner(t) PROVE UNCHANGED Runtime!vars
  BY <1>12 DEF LoadOwner, Runtime!vars, TypeOK, Allocation
<1>13. ASSUME NEW t \in Threads, CloseCache(t) PROVE Runtime!Next
  <2>1. Runtime!StopCache(Family(t))
    BY <1>13 DEF CloseCache, Runtime!StopCache, Runtime!RootCause, TypeOK, Allocation, Goroutines, Config, Family
  <2>2. Family(t) \in Loggers
    BY <1>13 DEF CloseCache, TypeOK, Goroutines, Family
  <2>3. QED
    BY <2>1, <2>2 DEF Runtime!Next
<1>14. ASSUME NEW t \in Threads, DeleteOwner(t) PROVE UNCHANGED Runtime!vars
  BY <1>14 DEF DeleteOwner, Runtime!vars, TypeOK, Allocation
<1>15. ASSUME NEW t \in Threads, BeginCloseOutput(t) PROVE Runtime!Next
  <2>1. Runtime!BeginClose(Family(t))
    BY <1>15 DEF BeginCloseOutput, Runtime!BeginClose, Runtime!FamilyCause, TypeOK, Allocation, Goroutines, Config, Family
  <2>2. Family(t) \in Loggers
    BY <1>15 DEF BeginCloseOutput, TypeOK, Goroutines, Family
  <2>3. QED
    BY <2>1, <2>2 DEF Runtime!Next
<1>16. ASSUME NEW t \in Threads, SkipCloseOutput(t) PROVE UNCHANGED Runtime!vars
  BY <1>16 DEF SkipCloseOutput, Runtime!vars, TypeOK, Allocation
<1>17. ASSUME NEW t \in Threads, EndCloseOutput(t) PROVE Runtime!Next
  <2>1. Runtime!EndClose(Family(t))
    BY <1>17 DEF EndCloseOutput, Runtime!EndClose, TypeOK, Allocation, Goroutines, Config, Family
  <2>2. Family(t) \in Loggers
    BY <1>17 DEF EndCloseOutput, TypeOK, Goroutines, Family
  <2>3. QED
    BY <2>1, <2>2 DEF Runtime!Next
<1>18. ASSUME UNCHANGED vars PROVE UNCHANGED Runtime!vars
  BY <1>18 DEF vars, Runtime!vars
<1>19. QED
  BY <1>1, <1>2, <1>3, <1>4, <1>5, <1>6, <1>7, <1>8, <1>9, <1>10, <1>11, <1>12, <1>13, <1>14, <1>15, <1>16, <1>17, <1>18 DEF Next, Construct, CloseStep, Collect

\* The registries and goroutines implement the abstract runtime.
THEOREM Refinement == ASSUME ~DropsLoggers PROVE Spec => ImplementsRuntime
<1>1. IInv /\ [Next]_vars => [Runtime!Next]_Runtime!vars
  BY StepRefines
<1>2. QED
  BY <1>1, Invariance, InitRefines, PTL DEF Spec, ImplementsRuntime, Runtime!Spec

=============================================================================
