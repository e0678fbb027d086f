--------------------------- MODULE SharedRuntime ---------------------------
(***************************************************************************)
(* What the loggers of a process promise about the runtime they share:     *)
(* docs/subsystems/core-api-and-config.md, "shared runtime components are  *)
(* closed by owning logger only", env-opened outputs are "closed once".    *)
(*                                                                         *)
(* No address, no registry, no goroutine: a root and its clones form a     *)
(* family; a cache stops for a reason its root has, a file is closed once, *)
(* for a reason someone of the family has.                                 *)
(***************************************************************************)
CONSTANTS Loggers, Contexts, Configs, Nil

VARIABLES
    member,     \* the root of each logger that exists, Nil for the others
    config,     \* what a root was made with: [ctx, cached, owned]
    cancelled,  \* contexts that have ended
    asked,      \* loggers whose Close was called
    stopped,    \* roots whose cache has stopped
    once        \* how far the one close of each family's file has got

vars == <<member, config, cancelled, asked, stopped, once>>

RootCause(r) == r \in asked \/ config[r].ctx \in cancelled

FamilyCause(r) ==
    config[r].ctx \in cancelled \/ \E l \in asked : member[l] = r

Init ==
    /\ member = [l \in Loggers |-> Nil]
    /\ config = [l \in Loggers |-> [ctx |-> Nil, cached |-> FALSE, owned |-> FALSE]]
    /\ cancelled = {}
    /\ asked = {}
    /\ stopped = {}
    /\ once = [l \in Loggers |-> "todo"]

Make(r) ==
    /\ member[r] = Nil
    /\ member' = [member EXCEPT ![r] = r]
    /\ \E c \in Configs : config' = [config EXCEPT ![r] = c]
    /\ UNCHANGED <<cancelled, asked, stopped, once>>

Join(l, p) ==
    /\ member[l] = Nil
    /\ member[p] # Nil
    /\ member' = [member EXCEPT ![l] = member[p]]
    /\ UNCHANGED <<config, cancelled, asked, stopped, once>>

EndContext(c) ==
    /\ cancelled' = cancelled \cup {c}
    /\ UNCHANGED <<member, config, asked, stopped, once>>

Ask(l) ==
    /\ member[l] # Nil
    /\ asked' = asked \cup {l}
    /\ UNCHANGED <<member, config, cancelled, stopped, once>>

StopCache(r) ==
    /\ config[r].cached
    /\ RootCause(r)
    /\ stopped' = stopped \cup {r}
    /\ UNCHANGED <<member, config, cancelled, asked, once>>

BeginClose(r) ==
    /\ config[r].owned
    /\ FamilyCause(r)
    /\ once[r] = "todo"
    /\ once' = [once EXCEPT ![r] = "running"]
    /\ UNCHANGED <<member, config, cancelled, asked, stopped>>

EndClose(r) ==
    /\ once[r] = "running"
    /\ once' = [once EXCEPT ![r] = "done"]
    /\ UNCHANGED <<member, config, cancelled, asked, stopped>>

Next ==
    \/ \E r \in Loggers : Make(r) \/ Ask(r) \/ StopCache(r) \/ BeginClose(r) \/ EndClose(r)
    \/ \E l, p \in Loggers : Join(l, p)
    \/ \E c \in Contexts : EndContext(c)

Spec == Init /\ [][Next]_vars

=============================================================================
