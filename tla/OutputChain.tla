---------------------------- MODULE OutputChain ----------------------------
(***************************************************************************)
(* Where a committed line goes: a teeWriter over some destinations         *)
(* (output_writer.go), with an ObservedWriter around any of them or around *)
(* the whole (observed_writer.go).  Goroutines write at the same time, the *)
(* loggers ignore what Write returns, and readers ask for the Stats.       *)
(*                                                                         *)
(* Observer d watches destination d, observer 0 the tee.                   *)
(***************************************************************************)
EXTENDS Naturals, FiniteSets

CONSTANTS
    Goroutines,
    Readers,       \* goroutines that call Stats
    Destinations,  \* how many writers the tee has
    Observers,     \* where there is an ObservedWriter
    MaxLines       \* bound of the number of lines

Places == 0 .. Destinations
Lines == 1 .. MaxLines

ASSUME OutputChainConstants ==
    /\ IsFiniteSet(Goroutines)
    /\ Destinations \in Nat \ {0}
    /\ MaxLines \in Nat
    /\ Observers \subseteq Places

VARIABLES
    pc, line,   \* what each goroutine is doing, and with which line
    at,         \* the destination it has come to
    observer,   \* the ObservedWriter it is in
    short, err, \* whether the last Write was short, whether it gave an error
    lines,      \* lines begun so far
    shortWrite, failures,  \* the counters of each ObservedWriter
    got,        \* history: the lines each destination took whole
    failed,     \* history: the lines whose Write went wrong at each destination
    told,       \* history: the lines each onFailure was called for
    rpc, asked, \* what each reader is doing, and of which ObservedWriter
    snapshot,   \* the Stats it has read
    before      \* history: the counters when it began

chain == <<pc, line, at, observer, short, err, lines, got, failed, told>>
readers == <<rpc, asked, snapshot, before>>
vars == <<chain, readers, shortWrite, failures>>

Zero == [failures |-> 0, shorts |-> 0]

Init ==
    /\ pc = [g \in Goroutines |-> "idle"]
    /\ line = [g \in Goroutines |-> 0]
    /\ at = [g \in Goroutines |-> 0]
    /\ observer = [g \in Goroutines |-> 0]
    /\ short = [g \in Goroutines |-> FALSE]
    /\ err = [g \in Goroutines |-> FALSE]
    /\ lines = 0
    /\ shortWrite = [o \in Places |-> 0]
    /\ failures = [o \in Places |-> 0]
    /\ got = [d \in 1 .. Destinations |-> {}]
    /\ failed = [d \in 1 .. Destinations |-> {}]
    /\ told = [o \in Places |-> {}]
    /\ rpc = [r \in Readers |-> "idle"]
    /\ asked = [r \in Readers |-> 0]
    /\ snapshot = [r \in Readers |-> Zero]
    /\ before = [r \in Readers |-> Zero]

-----------------------------------------------------------------------------
(* Write. *)

\* Where g goes once the Write it is in has returned.
Returns(g, o) == IF o = 0 THEN "idle" ELSE "tee"

\* flush hands the next line to the chain.
Begin(g) ==
    /\ pc[g] = "idle"
    /\ lines < MaxLines
    /\ lines' = lines + 1
    /\ line' = [line EXCEPT ![g] = lines']
    /\ at' = [at EXCEPT ![g] = 1]
    /\ pc' = [pc EXCEPT ![g] = "write"]
    /\ UNCHANGED <<observer, short, err, shortWrite, failures, got, failed, told,
                   readers>>

\* A destination takes the line, or part of it, with an error or without.
WriteDestination(g) ==
    LET d == at[g]
    IN  /\ pc[g] = "write"
        /\ \E s, e \in BOOLEAN :
              /\ short' = [short EXCEPT ![g] = s]
              /\ err' = [err EXCEPT ![g] = e]
              /\ got' = IF s THEN got ELSE [got EXCEPT ![d] = @ \cup {line[g]}]
              /\ failed' = IF s \/ e THEN [failed EXCEPT ![d] = @ \cup {line[g]}]
                           ELSE failed
        /\ observer' = [observer EXCEPT ![g] = d]
        /\ pc' = [pc EXCEPT ![g] = IF d \in Observers THEN "observe" ELSE "tee"]
        /\ UNCHANGED <<line, at, lines, shortWrite, failures, told, readers>>

\* Mutant: a short write without an error passes for a success.
ObserveErrorsOnly(g) ==
    /\ pc[g] = "observe"
    /\ shortWrite' = IF short[g] THEN [shortWrite EXCEPT ![observer[g]] = @ + 1]
                     ELSE shortWrite
    /\ pc' = [pc EXCEPT ![g] = IF err[g] THEN "fail" ELSE Returns(g, observer[g])]
    /\ UNCHANGED <<line, at, observer, short, err, lines, failures, got, failed,
                   told, readers>>

\* Mutant: the callback is called before the failure is counted.
ObserveAndTell(g) ==
    /\ pc[g] = "observe"
    /\ shortWrite' = IF short[g] THEN [shortWrite EXCEPT ![observer[g]] = @ + 1]
                     ELSE shortWrite
    /\ err' = [err EXCEPT ![g] = @ \/ short[g]]
    /\ told' = IF err'[g] THEN [told EXCEPT ![observer[g]] = @ \cup {line[g]}]
               ELSE told
    /\ pc' = [pc EXCEPT ![g] = IF err'[g] THEN "fail" ELSE Returns(g, observer[g])]
    /\ UNCHANGED <<line, at, observer, short, lines, failures, got, failed,
                   readers>>

\* ObservedWriter looks at what the Write below it returned.
Observe(g) ==
    /\ pc[g] = "observe"
    /\ shortWrite' = IF short[g] THEN [shortWrite EXCEPT ![observer[g]] = @ + 1]
                     ELSE shortWrite
    /\ err' = [err EXCEPT ![g] = @ \/ short[g]]
    /\ pc' = [pc EXCEPT ![g] = IF err'[g] THEN "fail" ELSE Returns(g, observer[g])]
    /\ UNCHANGED <<line, at, observer, short, lines, failures, got, failed, told,
                   readers>>

CountFailure(g) ==
    /\ pc[g] = "fail"
    /\ failures' = [failures EXCEPT ![observer[g]] = @ + 1]
    /\ pc' = [pc EXCEPT ![g] = "tell"]
    /\ UNCHANGED <<line, at, observer, short, err, lines, shortWrite, got, failed,
                   told, readers>>

\* onFailure.
Tell(g) ==
    /\ pc[g] = "tell"
    /\ told' = [told EXCEPT ![observer[g]] = @ \cup {line[g]}]
    /\ pc' = [pc EXCEPT ![g] = Returns(g, observer[g])]
    /\ UNCHANGED <<line, at, observer, short, err, lines, shortWrite, failures,
                   got, failed, readers>>

\* Mutant: the tee goes on to the next destination after a failure.
GoesOn(g) == at[g] < Destinations

\* A failure, or the last destination, ends the tee's loop.
More(g) == ~short[g] /\ ~err[g] /\ at[g] < Destinations

\* The tee looks at what a destination returned.
Tee(g) ==
    /\ pc[g] = "tee"
    /\ IF More(g)
       THEN /\ at' = [at EXCEPT ![g] = @ + 1]
            /\ pc' = [pc EXCEPT ![g] = "write"]
            /\ UNCHANGED <<observer, err>>
       ELSE /\ err' = [err EXCEPT ![g] = @ \/ short[g]]
            /\ observer' = [observer EXCEPT ![g] = 0]
            /\ pc' = [pc EXCEPT ![g] = IF 0 \in Observers THEN "observe" ELSE "idle"]
            /\ UNCHANGED at
    /\ UNCHANGED <<line, short, lines, shortWrite, failures, got, failed, told,
                   readers>>

Write(g) ==
    \/ Begin(g) \/ WriteDestination(g) \/ Observe(g) \/ CountFailure(g)
    \/ Tell(g) \/ Tee(g)

-----------------------------------------------------------------------------
(* Stats. *)

Ask(r) ==
    /\ rpc[r] = "idle"
    /\ \E o \in Observers :
          /\ asked' = [asked EXCEPT ![r] = o]
          /\ before' = [before EXCEPT ![r] = [failures |-> failures[o],
                                              shorts |-> shortWrite[o]]]
    /\ rpc' = [rpc EXCEPT ![r] = "failures"]
    /\ UNCHANGED <<chain, snapshot, shortWrite, failures>>

LoadFailures(r) ==
    /\ rpc[r] = "failures"
    /\ snapshot' = [snapshot EXCEPT ![r].failures = failures[asked[r]]]
    /\ rpc' = [rpc EXCEPT ![r] = "shorts"]
    /\ UNCHANGED <<chain, asked, before, shortWrite, failures>>

\* Mutant: both fields are read from one counter.
LoadFailuresAgain(r) ==
    /\ rpc[r] = "shorts"
    /\ snapshot' = [snapshot EXCEPT ![r].shorts = failures[asked[r]]]
    /\ rpc' = [rpc EXCEPT ![r] = "done"]
    /\ UNCHANGED <<chain, asked, before, shortWrite, failures>>

LoadShortWrites(r) ==
    /\ rpc[r] = "shorts"
    /\ snapshot' = [snapshot EXCEPT ![r].shorts = shortWrite[asked[r]]]
    /\ rpc' = [rpc EXCEPT ![r] = "done"]
    /\ UNCHANGED <<chain, asked, before, shortWrite, failures>>

Return(r) ==
    /\ rpc[r] = "done"
    /\ rpc' = [rpc EXCEPT ![r] = "idle"]
    /\ UNCHANGED <<chain, asked, snapshot, before, shortWrite, failures>>

Stats(r) == Ask(r) \/ LoadFailures(r) \/ LoadShortWrites(r) \/ Return(r)

Next == (\E g \in Goroutines : Write(g)) \/ (\E r \in Readers : Stats(r))

Spec == Init /\ [][Next]_vars

-----------------------------------------------------------------------------
(* Properties. *)

TypeOK ==
    /\ pc \in [Goroutines -> {"idle", "write", "observe", "fail", "tell", "tee"}]
    /\ line \in [Goroutines -> 0 .. MaxLines]
    /\ at \in [Goroutines -> Places]
    /\ observer \in [Goroutines -> Places]
    /\ short \in [Goroutines -> BOOLEAN]
    /\ err \in [Goroutines -> BOOLEAN]
    /\ lines \in 0 .. MaxLines
    /\ shortWrite \in [Places -> Nat]
    /\ failures \in [Places -> Nat]
    /\ got \in [1 .. Destinations -> SUBSET Lines]
    /\ failed \in [1 .. Destinations -> SUBSET Lines]
    /\ told \in [Places -> SUBSET Lines]
    /\ rpc \in [Readers -> {"idle", "failures", "shorts", "done"}]
    /\ asked \in [Readers -> Places]
    /\ snapshot \in [Readers -> [failures: Nat, shorts: Nat]]
    /\ before \in [Readers -> [failures: Nat, shorts: Nat]]

\* The lines that went wrong below an ObservedWriter.
Failed(o) == IF o = 0 THEN UNION {failed[d] : d \in 1 .. Destinations} ELSE failed[o]

\* Writes that went wrong below o and that o has not counted yet.
Uncounted(o) ==
    {g \in Goroutines :
        /\ line[g] \in Failed(o)
        /\ \/ pc[g] \in {"observe", "fail"} /\ observer[g] = o
           \/ o = 0 /\ (pc[g] = "tee" \/ (pc[g] # "idle" /\ observer[g] # 0))}

\* Every line that did not reach everything below an ObservedWriter whole is
\* counted there, once, as soon as its Write is through: what the loggers
\* ignore can be observed (observed_writer.go:21).
FailuresExact ==
    \A o \in Observers :
        failures[o] + Cardinality(Uncounted(o)) = Cardinality(Failed(o))

\* onFailure is called for lines that failed and no others, and when it is
\* called the counter has the failure already.
ToldWhatFailed ==
    \A o \in Observers :
        told[o] \subseteq Failed(o) /\ Cardinality(told[o]) <= failures[o]

\* A line that a destination lacks is lacking in all the later ones: the tee
\* does not leave gaps (teeWriter).
CopiesNested == \A d \in 2 .. Destinations : got[d] \subseteq got[d - 1]

\* Stats returns cumulative counts, each from the time of the call, not older
\* and not newer (README.md:93).
StatsInCall ==
    \A r \in Readers : rpc[r] = "done" =>
        /\ before[r].failures <= snapshot[r].failures
        /\ snapshot[r].failures <= failures[asked[r]]
        /\ before[r].shorts <= snapshot[r].shorts
        /\ snapshot[r].shorts <= shortWrite[asked[r]]
=============================================================================
