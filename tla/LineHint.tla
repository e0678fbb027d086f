------------------------------ MODULE LineHint ------------------------------
(***************************************************************************)
(* The length a console logger expects of its next line                    *)
(* (console_hint.go).  Goroutines that share a logger share the hint: each *)
(* loads it, decides from what it loaded and stores, in two steps that     *)
(* others may come between.                                                *)
(***************************************************************************)
EXTENDS Naturals

CONSTANTS
    Recorders,    \* goroutines that log through the hint
    Lengths,      \* lengths of the lines that are logged
    Usual,        \* the length of a line in steady use
    MaxUnusual,   \* bound of the lines of another length
    MaxPrealloc,  \* lineHintMaxPrealloc
    MinDelta      \* lineHintDecayMinDelta

ASSUME LineHintConstants ==
    /\ Lengths \subseteq Nat \ {0}
    /\ Usual \in Lengths
    /\ MaxUnusual \in Nat
    /\ MaxPrealloc \in Nat \ {0}
    /\ MinDelta \in Nat \ {0}

VARIABLES
    lineHint,  \* the hint; 0 at first
    doing,     \* what each goroutine is doing
    line,      \* the length it records, cut to MaxPrealloc
    loaded,    \* the hint it loaded
    shortest,  \* history: the shortest length recorded
    longest,   \* history: the longest
    unusual    \* how many lines had another length than Usual

hintVars == <<lineHint, doing, line, loaded, shortest, longest, unusual>>

HintInit ==
    /\ lineHint = 0
    /\ doing = [g \in Recorders |-> "idle"]
    /\ line = [g \in Recorders |-> 0]
    /\ loaded = [g \in Recorders |-> 0]
    /\ shortest = 0
    /\ longest = 0
    /\ unusual = 0

-----------------------------------------------------------------------------

Clamped(n) == IF n > MaxPrealloc THEN MaxPrealloc ELSE n

\* Mutant: the comparison has its sides swapped.
NotEvenDropped(current, next) == current * 2 > next

\* Ordinary variation, which the hint does not follow.
Jitter(current, next) == next * 2 > current \/ current - next < MinDelta

\* Mutant: the whole difference goes, and one more.
DroppedBelow(current, next) == next - 1

\* An eighth of the difference goes (lineHintDecayShift), at least 1, and not
\* more than all of it.
Decayed(current, next) ==
    LET decayed == current - ((current - next) \div 8)
    IN  IF decayed <= next THEN next
        ELSE IF decayed = current THEN current - 1 ELSE decayed

\* Mutant: the hint goes up by halves, too.
UpdatedSmoothly(current, next) ==
    IF current = 0 THEN next
    ELSE IF next >= current THEN (current + next) \div 2
    ELSE IF Jitter(current, next) THEN current ELSE Decayed(current, next)

\* What updateLineHint leaves in the hint, were nobody else to touch it.
Updated(current, next) ==
    IF current = 0 \/ next >= current THEN next
    ELSE IF Jitter(current, next) THEN current ELSE Decayed(current, next)

Load(g) ==
    /\ doing[g] = "idle"
    /\ \E n \in Lengths :
          /\ n = Usual \/ unusual < MaxUnusual
          /\ unusual' = IF n = Usual THEN unusual ELSE unusual + 1
          /\ line' = [line EXCEPT ![g] = Clamped(n)]
          /\ shortest' = IF shortest = 0 \/ Clamped(n) < shortest
                         THEN Clamped(n) ELSE shortest
          /\ longest' = IF Clamped(n) > longest THEN Clamped(n) ELSE longest
    /\ loaded' = [loaded EXCEPT ![g] = lineHint]
    /\ doing' = [doing EXCEPT ![g] = "loaded"]
    /\ UNCHANGED lineHint

\* Nothing is stored that would leave the hint as it was loaded.
Store(g) ==
    /\ doing[g] = "loaded"
    /\ lineHint' = LET next == Updated(loaded[g], line[g])
                   IN  IF next # loaded[g] THEN next ELSE lineHint
    /\ doing' = [doing EXCEPT ![g] = "idle"]
    /\ UNCHANGED <<line, loaded, shortest, longest, unusual>>

HintNext == \E g \in Recorders : Load(g) \/ Store(g)

\* Lines are logged on and on, by some goroutine, and a store that was begun
\* is finished.
HintFairness == \A g \in Recorders : WF_hintVars(Load(g)) /\ WF_hintVars(Store(g))

HintSpec == HintInit /\ [][HintNext]_hintVars

FairHintSpec == HintSpec /\ HintFairness

-----------------------------------------------------------------------------
(* Properties. *)

HintTypeOK ==
    /\ lineHint \in 0 .. MaxPrealloc
    /\ doing \in [Recorders -> {"idle", "loaded"}]
    /\ line \in [Recorders -> 0 .. MaxPrealloc]
    /\ loaded \in [Recorders -> 0 .. MaxPrealloc]
    /\ shortest \in 0 .. MaxPrealloc
    /\ longest \in 0 .. MaxPrealloc
    /\ unusual \in 0 .. MaxUnusual

\* However updates overtake each other, the hint never leaves the range of the
\* lines this logger really wrote (updateLineHint).
HintWithinLines == lineHint # 0 => shortest <= lineHint /\ lineHint <= longest

\* What a goroutine stores covers the line it has just written
\* (console_hint_test.go:31).
StoreCoversLine ==
    [][\A g \in Recorders :
          doing[g] = "loaded" /\ doing'[g] = "idle" /\ lineHint' # lineHint
              => lineHint' >= line[g]]_hintVars

\* The hint has come down to the usual line, or as near as the code cares for.
Settled ==
    Usual <= lineHint /\ (lineHint < 2 * Usual \/ lineHint < Usual + MinDelta)

\* A few long lines do not keep the hint up for good: with lines of the usual
\* length it comes down again and stays, although a goroutine may store back
\* what it computed from an older hint (console_hint.go:11).
ComesDown == <>[]Settled
=============================================================================
