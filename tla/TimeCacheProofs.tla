-------------------------- MODULE TimeCacheProofs --------------------------
(***************************************************************************)
(* Proofs about TimeCache for any number of closers, any bound of the      *)
(* clock and any layout that sorts (with one that starts again, a time of   *)
(* day, the value does run backwards).                                      *)
(***************************************************************************)
EXTENDS TimeCache, TLAPS

\* What is formatted comes in order: the stored time, then the one the
\* goroutine holds, then the one in the channel, then the clock.
Ordered ==
    /\ tick <= now
    /\ channel # Empty => tick <= channel /\ channel <= now
    /\ boot \in {"clock", "store"} => value = 0
    /\ boot \in {"launch", "up"} =>
            IF refresh = "store" THEN value <= Format(tick) ELSE value = Format(tick)

\* Every tick since the last one that was kept has been counted as dropped.
Counted ==
    ticker = "running" =>
        now = dropped + IF channel = Empty THEN tick ELSE channel

Phases ==
    /\ boot # "up" => refresh = "none" /\ ticker = "none" /\ channel = Empty
    /\ boot = "up" => refresh # "none"
    /\ boot = "clock" => tick = 0
    /\ doneCh => refresh \in {"stopTicker", "exited"}

IInv == TypeOK /\ Ordered /\ Counted /\ Phases

LEMMA InitIInv == Init => IInv
<1> SUFFICES ASSUME Init PROVE IInv
  OBVIOUS
<1>1. 0 \in Times
  BY TimeCacheConstants DEF Times
<1>2. TypeOK
  BY <1>1 DEF Init, TypeOK
<1>3. Ordered /\ Counted /\ Phases
  BY DEF Init, Ordered, Counted, Phases
<1>4. QED
  BY <1>2, <1>3 DEF IInv

LEMMA StepIInv == IInv /\ [Next]_vars => IInv'
<1> SUFFICES ASSUME IInv, [Next]_vars PROVE IInv'
  OBVIOUS
<1> USE TimeCacheConstants DEF IInv, TypeOK, Ordered, Counted, Phases, Times
<1>1. CASE Advance
  BY <1>1 DEF Advance
<1>2. CASE EndTicker
  BY <1>2 DEF EndTicker
<1>3. CASE ReadClock
  BY <1>3 DEF ReadClock
<1>4. CASE StoreFirst
  BY <1>4 DEF StoreFirst
<1>5. CASE Launch
  BY <1>5 DEF Launch
<1>6. CASE TakeStop
  BY <1>6 DEF TakeStop
<1>7. CASE TakeTick
  BY <1>7 DEF TakeTick
<1>8. CASE TakeEnd
  BY <1>8 DEF TakeEnd
<1>9. CASE StoreTick
  BY <1>9 DEF StoreTick
<1>10. CASE CloseDone
  BY <1>10 DEF CloseDone
<1>11. CASE StopTicker
  BY <1>11 DEF StopTicker
<1>12. ASSUME NEW c \in Closers, CallClose(c) PROVE IInv'
  BY <1>12 DEF CallClose
<1>13. ASSUME NEW c \in Closers, CloseStopCh(c) PROVE IInv'
  BY <1>13 DEF CloseStopCh
<1>14. CASE UNCHANGED vars
  BY <1>14 DEF vars
<1>15. QED
  BY <1>1, <1>2, <1>3, <1>4, <1>5, <1>6, <1>7, <1>8, <1>9, <1>10, <1>11, <1>12,
     <1>13, <1>14 DEF Next, Start, Refresh

THEOREM Invariance == Spec => []IInv
<1>1. IInv /\ [Next]_vars => IInv'
  BY StepIInv
<1>2. QED
  BY InitIInv, <1>1, PTL DEF Spec

\* The timestamps of a logger never run backwards.
THEOREM Monotone == Spec => NeverGoesBack
<1>1. IInv /\ [Next]_vars => [value' >= value]_vars
  <2> SUFFICES ASSUME IInv, [Next]_vars, ~UNCHANGED vars PROVE value' >= value
    OBVIOUS
  <2> USE TimeCacheConstants DEF IInv, TypeOK, Ordered, Phases, Times
  <2>1. CASE StoreFirst
    BY <2>1 DEF StoreFirst
  <2>2. CASE StoreTick
    BY <2>2 DEF StoreTick
  <2>3. CASE UNCHANGED value
    BY <2>3
  <2>4. QED
    BY <2>1, <2>2, <2>3 DEF Next, Start, Refresh, Advance, EndTicker, ReadClock,
       Launch, TakeStop, TakeTick, TakeEnd, CloseDone, StopTicker, CallClose,
       CloseStopCh
<1>2. QED
  BY <1>1, Invariance, PTL DEF NeverGoesBack, Spec

\* Nothing is stored any more once the done channel is closed.
THEOREM DoneIsFinal == Spec => QuietAfterDone
<1>1. IInv /\ [Next]_vars => [doneCh => UNCHANGED value]_vars
  BY DEF IInv, Phases, Next, Start, Refresh, Advance, EndTicker, ReadClock,
     StoreFirst, Launch, TakeStop, TakeTick, TakeEnd, StoreTick, CloseDone,
     StopTicker, CallClose, CloseStopCh
<1>2. QED
  BY <1>1, Invariance, PTL DEF QuietAfterDone, Spec

\* An idle refresh goroutine is behind by the dropped ticks, exactly.
THEOREM ExactLag == Spec => []LagIsDropped
<1>1. IInv => LagIsDropped
  BY TimeCacheConstants
  DEF IInv, TypeOK, Ordered, Counted, Phases, LagIsDropped, Times
<1>2. QED
  BY <1>1, Invariance, PTL

\* Every variable stays in its type, for all values of the constants.
THEOREM TypeCorrect == Spec => []TypeOK
<1>1. IInv => TypeOK
  BY DEF IInv
<1> QED
  BY <1>1, Invariance, PTL
=============================================================================
