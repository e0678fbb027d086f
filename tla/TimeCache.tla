----------------------------- MODULE TimeCache -----------------------------
(***************************************************************************)
(* The cached timestamp of a logger family (timecache.go): start stores a  *)
(* first value and launches a goroutine that stores a new one for every    *)
(* tick of a ticker, until Close closes the stop channel.                  *)
(*                                                                         *)
(* Time is counted in ticks.  A ticker drops the ticks its channel (one    *)
(* place) has no room for.  Format abstracts the layout: what a reader can *)
(* tell of a time once it is formatted.                                    *)
(***************************************************************************)
EXTENDS Naturals

CONSTANTS
    Closers,       \* goroutines that call Close
    MaxTime,       \* bound of the clock: there time stands still, ticks go on
    TickerMayEnd,  \* TRUE: the ticker's owner may close its channel
    Format(_),     \* the layout
    Empty          \* no tick in the channel

Times == 0 .. MaxTime

ASSUME TimeCacheConstants ==
    /\ MaxTime \in Nat \ {0}
    /\ TickerMayEnd \in BOOLEAN
    /\ Empty \notin Times
    /\ \A t \in Times : Format(t) \in Times
    /\ \A s, t \in Times : s <= t => Format(s) <= Format(t)

VARIABLES
    now,       \* the clock
    boot,      \* how far start has got
    value,     \* the formatted time that Current returns
    ticker,    \* "none", "running", "ended" (channel closed), "stopped"
    channel,   \* the tick waiting in the ticker's channel
    dropped,   \* history: ticks dropped since a tick was last put there
    refresh,   \* the refresh goroutine
    tick,      \* the time start or the refresh goroutine is about to format
    stopFlag,  \* stopped
    stopCh,    \* TRUE once the stop channel is closed
    doneCh,    \* TRUE once the done channel is closed
    closing    \* the callers of Close

vars == <<now, boot, value, ticker, channel, dropped, refresh, tick, stopFlag,
          stopCh, doneCh, closing>>

Init ==
    /\ now = 0
    /\ boot = "clock"
    /\ value = 0
    /\ ticker = "none"
    /\ channel = Empty
    /\ dropped = 0
    /\ refresh = "none"
    /\ tick = 0
    /\ stopFlag = FALSE
    /\ stopCh = FALSE
    /\ doneCh = FALSE
    /\ closing = [c \in Closers |-> "idle"]

-----------------------------------------------------------------------------
(* The clock and the ticker. *)

Advance ==
    /\ now' = IF now < MaxTime THEN now + 1 ELSE now
    /\ \/ /\ ticker = "running" /\ channel = Empty
          /\ channel' = now'
          /\ dropped' = 0
       \/ /\ ticker = "running" /\ channel # Empty
          /\ dropped' = dropped + (now' - now)
          /\ UNCHANGED channel
       \/ /\ ticker # "running"
          /\ UNCHANGED <<channel, dropped>>
    /\ UNCHANGED <<boot, value, ticker, refresh, tick, stopFlag, stopCh, doneCh,
                   closing>>

\* Only a ticker supplied by newTicker can end; time.Ticker never does.
EndTicker ==
    /\ TickerMayEnd
    /\ ticker = "running"
    /\ ticker' = "ended"
    /\ UNCHANGED <<now, boot, value, channel, dropped, refresh, tick, stopFlag,
                   stopCh, doneCh, closing>>

-----------------------------------------------------------------------------
(* start *)

ReadClock ==
    /\ boot = "clock"
    /\ tick' = now
    /\ boot' = "store"
    /\ UNCHANGED <<now, value, ticker, channel, dropped, refresh, stopFlag, stopCh,
                   doneCh, closing>>

\* Mutant: the first value is left to the first tick.
SkipFirst ==
    /\ boot = "store"
    /\ boot' = "launch"
    /\ UNCHANGED <<now, value, ticker, channel, dropped, refresh, tick, stopFlag,
                   stopCh, doneCh, closing>>

StoreFirst ==
    /\ boot = "store"
    /\ value' = Format(tick)
    /\ boot' = "launch"
    /\ UNCHANGED <<now, ticker, channel, dropped, refresh, tick, stopFlag, stopCh,
                   doneCh, closing>>

\* The ticker and its goroutine; what passes between the first value and
\* the ticker counts as dropped.
Launch ==
    /\ boot = "launch"
    /\ boot' = "up"
    /\ ticker' = "running"
    /\ refresh' = "select"
    /\ dropped' = now - tick
    /\ UNCHANGED <<now, value, channel, tick, stopFlag, stopCh, doneCh, closing>>

-----------------------------------------------------------------------------
(* refresh: with both channels ready, select takes either. *)

TakeStop ==
    /\ refresh = "select"
    /\ stopCh
    /\ refresh' = "closeDone"
    /\ UNCHANGED <<now, boot, value, ticker, channel, dropped, tick, stopFlag,
                   stopCh, doneCh, closing>>

TakeTick ==
    /\ refresh = "select"
    /\ channel # Empty
    /\ tick' = channel
    /\ channel' = Empty
    /\ refresh' = "store"
    /\ UNCHANGED <<now, boot, value, ticker, dropped, stopFlag, stopCh, doneCh,
                   closing>>

\* A closed channel still delivers the tick it holds.
TakeEnd ==
    /\ refresh = "select"
    /\ ticker = "ended"
    /\ channel = Empty
    /\ refresh' = "closeDone"
    /\ UNCHANGED <<now, boot, value, ticker, channel, dropped, tick, stopFlag,
                   stopCh, doneCh, closing>>

StoreTick ==
    /\ refresh = "store"
    /\ value' = Format(tick)
    /\ refresh' = "select"
    /\ UNCHANGED <<now, boot, ticker, channel, dropped, tick, stopFlag, stopCh,
                   doneCh, closing>>

\* The deferred calls run last in, first out.
CloseDone ==
    /\ refresh = "closeDone"
    /\ doneCh' = TRUE
    /\ refresh' = "stopTicker"
    /\ UNCHANGED <<now, boot, value, ticker, channel, dropped, tick, stopFlag,
                   stopCh, closing>>

StopTicker ==
    /\ refresh = "stopTicker"
    /\ ticker' = "stopped"
    /\ refresh' = "exited"
    /\ UNCHANGED <<now, boot, value, channel, dropped, tick, stopFlag, stopCh,
                   doneCh, closing>>

-----------------------------------------------------------------------------
(* Close *)

\* Mutant: Close leaves a last, exact value while the goroutine is busy.
CallCloseAndStore(c) ==
    /\ boot = "up"
    /\ closing[c] = "idle"
    /\ stopFlag' = TRUE
    /\ value' = IF refresh = "store" THEN Format(now) ELSE value
    /\ closing' = [closing EXCEPT ![c] = "once"]
    /\ UNCHANGED <<now, boot, ticker, channel, dropped, refresh, tick, stopCh, doneCh>>

CallClose(c) ==
    /\ boot = "up"
    /\ closing[c] = "idle"
    /\ stopFlag' = TRUE
    /\ closing' = [closing EXCEPT ![c] = "once"]
    /\ UNCHANGED <<now, boot, value, ticker, channel, dropped, refresh, tick,
                   stopCh, doneCh>>

\* Mutant: Close itself reports the goroutine as done.
CloseBoth(c) ==
    /\ closing[c] = "once"
    /\ stopCh' = TRUE
    /\ doneCh' = TRUE
    /\ closing' = [closing EXCEPT ![c] = "idle"]
    /\ UNCHANGED <<now, boot, value, ticker, channel, dropped, refresh, tick, stopFlag>>

\* Mutant: the flag is all that Close sets.
CloseNothing(c) ==
    /\ closing[c] = "once"
    /\ closing' = [closing EXCEPT ![c] = "idle"]
    /\ UNCHANGED <<now, boot, value, ticker, channel, dropped, refresh, tick,
                   stopFlag, stopCh, doneCh>>

\* stopOnce: the channel is closed once, however many callers there are.
CloseStopCh(c) ==
    /\ closing[c] = "once"
    /\ stopCh' = TRUE
    /\ closing' = [closing EXCEPT ![c] = "idle"]
    /\ UNCHANGED <<now, boot, value, ticker, channel, dropped, refresh, tick,
                   stopFlag, doneCh>>

-----------------------------------------------------------------------------

Start == ReadClock \/ StoreFirst \/ Launch

Refresh == TakeStop \/ TakeTick \/ TakeEnd \/ StoreTick \/ CloseDone \/ StopTicker

Next ==
    \/ Advance
    \/ EndTicker
    \/ Start
    \/ Refresh
    \/ \E c \in Closers : CallClose(c) \/ CloseStopCh(c)

Spec == Init /\ [][Next]_vars

\* Goroutines that can run do; select chooses at random among the ready cases,
\* so a stop that stays ready is taken in the end even if ticks never cease.
Fairness ==
    /\ WF_vars(Start)
    /\ WF_vars(Refresh)
    /\ SF_vars(TakeStop)
    /\ WF_vars(Advance)
    /\ \A c \in Closers : WF_vars(CloseStopCh(c))

FairSpec == Spec /\ Fairness

-----------------------------------------------------------------------------
(* Properties. *)

TypeOK ==
    /\ now \in Times
    /\ boot \in {"clock", "store", "launch", "up"}
    /\ value \in Times
    /\ ticker \in {"none", "running", "ended", "stopped"}
    /\ channel \in Times \cup {Empty}
    /\ dropped \in Times
    /\ refresh \in {"none", "select", "store", "closeDone", "stopTicker", "exited"}
    /\ tick \in Times
    /\ stopFlag \in BOOLEAN
    /\ stopCh \in BOOLEAN
    /\ doneCh \in BOOLEAN
    /\ closing \in [Closers -> {"idle", "once"}]

\* The timestamps a logger prints never run backwards, whoever stores them:
\* start, the refresh goroutine with a late tick, or a Close in between.
NeverGoesBack == [][value' >= value]_vars

\* Once the done channel is closed (what waitStopped waits for) the value is
\* final: no store is still under way.
QuietAfterDone == [][doneCh => UNCHANGED value]_vars

\* While the goroutine waits for a tick, the cached time is behind the clock by
\* the ticks it was too busy to receive, and by nothing else.
LagIsDropped ==
    refresh = "select" /\ channel = Empty /\ ticker = "running" =>
        value = Format(now - dropped)

\* Close is heeded even under a ticker that never pauses: the goroutine ends
\* and gives its ticker back, so that no logger leaks either.
StopIsHeeded == stopFlag ~> (refresh = "exited" /\ ticker = "stopped" /\ doneCh)

=============================================================================
