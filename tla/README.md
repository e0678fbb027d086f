# Verification of pslog

TLA+ models of [pslog](../src/README.md), a levelled logging library for Go with
four emitters (JSON and console, plain and coloured), an environment-driven
constructor and a converter from console lines to JSON. The models are checked by
TLC on small instances; the theorems in the `*Proofs` modules are checked by TLAPS
for every value of the constants.

## 1. The system

A program asks pslog for a *root* logger (`New`, `NewWithOptions`, `LoggerFromEnv`) and
derives others from it with `With`, `WithLogLevel` and `LogLevel`. A derived logger is
a copy: it has its own levels, fields and length hint and shares the *runtime* of its
root, which is the time cache and the output. An entry (`Info`, `Log`, `Fatal`, ...)
is filtered, formatted into a pooled `lineWriter` and handed to the output with one
`Write`. The converter `pslogconsole2json` is a program of its own that reads what the
console loggers print.

| Component | Source | State it keeps | Operations | Interacts with |
|---|---|---|---|---|
| Ownership and teardown | `logger_close.go`, `owned_output.go`, constructors and clone methods | `cacheOwners` and `contextCancelOwners` (process-wide maps keyed by cache and by the address of a logger), AfterFunc registrations, the `sync.Once` of an owned file | construct, clone, `Close`, context cancellation | time cache, output, context package |
| Timestamp cache | `timecache.go` | formatted value, refresh goroutine, stop and done channels, ticker | `start`, `refresh`, `Current`, `Close`, `waitStopped` | teardown stops it, emitters read it |
| Line buffering | `writer.go`, `log` of every variant | a `sync.Pool` of `lineWriter`s, each with buffer, destination and literal caches | acquire, write, roll back, commit, release | emitters, output, hint |
| Length hint | `console_hint.go`, `lineHint.Store` of the JSON variants | one atomic per logger | read before a line, update after it | line buffering |
| Output chain | `observed_writer.go`, `output_writer.go`, `owned_output.go` | failure and short-write counters | `Write`, `Stats`, tee | line buffering, the user's writers and callbacks |
| Derived loggers | `logger_core.go`, `pslog.go`, the four `log` methods | levels, fields, encoded fields and selected emitter of each logger | `With`, `WithLogLevel`, `LogLevel`, level filter, caller field, `Fatal`, `Panic` | emitters, arguments of the caller |
| Key/value helpers | `keyvals.go`, `keyvals_util.go`, `currentfn.go` | none (`Keyvals` makes a slice that later calls share) | `Keyvals`, key naming, `CurrentFn` | derived loggers |
| JSON emitters | `json_plain.go`, `json_color.go`, `json_runtime.go`, `json_values.go`, `json_escape.go` | none but the logger's | one line per entry | line buffering |
| Console emitters | `console_plain.go`, `console_color.go`, `console_escape*.go` | the same | one line per entry | line buffering |
| Palette | `ansi/` | process-wide palette behind an `RWMutex`, exported variables | `SetPalette`, `Snapshot` | coloured emitters at construction |
| Environment constructor | `pslog_fromenv.go` | none (one call) | `LoggerFromEnv`, opening the output and its fallbacks | constructors, owned output |
| Standard library bridge | `pslog.go` (`loggerWriter`, `levelPinnedWriter`) | none | `Write` of the `*log.Logger` | derived loggers |
| Converter | `pslogconsole2json/` | type of each key, per stream | convert a stream of console lines | the format of the console emitters |

What makes each of them hard, and what makes it correct:

- **Teardown.** The hook of a cancelled context runs in its own goroutine against
  `Close` calls, constructors that have not finished and clones; the registries are
  keyed by a number that does not keep its logger alive. Correct: only the owner stops
  the cache; a file is closed once and nobody returns from `Close` before that; a
  cancelled context always tears down; nothing is left behind in the maps.
- **Time cache.** A late goroutine, a ticker with one place, a `select` that may
  prefer ticks, `Close` in the middle. Correct: time does not run backwards, lag is
  bounded by what was dropped, `Close` is heeded, the value is final after done.
- **Line path.** Pooled buffers, nested logging from a value's method, panics in the
  middle of a line, a fast pass that is taken back. Correct: one `Write` per entry
  with that line and nothing else, one user per buffer, bounded buffers.
- **Hint.** Load and store without compare-and-swap. Correct: stays within the lines
  written, comes down again.
- **Output.** Partial failures nobody looks at. Correct: every lost line is counted
  once, the tee leaves no gaps.
- **Derivation.** Cached encodings and levels in four places, and `append` to slices
  of the caller. Correct: filtering and lines follow from the derivation alone; the
  caller's data stays.
- **Values.** A dozen type switches over the same types that are kept alike by hand;
  scans that test eight bytes with one subtraction; literals that come from the caches
  of whatever `lineWriter` the pool gives; fields of `With` encoded ahead. Correct: what
  was logged reads back from the line, whichever code printed it, and nothing in a line
  can be taken for anything else.
- **Environment and bridge.** Eleven variables over seeded options, an output that may
  not open, text that is cut into level and message. Correct: what makes no sense changes
  nothing, failures are reported, no text is lost.
- **Converter.** Types that depend on earlier lines, errors half-way, outputs that
  share a name. Correct: an output depends on the lines of its own stream alone, and
  an entry that can be told from its line comes back.

The full list of hazards, each at its line, is in `PROJECT.json`.

## 2. The modules

| Module | Models | Checked by | Proved in |
|---|---|---|---|
| `SharedRuntime` | the promise: a cache stops for its owner's reason, a file is closed once | `LifecycleKeep` (refinement) | `LoggerLifecycleProofs` |
| `LoggerLifecycle` | `logger_close.go`, `owned_output.go`, constructors and clones | `Lifecycle*` | `LoggerLifecycleProofs` |
| `TimeCache` | `timecache.go` (layout classification is in `EnvConfig`) | `TimeCacheAll` | `TimeCacheProofs` |
| `LogPath` | `writer.go` and the `log` methods | `LogPathOneLine` | `LogPathProofs` |
| `LineHint` | `updateLineHint` | `LineHintAll` | `LogPathProofs` |
| `OutputChain` | `observed_writer.go`, `output_writer.go` | `OutputChainCounts` | `OutputChainProofs` |
| `DerivedLoggers` | `coreConfig`, `loggerBase`, clone methods, emitter selection, fields, filter | `DerivedLoggers*` | `DerivedLoggersProofs` |
| `Console2Json` | `pslogconsole2json/main.go` | `Console2JsonRun` | `Console2JsonProofs` |
| `EscapeScan` | the word-wise and byte-wise scans of `json_escape.go`, `console_escape*.go`, `escape_consts.go`, `json_runtime.go` | `LoggerSessionLines` | `LoggerSessionProofs` |
| `ValueSwitches` | the type switches of all emitters and how they chain | `LoggerSessionLines` | `LoggerSessionProofs` |
| `ValuePrinting` | what the case that was taken writes; keys; `Keyvals` | `LoggerSessionLines` | `LoggerSessionProofs` |
| `EnvConfig` | `pslog_fromenv.go`, `buildAdapter`, `isCacheableLayout` | `LoggerSessionLines` | `LoggerSessionProofs` |
| `StdLogBridge` | `loggerWriter`, `levelPinnedWriter`, `classifyLineLevel` | `LoggerSessionLines` | `LoggerSessionProofs` |
| `LoggerSession` | a program with its logger: the five above composed, with the literal caches of `writer.go` and the `log` methods pair by pair | `LoggerSessionLines` | `LoggerSessionProofs` |

`InductionLemmas` is a library of the proofs: induction and recursion, and what follows
for the recursive operators of the community modules.

Every module with a specification that is run has an `MC` module with the instances.
`PROJECT.json` maps every definition to the lines it stands for. Definitions marked
*Mutant* are plausible bugs that a property must catch; no specification uses them.

### LoggerLifecycle

A logger is named by a constant and has an address from `Addrs`; a cache, an owned
output and an AfterFunc registration are named by the root they were made for.
`cacheOwners` and `hooks` are the two `sync.Map`s, with an address (`ownerToken`) as
owner. A constructor takes the steps `NewRoot`, `ClaimTimeCache` (LoadOrStore),
`RegisterHook` or `RegisterLateHook` (`context.AfterFunc`, before or after the
cancellation) and `StoreHook`; `Clone` is one step. `Cancel` and `FireHook` are the
context package; the hook runs in a goroutine named by its root. `closeLoggerRuntime`
is one action per access to shared state: `TakeHook` (LoadAndDelete), `StopHook`,
`LoadOwner`, `CloseCache`, `DeleteOwner`, then `closeOutput` through the `sync.Once`:
`BeginCloseOutput`, `SkipCloseOutput` (waits while another closes), `EndCloseOutput`.
`Collect` is the garbage collector, which may free a logger's address for the next one
(`DropsLoggers`). What a cache does when stopped is `TimeCache`.

`SharedRuntime` has no addresses, registries or goroutines: families, reasons, one
close. `ImplementsRuntime` maps a logger to its root and the rest to itself.

### TimeCache

Time is counted in ticks. `start` is `ReadClock`, `StoreFirst`, `Launch`. The refresh
goroutine takes either ready case of its `select` (`TakeStop`, `TakeTick`, `TakeEnd`),
stores (`StoreTick`) and runs its deferred calls in their order (`CloseDone`,
`StopTicker`). The ticker (`Advance`) puts a tick into its one place or drops it;
`EndTicker` is the closed channel that the code tests for. `Close` is the atomic swap
(`CallClose`) and the closing of the channel (`CloseStopCh`). `Format` stands for the
layout; it must sort.

### LogPath

A line is a sequence of pieces that carry their entry, place and pass. `Begin` and
`Acquire` take a `lineWriter` from the pool or make one; `LoadHint`, `Emit` piece by
piece, `Rollback` when the fast pass meets a key that is no string, `ValuePanics`,
`FinishLine`, `Commit` (the one `Write`), `RecordHint`, `Release`. `DropPooled` is the
`sync.Pool` forgetting an element. A value that logs inside an entry is another
goroutine that runs while the first waits. `LineHint` refines how the console loggers
compute the hint that `RecordHint` stores.

### OutputChain

`Begin`, `WriteDestination` (whole, short, failing), `Observe` (short writes),
`CountFailure`, `Tell` (the callback), `Tee` (next destination or stop), and a reader's
`Ask`, `LoadFailures`, `LoadShortWrites`, `Return`. An `ObservedWriter` may be around
any destination or around the tee.

### DerivedLoggers

The family is a sequence of loggers; each derivation appends a changed copy of its
receiver, with payload and emitter rebuilt and the calls that made it as history
(`path`). Arguments live in arrays of the program: `Pass` appends the caller's name
into an array with room, or copies. `Emit` reads the array again. `Mutate` changes a
value behind a pointer. Values are opaque. The expected filter and line are stated
from `path` alone, without levels, payloads or emitters.

### Console2Json

A line is a sequence of tokens; texts are sequences of symbols, so that escaping and
unescaping are really modelled. `ReadLine` is one turn of `processReader`'s loop with
everything it calls: prefixes, `splitMessageFields`, `parseFields`, `parseValue`,
filter, `writeOrderedJSON`. `Open`, `OpenFails`, `EndStream`, `EndFails`, `Finish` are
`main`'s loop over the files. The lines come from console loggers (`ConsoleLine` of an
entry) or from elsewhere. The reference types a field from the values seen so far, not
from a tracker.

### EscapeScan

Pure operators on sequences of bytes. A word is `WordBytes` bytes (8 in the code);
`BelowMask` is the subtraction of a threshold from all of them at once, with the borrow
that runs from byte to byte (`Borrows`), `EqualMask` the same on the bytes xor-ed with
the one that is looked for. `Scanned` is the loop with its two words per round, the
bytes it has copied so far (`lastSafe`) and the bytes left over at the end; JSON takes
whatever the mask names, the console looks the byte up again. The reference is the test
of each byte by itself.

### ValueSwitches and ValuePrinting

A type switch is the sequence of its cases; `Chain` says which switches a value goes
through, by variant and by where it stands (field of `With`, fast pass, slow pass), and
`Taken` is the first case that matches, as Go does. `Printed` is what that case writes, as
tokens: raw bytes, escapes, quotes and literals. Keys have code of their own
(`KeyTrusted`, `PrintedKey`, `StaticKey`), as they have in the emitters.

### EnvConfig and StdLogBridge

`Resolved` is the options after all variables, `Output` the writer with its fallback,
`BuildAdapter` the configuration. A variable is what it is set to and whether its parser
takes it. `HasSubSecondPrecision` is the probe of the code on a layout that shows some
digits of a second. In the bridge, a level's name is one code of a line, so that
prefixes, brackets and separators are cut as in `classifyLineLevel`.

### LoggerSession

A program is a seed, an environment and a list of calls. `Start` is `LoggerFromEnv`,
which puts its own error entries in front; `Write` is a write of the standard library's
logger and makes entries of its lines; `Call`, `EncodeField` (each field of `With`),
`Log` (filter, caller field), then the line pair by pair: `FastPair`, `FastFails` (cuts
the buffer back and starts the slow pass), `SlowPair`, `OddArgument`, `Finish`. `caches`
are those of the `lineWriter` the pool gives; `PoolMakesNew` is the pool giving a new
one. The properties read a line back: escapes become bytes, what is quoted its content.

## 3. The runs

| Run | Question | Bounds |
|---|---|---|
| `LifecycleKeep` | Who may stop a cache, disarm a hook, return from `Close`? Is `SharedRuntime` implemented? | 2 loggers (two roots, or root and clone), 2 contexts, 2 closers and the hooks, every configuration |
| `LifecycleReuse` | With loggers collected and addresses reused: who ends a runtime, does a cancelled context tear down, does `Close` return? | 2 loggers on 2 addresses, 1 context, 1 closer, owned files, no symmetry |
| `LifecycleReuseOwner` | finding, see 6 | 3 loggers on 2 addresses, 1 context, 1 closer |
| `TimeCacheAll` | order, lag, finality, termination | 6 ticks and then a clock that stands still while ticks go on, 2 closers |
| `LogPathOneLine` | one whole line per entry, one user per buffer, bounded buffers | 2 goroutines, loggers and buffers, 3 entries of 4 kinds |
| `LineHintAll` | range of the hint, coming down | 2 goroutines, the code's constants, lines of 40 to 20000 bytes, 2 unusual lines |
| `OutputChainCounts` | counting of failures, gaps, callback, snapshot | 2 goroutines, 3 lines, 2 destinations, observers around the tee and one destination, 1 reader |
| `DerivedLoggersOwn` | filter and lines follow the derivation; exit after the line | 3 loggers, 4 levels, 4 static slices, 2 goroutines, 1 change of the mutable value |
| `DerivedLoggersShared` | finding, see 6 | 1 logger, one shared slice |
| `Console2JsonRun` | outputs follow their own input; entries come back | 3 lines of 18 kinds, 2 files of one base name or stdin, 8 command lines |
| `Console2JsonNaN` | finding, see 6 | 1 line |
| `LoggerSessionLines` | does what was logged read back, is it escaped, are caches, environment and bridge sound? | words of 2 bytes, caches of 2 places, one pooled `lineWriter`; the programs below |

The programs of `LoggerSessionLines`: every text of up to five bytes of {line feed, blank,
quote, letter} and of up to three of the bytes around each threshold, as message, key,
string, stringer, error and bytes; every type of value as field of `With`, argument and
argument without key, in the fast and the slow pass, with and without `Keyvals`, caller
and null for non-finite floats; a dozen pairs whose keys have to be made; three literals in two lines, among them two of one place,
one instant in two zones, two instants `UnixNano` takes for one and a float too long for
a place; every output with every file mode, and each variable valid and senseless; lines
of the bridge with names, brackets, separators and rests.

Why the bounds are enough for the interesting cases. *Lifecycle*: the races are
between at most a root's `Close`, a clone's and the hook; two loggers are a family or
two families, and reuse needs a third logger at one of two addresses. *TimeCache*: the
goroutine, the tick in the channel and the clock hold three different times; six
leaves room for dropped ticks. *LogPath*: sizes cross the default capacity, the
trigger and the maximum; the third entry meets the buffer of the first. *LineHint*:
lengths lie below, within and beyond the clamp and both decay thresholds. *OutputChain*:
a failure at the first destination, at the second and at none, overlapping. 
*DerivedLoggers*: three loggers are a chain of two calls or two siblings; the levels
include `NoLevel` and `Disabled`; the slices are empty, odd, with empty, nil and
repeated keys. *Console2Json*: a kind needs two earlier values to go wrong; two files
show leaks between streams. *LoggerSession*: five bytes are two words of two and a
rest, so a scan meets two words at once, one word and leftovers, and a borrow inside a
word; that scans and tests are right for every text and every size of a word is proved. Two places are the smallest cache in
which places are shared and differ.

Bounds are constants (`MaxTime`, `MaxEntries`, `MaxUnusual`, `MaxLines`, `MaxLoggers`,
`MaxVersion`) that only guards mention. `CHECK_DEADLOCK FALSE` stands where the bounded
program really stops: all entries or lines done, the process exited, the command
or program finished, or (`LifecycleReuse`, `LifecycleReuseOwner`) all loggers collected.

## 4. Fairness

- `LifecycleReuse`: weak fairness of a constructor that has begun, of the goroutine a
  cancelled context starts and of a `Close` that has begun. The Go scheduler runs every
  runnable goroutine. Nothing obliges the program to construct, cancel or close.
- `TimeCacheAll`: weak fairness of `start`, of the refresh goroutine, of the clock and
  of a begun `Close`; strong fairness of `TakeStop`, because Go's `select` chooses at
  random among the ready cases and a case that is ready again and again is taken.
- `LineHintAll`: the goroutines go on logging. `ComesDown` is about a logger in use.

## 5. Theorems

All are proved for every value of the constants, by TLAPS with Z3, Zenon and LS4.

- **`LoggerLifecycleProofs`**: `TypeCorrect`, `OwnerOnly` (`CacheStoppedByOwnerOnly`),
  `HookOfOwnerOnly` (`HookStoppedByOwnerOnly`), `CloseReleases` (`RootCloseReleases`),
  `CloseWaits` (`CloseWaitsForFile`), `EndedByFamily` (`RuntimeEndedByFamily`)
  and `Refinement` (`ImplementsRuntime`). `TypeCorrect`, `CloseWaits` and `EndedByFamily`
  hold whatever the program does with its loggers: they need only that a goroutine that
  closes something has a cause in that family, and carries what it closes itself (`FInv`).
  The others assume `~DropsLoggers`: the program keeps its loggers reachable. Without that
  `OwnerOnly` is false, as a run shows. The code compares addresses, so their argument
  starts with `TokensDistinct` (an address names one logger), on which `Registries` rests
  (each entry stands under the token of the logger it is for), and from there `Goroutines`
  (whoever is about to close a cache or disarm a hook was called for its owner and has a
  cause). A second invariant, `RInv`, follows a `Close` through its steps: a root whose entry is gone has a stopped
  cache (`StoppedWhenUnowned`), and a `Close` past its first step has left no hook, past
  the cache no owner (`ClosersLeaveNothing`).
- **`TimeCacheProofs`**: `Monotone` (`NeverGoesBack`), `DoneIsFinal`
  (`QuietAfterDone`), `ExactLag` (`LagIsDropped`), for any layout that sorts. The
  invariant orders the four times that exist at once: value, tick in hand, tick in the
  channel, clock (`Ordered`), and counts the ticks in between (`Counted`).
- **`LogPathProofs`**: `Exclusive` (`BufferHeldOnce`), `WholeLines`
  (`WrittenOnceAndWhole`), `OwnHints` (`HintIsOwnLine`) and `AlwaysStartsSmall`
  (`StartsSmall`), for any entries. The invariant says that a goroutine's
  buffer is at every moment the prefix of its line it has come to (`Contents`), which
  needs that no other goroutine has that buffer. For the hint, `HInv` adds what a
  `lineWriter` remembers of the line between its commit and its release (`Remembered`).
  For the capacities, `SInv` says how far a `lineWriter` stays within `MaxCap`: in the
  pool, when the hint is looked up and until the first piece is written. A slow pass may
  start from more, since the fast one has grown the buffer before it was taken back.
- **`LogPathProofs`**, on `LineHint`: `WithinLines` (`HintWithinLines`) and `CoversLine`
  (`StoreCoversLine`). The hint alone is not inductive: what goroutines have loaded and
  are about to store must be in range as well (`Pending`).
- **`OutputChainProofs`**: `CopiesAlwaysNested` (`CopiesNested`), `FailuresAlwaysExact`
  (`FailuresExact`), `AlwaysToldWhatFailed` (`ToldWhatFailed`), `StatsAlwaysInCall`
  (`StatsInCall`), for any number of destinations, goroutines and readers. `WriteInv` says
  that lines under way are distinct and in one goroutine each, and what has become of a
  line at each place (`Positions`, `Outcomes`, `Passed`). The count rests on `Owes`: each
  step that makes a line fail makes one goroutine owe a count, and each count pays one.
- **`DerivedLoggersProofs`**: all rest on `FamilyIsItsPaths`: the cached payload, levels,
  verbosity and emitter of every logger are what the calls on its path make of the root's,
  and an entry was filtered by the level of its logger. From it `FilterAlwaysFollows`
  (`FilterFollowsDerivation`) and `ExitAlwaysAfterLine` (`ExitAfterLine`).
  `LinesAlwaysFollow` (`LinesFollowDerivation`) assumes `ArraysUnshared`: goroutines that log with the caller's name at the same time
  do not pass slices of one array with room behind them, which the run
  `DerivedLoggersShared` shows to be needed; the arrays of the run `DerivedLoggersOwn`
  satisfy it.
- **`Console2JsonProofs`**, for any command lines, entries and foreign lines:
  - `OutputConverted` (`OutputFollowsInput`). The parser carries the kinds of keys from field
    to field, the reference looks at all values of a stream at once: `KindGrows` is the
    step from one to the other, `FieldsParsed` and `LineParsed` carry it through the fields
    of a line and the lines of a stream. The invariant `IInv` adds that the tracker is what
    the fields read so far tell (`KindsOf`, in `Reading`), that streams ahead have no lines
    yet (`Ahead`), where the command may be in its streams (`AtEnds`), and that without
    `-o` there is one output (`OneOutput`).
  - `EntriesComeBack` (`EntryComesBack`), from the same invariant. `TextComesBack`:
    for every text, reading what escaping wrote gives the text, by induction from the
    closing quote backwards. `EntryTail`: the message ends where the fields begin, which is
    where `Unambiguous` is needed. `FieldComesBack`: a field of an unambiguous entry is one
    token, whose value is the one logged, and a string if it was quoted.

  `CommandLines` and `LineContents` say of which types the constants are. A text is any
  sequence of symbols, so that one holds for all strings.
- **`LoggerSessionProofs`**, on the parts, for every value:
  - *Scans.* `TrustIsExact` and `QuoteIsExact`: the tests of whole words find what the test
    of each byte finds. A borrow can only start at a byte that is below the threshold itself,
    so a mask is empty exactly when no byte is below (`BelowMaskExact`), though single
    places of a mask may be wrong. `ConsoleScanIsExact`: the console's scan, which looks
    each marked byte up again, writes what a look at each byte would. `JSONScanIsSound`:
    that of JSON, which does not, writes each byte once and escapes all it has to; it
    may escape a harmless byte as well, so more cannot be said.
  - *Switches.* `SwitchesAgree`: whatever chain of switches a value runs through, it comes
    to the case that is meant for its type, and to a switch that escapes its strings.
- **`LoggerSessionProofs`**, on a session, for any programs:
  - `CachesHoldOwn` (`CachesOwn`), from it `LiteralHasKey`: what a cache answers has the key
    asked for, which for floats and durations is the literal itself.
  - `SeedIsLeft` (`EnvLeavesSeed`), `OwnErrorsSurface` (`OutputErrorsSurface`),
    `BridgeLosesNoText` (`BridgeKeepsText`).
  - `NothingUnescaped` (`StringsEscaped`), `ArgumentsReadBack` (`FieldsReadBack`) and
    `WithReadsBack` (`StaticReadsBack`).
    `SessionInv` is what they need of the state: typed calls (`TInv`), a configuration made
    of the program's seed and environment (`EInv`), caches that hold their own numbers
    (`CInv`, `Numbered`). A line is then followed through its steps: what is written of
    it so far is sound (`SInv`), reads back as the arguments so far, from the start again
    when the fast pass is taken back (`RInv`), and as the fields of `With` so far (`FInv`).
    Each step rests on a lemma that reads one key or one value back, whichever
    switch, scan or cache printed it.

  The assumptions on the programs are `ProgramCalls` (calls have the shape of `Calls`,
  values that of `Loggable`; see 7 for what that leaves out) and `ProgramEnvironments`
  (variables of their types; layouts of at most nine digits of a second, since Go's
  `time` shows no more).

Folds, `FlattenSeq` and the recursive functions of the models are reasoned about by
`InductionLemmas`: the induction theorems of the library take an operator and cannot be
used, so it states induction for *sets* of numbers (`SetInduction`), proves it from the
least element of a set, and gets from it that recursive definitions have a value
(`Recursion`).

`TypeCorrect` is proved in `LoggerLifecycleProofs`, `TimeCacheProofs`, `LogPathProofs`
(there also `HintTypeCorrect`) and `OutputChainProofs`; the type invariants of the last
three are no property of a run, where they would repeat what the proofs say.

Only model-checked:

- the liveness properties (`CancelTearsDown`, `EveryCloseReturns`, `StopIsHeeded`,
  `ComesDown`), since liveness is out of the prover's reach;
- `CallerIsOwn` and `InvalidLinesSkipped`, which the runs `DerivedLoggersShared` and
  `Console2JsonNaN` refute.

## 6. Where code and documents disagree

Shown by runs:

1. `LifecycleReuseOwner`: a clone allocated at the address of its collected root passes
   the owner test, and its `Close` stops the cache that its siblings use. The
   documentation says "closed by owning logger only".
2. `DerivedLoggersShared`: `maybeAddCaller` appends to the slice it was passed; two
   goroutines that pass one slice with spare capacity print each other's names.
3. `Console2JsonNaN`: an unquoted `NaN` or `Inf` in a console line is typed as a float,
   which has no JSON form, and `processReader` gives up on the stream. The documentation
   says "Invalid lines and parse errors are warned to stderr and skipped".

Met on the way, in the models but without a run:

- Closing a clone closes the file under its root (`closeOutput` has no owner test);
  `RuntimeEndedByFamily` says what does hold.
- A root at a reused address overwrites a pending hook of another family: a `Close` or hook
  of one of the two then takes the stop function of the other, whose cancellation tears
  nothing down. `CancelTearsDown` holds for every logger whose address no other one had
  (`Reused`).
- The cells that `maybeAddCaller` appends into need not be free: behind a slice of a longer
  array (`all[:2]...`) stand the program's own values, and logging overwrites the next two.
- With a context that is done already, or is cancelled between `AfterFunc` and `Store`,
  the hook finds no entry to remove, and the one the constructor then stores stays in the
  process-wide map. `logger_context_lifecycle_test.go` expects it to be gone after a
  cancellation, and tests one that comes after construction, where it is.
- With an odd number of arguments the caller's key becomes a value and the name gets an
  `argN`, where `CallerKey` is "the key used when CallerKeyval is enabled" (`pslog.go`).
  `FieldsReadBack` takes the caller's pair as two more arguments.
- A layout that shows tenths or hundredths of a second is cached for a second, since the
  probe in `hasSubSecondPrecision` moves by one millisecond ("If formatting changes within
  the same second, layout depends on sub-second precision", `timecache.go`).
- Outside the years 1678 to 2262 two times may have one key in the time cache of a
  `lineWriter`; the later one prints as the earlier. `CachesOwn` and `FieldsReadBack` are
  up to the key.
- An array keeps JSON's form on the console, so that a byte 127 in one of its strings goes
  out raw there, where it is escaped in a string of its own.
- On the console a time as a field of `With` loses the fraction of its second
  (`time.RFC3339`), as an argument it keeps it.
- Console keys are written as they are, blanks and quotes included; nothing is promised
  of them but the text.
- Through `LogLogger`, a line that begins with a word that begins with a level's name
  loses that beginning (`warning: x` is logged as `ing: x`), a line `[off] x` has the level
  `Disabled` and is dropped, and the caller's name is a function of the `log` package.
- An unknown `PALETTE` replaces the seed's palette by the default one, where every other
  senseless variable leaves the seed alone.
- `writer.go` speaks of flushing long lines early; a line is buffered whole.
- Not every entry of a console logger can be told from its line, and the converter gets
  these wrong (`Unambiguous` in `Console2Json`; `EntryComesBack` is about the others):
  the first field of an entry without message is read as its message, a word like `k=v` of
  a message as a field, and a field `msg` replaces the message. A message goes out with
  quotes, backslashes and control bytes escaped and without quotes around it
  (`writeConsoleMessagePlain`), and is taken as it stands: `say "hi"` comes back as
  `say \"hi\"`. Arrays and marshalled values are printed bare: a blank in one tears it, and
  the line is taken for malformed; a marshalled string comes back without its quotes.
- A malformed field tail has typed keys before it is refused, the one it fails behind
  included (`k="a"junk` makes `k` a string); `OutputFollowsInput` takes that as given.
- With `-outdir`, the second of two inputs with one base name replaces the output of
  the first.

## 7. Not modelled

- *Digits.* How integers, floats, times and durations become text is `strconv`'s,
  `time`'s and `fasttime.go`'s: arithmetic without state that has unit tests and fuzzing.
  A literal is its kind and its number.
- *Colours.* Colour codes are left out of the lines; palettes are names. `SetPalette` and
  `Snapshot` hold one lock. Readers of the exported variables race with it, and the
  library itself reads its palettes from the options: nothing in the code relates what
  such a reader sees to anything.
- *Values.* Arrays hold strings, scalars, times and nested opaque values; no arrays in
  arrays, no floats or durations in arrays. `json.Marshal` always succeeds. A value that
  has both `String` and `Error` gives one text for both. Keys of pairs are strings, nil,
  stringers, errors or bytes. A `TrustedString` is one that `NewTrustedString` made.
- *Systems.* The walk over the call stack, terminal detection, opening of files (it fails
  or not), the context package beyond `AfterFunc`.
- *Converter.* Its timestamp layouts are one token, its selector language is a library's;
  partial writes of its own output are not told from failed ones.
- *Helpers without state*: context lookups, the no-op logger, `CurrentFn`.
- *Programs* that use the library: demonstrations, examples, benchmarks.

## 8. What is left

In the order of what it would add:

1. `LoggerSession` has one `lineWriter` in use at a time and `LogPath` has several without
   contents; both sides of that composition are proved to hold for themselves
   (`BufferHeldOnce`, `CachesHoldOwn`), their product is too large for a run.
2. Arrays in arrays, floats and durations in arrays, and a `MarshalJSON` that fails, in
   `ValuePrinting`.
3. The time stamp of `LoggerSession` as the value of a `TimeCache`, instead of one text.
