--------------------------- MODULE DerivedLoggers ---------------------------
(***************************************************************************)
(* Loggers derived from one another and the entries they print: coreConfig *)
(* and loggerBase (logger_core.go) with the four concrete loggers.  With,  *)
(* WithLogLevel and LogLevel copy the receiver, change the copy, encode    *)
(* its static fields and select one of eight emitters; an entry is         *)
(* filtered, gets the caller's name appended and is emitted.               *)
(*                                                                         *)
(* A line is the sequence of its fields.  Key/value arguments live in      *)
(* arrays of the program; a call passes the first cells of one.            *)
(***************************************************************************)
EXTENDS Integers, Sequences, SequencesExt

CONSTANTS
    Goroutines,    \* each logs from one function, which has its name
    Levels,        \* levels that LogLevel is given
    Options,       \* root options: [minLevel, timestamp, caller]
    Cells,         \* array -> its cells, "free" where there is nothing yet
    Calls,         \* goroutine -> its calls: [level, slice, exits]
    StaticSlices,  \* the slices With is given: [array, len]
    MaxLoggers,    \* bound of the loggers of the family
    MaxVersion     \* bound of the changes to the mutable value "obj"

Info     == 1
Fatal    == 4
NoLevel  == 6
Disabled == 7
NoForce  == -2

AllLevels == -1 .. Disabled

ASSUME DerivedLoggersConstants ==
    /\ Levels \subseteq AllLevels
    /\ Options \subseteq [minLevel: AllLevels, timestamp: BOOLEAN, caller: BOOLEAN]
    /\ \A g \in Goroutines : \A c \in Calls[g] :
          /\ c.level \in AllLevels
          /\ c.exits => c.level = Fatal
    /\ \A s \in StaticSlices \cup {c.slice : c \in UNION {Calls[g] : g \in Goroutines}} :
          s \in [array : DOMAIN Cells, len : Nat] /\ s.len <= Len(Cells[s.array])
    /\ Cells \in [DOMAIN Cells -> Seq(UNION {Range(Cells[a]) : a \in DOMAIN Cells})]
    /\ MaxLoggers \in Nat \ {0}
    /\ MaxVersion \in Nat

VARIABLES
    options,  \* what the root was built with
    loggers,  \* the family, the root first
    mem,      \* the cells of the arrays
    version,  \* how often the mutable value has changed
    entry,    \* the entry each goroutine is logging
    exited    \* TRUE once exitProcess has run

vars == <<options, loggers, mem, version, entry, exited>>

-----------------------------------------------------------------------------
(* Fields. *)

\* What is printed for x at version v: the mutable value prints the state it is in.
Shown(x, v) == [of |-> x, at |-> IF x = "obj" THEN v ELSE 0]

Key(name)   == <<name, 0>>
Arg(pair)   == <<"arg", pair>>
Field(k, x) == [key |-> k, value |-> x]

\* A key that is no string is formatted; nil has no format of its own.
KeyFromValue(x, pair) == IF x = "nil" THEN Arg(pair) ELSE Key(x)

\* The field of the p-th pair; a value without a key is argN.
Pair(kv, p) ==
    IF 2 * p <= Len(kv)
    THEN Field(KeyFromValue(kv[2 * p - 1], p - 1), kv[2 * p])
    ELSE Field(Arg(p - 1), kv[2 * p - 1])

Pairs(kv) == [p \in 1 .. (Len(kv) + 1) \div 2 |-> Pair(kv, p)]

\* collectFields: With(err) alone stands for the field "error".
Collected(kv) ==
    IF kv = <<"err">> THEN << Field(Key("error"), "err") >> ELSE Pairs(kv)

Named(f) == f.key # Key("")

\* The fields with a key, as they print at version v.
Encoded(fields, v) ==
    FlattenSeq([i \in 1 .. Len(fields) |->
        IF Named(fields[i]) THEN << Field(fields[i].key, Shown(fields[i].value, v)) >>
        ELSE << >>])

\* The arguments of an entry; how static and runtime values differ in print is
\* the matter of ValueSwitches.
RuntimeFields(kv) == Encoded(Pairs(kv), version)

-----------------------------------------------------------------------------
(* Loggers. *)

CurrentLevel(l) == IF l.forced # NoForce THEN l.forced ELSE l.min

ShouldLog(l, level) ==
    LET effective == IF l.forced = NoForce THEN level
                     ELSE IF l.forced = NoLevel THEN Info ELSE l.forced
    IN  l.forced # Disabled /\ effective # Disabled /\ effective >= l.min

\* The emitter is selected when a logger is built, not when it logs.
Rebuilt(l) ==
    LET payload == Encoded(l.fields, version)
    IN  [l EXCEPT
            !.payload = payload,
            !.levelValue = IF l.withLevel THEN CurrentLevel(l) ELSE @,
            !.emit = [timestamp |-> options.timestamp, loglevel |-> l.withLevel,
                      static |-> payload # << >>],
            !.born = version]

Root(o) ==
    [min |-> o.minLevel, forced |-> NoForce, withLevel |-> FALSE,
     levelValue |-> o.minLevel, fields |-> << >>, payload |-> << >>,
     emit |-> [timestamp |-> o.timestamp, loglevel |-> FALSE, static |-> FALSE],
     born |-> 0, path |-> << >>]

\* What a method returns: a copy of its receiver, changed and rebuilt.
Derive(op, changed) ==
    /\ ~exited
    /\ Len(loggers) < MaxLoggers
    /\ loggers' = Append(loggers, [Rebuilt(changed) EXCEPT !.path = Append(@, op)])
    /\ UNCHANGED <<options, mem, version, entry, exited>>

\* The first len cells of an array.
Content(s) == SubSeq(mem[s.array], 1, s.len)

\* Without arguments the receiver itself is returned.
With(i, s) ==
    /\ s.len > 0
    /\ Derive([op |-> "With", kv |-> Content(s)],
              [loggers[i] EXCEPT !.fields = @ \o Collected(Content(s))])

\* Mutant: the copy keeps the emitter of its receiver.
WithLogLevelOnly(i) ==
    /\ ~exited
    /\ ~loggers[i].withLevel
    /\ Len(loggers) < MaxLoggers
    /\ loggers' = Append(loggers, [loggers[i] EXCEPT
                        !.withLevel = TRUE, !.levelValue = CurrentLevel(loggers[i]),
                        !.path = Append(@, [op |-> "WithLogLevel"])])
    /\ UNCHANGED <<options, mem, version, entry, exited>>

\* A logger that shows its level already is returned as it is.
WithLogLevel(i) ==
    /\ ~loggers[i].withLevel
    /\ Derive([op |-> "WithLogLevel"],
              [loggers[i] EXCEPT !.withLevel = TRUE,
                                 !.levelValue = CurrentLevel(loggers[i])])

\* Mutant: NoLevel, once set, is never lifted.
KeepsForced(l, level) ==
    IF level = NoLevel THEN [l EXCEPT !.forced = NoLevel] ELSE [l EXCEPT !.min = level]

\* withForcedLevel for NoLevel, withMinLevel for the others.
WithLevel(l, level) ==
    IF level = NoLevel THEN [l EXCEPT !.forced = NoLevel, !.levelValue = NoLevel]
    ELSE [l EXCEPT !.min = level, !.forced = NoForce, !.levelValue = level]

LogLevel(i, level) ==
    Derive([op |-> "LogLevel", level |-> level], WithLevel(loggers[i], level))

-----------------------------------------------------------------------------
(* Entries. *)

Idle == [pc |-> "idle"]

\* Arguments read where the program stores them, or copied when appended to.
InPlace(s)  == [kept |-> "slice", array |-> s.array, len |-> s.len]
Copied(kv)  == [kept |-> "copy", cells |-> kv]

\* A call: the logger, the level, what it is given, what it passes on and, for Fatal,
\* that the process exits once it returns.
Called(at, i, c, args) ==
    [pc |-> at, logger |-> i, level |-> c.level, given |-> Content(c.slice),
     args |-> args, exits |-> c.exits]

\* An entry that is filtered out returns at once.
Drop(g, i, c) ==
    /\ ~ShouldLog(loggers[i], c.level)
    /\ entry' = [entry EXCEPT ![g] = Called("dropped", i, c, InPlace(c.slice))]
    /\ UNCHANGED mem

HasRoom(s) == s.len + 2 <= Len(mem[s.array])

StoredPair(cells, len, g) == [cells EXCEPT ![len + 1] = "fn", ![len + 2] = g]

\* maybeAddCaller: append writes into the array that was passed when there is
\* room, and into a new one otherwise.
Pass(g, i, c) ==
    /\ ShouldLog(loggers[i], c.level)
    /\ LET s == c.slice
           Passing(args) == entry' = [entry EXCEPT ![g] = Called("emit", i, c, args)]
       IN  \/ /\ ~options.caller
              /\ Passing(InPlace(s))
              /\ UNCHANGED mem
           \/ /\ options.caller /\ HasRoom(s)
              /\ mem' = [mem EXCEPT ![s.array] = StoredPair(@, s.len, g)]
              /\ Passing(InPlace([s EXCEPT !.len = @ + 2]))
           \/ /\ options.caller /\ ~HasRoom(s)
              /\ Passing(Copied(Content(s) \o <<"fn", g>>))
              /\ UNCHANGED mem

\* Log and the methods named after levels.
Call(g, i, c) ==
    /\ ~exited
    /\ entry[g] = Idle
    /\ Drop(g, i, c) \/ Pass(g, i, c)
    /\ UNCHANGED <<options, loggers, version, exited>>

Line(l, level, kv) ==
    (IF l.emit.timestamp THEN << Field(Key("ts"), "now") >> ELSE << >>)
    \o << Field(Key("lvl"), level) >>
    \o (IF l.emit.static THEN l.payload ELSE << >>)
    \o RuntimeFields(kv)
    \o (IF l.emit.loglevel THEN << Field(Key("loglevel"), l.levelValue) >> ELSE << >>)

\* What the emitter reads now of the arguments it was passed.
Passed(args) == IF args.kept = "copy" THEN args.cells ELSE Content(args)

Emit(g) ==
    /\ ~exited
    /\ entry[g].pc = "emit"
    /\ LET e == entry[g]
       IN  entry' = [entry EXCEPT ![g] =
               [pc |-> "written", logger |-> e.logger, level |-> e.level,
                given |-> e.given, exits |-> e.exits, seen |-> version,
                line |-> Line(loggers[e.logger], e.level, Passed(e.args))]]
    /\ UNCHANGED <<options, loggers, mem, version, exited>>

\* Mutant: Fatal does not wait for the line.
ReturnEarly(g) ==
    /\ ~exited
    /\ entry[g] # Idle
    /\ IF entry[g].exits THEN exited' = TRUE /\ UNCHANGED entry
       ELSE /\ entry[g].pc # "emit"
            /\ entry' = [entry EXCEPT ![g] = Idle] /\ UNCHANGED exited
    /\ UNCHANGED <<options, loggers, mem, version>>

\* Fatal exits whether or not its entry was filtered out; Panic unwinds.
Return(g) ==
    /\ ~exited
    /\ entry[g].pc \in {"written", "dropped"}
    /\ IF entry[g].exits THEN exited' = TRUE /\ UNCHANGED entry
       ELSE entry' = [entry EXCEPT ![g] = Idle] /\ UNCHANGED exited
    /\ UNCHANGED <<options, loggers, mem, version>>

\* The program changes the value behind a pointer it has handed out.
Mutate ==
    /\ ~exited
    /\ version < MaxVersion
    /\ version' = version + 1
    /\ UNCHANGED <<options, loggers, mem, entry, exited>>

Init ==
    /\ options \in Options
    /\ loggers = << Root(options) >>
    /\ mem = Cells
    /\ version = 0
    /\ entry = [g \in Goroutines |-> Idle]
    /\ exited = FALSE

Next ==
    \/ \E i \in 1 .. Len(loggers) :
          \/ \E s \in StaticSlices : With(i, s)
          \/ WithLogLevel(i)
          \/ \E level \in Levels : LogLevel(i, level)
          \/ \E g \in Goroutines : \E c \in Calls[g] : Call(g, i, c)
    \/ \E g \in Goroutines : Emit(g) \/ Return(g)
    \/ Mutate

Spec == Init /\ [][Next]_vars

-----------------------------------------------------------------------------
(* What a reader of the interface expects of a logger, from the calls that  *)
(* made it alone.                                                           *)

LevelCalls(path) == {n \in DOMAIN path : path[n].op = "LogLevel"}

Unleveled(path) ==
    LevelCalls(path) # {} /\ path[Max(LevelCalls(path))].level = NoLevel

Threshold(path) ==
    LET set == {n \in LevelCalls(path) : path[n].level # NoLevel}
    IN  IF set = {} THEN options.minLevel ELSE path[Max(set)].level

\* Entries of a logger without level count as Info.
Enabled(path, level) ==
    LET severity == IF Unleveled(path) THEN Info ELSE level
    IN  severity # Disabled /\ severity >= Threshold(path)

\* The fields kv spells, when printed at version v.
Spelled(kv, v) ==
    LET fieldOf(key, x) == << Field(key, [of |-> x, at |-> IF x = "obj" THEN v ELSE 0]) >>
        spell(p) ==
            IF 2 * p > Len(kv) THEN fieldOf(Arg(p - 1), Last(kv))
            ELSE IF kv[2 * p - 1] = "" THEN << >>
            ELSE IF kv[2 * p - 1] = "nil" THEN fieldOf(Arg(p - 1), kv[2 * p])
            ELSE fieldOf(Key(kv[2 * p - 1]), kv[2 * p])
    IN  FlattenSeq([p \in 1 .. (Len(kv) + 1) \div 2 |-> spell(p)])

StaticFields(path, v) ==
    FlattenSeq([n \in 1 .. Len(path) |->
        IF path[n].op # "With" THEN << >>
        ELSE IF path[n].kv = <<"err">>
             THEN << Field(Key("error"), [of |-> "err", at |-> 0]) >>
             ELSE Spelled(path[n].kv, v)])

ExpectedLine(g, e) ==
    LET path   == loggers[e.logger].path
        caller == IF options.caller THEN <<"fn", g>> ELSE << >>
    IN  (IF options.timestamp THEN << Field(Key("ts"), "now") >> ELSE << >>)
        \o << Field(Key("lvl"), e.level) >>
        \o StaticFields(path, loggers[e.logger].born)
        \o Spelled(e.given \o caller, e.seen)
        \o (IF \E n \in DOMAIN path : path[n].op = "WithLogLevel"
            THEN << Field(Key("loglevel"),
                          IF Unleveled(path) THEN NoLevel ELSE Threshold(path)) >>
            ELSE << >>)

-----------------------------------------------------------------------------
(* Properties. *)

\* Which entries pass is decided by the LogLevel calls that made the logger, in
\* their order, and by nothing its relatives did (Logger's comments in pslog.go:
\* "The receiver itself is not modified").
FilterFollowsDerivation ==
    \A g \in Goroutines :
        entry[g] # Idle =>
            (entry[g].pc = "dropped"
                <=> ~Enabled(loggers[entry[g].logger].path, entry[g].level))

\* A line has the fields of every With that made its logger, in order, then its
\* own arguments and the caller, and the level in force if asked for: the cached
\* payload, the cached level and the emitter chosen at construction never go
\* stale (json-emitter-pipeline.md: "Field order is stable").  A mutable value
\* among the static fields prints as it was when the logger was made.
LinesFollowDerivation ==
    \A g \in Goroutines :
        entry[g].pc = "written" => entry[g].line = ExpectedLine(g, entry[g])

\* The process does not exit before an enabled Fatal entry has been written.
ExitAfterLine ==
    exited => \E g \in Goroutines :
        /\ entry[g] # Idle /\ entry[g].exits
        /\ Enabled(loggers[entry[g].logger].path, Fatal) => entry[g].pc = "written"

\* pslog.go:200: "CallerKeyval emits the calling function name on every log
\* entry."
CallerIsOwn ==
    \A g \in Goroutines :
        entry[g].pc = "written" /\ options.caller =>
            \E n \in DOMAIN entry[g].line :
                entry[g].line[n] = Field(Key("fn"), [of |-> g, at |-> 0])

=============================================================================
