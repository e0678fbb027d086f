---------------------------- MODULE LoggerSession ----------------------------
(***************************************************************************)
(* A program that takes its logger from the environment and logs: the      *)
(* logger and its output are made (EnvConfig), entries are logged directly *)
(* or through the standard library's logger (StdLogBridge), fields of With *)
(* are encoded ahead, and a line is written pair by pair, by a fast pass   *)
(* that is given up at the first key that is no string and by a slow one   *)
(* (ValuePrinting).  Literals of floats, times and durations come from the *)
(* caches of a pooled lineWriter that outlive the line.                    *)
(***************************************************************************)
EXTENDS EnvConfig, StdLogBridge, ValuePrinting

CONSTANTS
    Programs,    \* what programs do: [seed, env, output, fileMode, base, terminals, calls]
    NanoWidth,   \* UnixNano counts modulo this
    Slots,       \* places of each literal cache
    LongFloats   \* floats whose literal does not fit a place

ASSUME SessionSizes == NanoWidth \in Nat \ {0} /\ Slots \in Nat \ {0}

\* What can be logged.  A TrustedString is made by NewTrustedString; floats and further
\* arrays are left out of arrays.
Scalar ==
    {v \in [type : Types \ {"array"}, str : Seq(Nat), id : Nat, elems : {<< >>}] :
        v.type = "trusted" => ~HasUnsafe(v.str)}

Loggable ==
    Scalar \cup [type : {"array"}, str : Seq(Nat), id : Nat,
                 elems : Seq({v \in Scalar : v.type \notin {"float", "nonfinite"}})]

\* A call logs, or writes to the standard library's logger.
Calls ==
    [op : {"log"}, with : Seq(Loggable), level : Int, msg : Seq(Nat), args : Seq(Loggable),
     prepared : BOOLEAN, line : {<< >>}, stack : Seq(Seq(Nat))]
    \cup [op : {"write"}, lines : Seq(Seq(Nat)), pinned : Seq(Int), stack : Seq(Seq(Nat))]

ASSUME ProgramCalls == \A p \in Programs : p.calls \in Seq(Calls)

ASSUME ProgramEnvironments ==
    \A p \in Programs :
        /\ IsEnvironment(p.env)
        /\ p.seed.callerKey \in Seq(Nat) /\ p.env.CALLER_KEY.value \in Seq(Nat)
        /\ p.seed.layout.text \in Seq(Nat) /\ p.env.TIME_FORMAT.value.text \in Seq(Nat)
        /\ p.seed.layout.digits \in 0 .. 9 /\ p.env.TIME_FORMAT.value.digits \in 0 .. 9
        /\ p.seed.json \in BOOLEAN /\ p.env.MODE.value \in BOOLEAN

VARIABLES
    program,  \* what is run
    config,   \* coreConfig and the options of the emitters
    out,      \* the writer of the logger
    queue,    \* calls to come
    phase,    \* where the call under way is
    call,     \* that call
    fields,   \* of its With, as collectFields made them
    static,   \* those that are encoded
    args,     \* its arguments, with those of the caller field
    at,       \* the field or pair that is next
    runtime,  \* the pairs that are written
    caches,   \* of the lineWriter that the pool gives next
    lines     \* the lines that have gone out

vars == <<program, config, out, queue, phase, call, fields, static, args, at, runtime,
          caches, lines>>

NoCall == [op |-> "none"]

-----------------------------------------------------------------------------
(* Literal caches. *)

Kinds == {"float", "duration", "time"}

Fresh == [kind \in Kinds |-> [slot \in 0 .. Slots - 1 |-> [full |-> FALSE, key |-> 0, text |-> 0]]]

\* What a literal is looked up by: the bits, the duration, UnixNano and the offset.
KeyOf(kind, id) == IF kind = "time" THEN id % (2 * NanoWidth) ELSE id

SlotOf(kind, key) == (IF kind = "time" THEN key \div 2 ELSE key) % Slots

Holding(kind, id) ==
    {s \in 0 .. Slots - 1 : caches[kind][s].full /\ caches[kind][s].key = KeyOf(kind, id)}

\* The number of the literal that is written for id: lookupFloat and the loops of
\* formatDuration and formatTimeRFC3339 take any place that holds its key.
LiteralOf(kind, id) ==
    IF kind = "none" \/ Holding(kind, id) = {} THEN id
    ELSE caches[kind][CHOOSE s \in Holding(kind, id) : TRUE].text

\* Mutant: a place gets the key without the literal.
StoredKeyOnly(kind, id) ==
    IF kind = "none" \/ Holding(kind, id) # {} THEN caches
    ELSE [caches EXCEPT ![kind][SlotOf(kind, KeyOf(kind, id))].full = TRUE,
                        ![kind][SlotOf(kind, KeyOf(kind, id))].key = KeyOf(kind, id)]

\* storeFloat and the ends of formatDuration and formatTimeRFC3339.
Stored(kind, id) ==
    IF \/ kind = "none"
       \/ Holding(kind, id) # {}
       \/ kind = "float" /\ id \in LongFloats
    THEN caches
    ELSE [caches EXCEPT ![kind][SlotOf(kind, KeyOf(kind, id))] =
            [full |-> TRUE, key |-> KeyOf(kind, id), text |-> id]]

\* v is printed by a chain of switches: its tokens, and the caches afterwards.
Tokens(v, chain) ==
    LET taken == Taken(chain, v.type)
    IN  Printed(taken, v, LiteralOf(CacheAsked(taken, v, config.colour), v.id), config.asNull)

CachesAfter(v, chain) == Stored(CacheAsked(Taken(chain, v.type), v, config.colour), v.id)

Where(where) == Chain(config.json, config.colour, where)

-----------------------------------------------------------------------------
(* The logger. *)

Str(s) == Value("string", s, 0)

UserFunction == << 102 >>

\* What LoggerFromEnv logs of its own: With(err).Error(msg, key, value).
OwnError(msg, key) ==
    [op |-> "log", with |-> << Value("error", << Quote, 101, Space >>, 0) >>,
     level |-> 3, msg |-> msg, args |-> << Str(key), Str(<< 120 >>) >>, prepared |-> FALSE,
     line |-> << >>, stack |-> << UserFunction >>]

ModeInvalid == << 109 >>
OpenFailed  == << 111 >>

\* Mutant: only the first thing that went wrong is reported.
OwnErrorsFirst(p) ==
    IF p.fileMode.set /\ ~FileModeOk(p.fileMode.value) THEN << OwnError(ModeInvalid, << 109 >>) >>
    ELSE IF OpenFails(p.output) THEN << OwnError(OpenFailed, << 111 >>) >> ELSE << >>

OwnErrors(p) ==
    (IF p.fileMode.set /\ ~FileModeOk(p.fileMode.value)
        THEN << OwnError(ModeInvalid, << 109 >>) >> ELSE << >>)
    \o (IF OpenFails(p.output) THEN << OwnError(OpenFailed, << 111 >>) >> ELSE << >>)

\* LoggerFromEnv.
Start ==
    /\ phase = "start"
    /\ out' = Output(program.output, program.base)
    /\ config' = BuildAdapter(Resolved(program.seed, program.env), out', program.terminals)
    /\ queue' = OwnErrors(program) \o program.calls
    /\ phase' = "idle"
    /\ UNCHANGED <<program, call, fields, static, args, at, runtime, caches, lines>>

\* A write of the standard library's logger: one entry per line that holds something.
Write ==
    /\ phase = "idle" /\ queue # << >> /\ Head(queue).op = "write"
    /\ LET w == Head(queue)
           made == Bridged(w.lines, w.pinned)
       IN  queue' = [i \in DOMAIN made |->
                        [op |-> "log", with |-> << >>,
                         level |-> made[i].entry.level, msg |-> made[i].entry.msg,
                         args |-> << >>, prepared |-> FALSE,
                         line |-> made[i].line, stack |-> w.stack]]
                    \o Tail(queue)
    /\ UNCHANGED <<program, config, out, phase, call, fields, static, args, at, runtime,
                   caches, lines>>

\* A call of the program: With comes first, if it has arguments.
Call ==
    /\ phase = "idle" /\ queue # << >> /\ Head(queue).op = "log"
    /\ call' = Head(queue)
    /\ queue' = Tail(queue)
    /\ fields' = CollectFields(Head(queue).with)
    /\ static' = << >>
    /\ at' = 1
    /\ phase' = "with"
    /\ UNCHANGED <<program, config, out, args, runtime, caches, lines>>

\* The next field is encoded, ahead of the line.
EncodeField ==
    /\ phase = "with" /\ at <= Len(fields)
    /\ LET f == fields[at] IN
       IF f.key = << >> THEN UNCHANGED <<static, caches>>
       ELSE /\ static' = Append(static, [key |-> StaticKey(config.json, config.colour, f),
                                         value |-> Tokens(f.value, Where("static"))])
            /\ caches' = CachesAfter(f.value, Where("static"))
    /\ at' = at + 1
    /\ UNCHANGED <<program, config, out, queue, phase, call, fields, args, runtime, lines>>

\* callerFunctionName: the innermost function outside of pslog.
CallerName(stack) == IF stack = << >> THEN << 117 >> ELSE Head(stack)

\* Mutant: the caller field comes before the arguments.
WithCallerFirst(given, c) == c \o given

WithCaller(given, c) == given \o c

CallerField ==
    IF ~config.caller THEN << >>
    ELSE << Value(IF TrustedASCII(config.callerKey) THEN "trusted" ELSE "string",
                  config.callerKey, 0),
            Str(CallerName(call.stack)) >>

ShouldLog(level) == level # 7 /\ level >= config.level

\* The level filter, and the start of a line.
Log ==
    /\ phase = "with" /\ at > Len(fields)
    /\ IF ShouldLog(call.level)
       THEN /\ phase' = "fast"
            /\ args' = WithCaller(IF call.prepared THEN Keyvals(call.args) ELSE call.args,
                                  CallerField)
            /\ at' = 1
            /\ runtime' = << >>
       ELSE /\ phase' = "idle"
            /\ UNCHANGED <<args, at, runtime>>
    /\ UNCHANGED <<program, config, out, queue, call, fields, static, caches, lines>>

-----------------------------------------------------------------------------
(* A line. *)

IsPair == 2 * at <= Len(args)

\* A pair is written, unless its key is empty.
WritePair(where) ==
    LET v   == args[2 * at]
        key == KeyText(args[2 * at - 1], at - 1)
    IN  IF key = << >> THEN UNCHANGED <<runtime, caches>>
        ELSE /\ runtime' = Append(runtime,
                    [key |-> PrintedKey(config.json, key,
                                        KeyTrusted(args[2 * at - 1], key, where)),
                     value |-> Tokens(v, Where(where))])
             /\ caches' = CachesAfter(v, Where(where))

FastPair ==
    /\ phase = "fast" /\ IsPair
    /\ args[2 * at - 1].type \in {"trusted", "string"}
    /\ WritePair("fast")
    /\ at' = at + 1
    /\ UNCHANGED <<program, config, out, queue, phase, call, fields, static, args, lines>>

\* Mutant: what the fast pass has written stays.
BackToStartKeeping(written) == written

\* The buffer is cut back to where the fast pass began.
BackToStart(written) == << >>

FastFails ==
    /\ phase = "fast" /\ IsPair
    /\ args[2 * at - 1].type \notin {"trusted", "string"}
    /\ phase' = "slow"
    /\ runtime' = BackToStart(runtime)
    /\ at' = 1
    /\ UNCHANGED <<program, config, out, queue, call, fields, static, args, caches, lines>>

SlowPair ==
    /\ phase = "slow" /\ IsPair
    /\ WritePair("slow")
    /\ at' = at + 1
    /\ UNCHANGED <<program, config, out, queue, phase, call, fields, static, args, lines>>

\* The argument without a key.  The slow pass of plain JSON prints it as the fast one does.
OddArgument ==
    /\ phase \in {"fast", "slow"} /\ 2 * at - 1 = Len(args)
    /\ LET chain == Where(IF config.json THEN "fast" ELSE phase)
           v     == args[Len(args)]
       IN  /\ runtime' = Append(runtime, [key |-> PrintedKey(config.json, ArgKey(at - 1), FALSE),
                                          value |-> Tokens(v, chain)])
           /\ caches' = CachesAfter(v, chain)
    /\ at' = at + 1
    /\ UNCHANGED <<program, config, out, queue, phase, call, fields, static, args, lines>>

\* What an emitter puts before the fields; the four variants have eight each, for
\* lines with and without time stamp, fields of With and the field loglevel, which is
\* that of DerivedLoggers and left out here.
JSONHead ==
    [stamp |-> IF ~config.timestamp THEN << >>
               ELSE IF config.stampTrusted THEN Quoted(Plain(Stamp(config.layout)))
               ELSE Quoted(JSONEscaped(Stamp(config.layout))),
     level |-> call.level,
     msg   |-> IF call.msg = << >> THEN << >> ELSE Quoted(JSONEscaped(call.msg))]

JSONColorHead == JSONHead

ConsoleHead ==
    [stamp |-> IF config.timestamp THEN Plain(Stamp(config.layout)) ELSE << >>,
     level |-> call.level,
     msg   |-> MessageByTable(call.msg)]

ConsoleColorHead == ConsoleHead

LineHead ==
    CASE config.json /\ config.colour   -> JSONColorHead
      [] config.json /\ ~config.colour  -> JSONHead
      [] ~config.json /\ config.colour  -> ConsoleColorHead
      [] ~config.json /\ ~config.colour -> ConsoleHead

\* The line is complete and goes out.
Finish ==
    /\ phase \in {"fast", "slow"} /\ 2 * at - 1 > Len(args)
    /\ lines' = Append(lines, [to |-> out.dests, call |-> call, head |-> LineHead,
                               static |-> static, runtime |-> runtime])
    /\ phase' = "idle"
    /\ UNCHANGED <<program, config, out, queue, call, fields, static, args, at, runtime, caches>>

\* The pool gives another lineWriter, one that has not written yet.
PoolMakesNew ==
    /\ phase \in {"idle", "with"} /\ caches # Fresh
    /\ caches' = Fresh
    /\ UNCHANGED <<program, config, out, queue, phase, call, fields, static, args, at,
                   runtime, lines>>

-----------------------------------------------------------------------------

Init ==
    /\ program \in Programs
    /\ config = << >> /\ out = << >>
    /\ queue = << >> /\ call = NoCall
    /\ phase = "start"
    /\ fields = << >> /\ static = << >>
    /\ args = << >> /\ at = 1 /\ runtime = << >>
    /\ caches = Fresh
    /\ lines = << >>

Next ==
    \/ Start \/ Write \/ Call \/ EncodeField \/ Log
    \/ FastPair \/ FastFails \/ SlowPair \/ OddArgument \/ Finish
    \/ PoolMakesNew

Spec == Init /\ [][Next]_vars

-----------------------------------------------------------------------------
(* Reading a line back. *)

Text == {"trusted", "string", "bytes", "stringer", "error", "stringerError",
         "stringerMarshaler", "jsonNumber"}

\* A reader of strings takes an escape for its byte, and a time for what the keys of
\* the cache tell apart, which is the time itself where UnixNano does not overflow.
Unescaped(tokens) ==
    [i \in DOMAIN tokens |->
        CASE tokens[i][1] = "esc"  -> Raw(tokens[i][2])
          [] tokens[i][1] = "time" -> <<"time", KeyOf("time", tokens[i][2])>>
          [] OTHER                 -> tokens[i]]

\* A reader of the console takes what is quoted for its content.
Content(tokens) ==
    IF tokens # << >> /\ Head(tokens)[1] = "quote" THEN SubSeq(tokens, 2, Len(tokens) - 1)
    ELSE tokens

Seen(tokens) == Unescaped(IF config.json THEN tokens ELSE Content(tokens))

\* What an element of an array means, and a value.
ElementMeant(v) ==
    CASE v.type \in Text \cup {"time", "duration"} -> Quoted(Plain(v.str))
      [] v.type \in {"bool", "num"}                -> << <<v.type, v.id>> >>
      [] v.type = "nil"                            -> Null
      [] OTHER                                     -> << <<"json", v.id>> >>

ArrayMeant(elems) ==
    Punct(1)
    \o FlattenSeq([i \in DOMAIN elems |->
                    (IF i = 1 THEN << >> ELSE Punct(2)) \o ElementMeant(elems[i])])
    \o Punct(3)

Meant(v) ==
    LET quoted(tokens) == IF config.json THEN Quoted(tokens) ELSE tokens
    IN  CASE v.type \in Text     -> quoted(Plain(v.str))
          [] v.type = "time"     -> quoted(<< <<"time", KeyOf("time", v.id)>> >>)
          [] v.type = "duration" -> quoted(<< <<"duration", v.id>> >>)
          [] v.type = "nonfinite" -> IF config.json /\ config.asNull THEN Null
                                     ELSE quoted(<< <<"float", v.id>> >>)
          [] v.type \in {"float", "bool", "num"} -> << <<v.type, v.id>> >>
          [] v.type = "nil"      -> IF config.json THEN Null ELSE << <<"nil", 0>> >>
          [] v.type = "array"    -> ArrayMeant(v.elems)
          [] v.type \in {"marshaler", "other"} -> << <<"json", v.id>> >>

\* The fields that a list of arguments means: its pairs with a key, and argN.
PairMeant(given, n) ==
    LET odd == 2 * n > Len(given)
        key == IF odd THEN ArgKey(n - 1) ELSE KeyText(given[2 * n - 1], n - 1)
        v   == IF odd THEN given[Len(given)] ELSE given[2 * n]
    IN  IF key = << >> THEN << >> ELSE << [key |-> Plain(key), value |-> Meant(v)] >>

FieldsMeant(given) ==
    FlattenSeq([n \in 1 .. (Len(given) + 1) \div 2 |-> PairMeant(given, n)])

FieldsSeen(written) ==
    [n \in DOMAIN written |-> [key |-> Unescaped(Content(written[n].key)),
                               value |-> Seen(written[n].value)]]

-----------------------------------------------------------------------------
(* Properties. *)

Written == phase \in {"fast", "slow"} /\ 2 * at - 1 > Len(args)

\* The arguments of an entry read back from its line as what they are, and each once:
\* whichever pass wrote them, plain or coloured, prepared by Keyvals or not, and
\* whatever an earlier line left in the caches.
FieldsReadBack ==
    Written => FieldsSeen(runtime) = FieldsMeant(call.args \o CallerField)

\* The time without the fraction of its second.
SecondOf(id) == id - 2 * ((id \div 2) % Second)

\* So do the fields of With, which other code encodes.  On the console a time loses
\* the fraction of its second there, where as an argument it keeps it.
StaticReadsBack ==
    LET told(v) == IF v.type = "time" /\ ~config.json
                   THEN [v EXCEPT !.id = SecondOf(v.id)] ELSE v
        given   == IF Len(call.with) = 1 /\ "error" \in CasesOf(call.with[1].type)
                   THEN << Str(<< 101, 114, 114, 111, 114 >>), call.with[1] >> ELSE call.with
    IN  Written => FieldsSeen(static) =
            FieldsMeant([i \in DOMAIN given |-> IF i % 2 = 0 \/ i = Len(given)
                                                THEN told(given[i]) ELSE given[i]])

\* Nothing is raw that has to be escaped.
JSONSound(tokens) ==
    \A i \in DOMAIN tokens : tokens[i][1] = "raw" => ~JSONNeedsEscape(tokens[i][2])

ConsoleSound(tokens) ==
    \A i \in DOMAIN tokens : tokens[i][1] = "raw" => ~ConsoleNeedsEscape(tokens[i][2])

Delimited(tokens) ==
    Content(tokens) = tokens => \A i \in DOMAIN tokens : tokens[i] # Raw(Space)

\* No string of a line can be taken for anything else: in JSON nothing is raw between
\* quotes that has to be escaped, on the console no value and no message has a raw
\* control byte, quote or backslash, and a space only between quotes.  (An array is
\* JSON on the console as well, where a DEL stays raw.)
StringsEscaped ==
    \A n \in DOMAIN lines :
        /\ IF config.json THEN JSONSound(lines[n].head.msg) /\ JSONSound(lines[n].head.stamp)
           ELSE ConsoleSound(lines[n].head.msg)
        /\ \A f \in ToSet(lines[n].static \o lines[n].runtime) :
              /\ JSONSound(f.value)
              /\ config.json => JSONSound(f.key)
              /\ ~config.json /\ Head(f.value \o Null)[1] # "punct"
                    => ConsoleSound(f.value) /\ Delimited(f.value)

\* A place of a cache holds the literal of its own key, and no other place has it: what
\* is found can be written for anything of that key.
CachesOwn ==
    \A kind \in Kinds : \A s \in 0 .. Slots - 1 :
        caches[kind][s].full =>
            /\ caches[kind][s].key = KeyOf(kind, caches[kind][s].text)
            /\ s = SlotOf(kind, caches[kind][s].key)

\* An output that cannot be opened leaves the logger with its base writer, and is
\* reported there unless the level keeps errors out; a file mode that makes no sense
\* is reported too, and first.
OutputErrorsSurface ==
    LET failed  == OpenFails(program.output)
        invalid == program.fileMode.set /\ ~FileModeOk(program.fileMode.value)
        own     == (IF invalid THEN << ModeInvalid >> ELSE << >>)
                   \o (IF failed THEN << OpenFailed >> ELSE << >>)
    IN  phase = "idle" /\ queue = << >> =>
            /\ failed => out = [dests |-> << program.base >>, owned |-> FALSE]
            /\ config.level <= 3 =>
                  /\ Len(lines) >= Len(own)
                  /\ \A n \in DOMAIN own : lines[n].call.msg = own[n]
                  /\ \A n \in DOMAIN own : lines[n].to = out.dests

\* A variable that makes no sense changes nothing, but for PALETTE, which then gives
\* the default palette and not the one of the seed.
EnvLeavesSeed ==
    LET env      == program.env
        sensible == [var \in DOMAIN env |-> [env[var] EXCEPT !.set = @ /\ env[var].ok]]
        options  == Resolved(program.seed, sensible)
    IN  phase # "start" =>
            config = BuildAdapter([options EXCEPT !.palette =
                                     IF env.PALETTE.set /\ ~env.PALETTE.ok THEN "default" ELSE @],
                                  out, program.terminals)

\* A level's name, with blanks around it.
NamesLevel(word) == TrimSpace(word) \in {<< name >> : name \in Names} \cup {<< 303, Ing >>}

\* What may be cut from the front of a line: a level between brackets and the blanks
\* behind, or the name of one that prints, with colons, dashes and blanks.
MayBeCut(text) ==
    \/ text = << >>
    \/ /\ text[1] = 91
       /\ \E k \in DOMAIN text :
             /\ text[k] = 93
             /\ NamesLevel(SubSeq(text, 2, k - 1))
             /\ \A i \in k + 1 .. Len(text) : Blank(text[i])
    \/ /\ text[1] \in 300 .. 306
       /\ \A i \in 2 .. Len(text) : text[i] \in {45, 58} \/ Blank(text[i])

\* Of a line that comes through the standard library's logger only a level's name is
\* cut, with what surrounds it: the rest is logged, and a bracket that holds no level
\* is part of it (classifyLineLevel).
KeepsText(line, msg) ==
    \E n \in 0 .. Len(line) :
        /\ msg = SubSeq(line, n + 1, Len(line))
        /\ MayBeCut(SubSeq(line, 1, n))

BridgeKeepsText == call.op # "none" /\ call.line # << >> => KeepsText(call.line, call.msg)

=============================================================================
