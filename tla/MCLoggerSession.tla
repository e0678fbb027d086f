--------------------------- MODULE MCLoggerSession ---------------------------
(***************************************************************************)
(* Instances of LoggerSession: words of two bytes, so that five bytes make *)
(* a pair of words and a rest; caches of two places.  Six families of     *)
(* programs, each about one thing and plain in the others.                 *)
(***************************************************************************)
EXTENDS LoggerSession

Unset(value)     == [set |-> FALSE, ok |-> FALSE, value |-> value]
Valid(value)     == [set |-> TRUE, ok |-> TRUE, value |-> value]
Senseless(value) == [set |-> TRUE, ok |-> FALSE, value |-> value]

Layout(digits, trimmed, text) == [digits |-> digits, trimmed |-> trimmed, text |-> text]

Seed(json, colour) ==
    [level |-> 0, verbose |-> FALSE, caller |-> FALSE, callerKey |-> << >>, json |-> json,
     layout |-> Layout(0, FALSE, << >>), noTime |-> TRUE, noColor |-> FALSE,
     forceColor |-> colour, palette |-> "seed", utc |-> FALSE, asNull |-> FALSE]

NoEnv ==
    [LEVEL |-> Unset(0), VERBOSE_FIELDS |-> Unset(FALSE), CALLER_KEYVAL |-> Unset(FALSE),
     CALLER_KEY |-> Unset(<< >>), MODE |-> Unset(FALSE),
     TIME_FORMAT |-> Unset(Layout(0, FALSE, << >>)), DISABLE_TIMESTAMP |-> Unset(FALSE),
     NO_COLOR |-> Unset(FALSE), FORCE_COLOR |-> Unset(FALSE), PALETTE |-> Unset("named"),
     UTC |-> Unset(FALSE)]

NoOutput == Unset([target |-> "", path |-> ""])
NoMode   == Unset([prefixed |-> FALSE, digits |-> << >>])

Program(seed, env, calls) ==
    [seed |-> seed, env |-> env, output |-> NoOutput, fileMode |-> NoMode, base |-> "base",
     terminals |-> {}, calls |-> calls]

Entry(with, level, msg, given) ==
    [op |-> "log", with |-> with, level |-> level, msg |-> msg, args |-> given,
     prepared |-> FALSE, line |-> << >>, stack |-> << UserFunction >>]

Variants == {Seed(json, colour) : json \in BOOLEAN, colour \in BOOLEAN}

K == Str(<< 107 >>)
L == Value("num", << 55 >>, 7)
N == Value("nil", << >>, 0)

-----------------------------------------------------------------------------
(* Every text of up to five bytes as a message, a key, a string, a stringer *)
(* and bytes, of With and of the entry, in the fast and in the slow pass.   *)

Texts == UNION {[1 .. n -> {10, 32, 34, 97}] : n \in 0 .. 5}
         \cup UNION {[1 .. n -> {34, 35, 92, 93}] : n \in 1 .. 3}
         \cup UNION {[1 .. n -> {31, 33, 127, 200}] : n \in 1 .. 3}

TextPrograms ==
    {Program(seed, NoEnv,
        << Entry(<< Str(text), Value("error", text, 0) >>, 1, text,
                 << Str(text), Value("stringer", text, 0), L, Value("bytes", text, 0),
                    Str(text), Str(text) >>) >>) :
        seed \in Variants, text \in Texts}

-----------------------------------------------------------------------------
(* Every type of value, as a field of With, an argument and one without key. *)

Samples ==
    {Value(type, << 97 >>, 3) : type \in Types \ {"time", "array"}}
    \cup {Value("string", << 97, 32 >>, 0), Value("error", << >>, 0), Value("time", << 84, 32 >>, 4),
          Value("time", << 84, 32 >>, 7)}
    \cup {[Value("array", << >>, 0) EXCEPT !.elems = e] :
            e \in {<< >>, << Str(<< 34 >>) >>, << Str(<< 127, 32 >>) >>,
                   << Value("time", << 84, 32 >>, 7), N, L >>,
                   << Value("trusted", << 97 >>, 0), Value("marshaler", << >>, 5) >>}}

ArgumentLists(v) ==
    {<< K, v >>, << L, v, K, v >>, << v >>, << K, L, v >>, << N, L, Str(<< >>), L, v >>,
     << K, v, Value("error", << >>, 0), L, Value("bytes", << 34 >>, 0), v >>}

TypePrograms ==
    {Program([seed EXCEPT !.asNull = asNull, !.caller = caller], NoEnv,
             << [Entry(with, 1, << 109 >>, given) EXCEPT !.prepared = prepared] >>) :
        seed \in Variants, asNull \in BOOLEAN, caller \in BOOLEAN, prepared \in BOOLEAN,
        with \in {<< >>}, given \in UNION {ArgumentLists(v) : v \in Samples}}
    \cup
    {Program([seed EXCEPT !.asNull = asNull], NoEnv, << Entry(with, 1, << 109 >>, << >>) >>) :
        seed \in Variants, asNull \in BOOLEAN, with \in UNION {ArgumentLists(v) : v \in Samples}}

\* Pairs whose keys have to be made, up to arg10, and an argument left over.
Many == [i \in 1 .. 23 |-> IF i % 2 = 1 THEN N ELSE L]

LongPrograms ==
    {Program([seed EXCEPT !.caller = caller], NoEnv,
             << Entry(with, 1, << 109 >>, given) >>) :
        seed \in Variants, caller \in BOOLEAN, with \in {<< >>, Many},
        given \in {<< >>, Many, Many \o << L >>}}

-----------------------------------------------------------------------------
(* Three literals, one or two of them in a line of their own: two of one    *)
(* place, two of one instant in two zones, two instants that UnixNano takes *)
(* for one, a float that is too long for the cache.                         *)

Literals ==
    {Value("time", << 84 >>, id) : id \in {0, 1, 4, 5, 16}}
    \cup {Value("float", << 48 >>, id) : id \in {1, 3, 9}}
    \cup {Value("duration", << 48 >>, id) : id \in {1, 3}}

LiteralPrograms ==
    {Program(seed, NoEnv, << Entry(<< K, a >>, 1, << >>, << K, b >>),
                             Entry(<< >>, 1, << >>, << K, c, K, a >>) >>) :
        seed \in Variants, a \in Literals, b \in Literals,
        c \in {v \in Literals : v.id \in {0, 1, 5}}}

-----------------------------------------------------------------------------
(* Environments. *)

EnvSettings ==
    {[NoEnv EXCEPT !.LEVEL = level] : level \in {Valid(3), Valid(4), Valid(7), Senseless(1)}}
    \cup {[NoEnv EXCEPT !.PALETTE = palette] : palette \in {Valid("named"), Senseless("")}}
    \cup {[NoEnv EXCEPT !.MODE = mode, !.FORCE_COLOR = force] :
            mode \in {Valid(TRUE), Senseless(FALSE)}, force \in {Valid(TRUE), Senseless(TRUE)}}
    \cup {[NoEnv EXCEPT !.CALLER_KEYVAL = Valid(TRUE), !.CALLER_KEY = key] :
            key \in {Valid(<< 99 >>), Valid(<< 34, 99 >>), Senseless(<< >>)}}
    \cup {[NoEnv EXCEPT !.DISABLE_TIMESTAMP = Valid(FALSE), !.TIME_FORMAT = Valid(Layout(d, trimmed, text))] :
            d \in 0 .. 4, trimmed \in BOOLEAN, text \in {<< >>, << 34, 32 >>}}
    \cup {NoEnv, [NoEnv EXCEPT !.NO_COLOR = Valid(TRUE), !.VERBOSE_FIELDS = Valid(TRUE), !.UTC = Valid(TRUE)],
          [NoEnv EXCEPT !.VERBOSE_FIELDS = Senseless(TRUE)], [NoEnv EXCEPT !.UTC = Senseless(TRUE)]}

Outputs ==
    {Valid([target |-> target, path |-> path]) :
        target \in {"stdout+", "stderr+", "default+"}, path \in {"", "app.log", "denied"}}
    \cup {Valid([target |-> "file", path |-> path]) : path \in {"app.log", "denied"}}
    \cup {Valid([target |-> target, path |-> ""]) : target \in {"", "default", "stdout", "stderr"}}
    \cup {NoOutput}

Modes ==
    {NoMode, Valid([prefixed |-> TRUE, digits |-> << 6, 4, 0 >>]),
     Valid([prefixed |-> FALSE, digits |-> << 7, 7, 7 >>]), Valid([prefixed |-> FALSE, digits |-> << 1, 0, 0, 0 >>]),
     Valid([prefixed |-> FALSE, digits |-> << 8 >>]), Valid([prefixed |-> TRUE, digits |-> << >>])}

EnvProgram(json, env, output, mode, base) ==
    [Program(Seed(json, FALSE), env, << Entry(<< >>, 3, << 109 >>, << K >>) >>) EXCEPT
        !.output = output, !.fileMode = mode, !.base = base, !.terminals = {"stdout", "stderr"}]

Denied == Valid([target |-> "default+", path |-> "denied"])

EnvPrograms ==
    {EnvProgram(json, env, output, mode, base) :
        json \in BOOLEAN, env \in EnvSettings, output \in {NoOutput, Denied}, mode \in {NoMode},
        base \in {"base", "stdout"}}
    \cup
    {EnvProgram(json, env, output, mode, base) :
        json \in BOOLEAN, env \in {NoEnv, [NoEnv EXCEPT !.LEVEL = Valid(4)]}, output \in Outputs,
        mode \in Modes, base \in {"base", "stdout"}}

-----------------------------------------------------------------------------
(* Writes of the standard library's logger. *)

LogOutput == << 111 >>

BridgeLines ==
    {head \o mid \o tail :
        head \in {<< >>, << 303 >>, << 302 >>, << 303, Ing >>, << 91, 304, 93 >>, << 91, 303, Ing, 93 >>,
                  << 91, 308, 93 >>, << 91, 32, 300, 93 >>, << 91, 93 >>, << 91, 97, 93 >>, << 308 >>, << 9 >>},
        mid \in {<< >>, << 58, 32 >>, << 32, 45, 45, 32 >>, << 93 >>},
        tail \in {<< >>, << 97 >>, << 97, 32, 13 >>, << 304, 58, 34 >>}}

BridgePrograms ==
    {Program([Seed(json, FALSE) EXCEPT !.caller = TRUE], NoEnv,
        << [op |-> "write", lines |-> << a, b >>, pinned |-> pinned,
            stack |-> << LogOutput, UserFunction >>] >>) :
        json \in BOOLEAN, a \in BridgeLines, b \in {<< 13 >>, << 302, 32, 97 >>},
        pinned \in {<< >>, << 2 >>}}

-----------------------------------------------------------------------------

MCPrograms ==
    TextPrograms \cup TypePrograms \cup LongPrograms \cup LiteralPrograms \cup EnvPrograms
    \cup BridgePrograms

MCLongFloats == {9}

=============================================================================
