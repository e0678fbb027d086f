------------------------------ MODULE EnvConfig ------------------------------
(***************************************************************************)
(* What LoggerFromEnv makes of the environment, a seed of options and a    *)
(* writer, and buildAdapter of the options that result.                    *)
(*                                                                         *)
(* A variable is a record [set, ok, value]: whether it is set, whether its *)
(* parser takes it, and what it parses to.                                 *)
(***************************************************************************)
EXTENDS Integers, Sequences, FiniteSetsExt, SequencesExt, EscapeScan

EnvVariables == {"LEVEL", "VERBOSE_FIELDS", "CALLER_KEYVAL", "CALLER_KEY", "MODE",
                 "TIME_FORMAT", "DISABLE_TIMESTAMP", "NO_COLOR", "FORCE_COLOR", "PALETTE",
                 "UTC"}

IsEnvironment(env) ==
    /\ DOMAIN env = EnvVariables
    /\ \A var \in EnvVariables : /\ DOMAIN env[var] = {"set", "ok", "value"}
                                 /\ env[var].set \in BOOLEAN /\ env[var].ok \in BOOLEAN

-----------------------------------------------------------------------------
(* Options. *)

\* Mutant: a variable that is set counts, whatever its parser says.
OverrideUnparsed(seed, variable) == IF variable.set THEN variable.value ELSE seed

\* A variable that is unset, or that its parser does not take, leaves the seed.
Override(seed, variable) == IF variable.set /\ variable.ok THEN variable.value ELSE seed

\* PaletteByName knows a default for every name, so this one never leaves the seed.
OverridePalette(seed, variable) ==
    CASE ~variable.set               -> seed
      [] variable.set /\ variable.ok -> variable.value
      [] OTHER                       -> "default"

\* The options of LoggerFromEnv.
Resolved(seed, env) ==
    [level      |-> Override(seed.level, env.LEVEL),
     verbose    |-> Override(seed.verbose, env.VERBOSE_FIELDS),
     caller     |-> Override(seed.caller, env.CALLER_KEYVAL),
     callerKey  |-> Override(seed.callerKey, env.CALLER_KEY),
     json       |-> Override(seed.json, env.MODE),
     layout     |-> Override(seed.layout, env.TIME_FORMAT),
     noTime     |-> Override(seed.noTime, env.DISABLE_TIMESTAMP),
     noColor    |-> Override(seed.noColor, env.NO_COLOR),
     forceColor |-> Override(seed.forceColor, env.FORCE_COLOR),
     palette    |-> OverridePalette(seed.palette, env.PALETTE),
     utc        |-> Override(seed.utc, env.UTC),
     asNull     |-> seed.asNull]

-----------------------------------------------------------------------------
(* The output. *)

\* parseEnvFileMode of a text [prefixed, digits]: octal, up to 0777.
FileModeOk(text) ==
    /\ text.digits # << >>
    /\ \A i \in DOMAIN text.digits : text.digits[i] \in 0 .. 7
    /\ FoldLeft(LAMBDA n, d : 8 * n + d, 0, text.digits) <= 511

\* writerFromEnvOutput.  An output is a record [target, path] where the target
\* is "", "stdout", "stderr", "default", one of these with a plus and a path, or
\* "file"; a path that cannot be opened is "denied".
NamedWriter(target, base) ==
    CASE target \in {"", "default", "default+"} -> base
      [] target \in {"stdout", "stdout+"}       -> "stdout"
      [] target \in {"stderr", "stderr+"}       -> "stderr"

OpensFile(output) ==
    \/ output.target = "file"
    \/ output.target \in {"stdout+", "stderr+", "default+"} /\ output.path # ""

OpenFails(variable) ==
    variable.set /\ OpensFile(variable.value) /\ variable.value.path = "denied"

\* The destinations of the logger, and whether it owns a file among them.
Output(variable, base) ==
    LET output == variable.value IN
    CASE ~variable.set \/ OpenFails(variable) -> [dests |-> << base >>, owned |-> FALSE]
      [] variable.set /\ ~OpenFails(variable) /\ ~OpensFile(output) ->
            [dests |-> << NamedWriter(output.target, base) >>, owned |-> FALSE]
      [] variable.set /\ ~OpenFails(variable) /\ OpensFile(output) ->
            [dests |-> (IF output.target = "file" THEN << >>
                        ELSE << NamedWriter(output.target, base) >>) \o << output.path >>,
             owned |-> TRUE]

-----------------------------------------------------------------------------
(* Layouts: [digits, trimmed, text] is one with a fraction of that many    *)
(* digits, at most nine, trailing zeros trimmed or not, and with literal   *)
(* text.                                                                   *)

\* 10^k, for k up to 9.
PowerOfTen(k) ==
    <<1, 10, 100, 1000, 10000, 100000, 1000000, 10000000, 100000000, 1000000000>>[k + 1]

\* Time.Format of a second and milliseconds: the digits it shows of them.
Fraction(layout, ms) ==
    LET shown  == IF layout.digits > 3 THEN ms * PowerOfTen(layout.digits - 3)
                  ELSE ms \div PowerOfTen(3 - layout.digits)
        zeros  == {k \in 0 .. layout.digits : shown % PowerOfTen(k) = 0}
    IN  IF layout.trimmed THEN << layout.digits - Max(zeros), shown \div PowerOfTen(Max(zeros)) >>
        ELSE << layout.digits, shown >>

\* hasSubSecondPrecision: one millisecond makes a difference.
HasSubSecondPrecision(layout) == Fraction(layout, 0) # Fraction(layout, 1)

\* The formatted time: one digit stands for all of them.
Stamp(layout) == << 48 >> \o layout.text

-----------------------------------------------------------------------------
(* buildAdapter. *)

\* isTerminal: neither a tee nor an owned file has a file descriptor.
IsTerminal(out, terminals) ==
    Len(out.dests) = 1 /\ ~out.owned /\ out.dests[1] \in terminals

FnKey == << 102, 110 >>

ColorEnabled(options, out, terminals) ==
    ~options.noColor /\ (options.forceColor \/ IsTerminal(out, terminals))

BuildAdapter(options, out, terminals) ==
    [json         |-> options.json,
     colour       |-> ColorEnabled(options, out, terminals),
     level        |-> options.level,
     timestamp    |-> ~options.noTime,
     layout       |-> options.layout,
     cached       |-> ~options.noTime /\ ~HasSubSecondPrecision(options.layout),
     stampTrusted |-> ~options.noTime /\ ~HasUnsafe(Stamp(options.layout)),
     caller       |-> options.caller,
     callerKey    |-> IF options.callerKey = << >> THEN FnKey ELSE options.callerKey,
     palette      |-> options.palette,
     verbose      |-> options.verbose,
     utc          |-> options.utc,
     asNull       |-> options.asNull]

=============================================================================
