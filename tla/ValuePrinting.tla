--------------------------- MODULE ValuePrinting ---------------------------
(***************************************************************************)
(* What the emitters write for a key and for a value: the case that        *)
(* ValueSwitches names decides whether a string is trusted, scanned or     *)
(* looked up, quoted or bare, and which literals come from a cache.        *)
(*                                                                         *)
(* A value is a record [type, str, id, elems]: str is the content of a     *)
(* string or what String(), Error() or strconv make of it, id tells        *)
(* numbers, instants and marshalled values apart, elems are those of an    *)
(* array.  What is written is a sequence of tokens as in EscapeScan, with  *)
(* <<kind, id>> for a literal.  Colour codes are left out.                 *)
(***************************************************************************)
EXTENDS EscapeScan, ValueSwitches, SequencesExt

CONSTANT Second  \* time stamps of one second

ASSUME SecondPositive == Second \in Nat \ {0}

Value(type, str, id) == [type |-> type, str |-> str, id |-> id, elems |-> << >>]

Quoted(tokens) == << <<"quote", 0>> >> \o tokens \o << <<"quote", 0>> >>

Null == << <<"null", 0>> >>

Punct(c) == << <<"punct", c>> >>

-----------------------------------------------------------------------------
(* Keys.  The string constants are spelled with the codes of their bytes.  *)

\* strconv.Itoa: a digit for what each division leaves, as long as it leaves something.
Itoa(n) ==
    LET rest[k \in 0 .. n] == IF k = 0 THEN n ELSE rest[k - 1] \div 10
        size == Cardinality({k \in 0 .. n : k = 0 \/ rest[k] # 0})
    IN  [i \in 1 .. size |-> 48 + (rest[size - i] % 10)]

\* argKeyName.
ArgKey(pair) == <<97, 114, 103>> \o Itoa(pair)

\* keyFromValue, and keyFromAny which it asks.
KeyText(v, pair) == IF v.type = "nil" THEN ArgKey(pair) ELSE v.str

\* Keyvals: the keys of the pairs become strings, trusted where they may.
Keyvals(args) ==
    [i \in DOMAIN args |->
        IF i % 2 = 0 \/ i = Len(args) \/ args[i].type = "trusted" THEN args[i]
        ELSE LET key == KeyText(args[i], (i - 1) \div 2)
             IN  Value(IF TrustedASCII(key) THEN "trusted" ELSE "string", key, 0)]

\* The fields of With.  A lone error is the field "error".
CollectFields(args) ==
    IF Len(args) = 1 /\ "error" \in CasesOf(args[1].type)
    THEN << [key |-> <<101, 114, 114, 111, 114>>, trusted |-> TRUE,
             value |-> Value("error", args[1].str, 0)] >>
    ELSE [n \in 1 .. (Len(args) + 1) \div 2 |->
            LET odd == 2 * n > Len(args)
                key == IF odd THEN ArgKey(n - 1) ELSE KeyText(args[2 * n - 1], n - 1)
            IN  [key |-> key,
                 trusted |-> \/ ~odd /\ args[2 * n - 1].type = "trusted"
                             \/ TrustedASCII(key),
                 value |-> IF odd THEN args[Len(args)] ELSE args[2 * n]]]

\* Whether the key of a pair goes without escaping: both fast passes, and
\* runtimeKeyFromValue of the slow ones.
KeyTrusted(v, key, where) ==
    \/ v.type = "trusted"
    \/ where = "fast" /\ TrustedASCII(key)
    \/ where = "slow" /\ v.type # "string" /\ ~HasUnsafe(key)

\* A key of a line; the console writes it as it is.
PrintedKey(json, key, trusted) ==
    IF ~json THEN Plain(key)
    ELSE IF trusted THEN Quoted(Plain(key)) ELSE Quoted(JSONEscaped(key))

\* encodeBaseJSONPlain looks a key up that is not trusted; encodeBaseJSONColor scans it.
StaticKey(json, colour, f) ==
    IF json /\ ~colour /\ ~f.trusted THEN Quoted(JSONByTable(f.key))
    ELSE PrintedKey(json, f.key, f.trusted)

-----------------------------------------------------------------------------
(* Values. *)

\* Which cache of the lineWriter is asked, if any.  Coloured floats and the
\* encoders of the console's static fields go past them.
CacheAsked(taken, v, colour) ==
    IF taken.by = "ConsoleStatic" THEN "none"
    ELSE CASE taken.case \in {"time", "duration"} -> taken.case
           [] taken.case = "float" /\ ~colour /\ ~(taken.by # "Console" /\ v.type = "nonfinite")
                                                  -> "float"
           [] OTHER                               -> "none"

\* A time as RFC 3339, with its fraction or without; odd numbers are in another zone.
TimeLiteral(id)  == << <<"time", id>> >>

\* Mutant: the zone is lost with the fraction.
WholeSecondUTC(id) == ((id \div 2) \div Second) * Second * 2

WholeSecond(id) == ((id \div 2) \div Second) * Second * 2 + (id % 2)

\* A string of the console: writeConsoleStringPlain and the three like it.
ConsoleString(s) == IF NeedsQuote(s) THEN Quoted(ConsoleEscaped(s)) ELSE Plain(s)

\* A stringer, an error or bytes in JSON: the inline switches try to trust it.
JSONText(by, s) ==
    CASE by = "JSON" /\ TrustedASCII(s)  -> Quoted(Plain(s))
      [] by = "JSON" /\ ~TrustedASCII(s) -> Quoted(JSONEscaped(s))
      [] by = "JSONValue"                -> Quoted(JSONByTable(s))
      [] by = "JSONColored"              -> Quoted(JSONEscaped(s))

\* writeJSONNonFiniteFloat: null, or a string.
NonFinite(v, asNull) == IF asNull THEN Null ELSE Quoted(<< <<"float", v.id>> >>)

\* What the case writes for v where literal is the number of its literal, its own
\* or the one a cache has for it.  An array's elements are printed by Element.
PrintedScalar(taken, v, literal, asNull) ==
    LET console == taken.by \in {"Console", "ConsoleStatic"}
    IN  CASE taken.case = "trusted"  -> IF console THEN ConsoleString(v.str)
                                        ELSE Quoted(Plain(v.str))
          [] taken.case = "string"   -> IF console THEN ConsoleString(v.str)
                                        ELSE Quoted(JSONEscaped(v.str))
          [] taken.case \in {"stringer", "error", "bytes"} ->
                IF console THEN ConsoleString(v.str) ELSE JSONText(taken.by, v.str)
          [] taken.case = "float" /\ v.type = "nonfinite" /\ ~console -> NonFinite(v, asNull)
          [] \/ taken.case \in {"bool", "num"}
             \/ taken.case = "float" /\ (v.type = "nonfinite" => console)
                -> << <<taken.case, literal>> >>
          [] taken.case = "time"     ->
                IF taken.by = "ConsoleStatic" THEN TimeLiteral(WholeSecond(v.id))
                ELSE IF console THEN TimeLiteral(literal) ELSE Quoted(TimeLiteral(literal))
          [] taken.case = "duration" ->
                IF console THEN << <<"duration", literal>> >>
                ELSE Quoted(<< <<"duration", literal>> >>)
          [] taken.case = "nil"      -> IF console THEN << <<"nil", 0>> >> ELSE Null
          [] taken.case \in {"marshaler", "default"} -> << <<"json", v.id>> >>

\* An element of an array: a string, or whatever writeJSONValuePlain has for it, which
\* takes a time or a duration by its String method.
Element(v) ==
    IF v.type \in {"trusted", "string"}
    THEN PrintedScalar([by |-> "PTLog", case |-> v.type], v, v.id, FALSE)
    ELSE PrintedScalar(Taken(<< Switch("JSONValue", JSONValue) >>, v.type), v, v.id, FALSE)

\* writePTLogArray.
Array(elems) ==
    Punct(1)
    \o FlattenSeq([i \in DOMAIN elems |->
                    (IF i > 1 THEN Punct(2) ELSE << >>) \o Element(elems[i])])
    \o Punct(3)

Printed(taken, v, literal, asNull) ==
    IF taken.case = "array" THEN Array(v.elems)
    ELSE PrintedScalar(taken, v, literal, asNull)

=============================================================================
