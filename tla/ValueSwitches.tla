---------------------------- MODULE ValueSwitches ----------------------------
(***************************************************************************)
(* Which case of which type switch prints a value.  The emitters of the    *)
(* four variants, the encoders of static fields and the slow passes each   *)
(* have a switch of their own over the same types; a value that matches    *)
(* none of its cases is handed to the next switch of a chain.              *)
(*                                                                         *)
(* A switch is the sequence of its cases in the order of the source, where *)
(* the first one that matches is taken.  "num" stands for all integers,    *)
(* signed or not.                                                          *)
(***************************************************************************)
EXTENDS Integers, Sequences, FiniteSetsExt

\* "jsonNumber" is json.Number, "other" a type without a case (structs, maps,
\* named types), the rest the types of the same name and user types with the
\* methods of the same name.
Types == {"trusted", "string", "bool", "num", "float", "nonfinite", "time",
          "duration", "bytes", "nil", "array", "stringer", "error",
          "stringerError", "marshaler", "stringerMarshaler", "jsonNumber", "other"}

\* The cases a type matches: its own and the interfaces it has the methods of.
CasesOf(type) ==
    CASE type = "nonfinite"          -> {"float"}
      [] type = "time"               -> {"time", "stringer", "marshaler"}
      [] type = "duration"           -> {"duration", "stringer"}
      [] type = "jsonNumber"         -> {"jsonNumber", "stringer"}
      [] type = "stringerError"      -> {"stringer", "error"}
      [] type = "stringerMarshaler"  -> {"stringer", "marshaler"}
      [] type = "other"              -> {}
      [] OTHER                       -> {type}

-----------------------------------------------------------------------------
(* JSON. *)

\* writePTLogValue and writePTLogValueColored.
PTLog        == <<"array", "trusted", "string", "bool", "num", "float", "time", "duration">>
PTLogColored == PTLog

\* writeJSONValuePlain and writeJSONValueColored, the end of every chain.
JSONValue == <<"string", "trusted", "stringer", "error", "bool", "marshaler", "nil",
               "time", "duration", "num", "float", "jsonNumber", "bytes">>
JSONValueColored == JSONValue

\* writeRuntimeValuePlainInline.
JSONInline == <<"trusted", "string", "bool", "num", "float", "bytes", "time", "duration",
                "stringer", "error">>

\* writeRuntimeValuePlain.
JSONFast == <<"trusted", "string", "bool", "num", "float", "time", "duration">>

\* Mutant: interfaces come before the types that have them.
JSONColorInterfacesFirst ==
    <<"trusted", "string", "bool", "num", "float", "bytes", "stringer", "time", "duration",
      "error", "nil">>

\* writeRuntimeJSONValueColor.
JSONColor == <<"trusted", "string", "bool", "num", "float", "bytes", "time", "duration",
               "stringer", "error", "nil">>

-----------------------------------------------------------------------------
(* Console. *)

\* writeConsoleValueInline and writeConsoleValueColorInline.
ConsoleInline == <<"trusted", "string", "bool", "num", "float", "time", "duration",
                   "stringer", "error", "bytes", "nil">>
ConsoleColorInline == ConsoleInline

\* writeConsoleValueFast, of the slow pass.
ConsoleFast == <<"trusted", "string", "time", "duration", "stringer", "error", "bool",
                 "num", "float", "bytes", "nil">>

\* writeConsoleValuePlain.
ConsoleValue == <<"string", "time", "duration", "stringer", "error", "bool", "num",
                  "float", "bytes", "nil">>

\* appendConsoleValuePlain and appendConsoleValueColor, which have no case for a
\* TrustedString.
ConsoleStatic == <<"string", "time", "duration", "stringer", "error", "bool", "num",
                   "float", "bytes", "nil">>
ConsoleStaticColor == ConsoleStatic

-----------------------------------------------------------------------------
(* Chains. *)

Matches(switch, type) == {i \in DOMAIN switch : switch[i] \in CasesOf(type)}

\* The first switch of the chain with a case for the type, and that case; what
\* none has is left to json.Marshal.
Taken(chain, type) ==
    LET hits == {n \in DOMAIN chain : Matches(chain[n].cases, type) # {}}
    IN  IF hits = {} THEN [by |-> "Marshal", case |-> "default"]
        ELSE LET hit == chain[Min(hits)]
             IN  [by |-> hit.name, case |-> hit.cases[Min(Matches(hit.cases, type))]]

Switch(name, cases) == [name |-> name, cases |-> cases]

JSONTail == << Switch("PTLog", PTLog), Switch("JSONValue", JSONValue) >>

\* The default of writeConsoleValueColorInline and of appendConsoleValueColor.
ColoredTail ==
    << Switch("PTLog", PTLogColored), Switch("JSONColored", JSONValueColored) >>

\* What prints a value: the variant, and where: "static", "fast" or "slow".
Chain(json, colour, where) ==
    CASE json /\ colour ->
            << Switch("JSON", JSONColor) >> \o JSONTail
      [] json /\ ~colour /\ where = "static" ->
            JSONTail
      [] json /\ ~colour /\ where = "fast" ->
            << Switch("JSON", JSONInline), Switch("JSON", JSONFast) >> \o JSONTail
      [] json /\ ~colour /\ where = "slow" ->
            << Switch("JSON", JSONFast) >> \o JSONTail
      [] ~json /\ colour /\ where = "static" ->
            << Switch("ConsoleStatic", ConsoleStaticColor) >> \o ColoredTail
      [] ~json /\ colour /\ where # "static" ->
            << Switch("Console", ConsoleColorInline) >> \o ColoredTail
      [] ~json /\ ~colour /\ where = "static" ->
            << Switch("ConsoleStatic", ConsoleStatic) >> \o JSONTail
      [] ~json /\ ~colour /\ where = "fast" ->
            << Switch("Console", ConsoleInline), Switch("Console", ConsoleValue) >> \o JSONTail
      [] ~json /\ ~colour /\ where = "slow" ->
            << Switch("Console", ConsoleFast), Switch("Console", ConsoleValue) >> \o JSONTail

=============================================================================
