---------------------------- MODULE Console2Json ----------------------------
(***************************************************************************)
(* The converter of console lines to JSON (pslogconsole2json/main.go): one *)
(* run of the command over its input files, line by line.                  *)
(*                                                                         *)
(* A line is the sequence of its tokens, without colours and layout: a     *)
(* timestamp, a level, a word, or a field; a key has no blank and no "=".  *)
(* A text is a sequence of symbols; between quotes it is what stands on    *)
(* the line, escapes and the closing quote included, with what follows     *)
(* that one up to a blank, which has no "=".  A quoted text that is not    *)
(* closed is the last of its line.                                         *)
(***************************************************************************)
EXTENDS Naturals, Sequences, SequencesExt, FiniteSets, Functions

CONSTANTS
    Commands,  \* [stdin, files, write, outdir, filter]; a file is <<dir, base>>
    Entries,   \* what a pslog console logger printed into the input
    Foreign,   \* token sequences that come from elsewhere
    Reads,     \* unquoted text -> "null", "bool", "int" or "float"
    Infinite,  \* texts that read as a float without a JSON form (NaN, Inf)
    MaxLines,  \* bound of the lines read in one run
    Nil

Levels == {"trace", "debug", "info", "warn", "error", "fatal", "panic", "nolevel"}

IsSequence(s) == s \in Seq(Range(s))

ASSUME CommandLines ==
    \A c \in Commands :
        /\ {c.stdin, c.write, c.outdir, c.filter.on} \subseteq BOOLEAN
        /\ IsSequence(c.files)

\* Nil in place of a timestamp stands for none.  A field has a string, or a
\* value that is printed bare: its text up to a blank or a closing quote, and
\* rest, the tokens that the blanks of an array or of a marshalled value make of
\* what follows.
ASSUME LineContents ==
    /\ \A tokens \in Foreign : IsSequence(tokens)
    /\ \A e \in Entries :
          /\ e.lvl \in Levels
          /\ IsSequence(e.msg) /\ IsSequence(e.fields)
          /\ \A token \in Range(e.msg) : token.is \in {"word", "bare", "plain"}
          /\ \A f \in Range(e.fields) :
                /\ f.string \in BOOLEAN
                /\ IsSequence(f.text) /\ IsSequence(f.rest)
                /\ f.string => f.rest = << >>

ASSUME Console2JsonConstants ==
    /\ \A r \in Range(Reads) : r \in {"null", "bool", "int", "float"}
    /\ \A t \in Infinite : t \in DOMAIN Reads /\ Reads[t] = "float"
    /\ MaxLines \in Nat

VARIABLES
    cmd,      \* the command line
    phase,    \* what main does next
    at,       \* the stream it is at
    kinds,    \* typeTracker of this stream: key -> kind
    outputs,  \* output -> the JSON objects written to it
    inputs    \* history: the lines read from each stream

vars == <<cmd, phase, at, kinds, outputs, inputs>>

-----------------------------------------------------------------------------
(* Tokens. *)

Time(t)           == [is |-> "time", text |-> << t >>]
Word(text)        == [is |-> "word", text |-> text]
Bare              == [is |-> "bare", text |-> << "=" >>]  \* no key before the "="
Plain(key, text)  == [is |-> "plain", key |-> key, text |-> text]
Quoted(key, text) == [is |-> "quoted", key |-> key, text |-> text]

\* The map f with value under key.
With(f, key, value) ==
    [k \in DOMAIN f \cup {key} |-> IF k = key THEN value ELSE f[k]]

HasKey(token) == token.is \in {"plain", "quoted"}

(* The line of an entry, as the console logger writes it. *)

\* Mutant: quotes are not escaped.
KeepsQuote(c) ==
    CASE c = "bslash" -> <<"bslash", "bslash">>
      [] c = "newline" -> <<"bslash", "n">>
      [] c = "ctrl" -> <<"bslash", "x", "0", "1">>
      [] OTHER -> <<c>>

Escaped(c) ==
    CASE c \in {"quote", "bslash"} -> <<"bslash", c>>
      [] c = "newline" -> <<"bslash", "n">>
      [] c = "ctrl" -> <<"bslash", "x", "0", "1">>
      [] OTHER -> <<c>>

\* The labels of the console.
Label(level) ==
    [trace |-> "TRC", debug |-> "DBG", info |-> "INF", warn |-> "WRN", error |-> "ERR",
     fatal |-> "FTL", panic |-> "PNC", nolevel |-> "---"][level]

HasUnsafe(text) ==
    \E i \in DOMAIN text : text[i] \in {"quote", "bslash", "newline", "ctrl"}

NeedsQuote(text) == HasUnsafe(text) \/ \E i \in DOMAIN text : text[i] = "space"

ConsoleText(text) == FlattenSeq([i \in DOMAIN text |-> Escaped(text[i])])

\* A word of the message is escaped, never quoted.
ConsoleWord(token) ==
    IF ~HasUnsafe(token.text) THEN token
    ELSE IF token.is = "plain" THEN Plain(token.key, ConsoleText(token.text))
    ELSE Word(ConsoleText(token.text))

\* The tokens of a field.  A bare value that begins with a quote is one that
\* parseFields takes for quoted.
ConsoleField(f) ==
    IF f.string /\ NeedsQuote(f.text)
    THEN << Quoted(f.key, ConsoleText(f.text) \o <<"quote">>) >>
    ELSE IF f.text # << >> /\ f.text[1] = "quote"
    THEN << Quoted(f.key, Tail(f.text)) >> \o f.rest
    ELSE << Plain(f.key, f.text) >> \o f.rest

ConsoleLine(e) ==
    (IF e.ts = Nil THEN << >> ELSE << Time(e.ts) >>)
    \o << Word(<< Label(e.lvl) >>) >>
    \o [i \in DOMAIN e.msg |-> ConsoleWord(e.msg[i])]
    \o FlattenSeq([i \in DOMAIN e.fields |-> ConsoleField(e.fields[i])])

Lines == [from: {Nil}, tokens: Foreign] \cup
         {[from |-> e, tokens |-> ConsoleLine(e)] : e \in Entries}

-----------------------------------------------------------------------------
(* Reading a line. *)

\* more says that something follows the closing quote.
Bad == [ok |-> FALSE, more |-> FALSE, text |-> << >>]

Then(symbol, rest) == IF rest.ok THEN [rest EXCEPT !.text = <<symbol>> \o @] ELSE Bad

Byte(hi, lo) == IF hi = "0" /\ lo = "1" THEN "ctrl" ELSE "other"

Hex == {"0", "1"}

\* One step of parseQuotedValue, at place i of body; from is what it reads
\* further on.  An escape that means nothing stands for its character.
ReadAt(body, from, i) ==
    LET n == Len(body)
    IN  CASE i > n -> Bad
          [] i <= n /\ body[i] = "quote" -> [ok |-> TRUE, more |-> i < n, text |-> << >>]
          [] i <= n /\ body[i] \notin {"quote", "bslash"} -> Then(body[i], from[i + 1])
          [] i = n /\ body[i] = "bslash" -> Bad
          [] i < n /\ body[i] = "bslash" ->
                CASE body[i + 1] = "n" -> Then("newline", from[i + 2])
                  [] body[i + 1] = "x" ->
                        IF i + 3 <= n /\ body[i + 2] \in Hex /\ body[i + 3] \in Hex
                        THEN Then(Byte(body[i + 2], body[i + 3]), from[i + 4])
                        ELSE Bad
                  [] OTHER -> Then(body[i + 1], from[i + 2])

QuotedValue(body) ==
    LET from[i \in 1 .. Len(body) + 4] == ReadAt(body, from, i)
    IN  from[1]

Natural(text) == IF text \in DOMAIN Reads THEN Reads[text] ELSE "string"

\* parseBool, parseInt, parseFloat, isNull; an integer is a float as well.
ParsesAs(kind, text) ==
    Natural(text) = kind \/ (kind = "float" /\ Natural(text) = "int")

Value(kind, text) == [kind |-> kind, text |-> text]

\* parseValue: the kind of a key is kept while its values parse as that kind.
\* A quoted value makes it a string, and so it stays.
KindOf(tracked, token, text) ==
    IF token.is = "quoted" THEN "string"
    ELSE IF token.key \in DOMAIN tracked
            /\ (tracked[token.key] = "string" \/ ParsesAs(tracked[token.key], text))
         THEN tracked[token.key]
    ELSE Natural(text)

\* There is a value to be stored.
HasValue(token) ==
    HasKey(token) /\ (token.is = "quoted" => QuotedValue(token.text).ok)

\* Behind the value stands text that is no field.
TextFollows(token) == token.is = "quoted" /\ QuotedValue(token.text).more

ValueText(token) ==
    IF token.is = "quoted" THEN QuotedValue(token.text).text ELSE token.text

\* One round of parseFields, with the next one as far as it fails on the text
\* that follows: the value and its kind have been stored by then.  After an error
\* nothing more is read.
ParseField(state, token) ==
    LET kind == KindOf(state.kinds, token, ValueText(token))
    IN  IF ~state.ok THEN state
        ELSE IF ~HasValue(token) THEN [state EXCEPT !.ok = FALSE]
        ELSE [ok     |-> ~TextFollows(token),
              kinds  |-> With(state.kinds, token.key, kind),
              fields |-> Append(state.fields, [key   |-> token.key,
                                               value |-> Value(kind, ValueText(token))])]

ParseFields(tokens, tracked) ==
    LET state[i \in 0 .. Len(tokens)] ==
            IF i = 0 THEN [ok |-> TRUE, kinds |-> tracked, fields |-> << >>]
            ELSE ParseField(state[i - 1], tokens[i])
    IN  state[Len(tokens)]

\* splitMessageFields: fields begin at the first "key=", but never at once.
TailStart(tokens) ==
    LET starts == {i \in 2 .. Len(tokens) : HasKey(tokens[i])}
    IN  IF starts = {} THEN Len(tokens) + 1 ELSE Min(starts)

\* normalizeLevel
Spellings ==
    [trace |-> {"TRC", "TRACE"}, debug |-> {"DBG", "DEBUG"}, info |-> {"INF", "INFO"},
     warn |-> {"WRN", "WARN", "WARNING"}, error |-> {"ERR", "ERROR"},
     fatal |-> {"FTL", "FATAL"}, panic |-> {"PNC", "PANIC"},
     nolevel |-> {"---", "NOLEVEL", "NO"}]

LevelNames ==
    [text \in {<< word >> : word \in UNION {Spellings[level] : level \in Levels}} |->
        CHOOSE level \in Levels : text[1] \in Spellings[level]]

\* parseTimestampPrefix: layouts, epochs and date groups are one kind of token.
HasTime(tokens) == tokens # << >> /\ tokens[1].is = "time"

AfterTime(tokens) == IF HasTime(tokens) THEN Tail(tokens) ELSE tokens

\* A level is looked for behind the timestamp, if there is one.
HasLevel(tokens) ==
    /\ AfterTime(tokens) # << >>
    /\ AfterTime(tokens)[1].is = "word"
    /\ AfterTime(tokens)[1].text \in DOMAIN LevelNames

Remaining(tokens) ==
    IF HasLevel(tokens) THEN Tail(AfterTime(tokens)) ELSE AfterTime(tokens)

Message(tokens) == SubSeq(Remaining(tokens), 1, TailStart(Remaining(tokens)) - 1)

FieldTail(tokens) ==
    SubSeq(Remaining(tokens), TailStart(Remaining(tokens)), Len(Remaining(tokens)))

Spelling(token) ==
    IF HasKey(token) THEN <<token.key, token.is>> \o token.text ELSE token.text

Text(tokens) ==
    Value("string", FlattenSeq([i \in DOMAIN tokens |-> Spelling(tokens[i])]))

\* What the map of parseConsoleLine has before the fields.
Prefix(tokens) ==
    LET present == {key \in {"ts", "lvl", "msg"} :
                        \/ key = "ts" /\ HasTime(tokens)
                        \/ key = "lvl" /\ HasLevel(tokens)
                        \/ key = "msg" /\ Message(tokens) # << >>}
    IN  [key \in present |->
            CASE key = "ts" -> Value("time", tokens[1].text)
              [] key = "lvl" -> Value("string", << LevelNames[AfterTime(tokens)[1].text] >>)
              [] key = "msg" -> Text(Message(tokens))]

\* A field replaces what has its key.
Doc(tokens, fields) ==
    LET with(key) == {i \in DOMAIN fields : fields[i].key = key}
    IN  [key \in DOMAIN Prefix(tokens) \cup {fields[i].key : i \in DOMAIN fields} |->
            IF with(key) = {} THEN Prefix(tokens)[key] ELSE fields[Max(with(key))].value]

-----------------------------------------------------------------------------
(* Writing it. *)

Pair(key, value) == [key |-> key, value |-> value]

\* writeOrderedJSON: the three leading keys as the map has them, then every
\* field, also those whose key has been written already.
OrderedJSON(doc, fields) ==
    FlattenSeq([i \in 1 .. 3 |->
        LET key == <<"ts", "lvl", "msg">>[i]
        IN  IF key \in DOMAIN doc THEN << Pair(key, doc[key]) >> ELSE << >>]) \o fields

\* json.Marshal has no form for a float that is not a finite number.
Encodes(json) ==
    \A i \in DOMAIN json :
        ~(json[i].value.kind = "float" /\ json[i].value.text \in Infinite)

\* The selectors, as far as equality with a value goes.
Matches(filter, doc) ==
    filter.on => filter.key \in DOMAIN doc /\ doc[filter.key].text = filter.text

Stdin  == <<"", "stdin">>
Stdout == <<"", "stdout">>

Streams == IF cmd.stdin THEN << Stdin >> ELSE cmd.files

\* With -outdir, files of one base name share an output.
OutputOf(path) ==
    IF ~cmd.write THEN Stdout
    ELSE IF cmd.outdir THEN <<"outdir", path[2]>> ELSE path

Output == OutputOf(Streams[at])

-----------------------------------------------------------------------------
(* The run. *)

Init ==
    /\ cmd \in Commands
    /\ phase = "start"
    /\ at = 1
    /\ kinds = << >>
    /\ outputs = [o \in {Stdout} |-> << >>]
    /\ inputs = [i \in 1 .. Len(Streams) |-> << >>]

BadFlags ==
    \/ cmd.stdin /\ (cmd.files # << >> \/ cmd.write)
    \/ ~cmd.stdin /\ cmd.files = << >>
    \/ cmd.outdir /\ ~cmd.write

Start ==
    /\ phase = "start"
    /\ ~BadFlags
    /\ phase' = "open"
    /\ UNCHANGED <<cmd, at, kinds, outputs, inputs>>

\* Bad flags, a directory that cannot be made, an invalid selector.
Refuse ==
    /\ phase = "start"
    /\ BadFlags \/ cmd.outdir \/ cmd.filter.on
    /\ phase' = "failed"
    /\ UNCHANGED <<cmd, at, kinds, outputs, inputs>>

\* os.Create empties what is there.
Created == IF cmd.write THEN With(outputs, Output, << >>) ELSE outputs

\* Mutant: one tracker for all streams.
OpenWithKinds ==
    /\ phase = "open"
    /\ at <= Len(Streams)
    /\ phase' = "read"
    /\ outputs' = Created
    /\ UNCHANGED <<cmd, at, kinds, inputs>>

\* The output first, then the input; standard input is open.
Open ==
    /\ phase = "open"
    /\ at <= Len(Streams)
    /\ phase' = "read"
    /\ outputs' = Created
    /\ kinds' = << >>
    /\ UNCHANGED <<cmd, at, inputs>>

OpenFails ==
    /\ phase = "open"
    /\ at <= Len(Streams)
    /\ ~cmd.stdin
    /\ phase' = "failed"
    /\ \/ outputs' = Created
       \/ cmd.write /\ UNCHANGED outputs
    /\ UNCHANGED <<cmd, at, kinds, inputs>>

LinesRead ==
    FoldLeft(LAMBDA sum, lines : sum + Len(lines), 0, inputs)

\* One line: nothing is printed of a blank, malformed or filtered one.  What
\* the fields of a malformed line have told of their kinds stays.  A line that
\* cannot be encoded ends the run, and so does any that cannot be written.
ReadLine(line) ==
    LET parsed == ParseFields(FieldTail(line.tokens), kinds)
        doc    == Doc(line.tokens, parsed.fields)
        json   == OrderedJSON(doc, parsed.fields)
        print  == line.tokens # << >> /\ parsed.ok /\ Matches(cmd.filter, doc)
    IN  /\ phase = "read"
        /\ LinesRead < MaxLines
        /\ inputs' = [inputs EXCEPT ![at] = Append(@, line)]
        /\ kinds' = parsed.kinds
        /\ \/ /\ print => Encodes(json)
              /\ outputs' = IF print THEN [outputs EXCEPT ![Output] = Append(@, json)]
                            ELSE outputs
              /\ UNCHANGED phase
           \/ /\ print
              /\ phase' = "failed"
              /\ UNCHANGED outputs
        /\ UNCHANGED <<cmd, at>>

EndStream ==
    /\ phase = "read"
    /\ phase' = "open"
    /\ at' = at + 1
    /\ UNCHANGED <<cmd, kinds, outputs, inputs>>

\* A line longer than the scanner's buffer, an error of the input, or an
\* output that cannot be closed.
EndFails ==
    /\ phase = "read"
    /\ phase' = "failed"
    /\ UNCHANGED <<cmd, at, kinds, outputs, inputs>>

Finish ==
    /\ phase = "open"
    /\ at > Len(Streams)
    /\ phase' = "done"
    /\ UNCHANGED <<cmd, at, kinds, outputs, inputs>>

Next ==
    \/ Start \/ Refuse
    \/ Open \/ OpenFails
    \/ \E line \in Lines : ReadLine(line)
    \/ EndStream \/ EndFails
    \/ Finish

Spec == Init /\ [][Next]_vars

-----------------------------------------------------------------------------
(* What the output should be, from the lines alone. *)

WellFormed(tokens) ==
    \A i \in DOMAIN tokens : HasValue(tokens[i]) /\ ~TextFollows(tokens[i])

\* The fields of a tail that are read: those before the first malformed one, and
\* that one itself if what is wrong stands behind its value.
ReadPart(tokens) ==
    LET bad  == {i \in DOMAIN tokens : ~HasValue(tokens[i])}
        torn == {i \in DOMAIN tokens : TextFollows(tokens[i])}
    IN  SubSeq(tokens, 1, Min({Len(tokens)} \cup torn \cup {i - 1 : i \in bad}))

Seen(token) == IF token.is = "quoted" THEN "string" ELSE Natural(token.text)

\* The kind of the last of the values a key has had in a stream: a string once
\* one of them was; an integer is a float if the last other one was.
KindAmong(values) ==
    LET others == {i \in DOMAIN values : Seen(values[i]) # "int"}
    IN  IF \E i \in DOMAIN values : Seen(values[i]) = "string" THEN "string"
        ELSE IF others # {} /\ Seen(values[Max(others)]) = "float" THEN "float"
        ELSE Seen(Last(values))

FieldsRead(lines) ==
    FlattenSeq([n \in DOMAIN lines |-> ReadPart(FieldTail(lines[n].tokens))])

\* The tokens that give key a value.
ValuesOf(key, tokens) ==
    FlattenSeq([i \in DOMAIN tokens |->
        IF tokens[i].key = key THEN << tokens[i] >> ELSE << >>])

ExpectedFields(lines) ==
    LET before == FieldsRead(Front(lines))
        tail   == ReadPart(FieldTail(Last(lines).tokens))
    IN  [i \in DOMAIN tail |->
            LET values == ValuesOf(tail[i].key, before \o SubSeq(tail, 1, i))
            IN  Pair(tail[i].key, Value(KindAmong(values), ValueText(tail[i])))]

\* The objects that the last of some lines becomes: one or none.
ExpectedOf(lines) ==
    LET tokens == Last(lines).tokens
        fields == ExpectedFields(lines)
        doc    == Doc(tokens, fields)
        json   == OrderedJSON(doc, fields)
    IN  IF /\ tokens # << >>
           /\ WellFormed(FieldTail(tokens))
           /\ Matches(cmd.filter, doc)
           /\ Encodes(json)
        THEN << json >> ELSE << >>

Expected(lines) ==
    FlattenSeq([n \in DOMAIN lines |-> ExpectedOf(SubSeq(lines, 1, n))])

\* What an output should hold once the first last streams have been opened.
Wanted(output, lines, last) ==
    LET writers == {i \in 1 .. last : OutputOf(Streams[i]) = output}
    IN  IF ~cmd.write THEN FlattenSeq([i \in 1 .. last |-> Expected(lines[i])])
        ELSE IF writers = {} THEN << >> ELSE Expected(lines[Max(writers)])

WithoutLast == [i \in DOMAIN inputs |->
                   IF i = at /\ inputs[i] # << >> THEN Front(inputs[i]) ELSE inputs[i]]

\* What a pslog logger printed can be told from its line: no key of its own, no
\* value torn at a blank or taken for quoted, a message that needs no escapes
\* (they are not undone) and in which no field begins.
Unambiguous(e) ==
    /\ \A i \in DOMAIN e.fields :
          LET f == e.fields[i]
          IN  /\ f.key \notin {"ts", "lvl", "msg"}
              /\ f.rest = << >>
              /\ ~f.string /\ f.text # << >> => f.text[1] # "quote"
    /\ e.msg = << >> => e.fields = << >>
    /\ \A i \in DOMAIN e.msg : ~HasUnsafe(e.msg[i].text)
    /\ \A i \in 2 .. Len(e.msg) : ~HasKey(e.msg[i])

\* json has the keys and texts of e, in their order, and its quoted strings.
Carries(json, e) ==
    LET head == (IF e.ts = Nil THEN << >> ELSE << <<"ts", << e.ts >> >> >>)
                \o << <<"lvl", << e.lvl >> >> >>
                \o (IF e.msg = << >> THEN << >> ELSE << <<"msg", Text(e.msg).text>> >>)
        body == [i \in DOMAIN e.fields |-> <<e.fields[i].key, e.fields[i].text>>]
    IN  /\ [i \in DOMAIN json |-> <<json[i].key, json[i].value.text>>] = head \o body
        /\ \A i \in DOMAIN e.fields :
              e.fields[i].string /\ NeedsQuote(e.fields[i].text)
                  => json[Len(head) + i].value.kind = "string"

-----------------------------------------------------------------------------
(* Properties. *)

\* Every output is the conversion of the lines of its streams, and of them
\* alone: typed by the values the stream itself has shown so far, malformed
\* lines included, and emptied by the last file of its name.  A run that fails
\* loses at most the line it failed at (processReader, typeTracker).
OutputFollowsInput ==
    LET last == Min({at, Len(Streams)})
    IN  \A o \in DOMAIN outputs :
          \/ outputs[o] = Wanted(o, inputs, IF phase \in {"read", "failed"} THEN last ELSE at - 1)
          \/ phase = "failed" /\ outputs[o] = Wanted(o, WithoutLast, last)
          \/ phase = "failed" /\ at <= Len(Streams) /\ inputs[at] = << >>
             /\ outputs[o] = Wanted(o, inputs, at - 1)

\* An entry printed by a pslog console logger comes back with its level, its
\* message and all its fields, in their order, its strings unescaped as they
\* were; it is never taken for malformed (appendConsoleEscapedContentTo against
\* parseQuotedValue).  Unambiguous names what the format cannot tell apart, and
\* what is printed bare is typed by what it looks like.
EntryComesBack ==
    [][\A i \in DOMAIN inputs :
          inputs'[i] # inputs[i] /\ Last(inputs'[i]).from # Nil
          /\ Unambiguous(Last(inputs'[i]).from)
          => IF outputs' = outputs THEN cmd.filter.on \/ phase' = "failed"
             ELSE Carries(Last(outputs'[Output]), Last(inputs'[i]).from)]_vars

\* A line that becomes no object is skipped, and the next one is read: "Invalid
\* lines and parse errors are warned to stderr and skipped"
\* (docs/subsystems/pslogconsole2json-cli.md).  An unquoted NaN or Inf reads as a
\* float, which writeOrderedJSON cannot encode, and processReader gives up.
InvalidLinesSkipped ==
    [][\A i \in DOMAIN inputs :
          inputs'[i] # inputs[i] /\ ExpectedOf(inputs'[i]) = << >> => phase' = "read"]_vars

=============================================================================
