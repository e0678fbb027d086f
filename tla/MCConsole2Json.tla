--------------------------- MODULE MCConsole2Json ---------------------------
(* Console2Json with lines that agree and disagree on the kind of a key. *)
EXTENDS Console2Json

String(k, text)        == [key |-> k, text |-> text, rest |-> << >>, string |-> TRUE]
Number(k, text)        == [key |-> k, text |-> << text >>, rest |-> << >>, string |-> FALSE]
Printed(k, text, rest) == [key |-> k, text |-> text, rest |-> rest, string |-> FALSE]

Entry(t, l, msg, fields) == [ts |-> t, lvl |-> l, msg |-> msg, fields |-> fields]

Hello == << Word(<<"hello">>) >>

\* The last six are ambiguous: a message that looks like a field, none at all,
\* a field with the key of the message, a message with quotes, an array with a
\* blank, and a marshalled text.
MCEntries == {
    Entry("t1", "info", Hello, << String("k", <<"a", "space", "quote">>) >>),
    Entry(Nil, "error", << Word(<<"ERR">>) >>, << Number("k", "5") >>),
    Entry("t1", "nolevel", << Plain("x", <<"5">>), Word(<<"y">>) >>, << Number("k", "1.5") >>),
    Entry(Nil, "info", << >>, << >>),
    Entry(Nil, "info", Hello, << String("k", <<"NaN">>) >>),
    Entry(Nil, "info", Hello, << Number("k", "nil"), String("j", <<"newline", "bslash", "ctrl">>) >>),
    Entry(Nil, "info", << Word(<<"set">>), Plain("k", <<"5">>) >>, << >>),
    Entry(Nil, "info", << >>, << Number("k", "true") >>),
    Entry(Nil, "info", Hello, << Number("msg", "5") >>),
    Entry(Nil, "info", << Word(<<"say">>), Word(<<"quote", "hi", "quote">>) >>, << >>),
    Entry(Nil, "info", Hello, << Printed("k", <<"[a">>, << Word(<<"b]">>) >>) >>),
    Entry(Nil, "info", Hello, << Printed("k", <<"quote", "5", "quote">>, << >>) >>)}

MCForeign == {
    << >>,
    << Word(<<"INF">>), Word(<<"bad">>), Plain("k", <<"v">>), Word(<<"broken">>), Plain("j", <<"5">>) >>,
    << Word(<<"bad">>), Plain("k", <<"1.5">>), Quoted("j", <<"a", "bslash", "n">>) >>,
    << Word(<<"bad">>), Quoted("k", <<"bslash", "x", "0", "a", "quote">>) >>,
    << Word(<<"odd">>), Quoted("k", <<"bslash", "u", "quote">>), Bare >>,
    << Word(<<"odd">>), Plain("j", <<"5">>), Quoted("k", <<"a", "quote", "b">>) >>}

MCReads == << "nil" >> :> "null" @@ << "true" >> :> "bool" @@ << "5" >> :> "int"
           @@ << "1.5" >> :> "float" @@ << "NaN" >> :> "float"

MCInfinite == { << "NaN" >> }

NoFilter == [on |-> FALSE]
IsFive   == [on |-> TRUE, key |-> "k", text |-> << "5" >>]

Command(stdin, files, write, outdir, filter) ==
    [stdin |-> stdin, files |-> files, write |-> write, outdir |-> outdir, filter |-> filter]

Two == << <<"a", "app.log">>, <<"b", "app.log">> >>

MCCommands == {
    Command(TRUE, << >>, FALSE, FALSE, NoFilter),
    Command(FALSE, Two, FALSE, FALSE, NoFilter),
    Command(FALSE, Two, TRUE, FALSE, NoFilter),
    Command(FALSE, Two, TRUE, TRUE, NoFilter),
    Command(FALSE, Two, FALSE, FALSE, IsFive),
    Command(FALSE, Two, FALSE, TRUE, NoFilter),
    Command(FALSE, << >>, FALSE, FALSE, NoFilter),
    Command(TRUE, Two, FALSE, FALSE, NoFilter)}

=============================================================================
