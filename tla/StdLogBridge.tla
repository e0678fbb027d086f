---------------------------- MODULE StdLogBridge ----------------------------
(***************************************************************************)
(* The io.Writers behind LogLogger and LogLoggerWithLevel: what a write of *)
(* the standard library's logger becomes (loggerWriter, levelPinnedWriter, *)
(* classifyLineLevel).                                                     *)
(*                                                                         *)
(* A line is a sequence of bytes in which a level's name, in either case,  *)
(* is one code: 300 for trace up to 306 for panic, 307 for no, nolevel and *)
(* none, 308 for disabled, disable and off.                                *)
(***************************************************************************)
EXTENDS Integers, Sequences, SequencesExt

Names  == 300 .. 308
ByName == [code \in Names |-> code - 301]

Info == 1

Ing == 105  \* stands for the rest of "warning"

Blank(c) == c \in {9, 13, 32}

\* s without its leading and trailing blanks.
TrimSpace(s) ==
    LET kept == {i \in DOMAIN s : ~Blank(s[i])}
    IN  IF kept = {} THEN << >> ELSE SubSeq(s, Min(kept), Max(kept))

\* strings.TrimLeft of ":- ".
TrimSeparators(s) ==
    LET kept == {i \in DOMAIN s : s[i] \notin {45, 58, 32}}
    IN  IF kept = {} THEN << >> ELSE SubSeq(s, Min(kept), Len(s))

\* ParseLevel: <<level>>, or << >> for what it does not know.
ParseLevel(word) ==
    LET name == TrimSpace(word)
    IN  CASE Len(name) = 1 /\ name[1] \in Names -> << ByName[name[1]] >>
          [] name = << 303, Ing >>              -> << ByName[303] >>
          [] OTHER                              -> << >>

Closing(line) == {i \in DOMAIN line : line[i] = 93}

\* Mutant: whatever stands between brackets is a level.
BracketedAnything(line) ==
    IF line[1] # 91 \/ Closing(line) = {} THEN << >> ELSE << Info >>

\* The level between brackets that a line begins with.
Bracketed(line) ==
    IF line[1] # 91 \/ Closing(line) = {} THEN << >>
    ELSE ParseLevel(SubSeq(line, 2, Min(Closing(line)) - 1))

\* Mutant: what follows the name is cut once more.
TrimTailOnce(line) == TrimSpace(TrimSeparators(SubSeq(line, 3, Len(line))))

\* trimTail of a line that begins with a level's name.
TrimTail(line) == TrimSpace(TrimSeparators(TrimSpace(Tail(line))))

\* classifyLineLevel.
ClassifyLineLevel(line) ==
    CASE Bracketed(line) # << >> ->
            [level |-> Bracketed(line)[1],
             msg |-> TrimSpace(SubSeq(line, Min(Closing(line)) + 1, Len(line)))]
      [] Bracketed(line) = << >> /\ line[1] \in 300 .. 306 ->
            [level |-> ByName[line[1]], msg |-> TrimTail(line)]
      [] OTHER ->
            [level |-> Info, msg |-> line]

\* The lines of a write that hold something; each is logged, at a level of its own
\* or at the one that was pinned: pinned is << >> or <<level>>.
Bridged(lines, pinned) ==
    FlattenSeq([i \in DOMAIN lines |->
        LET line == TrimSpace(lines[i])
        IN  IF line = << >> THEN << >>
            ELSE << [line |-> line,
                     entry |-> IF pinned = << >> THEN ClassifyLineLevel(line)
                               ELSE [level |-> pinned[1], msg |-> line]] >>])

=============================================================================
