------------------------------ MODULE LogPath ------------------------------
(***************************************************************************)
(* The path of a log entry from log() to the writer (writer.go and the log *)
(* methods of the four variants): a lineWriter is taken from a sync.Pool,  *)
(* the line is built in it, written with one Write and the lineWriter is   *)
(* given back.                                                             *)
(*                                                                         *)
(* A line is a sequence of pieces, known by the entry they belong to, the  *)
(* place they take in the line and the pass that wrote them: the runtime   *)
(* fields are written by a fast pass and, if a key is not a string, taken  *)
(* back and written again by a slow one.  A value or a writer that itself  *)
(* logs behaves as another goroutine that runs while the first one waits.  *)
(***************************************************************************)
EXTENDS Integers, Sequences

CONSTANTS
    Goroutines,
    Loggers,
    Buffers,       \* lineWriters that may exist at a time
    Entries,       \* entries: [sizes, mark, bad], see below
    MaxEntries,    \* bound of the number of entries
    DefaultCap,    \* lineWriterDefaultCap
    FlushTrigger,  \* lineWriterFlushTrigger
    MaxCap,        \* lineWriterMaxCap
    Nil

(***************************************************************************)
(* sizes: the pieces' sizes in bytes; mark: how many pieces precede the    *)
(* runtime fields; bad: {}, or the place before which the fast pass meets  *)
(* a key that is no string.                                                *)
(***************************************************************************)
ASSUME LogPathConstants ==
    /\ Nil \notin Goroutines \cup Loggers \cup Buffers
    /\ MaxEntries \in Nat
    /\ DefaultCap \in Nat /\ FlushTrigger \in Nat /\ MaxCap \in Nat
    /\ DefaultCap <= MaxCap
    /\ \A e \in Entries :
          /\ e.sizes \in Seq(Nat)
          /\ e.mark \in 0 .. Len(e.sizes)
          /\ e.bad \subseteq e.mark .. Len(e.sizes)

VARIABLES
    pool,     \* lineWriters in the pool
    buf,      \* their contents: sequences of pieces
    cap,      \* the capacities of their buffers
    auto,     \* their autoFlush flags
    lastLen,  \* lastLen
    dst,      \* the writer each sends to, named by its logger
    hint,     \* lineHint of each logger
    pc, lw,   \* what each goroutine is doing, and with which lineWriter
    logger,   \* the logger it uses
    entry,    \* the entry it logs
    number,   \* history: the number of that entry
    at, pass, \* how many pieces it has written, and which pass it is in
    sent,     \* history: what Write was given for that entry
    logged,   \* history: the lengths of the lines of each logger
    entries   \* entries begun so far

vars == <<pool, buf, cap, auto, lastLen, dst, hint, pc, lw, logger, entry,
          number, at, pass, sent, logged, entries>>

Piece(g, i, p) ==
    [by |-> g, number |-> number[g], at |-> i, pass |-> p,
     size |-> IF i \in DOMAIN entry[g].sizes THEN entry[g].sizes[i] ELSE 1]

\* The pass that should have written piece i: the runtime fields and what
\* follows them are of the last pass.
PassOf(g, i) == IF i <= entry[g].mark THEN 1 ELSE pass[g]

\* The first n pieces of the line of g; the last one is the newline.
Prefix(g, n) == [i \in 1 .. n |-> Piece(g, i, PassOf(g, i))]

LineLen(g) == Len(entry[g].sizes) + 1

Size(s) ==
    LET first[n \in 0 .. Len(s)] == IF n = 0 THEN 0 ELSE s[n].size + first[n - 1]
    IN  first[Len(s)]

NoEntry == [sizes |-> << >>, mark |-> 0, bad |-> {}]

Held == {lw[g] : g \in Goroutines} \ {Nil}

Init ==
    /\ pool = {}
    /\ buf = [b \in Buffers |-> << >>]
    /\ cap = [b \in Buffers |-> DefaultCap]
    /\ auto = [b \in Buffers |-> FALSE]
    /\ lastLen = [b \in Buffers |-> 0]
    /\ dst = [b \in Buffers |-> Nil]
    /\ hint = [l \in Loggers |-> 0]
    /\ pc = [g \in Goroutines |-> "idle"]
    /\ lw = [g \in Goroutines |-> Nil]
    /\ logger = [g \in Goroutines |-> Nil]
    /\ entry = [g \in Goroutines |-> NoEntry]
    /\ number = [g \in Goroutines |-> 0]
    /\ at = [g \in Goroutines |-> 0]
    /\ pass = [g \in Goroutines |-> 1]
    /\ sent = [g \in Goroutines |-> << >>]
    /\ logged = [l \in Loggers |-> {}]
    /\ entries = 0

-----------------------------------------------------------------------------
(* Operations of a lineWriter. *)

\* reserve: the capacity after making room for n more bytes.
Grown(c, len, n) ==
    LET need == len + n
        double == IF 2 * c + n > need THEN 2 * c + n ELSE need
    IN  IF need <= c THEN c ELSE IF double > MaxCap THEN need ELSE double

\* append without reserve: the runtime grows the slice as it likes.
GrownByRuntime(c, len, n) == IF len + n <= c THEN c ELSE 2 * (len + n)

\* Mutant: the request is not clamped.
PreallocatedFreely(c, n) == Grown(c, 0, n)

\* preallocate, in an empty buffer.
Preallocated(c, n) == Grown(c, 0, IF n > MaxCap THEN MaxCap ELSE n)

\* releaseLineWriter replaces a buffer that has grown too big.
ReleasedCap(c) == IF c > MaxCap THEN DefaultCap ELSE c

\* maybeFlush, once the buffer holds s with capacity c.
FlushesEarly(b, s, c) == auto[b] /\ c > FlushTrigger /\ Size(s) >= FlushTrigger

\* Mutant: lastLen is taken after the buffer was emptied.
FlushLate(g, s) ==
    /\ sent' = [sent EXCEPT ![g] = Append(@, [to |-> dst[lw[g]], line |-> s])]
    /\ buf' = [buf EXCEPT ![lw[g]] = << >>]
    /\ lastLen' = [lastLen EXCEPT ![lw[g]] = Len(buf'[lw[g]])]
    /\ logged' = [logged EXCEPT ![logger[g]] = @ \cup {Size(s)}]

\* flush of a buffer that holds s.
Flush(g, s) ==
    /\ sent' = [sent EXCEPT ![g] = Append(@, [to |-> dst[lw[g]], line |-> s])]
    /\ buf' = [buf EXCEPT ![lw[g]] = << >>]
    /\ lastLen' = [lastLen EXCEPT ![lw[g]] = Size(s)]
    /\ logged' = [logged EXCEPT ![logger[g]] = @ \cup {Size(s)}]

\* A write method adds piece p of g.
Put(g, p) ==
    LET b == lw[g]
        s == Append(buf[b], p)
    IN  \E c \in {Grown(cap[b], Size(buf[b]), p.size),
                  GrownByRuntime(cap[b], Size(buf[b]), p.size)} :
            /\ cap' = [cap EXCEPT ![b] = c]
            /\ IF FlushesEarly(b, s, c)
               THEN Flush(g, s)
               ELSE /\ buf' = [buf EXCEPT ![b] = s]
                    /\ UNCHANGED <<lastLen, sent, logged>>

-----------------------------------------------------------------------------
(* log, for an entry that is not filtered. *)

Begin(g) ==
    /\ pc[g] = "idle"
    /\ entries < MaxEntries
    /\ \E l \in Loggers, e \in Entries :
          /\ logger' = [logger EXCEPT ![g] = l]
          /\ entry' = [entry EXCEPT ![g] = e]
    /\ entries' = entries + 1
    /\ number' = [number EXCEPT ![g] = entries']
    /\ at' = [at EXCEPT ![g] = 0]
    /\ pass' = [pass EXCEPT ![g] = 1]
    /\ sent' = [sent EXCEPT ![g] = << >>]
    /\ pc' = [pc EXCEPT ![g] = "acquire"]
    /\ UNCHANGED <<pool, buf, cap, auto, lastLen, dst, hint, lw, logged>>

\* The fields acquireLineWriter sets, and autoFlush that log then turns off.
Reset(g, b) ==
    /\ dst' = [dst EXCEPT ![b] = logger[g]]
    /\ buf' = [buf EXCEPT ![b] = << >>]
    /\ lastLen' = [lastLen EXCEPT ![b] = 0]
    /\ auto' = [auto EXCEPT ![b] = FALSE]

\* Get: what the pool holds, or a new lineWriter (also when it holds some).
Taken(b) ==
    \/ /\ b \in pool
       /\ cap' = cap
    \/ /\ b \notin pool \cup Held
       /\ cap' = [cap EXCEPT ![b] = DefaultCap]

Acquire(g) ==
    /\ pc[g] = "acquire"
    /\ \E b \in Buffers :
          /\ Taken(b)
          /\ pool' = pool \ {b}
          /\ lw' = [lw EXCEPT ![g] = b]
          /\ Reset(g, b)
    /\ pc' = [pc EXCEPT ![g] = "hint"]
    /\ UNCHANGED <<hint, logger, entry, number, at, pass, sent, logged, entries>>

LoadHint(g) ==
    /\ pc[g] = "hint"
    /\ cap' = IF hint[logger[g]] > 0
              THEN [cap EXCEPT ![lw[g]] = Preallocated(@, hint[logger[g]])]
              ELSE cap
    /\ pc' = [pc EXCEPT ![g] = "emit"]
    /\ UNCHANGED <<pool, buf, auto, lastLen, dst, hint, lw, logger, entry,
                   number, at, pass, sent, logged, entries>>

\* The emit function adds the next piece of the line.
Emit(g) ==
    /\ pc[g] = "emit"
    /\ at[g] < Len(entry[g].sizes)
    /\ ~(pass[g] = 1 /\ at[g] \in entry[g].bad)
    /\ Put(g, Piece(g, at[g] + 1, PassOf(g, at[g] + 1)))
    /\ at' = [at EXCEPT ![g] = @ + 1]
    /\ UNCHANGED <<pool, auto, dst, hint, pc, lw, logger, entry, number, pass,
                   entries>>

\* Mutant: the runtime fields of the fast pass stay in the line.
KeepAndGoOn(g) ==
    /\ pc[g] = "emit"
    /\ pass[g] = 1
    /\ at[g] \in entry[g].bad
    /\ at' = [at EXCEPT ![g] = entry[g].mark]
    /\ pass' = [pass EXCEPT ![g] = 2]
    /\ UNCHANGED <<pool, buf, cap, auto, lastLen, dst, hint, pc, lw, logger,
                   entry, number, sent, logged, entries>>

\* The fast pass met a key that is no string: its fields are taken back.
Rollback(g) ==
    /\ pc[g] = "emit"
    /\ pass[g] = 1
    /\ at[g] \in entry[g].bad
    /\ buf' = [buf EXCEPT ![lw[g]] = SubSeq(@, 1, entry[g].mark)]
    /\ at' = [at EXCEPT ![g] = entry[g].mark]
    /\ pass' = [pass EXCEPT ![g] = 2]
    /\ UNCHANGED <<pool, cap, auto, lastLen, dst, hint, pc, lw, logger, entry,
                   number, sent, logged, entries>>

\* A String, Error or MarshalJSON method of a value panics: the entry is
\* abandoned and the lineWriter left to the garbage collector.
ValuePanics(g) ==
    /\ pc[g] = "emit"
    /\ entry[g].mark <= at[g]
    /\ pc' = [pc EXCEPT ![g] = "idle"]
    /\ lw' = [lw EXCEPT ![g] = Nil]
    /\ UNCHANGED <<pool, buf, cap, auto, lastLen, dst, hint, logger, entry,
                   number, at, pass, sent, logged, entries>>

FinishLine(g) ==
    /\ pc[g] = "emit"
    /\ at[g] = Len(entry[g].sizes)
    /\ ~(pass[g] = 1 /\ at[g] \in entry[g].bad)
    /\ Put(g, Piece(g, LineLen(g), PassOf(g, LineLen(g))))
    /\ at' = [at EXCEPT ![g] = @ + 1]
    /\ pc' = [pc EXCEPT ![g] = "commit"]
    /\ UNCHANGED <<pool, auto, dst, hint, lw, logger, entry, number, pass,
                   entries>>

\* Mutant: the lineWriter is given back as soon as it is written, and again later.
CommitAndRelease(g) ==
    /\ pc[g] = "commit"
    /\ Flush(g, buf[lw[g]])
    /\ pool' = pool \cup {lw[g]}
    /\ pc' = [pc EXCEPT ![g] = "record"]
    /\ UNCHANGED <<cap, auto, dst, hint, lw, logger, entry, number, at, pass,
                   entries>>

Commit(g) ==
    /\ pc[g] = "commit"
    /\ IF buf[lw[g]] # << >>
       THEN Flush(g, buf[lw[g]])
       ELSE /\ lastLen' = [lastLen EXCEPT ![lw[g]] = 0]
            /\ UNCHANGED <<buf, sent, logged>>
    /\ pc' = [pc EXCEPT ![g] = "record"]
    /\ UNCHANGED <<pool, cap, auto, dst, hint, lw, logger, entry, number, at,
                   pass, entries>>

\* The JSON variants keep the length of the last line, whatever it was; the
\* console variants are in LineHint.
RecordHint(g) ==
    /\ pc[g] = "record"
    /\ hint' = [hint EXCEPT ![logger[g]] = lastLen[lw[g]]]
    /\ pc' = [pc EXCEPT ![g] = "release"]
    /\ UNCHANGED <<pool, buf, cap, auto, lastLen, dst, lw, logger, entry,
                   number, at, pass, sent, logged, entries>>

Release(g) ==
    LET b == lw[g]
    IN  /\ pc[g] = "release"
        /\ dst' = [dst EXCEPT ![b] = Nil]
        /\ buf' = [buf EXCEPT ![b] = << >>]
        /\ cap' = [cap EXCEPT ![b] = ReleasedCap(@)]
        /\ auto' = [auto EXCEPT ![b] = TRUE]
        /\ lastLen' = [lastLen EXCEPT ![b] = 0]
        /\ pool' = pool \cup {b}
        /\ lw' = [lw EXCEPT ![g] = Nil]
        /\ pc' = [pc EXCEPT ![g] = "idle"]
        /\ UNCHANGED <<hint, logger, entry, number, at, pass, sent, logged,
                       entries>>

\* The garbage collector empties the pool, one lineWriter at a time.
DropPooled ==
    /\ \E b \in pool : pool' = pool \ {b}
    /\ UNCHANGED <<buf, cap, auto, lastLen, dst, hint, pc, lw, logger, entry,
                   number, at, pass, sent, logged, entries>>

Step(g) ==
    \/ Begin(g) \/ Acquire(g) \/ LoadHint(g) \/ Emit(g) \/ Rollback(g)
    \/ ValuePanics(g) \/ FinishLine(g) \/ Commit(g) \/ RecordHint(g)
    \/ Release(g)

Next == DropPooled \/ \E g \in Goroutines : Step(g)

Spec == Init /\ [][Next]_vars

-----------------------------------------------------------------------------
(* Properties. *)

Pcs == {"idle", "acquire", "hint", "emit", "commit", "record", "release"}

Working(g) == pc[g] \in {"hint", "emit", "commit", "record", "release"}

\* Types, but of the sizes; a goroutine has a lineWriter from
\* acquireLineWriter to releaseLineWriter and at no other time.
TypeOK ==
    /\ pool \subseteq Buffers
    /\ auto \in [Buffers -> BOOLEAN]
    /\ dst \in [Buffers -> Loggers \cup {Nil}]
    /\ pc \in [Goroutines -> Pcs]
    /\ lw \in [Goroutines -> Buffers \cup {Nil}]
    /\ logger \in [Goroutines -> Loggers \cup {Nil}]
    /\ entry \in [Goroutines -> Entries \cup {NoEntry}]
    /\ at \in [Goroutines -> Nat]
    /\ pass \in [Goroutines -> {1, 2}]
    /\ entries \in Nat
    /\ \A g \in Goroutines : lw[g] # Nil <=> Working(g)

\* A lineWriter is used by one goroutine, or waits in the pool: never both,
\* never twice (acquireLineWriter, releaseLineWriter, sync.Pool).
BufferHeldOnce ==
    \A g \in Goroutines : Working(g) =>
        /\ lw[g] \notin pool
        /\ \A h \in Goroutines \ {g} : lw[h] # lw[g]

\* What Write was given for the entry of g: one line, once it is committed.
SentWhenDone(g) ==
    sent[g] = IF pc[g] \in {"record", "release"}
                   \/ (pc[g] = "idle" /\ at[g] = LineLen(g))
              THEN << [to |-> logger[g], line |-> Prefix(g, LineLen(g))] >>
              ELSE << >>

\* An entry reaches its logger's writer in one Write that has the whole line
\* and nothing else: no piece of another entry, none the fast pass left behind,
\* nothing before the line is complete; an entry that panics is not written.
WrittenOnceAndWhole == \A g \in Goroutines : SentWhenDone(g)

\* What waits in the pool, and what an emitter starts from, is never larger
\* than lineWriterMaxCap, however long earlier lines of the logger were
\* (docs/subsystems/runtime-primitives.md:34).  A slow pass may start from more.
StartsSmall ==
    /\ \A b \in pool : cap[b] <= MaxCap
    /\ \A g \in Goroutines :
          pc[g] = "emit" /\ at[g] = 0 /\ pass[g] = 1 => cap[lw[g]] <= MaxCap

\* The hint a logger keeps is the length of a line that this logger wrote, not
\* of another user of the same lineWriter and not of a line still unwritten.
HintIsOwnLine ==
    \A g \in Goroutines :
        pc[g] = "release" => hint[logger[g]] \in logged[logger[g]]

=============================================================================
