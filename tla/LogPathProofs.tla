--------------------------- MODULE LogPathProofs ---------------------------
(***************************************************************************)
(* Proofs about LogPath, for any goroutines, loggers, lineWriters and      *)
(* entries: a lineWriter has one user, and every entry is written once,    *)
(* whole and alone.  The last section is about LineHint, the hint that     *)
(* goroutines update without a lock, for any goroutines, lengths and       *)
(* constants.                                                              *)
(***************************************************************************)
EXTENDS LogPath, LineHint, InductionLemmas

Pieces == [by : Goroutines, number : Nat, at : Nat, pass : {1, 2}, size : Nat]

Types ==
    /\ pool \subseteq Buffers
    /\ buf \in [Buffers -> Seq(Pieces)]
    /\ auto \in [Buffers -> BOOLEAN]
    /\ dst \in [Buffers -> Loggers \cup {Nil}]
    /\ pc \in [Goroutines -> Pcs]
    /\ lw \in [Goroutines -> Buffers \cup {Nil}]
    /\ logger \in [Goroutines -> Loggers \cup {Nil}]
    /\ entry \in [Goroutines -> Entries \cup {NoEntry}]
    /\ number \in [Goroutines -> Nat]
    /\ at \in [Goroutines -> Nat]
    /\ pass \in [Goroutines -> {1, 2}]
    /\ sent \in [Goroutines -> Seq([to : Loggers \cup {Nil}, line : Seq(Pieces)])]
    /\ entries \in Nat

HasBuffer == \A g \in Goroutines : Working(g) <=> lw[g] # Nil

\* What the lineWriter of a goroutine holds, and where it will go.
Contents(g) ==
    /\ pc[g] \in {"acquire", "hint"} => at[g] = 0 /\ pass[g] = 1
    /\ pc[g] = "emit" => at[g] <= Len(entry[g].sizes)
    /\ pc[g] = "emit" /\ pass[g] = 2 => at[g] >= entry[g].mark
    /\ pc[g] \in {"commit", "record", "release"} => at[g] = LineLen(g)
    /\ pc[g] \in {"hint", "emit", "commit"} =>
          /\ buf[lw[g]] = Prefix(g, at[g])
          /\ auto[lw[g]] = FALSE
          /\ dst[lw[g]] = logger[g]

IInv ==
    /\ Types
    /\ HasBuffer
    /\ BufferHeldOnce
    /\ \A g \in Goroutines : Contents(g)
    /\ WrittenOnceAndWhole

-----------------------------------------------------------------------------
(* Lines. *)

LEMMA EntryTypes ==
    ASSUME Types, NEW g \in Goroutines
    PROVE  /\ entry[g].sizes \in Seq(Nat)
           /\ entry[g].mark \in 0 .. Len(entry[g].sizes)
           /\ entry[g].bad \subseteq entry[g].mark .. Len(entry[g].sizes)
           /\ LineLen(g) \in Nat
<1>1. entry[g] \in Entries \cup {NoEntry}
  BY DEF Types
<1>2. \A e \in Entries \cup {NoEntry} :
          /\ e.sizes \in Seq(Nat)
          /\ e.mark \in 0 .. Len(e.sizes)
          /\ e.bad \subseteq e.mark .. Len(e.sizes)
  <2>1. /\ NoEntry.sizes \in Seq(Nat)
        /\ NoEntry.mark \in 0 .. Len(NoEntry.sizes)
        /\ NoEntry.bad \subseteq NoEntry.mark .. Len(NoEntry.sizes)
    BY DEF NoEntry
  <2> QED
    BY <2>1, LogPathConstants
<1> QED
  BY <1>1, <1>2 DEF LineLen

LEMMA PieceType ==
    ASSUME Types, NEW g \in Goroutines, NEW i \in Nat
    PROVE  Piece(g, i, PassOf(g, i)) \in Pieces
<1>1. entry[g].sizes \in Seq(Nat)
  BY EntryTypes
<1>2. (IF i \in DOMAIN entry[g].sizes THEN entry[g].sizes[i] ELSE 1) \in Nat
  BY <1>1
<1>3. PassOf(g, i) \in {1, 2} /\ number[g] \in Nat
  BY DEF Types, PassOf
<1> QED
  BY <1>2, <1>3 DEF Piece, Pieces

LEMMA PrefixType ==
    ASSUME Types, NEW g \in Goroutines, NEW n \in Nat
    PROVE  /\ Prefix(g, n) \in Seq(Pieces)
           /\ Len(Prefix(g, n)) = n
           /\ Prefix(g, 0) = << >>
<1>1. \A i \in 1 .. n : Piece(g, i, PassOf(g, i)) \in Pieces
  BY PieceType
<1>2. Prefix(g, n) \in [1 .. n -> Pieces]
  BY <1>1 DEF Prefix
<1> QED
  BY <1>2 DEF Prefix

\* The next piece of a line extends what was written of it.
LEMMA PrefixGrows ==
    ASSUME Types, NEW g \in Goroutines, NEW n \in Nat
    PROVE  Append(Prefix(g, n), Piece(g, n + 1, PassOf(g, n + 1)))
             = Prefix(g, n + 1)
<1>1. Prefix(g, n) \in Seq(Pieces) /\ Len(Prefix(g, n)) = n
  BY PrefixType
<1>2. Prefix(g, n + 1) \in Seq(Pieces) /\ Len(Prefix(g, n + 1)) = n + 1
  BY PrefixType
<1>3. \A i \in 1 .. n : Prefix(g, n)[i] = Prefix(g, n + 1)[i]
  BY DEF Prefix
<1>4. Prefix(g, n + 1)[n + 1] = Piece(g, n + 1, PassOf(g, n + 1))
  BY DEF Prefix
<1>5. Piece(g, n + 1, PassOf(g, n + 1)) \in Pieces
  BY PieceType
<1> QED
  BY <1>1, <1>2, <1>3, <1>4, <1>5

\* A line is a matter of its goroutine's entry, number and pass.
LEMMA PrefixFrame ==
    ASSUME NEW g \in Goroutines, NEW n \in Nat,
           entry'[g] = entry[g], number'[g] = number[g], pass'[g] = pass[g]
    PROVE  Prefix(g, n)' = Prefix(g, n)
BY DEF Prefix, Piece, PassOf


-----------------------------------------------------------------------------
(* The invariant. *)

LEMMA InitIInv == Init => IInv
<1> SUFFICES ASSUME Init PROVE IInv
  OBVIOUS
<1>1. Types
  BY LogPathConstants DEF Init, Types, Pcs
<1>2. HasBuffer /\ BufferHeldOnce
  BY DEF Init, HasBuffer, BufferHeldOnce, Working
<1>3. \A g \in Goroutines : Contents(g)
  BY DEF Init, Contents
<1>4. \A g \in Goroutines : LineLen(g) = 1
  <2>1. NoEntry.sizes = << >> /\ Len(<< >>) = 0
    BY DEF NoEntry
  <2> QED
    <3> SUFFICES ASSUME NEW g \in Goroutines PROVE LineLen(g) = 1
      OBVIOUS
    <3>1. entry[g] = NoEntry
      BY DEF Init
    <3> QED
      BY <2>1, <3>1 DEF LineLen
<1>5. WrittenOnceAndWhole
  <2>1. \A g \in Goroutines : pc[g] = "idle" /\ at[g] = 0 /\ sent[g] = << >>
    BY DEF Init
  <2>2. ASSUME NEW g \in Goroutines PROVE SentWhenDone(g)
    <3>1. ~(pc[g] \in {"record", "release"} \/ (pc[g] = "idle" /\ at[g] = LineLen(g)))
      BY <1>4, <2>1
    <3> QED
      BY <2>1, <3>1, Zenon DEF SentWhenDone
  <2> QED
    BY <2>2 DEF WrittenOnceAndWhole
<1> QED
  BY <1>1, <1>2, <1>3, <1>5 DEF IInv

\* A step of g leaves what the invariant says of another goroutine alone if it
\* touches neither that goroutine's state nor its lineWriter.
LEMMA OthersKept ==
    ASSUME IInv, NEW g \in Goroutines, NEW h \in Goroutines, g # h,
           pc'[h] = pc[h], lw'[h] = lw[h], logger'[h] = logger[h],
           entry'[h] = entry[h], number'[h] = number[h], at'[h] = at[h],
           pass'[h] = pass[h], sent'[h] = sent[h],
           Working(h) => /\ buf'[lw[h]] = buf[lw[h]]
                         /\ auto'[lw[h]] = auto[lw[h]]
                         /\ dst'[lw[h]] = dst[lw[h]]
    PROVE  Contents(h)' /\ SentWhenDone(h)'
<1>1. LineLen(h)' = LineLen(h) /\ LineLen(h) \in Nat /\ at[h] \in Nat
  BY EntryTypes DEF LineLen, IInv, Types
<1>2. Prefix(h, at[h])' = Prefix(h, at[h])
      /\ Prefix(h, LineLen(h))' = Prefix(h, LineLen(h))
  BY <1>1 DEF Prefix, Piece, PassOf
<1>3. Contents(h) /\ pc[h] \in Pcs
  BY DEF IInv, Types
<1>4. Contents(h)'
  BY <1>1, <1>2, <1>3 DEF Contents, Working, Pcs
<1>5. SentWhenDone(h)
  BY DEF IInv, WrittenOnceAndWhole
<1> QED
  BY <1>1, <1>2, <1>4, <1>5 DEF SentWhenDone

\* Only Begin and Acquire concern a goroutine without a lineWriter; the others
\* leave the lineWriters of other goroutines alone because none is shared.
LEMMA NotShared ==
    ASSUME IInv, NEW g \in Goroutines, Working(g)
    PROVE  /\ lw[g] \in Buffers \ pool
           /\ \A h \in Goroutines \ {g} : lw[h] # lw[g]
BY DEF IInv, BufferHeldOnce, HasBuffer, Types

\* Adding a piece extends the line and writes nothing: autoFlush is off.
LEMMA PutExtends ==
    ASSUME IInv, NEW g \in Goroutines, pc[g] = "emit",
           Put(g, Piece(g, at[g] + 1, PassOf(g, at[g] + 1)))
    PROVE  /\ buf' = [buf EXCEPT ![lw[g]] = Prefix(g, at[g] + 1)]
           /\ sent' = sent
<1>1. Contents(g) /\ at[g] \in Nat
  BY DEF IInv, Types
<1>2. buf[lw[g]] = Prefix(g, at[g]) /\ auto[lw[g]] = FALSE
  BY <1>1 DEF Contents
<1>3. Append(buf[lw[g]], Piece(g, at[g] + 1, PassOf(g, at[g] + 1)))
        = Prefix(g, at[g] + 1)
  BY <1>1, <1>2, PrefixGrows DEF IInv
<1> QED
  BY <1>2, <1>3 DEF Put, FlushesEarly

LEMMA BeginIInv ==
    ASSUME IInv, NEW g \in Goroutines, Begin(g)
    PROVE  IInv'
<1> USE DEF Begin
<1>1. ~Working(g) /\ lw[g] = Nil
  BY DEF Working, IInv, HasBuffer
<1>2. Types'
  <2>1. PICK l \in Loggers, e \in Entries :
          /\ logger' = [logger EXCEPT ![g] = l]
          /\ entry' = [entry EXCEPT ![g] = e]
    OBVIOUS
  <2>2. entries' \in Nat /\ number' \in [Goroutines -> Nat]
    BY DEF IInv, Types
  <2>3. << >> \in Seq([to : Loggers \cup {Nil}, line : Seq(Pieces)])
    OBVIOUS
  <2>4. sent' \in [Goroutines -> Seq([to : Loggers \cup {Nil}, line : Seq(Pieces)])]
    BY <2>3 DEF IInv, Types
  <2>5. at' \in [Goroutines -> Nat] /\ pass' \in [Goroutines -> {1, 2}]
    BY DEF IInv, Types
  <2> QED
    BY <2>1, <2>2, <2>4, <2>5 DEF IInv, Types, Pcs
<1>3. HasBuffer' /\ BufferHeldOnce'
  BY <1>1 DEF IInv, HasBuffer, BufferHeldOnce, Working, Types
<1>4. Contents(g)' /\ SentWhenDone(g)'
  BY DEF IInv, Contents, SentWhenDone, Types
<1>5. \A h \in Goroutines \ {g} : Contents(h)' /\ SentWhenDone(h)'
  BY OthersKept DEF IInv, Types
<1> QED
  BY <1>2, <1>3, <1>4, <1>5 DEF IInv, WrittenOnceAndWhole

LEMMA AcquireIInv ==
    ASSUME IInv, NEW g \in Goroutines, Acquire(g)
    PROVE  IInv'
<1>1. PICK b \in Buffers :
         /\ Taken(b)
         /\ pool' = pool \ {b}
         /\ lw' = [lw EXCEPT ![g] = b]
         /\ Reset(g, b)
  BY DEF Acquire
<1>2. \A h \in Goroutines \ {g} : Working(h) => lw[h] # b
  BY <1>1 DEF Taken, Held, IInv, HasBuffer, BufferHeldOnce
<1>3. /\ pc[g] = "acquire" /\ pc' = [pc EXCEPT ![g] = "hint"]
      /\ UNCHANGED <<logger, entry, number, at, pass, sent, entries>>
  BY DEF Acquire
<1>4. << >> \in Seq(Pieces)
  OBVIOUS
<1>5. Types'
  BY <1>1, <1>3, <1>4 DEF IInv, Types, Reset, Pcs
<1>6. b # Nil
  BY LogPathConstants
<1>7. HasBuffer' /\ BufferHeldOnce'
  BY <1>1, <1>2, <1>3, <1>6 DEF IInv, HasBuffer, BufferHeldOnce, Working, Types
<1>8. Prefix(g, 0)' = << >>
  BY DEF Prefix
<1>9. Contents(g)' /\ SentWhenDone(g)'
  BY <1>1, <1>3, <1>8 DEF IInv, Contents, SentWhenDone, WrittenOnceAndWhole,
     Types, Reset
<1>10. ASSUME NEW h \in Goroutines \ {g} PROVE Contents(h)' /\ SentWhenDone(h)'
  <2>1. Working(h) => /\ buf'[lw[h]] = buf[lw[h]]
                      /\ auto'[lw[h]] = auto[lw[h]]
                      /\ dst'[lw[h]] = dst[lw[h]]
    <3>1. Working(h) => lw[h] \in Buffers /\ lw[h] # b
      BY <1>2 DEF IInv, Types, HasBuffer
    <3> QED
      BY <1>1, <3>1 DEF IInv, Types, Reset
  <2> QED
    BY <1>1, <1>3, <2>1, OthersKept DEF IInv, Types
<1> QED
  BY <1>5, <1>7, <1>9, <1>10 DEF IInv, WrittenOnceAndWhole

\* LoadHint and RecordHint change no more than a capacity or a hint.
LEMMA HintIInv ==
    ASSUME IInv, NEW g \in Goroutines, LoadHint(g) \/ RecordHint(g)
    PROVE  IInv'
<1>1. /\ UNCHANGED <<pool, buf, auto, dst, lw, logger, entry, number, at, pass,
                     sent, entries>>
      /\ \/ pc[g] = "hint" /\ pc' = [pc EXCEPT ![g] = "emit"]
         \/ pc[g] = "record" /\ pc' = [pc EXCEPT ![g] = "release"]
  BY DEF LoadHint, RecordHint
<1>2. Types'
  BY <1>1 DEF IInv, Types, Pcs
<1>3. HasBuffer' /\ BufferHeldOnce'
  BY <1>1 DEF IInv, HasBuffer, BufferHeldOnce, Working, Types
<1>4. \A h \in Goroutines, n \in Nat : Prefix(h, n)' = Prefix(h, n)
  BY <1>1, PrefixFrame
<1>5. LineLen(g)' = LineLen(g) /\ LineLen(g) \in Nat
      /\ Len(entry[g].sizes) \in Nat
  BY <1>1, EntryTypes DEF LineLen, IInv
<1>6. Contents(g)' /\ SentWhenDone(g)'
  BY <1>1, <1>4, <1>5 DEF IInv, Contents, SentWhenDone, WrittenOnceAndWhole, Types
<1>7. \A h \in Goroutines \ {g} : Contents(h)' /\ SentWhenDone(h)'
  BY <1>1, OthersKept DEF IInv, Types
<1> QED
  BY <1>2, <1>3, <1>6, <1>7 DEF IInv, WrittenOnceAndWhole

LEMMA EmitIInv ==
    ASSUME IInv, NEW g \in Goroutines, Emit(g) \/ FinishLine(g)
    PROVE  IInv'
<1>1. /\ pc[g] = "emit" /\ at' = [at EXCEPT ![g] = @ + 1]
      /\ Put(g, Piece(g, at[g] + 1, PassOf(g, at[g] + 1)))
      /\ UNCHANGED <<pool, auto, dst, lw, logger, entry, number, pass, entries>>
      /\ \/ /\ at[g] < Len(entry[g].sizes)
            /\ pc' = pc
         \/ /\ at[g] = Len(entry[g].sizes)
            /\ pc' = [pc EXCEPT ![g] = "commit"]
  BY DEF Emit, FinishLine, LineLen
<1>2. Working(g) /\ lw[g] \in Buffers
  BY <1>1, NotShared DEF Working
<1>3. /\ at[g] \in Nat /\ at[g] + 1 \in Nat /\ Len(entry[g].sizes) \in Nat
      /\ Prefix(g, at[g] + 1) \in Seq(Pieces)
  <2>1. at[g] \in Nat /\ at[g] + 1 \in Nat
    BY DEF IInv, Types
  <2>2. entry[g].sizes \in Seq(Nat)
    BY EntryTypes DEF IInv
  <2>3. Prefix(g, at[g] + 1) \in Seq(Pieces)
    BY <2>1, PrefixType DEF IInv
  <2> QED
    BY <2>1, <2>2, <2>3
<1>4. buf' = [buf EXCEPT ![lw[g]] = Prefix(g, at[g] + 1)] /\ sent' = sent
  BY <1>1, PutExtends
<1>5. Types'
  BY <1>1, <1>2, <1>3, <1>4 DEF IInv, Types, Pcs
<1>6. HasBuffer' /\ BufferHeldOnce'
  BY <1>1 DEF IInv, HasBuffer, BufferHeldOnce, Working, Types
<1>8. buf'[lw'[g]] = Prefix(g, at[g])'
  <2>1. at'[g] = at[g] + 1 /\ lw'[g] = lw[g]
    BY <1>1 DEF IInv, Types
  <2> QED
    BY <1>2, <1>4, <1>1, <2>1 DEF IInv, Types, Prefix, Piece, PassOf
<1>9. Contents(g) /\ SentWhenDone(g) /\ entry[g].mark \in Nat
  BY EntryTypes DEF IInv, WrittenOnceAndWhole
<1>10. Contents(g)'
  <2>1. /\ at'[g] = at[g] + 1 /\ entry'[g] = entry[g] /\ pass'[g] = pass[g]
        /\ auto'[lw'[g]] = FALSE /\ dst'[lw'[g]] = logger'[g]
    BY <1>1, <1>9 DEF IInv, Types, Contents
  <2>2. LineLen(g)' = Len(entry[g].sizes) + 1
    BY <2>1 DEF LineLen
  <2>3. \/ /\ pc'[g] = "emit"
           /\ at[g] < Len(entry[g].sizes)
        \/ /\ pc'[g] = "commit"
           /\ at[g] = Len(entry[g].sizes)
    BY <1>1 DEF IInv, Types
  <2>4. pass[g] = 2 => at[g] >= entry[g].mark
    BY <1>1, <1>9 DEF Contents
  <2> QED
    BY <1>3, <1>8, <1>9, <2>1, <2>2, <2>3, <2>4 DEF Contents
<1>11. SentWhenDone(g)'
  BY <1>1, <1>4, <1>9 DEF SentWhenDone, IInv, Types
<1>12. \A h \in Goroutines \ {g} : Contents(h)' /\ SentWhenDone(h)'
  <2>1. ASSUME NEW h \in Goroutines \ {g}
        PROVE  Working(h) => buf'[lw[h]] = buf[lw[h]]
    BY <1>2, <1>4, NotShared DEF IInv, Types, HasBuffer
  <2> QED
    BY <1>1, <1>4, <2>1, OthersKept DEF IInv, Types
<1> QED
  BY <1>5, <1>6, <1>10, <1>11, <1>12 DEF IInv, WrittenOnceAndWhole

LEMMA RollbackIInv ==
    ASSUME IInv, NEW g \in Goroutines, Rollback(g)
    PROVE  IInv'
<1> DEFINE m == entry[g].mark
<1>1. /\ pc[g] = "emit" /\ pass[g] = 1 /\ at[g] \in entry[g].bad
      /\ buf' = [buf EXCEPT ![lw[g]] = SubSeq(@, 1, m)]
      /\ at' = [at EXCEPT ![g] = m]
      /\ pass' = [pass EXCEPT ![g] = 2]
      /\ UNCHANGED <<pool, auto, dst, pc, lw, logger, entry, number, sent, entries>>
  BY DEF Rollback
<1>2. Working(g) /\ lw[g] \in Buffers
  BY <1>1, NotShared DEF Working
<1>3. /\ at[g] \in Nat /\ m \in Nat /\ m <= at[g]
      /\ m <= Len(entry[g].sizes) /\ Len(entry[g].sizes) \in Nat
  <2>1. at[g] \in Nat /\ Types
    BY DEF IInv, Types
  <2>2. /\ entry[g].sizes \in Seq(Nat) /\ m \in 0 .. Len(entry[g].sizes)
        /\ at[g] \in m .. Len(entry[g].sizes)
    BY <1>1, <2>1, EntryTypes
  <2> HIDE DEF m
  <2> QED
    BY <2>1, <2>2
<1>4. Contents(g) /\ SentWhenDone(g)
  BY DEF IInv, WrittenOnceAndWhole
<1>5. SubSeq(buf[lw[g]], 1, m) = Prefix(g, m)
  <2>1. buf[lw[g]] = Prefix(g, at[g])
    BY <1>1, <1>4 DEF Contents
  <2>2. Prefix(g, at[g]) \in Seq(Pieces) /\ Len(Prefix(g, at[g])) = at[g]
    BY <1>3, PrefixType DEF IInv
  <2>3. Prefix(g, m) \in Seq(Pieces) /\ Len(Prefix(g, m)) = m
    BY <1>3, PrefixType DEF IInv
  <2>4. \A i \in 1 .. m : Prefix(g, m)[i] = Prefix(g, at[g])[i]
    BY <1>3 DEF Prefix
  <2> HIDE DEF m
  <2> QED
    BY <1>3, <2>1, <2>2, <2>3, <2>4
<1>6. Prefix(g, m) \in Seq(Pieces)
  BY <1>3, PrefixType DEF IInv
<1>7. Types'
  BY <1>1, <1>2, <1>3, <1>5, <1>6 DEF IInv, Types
<1>8. HasBuffer' /\ BufferHeldOnce'
  BY <1>1 DEF IInv, HasBuffer, BufferHeldOnce, Working, Types
<1>9. at'[g] = m /\ pass'[g] = 2 /\ entry'[g] = entry[g] /\ number'[g] = number[g]
  BY <1>1 DEF IInv, Types
<1>10. Prefix(g, at[g])' = Prefix(g, m)
  <2>1. Prefix(g, at[g])' = [i \in 1 .. m |-> Piece(g, i, PassOf(g, i))']
    BY <1>9 DEF Prefix
  <2>2. \A i \in 1 .. m : Piece(g, i, PassOf(g, i))' = Piece(g, i, PassOf(g, i))
    BY <1>3, <1>9 DEF Piece, PassOf
  <2> QED
    BY <2>1, <2>2 DEF Prefix
<1>11. Contents(g)'
  <2>1. buf'[lw'[g]] = Prefix(g, at[g])'
    BY <1>1, <1>2, <1>5, <1>10 DEF IInv, Types
  <2> QED
    BY <1>1, <1>3, <1>4, <1>9, <2>1 DEF Contents
<1>12. SentWhenDone(g)'
  BY <1>1, <1>4 DEF SentWhenDone
<1>13. \A h \in Goroutines \ {g} : Contents(h)' /\ SentWhenDone(h)'
  <2>1. ASSUME NEW h \in Goroutines \ {g}
        PROVE  Working(h) => buf'[lw[h]] = buf[lw[h]]
    BY <1>1, <1>2, NotShared DEF IInv, Types, HasBuffer
  <2> QED
    BY <1>1, <2>1, OthersKept DEF IInv, Types
<1> QED
  BY <1>7, <1>8, <1>11, <1>12, <1>13 DEF IInv, WrittenOnceAndWhole

LEMMA ValuePanicsIInv ==
    ASSUME IInv, NEW g \in Goroutines, ValuePanics(g)
    PROVE  IInv'
<1>1. /\ pc[g] = "emit" /\ pc' = [pc EXCEPT ![g] = "idle"]
      /\ lw' = [lw EXCEPT ![g] = Nil]
      /\ UNCHANGED <<pool, buf, auto, dst, logger, entry, number, at, pass,
                     sent, entries>>
  BY DEF ValuePanics
<1>2. Types'
  BY <1>1 DEF IInv, Types, Pcs
<1>3. HasBuffer' /\ BufferHeldOnce'
  BY <1>1 DEF IInv, HasBuffer, BufferHeldOnce, Working, Types
<1>4. Contents(g) /\ SentWhenDone(g) /\ at[g] \in Nat
  BY DEF IInv, WrittenOnceAndWhole, Types
<1>5. LineLen(g)' = LineLen(g) /\ LineLen(g) = Len(entry[g].sizes) + 1
      /\ Len(entry[g].sizes) \in Nat
  BY <1>1, EntryTypes DEF LineLen, IInv
<1>6. Contents(g)' /\ SentWhenDone(g)'
  BY <1>1, <1>4, <1>5 DEF IInv, Contents, SentWhenDone, Types
<1>7. \A h \in Goroutines \ {g} : Contents(h)' /\ SentWhenDone(h)'
  BY <1>1, OthersKept DEF IInv, Types
<1> QED
  BY <1>2, <1>3, <1>6, <1>7 DEF IInv, WrittenOnceAndWhole

LEMMA CommitIInv ==
    ASSUME IInv, NEW g \in Goroutines, Commit(g)
    PROVE  IInv'
<1> DEFINE whole == Prefix(g, LineLen(g))
           message == [to |-> logger[g], line |-> whole]
<1>1. /\ pc[g] = "commit" /\ pc' = [pc EXCEPT ![g] = "record"]
      /\ UNCHANGED <<pool, auto, dst, lw, logger, entry, number, at, pass, entries>>
  BY DEF Commit
<1>2. Working(g) /\ lw[g] \in Buffers
  BY <1>1, NotShared DEF Working
<1>3. Contents(g) /\ SentWhenDone(g)
  BY DEF IInv, WrittenOnceAndWhole
<1>4. /\ buf[lw[g]] = whole /\ dst[lw[g]] = logger[g] /\ at[g] = LineLen(g)
      /\ sent[g] = << >>
  BY <1>1, <1>3 DEF Contents, SentWhenDone
<1>5. /\ LineLen(g) \in Nat /\ LineLen(g) > 0
      /\ whole \in Seq(Pieces) /\ Len(whole) = LineLen(g)
  <2>1. entry[g].sizes \in Seq(Nat) /\ LineLen(g) \in Nat
    BY EntryTypes DEF IInv
  <2>2. LineLen(g) > 0
    BY <2>1 DEF LineLen
  <2>3. whole \in Seq(Pieces) /\ Len(whole) = LineLen(g)
    BY <2>1, PrefixType DEF IInv
  <2> QED
    BY <2>1, <2>2, <2>3
<1>6. buf[lw[g]] # << >>
  BY <1>4, <1>5
<1>7. /\ sent' = [sent EXCEPT ![g] = Append(@, [to |-> dst[lw[g]], line |-> buf[lw[g]]])]
      /\ buf' = [buf EXCEPT ![lw[g]] = << >>]
  BY <1>6 DEF Commit, Flush
<1>8. message \in [to : Loggers \cup {Nil}, line : Seq(Pieces)]
  BY <1>5 DEF IInv, Types
<1>9. sent' = [sent EXCEPT ![g] = <<message>>]
  BY <1>4, <1>7 DEF IInv, Types
<1>10. Types'
  <2>1. <<message>> \in Seq([to : Loggers \cup {Nil}, line : Seq(Pieces)])
        /\ << >> \in Seq(Pieces)
    BY <1>8
  <2>2. sent' \in [Goroutines -> Seq([to : Loggers \cup {Nil}, line : Seq(Pieces)])]
    <3> HIDE DEF message
    <3> QED
      BY <1>9, <2>1 DEF IInv, Types
  <2>3. buf' \in [Buffers -> Seq(Pieces)]
    BY <1>2, <1>7, <2>1 DEF IInv, Types
  <2> QED
    BY <1>1, <2>2, <2>3 DEF IInv, Types, Pcs
<1>11. HasBuffer' /\ BufferHeldOnce'
  BY <1>1 DEF IInv, HasBuffer, BufferHeldOnce, Working, Types
<1>12. LineLen(g)' = LineLen(g) /\ Prefix(g, LineLen(g))' = whole
  BY <1>1 DEF LineLen, Prefix, Piece, PassOf
<1>13. pc'[g] = "record" /\ sent'[g] = <<message>> /\ at'[g] = LineLen(g)
       /\ logger'[g] = logger[g]
  BY <1>1, <1>4, <1>9 DEF IInv, Types
<1>14. Contents(g)'
  BY <1>12, <1>13 DEF Contents
<1>15. SentWhenDone(g)'
  BY <1>12, <1>13 DEF SentWhenDone
<1>16. \A h \in Goroutines \ {g} : Contents(h)' /\ SentWhenDone(h)'
  <2>1. ASSUME NEW h \in Goroutines \ {g}
        PROVE  Working(h) => buf'[lw[h]] = buf[lw[h]]
    BY <1>2, <1>7, NotShared DEF IInv, Types, HasBuffer
  <2>2. \A h \in Goroutines \ {g} : sent'[h] = sent[h]
    BY <1>9 DEF IInv, Types
  <2> QED
    BY <1>1, <2>1, <2>2, OthersKept DEF IInv, Types
<1> QED
  BY <1>10, <1>11, <1>14, <1>15, <1>16 DEF IInv, WrittenOnceAndWhole

LEMMA ReleaseIInv ==
    ASSUME IInv, NEW g \in Goroutines, Release(g)
    PROVE  IInv'
<1>1. /\ pc[g] = "release" /\ pc' = [pc EXCEPT ![g] = "idle"]
      /\ dst' = [dst EXCEPT ![lw[g]] = Nil]
      /\ buf' = [buf EXCEPT ![lw[g]] = << >>]
      /\ auto' = [auto EXCEPT ![lw[g]] = TRUE]
      /\ pool' = pool \cup {lw[g]}
      /\ lw' = [lw EXCEPT ![g] = Nil]
      /\ UNCHANGED <<logger, entry, number, at, pass, sent, entries>>
  BY DEF Release
<1>2. Working(g) /\ lw[g] \in Buffers
      /\ \A h \in Goroutines \ {g} : lw[h] # lw[g]
  BY <1>1, NotShared DEF Working
<1>3. << >> \in Seq(Pieces)
  OBVIOUS
<1>4. Types'
  BY <1>1, <1>2, <1>3 DEF IInv, Types, Pcs
<1>5. HasBuffer' /\ BufferHeldOnce'
  BY <1>1, <1>2 DEF IInv, HasBuffer, BufferHeldOnce, Working, Types
<1>6. Contents(g) /\ SentWhenDone(g)
  BY DEF IInv, WrittenOnceAndWhole
<1>7. LineLen(g)' = LineLen(g)
      /\ Prefix(g, LineLen(g))' = Prefix(g, LineLen(g))
  BY <1>1 DEF LineLen, Prefix, Piece, PassOf
<1>8. Contents(g)' /\ SentWhenDone(g)'
  BY <1>1, <1>6, <1>7 DEF IInv, Contents, SentWhenDone, Types
<1>9. \A h \in Goroutines \ {g} : Contents(h)' /\ SentWhenDone(h)'
  <2>1. ASSUME NEW h \in Goroutines \ {g}
        PROVE  Working(h) => /\ buf'[lw[h]] = buf[lw[h]]
                             /\ auto'[lw[h]] = auto[lw[h]]
                             /\ dst'[lw[h]] = dst[lw[h]]
    BY <1>1, <1>2 DEF IInv, Types, HasBuffer
  <2> QED
    BY <1>1, <2>1, OthersKept DEF IInv, Types
<1> QED
  BY <1>4, <1>5, <1>8, <1>9 DEF IInv, WrittenOnceAndWhole

\* The collector and a stuttering step leave every goroutine as it is.
LEMMA QuietIInv ==
    ASSUME IInv, pool' \subseteq pool,
           UNCHANGED <<buf, auto, dst, pc, lw, logger, entry, number, at, pass,
                       sent, entries>>
    PROVE  IInv'
<1>1. Types'
  BY DEF IInv, Types
<1>2. HasBuffer' /\ BufferHeldOnce'
  BY DEF IInv, HasBuffer, BufferHeldOnce, Working
<1>3. \A g \in Goroutines : Contents(g)'
  BY DEF IInv, Contents, LineLen, Prefix, Piece, PassOf
<1>4. WrittenOnceAndWhole'
  BY DEF IInv, WrittenOnceAndWhole, SentWhenDone, LineLen, Prefix, Piece, PassOf
<1> QED
  BY <1>1, <1>2, <1>3, <1>4 DEF IInv

LEMMA StepIInv == IInv /\ [Next]_vars => IInv'
<1> SUFFICES ASSUME IInv, [Next]_vars PROVE IInv'
  OBVIOUS
<1>1. CASE DropPooled
  BY <1>1, QuietIInv DEF DropPooled
<1>2. ASSUME NEW g \in Goroutines, Step(g) PROVE IInv'
  BY <1>2, BeginIInv, AcquireIInv, HintIInv, EmitIInv, RollbackIInv,
     ValuePanicsIInv, CommitIInv, ReleaseIInv DEF Step
<1>3. CASE UNCHANGED vars
  BY <1>3, QuietIInv DEF vars
<1> QED
  BY <1>1, <1>2, <1>3 DEF Next

THEOREM Invariance == Spec => []IInv
<1>1. IInv /\ [Next]_vars => IInv'
  BY StepIInv
<1> QED
  BY <1>1, InitIInv, PTL DEF Spec

\* A lineWriter never has two users, nor one and a place in the pool, whatever
\* the collector, panicking values and nested entries do.
THEOREM Exclusive == Spec => []BufferHeldOnce
<1>1. IInv => BufferHeldOnce
  BY DEF IInv
<1> QED
  BY <1>1, Invariance, PTL

\* Every entry is handed to its writer in one piece, complete and unmixed.
THEOREM WholeLines == Spec => []WrittenOnceAndWhole
<1>1. IInv => WrittenOnceAndWhole
  BY DEF IInv
<1> QED
  BY <1>1, Invariance, PTL

\* Every variable stays in its type; a goroutine has a lineWriter while it
\* works on a line (acquireLineWriter, releaseLineWriter).
THEOREM TypeCorrect == Spec => []TypeOK
<1>1. IInv => TypeOK
  BY DEF IInv, Types, HasBuffer, TypeOK
<1> QED
  BY <1>1, Invariance, PTL

-----------------------------------------------------------------------------
(* The hints. *)

\* Between Commit and RecordHint, lastLen is the length of a line of the logger.
Remembered ==
    \A g \in Goroutines :
        pc[g] = "record" => lastLen[lw[g]] \in logged[logger[g]]

HintTypes ==
    /\ lastLen = [b \in Buffers |-> lastLen[b]]
    /\ hint = [l \in Loggers |-> hint[l]]
    /\ logged = [l \in Loggers |-> logged[l]]
    /\ \A g \in Goroutines : pc[g] # "idle" => logger[g] \in Loggers

HInv == HintTypes /\ Remembered /\ HintIsOwnLine

\* A step of g that writes nothing and leaves the hints alone.
LEMMA QuietHInv ==
    ASSUME IInv, HInv, HintTypes', NEW g \in Goroutines,
           UNCHANGED <<hint, logged>>,
           pc'[g] \notin {"record", "release"},
           \A h \in Goroutines \ {g} :
               /\ pc'[h] = pc[h] /\ lw'[h] = lw[h] /\ logger'[h] = logger[h]
               /\ Working(h) => lastLen'[lw[h]] = lastLen[lw[h]]
    PROVE  HInv'
<1>1. Remembered'
  <2>1. \A h \in Goroutines : (pc[h] = "record" => lastLen[lw[h]] \in logged[logger[h]])'
    BY DEF HInv, Remembered, Working
  <2> QED
    BY <2>1 DEF Remembered
<1>2. HintIsOwnLine'
  BY DEF HInv, HintIsOwnLine
<1> QED
  BY <1>1, <1>2 DEF HInv

LEMMA StepHInv == IInv /\ HInv /\ [Next]_vars => HInv'
<1> SUFFICES ASSUME IInv, HInv, [Next]_vars PROVE HInv'
  OBVIOUS
<1>1. ASSUME UNCHANGED <<pc, lw, logger, lastLen, hint, logged>> PROVE HInv'
  BY <1>1 DEF HInv, HintTypes, Remembered, HintIsOwnLine
<1>2. ASSUME NEW g \in Goroutines, Begin(g) PROVE HInv'
  <2>1. PICK l \in Loggers : logger' = [logger EXCEPT ![g] = l]
    BY <1>2 DEF Begin
  <2>2. /\ pc' = [pc EXCEPT ![g] = "acquire"] /\ UNCHANGED <<lw, lastLen, hint, logged>>
    BY <1>2 DEF Begin
  <2>3. HintTypes'
    BY <2>1, <2>2 DEF HInv, HintTypes, IInv, Types
  <2> QED
    BY <2>1, <2>2, <2>3, QuietHInv DEF IInv, Types
<1>3. ASSUME NEW g \in Goroutines, Acquire(g) PROVE HInv'
  <2>1. PICK b \in Buffers :
          /\ b \in pool \/ b \notin Held
          /\ lw' = [lw EXCEPT ![g] = b] /\ lastLen' = [lastLen EXCEPT ![b] = 0]
    BY <1>3 DEF Acquire, Taken, Reset
  <2>2. /\ pc[g] = "acquire" /\ pc' = [pc EXCEPT ![g] = "hint"]
        /\ UNCHANGED <<logger, hint, logged>>
    BY <1>3 DEF Acquire
  <2>3. HintTypes'
    BY <2>1, <2>2 DEF HInv, HintTypes, IInv, Types
  <2>4. \A h \in Goroutines : Working(h) => lw[h] # b
    BY <2>1, LogPathConstants DEF IInv, BufferHeldOnce, HasBuffer, Held
  <2>5. \A h \in Goroutines \ {g} :
          /\ pc'[h] = pc[h] /\ lw'[h] = lw[h] /\ logger'[h] = logger[h]
          /\ Working(h) => lastLen'[lw[h]] = lastLen[lw[h]]
    BY <2>1, <2>2, <2>4 DEF IInv, Types, HInv, HintTypes, HasBuffer
  <2>6. pc'[g] = "hint"
    BY <2>2 DEF IInv, Types
  <2> QED
    BY <2>2, <2>3, <2>5, <2>6, QuietHInv
<1>4. ASSUME NEW g \in Goroutines, LoadHint(g) PROVE HInv'
  <2>1. /\ pc' = [pc EXCEPT ![g] = "emit"] /\ pc[g] = "hint"
        /\ UNCHANGED <<lw, lastLen, logger, hint, logged>>
    BY <1>4 DEF LoadHint
  <2>2. HintTypes'
    BY <2>1 DEF HInv, HintTypes, IInv, Types
  <2> QED
    BY <2>1, <2>2, QuietHInv DEF IInv, Types
<1>5. ASSUME NEW g \in Goroutines, Emit(g) PROVE HInv'
  <2>1. UNCHANGED <<pc, lw, logger, hint, lastLen, logged>>
    <3>1. Contents(g) /\ pc[g] = "emit"
      BY <1>5 DEF IInv, Emit
    <3> QED
      BY <1>5, <3>1 DEF Contents, Emit, Put, FlushesEarly
  <2> QED
    BY <1>1, <2>1
<1>6. ASSUME NEW g \in Goroutines, FinishLine(g) PROVE HInv'
  <2>1. /\ UNCHANGED <<lw, logger, hint, lastLen, logged>>
        /\ pc[g] = "emit" /\ pc' = [pc EXCEPT ![g] = "commit"]
    <3>1. Contents(g) /\ pc[g] = "emit"
      BY <1>6 DEF IInv, FinishLine
    <3> QED
      BY <1>6, <3>1 DEF Contents, FinishLine, Put, FlushesEarly
  <2>2. HintTypes'
    BY <2>1 DEF HInv, HintTypes, IInv, Types
  <2> QED
    BY <2>1, <2>2, QuietHInv DEF IInv, Types
<1>7. ASSUME NEW g \in Goroutines, Rollback(g) PROVE HInv'
  BY <1>1, <1>7 DEF Rollback
<1>8. ASSUME NEW g \in Goroutines, ValuePanics(g) PROVE HInv'
  <2>1. /\ pc' = [pc EXCEPT ![g] = "idle"] /\ lw' = [lw EXCEPT ![g] = Nil]
        /\ UNCHANGED <<lastLen, logger, hint, logged>>
    BY <1>8 DEF ValuePanics
  <2>2. HintTypes'
    BY <2>1 DEF HInv, HintTypes, IInv, Types
  <2> QED
    BY <2>1, <2>2, QuietHInv DEF IInv, Types
<1>9. ASSUME NEW g \in Goroutines, Commit(g) PROVE HInv'
  <2>1. buf[lw[g]] # << >>
    <3>1. Contents(g) /\ pc[g] = "commit"
      BY <1>9 DEF IInv, Commit
    <3>2. LineLen(g) \in Nat /\ LineLen(g) > 0
      BY EntryTypes DEF IInv, LineLen
    <3>3. Len(Prefix(g, LineLen(g))) = LineLen(g)
      BY <3>2, PrefixType DEF IInv
    <3> QED
      BY <3>1, <3>2, <3>3 DEF Contents
  <2>2. /\ pc[g] = "commit" /\ pc' = [pc EXCEPT ![g] = "record"]
        /\ lastLen' = [lastLen EXCEPT ![lw[g]] = Size(buf[lw[g]])]
        /\ logged' = [logged EXCEPT ![logger[g]] = @ \cup {Size(buf[lw[g]])}]
        /\ UNCHANGED <<lw, logger, hint>>
    BY <1>9, <2>1 DEF Commit, Flush
  <2>3. Working(g) /\ lw[g] \in Buffers /\ logger[g] \in Loggers
        /\ \A h \in Goroutines \ {g} : lw[h] # lw[g]
    BY <2>2, NotShared DEF Working, HInv, HintTypes
  <2>4. HintTypes'
    BY <2>2 DEF HInv, HintTypes, IInv, Types
  <2>5. /\ lastLen'[lw[g]] = Size(buf[lw[g]]) /\ Size(buf[lw[g]]) \in logged'[logger[g]]
        /\ \A b : b \in Buffers /\ b # lw[g] => lastLen'[b] = lastLen[b]
        /\ \A l \in Loggers : logged[l] \subseteq logged'[l]
    BY <2>2, <2>3 DEF HInv, HintTypes
  <2>6. Remembered'
    <3>1. \A h \in Goroutines \ {g} : pc'[h] = "record" =>
             pc[h] = "record" /\ lw[h] \in Buffers /\ lw[h] # lw[g] /\ logger[h] \in Loggers
      BY <2>2, <2>3 DEF IInv, Types, HasBuffer, Working, HInv, HintTypes
    <3> QED
      BY <2>2, <2>5, <3>1 DEF HInv, Remembered, IInv, Types
  <2>7. HintIsOwnLine'
    <3>1. \A h \in Goroutines : pc'[h] = "release" => pc[h] = "release" /\ logger[h] \in Loggers
      BY <2>2 DEF IInv, Types, HInv, HintTypes
    <3> QED
      BY <2>2, <2>5, <3>1 DEF HInv, HintIsOwnLine
  <2> QED
    BY <2>4, <2>6, <2>7 DEF HInv
<1>10. ASSUME NEW g \in Goroutines, RecordHint(g) PROVE HInv'
  <2>1. /\ pc[g] = "record" /\ pc' = [pc EXCEPT ![g] = "release"]
        /\ hint' = [hint EXCEPT ![logger[g]] = lastLen[lw[g]]]
        /\ UNCHANGED <<lw, logger, lastLen, logged>>
    BY <1>10 DEF RecordHint
  <2>2. HintTypes'
    BY <2>1 DEF HInv, HintTypes, IInv, Types
  <2>3. lastLen[lw[g]] \in logged[logger[g]] /\ logger[g] \in Loggers
    BY <2>1 DEF HInv, Remembered, HintTypes
  <2>4. hint'[logger[g]] \in logged[logger[g]]
        /\ \A l \in Loggers : l # logger[g] => hint'[l] = hint[l]
    BY <2>1, <2>3 DEF HInv, HintTypes
  <2>5. Remembered'
    BY <2>1 DEF HInv, Remembered, IInv, Types
  <2>6. HintIsOwnLine'
    <3>1. \A h \in Goroutines : pc'[h] = "release" => h = g \/ pc[h] = "release"
      BY <2>1 DEF IInv, Types
    <3>2. \A h \in Goroutines : pc[h] = "release" => logger[h] \in Loggers
      BY DEF HInv, HintTypes
    <3> QED
      BY <2>1, <2>4, <3>1, <3>2 DEF HInv, HintIsOwnLine
  <2> QED
    BY <2>2, <2>5, <2>6 DEF HInv
<1>11. ASSUME NEW g \in Goroutines, Release(g) PROVE HInv'
  <2>1. /\ pc[g] = "release" /\ pc' = [pc EXCEPT ![g] = "idle"]
        /\ lw' = [lw EXCEPT ![g] = Nil] /\ lastLen' = [lastLen EXCEPT ![lw[g]] = 0]
        /\ UNCHANGED <<logger, hint, logged>>
    BY <1>11 DEF Release
  <2>2. \A h \in Goroutines \ {g} : lw[h] # lw[g]
    BY <2>1, NotShared DEF Working
  <2>3. HintTypes'
    BY <2>1 DEF HInv, HintTypes, IInv, Types
  <2>4. \A h \in Goroutines \ {g} : Working(h) => lw[h] \in Buffers
    BY DEF IInv, Types, HasBuffer
  <2> QED
    BY <2>1, <2>2, <2>3, <2>4, QuietHInv DEF IInv, Types, HInv, HintTypes
<1>12. CASE DropPooled
  BY <1>1, <1>12 DEF DropPooled
<1>13. CASE UNCHANGED vars
  BY <1>1, <1>13 DEF vars
<1> QED
  BY <1>2, <1>3, <1>4, <1>5, <1>6, <1>7, <1>8, <1>9, <1>10, <1>11, <1>12, <1>13
     DEF Next, Step

\* The hint a logger keeps is the length of a line of its own (recordLineHint,
\* lastLen), whoever had the lineWriter before.
THEOREM OwnHints == Spec => []HintIsOwnLine
<1>1. Init => HInv
  BY DEF Init, HInv, HintTypes, Remembered, HintIsOwnLine
<1>2. IInv /\ HInv /\ [Next]_vars => HInv'
  BY StepHInv
<1>3. HInv => HintIsOwnLine
  BY DEF HInv
<1> QED
  BY <1>1, <1>2, <1>3, Invariance, PTL DEF Spec

-----------------------------------------------------------------------------
(* The capacities. *)

LEMMA SizeType ==
    ASSUME NEW s \in Seq(Pieces)
    PROVE  Size(s) \in Nat
<1> DEFINE Def(F) == [i \in 0 .. Len(s) |-> IF i = 0 THEN 0 ELSE s[i].size + F[i - 1]]
<1>1. PICK n \in Nat : n = Len(s)
  OBVIOUS
<1>2. \A i \in 1 .. n : s[i].size \in Nat
  <2>1. \A i \in 1 .. n : s[i] \in Pieces
    BY <1>1
  <2> QED
    BY <2>1 DEF Pieces
<1> DEFINE G == [p \in (1 .. n) \X Nat |-> s[p[1]].size + p[2]]
<1>3. G \in [(1 .. n) \X Nat -> Nat] /\ \A i \in 1 .. n, v \in Nat : G[<<i, v>>] = s[i].size + v
  BY <1>2
<1> HIDE DEF G
<1>4. PICK E \in [0 .. n -> Nat] : Recurs(E, n, 0, G)
  BY <1>3, Recursion
<1>5. E = Def(E)
  <2>1. ASSUME NEW i \in 0 .. n PROVE E[i] = IF i = 0 THEN 0 ELSE s[i].size + E[i - 1]
    <3>1. CASE i = 0
      BY <1>4, <3>1 DEF Recurs
    <3>2. CASE i # 0
      <4>1. i \in 1 .. n /\ i - 1 \in 0 .. n
        BY <3>2
      <4> QED
        BY <1>3, <1>4, <4>1 DEF Recurs
    <3> QED
      BY <3>1, <3>2
  <2> QED
    BY <1>1, <2>1
<1> DEFINE first == CHOOSE F : F = Def(F)
<1>6. first = Def(first)
  BY <1>5
<1>7. Size(s) = first[n]
  BY <1>1 DEF Size
<1> HIDE DEF first
<1>8. \A i \in 0 .. n : first[i] = IF i = 0 THEN 0 ELSE s[i].size + first[i - 1]
  BY <1>1, <1>6
<1> HIDE DEF Def
<1> DEFINE S == {m \in Nat : m <= n => first[m] \in Nat}
<1>9. 0 \in S
  BY <1>8
<1>10. ASSUME NEW m \in Nat, m \in S PROVE m + 1 \in S
  <2> SUFFICES ASSUME m + 1 <= n PROVE first[m + 1] \in Nat
    OBVIOUS
  <2>1. m + 1 \in 0 .. n /\ m + 1 \in 1 .. n /\ m + 1 # 0 /\ (m + 1) - 1 = m /\ m <= n
    OBVIOUS
  <2>2. first[m + 1] = s[m + 1].size + first[m]
    BY <1>8, <2>1
  <2> QED
    BY <1>2, <1>10, <2>1, <2>2
<1> HIDE DEF S
<1>11. n \in S
  BY <1>9, <1>10, SetInduction
<1> QED
  BY <1>7, <1>11 DEF S

Capacities ==
    /\ cap \in [Buffers -> Nat]
    /\ lastLen \in [Buffers -> Nat]
    /\ hint \in [Loggers -> Nat]
    /\ \A g \in Goroutines : pc[g] # "idle" => logger[g] \in Loggers

SmallUntil ==
    /\ \A b \in pool : cap[b] <= MaxCap
    /\ \A g \in Goroutines :
          pc[g] = "hint" \/ (pc[g] = "emit" /\ at[g] = 0 /\ pass[g] = 1)
          => cap[lw[g]] <= MaxCap

SInv == Capacities /\ SmallUntil

LEMMA GrownType ==
    ASSUME NEW c \in Nat, NEW len \in Nat, NEW n \in Nat
    PROVE  /\ Grown(c, len, n) \in Nat /\ GrownByRuntime(c, len, n) \in Nat
           /\ ReleasedCap(c) \in Nat /\ ReleasedCap(c) <= MaxCap
           /\ Preallocated(c, n) \in Nat
           /\ c <= MaxCap => Preallocated(c, n) <= MaxCap
<1>1. DefaultCap \in Nat /\ MaxCap \in Nat /\ DefaultCap <= MaxCap
  BY LogPathConstants
<1>2. Grown(c, len, n) \in Nat /\ GrownByRuntime(c, len, n) \in Nat
  BY <1>1 DEF Grown, GrownByRuntime
<1>3. ReleasedCap(c) \in Nat /\ ReleasedCap(c) <= MaxCap
  BY <1>1 DEF ReleasedCap
<1> DEFINE m == IF n > MaxCap THEN MaxCap ELSE n
<1>4. m \in Nat /\ m <= MaxCap
  BY <1>1
<1> HIDE DEF m
<1>5. Grown(c, 0, m) \in Nat /\ (c <= MaxCap => Grown(c, 0, m) <= MaxCap)
  BY <1>1, <1>4 DEF Grown
<1>6. Preallocated(c, n) = Grown(c, 0, m)
  BY DEF Preallocated, m
<1> QED
  BY <1>2, <1>3, <1>5, <1>6

\* A step of g that leaves the capacities of others alone.
LEMMA SmallKept ==
    ASSUME IInv, SInv, NEW g \in Goroutines, Capacities',
           \A b \in pool' : cap'[b] <= MaxCap,
           pc'[g] = "hint" \/ (pc'[g] = "emit" /\ at'[g] = 0 /\ pass'[g] = 1)
           => cap'[lw'[g]] <= MaxCap,
           \A h \in Goroutines \ {g} :
               /\ pc'[h] = pc[h] /\ lw'[h] = lw[h] /\ at'[h] = at[h] /\ pass'[h] = pass[h]
               /\ Working(h) => cap'[lw[h]] = cap[lw[h]]
    PROVE  SInv'
<1>1. ASSUME NEW h \in Goroutines,
             pc'[h] = "hint" \/ (pc'[h] = "emit" /\ at'[h] = 0 /\ pass'[h] = 1)
      PROVE  cap'[lw'[h]] <= MaxCap
  <2>1. CASE h = g
    BY <1>1, <2>1
  <2>2. CASE h # g
    BY <1>1, <2>2 DEF SInv, SmallUntil, Working
  <2> QED
    BY <2>1, <2>2
<1> QED
  BY <1>1 DEF SInv, SmallUntil

\* What an entry writes grows its own lineWriter.
LEMMA PutSInv ==
    ASSUME IInv, SInv, NEW g \in Goroutines, Emit(g) \/ FinishLine(g)
    PROVE  SInv'
<1> DEFINE p == Piece(g, at[g] + 1, PassOf(g, at[g] + 1))
           b == lw[g]
<1>1. /\ pc[g] = "emit" /\ at' = [at EXCEPT ![g] = @ + 1]
      /\ Put(g, p)
      /\ UNCHANGED <<pool, hint, lw, logger, pass>>
      /\ pc' = pc \/ pc' = [pc EXCEPT ![g] = "commit"]
  BY DEF Emit, FinishLine, LineLen
<1>2. Working(g) /\ b \in Buffers \ pool /\ \A h \in Goroutines \ {g} : lw[h] # b
  BY <1>1, NotShared DEF Working
<1>3. lastLen' = lastLen
  BY <1>1 DEF Put, FlushesEarly, IInv, Contents
<1>4. at[g] \in Nat /\ at[g] + 1 \in Nat /\ buf[b] \in Seq(Pieces)
  BY <1>2 DEF IInv, Types
<1>5. p \in Pieces
  BY <1>4, PieceType DEF IInv
<1>6. p.size \in Nat /\ Size(buf[b]) \in Nat /\ cap[b] \in Nat
  BY <1>2, <1>4, <1>5, SizeType DEF Pieces, SInv, Capacities
<1>7. PICK c \in Nat : cap' = [cap EXCEPT ![b] = c]
  BY <1>1, <1>6, GrownType DEF Put
<1> HIDE DEF p, b
<1>8. Capacities'
  BY <1>1, <1>3, <1>7 DEF SInv, Capacities, IInv, Types
<1>9. \A a \in pool' : cap'[a] <= MaxCap
  BY <1>1, <1>2, <1>7 DEF SInv, SmallUntil, Capacities, IInv, Types
<1>10. at'[g] # 0 /\ pc'[g] # "hint"
  BY <1>1, <1>4 DEF IInv, Types
<1>11. ASSUME NEW h \in Goroutines \ {g}
       PROVE  /\ pc'[h] = pc[h] /\ lw'[h] = lw[h] /\ at'[h] = at[h] /\ pass'[h] = pass[h]
              /\ Working(h) => cap'[lw[h]] = cap[lw[h]]
  <2>1. lw[h] # b
    BY <1>2
  <2> QED
    BY <1>1, <1>2, <1>7, <2>1 DEF IInv, Types, HasBuffer, SInv, Capacities
<1> QED
  BY <1>8, <1>9, <1>10, <1>11, SmallKept

LEMMA AcquireSInv ==
    ASSUME IInv, SInv, NEW g \in Goroutines, Acquire(g)
    PROVE  SInv'
<1>1. PICK b \in Buffers : Taken(b) /\ pool' = pool \ {b} /\ lw' = [lw EXCEPT ![g] = b] /\ Reset(g, b)
  BY DEF Acquire
<1>2. /\ pc[g] = "acquire" /\ pc' = [pc EXCEPT ![g] = "hint"]
      /\ UNCHANGED <<hint, logger, at, pass>>
  BY DEF Acquire
<1>3. DefaultCap \in Nat /\ DefaultCap <= MaxCap
  BY LogPathConstants
<1>4. cap' = cap \/ cap' = [cap EXCEPT ![b] = DefaultCap]
  BY <1>1 DEF Taken
<1>5. cap'[b] <= MaxCap
  BY <1>1, <1>3 DEF Taken, SInv, SmallUntil, Capacities
<1>6. Capacities'
  BY <1>1, <1>2, <1>3, <1>4 DEF SInv, Capacities, Reset, IInv, Types
<1>7. \A a \in pool' : cap'[a] <= MaxCap
  BY <1>1, <1>4 DEF SInv, SmallUntil, Capacities, IInv, Types
<1>8. ASSUME NEW h \in Goroutines \ {g}
      PROVE  /\ pc'[h] = pc[h] /\ lw'[h] = lw[h] /\ at'[h] = at[h] /\ pass'[h] = pass[h]
             /\ Working(h) => cap'[lw[h]] = cap[lw[h]]
  <2>1. Working(h) => lw[h] # b /\ lw[h] \in Buffers
    BY <1>1 DEF Taken, Held, IInv, HasBuffer, BufferHeldOnce, Types
  <2> QED
    BY <1>1, <1>2, <1>4, <2>1 DEF IInv, Types, SInv, Capacities
<1>9. pc'[g] = "hint" /\ lw'[g] = b
  BY <1>1, <1>2 DEF IInv, Types
<1> QED
  BY <1>5, <1>6, <1>7, <1>8, <1>9, SmallKept

LEMMA LoadHintSInv ==
    ASSUME IInv, SInv, NEW g \in Goroutines, LoadHint(g)
    PROVE  SInv'
<1> DEFINE n == hint[logger[g]]
           c == cap[lw[g]]
<1>1. /\ pc[g] = "hint" /\ pc' = [pc EXCEPT ![g] = "emit"]
      /\ UNCHANGED <<pool, lastLen, hint, lw, logger, at, pass>>
      /\ cap' = IF n > 0 THEN [cap EXCEPT ![lw[g]] = Preallocated(@, n)] ELSE cap
  BY DEF LoadHint
<1>2. lw[g] \in Buffers \ pool /\ \A h \in Goroutines \ {g} : lw[h] # lw[g]
  BY <1>1, NotShared DEF Working
<1>3. n \in Nat /\ c \in Nat /\ c <= MaxCap
  BY <1>1, <1>2 DEF SInv, Capacities, SmallUntil
<1>4. PICK new \in Nat : new <= MaxCap /\ cap' = [cap EXCEPT ![lw[g]] = new]
  <2>1. CASE n > 0
    BY <1>1, <1>3, <2>1, GrownType
  <2>2. CASE ~(n > 0)
    <3>1. cap = [cap EXCEPT ![lw[g]] = c]
      BY <1>2 DEF SInv, Capacities
    <3> QED
      BY <1>1, <1>3, <2>2, <3>1
  <2> QED
    BY <2>1, <2>2
<1> HIDE DEF n, c
<1>5. Capacities'
  BY <1>1, <1>4 DEF SInv, Capacities, IInv, Types
<1>6. \A a \in pool' : cap'[a] <= MaxCap
  BY <1>1, <1>2, <1>4 DEF SInv, SmallUntil, Capacities, IInv, Types
<1>7. cap'[lw'[g]] <= MaxCap
  BY <1>1, <1>2, <1>4 DEF SInv, Capacities
<1>8. ASSUME NEW h \in Goroutines \ {g}
      PROVE  /\ pc'[h] = pc[h] /\ lw'[h] = lw[h] /\ at'[h] = at[h] /\ pass'[h] = pass[h]
             /\ Working(h) => cap'[lw[h]] = cap[lw[h]]
  BY <1>1, <1>2, <1>4 DEF IInv, Types, HasBuffer, SInv, Capacities
<1> QED
  BY <1>5, <1>6, <1>7, <1>8, SmallKept

LEMMA ReleaseSInv ==
    ASSUME IInv, SInv, NEW g \in Goroutines, Release(g)
    PROVE  SInv'
<1> DEFINE b == lw[g]
<1>1. /\ pc[g] = "release" /\ pc' = [pc EXCEPT ![g] = "idle"]
      /\ pool' = pool \cup {b} /\ lw' = [lw EXCEPT ![g] = Nil]
      /\ cap' = [cap EXCEPT ![b] = ReleasedCap(@)]
      /\ lastLen' = [lastLen EXCEPT ![b] = 0]
      /\ UNCHANGED <<hint, logger, at, pass>>
  BY DEF Release
<1>2. b \in Buffers \ pool /\ \A h \in Goroutines \ {g} : lw[h] # b
  BY <1>1, NotShared DEF Working
<1>3. ReleasedCap(cap[b]) \in Nat /\ ReleasedCap(cap[b]) <= MaxCap
  BY <1>2, GrownType DEF SInv, Capacities
<1> HIDE DEF b
<1>4. Capacities'
  BY <1>1, <1>3 DEF SInv, Capacities, IInv, Types
<1>5. \A a \in pool' : cap'[a] <= MaxCap
  BY <1>1, <1>2, <1>3 DEF SInv, SmallUntil, Capacities, IInv, Types
<1>6. ASSUME NEW h \in Goroutines \ {g}
      PROVE  /\ pc'[h] = pc[h] /\ lw'[h] = lw[h] /\ at'[h] = at[h] /\ pass'[h] = pass[h]
             /\ Working(h) => cap'[lw[h]] = cap[lw[h]]
  <2>1. lw[h] # b
    BY <1>2
  <2> QED
    BY <1>1, <1>2, <2>1 DEF IInv, Types, HasBuffer, SInv, Capacities
<1>7. pc'[g] = "idle"
  BY <1>1 DEF IInv, Types
<1> QED
  BY <1>4, <1>5, <1>6, <1>7, SmallKept

\* The remaining steps leave the capacities and what is in the pool alone.
LEMMA QuietSInv ==
    ASSUME IInv, SInv, NEW g \in Goroutines, Capacities', pool' \subseteq pool, cap' = cap,
           \A h \in Goroutines \ {g} :
               pc'[h] = pc[h] /\ lw'[h] = lw[h] /\ at'[h] = at[h] /\ pass'[h] = pass[h],
           pc'[g] = "hint" \/ (pc'[g] = "emit" /\ at'[g] = 0 /\ pass'[g] = 1) => FALSE
    PROVE  SInv'
<1>1. \A b \in pool' : cap'[b] <= MaxCap
  BY DEF SInv, SmallUntil
<1> QED
  BY <1>1, SmallKept

LEMMA StepSInv == IInv /\ SInv /\ [Next]_vars => SInv'
<1> SUFFICES ASSUME IInv, SInv, [Next]_vars PROVE SInv'
  OBVIOUS
<1>1. ASSUME NEW g \in Goroutines, Begin(g) PROVE SInv'
  <2>1. PICK l \in Loggers : logger' = [logger EXCEPT ![g] = l]
    BY <1>1 DEF Begin
  <2>2. /\ pc' = [pc EXCEPT ![g] = "acquire"] /\ at' = [at EXCEPT ![g] = 0]
        /\ pass' = [pass EXCEPT ![g] = 1]
        /\ UNCHANGED <<pool, cap, lastLen, hint, lw>>
    BY <1>1 DEF Begin
  <2>3. Capacities'
    BY <2>1, <2>2 DEF SInv, Capacities, IInv, Types
  <2>5. \A h \in Goroutines \ {g} :
          pc'[h] = pc[h] /\ lw'[h] = lw[h] /\ at'[h] = at[h] /\ pass'[h] = pass[h]
    BY <2>2 DEF IInv, Types
  <2>6. pc'[g] = "acquire"
    BY <2>2 DEF IInv, Types
  <2>7. pool' \subseteq pool /\ cap' = cap
    BY <2>2
  <2> QED
    BY <2>3, <2>5, <2>6, <2>7, QuietSInv
<1>2. ASSUME NEW g \in Goroutines, Rollback(g) PROVE SInv'
  <2>1. /\ pc[g] = "emit" /\ pc' = pc /\ pass' = [pass EXCEPT ![g] = 2]
        /\ at' = [at EXCEPT ![g] = entry[g].mark]
        /\ UNCHANGED <<pool, cap, lastLen, hint, lw, logger>>
    BY <1>2 DEF Rollback
  <2>2. Capacities'
    BY <2>1 DEF SInv, Capacities
  <2>5. \A h \in Goroutines \ {g} :
          pc'[h] = pc[h] /\ lw'[h] = lw[h] /\ at'[h] = at[h] /\ pass'[h] = pass[h]
    BY <2>1 DEF IInv, Types
  <2>6. pc'[g] = "emit" /\ pass'[g] = 2
    BY <2>1 DEF IInv, Types
  <2>7. pool' \subseteq pool /\ cap' = cap
    BY <2>1
  <2> QED
    BY <2>2, <2>5, <2>6, <2>7, QuietSInv
<1>3. ASSUME NEW g \in Goroutines, ValuePanics(g) PROVE SInv'
  <2>1. /\ pc' = [pc EXCEPT ![g] = "idle"] /\ lw' = [lw EXCEPT ![g] = Nil]
        /\ UNCHANGED <<pool, cap, lastLen, hint, logger, at, pass>>
    BY <1>3 DEF ValuePanics
  <2>2. Capacities'
    BY <2>1 DEF SInv, Capacities, IInv, Types
  <2>5. \A h \in Goroutines \ {g} :
          pc'[h] = pc[h] /\ lw'[h] = lw[h] /\ at'[h] = at[h] /\ pass'[h] = pass[h]
    BY <2>1 DEF IInv, Types
  <2>6. pc'[g] = "idle"
    BY <2>1 DEF IInv, Types
  <2>7. pool' \subseteq pool /\ cap' = cap
    BY <2>1
  <2> QED
    BY <2>2, <2>5, <2>6, <2>7, QuietSInv
<1>4. ASSUME NEW g \in Goroutines, Commit(g) PROVE SInv'
  <2>1. /\ pc[g] = "commit" /\ pc' = [pc EXCEPT ![g] = "record"]
        /\ UNCHANGED <<pool, cap, hint, lw, logger, at, pass>>
    BY <1>4 DEF Commit
  <2>2. lw[g] \in Buffers /\ buf[lw[g]] \in Seq(Pieces)
    BY <2>1, NotShared DEF Working, IInv, Types
  <2>3. PICK n \in Nat : lastLen' = [lastLen EXCEPT ![lw[g]] = n]
    BY <1>4, <2>2, SizeType DEF Commit, Flush
  <2>4. Capacities'
    BY <2>1, <2>3 DEF SInv, Capacities, IInv, Types
  <2>5. \A h \in Goroutines \ {g} :
          pc'[h] = pc[h] /\ lw'[h] = lw[h] /\ at'[h] = at[h] /\ pass'[h] = pass[h]
    BY <2>1 DEF IInv, Types
  <2>6. pc'[g] = "record"
    BY <2>1 DEF IInv, Types
  <2>7. pool' \subseteq pool /\ cap' = cap
    BY <2>1
  <2> QED
    BY <2>4, <2>5, <2>6, <2>7, QuietSInv
<1>5. ASSUME NEW g \in Goroutines, RecordHint(g) PROVE SInv'
  <2>1. /\ pc[g] = "record" /\ pc' = [pc EXCEPT ![g] = "release"]
        /\ hint' = [hint EXCEPT ![logger[g]] = lastLen[lw[g]]]
        /\ UNCHANGED <<pool, cap, lastLen, lw, logger, at, pass>>
    BY <1>5 DEF RecordHint
  <2>2. lastLen[lw[g]] \in Nat
    BY <2>1, NotShared DEF Working, SInv, Capacities
  <2>3. Capacities'
    BY <2>1, <2>2 DEF SInv, Capacities, IInv, Types
  <2>5. \A h \in Goroutines \ {g} :
          pc'[h] = pc[h] /\ lw'[h] = lw[h] /\ at'[h] = at[h] /\ pass'[h] = pass[h]
    BY <2>1 DEF IInv, Types
  <2>6. pc'[g] = "release"
    BY <2>1 DEF IInv, Types
  <2>7. pool' \subseteq pool /\ cap' = cap
    BY <2>1
  <2> QED
    BY <2>3, <2>5, <2>6, <2>7, QuietSInv
<1>6. CASE DropPooled
  BY <1>6 DEF DropPooled, SInv, Capacities, SmallUntil
<1>7. CASE UNCHANGED vars
  BY <1>7 DEF vars, SInv, Capacities, SmallUntil
<1> QED
  BY <1>1, <1>2, <1>3, <1>4, <1>5, <1>6, <1>7, PutSInv, AcquireSInv, LoadHintSInv,
     ReleaseSInv DEF Next, Step

\* No lineWriter that waits in the pool, and none a line is started in, is larger than
\* lineWriterMaxCap, however long the lines were and whatever the hints ask for.
THEOREM AlwaysStartsSmall == Spec => []StartsSmall
<1>1. Init => SInv
  BY LogPathConstants DEF Init, SInv, Capacities, SmallUntil
<1>2. IInv /\ SInv /\ [Next]_vars => SInv'
  BY StepSInv
<1>3. SInv => StartsSmall
  BY DEF SInv, SmallUntil, StartsSmall
<1> QED
  BY <1>1, <1>2, <1>3, Invariance, PTL DEF Spec

-----------------------------------------------------------------------------
(* The line length hint that goroutines share (LineHint). *)

\* What a goroutine is about to use is in the range, too: its line was
\* recorded, and the hint it loaded was in the range of the lines then.
InRange(n) == shortest <= n /\ n <= longest

Pending ==
    \A g \in Recorders :
        doing[g] = "loaded" => /\ line[g] > 0
                               /\ InRange(line[g])
                               /\ loaded[g] # 0 => InRange(loaded[g])

Recorded == shortest = 0 => longest = 0

RInv == HintTypeOK /\ HintWithinLines /\ Pending /\ Recorded

\* The new hint lies between the line and the old one, at or above the line
\* unless it is the old one.
LEMMA UpdatedBetween ==
    ASSUME NEW current \in Nat, NEW next \in Nat \ {0}
    PROVE  /\ Updated(current, next) \in Nat
           /\ Updated(current, next) # current => Updated(current, next) >= next
           /\ \/ Updated(current, next) = next
              \/ current # 0 /\ next <= Updated(current, next)
                 /\ Updated(current, next) <= current
BY LineHintConstants DEF Updated, Jitter, Decayed

LEMMA ClampedLength ==
    ASSUME NEW n \in Lengths
    PROVE  Clamped(n) \in 1 .. MaxPrealloc
BY LineHintConstants DEF Clamped

LEMMA InitRInv == HintInit => RInv
BY LineHintConstants DEF HintInit, RInv, HintTypeOK, HintWithinLines, Pending, Recorded

LEMMA LoadRInv ==
    ASSUME RInv, NEW g \in Recorders, Load(g)
    PROVE  RInv'
<1>1. PICK n \in Lengths :
         /\ n = Usual \/ unusual < MaxUnusual
         /\ unusual' = IF n = Usual THEN unusual ELSE unusual + 1
         /\ line' = [line EXCEPT ![g] = Clamped(n)]
         /\ shortest' = IF shortest = 0 \/ Clamped(n) < shortest
                        THEN Clamped(n) ELSE shortest
         /\ longest' = IF Clamped(n) > longest THEN Clamped(n) ELSE longest
  BY DEF Load
<1>2. Clamped(n) \in 1 .. MaxPrealloc
  BY ClampedLength
<1>3. /\ doing[g] = "idle" /\ doing' = [doing EXCEPT ![g] = "loaded"]
      /\ loaded' = [loaded EXCEPT ![g] = lineHint] /\ lineHint' = lineHint
  BY DEF Load
<1>4. HintTypeOK'
  BY <1>1, <1>2, <1>3, LineHintConstants DEF RInv, HintTypeOK
<1>5. Recorded'
  BY <1>1, <1>2 DEF RInv, HintTypeOK, Recorded
<1>6. \A m \in Nat : m # 0 /\ InRange(m) => shortest' <= m /\ m <= longest'
  BY <1>1, <1>2 DEF RInv, HintTypeOK, InRange, Recorded
<1>7. InRange(Clamped(n))'
  BY <1>1, <1>2 DEF RInv, HintTypeOK, InRange
<1>8. HintWithinLines'
  BY <1>3, <1>6 DEF RInv, HintTypeOK, HintWithinLines, InRange
<1>9. Pending'
  <2>1. ASSUME NEW h \in Recorders, doing'[h] = "loaded"
        PROVE  /\ line'[h] > 0 /\ InRange(line[h])'
               /\ loaded'[h] # 0 => InRange(loaded[h])'
    <3>1. CASE h = g
      BY <1>1, <1>2, <1>3, <1>6, <1>7, <3>1
         DEF RInv, HintTypeOK, HintWithinLines, InRange
    <3>2. CASE h # g
      <4>1. line'[h] = line[h] /\ loaded'[h] = loaded[h] /\ doing[h] = "loaded"
        BY <1>1, <1>3, <2>1, <3>2 DEF RInv, HintTypeOK
      <4>2. line[h] \in Nat /\ loaded[h] \in Nat
        BY DEF RInv, HintTypeOK
      <4>3. line[h] > 0 /\ InRange(line[h]) /\ (loaded[h] # 0 => InRange(loaded[h]))
        BY <4>1 DEF RInv, Pending
      <4>4. InRange(line[h])' /\ (loaded[h] # 0 => InRange(loaded[h])')
        <5>1. InRange(line[h]) => (shortest' <= line[h] /\ line[h] <= longest')
          BY <1>6, <4>2, <4>3 DEF InRange
        <5>2. loaded[h] # 0 => (shortest' <= loaded[h] /\ loaded[h] <= longest')
          BY <1>6, <4>2, <4>3 DEF InRange
        <5> QED
          BY <4>1, <4>3, <5>1, <5>2 DEF InRange
      <4> QED
        BY <4>1, <4>3, <4>4
    <3> QED
      BY <3>1, <3>2
  <2> QED
    BY <2>1 DEF Pending
<1> QED
  BY <1>4, <1>5, <1>8, <1>9 DEF RInv

LEMMA StoreRInv ==
    ASSUME RInv, NEW g \in Recorders, Store(g)
    PROVE  /\ RInv'
           /\ lineHint' # lineHint => lineHint' >= line[g]
<1> DEFINE next == Updated(loaded[g], line[g])
<1>1. /\ doing[g] = "loaded" /\ doing' = [doing EXCEPT ![g] = "idle"]
      /\ lineHint' = IF next # loaded[g] THEN next ELSE lineHint
      /\ UNCHANGED <<line, loaded, shortest, longest, unusual>>
  BY DEF Store
<1>2. /\ line[g] \in 1 .. MaxPrealloc /\ loaded[g] \in 0 .. MaxPrealloc
      /\ InRange(line[g]) /\ (loaded[g] # 0 => InRange(loaded[g]))
      /\ MaxPrealloc \in Nat /\ shortest \in Nat /\ longest \in Nat
  BY <1>1, LineHintConstants DEF RInv, HintTypeOK, Pending
<1>3. /\ next \in Nat
      /\ next # loaded[g] => next >= line[g]
      /\ \/ next = line[g]
         \/ loaded[g] # 0 /\ line[g] <= next /\ next <= loaded[g]
  BY <1>2, UpdatedBetween
<1> HIDE DEF next
<1>4. next \in 0 .. MaxPrealloc /\ InRange(next)
  BY <1>2, <1>3 DEF InRange
<1>5. HintTypeOK' /\ HintWithinLines' /\ (lineHint' # lineHint => lineHint' >= line[g])
  BY <1>1, <1>3, <1>4 DEF RInv, HintTypeOK, HintWithinLines, InRange
<1>6. Pending'
  BY <1>1 DEF RInv, HintTypeOK, Pending, InRange
<1> QED
  BY <1>1, <1>5, <1>6 DEF RInv, Recorded

LEMMA StepRInv == RInv /\ [HintNext]_hintVars => RInv'
<1> SUFFICES ASSUME RInv, [HintNext]_hintVars PROVE RInv'
  OBVIOUS
<1>1. CASE UNCHANGED hintVars
  BY <1>1 DEF hintVars, RInv, HintTypeOK, HintWithinLines, Pending, InRange, Recorded
<1> QED
  BY <1>1, LoadRInv, StoreRInv DEF HintNext

THEOREM HintInvariance == HintSpec => []RInv
<1>1. RInv /\ [HintNext]_hintVars => RInv'
  BY StepRInv
<1> QED
  BY <1>1, InitRInv, PTL DEF HintSpec

\* Races included, the hint never leaves the lengths of the lines written.
THEOREM WithinLines == HintSpec => []HintWithinLines
<1>1. RInv => HintWithinLines
  BY DEF RInv
<1> QED
  BY <1>1, HintInvariance, PTL

\* A goroutine never stores less than the line it has just written.
THEOREM CoversLine == HintSpec => StoreCoversLine
<1>1. RInv /\ [HintNext]_hintVars =>
        [\A g \in Recorders :
            doing[g] = "loaded" /\ doing'[g] = "idle" /\ lineHint' # lineHint
                => lineHint' >= line[g]]_hintVars
  <2> SUFFICES ASSUME RInv, HintNext, NEW g \in Recorders,
                      doing[g] = "loaded", doing'[g] = "idle", lineHint' # lineHint
               PROVE  lineHint' >= line[g]
    OBVIOUS
  <2>1. PICK h \in Recorders : Load(h) \/ Store(h)
    BY DEF HintNext
  <2>2. Store(h) /\ h = g
    BY <2>1 DEF Load, Store, RInv, HintTypeOK
  <2> QED
    BY <2>2, StoreRInv
<1> QED
  BY <1>1, HintInvariance, PTL DEF HintSpec, StoreCoversLine

\* Every variable stays in its type, for all values of the constants.
THEOREM HintTypeCorrect == HintSpec => []HintTypeOK
<1>1. RInv => HintTypeOK
  BY DEF RInv
<1> QED
  BY <1>1, HintInvariance, PTL
=============================================================================
