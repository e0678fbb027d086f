------------------------- MODULE Console2JsonProofs -------------------------
(***************************************************************************)
(* Proofs about Console2Json, for any command lines, entries and foreign   *)
(* lines: every output is the conversion of its input, and what a pslog    *)
(* console logger printed comes back.                                      *)
(***************************************************************************)
EXTENDS Console2Json, InductionLemmas

-----------------------------------------------------------------------------
(* Sequences. *)

LEMMA SequenceIn ==
    ASSUME NEW s, IsSequence(s), NEW T, Range(s) \subseteq T
    PROVE  s \in Seq(T)
BY DEF IsSequence

LEMMA SequenceOf ==
    ASSUME NEW T, NEW s \in Seq(T)
    PROVE  s \in Seq(Range(s)) /\ Range(s) \subseteq T /\ Len(s) \in Nat
BY DEF Range

LEMMA AppendIs ==
    ASSUME NEW T, NEW s \in Seq(T), NEW x \in T
    PROVE  /\ Append(s, x) \in Seq(T) /\ Append(s, x) # << >>
           /\ Len(Append(s, x)) = Len(s) + 1
           /\ \A i \in 1 .. Len(s) : Append(s, x)[i] = s[i]
           /\ Append(s, x)[Len(s) + 1] = x
           /\ Append(s, x) = s \o << x >>
           /\ Last(Append(s, x)) = x
           /\ Front(Append(s, x)) = s
<1>1. /\ Append(s, x) \in Seq(T) /\ Append(s, x) # << >>
      /\ Len(Append(s, x)) = Len(s) + 1
      /\ \A i \in 1 .. Len(s) : Append(s, x)[i] = s[i]
      /\ Append(s, x)[Len(s) + 1] = x
      /\ Append(s, x) = s \o << x >>
  OBVIOUS
<1>2. Last(Append(s, x)) = x
  BY <1>1 DEF Last
<1>3. SubSeq(Append(s, x), 1, Len(s)) = s
  <2> DEFINE t == Append(s, x)
             u == SubSeq(t, 1, Len(s))
  <2>0. Len(s) \in Nat /\ t \in Seq(T) /\ Len(t) = Len(s) + 1
    BY <1>1
  <2>1. \A i \in 1 .. Len(s) : t[i] = s[i]
    BY <1>1
  <2> HIDE DEF t
  <2>2. u \in Seq(T) /\ Len(u) = Len(s) /\ \A i \in 1 .. Len(s) : u[i] = t[i]
    BY <2>0
  <2> HIDE DEF u
  <2>3. \A i \in 1 .. Len(s) : u[i] = s[i]
    BY <2>1, <2>2
  <2>4. u = s
    BY <2>2, <2>3, SeqEqual
  <2> QED
    BY <2>4 DEF u, t
<1>4. Len(Append(s, x)) - 1 = Len(s)
  BY <1>1
<1>5. Front(Append(s, x)) = s
  BY ONLY <1>3, <1>4 DEF Front
<1> QED
  BY <1>1, <1>2, <1>5

\* A set of numbers up to n has a least one.
LEMMA MinIs ==
    ASSUME NEW S \in SUBSET Nat, S # {}
    PROVE  Min(S) \in S /\ \A y \in S : Min(S) <= y
<1>1. PICK m \in S : \A y \in S : m <= y
  BY LeastNumber
<1>2. Min(S) = CHOOSE x \in S : \A y \in S : x <= y
  BY DEF Min
<1> QED
  BY <1>1, <1>2

-----------------------------------------------------------------------------
(* Tokens. *)

Tokens == UNION {Range(line.tokens) : line \in Lines}

\* The message of an entry, its fields and its level, as they stand on its line.
WordsOf(e) == [i \in DOMAIN e.msg |-> ConsoleWord(e.msg[i])]

FieldsOf(e) == FlattenSeq([i \in DOMAIN e.fields |-> ConsoleField(e.fields[i])])

LevelOf(e) == Word(<< Label(e.lvl) >>)

\* A field of an entry is at least one token.
LEMMA FieldTokens ==
    ASSUME NEW f, IsSequence(f.rest)
    PROVE  \E T : ConsoleField(f) \in Seq(T)
<1> DEFINE T == Range(f.rest) \cup {Quoted(f.key, ConsoleText(f.text) \o <<"quote">>),
                                    Quoted(f.key, Tail(f.text)), Plain(f.key, f.text)}
<1>1. f.rest \in Seq(T)
  BY SequenceIn
<1>2. \A x \in T : << x >> \in Seq(T)
  OBVIOUS
<1>3. /\ Quoted(f.key, ConsoleText(f.text) \o <<"quote">>) \in T
      /\ Quoted(f.key, Tail(f.text)) \in T /\ Plain(f.key, f.text) \in T
  OBVIOUS
<1> HIDE DEF T
<1>4. \A x \in T : << x >> \in Seq(T) /\ << x >> \o f.rest \in Seq(T)
  BY <1>1, <1>2, ConcatType
<1>5. ConsoleField(f) \in Seq(T)
  BY <1>3, <1>4 DEF ConsoleField
<1> QED
  BY <1>5

LEMMA PartsType ==
    ASSUME NEW e \in Entries
    PROVE  \E T : /\ WordsOf(e) \in Seq(T) /\ FieldsOf(e) \in Seq(T)
                  /\ Time(e.ts) \in T /\ LevelOf(e) \in T
<1> DEFINE C == [i \in DOMAIN e.fields |-> ConsoleField(e.fields[i])]
           T == {Time(e.ts), LevelOf(e)} \cup Range(WordsOf(e)) \cup UNION {Range(C[i]) : i \in DOMAIN C}
<1>1. IsSequence(e.msg) /\ IsSequence(e.fields)
  BY LineContents
<1>2. PICK n \in Nat : DOMAIN e.fields = 1 .. n
  BY <1>1 DEF IsSequence
<1>3. PICK m \in Nat : DOMAIN e.msg = 1 .. m
  BY <1>1 DEF IsSequence
<1>4. WordsOf(e) = [i \in 1 .. m |-> ConsoleWord(e.msg[i])]
  BY <1>3 DEF WordsOf
<1>5. WordsOf(e) \in Seq(T)
  <2>1. \A i \in 1 .. m : ConsoleWord(e.msg[i]) \in Range(WordsOf(e))
    BY <1>4 DEF Range
  <2>2. Range(WordsOf(e)) \subseteq T
    OBVIOUS
  <2> HIDE DEF T
  <2>3. \A i \in 1 .. m : ConsoleWord(e.msg[i]) \in T
    BY <2>1, <2>2
  <2> QED
    BY <1>4, <2>3
<1>6. C = [i \in 1 .. n |-> ConsoleField(e.fields[i])]
  BY <1>2
<1>7. \A i \in 1 .. n : ConsoleField(e.fields[i]) \in Seq(T)
  <2> SUFFICES ASSUME NEW i \in 1 .. n PROVE ConsoleField(e.fields[i]) \in Seq(T)
    OBVIOUS
  <2>1. C[i] = ConsoleField(e.fields[i]) /\ i \in DOMAIN C
    BY <1>6
  <2>2. e.fields[i] \in Range(e.fields)
    BY <1>2 DEF Range
  <2>3. IsSequence(e.fields[i].rest)
    BY <2>2, LineContents
  <2>4. IsSequence(ConsoleField(e.fields[i]))
    BY <2>3, FieldTokens, SequenceOf DEF IsSequence
  <2>5. Range(ConsoleField(e.fields[i])) \subseteq T
    BY <2>1
  <2> HIDE DEF T
  <2> QED
    BY <2>4, <2>5, SequenceIn
<1>8. Time(e.ts) \in T /\ LevelOf(e) \in T
  OBVIOUS
<1> HIDE DEF T
<1>9. C \in Seq(Seq(T))
  BY <1>6, <1>7
<1>10. FieldsOf(e) \in Seq(T)
  BY <1>9, FlattenType DEF FieldsOf
<1> QED
  BY <1>5, <1>8, <1>10

\* A line is a sequence of tokens.
LEMMA LineTokens ==
    ASSUME NEW line \in Lines
    PROVE  line.tokens \in Seq(Tokens)
<1>1. Range(line.tokens) \subseteq Tokens
  BY DEF Tokens
<1>2. CASE line.tokens \in Foreign
  BY <1>1, <1>2, SequenceIn, LineContents
<1>3. CASE \E e \in Entries : line.tokens = ConsoleLine(e)
  <2>1. PICK e \in Entries : line.tokens = ConsoleLine(e)
    BY <1>3
  <2>2. PICK T : /\ WordsOf(e) \in Seq(T) /\ FieldsOf(e) \in Seq(T)
                 /\ Time(e.ts) \in T /\ LevelOf(e) \in T
    BY PartsType
  <2> DEFINE time == IF e.ts = Nil THEN << >> ELSE << Time(e.ts) >>
             level == << LevelOf(e) >>
  <2>3. time \in Seq(T) /\ level \in Seq(T)
    BY <2>2
  <2>4. line.tokens = ((time \o level) \o WordsOf(e)) \o FieldsOf(e)
    BY <2>1 DEF ConsoleLine, WordsOf, FieldsOf, LevelOf
  <2> HIDE DEF time, level
  <2>5. ((time \o level) \o WordsOf(e)) \o FieldsOf(e) \in Seq(T)
    <3>1. time \o level \in Seq(T)
      BY ONLY <2>3, ConcatType
    <3>2. (time \o level) \o WordsOf(e) \in Seq(T)
      BY ONLY <2>2, <3>1, ConcatType
    <3> QED
      BY ONLY <2>2, <3>2, ConcatType
  <2>6. line.tokens \in Seq(T)
    BY ONLY <2>4, <2>5
  <2>7. IsSequence(line.tokens)
    BY ONLY <2>6, SequenceOf DEF IsSequence
  <2> QED
    BY <1>1, <2>7, SequenceIn
<1> QED
  BY <1>2, <1>3 DEF Lines

\* What is behind the timestamp and the level is a part of the line.
LEMMA RemainingType ==
    ASSUME NEW tokens \in Seq(Tokens)
    PROVE  /\ AfterTime(tokens) \in Seq(Tokens)
           /\ Remaining(tokens) \in Seq(Tokens)
<1>1. \A s \in Seq(Tokens) : s # << >> => Tail(s) \in Seq(Tokens)
  OBVIOUS
<1>2. AfterTime(tokens) \in Seq(Tokens)
  BY <1>1 DEF AfterTime, HasTime
<1> QED
  BY <1>1, <1>2 DEF Remaining, HasLevel

LEMMA TailStartIs ==
    ASSUME NEW tokens \in Seq(Tokens)
    PROVE  TailStart(tokens) \in 1 .. Len(tokens) + 1
<1> DEFINE starts == {i \in 2 .. Len(tokens) : HasKey(tokens[i])}
<1>1. starts \in SUBSET Nat /\ Len(tokens) \in Nat
  OBVIOUS
<1>2. starts # {} => Min(starts) \in starts
  BY <1>1, MinIs
<1> QED
  BY <1>1, <1>2 DEF TailStart

LEMMA FieldTailType ==
    ASSUME NEW tokens \in Seq(Tokens)
    PROVE  FieldTail(tokens) \in Seq(Tokens)
<1> DEFINE rest == Remaining(tokens)
<1>1. rest \in Seq(Tokens)
  BY RemainingType
<1> HIDE DEF rest
<1>2. TailStart(rest) \in 1 .. Len(rest) + 1
  BY <1>1, TailStartIs
<1>3. SubSeq(rest, TailStart(rest), Len(rest)) \in Seq(Tokens)
  BY <1>1, <1>2
<1> QED
  BY <1>3 DEF FieldTail, rest

\* The fields that are read are the first ones, up to one without a value or one
\* that text follows; the latter is read itself.
LEMMA ReadPartIs ==
    ASSUME NEW tokens \in Seq(Tokens)
    PROVE  \E m \in 0 .. Len(tokens) :
              /\ ReadPart(tokens) = SubSeq(tokens, 1, m)
              /\ Len(ReadPart(tokens)) = m /\ ReadPart(tokens) \in Seq(Tokens)
              /\ \A i \in 1 .. m : ReadPart(tokens)[i] = tokens[i]
              /\ \A i \in 1 .. m : HasValue(tokens[i])
              /\ \A i \in 1 .. m : i # m => ~TextFollows(tokens[i])
              /\ m # Len(tokens) =>
                    \/ ~HasValue(tokens[m + 1]) /\ \A i \in 1 .. m : ~TextFollows(tokens[i])
                    \/ m # 0 /\ TextFollows(tokens[m])
              /\ WellFormed(tokens) => ReadPart(tokens) = tokens
<1> DEFINE bad   == {i \in DOMAIN tokens : ~HasValue(tokens[i])}
           torn  == {i \in DOMAIN tokens : TextFollows(tokens[i])}
           stops == {Len(tokens)} \cup torn \cup {i - 1 : i \in bad}
           m     == Min(stops)
<1>1. Len(tokens) \in Nat /\ DOMAIN tokens = 1 .. Len(tokens)
  OBVIOUS
<1>2. ReadPart(tokens) = SubSeq(tokens, 1, m)
  BY DEF ReadPart
<1>3. stops \in SUBSET Nat /\ Len(tokens) \in stops
  BY <1>1
<1>4. \A i \in stops : i = Len(tokens) \/ i \in torn \/ \E k \in bad : i = k - 1
  OBVIOUS
<1>5. (\A i \in torn : i \in stops) /\ (\A i \in bad : i - 1 \in stops)
  OBVIOUS
<1>6. /\ \A i : i \in bad <=> i \in 1 .. Len(tokens) /\ ~HasValue(tokens[i])
      /\ \A i : i \in torn <=> i \in 1 .. Len(tokens) /\ TextFollows(tokens[i])
  BY <1>1
<1> HIDE DEF bad, torn, stops
<1>7. m \in stops /\ \A y \in stops : m <= y
  BY <1>3, MinIs
<1> HIDE DEF m
<1>8. m \in 0 .. Len(tokens)
  BY <1>1, <1>3, <1>7
<1>9. /\ SubSeq(tokens, 1, m) \in Seq(Tokens) /\ Len(SubSeq(tokens, 1, m)) = m
      /\ \A i \in 1 .. m : SubSeq(tokens, 1, m)[i] = tokens[i]
  BY <1>1, <1>8
<1>10. ASSUME NEW i \in 1 .. m PROVE HasValue(tokens[i])
  <2>1. i \in 1 .. Len(tokens) /\ ~(m <= i - 1)
    BY <1>1, <1>8
  <2> QED
    BY <1>5, <1>6, <1>7, <2>1
<1>11. ASSUME NEW i \in 1 .. m, i # m PROVE ~TextFollows(tokens[i])
  <2>1. i \in 1 .. Len(tokens) /\ ~(m <= i)
    BY <1>1, <1>8, <1>11
  <2> QED
    BY <1>5, <1>6, <1>7, <2>1
<1>12. ASSUME m # Len(tokens)
       PROVE  \/ ~HasValue(tokens[m + 1]) /\ \A i \in 1 .. m : ~TextFollows(tokens[i])
              \/ m # 0 /\ TextFollows(tokens[m])
  <2>1. CASE m \in torn
    BY <1>6, <2>1
  <2>2. CASE m \notin torn
    <3>1. PICK k \in bad : m = k - 1
      BY <1>4, <1>7, <1>12, <2>2
    <3>2. k \in 1 .. Len(tokens) /\ ~HasValue(tokens[k])
      BY <1>6, <3>1
    <3>3. k = m + 1
      BY <3>1, <3>2
    <3>4. m # 0 => ~TextFollows(tokens[m])
      BY <1>6, <1>8, <2>2
    <3>5. \A i \in 1 .. m : i = m => m # 0
      OBVIOUS
    <3> QED
      BY <1>11, <3>2, <3>3, <3>4, <3>5
  <2> QED
    BY <2>1, <2>2
<1>13. WellFormed(tokens) => m = Len(tokens)
  <2>1. WellFormed(tokens) => bad = {} /\ torn = {}
    BY <1>1, <1>6 DEF WellFormed
  <2> QED
    BY <1>4, <1>7, <2>1
<1>14. m = Len(tokens) => SubSeq(tokens, 1, m) = tokens
  BY <1>1, <1>9, SeqEqual
<1> WITNESS m \in 0 .. Len(tokens)
<1> QED
  BY <1>2, <1>9, <1>10, <1>11, <1>12, <1>13, <1>14

-----------------------------------------------------------------------------
(* Kinds. *)

LEMMA ValuesType ==
    ASSUME NEW key, NEW tokens \in Seq(Tokens)
    PROVE  ValuesOf(key, tokens) \in Seq(Tokens) /\ ValuesOf(key, << >>) = << >>
<1> DEFINE V == [i \in DOMAIN tokens |->
                    IF tokens[i].key = key THEN << tokens[i] >> ELSE << >>]
<1>1. PICK n \in Nat : n = Len(tokens) /\ DOMAIN tokens = 1 .. n
  OBVIOUS
<1>2. \A i \in 1 .. n : (IF tokens[i].key = key THEN << tokens[i] >> ELSE << >>) \in Seq(Tokens)
  BY <1>1
<1>3. V \in Seq(Seq(Tokens))
  BY <1>1, <1>2
<1>4. ValuesOf(key, tokens) = FlattenSeq(V)
  BY DEF ValuesOf
<1> HIDE DEF V
<1>5. FlattenSeq(V) \in Seq(Tokens) /\ FlattenSeq(<< >>) = << >>
  BY <1>3, FlattenType
<1>6. [i \in DOMAIN << >> |-> IF << >>[i].key = key THEN << << >>[i] >> ELSE << >>] = << >>
  OBVIOUS
<1>7. ValuesOf(key, << >>) = << >>
  BY <1>5, <1>6 DEF ValuesOf
<1> QED
  BY <1>4, <1>5, <1>7

\* A token is one more value of its own key, and of no other.
LEMMA ValuesGrow ==
    ASSUME NEW key, NEW tokens \in Seq(Tokens), NEW t \in Tokens
    PROVE  ValuesOf(key, Append(tokens, t)) =
              IF t.key = key THEN Append(ValuesOf(key, tokens), t) ELSE ValuesOf(key, tokens)
<1> DEFINE One(x) == IF x.key = key THEN << x >> ELSE << >>
           V == [i \in DOMAIN tokens |-> One(tokens[i])]
           longer == Append(tokens, t)
           W == [i \in DOMAIN longer |-> One(longer[i])]
<1>1. PICK n \in Nat : n = Len(tokens) /\ DOMAIN tokens = 1 .. n
  OBVIOUS
<1>2. /\ DOMAIN longer = 1 .. n + 1 /\ longer[n + 1] = t
      /\ \A i \in 1 .. n : longer[i] = tokens[i]
  BY <1>1
<1>3. \A x \in Tokens : One(x) \in Seq(Tokens)
  OBVIOUS
<1>4. /\ ValuesOf(key, tokens) = FlattenSeq(V)
      /\ ValuesOf(key, longer) = FlattenSeq(W)
  BY DEF ValuesOf
<1> HIDE DEF longer, One
<1>5. V \in Seq(Seq(Tokens)) /\ Len(V) = n /\ \A i \in 1 .. n : V[i] = One(tokens[i])
  BY <1>1, <1>3
<1>6. W = Append(V, One(t))
  <2>1. /\ W \in Seq(Seq(Tokens)) /\ Len(W) = n + 1
        /\ \A i \in 1 .. n + 1 : W[i] = One(longer[i])
    <3>1. \A i \in 1 .. n + 1 : longer[i] \in Tokens
      <4>1. \A i \in 1 .. n + 1 : i \in 1 .. n \/ i = n + 1
        OBVIOUS
      <4>2. \A i \in 1 .. n : longer[i] \in Tokens
        BY <1>1, <1>2
      <4> QED
        BY <1>2, <4>1, <4>2
    <3>2. \A i \in 1 .. n + 1 : One(longer[i]) \in Seq(Tokens)
      BY <1>3, <3>1
    <3> QED
      BY <1>2, <3>2
  <2>2. /\ Append(V, One(t)) \in Seq(Seq(Tokens)) /\ Len(Append(V, One(t))) = n + 1
        /\ \A i \in 1 .. n : Append(V, One(t))[i] = V[i]
        /\ Append(V, One(t))[n + 1] = One(t)
    <3> HIDE DEF V
    <3> QED
      BY <1>3, <1>5, AppendIs
  <2> HIDE DEF V, W
  <2>3. \A i \in 1 .. n + 1 : W[i] = Append(V, One(t))[i]
    BY <1>2, <1>5, <2>1, <2>2
  <2> QED
    BY <2>1, <2>2, <2>3, SeqEqual
<1> HIDE DEF V, W
<1>7. FlattenSeq(W) = FlattenSeq(V) \o One(t)
  BY <1>3, <1>5, <1>6, FlattenAppend
<1>8. FlattenSeq(V) \in Seq(Tokens)
  BY <1>5, FlattenType
<1>9. CASE t.key = key
  BY <1>4, <1>7, <1>8, <1>9, AppendIs DEF One, longer
<1>10. CASE t.key # key
  <2>1. FlattenSeq(V) \o << >> = FlattenSeq(V)
    BY <1>8
  <2> QED
    BY <1>4, <1>7, <1>10, <2>1 DEF One, longer
<1> QED
  BY <1>9, <1>10

Others(values) == {i \in DOMAIN values : Seen(values[i]) # "int"}

HasString(values) == \E i \in DOMAIN values : Seen(values[i]) = "string"

LEMMA KindAmongIs ==
    ASSUME NEW values
    PROVE  /\ HasString(values) => KindAmong(values) = "string"
           /\ ~HasString(values) =>
                 KindAmong(values) =
                    IF Others(values) # {} /\ Seen(values[Max(Others(values))]) = "float"
                    THEN "float" ELSE Seen(values[Len(values)])
BY DEF KindAmong, HasString, Others, Last

\* The kind of the values of a key, when there is one more.
KindThen(values, t) ==
    IF t.is = "quoted" THEN "string"
    ELSE IF values # << >>
            /\ (KindAmong(values) = "string" \/ ParsesAs(KindAmong(values), t.text))
         THEN KindAmong(values)
    ELSE Natural(t.text)

\* parseValue follows KindAmong, one value at a time.
LEMMA KindGrows ==
    ASSUME NEW values \in Seq(Tokens), NEW t \in Tokens
    PROVE  KindAmong(Append(values, t)) = KindThen(values, t)
<1> DEFINE new == Append(values, t)
           s == Seen(t)
<1>1. PICK n \in Nat : n = Len(values) /\ DOMAIN values = 1 .. n
  OBVIOUS
<1>2. /\ DOMAIN new = 1 .. n + 1 /\ new[n + 1] = t /\ Len(new) = n + 1
      /\ \A i \in 1 .. n : new[i] = values[i]
  BY <1>1
<1> HIDE DEF new
<1>3. Others(new) = IF s = "int" THEN Others(values) ELSE Others(values) \cup {n + 1}
  <2>1. \A i \in 1 .. n + 1 : i \in 1 .. n \/ i = n + 1
    OBVIOUS
  <2>2. n + 1 \notin 1 .. n /\ 1 .. n \subseteq 1 .. n + 1 /\ n + 1 \in 1 .. n + 1
    OBVIOUS
  <2> QED
    BY ONLY <1>1, <1>2, <2>1, <2>2 DEF Others
<1>4. HasString(new) <=> (HasString(values) \/ s = "string")
  <2>1. \A i \in 1 .. n + 1 : i \in 1 .. n \/ i = n + 1
    OBVIOUS
  <2>2. 1 .. n \subseteq 1 .. n + 1 /\ n + 1 \in 1 .. n + 1
    OBVIOUS
  <2> QED
    BY ONLY <1>1, <1>2, <2>1, <2>2 DEF HasString
<1>5. Others(values) \subseteq 1 .. n
  BY <1>1 DEF Others
<1>6. s # "int" => Max(Others(new)) = n + 1
  <2>1. ASSUME s # "int" PROVE Max(Others(new)) = n + 1
    <3>1. Others(new) \in SUBSET Int /\ n + 1 \in Others(new)
      BY <1>3, <1>5, <2>1
    <3>2. \A y \in Others(new) : y <= n + 1
      BY <1>3, <1>5
    <3> QED
      BY <3>1, <3>2, MaxIs
  <2> QED
    BY <2>1
<1>7. Others(values) # {} => Max(Others(values)) \in 1 .. n
  <2>1. Others(values) \in SUBSET (0 .. n)
    BY <1>5
  <2> QED
    BY <1>5, <2>1, MaxOfNumbers
<1>8. values # << >> <=> n # 0
  BY <1>1
<1>9. ~HasString(values) /\ n # 0 => Seen(values[n]) # "string"
  BY <1>1 DEF HasString
<1>10. \A v \in Seq(Tokens) : v # << >> /\ KindAmong(v) = "string" => HasString(v)
  <2> SUFFICES ASSUME NEW v \in Seq(Tokens), v # << >>, KindAmong(v) = "string", ~HasString(v)
               PROVE  FALSE
    OBVIOUS
  <2>1. Seen(v[Len(v)]) = "string"
    BY KindAmongIs
  <2>2. Len(v) \in DOMAIN v
    OBVIOUS
  <2> QED
    BY <2>1, <2>2 DEF HasString
<1>11. s = IF t.is = "quoted" THEN "string" ELSE Natural(t.text)
  BY DEF Seen
<1>12. CASE s = "string"
  <2>1. KindAmong(new) = "string"
    BY <1>4, <1>12, KindAmongIs
  <2>2. KindThen(values, t) = "string"
    BY <1>11, <1>12 DEF KindThen, ParsesAs
  <2> QED
    BY <2>1, <2>2 DEF new
<1>13. CASE s # "string" /\ HasString(values)
  <2>1. KindAmong(new) = "string" /\ KindAmong(values) = "string"
    BY <1>4, <1>13, KindAmongIs
  <2>2. values # << >>
    BY <1>1, <1>8, <1>13 DEF HasString
  <2> QED
    BY <1>11, <1>13, <2>1, <2>2 DEF KindThen, new
<1>14. CASE s # "string" /\ ~HasString(values)
  <2>1. t.is # "quoted" /\ s = Natural(t.text) /\ ~HasString(new)
    BY <1>4, <1>11, <1>14
  <2>2. values # << >> => KindAmong(values) # "string"
    BY <1>10, <1>14
  <2>3. KindThen(values, t) =
           IF values # << >> /\ (s = KindAmong(values) \/ (KindAmong(values) = "float" /\ s = "int"))
           THEN KindAmong(values) ELSE s
    BY <2>1, <2>2 DEF KindThen, ParsesAs
  <2>4. CASE s # "int"
    <3>1. KindAmong(new) = s
      <4>1. Others(new) # {} /\ Max(Others(new)) = n + 1
        BY <1>3, <1>6, <2>4
      <4> QED
        BY <1>2, <2>1, <4>1, KindAmongIs
    <3> QED
      BY <2>3, <2>4, <3>1 DEF new
  <2>5. CASE s = "int"
    <3>1. KindAmong(new) = IF /\ Others(values) # {}
                              /\ Seen(values[Max(Others(values))]) = "float"
                           THEN "float" ELSE "int"
      <4>1. /\ Others(new) = Others(values)
            /\ Others(values) # {} => new[Max(Others(values))] = values[Max(Others(values))]
        BY <1>2, <1>3, <1>7, <2>5
      <4> QED
        BY <1>2, <2>1, <2>5, <4>1, KindAmongIs
    <3>2. CASE n = 0
      BY <1>5, <1>8, <2>3, <2>5, <3>1, <3>2 DEF new
    <3>3. CASE n # 0
      <4>1. KindAmong(values) = IF /\ Others(values) # {}
                                   /\ Seen(values[Max(Others(values))]) = "float"
                                THEN "float" ELSE Seen(values[n])
        BY <1>1, <1>14, KindAmongIs
      <4>2. Seen(values[n]) = "float" => Max(Others(values)) = n /\ Others(values) # {}
        <5>1. ASSUME Seen(values[n]) = "float"
              PROVE  Max(Others(values)) = n /\ Others(values) # {}
          <6>1. n \in Others(values)
            BY <1>1, <3>3, <5>1 DEF Others
          <6>2. Others(values) \in SUBSET Int /\ \A y \in Others(values) : y <= n
            BY <1>5
          <6> QED
            BY <6>1, <6>2, MaxIs
        <5> QED
          BY <5>1
      <4>3. KindAmong(values) = "float" <=>
               Others(values) # {} /\ Seen(values[Max(Others(values))]) = "float"
        BY <4>1, <4>2
      <4> QED
        BY <1>8, <2>3, <2>5, <3>1, <3>3, <4>3 DEF new
    <3> QED
      BY <3>2, <3>3
  <2> QED
    BY <2>4, <2>5
<1> QED
  BY <1>12, <1>13, <1>14

AllKeys == {t.key : t \in Tokens}

\* The typeTracker after some fields: the keys with a value, and their kinds.
KindsOf(tokens) ==
    [key \in {k \in AllKeys : ValuesOf(k, tokens) # << >>} |->
        KindAmong(ValuesOf(key, tokens))]

LEMMA NoKinds == KindsOf(<< >>) = << >>
<1>1. \A k : ValuesOf(k, << >>) = << >>
  <2>1. << >> \in Seq(Tokens)
    OBVIOUS
  <2> QED
    BY <2>1, ValuesType
<1>2. {k \in AllKeys : ValuesOf(k, << >>) # << >>} = {}
  BY <1>1
<1>3. \A f : f = [x \in {} |-> f[x]] => f = << >>
  OBVIOUS
<1> QED
  BY <1>2, <1>3 DEF KindsOf

LEMMA KindsGrow ==
    ASSUME NEW tokens \in Seq(Tokens), NEW t \in Tokens
    PROVE  LET kind == KindAmong(ValuesOf(t.key, Append(tokens, t)))
           IN  /\ KindsOf(Append(tokens, t)) = With(KindsOf(tokens), t.key, kind)
               /\ \A text : t.is = "quoted" \/ text = t.text =>
                     KindOf(KindsOf(tokens), t, text) = kind
<1> DEFINE more == Append(tokens, t)
           kind == KindAmong(ValuesOf(t.key, more))
           keys == {k \in AllKeys : ValuesOf(k, tokens) # << >>}
           new == {k \in AllKeys : ValuesOf(k, more) # << >>}
<1>1. /\ ValuesOf(t.key, more) = Append(ValuesOf(t.key, tokens), t)
      /\ \A k : k # t.key => ValuesOf(k, more) = ValuesOf(k, tokens)
  BY ValuesGrow
<1>2. \A k : ValuesOf(k, tokens) \in Seq(Tokens)
  BY ValuesType
<1>3. t.key \in AllKeys /\ ValuesOf(t.key, more) # << >>
  BY <1>1, <1>2, AppendIs DEF AllKeys
<1> HIDE DEF more
<1>4. new = keys \cup {t.key}
  BY <1>1, <1>3
<1>5. /\ KindsOf(more) = [k \in new |-> KindAmong(ValuesOf(k, more))]
      /\ KindsOf(tokens) = [k \in keys |-> KindAmong(ValuesOf(k, tokens))]
  BY DEF KindsOf
<1> HIDE DEF kind, new, keys
<1>6. KindsOf(more) = With(KindsOf(tokens), t.key, kind)
  <2>1. \A k \in keys : k # t.key => KindAmong(ValuesOf(k, more)) = KindsOf(tokens)[k]
    BY <1>1, <1>5
  <2>2. DOMAIN KindsOf(tokens) = keys
    BY <1>5
  <2>3. KindAmong(ValuesOf(t.key, more)) = kind
    BY DEF kind
  <2> QED
    BY <1>4, <1>5, <2>1, <2>2, <2>3 DEF With
<1>7. ASSUME NEW text, t.is = "quoted" \/ text = t.text
      PROVE  KindOf(KindsOf(tokens), t, text) = kind
  <2>1. kind = KindThen(ValuesOf(t.key, tokens), t)
    BY <1>1, <1>2, KindGrows DEF kind
  <2>2. t.key \in DOMAIN KindsOf(tokens) <=> ValuesOf(t.key, tokens) # << >>
    BY <1>3, <1>5 DEF keys
  <2>3. t.key \in DOMAIN KindsOf(tokens) =>
           KindsOf(tokens)[t.key] = KindAmong(ValuesOf(t.key, tokens))
    BY <1>5
  <2> HIDE DEF more
  <2> QED
    BY ONLY <1>7, <2>1, <2>2, <2>3 DEF KindOf, KindThen
<1> QED
  BY <1>6, <1>7 DEF kind, more

-----------------------------------------------------------------------------
(* The fields of a line. *)

\* What the last of some fields becomes.
FieldAfter(tokens) ==
    LET t == Last(tokens)
    IN  Pair(t.key, Value(KindAmong(ValuesOf(t.key, tokens)), ValueText(t)))

\* A round of parseFields reads one more field, or fails and changes nothing.  It
\* fails as well when text follows the field.
LEMMA RoundReads ==
    ASSUME NEW tokens \in Seq(Tokens), NEW t \in Tokens, NEW fields, NEW state,
           state = [ok |-> TRUE, kinds |-> KindsOf(tokens), fields |-> fields]
    PROVE  ParseField(state, t) =
              IF HasValue(t)
              THEN [ok |-> ~TextFollows(t), kinds |-> KindsOf(Append(tokens, t)),
                    fields |-> Append(fields, FieldAfter(Append(tokens, t)))]
              ELSE [ok |-> FALSE, kinds |-> KindsOf(tokens), fields |-> fields]
<1> DEFINE text == ValueText(t)
           kind == KindAmong(ValuesOf(t.key, Append(tokens, t)))
           field == [key |-> t.key, value |-> Value(kind, text)]
           k == KindsOf(tokens)
<1>1. KindOf(k, t, text) = kind
  <2>1. t.is = "quoted" \/ text = t.text
    BY DEF ValueText
  <2> HIDE DEF text
  <2> QED
    BY <2>1, KindsGrow
<1>2. KindsOf(Append(tokens, t)) = With(k, t.key, kind)
  BY KindsGrow
<1>3. FieldAfter(Append(tokens, t)) = field
  <2>1. Last(Append(tokens, t)) = t
    BY AppendIs
  <2> QED
    BY <2>1 DEF FieldAfter, Pair
<1>4. state.kinds = k /\ state.ok /\ state.fields = fields
  OBVIOUS
<1>5. state = [ok |-> TRUE, kinds |-> k, fields |-> fields]
  OBVIOUS
<1> HIDE DEF kind, text, k
<1>6. ParseField(state, t) =
         IF ~HasValue(t) THEN [state EXCEPT !.ok = FALSE]
         ELSE [ok |-> ~TextFollows(t), kinds |-> With(k, t.key, kind), fields |-> Append(fields, field)]
  BY ONLY <1>1, <1>4, Zenon DEF ParseField, field, text
<1>7. [state EXCEPT !.ok = FALSE] = [ok |-> FALSE, kinds |-> k, fields |-> fields]
  <2> DEFINE e == [state EXCEPT !.ok = FALSE]
  <2>1. /\ e.ok = FALSE /\ e.kinds = k /\ e.fields = fields
        /\ DOMAIN e = {"ok", "kinds", "fields"} /\ e = [x \in DOMAIN e |-> e[x]]
    BY ONLY <1>5, Zenon
  <2> HIDE DEF e
  <2>2. e = [ok |-> FALSE, kinds |-> k, fields |-> fields]
    BY ONLY <2>1
  <2> QED
    BY ONLY <2>2, Zenon DEF e
<1> HIDE DEF field
<1>8. CASE HasValue(t)
  BY ONLY <1>2, <1>3, <1>6, <1>8, Zenon
<1>9. CASE ~HasValue(t)
  BY ONLY <1>6, <1>7, <1>9, Zenon DEF k
<1> QED
  BY <1>8, <1>9, Zenon

SoFar(before, tokens, i) == before \o SubSeq(tokens, 1, i)

LEMMA SoFarGrows ==
    ASSUME NEW before \in Seq(Tokens), NEW tokens \in Seq(Tokens)
    PROVE  /\ \A i \in 0 .. Len(tokens) : SoFar(before, tokens, i) \in Seq(Tokens)
           /\ SoFar(before, tokens, 0) = before
           /\ \A i \in 1 .. Len(tokens) :
                 SoFar(before, tokens, i) = Append(SoFar(before, tokens, i - 1), tokens[i])
<1>1. PICK n \in Nat : n = Len(tokens)
  OBVIOUS
<1>2. \A i \in 0 .. n : /\ SubSeq(tokens, 1, i) \in Seq(Tokens)
                        /\ Len(SubSeq(tokens, 1, i)) = i
                        /\ \A j \in 1 .. i : SubSeq(tokens, 1, i)[j] = tokens[j]
  BY <1>1
<1>3. SoFar(before, tokens, 0) = before
  <2>1. SubSeq(tokens, 1, 0) = << >>
    BY <1>1, <1>2
  <2> QED
    BY <2>1 DEF SoFar
<1>4. ASSUME NEW i \in 1 .. n
      PROVE  SoFar(before, tokens, i) = Append(SoFar(before, tokens, i - 1), tokens[i])
  <2> DEFINE a == SubSeq(tokens, 1, i - 1)
             b == SubSeq(tokens, 1, i)
             t == tokens[i]
  <2>1. i - 1 \in 0 .. n /\ i \in 0 .. n /\ t \in Tokens
    BY <1>1
  <2>2. a \in Seq(Tokens) /\ Len(a) = i - 1 /\ \A j \in 1 .. i - 1 : a[j] = tokens[j]
    BY <1>2, <2>1
  <2>3. b \in Seq(Tokens) /\ Len(b) = i /\ \A j \in 1 .. i : b[j] = tokens[j]
    BY <1>2, <2>1
  <2> HIDE DEF a, b
  <2>4. b = Append(a, t)
    <3>1. /\ Append(a, t) \in Seq(Tokens) /\ Len(Append(a, t)) = i
          /\ \A j \in 1 .. i - 1 : Append(a, t)[j] = a[j]
          /\ Append(a, t)[i] = t
      BY <2>1, <2>2
    <3>2. \A j \in 1 .. i : b[j] = Append(a, t)[j]
      <4>1. \A j \in 1 .. i : j \in 1 .. i - 1 \/ j = i
        OBVIOUS
      <4> QED
        BY <2>2, <2>3, <3>1, <4>1
    <3> QED
      BY <2>3, <3>1, <3>2, SeqEqual
  <2> HIDE DEF t
  <2>5. Append(a, t) = a \o << t >> /\ Append(before \o a, t) = (before \o a) \o << t >>
    <3>1. before \o a \in Seq(Tokens)
      BY <2>2, ConcatType
    <3> QED
      BY <2>1, <2>2, <3>1, AppendIs
  <2>6. (before \o a) \o << t >> = before \o (a \o << t >>)
    <3>1. << t >> \in Seq(Tokens)
      BY <2>1
    <3> QED
      BY <2>2, <3>1, ConcatAssoc
  <2>7. before \o b = Append(before \o a, t)
    BY <2>4, <2>5, <2>6
  <2> QED
    BY <2>7 DEF SoFar, a, b, t
<1>5. \A i \in 0 .. n : SoFar(before, tokens, i) \in Seq(Tokens)
  BY <1>2, ConcatType DEF SoFar
<1> QED
  BY <1>1, <1>3, <1>4, <1>5

\* parseFields as a whole: the fields up to the first malformed one, and what
\* they tell of their kinds.
LEMMA FieldsParsed ==
    ASSUME NEW before \in Seq(Tokens), NEW tokens \in Seq(Tokens)
    PROVE  LET part   == ReadPart(tokens)
               parsed == ParseFields(tokens, KindsOf(before))
           IN  /\ part \in Seq(Tokens)
               /\ parsed.ok <=> WellFormed(tokens)
               /\ WellFormed(tokens) => part = tokens
               /\ parsed.kinds = KindsOf(before \o part)
               /\ parsed.fields =
                     [i \in 1 .. Len(part) |-> FieldAfter(before \o SubSeq(part, 1, i))]
<1> DEFINE part == ReadPart(tokens)
           parsed == ParseFields(tokens, KindsOf(before))
<1>1. PICK n \in Nat : n = Len(tokens)
  OBVIOUS
<1>2. PICK m \in 0 .. n :
         /\ part = SubSeq(tokens, 1, m)
         /\ Len(part) = m /\ part \in Seq(Tokens)
         /\ \A i \in 1 .. m : part[i] = tokens[i]
         /\ \A i \in 1 .. m : HasValue(tokens[i])
         /\ \A i \in 1 .. m : i # m => ~TextFollows(tokens[i])
         /\ m # n => \/ ~HasValue(tokens[m + 1]) /\ \A i \in 1 .. m : ~TextFollows(tokens[i])
                     \/ m # 0 /\ TextFollows(tokens[m])
         /\ WellFormed(tokens) => part = tokens
  BY <1>1, ReadPartIs
<1> DEFINE torn == m # 0 /\ TextFollows(tokens[m])
<1> HIDE DEF part
<1> DEFINE so == [i \in 0 .. n |-> SoFar(before, tokens, i)]
           fs(i) == [x \in 1 .. i |-> FieldAfter(so[x])]
<1>3. /\ \A i \in 0 .. n : so[i] \in Seq(Tokens)
      /\ so[0] = before
      /\ \A i \in 1 .. n : so[i] = Append(so[i - 1], tokens[i])
  <2>1. \A i \in 1 .. n : i \in 0 .. n /\ i - 1 \in 0 .. n
    OBVIOUS
  <2>2. \A i \in 0 .. n : so[i] = SoFar(before, tokens, i)
    OBVIOUS
  <2> HIDE DEF so
  <2>3. /\ \A i \in 0 .. n : SoFar(before, tokens, i) \in Seq(Tokens)
        /\ SoFar(before, tokens, 0) = before
        /\ \A i \in 1 .. n :
              SoFar(before, tokens, i) = Append(SoFar(before, tokens, i - 1), tokens[i])
    BY <1>1, SoFarGrows
  <2> QED
    BY <2>1, <2>2, <2>3
<1> HIDE DEF so
<1>4. \A i \in 1 .. n : fs(i) = Append(fs(i - 1), FieldAfter(so[i]))
  <2> SUFFICES ASSUME NEW i \in 1 .. n
               PROVE  fs(i) = Append(fs(i - 1), FieldAfter(so[i]))
    OBVIOUS
  <2> DEFINE T == {FieldAfter(so[x]) : x \in 0 .. n}
             a == fs(i - 1)
             b == fs(i)
             f == FieldAfter(so[i])
  <2>1. \A x \in 1 .. i : FieldAfter(so[x]) \in T
    OBVIOUS
  <2> HIDE DEF T
  <2>2. b \in Seq(T) /\ Len(b) = i /\ \A x \in 1 .. i : b[x] = FieldAfter(so[x])
    BY <2>1
  <2>3. a \in Seq(T) /\ Len(a) = i - 1 /\ \A x \in 1 .. i - 1 : a[x] = FieldAfter(so[x])
    BY <2>1
  <2>4. f \in T
    BY <2>1
  <2> HIDE DEF a, b
  <2>5. /\ Append(a, f) \in Seq(T) /\ Len(Append(a, f)) = i
        /\ \A x \in 1 .. i - 1 : Append(a, f)[x] = a[x]
        /\ Append(a, f)[i] = f
    <3> HIDE DEF f
    <3> QED
      BY <2>3, <2>4
  <2>6. \A x \in 1 .. i : b[x] = Append(a, f)[x]
    <3>1. \A x \in 1 .. i : x \in 1 .. i - 1 \/ x = i
      OBVIOUS
    <3> QED
      BY <2>2, <2>3, <2>5, <3>1
  <2>7. b = Append(a, f)
    BY <2>2, <2>5, <2>6, SeqEqual
  <2> QED
    BY <2>7 DEF a, b
<1>5. fs(0) = << >>
  OBVIOUS
<1> DEFINE ff == [i \in 0 .. n |-> fs(i)]
           good(i) == [ok |-> TRUE, kinds |-> KindsOf(so[i]), fields |-> ff[i]]
           stopped == [ok |-> FALSE, kinds |-> KindsOf(so[m]), fields |-> ff[m]]
           base == [ok |-> TRUE, kinds |-> KindsOf(before), fields |-> << >>]
           E == [i \in 0 .. n |-> IF i < m \/ (i = m /\ ~torn) THEN good(i) ELSE stopped]
           Def(F) == [i \in 0 .. n |-> IF i = 0 THEN base ELSE ParseField(F[i - 1], tokens[i])]
           f == CHOOSE F : F = Def(F)
<1>6. /\ ff[0] = << >>
      /\ \A i \in 1 .. n : ff[i] = Append(ff[i - 1], FieldAfter(so[i]))
  BY <1>4, <1>5
<1>7. ff[m] = [x \in 1 .. m |-> FieldAfter(so[x])]
  OBVIOUS
<1> HIDE DEF ff
<1>8. good(0) = base
  BY <1>3, <1>6
<1> HIDE DEF base
<1>9. ASSUME NEW i \in 1 .. n
      PROVE  E[i] = ParseField(E[i - 1], tokens[i])
  <2>1. i - 1 \in 0 .. n /\ i \in 0 .. n /\ tokens[i] \in Tokens
    BY <1>1
  <2>2. /\ E[i - 1] = IF i - 1 < m \/ (i - 1 = m /\ ~torn) THEN good(i - 1) ELSE stopped
        /\ E[i] = IF i < m \/ (i = m /\ ~torn) THEN good(i) ELSE stopped
    <3> HIDE DEF good, stopped, torn
    <3> QED
      BY <2>1
  <2> HIDE DEF E
  <2>3. ParseField(good(i - 1), tokens[i]) =
           IF HasValue(tokens[i])
           THEN [ok |-> ~TextFollows(tokens[i]), kinds |-> KindsOf(so[i]), fields |-> ff[i]]
           ELSE [ok |-> FALSE, kinds |-> KindsOf(so[i - 1]), fields |-> ff[i - 1]]
    <3> DEFINE s == good(i - 1)
    <3>1. s = [ok |-> TRUE, kinds |-> KindsOf(so[i - 1]), fields |-> ff[i - 1]]
      OBVIOUS
    <3>2. so[i - 1] \in Seq(Tokens)
      BY <1>3, <2>1
    <3> HIDE DEF s
    <3>3. ParseField(s, tokens[i]) =
             IF HasValue(tokens[i])
             THEN [ok |-> ~TextFollows(tokens[i]), kinds |-> KindsOf(Append(so[i - 1], tokens[i])),
                   fields |-> Append(ff[i - 1], FieldAfter(Append(so[i - 1], tokens[i])))]
             ELSE [ok |-> FALSE, kinds |-> KindsOf(so[i - 1]), fields |-> ff[i - 1]]
      BY ONLY <2>1, <3>1, <3>2, RoundReads
    <3>4. Append(so[i - 1], tokens[i]) = so[i]
      BY <1>3
    <3>5. Append(ff[i - 1], FieldAfter(so[i])) = ff[i]
      BY <1>6
    <3>6. ParseField(s, tokens[i]) =
             IF HasValue(tokens[i])
             THEN [ok |-> ~TextFollows(tokens[i]), kinds |-> KindsOf(so[i]), fields |-> ff[i]]
             ELSE [ok |-> FALSE, kinds |-> KindsOf(so[i - 1]), fields |-> ff[i - 1]]
      BY ONLY <3>3, <3>4, <3>5
    <3> QED
      BY <3>6 DEF s
  <2>4. CASE i < m \/ (i = m /\ ~torn)
    <3>1. i - 1 < m /\ i \in 1 .. m
      BY <2>4
    <3>2. HasValue(tokens[i])
      BY <1>2, <3>1
    <3>3. ~TextFollows(tokens[i])
      <4>1. CASE i # m
        BY <1>2, <3>1, <4>1
      <4>2. CASE i = m
        BY <2>4, <4>2
      <4> QED
        BY <4>1, <4>2
    <3>4. [ok |-> ~TextFollows(tokens[i]), kinds |-> KindsOf(so[i]), fields |-> ff[i]] = good(i)
      BY <3>3
    <3> HIDE DEF good, stopped, torn
    <3> QED
      BY ONLY <2>2, <2>3, <2>4, <3>1, <3>2, <3>4
  <2>5. CASE i = m /\ torn
    <3>1. i - 1 < m /\ i \in 1 .. m /\ ~(i < m)
      BY <2>5
    <3>2. HasValue(tokens[i])
      BY <1>2, <3>1
    <3>3. [ok |-> ~TextFollows(tokens[i]), kinds |-> KindsOf(so[i]), fields |-> ff[i]] = stopped
      BY <2>5
    <3> HIDE DEF good, stopped, torn
    <3> QED
      BY ONLY <2>2, <2>3, <2>5, <3>1, <3>2, <3>3
  <2>6. CASE i = m + 1 /\ ~torn
    <3>1. i - 1 = m /\ ~(i < m) /\ i # m /\ m # n
      BY <2>6
    <3>2. ~HasValue(tokens[i])
      BY <1>2, <2>6, <3>1
    <3>3. [ok |-> FALSE, kinds |-> KindsOf(so[i - 1]), fields |-> ff[i - 1]] = stopped
      BY <3>1
    <3> HIDE DEF good, stopped, torn
    <3> QED
      BY ONLY <2>2, <2>3, <2>6, <3>1, <3>2, <3>3
  <2>7. CASE i > m + 1 \/ (i = m + 1 /\ torn)
    <3>1. /\ ~(i - 1 < m) /\ ~(i - 1 = m /\ ~torn)
          /\ ~(i < m) /\ i # m
      <4> HIDE DEF torn
      <4> QED
        BY <2>7
    <3>2. ~stopped.ok
      OBVIOUS
    <3> HIDE DEF good, stopped, torn
    <3>3. \A s, t : ~s.ok => ParseField(s, t) = s
      BY Zenon DEF ParseField
    <3> QED
      BY ONLY <2>2, <3>1, <3>2, <3>3
  <2>8. i < m \/ i = m \/ i = m + 1 \/ i > m + 1
    OBVIOUS
  <2> HIDE DEF torn
  <2> QED
    BY <2>4, <2>5, <2>6, <2>7, <2>8
<1>10. E[0] = base
  <2>1. 0 < m \/ (0 = m /\ ~torn)
    OBVIOUS
  <2>2. E[0] = IF 0 < m \/ (0 = m /\ ~torn) THEN good(0) ELSE stopped
    <3> HIDE DEF good, stopped, torn
    <3> QED
      OBVIOUS
  <2> QED
    BY ONLY <1>8, <2>1, <2>2
<1>11. E = Def(E)
  <2>1. DOMAIN E = 0 .. n /\ E = [i \in DOMAIN E |-> E[i]]
    OBVIOUS
  <2> HIDE DEF E
  <2>2. \A i \in 0 .. n : E[i] = IF i = 0 THEN base ELSE ParseField(E[i - 1], tokens[i])
    <3>1. E[0] = base
      BY <1>10
    <3>2. \A i \in 0 .. n : i = 0 \/ i \in 1 .. n
      OBVIOUS
    <3> QED
      BY ONLY <1>9, <3>1, <3>2
  <2> QED
    BY <2>1, <2>2
<1> HIDE DEF E
<1>12. f = Def(f)
  <2> HIDE DEF Def
  <2> QED
    BY <1>11
<1>13. parsed = f[n]
  BY <1>1 DEF ParseFields, base
<1> HIDE DEF f
<1>14. /\ f[0] = base
       /\ \A i \in 1 .. n : f[i] = ParseField(f[i - 1], tokens[i])
  <2>1. \A i \in 0 .. n : f[i] = IF i = 0 THEN base ELSE ParseField(f[i - 1], tokens[i])
    BY <1>12
  <2> HIDE DEF Def
  <2> QED
    BY <2>1
<1> HIDE DEF Def
<1>15. f[n] = E[n]
  <2> DEFINE S == {i \in Nat : i <= n => f[i] = E[i]}
  <2>1. 0 \in S
    BY <1>14, <1>10
  <2>2. ASSUME NEW i \in Nat, i \in S PROVE i + 1 \in S
    <3>1. CASE i + 1 <= n
      <4>1. i + 1 \in 1 .. n /\ (i + 1) - 1 = i /\ i <= n
        BY <3>1
      <4>2. f[i + 1] = ParseField(f[i], tokens[i + 1])
        BY <1>14, <4>1
      <4>3. E[i + 1] = ParseField(E[i], tokens[i + 1])
        BY <1>9, <4>1
      <4> QED
        BY <2>2, <4>1, <4>2, <4>3
    <3> QED
      BY <3>1
  <2> HIDE DEF S
  <2>3. \A i \in Nat : i \in S
    BY <2>1, <2>2, SetInduction
  <2> QED
    BY <2>3 DEF S
<1>16. /\ E[n].ok <=> WellFormed(tokens)
       /\ E[n].kinds = KindsOf(so[m])
       /\ E[n].fields = ff[m]
  <2>1. E[n] = IF n < m \/ (n = m /\ ~torn) THEN good(n) ELSE stopped
    <3> HIDE DEF good, stopped, torn
    <3> QED
      BY DEF E
  <2>2. CASE m = n /\ ~torn
    <3>1. \A i \in 1 .. n : HasValue(tokens[i]) /\ ~TextFollows(tokens[i])
      BY <1>2, <2>2
    <3>2. WellFormed(tokens)
      BY <1>1, <3>1 DEF WellFormed
    <3> HIDE DEF torn
    <3> QED
      BY <2>1, <2>2, <3>2
  <2>3. CASE m # n \/ torn
    <3>1. ~(n < m) /\ ~(n = m /\ ~torn)
      <4> HIDE DEF torn
      <4> QED
        BY <2>3
    <3>2. ~WellFormed(tokens)
      <4>1. CASE torn
        <5>1. m \in 1 .. n
          BY <4>1
        <5> QED
          BY <1>1, <4>1, <5>1 DEF WellFormed
      <4>2. CASE ~torn
        <5>1. m + 1 \in 1 .. n /\ ~HasValue(tokens[m + 1])
          BY <1>2, <2>3, <4>2
        <5> QED
          BY <1>1, <5>1 DEF WellFormed
      <4> QED
        BY <4>1, <4>2
    <3> HIDE DEF torn, good
    <3> QED
      BY <2>1, <3>1, <3>2
  <2> QED
    BY <2>2, <2>3
<1>17. so[m] = before \o part
  BY <1>2 DEF so, SoFar
<1>18. ff[m] = [i \in 1 .. Len(part) |-> FieldAfter(before \o SubSeq(part, 1, i))]
  <2>1. \A i \in 1 .. m : so[i] = before \o SubSeq(part, 1, i)
    <3> SUFFICES ASSUME NEW i \in 1 .. m PROVE so[i] = before \o SubSeq(part, 1, i)
      OBVIOUS
    <3>1. /\ SubSeq(part, 1, i) \in Seq(Tokens) /\ Len(SubSeq(part, 1, i)) = i
          /\ \A j \in 1 .. i : SubSeq(part, 1, i)[j] = part[j]
      BY <1>2
    <3>2. /\ SubSeq(tokens, 1, i) \in Seq(Tokens) /\ Len(SubSeq(tokens, 1, i)) = i
          /\ \A j \in 1 .. i : SubSeq(tokens, 1, i)[j] = tokens[j]
      BY <1>1, <1>2
    <3>3. \A j \in 1 .. i : SubSeq(tokens, 1, i)[j] = SubSeq(part, 1, i)[j]
      BY <1>2, <3>1, <3>2
    <3>4. SubSeq(part, 1, i) = SubSeq(tokens, 1, i)
      BY <3>1, <3>2, <3>3, SeqEqual
    <3> QED
      BY <1>2, <3>4 DEF so, SoFar
  <2> QED
    BY <1>2, <1>7, <2>1
<1> QED
  BY <1>2, <1>13, <1>15, <1>16, <1>17, <1>18 DEF part

-----------------------------------------------------------------------------
(* The lines of a stream. *)

LEMMA FirstLines ==
    ASSUME NEW lines \in Seq(Lines), NEW line \in Lines
    PROVE  /\ \A n \in 1 .. Len(lines) :
                 SubSeq(Append(lines, line), 1, n) = SubSeq(lines, 1, n)
           /\ SubSeq(Append(lines, line), 1, Len(lines) + 1) = Append(lines, line)
           /\ \A n \in 1 .. Len(lines) : SubSeq(lines, 1, n) \in Seq(Lines)
<1> DEFINE new == Append(lines, line)
<1>1. PICK m \in Nat : m = Len(lines)
  OBVIOUS
<1>2. new \in Seq(Lines) /\ Len(new) = m + 1 /\ \A i \in 1 .. m : new[i] = lines[i]
  BY <1>1
<1> HIDE DEF new
<1>3. \A n \in 1 .. m + 1 : /\ SubSeq(new, 1, n) \in Seq(Lines) /\ Len(SubSeq(new, 1, n)) = n
                            /\ \A i \in 1 .. n : SubSeq(new, 1, n)[i] = new[i]
  BY <1>2
<1>4. \A n \in 1 .. m : /\ SubSeq(lines, 1, n) \in Seq(Lines) /\ Len(SubSeq(lines, 1, n)) = n
                        /\ \A i \in 1 .. n : SubSeq(lines, 1, n)[i] = lines[i]
  BY <1>1
<1>5. ASSUME NEW n \in 1 .. m
      PROVE  SubSeq(new, 1, n) = SubSeq(lines, 1, n)
  <2>1. \A i \in 1 .. n : SubSeq(new, 1, n)[i] = SubSeq(lines, 1, n)[i]
    BY <1>2, <1>3, <1>4
  <2>2. n \in 1 .. m + 1
    OBVIOUS
  <2> QED
    BY <1>3, <1>4, <2>1, <2>2, SeqEqual
<1>6. SubSeq(new, 1, m + 1) = new
  <2>1. m + 1 \in 1 .. m + 1
    OBVIOUS
  <2> QED
    BY <1>2, <1>3, <2>1, SeqEqual
<1> QED
  BY <1>1, <1>4, <1>5, <1>6 DEF new

LEMMA FieldsReadGrow ==
    ASSUME NEW lines \in Seq(Lines), NEW line \in Lines
    PROVE  /\ FieldsRead(lines) \in Seq(Tokens)
           /\ FieldsRead(<< >>) = << >>
           /\ FieldsRead(Append(lines, line)) =
                 FieldsRead(lines) \o ReadPart(FieldTail(line.tokens))
<1> DEFINE new == Append(lines, line)
           Part(l) == ReadPart(FieldTail(l.tokens))
           Q == [n \in DOMAIN lines |-> Part(lines[n])]
           P == [n \in DOMAIN new |-> Part(new[n])]
<1>1. PICK m \in Nat : m = Len(lines) /\ DOMAIN lines = 1 .. m
  OBVIOUS
<1>2. /\ DOMAIN new = 1 .. m + 1 /\ new[m + 1] = line
      /\ \A i \in 1 .. m : new[i] = lines[i]
  BY <1>1
<1>3. \A l \in Lines : Part(l) \in Seq(Tokens)
  <2> SUFFICES ASSUME NEW l \in Lines PROVE Part(l) \in Seq(Tokens)
    OBVIOUS
  <2>1. FieldTail(l.tokens) \in Seq(Tokens)
    BY LineTokens, FieldTailType
  <2> QED
    BY <2>1, ReadPartIs
<1>4. /\ FieldsRead(lines) = FlattenSeq(Q)
      /\ FieldsRead(new) = FlattenSeq(P)
  BY DEF FieldsRead
<1>5. \A i \in 1 .. m + 1 : new[i] \in Lines
  <2>1. \A i \in 1 .. m + 1 : i \in 1 .. m \/ i = m + 1
    OBVIOUS
  <2>2. \A i \in 1 .. m : lines[i] \in Lines
    BY <1>1
  <2> QED
    BY <1>2, <2>1, <2>2
<1> HIDE DEF new, Part
<1>6. P = [n \in 1 .. m + 1 |-> P[n]] /\ \A n \in 1 .. m + 1 : P[n] \in Seq(Tokens)
  BY <1>2, <1>3, <1>5
<1>7. [n \in 1 .. m |-> P[n]] = Q
  BY <1>1, <1>2
<1>8. P[m + 1] = Part(line)
  BY <1>2
<1>9. Q \in Seq(Seq(Tokens))
  <2>1. \A i \in 1 .. m : Part(lines[i]) \in Seq(Tokens)
    BY <1>1, <1>3
  <2> QED
    BY <1>1, <2>1
<1> HIDE DEF P, Q
<1>10. FlattenSeq(P) = FlattenSeq(Q) \o Part(line)
  BY <1>6, <1>7, <1>8, FlattenGrows
<1>11. FlattenSeq(Q) \in Seq(Tokens) /\ FlattenSeq(<< >>) = << >>
  BY <1>9, FlattenType
<1>12. FieldsRead(<< >>) = << >>
  <2>1. [n \in DOMAIN << >> |-> ReadPart(FieldTail(<< >>[n].tokens))] = << >>
    OBVIOUS
  <2> QED
    BY <1>11, <2>1 DEF FieldsRead
<1> QED
  BY <1>4, <1>10, <1>11, <1>12 DEF new, Part

\* The fields of a line that is read are those expected of it, after the lines
\* before it.
LEMMA LineParsed ==
    ASSUME NEW lines \in Seq(Lines), NEW line \in Lines
    PROVE  LET tail   == FieldTail(line.tokens)
               parsed == ParseFields(tail, KindsOf(FieldsRead(lines)))
           IN  /\ parsed.ok <=> WellFormed(tail)
               /\ parsed.kinds = KindsOf(FieldsRead(Append(lines, line)))
               /\ parsed.fields = ExpectedFields(Append(lines, line))
<1> DEFINE tail == FieldTail(line.tokens)
           before == FieldsRead(lines)
           part == ReadPart(tail)
           parsed == ParseFields(tail, KindsOf(before))
           new == Append(lines, line)
<1>1. tail \in Seq(Tokens)
  BY LineTokens, FieldTailType
<1>2. before \in Seq(Tokens) /\ FieldsRead(new) = before \o part
  BY FieldsReadGrow
<1>3. Front(new) = lines /\ Last(new) = line
  BY AppendIs
<1> HIDE DEF tail, before, new
<1>4. /\ part \in Seq(Tokens)
      /\ parsed.ok <=> WellFormed(tail)
      /\ parsed.kinds = KindsOf(before \o part)
      /\ parsed.fields = [i \in 1 .. Len(part) |-> FieldAfter(before \o SubSeq(part, 1, i))]
  BY <1>1, <1>2, FieldsParsed
<1> HIDE DEF parsed, part
<1>5. ExpectedFields(new) =
         [i \in DOMAIN part |->
             Pair(part[i].key,
                  Value(KindAmong(ValuesOf(part[i].key, before \o SubSeq(part, 1, i))),
                        ValueText(part[i])))]
  BY <1>3 DEF ExpectedFields, part, before, tail
<1>6. DOMAIN part = 1 .. Len(part)
  BY <1>4
<1>7. \A i \in 1 .. Len(part) : Last(before \o SubSeq(part, 1, i)) = part[i]
  <2> SUFFICES ASSUME NEW i \in 1 .. Len(part)
               PROVE  Last(before \o SubSeq(part, 1, i)) = part[i]
    OBVIOUS
  <2>1. /\ SoFar(before, part, i - 1) \in Seq(Tokens)
        /\ SoFar(before, part, i) = Append(SoFar(before, part, i - 1), part[i])
    <3>1. i - 1 \in 0 .. Len(part)
      BY <1>4
    <3> QED
      BY <1>2, <1>4, <3>1, SoFarGrows
  <2>2. part[i] \in Tokens
    BY <1>4
  <2>3. Last(Append(SoFar(before, part, i - 1), part[i])) = part[i]
    BY ONLY <2>1, <2>2, AppendIs
  <2> QED
    BY ONLY <2>1, <2>3 DEF SoFar
<1>8. \A i \in 1 .. Len(part) :
         FieldAfter(before \o SubSeq(part, 1, i)) =
            Pair(part[i].key,
                 Value(KindAmong(ValuesOf(part[i].key, before \o SubSeq(part, 1, i))),
                       ValueText(part[i])))
  BY <1>7 DEF FieldAfter
<1>9. parsed.fields = ExpectedFields(new)
  BY <1>4, <1>5, <1>6, <1>8
<1> QED
  BY <1>2, <1>4, <1>9 DEF part, parsed, new, before, tail

\* The objects that lines may become.
Objects ==
    {OrderedJSON(Doc(Last(lines).tokens, ExpectedFields(lines)), ExpectedFields(lines)) :
        lines \in Seq(Lines)}

LEMMA ExpectedOfType ==
    ASSUME NEW lines \in Seq(Lines)
    PROVE  ExpectedOf(lines) \in Seq(Objects)
<1> DEFINE json == OrderedJSON(Doc(Last(lines).tokens, ExpectedFields(lines)),
                               ExpectedFields(lines))
<1>1. json \in Objects
  BY DEF Objects
<1>2. ExpectedOf(lines) = << json >> \/ ExpectedOf(lines) = << >>
  BY DEF ExpectedOf
<1> HIDE DEF json
<1>3. << json >> \in Seq(Objects) /\ << >> \in Seq(Objects)
  BY <1>1
<1> QED
  BY ONLY <1>2, <1>3

\* One more line is converted after the others.
LEMMA ExpectedGrows ==
    ASSUME NEW lines \in Seq(Lines), NEW line \in Lines
    PROVE  /\ Expected(lines) \in Seq(Objects)
           /\ Expected(<< >>) = << >>
           /\ Expected(Append(lines, line)) =
                 Expected(lines) \o ExpectedOf(Append(lines, line))
<1> DEFINE new == Append(lines, line)
           Q == [n \in DOMAIN lines |-> ExpectedOf(SubSeq(lines, 1, n))]
           P == [n \in DOMAIN new |-> ExpectedOf(SubSeq(new, 1, n))]
<1>1. PICK m \in Nat : m = Len(lines) /\ DOMAIN lines = 1 .. m
  OBVIOUS
<1>2. DOMAIN new = 1 .. m + 1 /\ new \in Seq(Lines)
  BY <1>1
<1>3. /\ \A n \in 1 .. m : SubSeq(new, 1, n) = SubSeq(lines, 1, n)
      /\ SubSeq(new, 1, m + 1) = new
      /\ \A n \in 1 .. m : SubSeq(lines, 1, n) \in Seq(Lines)
  BY <1>1, FirstLines
<1>4. /\ Expected(lines) = FlattenSeq(Q)
      /\ Expected(new) = FlattenSeq(P)
  BY DEF Expected
<1> HIDE DEF new
<1>5. \A n \in 1 .. m + 1 : ExpectedOf(SubSeq(new, 1, n)) \in Seq(Objects)
  <2>1. \A n \in 1 .. m + 1 : n \in 1 .. m \/ n = m + 1
    OBVIOUS
  <2>2. \A n \in 1 .. m + 1 : SubSeq(new, 1, n) \in Seq(Lines)
    BY <1>2, <1>3, <2>1
  <2> QED
    BY <2>2, ExpectedOfType
<1>6. P = [n \in 1 .. m + 1 |-> P[n]] /\ \A n \in 1 .. m + 1 : P[n] \in Seq(Objects)
  BY <1>2, <1>5
<1>7. [n \in 1 .. m |-> P[n]] = Q
  <2>1. \A n \in 1 .. m : P[n] = ExpectedOf(SubSeq(new, 1, n))
    BY <1>2
  <2>2. Q = [n \in 1 .. m |-> ExpectedOf(SubSeq(lines, 1, n))]
    BY <1>1
  <2>3. \A n \in 1 .. m : P[n] = ExpectedOf(SubSeq(lines, 1, n))
    BY <1>3, <2>1
  <2> HIDE DEF P, Q
  <2> QED
    BY ONLY <2>2, <2>3
<1>8. P[m + 1] = ExpectedOf(new)
  <2>1. P[m + 1] = ExpectedOf(SubSeq(new, 1, m + 1))
    BY <1>2
  <2> HIDE DEF P
  <2> QED
    BY ONLY <1>3, <2>1
<1>9. Q \in Seq(Seq(Objects))
  <2>1. \A n \in 1 .. m : ExpectedOf(SubSeq(lines, 1, n)) \in Seq(Objects)
    BY <1>3, ExpectedOfType
  <2> QED
    BY <1>1, <2>1
<1> HIDE DEF P, Q
<1>10. FlattenSeq(P) = FlattenSeq(Q) \o ExpectedOf(new)
  BY <1>6, <1>7, <1>8, FlattenGrows
<1>11. FlattenSeq(Q) \in Seq(Objects) /\ FlattenSeq(<< >>) = << >>
  BY <1>9, FlattenType
<1>12. Expected(<< >>) = << >>
  <2>1. [n \in DOMAIN << >> |-> ExpectedOf(SubSeq(<< >>, 1, n))] = << >>
    OBVIOUS
  <2> QED
    BY <1>11, <2>1 DEF Expected
<1> QED
  BY <1>4, <1>10, <1>11, <1>12 DEF new

-----------------------------------------------------------------------------
(* What an output should hold. *)

LEMMA StreamsAre ==
    ASSUME cmd \in Commands
    PROVE  Len(Streams) \in Nat
<1>1. Len(cmd.files) \in Nat
  BY CommandLines DEF IsSequence
<1> QED
  BY <1>1 DEF Streams

LEMMA WantedKept ==
    ASSUME cmd' = cmd
    PROVE  /\ \A o, lines, n : Wanted(o, lines, n)' = Wanted(o, lines, n)
           /\ Streams' = Streams
BY DEF Wanted, Expected, ExpectedOf, OutputOf, Streams

\* Only the lines of the first streams count.
LEMMA WantedSame ==
    ASSUME NEW n \in Nat, NEW lines, NEW others, NEW o,
           \A i \in 1 .. n : lines[i] = others[i]
    PROVE  Wanted(o, lines, n) = Wanted(o, others, n)
<1> DEFINE writers == {i \in 1 .. n : OutputOf(Streams[i]) = o}
<1>1. \A ls : Wanted(o, ls, n) = IF ~cmd.write THEN FlattenSeq([i \in 1 .. n |-> Expected(ls[i])])
                                 ELSE IF writers = {} THEN << >> ELSE Expected(ls[Max(writers)])
  BY DEF Wanted
<1>2. writers # {} => Max(writers) \in 1 .. n
  <2>1. writers \in SUBSET (0 .. n) /\ writers \subseteq 1 .. n
    OBVIOUS
  <2> HIDE DEF writers
  <2> QED
    BY <2>1, MaxOfNumbers
<1>3. [i \in 1 .. n |-> Expected(lines[i])] = [i \in 1 .. n |-> Expected(others[i])]
  OBVIOUS
<1> HIDE DEF writers
<1> QED
  BY <1>1, <1>2, <1>3

\* Without -o the outputs of the streams follow one another; with it a stream
\* has an output of its own, and the last of a name stays.
LEMMA WantedStep ==
    ASSUME NEW n \in Nat, NEW lines, \A i \in 1 .. n + 1 : lines[i] \in Seq(Lines), NEW o
    PROVE  /\ Wanted(o, lines, n) \in Seq(Objects)
           /\ Wanted(o, lines, 0) = << >>
           /\ Wanted(o, lines, n + 1) =
                 IF ~cmd.write THEN Wanted(o, lines, n) \o Expected(lines[n + 1])
                 ELSE IF OutputOf(Streams[n + 1]) = o THEN Expected(lines[n + 1])
                 ELSE Wanted(o, lines, n)
<1> DEFINE writers(k) == {i \in 1 .. k : OutputOf(Streams[i]) = o}
           P == [i \in 1 .. n + 1 |-> Expected(lines[i])]
           Q == [i \in 1 .. n |-> Expected(lines[i])]
<1>1. \A i \in 1 .. n + 1 : Expected(lines[i]) \in Seq(Objects)
  <2>1. \A ls \in Seq(Lines) : Expected(ls) \in Seq(Objects)
    <3> SUFFICES ASSUME NEW ls \in Seq(Lines) PROVE Expected(ls) \in Seq(Objects)
      OBVIOUS
    <3>1. CASE Lines = {}
      <4>1. ls = << >>
        BY <3>1
      <4>2. [i \in DOMAIN ls |-> ExpectedOf(SubSeq(ls, 1, i))] = << >>
        BY <4>1
      <4>3. << >> \in Seq(Seq(Objects))
        OBVIOUS
      <4>4. FlattenSeq(<< >>) \in Seq(Objects)
        BY <4>3, FlattenType
      <4> QED
        BY <4>2, <4>4 DEF Expected
    <3>2. CASE Lines # {}
      BY <3>2, ExpectedGrows
    <3> QED
      BY <3>1, <3>2
  <2> QED
    BY <2>1
<1>2. \A k \in Nat : Wanted(o, lines, k) =
         IF ~cmd.write THEN FlattenSeq([i \in 1 .. k |-> Expected(lines[i])])
         ELSE IF writers(k) = {} THEN << >> ELSE Expected(lines[Max(writers(k))])
  BY DEF Wanted
<1>3. Q \in Seq(Seq(Objects)) /\ P = [i \in 1 .. n + 1 |-> P[i]]
      /\ (\A i \in 1 .. n + 1 : P[i] \in Seq(Objects)) /\ [i \in 1 .. n |-> P[i]] = Q
      /\ P[n + 1] = Expected(lines[n + 1])
  <2>1. \A i \in 1 .. n : i \in 1 .. n + 1
    OBVIOUS
  <2>2. n + 1 \in 1 .. n + 1
    OBVIOUS
  <2> QED
    BY ONLY <1>1, <2>1, <2>2, n \in Nat
<1>4. FlattenSeq(P) = FlattenSeq(Q) \o Expected(lines[n + 1])
  <2> HIDE DEF P, Q
  <2> QED
    BY <1>3, FlattenGrows
<1>5. FlattenSeq(Q) \in Seq(Objects) /\ FlattenSeq(<< >>) = << >>
  <2> HIDE DEF Q
  <2> QED
    BY <1>3, FlattenType
<1>6. Wanted(o, lines, 0) = << >>
  <2>1. [i \in 1 .. 0 |-> Expected(lines[i])] = << >> /\ writers(0) = {}
    OBVIOUS
  <2> QED
    BY <1>2, <1>5, <2>1
<1>7. \A k \in 0 .. n + 1 : writers(k) # {} =>
         /\ Max(writers(k)) \in writers(k)
         /\ \A y \in writers(k) : y <= Max(writers(k))
  <2> SUFFICES ASSUME NEW k \in 0 .. n + 1, writers(k) # {}
               PROVE  /\ Max(writers(k)) \in writers(k)
                      /\ \A y \in writers(k) : y <= Max(writers(k))
    OBVIOUS
  <2>1. writers(k) \in SUBSET (0 .. k) /\ k \in Nat
    OBVIOUS
  <2> HIDE DEF writers
  <2> QED
    BY <2>1, MaxOfNumbers
<1>8. Wanted(o, lines, n) \in Seq(Objects)
  <2>1. writers(n) # {} => Expected(lines[Max(writers(n))]) \in Seq(Objects)
    <3>1. writers(n) # {} => Max(writers(n)) \in 1 .. n + 1
      BY <1>7
    <3> HIDE DEF writers
    <3> QED
      BY <1>1, <3>1
  <2>2. << >> \in Seq(Objects)
    OBVIOUS
  <2> HIDE DEF writers
  <2> QED
    BY <1>2, <1>5, <2>1, <2>2
<1>9. writers(n + 1) = IF OutputOf(Streams[n + 1]) = o THEN writers(n) \cup {n + 1} ELSE writers(n)
  <2>1. \A i : i \in 1 .. n + 1 <=> i \in 1 .. n \/ i = n + 1
    OBVIOUS
  <2> QED
    BY ONLY <2>1
<1>10. OutputOf(Streams[n + 1]) = o => Max(writers(n + 1)) = n + 1
  <2> SUFFICES ASSUME OutputOf(Streams[n + 1]) = o PROVE Max(writers(n + 1)) = n + 1
    OBVIOUS
  <2>1. writers(n + 1) \in SUBSET Int /\ n + 1 \in writers(n + 1)
    OBVIOUS
  <2>2. \A y \in writers(n + 1) : y <= n + 1
    OBVIOUS
  <2> HIDE DEF writers
  <2> QED
    BY <2>1, <2>2, MaxIs
<1>11. OutputOf(Streams[n + 1]) = o => writers(n + 1) # {}
  BY <1>9
<1> HIDE DEF writers
<1>12. CASE ~cmd.write
  <2>1. Wanted(o, lines, n + 1) = FlattenSeq(P) /\ Wanted(o, lines, n) = FlattenSeq(Q)
    BY <1>2, <1>12
  <2> QED
    BY <1>4, <1>6, <1>8, <1>12, <2>1
<1>13. CASE cmd.write
  <2>1. n + 1 \in Nat
    OBVIOUS
  <2> HIDE DEF P, Q
  <2> QED
    BY ONLY <1>2, <1>6, <1>8, <1>9, <1>10, <1>11, <1>13, <2>1, n \in Nat
<1> QED
  BY <1>12, <1>13

-----------------------------------------------------------------------------
(* The run. *)

Types ==
    /\ cmd \in Commands
    /\ phase \in {"start", "open", "read", "failed", "done"}
    /\ at \in 1 .. Len(Streams) + 1
    /\ inputs \in [1 .. Len(Streams) -> Seq(Lines)]
    /\ outputs = [o \in DOMAIN outputs |-> outputs[o]]

AtEnds ==
    /\ phase = "start" => at = 1
    /\ phase = "done" => at = Len(Streams) + 1

\* Nothing has been read of a stream that has not been opened.
Ahead ==
    \A i \in 1 .. Len(Streams) :
        i > at \/ (i = at /\ phase \in {"start", "open"}) => inputs[i] = << >>

\* While a stream is read its output is open, and the typeTracker knows the
\* fields of its lines and no others.
Reading ==
    phase = "read" => /\ at <= Len(Streams)
                      /\ Output \in DOMAIN outputs
                      /\ kinds = KindsOf(FieldsRead(inputs[at]))

OneOutput == ~cmd.write => DOMAIN outputs = {Stdout}

IInv == Types /\ AtEnds /\ Ahead /\ Reading /\ OneOutput /\ OutputFollowsInput

\* The last stream that was opened, while one is read.
LEMMA LastIs ==
    ASSUME NEW n \in Nat, NEW k \in 1 .. n + 1
    PROVE  Min({k, n}) = IF k <= n THEN k ELSE n
<1>1. {k, n} \in SUBSET Nat /\ {k, n} # {}
  OBVIOUS
<1>2. Min({k, n}) \in {k, n} /\ Min({k, n}) <= k /\ Min({k, n}) <= n
  BY <1>1, MinIs
<1> QED
  BY <1>2

LEMMA NothingWanted == \A o, lines : Wanted(o, lines, 0) = << >>
<1> SUFFICES ASSUME NEW o, NEW lines PROVE Wanted(o, lines, 0) = << >>
  OBVIOUS
<1>1. [i \in 1 .. 0 |-> Expected(lines[i])] = << >>
  OBVIOUS
<1>2. << >> \in Seq(Seq(Objects)) /\ FlattenSeq(<< >>) = << >>
  <2>1. << >> \in Seq(Seq(Objects))
    OBVIOUS
  <2> QED
    BY <2>1, FlattenType
<1>3. {i \in 1 .. 0 : OutputOf(Streams[i]) = o} = {}
  OBVIOUS
<1> QED
  BY <1>1, <1>2, <1>3 DEF Wanted

\* OutputFollowsInput of the next state, in terms of this one.
LEMMA Following ==
    ASSUME cmd' = cmd, NEW k, at' = k, NEW lines, inputs' = lines,
           NEW less, WithoutLast' = less,
           \A o \in DOMAIN outputs' :
              \/ outputs'[o] = Wanted(o, lines, IF phase' \in {"read", "failed"}
                                                THEN Min({k, Len(Streams)}) ELSE k - 1)
              \/ phase' = "failed" /\ outputs'[o] = Wanted(o, less, Min({k, Len(Streams)}))
              \/ phase' = "failed" /\ k <= Len(Streams) /\ lines[k] = << >>
                 /\ outputs'[o] = Wanted(o, lines, k - 1)
    PROVE  OutputFollowsInput'
BY WantedKept DEF OutputFollowsInput

LEMMA InitIInv == Init => IInv
<1> SUFFICES ASSUME Init PROVE IInv
  OBVIOUS
<1>1. /\ cmd \in Commands /\ phase = "start" /\ at = 1
      /\ outputs = [o \in {Stdout} |-> << >>]
      /\ inputs = [i \in 1 .. Len(Streams) |-> << >>]
  BY DEF Init
<1>2. Len(Streams) \in Nat
  BY <1>1, StreamsAre
<1>3. Types
  <2>1. << >> \in Seq(Lines)
    OBVIOUS
  <2> QED
    BY <1>1, <1>2, <2>1 DEF Types
<1>4. AtEnds /\ Ahead /\ Reading /\ OneOutput
  BY <1>1 DEF AtEnds, Ahead, Reading, OneOutput
<1>5. OutputFollowsInput
  <2> SUFFICES ASSUME NEW o \in DOMAIN outputs
               PROVE  outputs[o] = Wanted(o, inputs, at - 1)
    BY <1>1 DEF OutputFollowsInput
  <2>1. outputs[o] = << >> /\ at - 1 = 0
    BY <1>1
  <2>2. Wanted(o, inputs, 0) = << >>
    BY NothingWanted
  <2> QED
    BY <2>1, <2>2
<1> QED
  BY <1>3, <1>4, <1>5 DEF IInv

LEMMA StartIInv ==
    ASSUME IInv, Start \/ Finish
    PROVE  IInv'
<1>1. /\ UNCHANGED <<cmd, at, kinds, outputs, inputs>>
      /\ \/ phase = "start" /\ phase' = "open"
         \/ phase = "open" /\ phase' = "done" /\ at > Len(Streams)
  BY DEF Start, Finish
<1>2. Streams' = Streams /\ Len(Streams) \in Nat
  BY <1>1, WantedKept, StreamsAre DEF IInv, Types
<1>3. Types' /\ AtEnds' /\ Ahead' /\ Reading' /\ OneOutput'
  BY <1>1, <1>2 DEF IInv, Types, AtEnds, Ahead, Reading, OneOutput
<1>4. \A o \in DOMAIN outputs : outputs[o] = Wanted(o, inputs, at - 1)
  BY <1>1 DEF IInv, OutputFollowsInput
<1>5. OutputFollowsInput'
  BY <1>1, <1>4, Following
<1> QED
  BY <1>3, <1>5 DEF IInv

LEMMA RefuseIInv ==
    ASSUME IInv, Refuse
    PROVE  IInv'
<1>1. /\ UNCHANGED <<cmd, at, kinds, outputs, inputs>>
      /\ phase = "start" /\ phase' = "failed"
  BY DEF Refuse
<1>2. Streams' = Streams /\ Len(Streams) \in Nat /\ at = 1
  BY <1>1, WantedKept, StreamsAre DEF IInv, Types, AtEnds
<1>3. Types' /\ AtEnds' /\ Ahead' /\ Reading' /\ OneOutput'
  BY <1>1, <1>2 DEF IInv, Types, AtEnds, Ahead, Reading, OneOutput
<1>4. \A o \in DOMAIN outputs : outputs[o] = Wanted(o, inputs, at - 1)
  BY <1>1 DEF IInv, OutputFollowsInput
<1>5. CASE at <= Len(Streams)
  <2>1. inputs[at] = << >>
    BY <1>1, <1>2, <1>5 DEF IInv, Ahead
  <2> QED
    BY <1>1, <1>3, <1>4, <1>5, <2>1, Following DEF IInv
<1>6. CASE ~(at <= Len(Streams))
  <2>1. Min({at, Len(Streams)}) = at - 1
    <3>1. Min({at, Len(Streams)}) = Len(Streams) /\ Len(Streams) = 0
      BY <1>2, <1>6, LastIs
    <3> QED
      BY <1>2, <3>1
  <2> QED
    BY <1>1, <1>3, <1>4, <2>1, Following DEF IInv
<1> QED
  BY <1>5, <1>6

\* What opening a stream does to the outputs, when it has not been read.
LEMMA CreatedFollows ==
    ASSUME IInv, phase = "open", at <= Len(Streams)
    PROVE  /\ \A o \in DOMAIN Created : Created[o] = Wanted(o, inputs, at)
           /\ DOMAIN Created = IF cmd.write THEN DOMAIN outputs \cup {Output} ELSE DOMAIN outputs
           /\ Created = [o \in DOMAIN Created |-> Created[o]]
<1>1. /\ Len(Streams) \in Nat /\ at \in 1 .. Len(Streams) /\ inputs[at] = << >>
      /\ inputs \in [1 .. Len(Streams) -> Seq(Lines)]
      /\ outputs = [o \in DOMAIN outputs |-> outputs[o]]
  BY StreamsAre DEF IInv, Types, Ahead
<1>2. \A o \in DOMAIN outputs : outputs[o] = Wanted(o, inputs, at - 1)
  BY DEF IInv, OutputFollowsInput
<1>3. Expected(<< >>) = << >>
  <2>1. [n \in DOMAIN << >> |-> ExpectedOf(SubSeq(<< >>, 1, n))] = << >>
    OBVIOUS
  <2>2. FlattenSeq(<< >>) = << >>
    <3>1. << >> \in Seq(Seq(Objects))
      OBVIOUS
    <3> QED
      BY <3>1, FlattenType
  <2> QED
    BY <2>1, <2>2 DEF Expected
<1>4. ASSUME NEW o
      PROVE  /\ Wanted(o, inputs, at - 1) \in Seq(Objects)
             /\ Wanted(o, inputs, at) =
                   IF ~cmd.write THEN Wanted(o, inputs, at - 1)
                   ELSE IF Output = o THEN << >> ELSE Wanted(o, inputs, at - 1)
  <2>1. PICK n \in Nat : n + 1 = at /\ n = at - 1
    BY <1>1
  <2>2. \A i \in 1 .. n + 1 : inputs[i] \in Seq(Lines)
    BY <1>1, <2>1
  <2>3. /\ Wanted(o, inputs, n) \in Seq(Objects)
        /\ Wanted(o, inputs, n + 1) =
              IF ~cmd.write THEN Wanted(o, inputs, n) \o Expected(inputs[n + 1])
              ELSE IF OutputOf(Streams[n + 1]) = o THEN Expected(inputs[n + 1])
              ELSE Wanted(o, inputs, n)
    BY <2>2, WantedStep
  <2>4. Wanted(o, inputs, n) \o << >> = Wanted(o, inputs, n)
    BY <2>3
  <2> QED
    BY <1>1, <1>3, <2>1, <2>3, <2>4 DEF Output
<1>5. CASE ~cmd.write
  BY <1>1, <1>2, <1>4, <1>5 DEF Created
<1>6. CASE cmd.write
  <2>1. Created = [o \in DOMAIN outputs \cup {Output} |-> IF o = Output THEN << >> ELSE outputs[o]]
    BY <1>6 DEF Created, With
  <2> QED
    BY <1>2, <1>4, <1>6, <2>1
<1> QED
  BY <1>5, <1>6

LEMMA OpenIInv ==
    ASSUME IInv, Open
    PROVE  IInv'
<1>1. /\ UNCHANGED <<cmd, at, inputs>> /\ outputs' = Created /\ kinds' = << >>
      /\ phase = "open" /\ phase' = "read" /\ at <= Len(Streams)
  BY DEF Open
<1>2. /\ Streams' = Streams /\ Len(Streams) \in Nat /\ at \in 1 .. Len(Streams)
      /\ inputs[at] = << >> /\ Output' = Output
  BY <1>1, WantedKept, StreamsAre DEF IInv, Types, Ahead, Output, OutputOf
<1>3. /\ \A o \in DOMAIN Created : Created[o] = Wanted(o, inputs, at)
      /\ DOMAIN Created = IF cmd.write THEN DOMAIN outputs \cup {Output} ELSE DOMAIN outputs
      /\ Created = [o \in DOMAIN Created |-> Created[o]]
  BY <1>1, CreatedFollows
<1>4. Types' /\ AtEnds' /\ Ahead'
  BY <1>1, <1>2, <1>3 DEF IInv, Types, AtEnds, Ahead
<1>5. OneOutput'
  BY <1>1, <1>3 DEF IInv, OneOutput
<1>6. Reading'
  <2>1. Output \in DOMAIN Created
    <3>1. ~cmd.write => Output = Stdout
      BY DEF Output, OutputOf
    <3> QED
      BY <1>3, <3>1 DEF IInv, OneOutput
  <2>2. FieldsRead(<< >>) = << >>
    <3>1. [n \in DOMAIN << >> |-> ReadPart(FieldTail(<< >>[n].tokens))] = << >>
      OBVIOUS
    <3>2. << >> \in Seq(Seq(Tokens))
      OBVIOUS
    <3>3. FlattenSeq(<< >>) = << >>
      BY <3>2, FlattenType
    <3> QED
      BY <3>1, <3>3 DEF FieldsRead
  <2> QED
    BY <1>1, <1>2, <2>1, <2>2, NoKinds DEF Reading
<1>7. OutputFollowsInput'
  <2>1. Min({at, Len(Streams)}) = at
    BY <1>2, LastIs
  <2> QED
    BY <1>1, <1>3, <2>1, Following
<1> QED
  BY <1>4, <1>5, <1>6, <1>7 DEF IInv

LEMMA OpenFailsIInv ==
    ASSUME IInv, OpenFails
    PROVE  IInv'
<1>1. /\ UNCHANGED <<cmd, at, kinds, inputs>> /\ (outputs' = Created \/ outputs' = outputs)
      /\ phase = "open" /\ phase' = "failed" /\ at <= Len(Streams)
  BY DEF OpenFails
<1>2. /\ Streams' = Streams /\ Len(Streams) \in Nat /\ at \in 1 .. Len(Streams)
      /\ inputs[at] = << >>
  BY <1>1, WantedKept, StreamsAre DEF IInv, Types, Ahead
<1>3. /\ \A o \in DOMAIN Created : Created[o] = Wanted(o, inputs, at)
      /\ DOMAIN Created = IF cmd.write THEN DOMAIN outputs \cup {Output} ELSE DOMAIN outputs
      /\ Created = [o \in DOMAIN Created |-> Created[o]]
  BY <1>1, CreatedFollows
<1>4. Types' /\ AtEnds' /\ Ahead' /\ Reading'
  BY <1>1, <1>2, <1>3 DEF IInv, Types, AtEnds, Ahead, Reading
<1>5. OneOutput'
  BY <1>1, <1>3 DEF IInv, OneOutput
<1>6. OutputFollowsInput'
  <2>1. Min({at, Len(Streams)}) = at
    BY <1>2, LastIs
  <2>2. CASE outputs' = Created
    BY <1>1, <1>3, <2>1, <2>2, Following
  <2>3. CASE outputs' = outputs
    <3>1. \A o \in DOMAIN outputs : outputs[o] = Wanted(o, inputs, at - 1)
      BY <1>1 DEF IInv, OutputFollowsInput
    <3> QED
      BY <1>1, <1>2, <2>3, <3>1, Following
  <2> QED
    BY <1>1, <2>2, <2>3
<1> QED
  BY <1>4, <1>5, <1>6 DEF IInv

\* While a stream is read, every output holds what it should.
LEMMA ReadingFollows ==
    ASSUME IInv, phase = "read"
    PROVE  /\ Len(Streams) \in Nat /\ at \in 1 .. Len(Streams)
           /\ Min({at, Len(Streams)}) = at
           /\ \A o \in DOMAIN outputs : outputs[o] = Wanted(o, inputs, at)
<1>1. Len(Streams) \in Nat /\ at \in 1 .. Len(Streams)
  BY StreamsAre DEF IInv, Types, Reading
<1>2. Min({at, Len(Streams)}) = at
  BY <1>1, LastIs
<1> QED
  BY <1>1, <1>2 DEF IInv, OutputFollowsInput

LEMMA EndIInv ==
    ASSUME IInv, EndStream \/ EndFails
    PROVE  IInv'
<1>1. /\ UNCHANGED <<cmd, kinds, outputs, inputs>> /\ phase = "read"
      /\ \/ phase' = "open" /\ at' = at + 1
         \/ phase' = "failed" /\ at' = at
  BY DEF EndStream, EndFails
<1>2. /\ Streams' = Streams /\ Len(Streams) \in Nat /\ at \in 1 .. Len(Streams)
      /\ Min({at, Len(Streams)}) = at
      /\ \A o \in DOMAIN outputs : outputs[o] = Wanted(o, inputs, at)
  BY <1>1, WantedKept, ReadingFollows
<1>3. Types' /\ AtEnds' /\ Ahead' /\ Reading' /\ OneOutput'
  BY <1>1, <1>2 DEF IInv, Types, AtEnds, Ahead, Reading, OneOutput
<1>4. OutputFollowsInput'
  <2>1. CASE phase' = "open" /\ at' = at + 1
    <3>1. (at + 1) - 1 = at
      BY <1>2
    <3> QED
      BY <1>1, <1>2, <2>1, <3>1, Following
  <2>2. CASE phase' = "failed" /\ at' = at
    BY <1>1, <1>2, <2>2, Following
  <2> QED
    BY <1>1, <2>1, <2>2
<1> QED
  BY <1>3, <1>4 DEF IInv

\* The object of a line that has just been read, were it printed.
Json(lines) ==
    OrderedJSON(Doc(Last(lines).tokens, ExpectedFields(lines)), ExpectedFields(lines))

Printed(lines) ==
    /\ Last(lines).tokens # << >>
    /\ WellFormed(FieldTail(Last(lines).tokens))
    /\ Matches(cmd.filter, Doc(Last(lines).tokens, ExpectedFields(lines)))

\* ReadLine, in terms of what is expected of the lines.
LEMMA LineIsRead ==
    ASSUME IInv, NEW line \in Lines, ReadLine(line)
    PROVE  LET new == Append(inputs[at], line)
           IN  /\ phase = "read" /\ UNCHANGED <<cmd, at>>
               /\ inputs' = [inputs EXCEPT ![at] = new]
               /\ kinds' = KindsOf(FieldsRead(new))
               /\ \/ /\ Printed(new) => Encodes(Json(new))
                     /\ outputs' = IF Printed(new)
                                   THEN [outputs EXCEPT ![Output] = Append(@, Json(new))]
                                   ELSE outputs
                     /\ phase' = phase
                  \/ Printed(new) /\ phase' = "failed" /\ outputs' = outputs
<1> DEFINE lines == inputs[at]
           new == Append(lines, line)
           tail == FieldTail(line.tokens)
           parsed == ParseFields(tail, kinds)
           doc == Doc(line.tokens, parsed.fields)
           json == OrderedJSON(doc, parsed.fields)
           print == line.tokens # << >> /\ parsed.ok /\ Matches(cmd.filter, doc)
<1>1. /\ phase = "read" /\ UNCHANGED <<cmd, at>>
      /\ inputs' = [inputs EXCEPT ![at] = new]
      /\ kinds' = parsed.kinds
      /\ \/ /\ print => Encodes(json)
            /\ outputs' = IF print THEN [outputs EXCEPT ![Output] = Append(@, json)] ELSE outputs
            /\ phase' = phase
         \/ print /\ phase' = "failed" /\ outputs' = outputs
  BY Zenon DEF ReadLine
<1>2. lines \in Seq(Lines) /\ kinds = KindsOf(FieldsRead(lines))
  BY <1>1, ReadingFollows DEF IInv, Types, Reading
<1>3. /\ parsed.ok <=> WellFormed(tail)
      /\ parsed.kinds = KindsOf(FieldsRead(new))
      /\ parsed.fields = ExpectedFields(new)
  BY <1>2, LineParsed
<1>4. Last(new) = line
  BY <1>2, AppendIs
<1> HIDE DEF new, parsed
<1>5. json = Json(new) /\ (print <=> Printed(new))
  BY <1>3, <1>4, Zenon DEF Json, Printed
<1> HIDE DEF json, print
<1> QED
  BY <1>1, <1>3, <1>5, Zenon DEF new

LEMMA ExpectedOfIs ==
    ASSUME NEW lines
    PROVE  ExpectedOf(lines) = IF Printed(lines) /\ Encodes(Json(lines))
                               THEN << Json(lines) >> ELSE << >>
BY DEF ExpectedOf, Printed, Json

LEMMA ReadLineIInv ==
    ASSUME IInv, NEW line \in Lines, ReadLine(line)
    PROVE  IInv'
<1> DEFINE new == Append(inputs[at], line)
           json == Json(new)
           print == Printed(new)
           next == [inputs EXCEPT ![at] = new]
<1>1. /\ phase = "read" /\ UNCHANGED <<cmd, at>>
      /\ inputs' = next
      /\ kinds' = KindsOf(FieldsRead(new))
      /\ \/ /\ print => Encodes(json)
            /\ outputs' = IF print THEN [outputs EXCEPT ![Output] = Append(@, json)] ELSE outputs
            /\ phase' = phase
         \/ print /\ phase' = "failed" /\ outputs' = outputs
  BY LineIsRead
<1>2. /\ Streams' = Streams /\ Len(Streams) \in Nat /\ at \in 1 .. Len(Streams)
      /\ Min({at, Len(Streams)}) = at
      /\ \A o \in DOMAIN outputs : outputs[o] = Wanted(o, inputs, at)
  BY <1>1, WantedKept, ReadingFollows
<1>3. /\ inputs \in [1 .. Len(Streams) -> Seq(Lines)]
      /\ outputs = [o \in DOMAIN outputs |-> outputs[o]]
      /\ Output \in DOMAIN outputs
  BY <1>1 DEF IInv, Types, Reading
<1>4. /\ inputs[at] \in Seq(Lines) /\ new \in Seq(Lines)
      /\ new # << >> /\ Front(new) = inputs[at]
  <2>1. inputs[at] \in Seq(Lines)
    BY <1>2, <1>3
  <2> QED
    BY ONLY <2>1, AppendIs, line \in Lines
<1> HIDE DEF new
<1>5. /\ next \in [1 .. Len(Streams) -> Seq(Lines)] /\ next[at] = new
      /\ \A i \in 1 .. Len(Streams) : i # at => next[i] = inputs[i]
  BY <1>2, <1>3, <1>4
<1> HIDE DEF next, json, print
<1>6. DOMAIN outputs' = DOMAIN outputs /\ outputs' = [o \in DOMAIN outputs' |-> outputs'[o]]
  BY <1>1, <1>3
<1>7. Types' /\ AtEnds' /\ Ahead'
  BY <1>1, <1>2, <1>5, <1>6 DEF IInv, Types, AtEnds, Ahead
<1>8. Reading' /\ OneOutput'
  BY <1>1, <1>2, <1>3, <1>5, <1>6 DEF IInv, OneOutput, Reading, Output, OutputOf
<1>9. WithoutLast' = inputs
  <2>1. DOMAIN next = 1 .. Len(Streams) /\ DOMAIN inputs = 1 .. Len(Streams)
    BY <1>3, <1>5
  <2>2. \A i \in 1 .. Len(Streams) :
           (IF i = at /\ next[i] # << >> THEN Front(next[i]) ELSE next[i]) = inputs[i]
    BY <1>4, <1>5
  <2>3. WithoutLast' = [i \in DOMAIN next |->
                          IF i = at /\ next[i] # << >> THEN Front(next[i]) ELSE next[i]]
    BY <1>1 DEF WithoutLast
  <2> QED
    BY <1>3, <2>1, <2>2, <2>3
<1>10. Expected(new) = Expected(inputs[at]) \o ExpectedOf(new)
  BY <1>4, ExpectedGrows DEF new
<1>11. ASSUME NEW o
       PROVE  Wanted(o, next, at) = IF o = Output \/ ~cmd.write
                                    THEN Wanted(o, inputs, at) \o ExpectedOf(new)
                                    ELSE Wanted(o, inputs, at)
  <2>1. PICK n \in Nat : n + 1 = at
    BY <1>2
  <2>2. \A i \in 1 .. n + 1 : inputs[i] \in Seq(Lines) /\ next[i] \in Seq(Lines)
    BY <1>2, <1>3, <1>5, <2>1
  <2>3. Wanted(o, next, n) = Wanted(o, inputs, n)
    <3>1. \A i \in 1 .. n : next[i] = inputs[i]
      BY <1>2, <1>5, <2>1
    <3> QED
      BY <3>1, WantedSame
  <2>4. /\ Wanted(o, inputs, n) \in Seq(Objects)
        /\ Wanted(o, inputs, at) =
              IF ~cmd.write THEN Wanted(o, inputs, n) \o Expected(inputs[at])
              ELSE IF Output = o THEN Expected(inputs[at])
              ELSE Wanted(o, inputs, n)
    BY <2>1, <2>2, WantedStep DEF Output
  <2>5. Wanted(o, next, at) =
           IF ~cmd.write THEN Wanted(o, next, n) \o Expected(next[at])
           ELSE IF Output = o THEN Expected(next[at])
           ELSE Wanted(o, next, n)
    BY <2>1, <2>2, WantedStep DEF Output
  <2>6. Expected(inputs[at]) \in Seq(Objects) /\ ExpectedOf(new) \in Seq(Objects)
    BY <1>4, ExpectedGrows, ExpectedOfType
  <2>7. Wanted(o, inputs, n) \o (Expected(inputs[at]) \o ExpectedOf(new)) =
           (Wanted(o, inputs, n) \o Expected(inputs[at])) \o ExpectedOf(new)
    BY <2>4, <2>6, ConcatAssoc
  <2> QED
    BY ONLY <1>5, <1>10, <2>3, <2>4, <2>5, <2>7
<1>12. \A o : Wanted(o, inputs, at) \in Seq(Objects)
  <2> SUFFICES ASSUME NEW o PROVE Wanted(o, inputs, at) \in Seq(Objects)
    OBVIOUS
  <2>1. PICK n \in Nat : n + 1 = at
    BY <1>2
  <2>2. \A i \in 1 .. n + 1 : inputs[i] \in Seq(Lines)
    BY <1>2, <1>3, <2>1
  <2>3. /\ Wanted(o, inputs, n) \in Seq(Objects)
        /\ Wanted(o, inputs, at) =
              IF ~cmd.write THEN Wanted(o, inputs, n) \o Expected(inputs[at])
              ELSE IF Output = o THEN Expected(inputs[at])
              ELSE Wanted(o, inputs, n)
    BY <2>1, <2>2, WantedStep DEF Output
  <2>4. Expected(inputs[at]) \in Seq(Objects)
    BY <1>4, ExpectedGrows
  <2>5. Wanted(o, inputs, n) \o Expected(inputs[at]) \in Seq(Objects)
    BY <2>3, <2>4
  <2> QED
    BY ONLY <2>3, <2>4, <2>5
<1>13. ExpectedOf(new) = IF print /\ Encodes(json) THEN << json >> ELSE << >>
  BY ExpectedOfIs DEF print, json
<1>14. ~cmd.write => \A o \in DOMAIN outputs : o = Output
  <2>1. ~cmd.write => Output = Stdout
    BY DEF Output, OutputOf
  <2> QED
    BY <2>1 DEF IInv, OneOutput
<1>15. CASE phase' = phase /\ (print => Encodes(json))
            /\ outputs' = IF print THEN [outputs EXCEPT ![Output] = Append(@, json)] ELSE outputs
  <2>1. \A o \in DOMAIN outputs' : outputs'[o] = Wanted(o, next, at)
    <3> SUFFICES ASSUME NEW o \in DOMAIN outputs PROVE outputs'[o] = Wanted(o, next, at)
      BY <1>6
    <3>1. outputs[o] = Wanted(o, inputs, at) /\ outputs[o] \in Seq(Objects)
      BY <1>2, <1>12
    <3>2. outputs[o] \o << >> = outputs[o]
      BY <3>1
    <3>3. CASE print
      <4>1. ExpectedOf(new) = << json >> /\ json \in Objects
        BY <1>4, <1>13, <1>15, <3>3 DEF Objects, json, Json
      <4>2. outputs'[o] = IF o = Output THEN Append(outputs[o], json) ELSE outputs[o]
        BY <1>3, <1>15, <3>3
      <4>3. Append(outputs[o], json) = outputs[o] \o << json >>
        BY <3>1, <4>1, AppendIs
      <4> QED
        BY <1>11, <1>14, <3>1, <4>1, <4>2, <4>3
    <3>4. CASE ~print
      <4>1. ExpectedOf(new) = << >> /\ outputs' = outputs
        BY <1>13, <1>15, <3>4
      <4> QED
        BY <1>11, <3>1, <3>2, <4>1
    <3> QED
      BY <3>3, <3>4
  <2>2. OutputFollowsInput'
    BY <1>1, <1>2, <1>9, <1>15, <2>1, Following
  <2> QED
    BY <1>7, <1>8, <2>2 DEF IInv
<1>16. CASE phase' = "failed" /\ outputs' = outputs
  <2>1. OutputFollowsInput'
    BY <1>1, <1>2, <1>9, <1>16, Following
  <2> QED
    BY <1>7, <1>8, <2>1 DEF IInv
<1> QED
  BY <1>1, <1>15, <1>16

LEMMA StepIInv == IInv /\ [Next]_vars => IInv'
<1> SUFFICES ASSUME IInv, [Next]_vars PROVE IInv'
  OBVIOUS
<1>1. CASE UNCHANGED vars
  <2>1. UNCHANGED <<cmd, phase, at, kinds, outputs, inputs>>
    BY <1>1 DEF vars
  <2>2. Streams' = Streams
    BY <2>1, WantedKept
  <2>3. Types' /\ AtEnds' /\ Ahead' /\ Reading' /\ OneOutput'
    BY <2>1, <2>2 DEF IInv, Types, AtEnds, Ahead, Reading, OneOutput, Output, OutputOf
  <2>4. WithoutLast' = WithoutLast
    BY <2>1 DEF WithoutLast
  <2>5. OutputFollowsInput'
    <3> DEFINE less == WithoutLast
    <3>1. \A o \in DOMAIN outputs :
             \/ outputs[o] = Wanted(o, inputs, IF phase \in {"read", "failed"}
                                              THEN Min({at, Len(Streams)}) ELSE at - 1)
             \/ phase = "failed" /\ outputs[o] = Wanted(o, less, Min({at, Len(Streams)}))
             \/ phase = "failed" /\ at <= Len(Streams) /\ inputs[at] = << >>
                /\ outputs[o] = Wanted(o, inputs, at - 1)
      BY DEF IInv, OutputFollowsInput
    <3>2. WithoutLast' = less
      BY <2>4
    <3> HIDE DEF less
    <3> DEFINE k == at
               lines == inputs
    <3>3. cmd' = cmd /\ at' = k /\ inputs' = lines
      BY <2>1
    <3>4. \A o \in DOMAIN outputs' :
             \/ outputs'[o] = Wanted(o, lines, IF phase' \in {"read", "failed"}
                                               THEN Min({k, Len(Streams)}) ELSE k - 1)
             \/ phase' = "failed" /\ outputs'[o] = Wanted(o, less, Min({k, Len(Streams)}))
             \/ phase' = "failed" /\ k <= Len(Streams) /\ lines[k] = << >>
                /\ outputs'[o] = Wanted(o, lines, k - 1)
      BY ONLY <2>1, <3>1
    <3> HIDE DEF k, lines
    <3> QED
      BY ONLY <3>2, <3>3, <3>4, Following
  <2> QED
    BY <2>3, <2>5 DEF IInv
<1>2. CASE Next
  BY <1>2, StartIInv, RefuseIInv, OpenIInv, OpenFailsIInv, ReadLineIInv, EndIInv DEF Next
<1> QED
  BY <1>1, <1>2

\* The tracker knows what its stream has shown, and the outputs hold what they
\* should, in every state of a run (processReader).
THEOREM Invariance == Spec => []IInv
<1>1. IInv /\ [Next]_vars => IInv'
  BY StepIInv
<1> QED
  BY <1>1, InitIInv, PTL DEF Spec

\* Every output is the conversion of the lines of its streams and of them
\* alone, for any command line and any lines.
THEOREM OutputConverted == Spec => []OutputFollowsInput
<1>1. IInv => OutputFollowsInput
  BY DEF IInv
<1> QED
  BY <1>1, Invariance, PTL

-----------------------------------------------------------------------------
(* Quoted values. *)

\* Only what follows counts.
LEMMA ReadsOn ==
    ASSUME NEW body, Len(body) \in Nat, NEW F, NEW H, NEW i \in 1 .. Len(body) + 4,
           \A j \in 1 .. Len(body) + 4 : j > i => F[j] = H[j]
    PROVE  ReadAt(body, F, i) = ReadAt(body, H, i)
<1>1. PICK n \in Nat : n = Len(body)
  OBVIOUS
<1>2. CASE i > n
  <2>1. ~(i <= Len(body)) /\ i > Len(body) /\ i # Len(body) /\ ~(i < Len(body))
    BY <1>1, <1>2
  <2> QED
    BY ONLY <2>1, Zenon DEF ReadAt
<1>3. CASE i <= n
  <2>1. F[i + 1] = H[i + 1] /\ F[i + 2] = H[i + 2] /\ F[i + 4] = H[i + 4]
    <3>1. /\ i + 1 \in 1 .. n + 4 /\ i + 2 \in 1 .. n + 4 /\ i + 4 \in 1 .. n + 4
          /\ i + 1 > i /\ i + 2 > i /\ i + 4 > i
      BY <1>3
    <3> QED
      BY <1>1, <3>1
  <2> QED
    BY ONLY <2>1, Zenon DEF ReadAt
<1> QED
  BY <1>1, <1>2, <1>3

LEMMA QuotedRecursion ==
    ASSUME NEW body, Len(body) \in Nat
    PROVE  \E F : /\ \A i \in 1 .. Len(body) + 4 : F[i] = ReadAt(body, F, i)
                  /\ QuotedValue(body) = F[1]
<1> DEFINE Def(F) == [i \in 1 .. Len(body) + 4 |-> ReadAt(body, F, i)]
           f == CHOOSE F : F = Def(F)
<1>1. PICK N \in Nat : N = Len(body) + 4 /\ N >= 4
  OBVIOUS
<1> DEFINE Up(F, m) == \A i \in 1 .. N : i > N - m => F[i] = ReadAt(body, F, i)
           S == {m \in Nat : m <= N => \E F : F = [i \in 1 .. N |-> F[i]] /\ Up(F, m)}
<1>2. 0 \in S
  <2> DEFINE F == [i \in 1 .. N |-> 0]
  <2>1. F = [i \in 1 .. N |-> F[i]] /\ Up(F, 0)
    OBVIOUS
  <2> HIDE DEF Up, F
  <2> QED
    BY <2>1
<1>3. ASSUME NEW m \in Nat, m \in S PROVE m + 1 \in S
  <2> SUFFICES ASSUME m + 1 <= N
               PROVE  \E F : F = [i \in 1 .. N |-> F[i]] /\ Up(F, m + 1)
    OBVIOUS
  <2>1. PICK F : F = [i \in 1 .. N |-> F[i]] /\ Up(F, m)
    BY <1>3
  <2> DEFINE k == N - m
             H == [i \in 1 .. N |-> IF i = k THEN ReadAt(body, F, k) ELSE F[i]]
  <2>2. k \in 1 .. N
    OBVIOUS
  <2>3. /\ H[k] = ReadAt(body, F, k)
        /\ \A i \in 1 .. N : i # k => H[i] = F[i]
        /\ H = [i \in 1 .. N |-> H[i]]
    BY <2>2
  <2> HIDE DEF H
  <2>4. ASSUME NEW i \in 1 .. N, i > N - (m + 1)
        PROVE  H[i] = ReadAt(body, H, i)
    <3>1. i >= k
      BY <2>4
    <3>2. \A j \in 1 .. N : j > i => F[j] = H[j]
      BY <2>2, <2>3, <3>1
    <3>3. ReadAt(body, F, i) = ReadAt(body, H, i)
      BY ONLY <1>1, <2>4, <3>2, Len(body) \in Nat, ReadsOn
    <3>4. CASE i = k
      BY <2>3, <3>3, <3>4
    <3>5. CASE i # k
      <4>1. i > N - m
        BY <3>1, <3>5
      <4>2. F[i] = ReadAt(body, F, i)
        BY <2>1, <2>4, <4>1
      <4> QED
        BY <2>3, <2>4, <3>3, <3>5, <4>2
    <3> QED
      BY <3>4, <3>5
  <2>5. Up(H, m + 1)
    BY <2>4
  <2> HIDE DEF Up
  <2> QED
    BY <2>3, <2>5
<1> HIDE DEF S
<1>4. \A m \in Nat : m \in S
  BY <1>2, <1>3, SetInduction
<1>5. PICK F : F = [i \in 1 .. N |-> F[i]] /\ Up(F, N)
  BY <1>4 DEF S
<1>6. F = Def(F)
  <2>1. \A i \in 1 .. N : F[i] = ReadAt(body, F, i)
    <3>1. \A i \in 1 .. N : i > N - N
      OBVIOUS
    <3> QED
      BY <1>5, <3>1
  <2> QED
    BY <1>1, <1>5, <2>1
<1>7. f = Def(f)
  <2> HIDE DEF Def
  <2> QED
    BY <1>6
<1>8. QuotedValue(body) = f[1]
  BY DEF QuotedValue
<1> HIDE DEF f
<1>9. \A i \in 1 .. Len(body) + 4 : f[i] = ReadAt(body, f, i)
  BY <1>7
<1> QED
  BY <1>8, <1>9

LEMMA ThenIs ==
    ASSUME NEW T, NEW x \in T, NEW t \in Seq(T)
    PROVE  Then(x, [ok |-> TRUE, more |-> FALSE, text |-> t])
              = [ok |-> TRUE, more |-> FALSE, text |-> <<x>> \o t]
<1> DEFINE r == [ok |-> TRUE, more |-> FALSE, text |-> t]
           s == [r EXCEPT !.text = <<x>> \o t]
<1>1. r.ok /\ r.text = t
  OBVIOUS
<1>2. Then(x, r) = s
  BY <1>1, Zenon DEF Then
<1>3. /\ DOMAIN s = {"ok", "more", "text"} /\ s = [f \in DOMAIN s |-> s[f]]
      /\ s.text = <<x>> \o t /\ s.ok = TRUE /\ s.more = FALSE
  BY Zenon
<1> HIDE DEF s
<1>4. s = [ok |-> TRUE, more |-> FALSE, text |-> <<x>> \o t]
  BY ONLY <1>3
<1> QED
  BY <1>2, <1>4 DEF r

\* What the cases of ReadAt come to.
LEMMA ReadPlain ==
    ASSUME NEW body, NEW F, NEW i, i <= Len(body), ~(i > Len(body)),
           body[i] \notin {"quote", "bslash"}
    PROVE  ReadAt(body, F, i) = Then(body[i], F[i + 1])
BY Zenon DEF ReadAt

LEMMA ReadClosing ==
    ASSUME NEW body, NEW F, NEW i, i <= Len(body), ~(i > Len(body)), body[i] = "quote",
           i = Len(body)
    PROVE  ReadAt(body, F, i) = [ok |-> TRUE, more |-> FALSE, text |-> << >>]
<1>1. body[i] # "bslash" /\ (i < Len(body)) = FALSE
  OBVIOUS
<1>2. ReadAt(body, F, i) = [ok |-> TRUE, more |-> i < Len(body), text |-> << >>]
  BY <1>1, Zenon DEF ReadAt
<1> QED
  BY <1>1, <1>2

LEMMA ReadEscape ==
    ASSUME NEW body, NEW F, NEW i, i < Len(body), i <= Len(body), ~(i > Len(body)),
           i # Len(body), body[i] = "bslash"
    PROVE  /\ body[i + 1] = "n" => ReadAt(body, F, i) = Then("newline", F[i + 2])
           /\ body[i + 1] \notin {"n", "x"} => ReadAt(body, F, i) = Then(body[i + 1], F[i + 2])
           /\ /\ body[i + 1] = "x" /\ i + 3 <= Len(body)
              /\ body[i + 2] = "0" /\ body[i + 3] = "1"
              => ReadAt(body, F, i) = Then("ctrl", F[i + 4])
<1>1. body[i] # "quote"
  OBVIOUS
<1>2. ASSUME body[i + 1] = "n" PROVE ReadAt(body, F, i) = Then("newline", F[i + 2])
  <2>1. body[i + 1] # "x"
    BY <1>2
  <2> QED
    BY <1>1, <1>2, <2>1, Zenon DEF ReadAt
<1>3. ASSUME body[i + 1] \notin {"n", "x"}
      PROVE  ReadAt(body, F, i) = Then(body[i + 1], F[i + 2])
  BY <1>1, <1>3, Zenon DEF ReadAt
<1>4. ASSUME body[i + 1] = "x", i + 3 <= Len(body), body[i + 2] = "0", body[i + 3] = "1"
      PROVE  ReadAt(body, F, i) = Then("ctrl", F[i + 4])
  <2>1. body[i + 1] # "n" /\ body[i + 2] \in Hex /\ body[i + 3] \in Hex
    BY <1>4 DEF Hex
  <2>2. Byte(body[i + 2], body[i + 3]) = "ctrl"
    BY <1>4 DEF Byte
  <2> QED
    BY <1>1, <1>4, <2>1, <2>2, Zenon DEF ReadAt
<1> QED
  BY <1>2, <1>3, <1>4, Zenon

\* The escape of a symbol.
LEMMA Escapes ==
    ASSUME NEW c
    PROVE  /\ c \in {"quote", "bslash"} => Escaped(c) = <<"bslash", c>>
           /\ c = "newline" => Escaped(c) = <<"bslash", "n">>
           /\ c = "ctrl" => Escaped(c) = <<"bslash", "x", "0", "1">>
           /\ c \notin {"quote", "bslash", "newline", "ctrl"} => Escaped(c) = << c >>
<1>1. "quote" # "newline" /\ "quote" # "ctrl" /\ "bslash" # "newline" /\ "bslash" # "ctrl"
      /\ "newline" # "ctrl"
  OBVIOUS
<1> QED
  BY <1>1, Zenon DEF Escaped

\* The symbols of a text, with those of the escapes.
Symbols(text) == Range(text) \cup {"quote", "bslash", "n", "x", "0", "1"}

LEMMA EscapedType ==
    ASSUME NEW text, NEW c \in Range(text)
    PROVE  Escaped(c) \in Seq(Symbols(text)) /\ Len(Escaped(c)) \in 1 .. 4
<1> DEFINE S == Symbols(text)
<1>1. /\ c \in S /\ "quote" \in S /\ "bslash" \in S /\ "n" \in S /\ "x" \in S
      /\ "0" \in S /\ "1" \in S
  BY DEF Symbols
<1> HIDE DEF S
<1>2. /\ <<"bslash", c>> \in Seq(S) /\ <<"bslash", "n">> \in Seq(S)
      /\ <<"bslash", "x", "0", "1">> \in Seq(S) /\ << c >> \in Seq(S)
  BY <1>1
<1>3. /\ Len(<<"bslash", c>>) = 2 /\ Len(<<"bslash", "n">>) = 2
      /\ Len(<<"bslash", "x", "0", "1">>) = 4 /\ Len(<< c >>) = 1
  OBVIOUS
<1>4. \/ Escaped(c) = <<"bslash", c>> \/ Escaped(c) = <<"bslash", "n">>
      \/ Escaped(c) = <<"bslash", "x", "0", "1">> \/ Escaped(c) = << c >>
  BY Escapes
<1>5. Escaped(c) \in Seq(S)
  BY <1>2, <1>4
<1>6. Len(Escaped(c)) \in 1 .. 4
  BY ONLY <1>3, <1>4
<1> QED
  BY <1>5, <1>6 DEF S

\* What is read when the text is t.
Good(t) == [ok |-> TRUE, more |-> FALSE, text |-> t]

\* What e is made of is in body from place p on, and more behind it.
StandsAt(e, body, p) ==
    p + Len(e) <= Len(body) /\ \A j \in 1 .. Len(e) : body[p + j - 1] = e[j]

\* Reading the escape of a symbol gives the symbol.
LEMMA EscapeRead ==
    ASSUME NEW body, Len(body) \in Nat, NEW F, NEW p \in Nat, NEW T, NEW c \in T, NEW t \in Seq(T),
           StandsAt(Escaped(c), body, p), Len(Escaped(c)) \in 1 .. 4,
           F[p] = ReadAt(body, F, p),
           F[p + Len(Escaped(c))] = Good(t)
    PROVE  F[p] = Good(<< c >> \o t)
<1>0. /\ p + Len(Escaped(c)) <= Len(body)
      /\ \A j \in 1 .. Len(Escaped(c)) : body[p + j - 1] = Escaped(c)[j]
  BY DEF StandsAt
<1>1. PICK n \in Nat : n = Len(body)
  OBVIOUS
<1>2. p < n /\ p <= n /\ ~(p > n) /\ p # n
  <2>1. PICK m \in 1 .. 4 : m = Len(Escaped(c))
    OBVIOUS
  <2>2. p + m <= n
    BY <1>0, <1>1, <2>1
  <2> QED
    BY <2>2
<1>3. CASE c \notin {"quote", "bslash", "newline", "ctrl"}
  <2>1. Escaped(c) = << c >>
    BY <1>3, Escapes
  <2>2. Len(Escaped(c)) = 1 /\ Escaped(c)[1] = c
    BY <2>1
  <2>3. body[p] = c /\ F[p + 1] = Good(t)
    <3>1. p + 1 - 1 = p
      OBVIOUS
    <3> QED
      BY <1>0, <2>2, <3>1
  <2>4. F[p] = Then(c, F[p + 1])
    BY <1>1, <1>2, <1>3, <2>3, ReadPlain
  <2> QED
    BY ONLY <2>3, <2>4, ThenIs, c \in T, t \in Seq(T) DEF Good
<1>4. ASSUME NEW d, Escaped(c) = <<"bslash", d>>
      PROVE  body[p] = "bslash" /\ body[p + 1] = d /\ F[p + 2] = Good(t)
  <2>1. Len(Escaped(c)) = 2 /\ Escaped(c)[1] = "bslash" /\ Escaped(c)[2] = d
    BY <1>4
  <2>2. p + 1 - 1 = p /\ p + 2 - 1 = p + 1
    OBVIOUS
  <2> QED
    BY <1>0, <2>1, <2>2
<1>5. CASE c \in {"quote", "bslash"}
  <2>1. body[p] = "bslash" /\ body[p + 1] = c /\ F[p + 2] = Good(t)
    BY <1>4, <1>5, Escapes
  <2>2. F[p] = Then(c, F[p + 2])
    <3>1. c \notin {"n", "x"}
      BY <1>5
    <3> QED
      BY <1>1, <1>2, <2>1, <3>1, ReadEscape
  <2> QED
    BY ONLY <2>1, <2>2, ThenIs, c \in T, t \in Seq(T) DEF Good
<1>6. CASE c = "newline"
  <2>1. body[p] = "bslash" /\ body[p + 1] = "n" /\ F[p + 2] = Good(t)
    BY <1>4, <1>6, Escapes
  <2>2. F[p] = Then(c, F[p + 2])
    BY <1>1, <1>2, <1>6, <2>1, ReadEscape
  <2> QED
    BY ONLY <2>1, <2>2, ThenIs, c \in T, t \in Seq(T) DEF Good
<1>7. CASE c = "ctrl"
  <2>1. Escaped(c) = <<"bslash", "x", "0", "1">>
    BY <1>7, Escapes
  <2>2. /\ Len(Escaped(c)) = 4 /\ Escaped(c)[1] = "bslash" /\ Escaped(c)[2] = "x"
        /\ Escaped(c)[3] = "0" /\ Escaped(c)[4] = "1"
    BY <2>1
  <2>3. /\ p + 1 - 1 = p /\ p + 2 - 1 = p + 1 /\ p + 3 - 1 = p + 2 /\ p + 4 - 1 = p + 3
        /\ p + 3 <= n
    BY <1>0, <1>1, <2>2
  <2>4. /\ body[p] = "bslash" /\ body[p + 1] = "x" /\ body[p + 2] = "0" /\ body[p + 3] = "1"
        /\ F[p + 4] = Good(t)
    BY <1>0, <2>2, <2>3
  <2>5. F[p] = Then(c, F[p + 4])
    BY <1>1, <1>2, <1>7, <2>3, <2>4, ReadEscape
  <2> QED
    BY ONLY <2>4, <2>5, ThenIs, c \in T, t \in Seq(T) DEF Good
<1> QED
  BY <1>3, <1>5, <1>6, <1>7

LEMMA FirstAndRest ==
    ASSUME NEW T, NEW s \in Seq(T), NEW j \in 1 .. Len(s)
    PROVE  SubSeq(s, j, Len(s)) = << s[j] >> \o SubSeq(s, j + 1, Len(s))
<1>0. PICK n \in Nat : n = Len(s)
  OBVIOUS
<1> DEFINE a == SubSeq(s, j, n)
           b == SubSeq(s, j + 1, n)
           c == << s[j] >>
<1>1. n = Len(s) /\ j \in 1 .. n /\ s[j] \in T
  BY <1>0
<1>2. /\ a \in Seq(T) /\ Len(a) = n - j + 1
      /\ \A i \in 1 .. n - j + 1 : a[i] = s[j + i - 1]
  BY <1>1
<1>3. /\ b \in Seq(T) /\ Len(b) = n - j
      /\ \A i \in 1 .. n - j : b[i] = s[j + 1 + i - 1]
  BY <1>1
<1>4. c \in Seq(T) /\ Len(c) = 1 /\ c[1] = s[j]
  BY <1>1
<1> HIDE DEF a, b, c
<1>5. /\ c \o b \in Seq(T) /\ Len(c \o b) = n - j + 1
      /\ \A i \in 1 .. n - j + 1 : (c \o b)[i] = IF i <= 1 THEN c[i] ELSE b[i - 1]
  <2>1. PICK l \in Nat : l = n - j /\ Len(b) = l /\ 1 + l = n - j + 1
    BY <1>1, <1>3
  <2>2. /\ c \o b \in Seq(T) /\ Len(c \o b) = 1 + l
        /\ \A i \in 1 .. 1 + l : (c \o b)[i] = IF i <= 1 THEN c[i] ELSE b[i - 1]
    <3>1. c \in Seq(T) /\ b \in Seq(T) /\ Len(c) = 1 /\ Len(b) = l
      BY <1>3, <1>4, <2>1
    <3>2. /\ c \o b \in Seq(T)
          /\ Len(c \o b) = Len(c) + Len(b)
          /\ \A i \in 1 .. Len(c) + Len(b) :
                (c \o b)[i] = IF i <= Len(c) THEN c[i] ELSE b[i - Len(c)]
      BY ONLY <3>1, ConcatType
    <3> QED
      BY ONLY <3>1, <3>2, l \in Nat
  <2> QED
    BY <2>1, <2>2
<1>6. \A i \in 1 .. n - j + 1 : a[i] = (c \o b)[i]
  <2> SUFFICES ASSUME NEW i \in 1 .. n - j + 1 PROVE a[i] = (c \o b)[i]
    OBVIOUS
  <2>1. CASE i = 1
    <3>1. j + i - 1 = j
      BY <2>1
    <3> QED
      BY <1>2, <1>4, <1>5, <2>1, <3>1
  <2>2. CASE i # 1
    <3>1. i - 1 \in 1 .. n - j /\ j + 1 + (i - 1) - 1 = j + i - 1 /\ ~(i <= 1)
      BY <1>1, <2>2
    <3>2. b[i - 1] = s[j + i - 1]
      BY <1>3, <3>1
    <3> QED
      BY <1>2, <1>5, <3>1, <3>2
  <2> QED
    BY <2>1, <2>2
<1>7. a = c \o b
  BY <1>2, <1>5, <1>6, SeqEqual
<1> QED
  BY <1>0, <1>7 DEF a, b, c

\* What stands between quotes when text was printed, the closing one included.
EscapedText(text) == ConsoleText(text) \o <<"quote">>

\* A text that was escaped comes back as it was.
LEMMA TextComesBack ==
    ASSUME NEW text, IsSequence(text)
    PROVE  QuotedValue(EscapedText(text)) = Good(text)
<1> DEFINE T == Range(text)
           S == Symbols(text)
           Q(j) == FlattenSeq([i \in 1 .. j |-> Escaped(text[i])])
<1>1. PICK k \in Nat : k = Len(text) /\ DOMAIN text = 1 .. k
  BY DEF IsSequence
<1>2. text \in Seq(T) /\ \A i \in 1 .. k : text[i] \in T
  BY <1>1 DEF IsSequence
<1> DEFINE escaped == Q(k) \o <<"quote">>
<1>3. \A i \in 1 .. k : /\ Escaped(text[i]) \in Seq(S)
                        /\ Len(Escaped(text[i])) \in 1 .. 4
  BY <1>2, EscapedType
<1> HIDE DEF T, S
<1>4. \A j \in 0 .. k : Q(j) \in Seq(S)
  <2> SUFFICES ASSUME NEW j \in 0 .. k PROVE Q(j) \in Seq(S)
    OBVIOUS
  <2>1. [i \in 1 .. j |-> Escaped(text[i])] \in Seq(Seq(S))
    BY <1>3
  <2> QED
    BY <2>1, FlattenType
<1>5. \A j \in 1 .. k : Q(j) = Q(j - 1) \o Escaped(text[j])
  <2> SUFFICES ASSUME NEW j \in 1 .. k PROVE Q(j) = Q(j - 1) \o Escaped(text[j])
    OBVIOUS
  <2>1. PICK m \in Nat : m = j - 1 /\ j = m + 1
    OBVIOUS
  <2>2. PICK P : P = [i \in 1 .. m + 1 |-> Escaped(text[i])]
    OBVIOUS
  <2>3. /\ P = [i \in 1 .. m + 1 |-> P[i]] /\ P[m + 1] = Escaped(text[m + 1])
        /\ \A i \in 1 .. m + 1 : P[i] \in Seq(S)
        /\ [i \in 1 .. m |-> P[i]] = [i \in 1 .. m |-> Escaped(text[i])]
    BY <1>3, <2>1, <2>2
  <2>4. FlattenSeq(P) = FlattenSeq([i \in 1 .. m |-> P[i]]) \o P[m + 1]
    BY <2>3, FlattenGrows
  <2> QED
    BY <2>1, <2>2, <2>3, <2>4
<1>6. Q(0) = << >>
  <2>1. [i \in 1 .. 0 |-> Escaped(text[i])] = << >>
    OBVIOUS
  <2>2. << >> \in Seq(Seq(S))
    OBVIOUS
  <2>3. FlattenSeq(<< >>) = << >>
    BY <2>2, FlattenType
  <2> QED
    BY <2>1, <2>3
<1> HIDE DEF Q
<1>7. "quote" \in S
  BY DEF S, Symbols
<1>8. /\ escaped \in Seq(S) /\ Len(Q(k)) \in Nat /\ Len(escaped) = Len(Q(k)) + 1
      /\ escaped[Len(escaped)] = "quote"
      /\ \A x \in 1 .. Len(Q(k)) : escaped[x] = Q(k)[x]
  <2>1. Q(k) \in Seq(S) /\ <<"quote">> \in Seq(S)
    BY <1>4, <1>7
  <2> QED
    BY <2>1
<1> HIDE DEF escaped
<1>9. PICK F : /\ \A i \in 1 .. Len(escaped) + 4 : F[i] = ReadAt(escaped, F, i)
               /\ QuotedValue(escaped) = F[1]
  BY <1>8, QuotedRecursion
<1> DEFINE Reads1(j) == /\ Len(Q(j)) \in Nat /\ Len(Q(j)) + 1 <= Len(escaped)
                        /\ \A x \in 1 .. Len(Q(j)) : escaped[x] = Q(j)[x]
                        /\ F[Len(Q(j)) + 1] = Good(SubSeq(text, j + 1, k))
           R == {d \in Nat : d <= k => Reads1(k - d)}
<1>10. Reads1(k)
  <2>1. SubSeq(text, k + 1, k) = << >>
    BY <1>1, <1>2
  <2>2. F[Len(escaped)] = ReadAt(escaped, F, Len(escaped))
    BY <1>8, <1>9
  <2>3. ReadAt(escaped, F, Len(escaped)) = Good(<< >>)
    <3>1. Len(escaped) <= Len(escaped) /\ ~(Len(escaped) > Len(escaped))
      BY <1>8
    <3> QED
      BY <1>8, <3>1, ReadClosing DEF Good
  <2>4. F[Len(Q(k)) + 1] = Good(SubSeq(text, k + 1, k))
    BY <1>8, <2>1, <2>2, <2>3
  <2>5. Len(Q(k)) + 1 <= Len(escaped)
    BY <1>8
  <2> QED
    BY <1>8, <2>4, <2>5
<1>11. ASSUME NEW j \in 1 .. k, Reads1(j) PROVE Reads1(j - 1)
  <2>1. PICK c : c = text[j]
    OBVIOUS
  <2>2. PICK e : e = Escaped(c)
    OBVIOUS
  <2>3. PICK a : a = Q(j - 1)
    OBVIOUS
  <2>4. PICK t : t = SubSeq(text, j + 1, k)
    OBVIOUS
  <2>5. PICK m \in 1 .. 4 : m = Len(e)
    BY <1>3, <2>1, <2>2
  <2>6. a \in Seq(S) /\ e \in Seq(S) /\ Len(a) \in Nat /\ c \in T /\ t \in Seq(T)
    <3>1. j - 1 \in 0 .. k
      OBVIOUS
    <3>2. a \in Seq(S)
      BY <1>4, <2>3, <3>1
    <3>3. e \in Seq(S)
      BY <1>3, <2>1, <2>2
    <3>4. t \in Seq(T)
      BY <1>1, <1>2, <2>4
    <3>5. c \in T
      BY <1>2, <2>1
    <3> QED
      BY <3>2, <3>3, <3>4, <3>5
  <2>7. Q(j) = a \o e
    BY <1>5, <2>1, <2>2, <2>3
  <2>8. /\ Len(Q(j)) = Len(a) + m
        /\ \A i \in 1 .. Len(a) + m : Q(j)[i] = IF i <= Len(a) THEN a[i] ELSE e[i - Len(a)]
    BY <2>5, <2>6, <2>7, ConcatType
  <2>9. PICK p \in Nat : p = Len(a) + 1
    BY <2>6
  <2>10. PICK n \in Nat : n = Len(escaped)
    BY <1>8
  <2>11. p + m <= n
    BY <1>11, <2>6, <2>8, <2>9, <2>10
  <2>12. \A x \in 1 .. Len(a) : escaped[x] = a[x]
    <3> SUFFICES ASSUME NEW x \in 1 .. Len(a) PROVE escaped[x] = a[x]
      OBVIOUS
    <3>1. x \in 1 .. Len(a) + m /\ x <= Len(a)
      BY <2>6
    <3> QED
      BY <1>11, <2>8, <3>1
  <2>13. \A i \in 1 .. m : escaped[p + i - 1] = e[i]
    <3> SUFFICES ASSUME NEW i \in 1 .. m PROVE escaped[p + i - 1] = e[i]
      OBVIOUS
    <3>1. p + i - 1 \in 1 .. Len(a) + m /\ ~(p + i - 1 <= Len(a)) /\ p + i - 1 - Len(a) = i
      BY <2>6, <2>9
    <3>2. Q(j)[p + i - 1] = e[i]
      BY <2>8, <3>1
    <3> QED
      BY <1>11, <2>8, <3>1, <3>2
  <2>14. F[p] = ReadAt(escaped, F, p)
    <3>1. p \in 1 .. Len(escaped) + 4
      BY <2>6, <2>9, <2>10, <2>11
    <3> QED
      BY <1>9, <3>1
  <2>15. F[p + m] = Good(t)
    <3>1. p + m = Len(Q(j)) + 1
      BY <2>6, <2>8, <2>9
    <3> QED
      BY <1>11, <2>4, <3>1
  <2>16. F[p] = Good(<< c >> \o t)
    <3>1. /\ Len(escaped) \in Nat /\ p + Len(Escaped(c)) <= Len(escaped)
          /\ Len(Escaped(c)) \in 1 .. 4 /\ p \in Nat /\ F[p + Len(Escaped(c))] = Good(t)
      BY ONLY <2>2, <2>5, <2>10, <2>11, <2>15
    <3>2. \A i \in 1 .. Len(Escaped(c)) : escaped[p + i - 1] = Escaped(c)[i]
      BY ONLY <2>2, <2>5, <2>13
    <3>3. StandsAt(Escaped(c), escaped, p)
      BY ONLY <3>1, <3>2 DEF StandsAt
    <3>4. c \in T /\ t \in Seq(T)
      BY <2>6
    <3>5. /\ Len(escaped) \in Nat /\ Len(Escaped(c)) \in 1 .. 4 /\ p \in Nat
          /\ F[p + Len(Escaped(c))] = Good(t)
      BY <3>1
    <3> QED
      BY ONLY <2>14, <3>3, <3>4, <3>5, EscapeRead
  <2>17. << c >> \o t = SubSeq(text, j - 1 + 1, k)
    <3>1. j - 1 + 1 = j /\ j \in 1 .. Len(text)
      BY <1>1
    <3>2. SubSeq(text, j, k) = << text[j] >> \o SubSeq(text, j + 1, k)
      BY <1>1, <1>2, <3>1, FirstAndRest
    <3> QED
      BY <2>1, <2>4, <3>1, <3>2
  <2>18. Len(a) + 1 <= Len(escaped)
    BY <2>6, <2>9, <2>10, <2>11
  <2> QED
    BY <2>3, <2>6, <2>9, <2>12, <2>16, <2>17, <2>18
<1> HIDE DEF Reads1
<1>12. 0 \in R
  <2>1. k - 0 = k
    OBVIOUS
  <2> QED
    BY <1>10, <2>1
<1>13. ASSUME NEW d \in Nat, d \in R PROVE d + 1 \in R
  <2> SUFFICES ASSUME d + 1 <= k PROVE Reads1(k - (d + 1))
    OBVIOUS
  <2>1. k - d \in 1 .. k /\ (k - d) - 1 = k - (d + 1)
    OBVIOUS
  <2>2. Reads1(k - d)
    BY <1>13
  <2> QED
    BY <1>11, <2>1, <2>2
<1>14. k \in R
  <2> HIDE DEF R
  <2> QED
    BY <1>12, <1>13, SetInduction
<1>15. Reads1(0)
  <2>1. k - k = 0 /\ k <= k
    OBVIOUS
  <2>2. Reads1(k - k)
    BY <1>14, <2>1
  <2> QED
    BY <2>1, <2>2
<1>16. F[1] = Good(SubSeq(text, 1, k))
  <2>1. Len(Q(0)) + 1 = 1 /\ 0 + 1 = 1
    BY <1>6
  <2> QED
    BY <1>15, <2>1 DEF Reads1
<1>17. SubSeq(text, 1, k) = text
  BY <1>1, <1>2
<1> QED
  BY <1>1, <1>9, <1>16, <1>17 DEF escaped, Q, EscapedText, ConsoleText

-----------------------------------------------------------------------------
(* The lines of entries. *)

\* The label of a level names it, and no other.
LEMMA LabelRead ==
    ASSUME NEW l \in Levels
    PROVE  /\ << Label(l) >> \in DOMAIN LevelNames
           /\ LevelNames[<< Label(l) >>] = l
<1>1. /\ Spellings["trace"] = {"TRC", "TRACE"} /\ Spellings["debug"] = {"DBG", "DEBUG"}
      /\ Spellings["info"] = {"INF", "INFO"} /\ Spellings["warn"] = {"WRN", "WARN", "WARNING"}
      /\ Spellings["error"] = {"ERR", "ERROR"} /\ Spellings["fatal"] = {"FTL", "FATAL"}
      /\ Spellings["panic"] = {"PNC", "PANIC"}
      /\ Spellings["nolevel"] = {"---", "NOLEVEL", "NO"}
  BY DEF Spellings
<1>2. /\ Label("trace") = "TRC" /\ Label("debug") = "DBG" /\ Label("info") = "INF"
      /\ Label("warn") = "WRN" /\ Label("error") = "ERR" /\ Label("fatal") = "FTL"
      /\ Label("panic") = "PNC" /\ Label("nolevel") = "---"
  BY DEF Label
<1>3. Label(l) \in Spellings[l]
  BY <1>1, <1>2 DEF Levels
<1>4. ASSUME NEW m \in Levels, Label(l) \in Spellings[m]
      PROVE  m = l
  BY <1>1, <1>2, <1>4 DEF Levels
<1> DEFINE words == UNION {Spellings[level] : level \in Levels}
           label == << Label(l) >>
<1>5. Label(l) \in words
  BY <1>3
<1>6. LevelNames = [text \in {<< word >> : word \in words} |->
                       CHOOSE m \in Levels : text[1] \in Spellings[m]]
  BY DEF LevelNames
<1>7. label \in {<< word >> : word \in words} /\ label[1] = Label(l)
  BY <1>5
<1> HIDE DEF words, label
<1>8. label \in DOMAIN LevelNames
  BY <1>6, <1>7
<1>9. LevelNames[label] = CHOOSE m \in Levels : Label(l) \in Spellings[m]
  BY <1>6, <1>7
<1>10. LevelNames[label] = l
  BY <1>3, <1>4, <1>9
<1> QED
  BY <1>8, <1>10 DEF label

LEMMA Headed ==
    ASSUME NEW T, NEW x \in T, NEW s \in Seq(T)
    PROVE  /\ << x >> \o s \in Seq(T) /\ << x >> \o s # << >>
           /\ (<< x >> \o s)[1] = x
           /\ Tail(<< x >> \o s) = s
<1> DEFINE h == << x >>
<1>1. h \in Seq(T) /\ Len(h) = 1 /\ h[1] = x
  OBVIOUS
<1> HIDE DEF h
<1>2. PICK n \in Nat : n = Len(s)
  OBVIOUS
<1>3. PICK r : r = h \o s
  OBVIOUS
<1>4. r \in Seq(T) /\ Len(r) = 1 + n /\ \A i \in 1 .. 1 + n : r[i] = IF i <= 1 THEN x ELSE s[i - 1]
  <2>1. /\ h \o s \in Seq(T)
        /\ Len(h \o s) = Len(h) + Len(s)
        /\ \A i \in 1 .. Len(h) + Len(s) : (h \o s)[i] = IF i <= Len(h) THEN h[i] ELSE s[i - Len(h)]
    BY ONLY <1>1, s \in Seq(T), ConcatType
  <2> QED
    BY <1>1, <1>2, <1>3, <2>1
<1>5. r # << >> /\ r[1] = x
  BY <1>4
<1>6. Tail(r) \in Seq(T) /\ Len(Tail(r)) = n /\ \A i \in 1 .. n : Tail(r)[i] = r[i + 1]
  BY <1>4
<1>7. \A i \in 1 .. n : Tail(r)[i] = s[i]
  <2> SUFFICES ASSUME NEW i \in 1 .. n PROVE Tail(r)[i] = s[i]
    OBVIOUS
  <2>1. i + 1 \in 1 .. 1 + n /\ ~(i + 1 <= 1) /\ (i + 1) - 1 = i
    OBVIOUS
  <2> QED
    BY <1>4, <1>6, <2>1
<1>8. Tail(r) = s
  BY <1>2, <1>6, <1>7, SeqEqual
<1> QED
  BY <1>3, <1>4, <1>5, <1>8 DEF h

\* What parseConsoleLine finds before the message of an entry.
LEMMA EntryHead ==
    ASSUME NEW e \in Entries
    PROVE  LET tokens == ConsoleLine(e)
           IN  /\ tokens # << >>
               /\ HasTime(tokens) <=> e.ts # Nil
               /\ HasTime(tokens) => tokens[1].text = << e.ts >>
               /\ HasLevel(tokens)
               /\ AfterTime(tokens)[1].text = << Label(e.lvl) >>
               /\ Remaining(tokens) = WordsOf(e) \o FieldsOf(e)
<1> DEFINE w == LevelOf(e)
           time == IF e.ts = Nil THEN << >> ELSE << Time(e.ts) >>
           words == WordsOf(e)
           fields == FieldsOf(e)
           tokens == ConsoleLine(e)
<1>1. e.lvl \in Levels
  BY LineContents
<1>2. PICK T : words \in Seq(T) /\ fields \in Seq(T) /\ Time(e.ts) \in T /\ w \in T
  BY PartsType
<1>3. tokens = ((time \o << w >>) \o words) \o fields
  BY DEF ConsoleLine, WordsOf, FieldsOf, LevelOf
<1>4. Time(e.ts) \in T /\ w \in T
  BY <1>2
<1>5. words \in Seq(T) /\ fields \in Seq(T)
  BY <1>2
<1>6. /\ w.is = "word" /\ w.text = << Label(e.lvl) >>
      /\ Time(e.ts).is = "time" /\ Time(e.ts).text = << e.ts >>
  BY DEF LevelOf, Word, Time
<1> HIDE DEF words, fields, tokens, w
<1> DEFINE rest == words \o fields
           behind == << w >> \o rest
<1>7. time \in Seq(T) /\ << w >> \in Seq(T)
  BY <1>4
<1>8. rest \in Seq(T)
  BY <1>5, ConcatType
<1>9. tokens = time \o behind
  <2> DEFINE level == << w >>
  <2>0. /\ time \in Seq(T) /\ level \in Seq(T) /\ words \in Seq(T) /\ fields \in Seq(T)
        /\ tokens = ((time \o level) \o words) \o fields
    BY <1>3, <1>5, <1>7
  <2> HIDE DEF time, level
  <2>1. (time \o level) \o words = time \o (level \o words)
    BY ONLY <2>0, ConcatAssoc
  <2>2. level \o words \in Seq(T)
    BY ONLY <2>0, ConcatType
  <2>3. (time \o (level \o words)) \o fields = time \o ((level \o words) \o fields)
    BY ONLY <2>0, <2>2, ConcatAssoc
  <2>4. (level \o words) \o fields = level \o (words \o fields)
    BY ONLY <2>0, ConcatAssoc
  <2>5. tokens = time \o (level \o (words \o fields))
    BY <2>0, <2>1, <2>3, <2>4
  <2> QED
    BY <2>5 DEF level
<1> HIDE DEF rest
<1>10. /\ behind \in Seq(T) /\ behind # << >> /\ behind[1] = w /\ Tail(behind) = rest
  BY <1>4, <1>8, Headed
<1> HIDE DEF behind
<1>11. /\ tokens # << >>
       /\ HasTime(tokens) <=> e.ts # Nil
       /\ HasTime(tokens) => tokens[1].text = << e.ts >>
       /\ AfterTime(tokens) = behind
  <2>1. CASE e.ts = Nil
    <3>1. tokens = behind
      <4>1. << >> \o behind = behind
        BY <1>10
      <4> QED
        BY <1>9, <2>1, <4>1
    <3>2. ~HasTime(tokens)
      BY <1>6, <1>10, <3>1 DEF HasTime
    <3> QED
      BY <1>10, <2>1, <3>1, <3>2 DEF AfterTime
  <2>2. CASE e.ts # Nil
    <3>1. tokens = << Time(e.ts) >> \o behind
      BY <1>9, <2>2
    <3>2. tokens # << >> /\ tokens[1] = Time(e.ts) /\ Tail(tokens) = behind
      BY <1>4, <1>10, <3>1, Headed
    <3>3. HasTime(tokens)
      BY <1>6, <3>2 DEF HasTime
    <3> QED
      BY <1>6, <2>2, <3>2, <3>3 DEF AfterTime
  <2> QED
    BY <2>1, <2>2
<1>12. HasLevel(tokens)
  BY <1>1, <1>6, <1>10, <1>11, LabelRead DEF HasLevel
<1>13. Remaining(tokens) = rest
  BY <1>10, <1>11, <1>12 DEF Remaining
<1> QED
  BY <1>6, <1>10, <1>11, <1>12, <1>13 DEF tokens, rest, words, fields

\* The token of a field that can be told.
FieldToken(f) ==
    IF f.string /\ NeedsQuote(f.text) THEN Quoted(f.key, EscapedText(f.text))
    ELSE Plain(f.key, f.text)

\* A field of an entry can be read, and has its key and its text.
LEMMA FieldComesBack ==
    ASSUME NEW f, f.string \in BOOLEAN, IsSequence(f.text), f.rest = << >>,
           ~f.string /\ f.text # << >> => f.text[1] # "quote"
    PROVE  /\ ConsoleField(f) = << FieldToken(f) >>
           /\ HasValue(FieldToken(f)) /\ ~TextFollows(FieldToken(f)) /\ HasKey(FieldToken(f))
           /\ FieldToken(f).key = f.key
           /\ ValueText(FieldToken(f)) = f.text
           /\ f.string /\ NeedsQuote(f.text) => FieldToken(f).is = "quoted"
<1> DEFINE body == EscapedText(f.text)
           t == FieldToken(f)
<1>1. /\ QuotedValue(body).ok /\ ~QuotedValue(body).more
      /\ QuotedValue(body).text = f.text
  BY TextComesBack DEF Good
<1>2. t = IF f.string /\ NeedsQuote(f.text) THEN Quoted(f.key, body) ELSE Plain(f.key, f.text)
  BY DEF FieldToken
<1>3. ConsoleField(f) = << t >>
  <2>1. ~NeedsQuote(f.text) /\ f.text # << >> => f.text[1] # "quote"
    BY DEF IsSequence, NeedsQuote, HasUnsafe
  <2>2. << Plain(f.key, f.text) >> \o f.rest = << Plain(f.key, f.text) >>
    <3> DEFINE x == Plain(f.key, f.text)
    <3> HIDE DEF x
    <3>1. << x >> \o << >> = << x >>
      OBVIOUS
    <3> QED
      BY <3>1 DEF x
  <2> HIDE DEF body, t
  <2>3. CASE f.string /\ NeedsQuote(f.text)
    BY <1>2, <2>3 DEF ConsoleField, EscapedText, body
  <2>4. CASE ~(f.string /\ NeedsQuote(f.text))
    <3>1. ~(f.text # << >> /\ f.text[1] = "quote")
      BY <2>1, <2>4
    <3> QED
      BY <1>2, <2>2, <2>4, <3>1 DEF ConsoleField
  <2> QED
    BY <2>3, <2>4
<1> HIDE DEF body, t
<1>4. CASE f.string /\ NeedsQuote(f.text)
  <2>1. t.is = "quoted" /\ t.key = f.key /\ t.text = body
    BY <1>2, <1>4 DEF Quoted
  <2> QED
    BY <1>1, <1>3, <2>1 DEF HasValue, TextFollows, HasKey, ValueText, t
<1>5. CASE ~(f.string /\ NeedsQuote(f.text))
  <2>1. t.is = "plain" /\ t.key = f.key /\ t.text = f.text
    BY <1>2, <1>5 DEF Plain
  <2> QED
    BY <1>3, <1>5, <2>1 DEF HasValue, TextFollows, HasKey, ValueText, t
<1> QED
  BY <1>4, <1>5

\* Sequences of one element each, one after the other.
LEMMA FlattenSingles ==
    ASSUME NEW T, NEW g \in Seq(T), NEW n, n = Len(g)
    PROVE  FlattenSeq([i \in 1 .. n |-> << g[i] >>]) = g
<1> DEFINE One(m) == [i \in 1 .. m |-> << g[i] >>]
           S == {m \in Nat : m <= n => FlattenSeq(One(m)) = SubSeq(g, 1, m)}
<1>1. n \in Nat
  OBVIOUS
<1>2. 0 \in S
  <2>1. << >> \in Seq(Seq(T)) /\ One(0) = << >> /\ SubSeq(g, 1, 0) = << >>
    OBVIOUS
  <2>2. FlattenSeq(<< >>) = << >>
    BY <2>1, FlattenType
  <2> QED
    BY <2>1, <2>2
<1>3. ASSUME NEW m \in Nat, m \in S PROVE m + 1 \in S
  <2> SUFFICES ASSUME m + 1 <= n PROVE FlattenSeq(One(m + 1)) = SubSeq(g, 1, m + 1)
    OBVIOUS
  <2> DEFINE x == g[m + 1]
             a == SubSeq(g, 1, m)
             b == SubSeq(g, 1, m + 1)
  <2>1. FlattenSeq(One(m)) = a
    BY <1>1, <1>3
  <2>2. PICK P : P = One(m + 1)
    OBVIOUS
  <2>3. /\ P = [i \in 1 .. m + 1 |-> P[i]] /\ P[m + 1] = << x >>
        /\ [i \in 1 .. m |-> P[i]] = One(m)
    BY <2>2
  <2>4. \A i \in 1 .. m + 1 : g[i] \in T
    BY <1>1
  <2>5. \A i \in 1 .. m + 1 : P[i] \in Seq(T)
    <3>1. \A y \in T : << y >> \in Seq(T)
      OBVIOUS
    <3>2. \A i \in 1 .. m + 1 : P[i] = << g[i] >>
      BY <2>2
    <3> QED
      BY ONLY <2>4, <3>1, <3>2
  <2>6. FlattenSeq(P) = FlattenSeq([i \in 1 .. m |-> P[i]]) \o P[m + 1]
    BY <2>3, <2>5, FlattenGrows
  <2>7. /\ a \in Seq(T) /\ Len(a) = m /\ \A i \in 1 .. m : a[i] = g[i]
        /\ b \in Seq(T) /\ Len(b) = m + 1 /\ \A i \in 1 .. m + 1 : b[i] = g[i]
    BY <1>1
  <2>8. x \in T
    BY <2>4
  <2> HIDE DEF a, b, One
  <2>9. /\ Append(a, x) \in Seq(T) /\ Len(Append(a, x)) = m + 1
        /\ \A i \in 1 .. m : Append(a, x)[i] = a[i]
        /\ Append(a, x)[m + 1] = x
        /\ Append(a, x) = a \o << x >>
    <3> HIDE DEF x
    <3> QED
      BY <2>7, <2>8, AppendIs
  <2>10. \A i \in 1 .. m + 1 : b[i] = Append(a, x)[i]
    <3>1. \A i \in 1 .. m + 1 : i \in 1 .. m \/ i = m + 1
      OBVIOUS
    <3> QED
      BY <2>7, <2>9, <3>1
  <2>11. b = Append(a, x)
    BY <2>7, <2>9, <2>10, SeqEqual
  <2> QED
    BY <2>1, <2>2, <2>3, <2>6, <2>9, <2>11 DEF b
<1> HIDE DEF S
<1>4. n \in S
  BY <1>1, <1>2, <1>3, SetInduction
<1>5. SubSeq(g, 1, n) = g
  BY <1>1
<1> QED
  BY <1>1, <1>4, <1>5 DEF S

LEMMA Halves ==
    ASSUME NEW T, NEW a \in Seq(T), NEW b \in Seq(T)
    PROVE  /\ SubSeq(a \o b, 1, Len(a)) = a
           /\ SubSeq(a \o b, Len(a) + 1, Len(a \o b)) = b
<1>1. PICK m \in Nat : m = Len(a)
  OBVIOUS
<1>2. PICK n \in Nat : n = Len(b)
  OBVIOUS
<1>3. PICK s : s = a \o b
  OBVIOUS
<1>4. /\ s \in Seq(T) /\ Len(s) = m + n
      /\ \A i \in 1 .. m + n : s[i] = IF i <= m THEN a[i] ELSE b[i - m]
  BY <1>1, <1>2, <1>3, ConcatType
<1>5. SubSeq(s, 1, m) = a
  <2>1. PICK u : u = SubSeq(s, 1, m)
    OBVIOUS
  <2>2. u \in Seq(T) /\ Len(u) = m /\ \A i \in 1 .. m : u[i] = s[i]
    BY <1>4, <2>1
  <2>3. \A i \in 1 .. m : u[i] = a[i]
    BY <1>4, <2>2
  <2> QED
    BY <1>1, <2>1, <2>2, <2>3, SeqEqual
<1>6. SubSeq(s, m + 1, m + n) = b
  <2>1. PICK u : u = SubSeq(s, m + 1, m + n)
    OBVIOUS
  <2>2. u \in Seq(T) /\ Len(u) = n /\ \A i \in 1 .. n : u[i] = s[m + i]
    BY <1>4, <2>1
  <2>3. \A i \in 1 .. n : u[i] = b[i]
    <3> SUFFICES ASSUME NEW i \in 1 .. n PROVE u[i] = b[i]
      OBVIOUS
    <3>1. m + i \in 1 .. m + n /\ ~(m + i <= m) /\ (m + i) - m = i
      OBVIOUS
    <3> QED
      BY <1>4, <2>2, <3>1
  <2> QED
    BY <1>2, <2>1, <2>2, <2>3, SeqEqual
<1> QED
  BY <1>1, <1>3, <1>4, <1>5, <1>6

\* The line of an entry that can be told has its message as it is, and one token
\* for each of its fields.
LEMMA FieldsOfIs ==
    ASSUME NEW e \in Entries, Unambiguous(e)
    PROVE  /\ Len(e.fields) \in Nat /\ DOMAIN e.fields = 1 .. Len(e.fields)
           /\ DOMAIN FieldsOf(e) = 1 .. Len(e.fields) /\ Len(FieldsOf(e)) = Len(e.fields)
           /\ WordsOf(e) = e.msg
           /\ \E T : FieldsOf(e) \in Seq(T) /\ e.msg \in Seq(T)
           /\ \A i \in 1 .. Len(e.fields) :
                 LET f == e.fields[i]
                     t == FieldsOf(e)[i]
                 IN  /\ HasValue(t) /\ ~TextFollows(t) /\ HasKey(t)
                     /\ t.key = f.key
                     /\ ValueText(t) = f.text
                     /\ f.string /\ NeedsQuote(f.text) => t.is = "quoted"
<1> DEFINE g == [i \in DOMAIN e.fields |-> FieldToken(e.fields[i])]
           G == Range(g)
<1>1. IsSequence(e.msg) /\ IsSequence(e.fields)
  BY LineContents
<1>2. PICK n \in Nat : n = Len(e.fields) /\ DOMAIN e.fields = 1 .. n
  BY <1>1 DEF IsSequence
<1>3. ASSUME NEW i \in 1 .. n
      PROVE  LET f == e.fields[i]
                 t == FieldToken(f)
             IN  /\ ConsoleField(f) = << t >>
                 /\ HasValue(t) /\ ~TextFollows(t) /\ HasKey(t)
                 /\ t.key = f.key
                 /\ ValueText(t) = f.text
                 /\ f.string /\ NeedsQuote(f.text) => t.is = "quoted"
  <2>1. PICK f : f = e.fields[i]
    OBVIOUS
  <2>2. f.string \in BOOLEAN /\ IsSequence(f.text)
    <3>1. f \in Range(e.fields)
      BY <1>2, <2>1 DEF Range
    <3> QED
      BY <3>1, LineContents
  <2>3. f.rest = << >> /\ (~f.string /\ f.text # << >> => f.text[1] # "quote")
    BY <1>2, <2>1 DEF Unambiguous
  <2> QED
    BY <2>1, <2>2, <2>3, FieldComesBack
<1>4. DOMAIN g = 1 .. n /\ \A i \in 1 .. n : g[i] = FieldToken(e.fields[i])
  BY <1>2
<1>5. g \in Seq(G) /\ Len(g) = n
  <2>1. g = [i \in 1 .. n |-> g[i]] /\ \A i \in 1 .. n : g[i] \in G
    BY <1>4 DEF Range
  <2> HIDE DEF g, G
  <2> QED
    BY <2>1
<1> HIDE DEF g, G
<1>6. FieldsOf(e) = g
  <2>1. \A i \in 1 .. n : ConsoleField(e.fields[i]) = << g[i] >>
    BY <1>3, <1>4
  <2>2. [i \in DOMAIN e.fields |-> ConsoleField(e.fields[i])] = [i \in 1 .. n |-> << g[i] >>]
    BY <1>2, <2>1
  <2>3. FlattenSeq([i \in 1 .. n |-> << g[i] >>]) = g
    BY <1>5, FlattenSingles
  <2> QED
    BY <2>2, <2>3 DEF FieldsOf
<1>7. WordsOf(e) = e.msg
  <2>1. \A i \in DOMAIN e.msg : ConsoleWord(e.msg[i]) = e.msg[i]
    BY DEF Unambiguous, ConsoleWord
  <2>2. e.msg = [i \in DOMAIN e.msg |-> e.msg[i]]
    BY <1>1 DEF IsSequence
  <2> QED
    BY <2>1, <2>2 DEF WordsOf
<1>8. \E T : FieldsOf(e) \in Seq(T) /\ e.msg \in Seq(T)
  BY <1>7, PartsType
<1> QED
  BY <1>2, <1>3, <1>4, <1>5, <1>6, <1>7, <1>8

\* The message of an entry and its fields are told apart.
LEMMA EntryTail ==
    ASSUME NEW e \in Entries, Unambiguous(e)
    PROVE  LET tokens == ConsoleLine(e)
           IN  /\ Message(tokens) = e.msg
               /\ FieldTail(tokens) = FieldsOf(e)
               /\ WellFormed(FieldTail(tokens))
               /\ ReadPart(FieldTail(tokens)) = FieldTail(tokens)
<1> DEFINE rest == e.msg \o FieldsOf(e)
           starts == {i \in 2 .. Len(rest) : HasKey(rest[i])}
<1>1. PICK T : FieldsOf(e) \in Seq(T) /\ e.msg \in Seq(T)
  BY FieldsOfIs
<1>2. PICK m \in Nat : m = Len(e.msg)
  BY <1>1
<1>3. PICK n \in Nat : n = Len(e.fields) /\ Len(FieldsOf(e)) = n
  BY FieldsOfIs
<1>4. /\ rest \in Seq(T) /\ Len(rest) = m + n
      /\ \A i \in 1 .. m + n : rest[i] = IF i <= m THEN e.msg[i] ELSE FieldsOf(e)[i - m]
  <2>1. PICK a : a = e.msg
    OBVIOUS
  <2>2. PICK b : b = FieldsOf(e)
    OBVIOUS
  <2>3. a \in Seq(T) /\ b \in Seq(T) /\ Len(a) = m /\ Len(b) = n /\ rest = a \o b
    BY <1>1, <1>2, <1>3, <2>1, <2>2
  <2> HIDE DEF rest
  <2>4. /\ a \o b \in Seq(T)
        /\ Len(a \o b) = Len(a) + Len(b)
        /\ \A i \in 1 .. Len(a) + Len(b) : (a \o b)[i] = IF i <= Len(a) THEN a[i] ELSE b[i - Len(a)]
    BY ONLY <2>3, ConcatType
  <2> QED
    BY ONLY <2>1, <2>2, <2>3, <2>4
<1>5. /\ SubSeq(rest, 1, m) = e.msg
      /\ SubSeq(rest, m + 1, Len(rest)) = FieldsOf(e)
  BY <1>1, <1>2, Halves
<1>6. TailStart(rest) = IF starts = {} THEN Len(rest) + 1 ELSE Min(starts)
  BY DEF TailStart
<1> HIDE DEF rest
<1>7. /\ \A i \in 2 .. m : ~HasKey(e.msg[i])
      /\ m = 0 => n = 0
  <2>1. m = 0 => e.msg = << >>
    <3>1. \A s \in Seq(T) : Len(s) = 0 => s = << >>
      OBVIOUS
    <3> QED
      BY <1>1, <1>2, <3>1
  <2>2. e.fields = << >> => n = 0
    BY <1>3
  <2> QED
    BY <1>2, <2>1, <2>2 DEF Unambiguous
<1>8. \A i \in starts : i >= m + 1
  BY <1>4, <1>7
<1>9. starts \in SUBSET Nat
  BY <1>4
<1>10. TailStart(rest) = m + 1
  <2>1. CASE n = 0
    <3>1. starts = {}
      BY <1>4, <1>8, <2>1
    <3> QED
      BY <1>4, <1>6, <2>1, <3>1
  <2>2. CASE n # 0
    <3>1. m + 1 \in starts
      <4>1. m + 1 \in 2 .. Len(rest) /\ m + 1 \in 1 .. m + n /\ ~(m + 1 <= m) /\ (m + 1) - m = 1
        BY <1>4, <1>7, <2>2
      <4>2. rest[m + 1] = FieldsOf(e)[1]
        BY <1>4, <4>1
      <4>3. HasKey(FieldsOf(e)[1])
        BY <1>3, <2>2, FieldsOfIs
      <4> QED
        BY <4>1, <4>2, <4>3
    <3> HIDE DEF starts
    <3>2. Min(starts) \in starts /\ Min(starts) <= m + 1
      BY <1>9, <3>1, MinIs
    <3>3. Min(starts) = m + 1
      <4>1. PICK k \in Nat : k = Min(starts)
        BY <1>9, <3>2
      <4> QED
        BY <1>8, <3>2, <4>1
    <3> QED
      BY <1>6, <3>1, <3>3
  <2> QED
    BY <2>1, <2>2
<1>11. Remaining(ConsoleLine(e)) = rest
  BY EntryHead, FieldsOfIs DEF rest
<1>12. /\ Message(ConsoleLine(e)) = e.msg
       /\ FieldTail(ConsoleLine(e)) = FieldsOf(e)
  <2>1. (m + 1) - 1 = m
    OBVIOUS
  <2> QED
    BY <1>5, <1>10, <1>11, <2>1 DEF Message, FieldTail
<1>13. WellFormed(FieldsOf(e))
  BY FieldsOfIs DEF WellFormed
<1>14. ReadPart(FieldsOf(e)) = FieldsOf(e)
  <2>1. FieldsOf(e) \in Seq(Tokens)
    <3>1. PICK line : line = [from |-> e, tokens |-> ConsoleLine(e)]
      OBVIOUS
    <3>2. line \in Lines
      BY <3>1 DEF Lines
    <3>3. line.tokens = ConsoleLine(e)
      BY <3>1
    <3>4. ConsoleLine(e) \in Seq(Tokens)
      BY <3>2, <3>3, LineTokens
    <3> QED
      BY <1>12, <3>4, FieldTailType
  <2> QED
    BY <1>13, <2>1, ReadPartIs
<1> QED
  BY <1>12, <1>13, <1>14

\* The fields expected of an entry's line: its own, in their order.
LEMMA EntryFields ==
    ASSUME NEW lines \in Seq(Lines), NEW line \in Lines, NEW e \in Entries,
           Unambiguous(e), line.tokens = ConsoleLine(e)
    PROVE  LET fields == ExpectedFields(Append(lines, line))
           IN  /\ fields = [i \in 1 .. Len(e.fields) |-> fields[i]]
               /\ \A i \in 1 .. Len(e.fields) :
                     /\ fields[i].key = e.fields[i].key
                     /\ fields[i].value.text = e.fields[i].text
                     /\ e.fields[i].string /\ NeedsQuote(e.fields[i].text)
                           => fields[i].value.kind = "string"
<1> DEFINE new == Append(lines, line)
           before == FieldsRead(lines)
           fields == ExpectedFields(new)
           tail == FieldsOf(e)
           Kind(i) == KindAmong(ValuesOf(tail[i].key, SoFar(before, tail, i)))
           Field(i) == Pair(tail[i].key, Value(Kind(i), ValueText(tail[i])))
<1>1. Front(new) = lines /\ Last(new) = line
  BY AppendIs
<1>2. FieldTail(line.tokens) = tail /\ ReadPart(tail) = tail
  BY EntryTail
<1>3. before \in Seq(Tokens)
  BY FieldsReadGrow
<1>4. tail \in Seq(Tokens)
  BY <1>2, LineTokens, FieldTailType
<1>5. PICK n \in Nat : n = Len(e.fields) /\ DOMAIN tail = 1 .. n /\ Len(tail) = n
  BY FieldsOfIs
<1>6. fields = [i \in 1 .. n |-> Field(i)]
  BY <1>1, <1>2, <1>5 DEF ExpectedFields, SoFar
<1> HIDE DEF fields, new, before, tail, Kind
<1>7. ASSUME NEW i \in 1 .. n
      PROVE  /\ fields[i].key = tail[i].key
             /\ fields[i].value.text = ValueText(tail[i])
             /\ fields[i].value.kind = Kind(i)
  <2>1. fields[i] = Field(i)
    BY <1>6
  <2> QED
    BY <2>1 DEF Pair, Value
<1>8. ASSUME NEW i \in 1 .. n, tail[i].is = "quoted"
      PROVE  Kind(i) = "string"
  <2> DEFINE t == tail[i]
             earlier == SoFar(before, tail, i - 1)
  <2>1. t \in Tokens
    BY <1>4, <1>5
  <2>2. earlier \in Seq(Tokens) /\ SoFar(before, tail, i) = Append(earlier, t)
    <3>1. i - 1 \in 0 .. Len(tail) /\ i \in 1 .. Len(tail)
      BY <1>5
    <3> QED
      BY <1>3, <1>4, <3>1, SoFarGrows
  <2>3. t.is = "quoted"
    BY <1>8
  <2>4. Kind(i) = KindAmong(ValuesOf(t.key, SoFar(before, tail, i)))
    BY DEF Kind
  <2> HIDE DEF t, earlier
  <2>5. ValuesOf(t.key, Append(earlier, t)) = Append(ValuesOf(t.key, earlier), t)
    BY <2>1, <2>2, ValuesGrow
  <2>6. ValuesOf(t.key, earlier) \in Seq(Tokens)
    BY <2>2, ValuesType
  <2>7. KindAmong(Append(ValuesOf(t.key, earlier), t)) = KindThen(ValuesOf(t.key, earlier), t)
    BY <2>1, <2>6, KindGrows
  <2> QED
    BY <2>2, <2>3, <2>4, <2>5, <2>7 DEF KindThen
<1> HIDE DEF Field
<1>9. \A i \in 1 .. n :
         /\ tail[i].key = e.fields[i].key
         /\ ValueText(tail[i]) = e.fields[i].text
         /\ e.fields[i].string /\ NeedsQuote(e.fields[i].text) => tail[i].is = "quoted"
  BY <1>5, FieldsOfIs DEF tail
<1>10. fields = [i \in 1 .. n |-> fields[i]]
  BY <1>6
<1> QED
  BY <1>5, <1>7, <1>8, <1>9, <1>10 DEF fields, new

\* What writeOrderedJSON has before the fields.
Leading(doc, key) == IF key \in DOMAIN doc THEN << Pair(key, doc[key]) >> ELSE << >>

LEMMA OrderedJSONIs ==
    ASSUME NEW doc, NEW fields
    PROVE  OrderedJSON(doc, fields) =
              ((Leading(doc, "ts") \o Leading(doc, "lvl")) \o Leading(doc, "msg")) \o fields
<1> DEFINE T == {Pair(key, doc[key]) : key \in {"ts", "lvl", "msg"}}
           lead == [i \in 1 .. 3 |-> Leading(doc, <<"ts", "lvl", "msg">>[i])]
<1>1. lead[1] = Leading(doc, "ts") /\ lead[2] = Leading(doc, "lvl") /\ lead[3] = Leading(doc, "msg")
  OBVIOUS
<1>2. \A i \in 1 .. 3 : lead[i] \in Seq(T)
  <2>1. \A key \in {"ts", "lvl", "msg"} : Leading(doc, key) \in Seq(T)
    <3> SUFFICES ASSUME NEW key \in {"ts", "lvl", "msg"} PROVE Leading(doc, key) \in Seq(T)
      OBVIOUS
    <3>1. Pair(key, doc[key]) \in T
      OBVIOUS
    <3> HIDE DEF T
    <3> QED
      BY <3>1 DEF Leading
  <2> HIDE DEF lead, T
  <2> QED
    BY <1>1, <2>1
<1>3. OrderedJSON(doc, fields) = FlattenSeq(lead) \o fields
  BY DEF OrderedJSON, Leading
<1>4. lead = [i \in 1 .. 3 |-> lead[i]]
  OBVIOUS
<1> HIDE DEF lead, T
<1> DEFINE First(m) == [i \in 1 .. m |-> lead[i]]
<1>5. ASSUME NEW m \in 0 .. 2
      PROVE  FlattenSeq(First(m + 1)) = FlattenSeq(First(m)) \o lead[m + 1]
  <2> DEFINE Q == First(m + 1)
  <2>1. /\ Q = [i \in 1 .. m + 1 |-> Q[i]] /\ Q[m + 1] = lead[m + 1]
        /\ \A i \in 1 .. m + 1 : Q[i] \in Seq(T)
        /\ [i \in 1 .. m |-> Q[i]] = First(m)
    BY <1>2
  <2> HIDE DEF Q, First
  <2>2. FlattenSeq(Q) = FlattenSeq([i \in 1 .. m |-> Q[i]]) \o Q[m + 1]
    BY <2>1, m \in Nat, FlattenGrows
  <2> QED
    BY <2>1, <2>2 DEF Q
<1>6. FlattenSeq(First(0)) = << >>
  <2>1. << >> \in Seq(Seq(T)) /\ First(0) = << >>
    OBVIOUS
  <2> QED
    BY <2>1, FlattenType
<1>7. First(3) = lead
  BY <1>4
<1> HIDE DEF First
<1>8. << >> \o lead[1] = lead[1]
  BY <1>2
<1>9. /\ FlattenSeq(First(1)) = lead[1]
      /\ FlattenSeq(First(2)) = lead[1] \o lead[2]
      /\ FlattenSeq(First(3)) = (lead[1] \o lead[2]) \o lead[3]
  <2>1. 0 + 1 = 1 /\ 1 + 1 = 2 /\ 2 + 1 = 3
    OBVIOUS
  <2>2. /\ FlattenSeq(First(0 + 1)) = FlattenSeq(First(0)) \o lead[0 + 1]
        /\ FlattenSeq(First(1 + 1)) = FlattenSeq(First(1)) \o lead[1 + 1]
        /\ FlattenSeq(First(2 + 1)) = FlattenSeq(First(2)) \o lead[2 + 1]
    <3>1. 0 \in 0 .. 2 /\ 1 \in 0 .. 2 /\ 2 \in 0 .. 2
      OBVIOUS
    <3> QED
      BY ONLY <1>5, <3>1, Zenon
  <2>3. /\ FlattenSeq(First(1)) = FlattenSeq(First(0)) \o lead[1]
        /\ FlattenSeq(First(2)) = FlattenSeq(First(1)) \o lead[2]
        /\ FlattenSeq(First(3)) = FlattenSeq(First(2)) \o lead[3]
    BY ONLY <2>1, <2>2
  <2> QED
    BY <1>6, <1>8, <2>3
<1> QED
  BY <1>1, <1>3, <1>7, <1>9

\* The keys and the texts of an object.
KeyTexts(json) == [i \in DOMAIN json |-> <<json[i].key, json[i].value.text>>]

LEMMA KeyTextsConcat ==
    ASSUME NEW T, NEW a \in Seq(T), NEW b \in Seq(T)
    PROVE  /\ KeyTexts(a \o b) = KeyTexts(a) \o KeyTexts(b)
           /\ \E V : KeyTexts(a) \in Seq(V) /\ KeyTexts(b) \in Seq(V)
<1> DEFINE G(x) == <<x.key, x.value.text>>
           V == {G(x) : x \in T}
<1>1. PICK m \in Nat : m = Len(a) /\ DOMAIN a = 1 .. m
  OBVIOUS
<1>2. PICK n \in Nat : n = Len(b) /\ DOMAIN b = 1 .. n
  OBVIOUS
<1>3. PICK c : c = a \o b
  OBVIOUS
<1>4. /\ c \in Seq(T) /\ Len(c) = m + n /\ DOMAIN c = 1 .. m + n
      /\ \A i \in 1 .. m + n : c[i] = IF i <= m THEN a[i] ELSE b[i - m]
  BY <1>1, <1>2, <1>3, ConcatType
<1>5. \A x \in T : G(x) \in V
  OBVIOUS
<1>6. /\ KeyTexts(a) = [i \in 1 .. m |-> G(a[i])]
      /\ KeyTexts(b) = [i \in 1 .. n |-> G(b[i])]
      /\ KeyTexts(c) = [i \in 1 .. m + n |-> G(c[i])]
  BY <1>1, <1>2, <1>4 DEF KeyTexts
<1> HIDE DEF V, G
<1>7. PICK ka : ka = KeyTexts(a)
  OBVIOUS
<1>8. PICK kb : kb = KeyTexts(b)
  OBVIOUS
<1>9. PICK kc : kc = KeyTexts(c)
  OBVIOUS
<1>10. ka \in Seq(V) /\ Len(ka) = m /\ \A i \in 1 .. m : ka[i] = G(a[i])
  BY <1>1, <1>5, <1>6, <1>7
<1>11. kb \in Seq(V) /\ Len(kb) = n /\ \A i \in 1 .. n : kb[i] = G(b[i])
  BY <1>2, <1>5, <1>6, <1>8
<1>12. kc \in Seq(V) /\ Len(kc) = m + n /\ \A i \in 1 .. m + n : kc[i] = G(c[i])
  BY <1>4, <1>5, <1>6, <1>9
<1>13. /\ ka \o kb \in Seq(V) /\ Len(ka \o kb) = m + n
       /\ \A i \in 1 .. m + n : (ka \o kb)[i] = IF i <= m THEN ka[i] ELSE kb[i - m]
  BY <1>10, <1>11, ConcatType
<1>14. \A i \in 1 .. m + n : kc[i] = (ka \o kb)[i]
  <2> SUFFICES ASSUME NEW i \in 1 .. m + n PROVE kc[i] = (ka \o kb)[i]
    OBVIOUS
  <2>1. CASE i <= m
    BY <1>4, <1>10, <1>12, <1>13, <2>1
  <2>2. CASE ~(i <= m)
    <3>1. i - m \in 1 .. n
      BY <2>2
    <3> QED
      BY <1>4, <1>11, <1>12, <1>13, <2>2, <3>1
  <2> QED
    BY <2>1, <2>2
<1>15. kc = ka \o kb
  BY <1>12, <1>13, <1>14, SeqEqual
<1> QED
  BY <1>3, <1>7, <1>8, <1>9, <1>10, <1>11, <1>15

\* The map of an entry's line has what was before the fields.
LEMMA EntryDoc ==
    ASSUME NEW e \in Entries, Unambiguous(e), NEW fields,
           DOMAIN fields = 1 .. Len(e.fields),
           \A i \in 1 .. Len(e.fields) : fields[i].key = e.fields[i].key
    PROVE  LET doc == Doc(ConsoleLine(e), fields)
           IN  /\ Leading(doc, "ts") =
                     IF e.ts = Nil THEN << >> ELSE << Pair("ts", Value("time", << e.ts >>)) >>
               /\ Leading(doc, "lvl") = << Pair("lvl", Value("string", << e.lvl >>)) >>
               /\ Leading(doc, "msg") =
                     IF e.msg = << >> THEN << >> ELSE << Pair("msg", Text(e.msg)) >>
<1> DEFINE tokens == ConsoleLine(e)
           doc == Doc(tokens, fields)
           prefix == Prefix(tokens)
           present == {key \in {"ts", "lvl", "msg"} :
                          \/ key = "ts" /\ HasTime(tokens)
                          \/ key = "lvl" /\ HasLevel(tokens)
                          \/ key = "msg" /\ Message(tokens) # << >>}
<1>1. /\ HasTime(tokens) <=> e.ts # Nil
      /\ HasTime(tokens) => tokens[1].text = << e.ts >>
      /\ HasLevel(tokens)
      /\ AfterTime(tokens)[1].text = << Label(e.lvl) >>
      /\ Message(tokens) = e.msg
  BY EntryHead, EntryTail
<1>2. LevelNames[<< Label(e.lvl) >>] = e.lvl
  BY LabelRead, LineContents
<1>3. prefix = [key \in present |->
                  CASE key = "ts" -> Value("time", tokens[1].text)
                    [] key = "lvl" -> Value("string", << LevelNames[AfterTime(tokens)[1].text] >>)
                    [] key = "msg" -> Text(Message(tokens))]
  BY Zenon DEF Prefix
<1> HIDE DEF tokens
<1>4. /\ "ts" # "lvl" /\ "ts" # "msg" /\ "lvl" # "msg"
      /\ "ts" \in present <=> e.ts # Nil
      /\ "lvl" \in present
      /\ "msg" \in present <=> e.msg # << >>
  BY <1>1
<1> HIDE DEF present
<1>5. /\ DOMAIN prefix = present
      /\ e.ts # Nil => prefix["ts"] = Value("time", tokens[1].text)
      /\ prefix["lvl"] = Value("string", << LevelNames[AfterTime(tokens)[1].text] >>)
      /\ e.msg # << >> => prefix["msg"] = Text(Message(tokens))
  BY <1>3, <1>4, Zenon
<1>6. /\ e.ts # Nil => prefix["ts"] = Value("time", << e.ts >>)
      /\ prefix["lvl"] = Value("string", << e.lvl >>)
      /\ e.msg # << >> => prefix["msg"] = Text(e.msg)
  BY <1>1, <1>2, <1>5
<1> HIDE DEF prefix
<1>7. \A key \in {"ts", "lvl", "msg"} :
         {i \in DOMAIN fields : fields[i].key = key} = {}
  <2>1. DOMAIN e.fields = 1 .. Len(e.fields) /\ DOMAIN fields = 1 .. Len(e.fields)
    BY FieldsOfIs
  <2> QED
    BY <2>1 DEF Unambiguous
<1>8. doc = [key \in DOMAIN prefix \cup {fields[i].key : i \in DOMAIN fields} |->
               IF {i \in DOMAIN fields : fields[i].key = key} = {} THEN prefix[key]
               ELSE fields[Max({i \in DOMAIN fields : fields[i].key = key})].value]
  BY DEF Doc, prefix
<1> HIDE DEF doc
<1>9. \A key \in {"ts", "lvl", "msg"} :
         /\ key \in DOMAIN doc <=> key \in DOMAIN prefix
         /\ key \in DOMAIN doc => doc[key] = prefix[key]
  BY <1>7, <1>8
<1>10. /\ "ts" \in DOMAIN doc <=> e.ts # Nil
       /\ "lvl" \in DOMAIN doc
       /\ "msg" \in DOMAIN doc <=> e.msg # << >>
  BY <1>4, <1>5, <1>9
<1>11. /\ e.ts # Nil => doc["ts"] = Value("time", << e.ts >>)
       /\ doc["lvl"] = Value("string", << e.lvl >>)
       /\ e.msg # << >> => doc["msg"] = Text(e.msg)
  BY <1>6, <1>9, <1>10
<1> QED
  BY ONLY <1>10, <1>11 DEF Leading, doc, tokens

LEMMA OneKeyText ==
    ASSUME NEW key, NEW value
    PROVE  KeyTexts(<< Pair(key, value) >>) = << <<key, value.text>> >>
BY DEF KeyTexts, Pair

LEMMA NoKeyTexts == KeyTexts(<< >>) = << >>
BY DEF KeyTexts

\* The object of an entry's line carries the entry.
LEMMA EntryCarried ==
    ASSUME NEW lines \in Seq(Lines), NEW line \in Lines, NEW e \in Entries,
           Unambiguous(e), line.tokens = ConsoleLine(e)
    PROVE  Carries(Json(Append(lines, line)), e)
<1> DEFINE new == Append(lines, line)
           expected == ExpectedFields(new)
           doc == Doc(line.tokens, expected)
           json == Json(new)
           lts == Leading(doc, "ts")
           llvl == Leading(doc, "lvl")
           lmsg == Leading(doc, "msg")
           lead == (lts \o llvl) \o lmsg
           hts == IF e.ts = Nil THEN << >> ELSE << <<"ts", << e.ts >> >> >>
           hlvl == << <<"lvl", << e.lvl >> >> >>
           hmsg == IF e.msg = << >> THEN << >> ELSE << <<"msg", Text(e.msg).text>> >>
           head == (hts \o hlvl) \o hmsg
           body == [i \in DOMAIN e.fields |-> <<e.fields[i].key, e.fields[i].text>>]
           T == {Pair("ts", doc["ts"]), Pair("lvl", doc["lvl"]), Pair("msg", doc["msg"])}
                \cup {expected[i] : i \in 1 .. Len(e.fields)}
<1>1. Last(new) = line
  BY AppendIs
<1>2. PICK n \in Nat : n = Len(e.fields) /\ DOMAIN e.fields = 1 .. n
  BY FieldsOfIs
<1>3. /\ expected = [i \in 1 .. n |-> expected[i]]
      /\ \A i \in 1 .. n :
            /\ expected[i].key = e.fields[i].key
            /\ expected[i].value.text = e.fields[i].text
            /\ e.fields[i].string /\ NeedsQuote(e.fields[i].text)
                  => expected[i].value.kind = "string"
  BY <1>2, EntryFields
<1> HIDE DEF expected, new
<1>4. json = lead \o expected
  BY <1>1, OrderedJSONIs DEF Json, expected
<1>5. /\ lts = IF e.ts = Nil THEN << >> ELSE << Pair("ts", Value("time", << e.ts >>)) >>
      /\ llvl = << Pair("lvl", Value("string", << e.lvl >>)) >>
      /\ lmsg = IF e.msg = << >> THEN << >> ELSE << Pair("msg", Text(e.msg)) >>
  <2>1. /\ DOMAIN expected = 1 .. Len(e.fields)
        /\ \A i \in 1 .. Len(e.fields) : expected[i].key = e.fields[i].key
    BY <1>2, <1>3
  <2>2. doc = Doc(ConsoleLine(e), expected)
    OBVIOUS
  <2> HIDE DEF doc
  <2> QED
    BY ONLY <2>1, <2>2, e \in Entries, Unambiguous(e), EntryDoc
<1>6. expected \in Seq(T) /\ Len(expected) = n
  <2>1. \A i \in 1 .. n : expected[i] \in T
    BY <1>2
  <2> HIDE DEF T
  <2> QED
    BY <1>3, <2>1
<1>7. lts \in Seq(T) /\ llvl \in Seq(T) /\ lmsg \in Seq(T)
  <2>1. Pair("ts", doc["ts"]) \in T /\ Pair("lvl", doc["lvl"]) \in T /\ Pair("msg", doc["msg"]) \in T
    OBVIOUS
  <2> HIDE DEF T, doc
  <2> QED
    BY <2>1 DEF Leading
<1> HIDE DEF T, doc, lts, llvl, lmsg
<1>8. KeyTexts(lts) = hts /\ KeyTexts(llvl) = hlvl /\ KeyTexts(lmsg) = hmsg
  <2>1. \A kind, text : Value(kind, text).text = text
    BY DEF Value
  <2>2. KeyTexts(lts) = hts
    BY <1>5, <2>1, OneKeyText, NoKeyTexts
  <2>3. KeyTexts(llvl) = hlvl
    BY <1>5, <2>1, OneKeyText
  <2>4. KeyTexts(lmsg) = hmsg
    BY <1>5, OneKeyText, NoKeyTexts
  <2> QED
    BY <2>2, <2>3, <2>4
<1> HIDE DEF hts, hlvl, hmsg
<1>9. lts \o llvl \in Seq(T) /\ lead \in Seq(T)
  BY <1>7, ConcatType
<1>10. KeyTexts(lead) = head
  <2>1. KeyTexts(lts \o llvl) = hts \o hlvl
    BY <1>7, <1>8, KeyTextsConcat
  <2>2. KeyTexts((lts \o llvl) \o lmsg) = KeyTexts(lts \o llvl) \o KeyTexts(lmsg)
    BY <1>7, <1>9, KeyTextsConcat
  <2> QED
    BY <1>8, <2>1, <2>2
<1> HIDE DEF lead
<1>11. KeyTexts(expected) = body
  <2>1. DOMAIN expected = 1 .. n
    BY <1>3
  <2> QED
    BY <1>2, <1>3, <2>1 DEF KeyTexts
<1> HIDE DEF body, head, json
<1>12. KeyTexts(json) = head \o body
  BY <1>4, <1>6, <1>9, <1>10, <1>11, KeyTextsConcat
<1>13. PICK m \in Nat : m = Len(lead) /\ DOMAIN lead = 1 .. m
  BY <1>9
<1>14. Len(head) = m
  <2>1. KeyTexts(lead) = [i \in 1 .. m |-> <<lead[i].key, lead[i].value.text>>]
    BY <1>13 DEF KeyTexts
  <2> QED
    BY <1>10, <2>1
<1>15. \A i \in 1 .. n : json[m + i] = expected[i]
  <2> SUFFICES ASSUME NEW i \in 1 .. n PROVE json[m + i] = expected[i]
    OBVIOUS
  <2>1. m + i \in 1 .. m + n /\ ~(m + i <= m) /\ (m + i) - m = i
    OBVIOUS
  <2>2. \A j \in 1 .. m + n : json[j] = IF j <= m THEN lead[j] ELSE expected[j - m]
    BY <1>4, <1>6, <1>9, <1>13, ConcatType
  <2> QED
    BY <2>1, <2>2
<1>16. \A i \in DOMAIN e.fields :
          e.fields[i].string /\ NeedsQuote(e.fields[i].text)
             => json[Len(head) + i].value.kind = "string"
  <2>1. \A i \in 1 .. n : e.fields[i].string /\ NeedsQuote(e.fields[i].text)
                              => json[m + i].value.kind = "string"
    BY <1>3, <1>15
  <2> QED
    BY ONLY <1>2, <1>14, <2>1
<1>17. [i \in DOMAIN json |-> <<json[i].key, json[i].value.text>>] = head \o body
  BY <1>12 DEF KeyTexts
<1> QED
  BY <1>16, <1>17 DEF Carries, head, body, hts, hlvl, hmsg, json, new

\* Reading the line of an entry prints what carries it, or nothing for a reason.
LEMMA EntryStep ==
    ASSUME IInv, NEW line \in Lines, ReadLine(line), NEW e \in Entries,
           Unambiguous(e), line.tokens = ConsoleLine(e)
    PROVE  IF outputs' = outputs THEN cmd.filter.on \/ phase' = "failed"
           ELSE Carries(Last(outputs'[Output]), e)
<1> DEFINE new == Append(inputs[at], line)
           json == Json(new)
           more == Append(outputs[Output], json)
<1>1. /\ phase = "read"
      /\ \/ outputs' = IF Printed(new) THEN [outputs EXCEPT ![Output] = more] ELSE outputs
         \/ phase' = "failed" /\ outputs' = outputs
  BY LineIsRead
<1>2. inputs[at] \in Seq(Lines) /\ Output \in DOMAIN outputs
  BY <1>1, ReadingFollows DEF IInv, Types, Reading
<1>3. Last(new) = line /\ new \in Seq(Lines)
  BY <1>2, AppendIs
<1>4. Carries(json, e)
  BY <1>2, EntryCarried
<1>5. outputs[Output] \in Seq(Objects)
  <2>1. at \in 1 .. Len(Streams) /\ outputs[Output] = Wanted(Output, inputs, at)
    BY <1>1, <1>2, ReadingFollows
  <2>2. PICK n \in Nat : n + 1 = at
    BY <2>1, ReadingFollows, <1>1
  <2>3. \A i \in 1 .. n + 1 : inputs[i] \in Seq(Lines)
    BY <1>1, <2>1, <2>2, ReadingFollows DEF IInv, Types
  <2>4. /\ Wanted(Output, inputs, n) \in Seq(Objects)
        /\ Wanted(Output, inputs, at) =
              IF ~cmd.write THEN Wanted(Output, inputs, n) \o Expected(inputs[at])
              ELSE Expected(inputs[at])
    BY <2>2, <2>3, WantedStep DEF Output
  <2>5. Expected(inputs[at]) \in Seq(Objects)
    BY <1>2, ExpectedGrows
  <2>6. Wanted(Output, inputs, n) \o Expected(inputs[at]) \in Seq(Objects)
    BY ONLY <2>4, <2>5, ConcatType
  <2> QED
    BY ONLY <2>1, <2>4, <2>5, <2>6
<1>6. ~Printed(new) => cmd.filter.on
  <2>1. ConsoleLine(e) # << >>
        /\ WellFormed(FieldTail(ConsoleLine(e)))
    BY EntryHead, EntryTail
  <2> HIDE DEF new
  <2>2. Printed(new) <=> Matches(cmd.filter, Doc(line.tokens, ExpectedFields(new)))
    BY <1>3, <2>1 DEF Printed
  <2> QED
    BY <2>2 DEF Matches
<1>7. json \in Objects
  <2> HIDE DEF new
  <2> QED
    BY <1>3 DEF Json, Objects
<1> HIDE DEF new, json
<1>8. Last(more) = json /\ more # outputs[Output]
  <2>1. Len(more) = Len(outputs[Output]) + 1 /\ Len(outputs[Output]) \in Nat
    BY <1>5, <1>7, AppendIs
  <2>2. Last(Append(outputs[Output], json)) = json
    BY ONLY <1>5, <1>7, AppendIs
  <2>3. more # outputs[Output]
    <3> HIDE DEF more
    <3>1. Len(more) # Len(outputs[Output])
      BY ONLY <2>1
    <3> QED
      BY ONLY <3>1
  <2> QED
    BY <2>2, <2>3
<1> HIDE DEF more
<1>9. CASE outputs' = outputs
  <2>1. CASE phase' = "failed"
    BY <1>9, <2>1
  <2>2. CASE phase' # "failed"
    <3>1. outputs' = IF Printed(new) THEN [outputs EXCEPT ![Output] = more] ELSE outputs
      BY <1>1, <2>2
    <3>2. ~Printed(new)
      BY <1>2, <1>8, <1>9, <3>1
    <3> QED
      BY <1>6, <1>9, <3>2
  <2> QED
    BY <2>1, <2>2
<1>10. CASE outputs' # outputs
  <2>1. outputs' = [outputs EXCEPT ![Output] = more]
    BY <1>1, <1>10
  <2>2. outputs'[Output] = more
    BY <1>2, <2>1
  <2> QED
    BY <1>4, <1>8, <1>10, <2>2 DEF json
<1> QED
  BY <1>9, <1>10

\* Every entry that a pslog console logger printed, and whose line can be told
\* apart, comes back with its level, its message and all its fields, its strings
\* unescaped as they were, for any texts and whatever was read before it
\* (appendConsoleEscapedContentTo against parseQuotedValue).
THEOREM EntriesComeBack == Spec => EntryComesBack
<1>1. ASSUME IInv, [Next]_vars
      PROVE  [\A i \in DOMAIN inputs :
                 inputs'[i] # inputs[i] /\ Last(inputs'[i]).from # Nil
                 /\ Unambiguous(Last(inputs'[i]).from)
                 => IF outputs' = outputs THEN cmd.filter.on \/ phase' = "failed"
                    ELSE Carries(Last(outputs'[Output]), Last(inputs'[i]).from)]_vars
  <2> SUFFICES ASSUME NEW i \in DOMAIN inputs, inputs'[i] # inputs[i],
                      Last(inputs'[i]).from # Nil, Unambiguous(Last(inputs'[i]).from)
               PROVE  IF outputs' = outputs THEN cmd.filter.on \/ phase' = "failed"
                      ELSE Carries(Last(outputs'[Output]), Last(inputs'[i]).from)
    OBVIOUS
  <2>1. inputs' # inputs
    OBVIOUS
  <2>2. PICK line \in Lines : ReadLine(line)
    BY <1>1, <2>1 DEF Next, vars, Start, Refuse, Open, OpenFails, EndStream, EndFails, Finish
  <2> DEFINE new == Append(inputs[at], line)
  <2>3. phase = "read" /\ inputs' = [inputs EXCEPT ![at] = new]
    BY <1>1, <2>2, LineIsRead
  <2>4. i = at /\ inputs'[i] = new
    BY <2>3
  <2>5. inputs[at] \in Seq(Lines)
    BY <1>1, <2>3, ReadingFollows DEF IInv, Types
  <2>6. Last(inputs'[i]) = line
    <3>1. Last(Append(inputs[at], line)) = line
      BY ONLY <2>5, line \in Lines, AppendIs
    <3> QED
      BY <2>4, <3>1
  <2>7. PICK e \in Entries : line = [from |-> e, tokens |-> ConsoleLine(e)]
    BY <2>6 DEF Lines
  <2>8. line.from = e /\ line.tokens = ConsoleLine(e) /\ Unambiguous(e)
    BY <2>6, <2>7
  <2>9. IF outputs' = outputs THEN cmd.filter.on \/ phase' = "failed"
        ELSE Carries(Last(outputs'[Output]), e)
    BY <1>1, <2>2, <2>8, EntryStep
  <2> QED
    BY <2>6, <2>8, <2>9
<1> QED
  BY <1>1, Invariance, PTL DEF Spec, EntryComesBack

=============================================================================
