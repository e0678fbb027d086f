------------------------ MODULE DerivedLoggersProofs ------------------------
(***************************************************************************)
(* Proofs about DerivedLoggers for any family, calls and arrays.           *)
(*                                                                         *)
(* A logger is determined by its path, the calls that made it: LInv says   *)
(* so of every logger of the family, and the fields of Encoded are those   *)
(* of Spelled and StaticFields one by one.  EInv adds what is known of an  *)
(* entry from its call to its end, LineInv what its emitter will read.     *)
(***************************************************************************)
EXTENDS DerivedLoggers, InductionLemmas

-----------------------------------------------------------------------------
(* Fields. *)

\* What can be in an array, once the caller's name has been appended to some.
StoredThings == UNION {Range(Cells[a]) : a \in DOMAIN Cells}

Things == StoredThings \cup {"fn"} \cup Goroutines

KeyNames == Things \cup {"error", "arg"}

Fields  == [key : KeyNames \X Nat, value : Things]
Printed == [key : KeyNames \X Nat, value : [of : Things, at : Nat]]

\* What Encoded makes of a field.
EncodedField(f, v) == IF Named(f) THEN << Field(f.key, Shown(f.value, v)) >> ELSE << >>

LEMMA EncodedFieldType ==
  ASSUME NEW f \in Fields, NEW v \in Nat
  PROVE  EncodedField(f, v) \in Seq(Printed)
<1>1. Field(f.key, Shown(f.value, v)) \in Printed
  BY DEF Fields, Printed, Field, Shown
<1> QED
  BY <1>1 DEF EncodedField

LEMMA EncodedPieces ==
  ASSUME NEW fields \in Seq(Fields), NEW v \in Nat
  PROVE  /\ [i \in 1 .. Len(fields) |-> EncodedField(fields[i], v)] \in Seq(Seq(Printed))
         /\ Encoded(fields, v)
              = FlattenSeq([i \in 1 .. Len(fields) |-> EncodedField(fields[i], v)])
<1>1. \A i \in 1 .. Len(fields) : EncodedField(fields[i], v) \in Seq(Printed)
  BY EncodedFieldType
<1> QED
  BY <1>1 DEF Encoded, EncodedField

LEMMA EncodedType ==
  ASSUME NEW fields \in Seq(Fields), NEW v \in Nat
  PROVE  Encoded(fields, v) \in Seq(Printed)
BY EncodedPieces, FlattenType

\* The fields of two halves print as the halves do.
LEMMA EncodedConcat ==
  ASSUME NEW a \in Seq(Fields), NEW b \in Seq(Fields), NEW v \in Nat
  PROVE  Encoded(a \o b, v) = Encoded(a, v) \o Encoded(b, v)
<1> DEFINE pieces(f) == [i \in 1 .. Len(f) |-> EncodedField(f[i], v)]
<1>1. a \o b \in Seq(Fields)
  OBVIOUS
<1>2. /\ pieces(a) \in Seq(Seq(Printed)) /\ Encoded(a, v) = FlattenSeq(pieces(a))
      /\ pieces(b) \in Seq(Seq(Printed)) /\ Encoded(b, v) = FlattenSeq(pieces(b))
      /\ pieces(a \o b) \in Seq(Seq(Printed))
      /\ Encoded(a \o b, v) = FlattenSeq(pieces(a \o b))
  BY <1>1, EncodedPieces
<1>3. pieces(a \o b) = pieces(a) \o pieces(b)
  <2>0. PICK n \in Nat, m \in Nat : n = Len(a) /\ m = Len(b)
    OBVIOUS
  <2>1. Len(pieces(a)) = n /\ Len(pieces(b)) = m /\ Len(pieces(a \o b)) = n + m
    BY <1>2, <2>0
  <2>2. /\ \A i \in 1 .. n : pieces(a)[i] = EncodedField(a[i], v)
        /\ \A i \in 1 .. m : pieces(b)[i] = EncodedField(b[i], v)
        /\ \A i \in 1 .. n + m : pieces(a \o b)[i] = EncodedField((a \o b)[i], v)
    BY <2>0
  <2> HIDE DEF pieces
  <2>3. /\ pieces(a) \o pieces(b) \in Seq(Seq(Printed))
        /\ Len(pieces(a) \o pieces(b)) = n + m
    BY <1>2, <2>1, ConcatType
  <2>4. ASSUME NEW i \in 1 .. n + m
        PROVE  pieces(a \o b)[i] = (pieces(a) \o pieces(b))[i]
    <3>1. pieces(a \o b)[i] = EncodedField((a \o b)[i], v)
      BY <2>2
    <3>2. CASE i <= n
      <4>1. (a \o b)[i] = a[i] /\ (pieces(a) \o pieces(b))[i] = pieces(a)[i]
        BY <1>2, <2>0, <2>1, <3>2
      <4> QED
        BY <2>2, <3>1, <3>2, <4>1
    <3>3. CASE i > n
      <4>1. i - n \in 1 .. m
        BY <3>3
      <4>2. (a \o b)[i] = b[i - n] /\ (pieces(a) \o pieces(b))[i] = pieces(b)[i - n]
        BY <1>2, <2>0, <2>1, <3>3
      <4> QED
        BY <2>2, <3>1, <4>1, <4>2
    <3>4. i <= n \/ i > n
      OBVIOUS
    <3> QED
      BY <3>2, <3>3, <3>4, Zenon
  <2>5. pieces(a \o b) \in Seq(Seq(Printed)) /\ Len(pieces(a \o b)) = n + m
    BY <1>2, <2>1
  <2>6. \A i \in 1 .. n + m : pieces(a \o b)[i] = (pieces(a) \o pieces(b))[i]
    BY <2>4
  <2> QED
    BY ONLY <2>3, <2>5, <2>6, SeqEqual
<1> HIDE DEF pieces
<1>4. FlattenSeq(pieces(a) \o pieces(b)) = FlattenSeq(pieces(a)) \o FlattenSeq(pieces(b))
  BY ONLY <1>2, FlattenConcat
<1> QED
  BY <1>2, <1>3, <1>4

-----------------------------------------------------------------------------
(* Arguments. *)

LEMMA KeysDiffer ==
  ASSUME NEW n
  PROVE  Arg(n) # Key("")
BY DEF Arg, Key

LEMMA PairType ==
  ASSUME NEW kv \in Seq(Things), NEW p \in 1 .. (Len(kv) + 1) \div 2
  PROVE  Pair(kv, p) \in Fields /\ p \in Nat /\ 2 * p - 1 \in 1 .. Len(kv)
<1>1. p \in Nat /\ p - 1 \in Nat /\ 2 * p - 1 \in 1 .. Len(kv)
  OBVIOUS
<1>2. kv[2 * p - 1] \in Things
  BY <1>1
<1>3. 2 * p <= Len(kv) => kv[2 * p] \in Things
  BY <1>1
<1>4. /\ Arg(p - 1) \in KeyNames \X Nat
      /\ KeyFromValue(kv[2 * p - 1], p - 1) \in KeyNames \X Nat
  BY <1>1, <1>2 DEF Arg, Key, KeyFromValue, KeyNames
<1> QED
  BY <1>1, <1>2, <1>3, <1>4 DEF Pair, Field, Fields

LEMMA PairsType ==
  ASSUME NEW kv \in Seq(Things)
  PROVE  Pairs(kv) \in Seq(Fields) /\ Len(Pairs(kv)) = (Len(kv) + 1) \div 2
<1>1. (Len(kv) + 1) \div 2 \in Nat
  OBVIOUS
<1>2. \A p \in 1 .. (Len(kv) + 1) \div 2 : Pair(kv, p) \in Fields
  BY PairType
<1> QED
  BY <1>1, <1>2 DEF Pairs

\* The fields the emitters name are those that the arguments spell.
LEMMA SpelledIsEncoded ==
  ASSUME NEW kv \in Seq(Things), NEW v \in Nat
  PROVE  Spelled(kv, v) = Encoded(Pairs(kv), v)
<1> DEFINE n == (Len(kv) + 1) \div 2
           fieldOf(key, x) == << Field(key, [of |-> x, at |-> IF x = "obj" THEN v ELSE 0]) >>
           spell(p) ==
              IF 2 * p > Len(kv) THEN fieldOf(Arg(p - 1), Last(kv))
              ELSE IF kv[2 * p - 1] = "" THEN << >>
              ELSE IF kv[2 * p - 1] = "nil" THEN fieldOf(Arg(p - 1), kv[2 * p])
              ELSE fieldOf(Key(kv[2 * p - 1]), kv[2 * p])
<1>1. Spelled(kv, v) = FlattenSeq([p \in 1 .. n |-> spell(p)])
  BY DEF Spelled
<1>2. Encoded(Pairs(kv), v) = FlattenSeq([p \in 1 .. n |-> EncodedField(Pairs(kv)[p], v)])
  BY PairsType, EncodedPieces
<1>3. ASSUME NEW p \in 1 .. n PROVE spell(p) = EncodedField(Pairs(kv)[p], v)
  <2>1. Pairs(kv)[p] = Pair(kv, p)
    BY DEF Pairs
  <2>2. p \in Nat /\ 2 * p - 1 \in 1 .. Len(kv) /\ Len(kv) \in Nat
    BY PairType
  <2>3. CASE 2 * p > Len(kv)
    <3>1. 2 * p - 1 = Len(kv) /\ ~(2 * p <= Len(kv))
      BY <2>2, <2>3
    <3>2. Pair(kv, p) = Field(Arg(p - 1), Last(kv))
      BY <3>1 DEF Pair, Last
    <3>3. Pair(kv, p).key = Arg(p - 1) /\ Pair(kv, p).value = Last(kv)
      BY <3>2 DEF Field
    <3>4. EncodedField(Pair(kv, p), v) = fieldOf(Arg(p - 1), Last(kv))
      BY <3>3, KeysDiffer DEF EncodedField, Named, Shown
    <3> QED
      BY <2>1, <2>3, <3>4
  <2>4. CASE ~(2 * p > Len(kv))
    <3>1. Pair(kv, p) = Field(KeyFromValue(kv[2 * p - 1], p - 1), kv[2 * p])
      BY <2>2, <2>4 DEF Pair
    <3>2. KeyFromValue(kv[2 * p - 1], p - 1) = Key("") <=> kv[2 * p - 1] = ""
      BY KeysDiffer DEF KeyFromValue, Key
    <3>3. /\ Pair(kv, p).key = KeyFromValue(kv[2 * p - 1], p - 1)
          /\ Pair(kv, p).value = kv[2 * p]
      BY <3>1 DEF Field
    <3>4. EncodedField(Pair(kv, p), v)
            = IF kv[2 * p - 1] = "" THEN << >>
              ELSE fieldOf(KeyFromValue(kv[2 * p - 1], p - 1), kv[2 * p])
      BY <3>2, <3>3 DEF EncodedField, Named, Shown
    <3> QED
      BY <2>1, <2>4, <3>4 DEF KeyFromValue
  <2> QED
    BY <2>3, <2>4
<1> HIDE DEF spell
<1>4. [p \in 1 .. n |-> spell(p)] = [p \in 1 .. n |-> EncodedField(Pairs(kv)[p], v)]
  BY <1>3
<1> QED
  BY <1>1, <1>2, <1>4

-----------------------------------------------------------------------------
(* Paths. *)

Ops == [op : {"With"}, kv : Seq(Things)]
       \cup [op : {"WithLogLevel"}]
       \cup [op : {"LogLevel"}, level : AllLevels]

\* What a call adds to the static fields.
Added(c, v) ==
    IF c.op # "With" THEN << >>
    ELSE IF c.kv = <<"err">> THEN << Field(Key("error"), [of |-> "err", at |-> 0]) >>
    ELSE Spelled(c.kv, v)

LEMMA CollectedType ==
  ASSUME NEW kv \in Seq(Things)
  PROVE  Collected(kv) \in Seq(Fields)
<1>1. CASE kv = <<"err">>
  <2>1. kv[1] \in Things /\ kv[1] = "err"
    BY <1>1
  <2>2. Field(Key("error"), "err") \in Fields
    BY <2>1 DEF Field, Key, Fields, KeyNames
  <2> QED
    BY <1>1, <2>2 DEF Collected
<1>2. CASE kv # <<"err">>
  BY <1>2, PairsType DEF Collected
<1> QED
  BY <1>1, <1>2

\* The fields collected for With print as its arguments spell.
LEMMA CollectedPrints ==
  ASSUME NEW kv \in Seq(Things), NEW v \in Nat
  PROVE  Encoded(Collected(kv), v) = Added([op |-> "With", kv |-> kv], v)
<1>1. CASE kv = <<"err">>
  <2> DEFINE f == Field(Key("error"), "err")
             printed == Field(Key("error"), [of |-> "err", at |-> 0])
  <2>1. Collected(kv) = << f >> /\ << f >> \in Seq(Fields)
    BY <1>1, CollectedType DEF Collected
  <2>2. f.key = Key("error") /\ f.value = "err"
    BY DEF Field
  <2> HIDE DEF f
  <2>3. Key("error") # Key("")
    BY DEF Key
  <2>4. EncodedField(f, v) = << printed >>
    BY <2>2, <2>3 DEF EncodedField, Named, Shown
  <2>5. f \in Fields
    BY <2>1
  <2>6. << printed >> \in Seq(Printed)
    BY <2>4, <2>5, EncodedFieldType
  <2>7. [i \in 1 .. Len(<< f >>) |-> EncodedField(<< f >>[i], v)] = << << printed >> >>
    BY <2>4
  <2>8. Encoded(<< f >>, v) = FlattenSeq(<< << printed >> >>)
    BY <2>1, <2>7, EncodedPieces
  <2>9. Encoded(<< f >>, v) = << printed >>
    BY <2>6, <2>8, FlattenOne
  <2> QED
    BY <1>1, <2>1, <2>9 DEF Added
<1>2. CASE kv # <<"err">>
  BY <1>2, SpelledIsEncoded DEF Collected, Added
<1> QED
  BY <1>1, <1>2

LEMMA AddedType ==
  ASSUME NEW c \in Ops, NEW v \in Nat
  PROVE  Added(c, v) \in Seq(Printed)
<1>1. CASE c.op # "With"
  BY <1>1 DEF Added
<1>2. CASE c.op = "With"
  <2>1. c \in [op : {"With"}, kv : Seq(Things)]
    BY <1>2 DEF Ops
  <2>2. c = [op |-> "With", kv |-> c.kv] /\ c.kv \in Seq(Things)
    BY <2>1
  <2> QED
    BY <2>2, CollectedPrints, CollectedType, EncodedType
<1> QED
  BY <1>1, <1>2

LEMMA StaticPieces ==
  ASSUME NEW path \in Seq(Ops), NEW v \in Nat
  PROVE  /\ [n \in 1 .. Len(path) |-> Added(path[n], v)] \in Seq(Seq(Printed))
         /\ StaticFields(path, v) = FlattenSeq([n \in 1 .. Len(path) |-> Added(path[n], v)])
<1>1. \A n \in 1 .. Len(path) : Added(path[n], v) \in Seq(Printed)
  BY AddedType
<1> QED
  BY <1>1 DEF StaticFields, Added

LEMMA StaticType ==
  ASSUME NEW path \in Seq(Ops), NEW v \in Nat
  PROVE  StaticFields(path, v) \in Seq(Printed)
BY StaticPieces, FlattenType

\* A call adds its fields behind those there were.
LEMMA StaticAppend ==
  ASSUME NEW path \in Seq(Ops), NEW c \in Ops, NEW v \in Nat
  PROVE  StaticFields(Append(path, c), v) = StaticFields(path, v) \o Added(c, v)
<1> DEFINE pieces(p) == [n \in 1 .. Len(p) |-> Added(p[n], v)]
           new == Append(path, c)
<1>1. new \in Seq(Ops) /\ Added(c, v) \in Seq(Printed)
  BY AddedType
<1>2. /\ pieces(path) \in Seq(Seq(Printed)) /\ StaticFields(path, v) = FlattenSeq(pieces(path))
      /\ StaticFields(new, v) = FlattenSeq(pieces(new))
  BY <1>1, StaticPieces
<1>3. pieces(new) = Append(pieces(path), Added(c, v))
  OBVIOUS
<1> HIDE DEF pieces
<1>4. FlattenSeq(Append(pieces(path), Added(c, v))) = FlattenSeq(pieces(path)) \o Added(c, v)
  BY ONLY <1>1, <1>2, FlattenAppend
<1> QED
  BY <1>2, <1>3, <1>4

\* Which level is in force, after one more call.
LEMMA LevelsAppend ==
  ASSUME NEW path \in Seq(Ops), NEW c \in Ops
  PROVE  /\ Unleveled(Append(path, c))
              <=> IF c.op = "LogLevel" THEN c.level = NoLevel ELSE Unleveled(path)
         /\ Threshold(Append(path, c))
              = IF c.op = "LogLevel" /\ c.level # NoLevel THEN c.level ELSE Threshold(path)
<1> DEFINE new == Append(path, c)
           n   == Len(path)
           leveled(p) == {i \in LevelCalls(p) : p[i].level # NoLevel}
<1>1. /\ n \in Nat /\ DOMAIN path = 1 .. n /\ DOMAIN new = 1 .. n + 1
      /\ new[n + 1] = c /\ \A i \in 1 .. n : new[i] = path[i]
  OBVIOUS
<1> HIDE DEF n, new
<1>2. LevelCalls(path) \subseteq 1 .. n /\ leveled(path) \subseteq 1 .. n
  BY <1>1 DEF LevelCalls
<1>3. ASSUME NEW S \in SUBSET (1 .. n), S # {}
      PROVE  Max(S) \in S /\ Max(S) \in 1 .. n /\ Max(S \cup {n + 1}) = n + 1
  <2>1. S \in SUBSET (0 .. n) /\ S \cup {n + 1} \in SUBSET Int
    BY <1>1
  <2>2. \A y \in S \cup {n + 1} : y <= n + 1
    BY <1>1
  <2> QED
    BY <1>1, <1>3, <2>1, <2>2, MaxOfNumbers, MaxIs
<1>4. Max({n + 1}) = n + 1
  <2>1. {n + 1} \in SUBSET Int /\ n + 1 \in {n + 1} /\ \A y \in {n + 1} : y <= n + 1
    BY <1>1
  <2> QED
    BY ONLY <2>1, MaxIs
<1>5. \A S \in SUBSET (1 .. n) : Max(S \cup {n + 1}) = n + 1
  BY <1>3, <1>4
<1>6. LevelCalls(new) = IF c.op = "LogLevel" THEN LevelCalls(path) \cup {n + 1}
                        ELSE LevelCalls(path)
  BY <1>1 DEF LevelCalls
<1>7. leveled(new) = IF c.op = "LogLevel" /\ c.level # NoLevel THEN leveled(path) \cup {n + 1}
                     ELSE leveled(path)
  BY <1>1, <1>6 DEF LevelCalls
<1>8. \A p : Threshold(p) = IF leveled(p) = {} THEN options.minLevel ELSE p[Max(leveled(p))].level
  BY DEF Threshold
<1> HIDE DEF leveled
<1>9. Unleveled(new) <=> IF c.op = "LogLevel" THEN c.level = NoLevel ELSE Unleveled(path)
  <2>1. CASE c.op = "LogLevel"
    <3>1. LevelCalls(new) # {} /\ Max(LevelCalls(new)) = n + 1
      BY <1>2, <1>5, <1>6, <2>1
    <3> QED
      BY <1>1, <2>1, <3>1 DEF Unleveled
  <2>2. CASE c.op # "LogLevel"
    <3>1. LevelCalls(new) = LevelCalls(path)
      BY <1>6, <2>2
    <3>2. LevelCalls(path) # {} => new[Max(LevelCalls(path))] = path[Max(LevelCalls(path))]
      BY <1>1, <1>2, <1>3
    <3> QED
      BY <2>2, <3>1, <3>2 DEF Unleveled
  <2> QED
    BY <2>1, <2>2
<1>10. Threshold(new) = IF c.op = "LogLevel" /\ c.level # NoLevel THEN c.level ELSE Threshold(path)
  BY <1>1, <1>2, <1>3, <1>5, <1>7, <1>8
<1> QED
  BY <1>9, <1>10 DEF new

-----------------------------------------------------------------------------
(* Loggers. *)

AnyLogger ==
    [min : AllLevels, forced : {NoForce, NoLevel}, withLevel : BOOLEAN,
     levelValue : AllLevels, fields : Seq(Fields), payload : Seq(Printed),
     emit : [timestamp : BOOLEAN, loglevel : BOOLEAN, static : BOOLEAN],
     born : Nat, path : Seq(Ops)]

\* What the methods change before they rebuild, as the path has it.
Prepared(l, path) ==
    /\ l.forced = IF Unleveled(path) THEN NoLevel ELSE NoForce
    /\ l.min = Threshold(path)
    /\ l.withLevel <=> \E n \in DOMAIN path : path[n].op = "WithLogLevel"
    /\ \A v \in Nat : Encoded(l.fields, v) = StaticFields(path, v)

\* A logger is what its path says: the parts that are cached with the others.
Follows(l) ==
    /\ Prepared(l, l.path)
    /\ l.emit = [timestamp |-> options.timestamp, loglevel |-> l.withLevel,
                 static |-> l.payload # << >>]
    /\ l.withLevel => l.levelValue = CurrentLevel(l)
    /\ l.payload = StaticFields(l.path, l.born)

LTypes ==
    /\ options \in Options
    /\ version \in Nat
    /\ mem \in [DOMAIN Cells -> Seq(Things)]
    /\ \A a \in DOMAIN Cells : Len(mem[a]) = Len(Cells[a])
    /\ loggers \in Seq(AnyLogger)

LInv ==
    /\ LTypes
    /\ loggers # << >>
    /\ \A i \in 1 .. Len(loggers) : Follows(loggers[i])

LEMMA Levels6 == NoForce = -2 /\ NoLevel = 6 /\ NoLevel \in AllLevels /\ NoForce # NoLevel
  BY DEF NoForce, NoLevel, AllLevels, Disabled

\* A logger that is rebuilt is what its path and one more call say.
LEMMA RebuiltFollows ==
  ASSUME options \in Options, version \in Nat, NEW l \in AnyLogger, NEW c \in Ops,
         Prepared(l, Append(l.path, c))
  PROVE  LET new == [Rebuilt(l) EXCEPT !.path = Append(@, c)]
         IN  new \in AnyLogger /\ Follows(new)
<1> DEFINE path    == Append(l.path, c)
           payload == Encoded(l.fields, version)
           value   == IF l.withLevel THEN CurrentLevel(l) ELSE l.levelValue
           emit    == [timestamp |-> options.timestamp, loglevel |-> l.withLevel,
                       static |-> payload # << >>]
           new     == [Rebuilt(l) EXCEPT !.path = Append(@, c)]
<1>1. /\ l.min \in AllLevels /\ l.forced \in {NoForce, NoLevel} /\ l.withLevel \in BOOLEAN
      /\ l.levelValue \in AllLevels /\ l.fields \in Seq(Fields) /\ l.path \in Seq(Ops)
  BY DEF AnyLogger
<1>2. /\ path \in Seq(Ops)
      /\ payload \in Seq(Printed)
      /\ value \in AllLevels
      /\ emit \in [timestamp : BOOLEAN, loglevel : BOOLEAN, static : BOOLEAN]
  <2>1. path \in Seq(Ops)
    BY <1>1
  <2>2. payload \in Seq(Printed)
    BY <1>1, EncodedType
  <2>3. value \in AllLevels
    BY <1>1, Levels6 DEF CurrentLevel
  <2>4. options.timestamp \in BOOLEAN
    BY DerivedLoggersConstants
  <2> QED
    BY <1>1, <2>1, <2>2, <2>3, <2>4
<1>3. new = [min |-> l.min, forced |-> l.forced, withLevel |-> l.withLevel,
             levelValue |-> value, fields |-> l.fields, payload |-> payload, emit |-> emit,
             born |-> version, path |-> path]
  <2>1. Rebuilt(l) = [l EXCEPT !.payload = payload, !.levelValue = value, !.emit = emit,
                               !.born = version]
    BY DEF Rebuilt
  <2>2. new = [Rebuilt(l) EXCEPT !.path = path]
    <3>1. Rebuilt(l).path = l.path
      <4> HIDE DEF payload, value, emit
      <4> QED
        BY <2>1 DEF AnyLogger
    <3> QED
      BY <3>1
  <2> HIDE DEF payload, value, emit, path, new
  <2>3. new = [[l EXCEPT !.payload = payload, !.levelValue = value, !.emit = emit,
                         !.born = version] EXCEPT !.path = path]
    BY <2>1, <2>2
  <2> QED
    BY <2>3 DEF AnyLogger
<1>4. Prepared(l, path)
  OBVIOUS
<1>5. payload = StaticFields(path, version)
  BY <1>4 DEF Prepared
<1> HIDE DEF path, payload, value, emit, new
<1>6. new \in AnyLogger
  BY <1>1, <1>2, <1>3 DEF AnyLogger
<1>7. /\ new.min = l.min /\ new.forced = l.forced /\ new.withLevel = l.withLevel
      /\ new.levelValue = value /\ new.fields = l.fields /\ new.payload = payload
      /\ new.emit = emit /\ new.born = version /\ new.path = path
  BY <1>3
<1>8. Prepared(new, new.path)
  BY <1>4, <1>7 DEF Prepared
<1>9. new.withLevel => new.levelValue = CurrentLevel(new)
  BY <1>7 DEF CurrentLevel, value
<1>10. new.emit = [timestamp |-> options.timestamp, loglevel |-> new.withLevel,
                   static |-> new.payload # << >>]
  BY <1>7 DEF emit
<1> QED
  BY <1>5, <1>6, <1>7, <1>8, <1>9, <1>10 DEF Follows, new

LEMMA ShownAppend ==
  ASSUME NEW path \in Seq(Ops), NEW c \in Ops
  PROVE  (\E n \in DOMAIN Append(path, c) : Append(path, c)[n].op = "WithLogLevel")
            <=> \/ c.op = "WithLogLevel"
                \/ \E n \in DOMAIN path : path[n].op = "WithLogLevel"
<1> DEFINE new == Append(path, c)
<1>1. PICK n \in Nat : n = Len(path)
  OBVIOUS
<1>2. /\ DOMAIN path = 1 .. n /\ DOMAIN new = 1 .. n + 1 /\ new[n + 1] = c
      /\ \A i \in 1 .. n : new[i] = path[i]
  BY <1>1
<1> HIDE DEF new
<1>3. \A i \in 1 .. n + 1 : i \in 1 .. n \/ i = n + 1
  OBVIOUS
<1>4. n + 1 \in 1 .. n + 1 /\ \A i \in 1 .. n : i \in 1 .. n + 1
  OBVIOUS
<1>5. (\E i \in DOMAIN new : new[i].op = "WithLogLevel")
        <=> \/ c.op = "WithLogLevel"
            \/ \E i \in DOMAIN path : path[i].op = "WithLogLevel"
  BY <1>2, <1>3, <1>4
<1> QED
  BY <1>5 DEF new

LEMMA WithPrepares ==
  ASSUME options \in Options, NEW l \in AnyLogger, Follows(l), NEW kv \in Seq(Things)
  PROVE  LET c   == [op |-> "With", kv |-> kv]
             new == [l EXCEPT !.fields = @ \o Collected(kv)]
         IN  /\ c \in Ops /\ new \in AnyLogger /\ new.path = l.path
             /\ Prepared(new, Append(l.path, c))
<1> DEFINE c   == [op |-> "With", kv |-> kv]
           new == [l EXCEPT !.fields = @ \o Collected(kv)]
           path == Append(l.path, c)
<1>1. c \in Ops /\ c.op = "With"
  BY DEF Ops
<1>2. l.fields \in Seq(Fields) /\ l.path \in Seq(Ops) /\ Collected(kv) \in Seq(Fields)
  BY CollectedType DEF AnyLogger
<1>3. /\ new \in AnyLogger /\ new.path = l.path /\ new.forced = l.forced /\ new.min = l.min
      /\ new.withLevel = l.withLevel /\ new.fields = l.fields \o Collected(kv)
  <2>1. l.fields \o Collected(kv) \in Seq(Fields)
    BY <1>2
  <2>2. new = [l EXCEPT !.fields = l.fields \o Collected(kv)]
    OBVIOUS
  <2> QED
    BY <2>1, <2>2 DEF AnyLogger
<1> HIDE DEF c, new
<1>4. (Unleveled(path) <=> Unleveled(l.path)) /\ Threshold(path) = Threshold(l.path)
  BY <1>1, <1>2, LevelsAppend
<1>5. (\E n \in DOMAIN path : path[n].op = "WithLogLevel")
        <=> \E n \in DOMAIN l.path : l.path[n].op = "WithLogLevel"
  BY <1>1, <1>2, ShownAppend
<1>6. ASSUME NEW v \in Nat PROVE Encoded(new.fields, v) = StaticFields(path, v)
  <2>1. Encoded(new.fields, v) = Encoded(l.fields, v) \o Encoded(Collected(kv), v)
    BY <1>2, <1>3, EncodedConcat
  <2>2. Encoded(l.fields, v) = StaticFields(l.path, v)
    BY DEF Follows, Prepared
  <2>3. Encoded(Collected(kv), v) = Added(c, v)
    BY CollectedPrints DEF c
  <2>4. StaticFields(path, v) = StaticFields(l.path, v) \o Added(c, v)
    BY <1>1, <1>2, StaticAppend
  <2> QED
    BY <2>1, <2>2, <2>3, <2>4
<1>7. Prepared(new, path)
  BY <1>3, <1>4, <1>5, <1>6 DEF Follows, Prepared
<1> QED
  BY <1>1, <1>3, <1>7 DEF c, new

\* A call other than With leaves the static fields.
LEMMA SameFields ==
  ASSUME NEW l \in AnyLogger, Follows(l), NEW c \in Ops, c.op # "With", NEW v \in Nat
  PROVE  Encoded(l.fields, v) = StaticFields(Append(l.path, c), v)
<1>1. l.path \in Seq(Ops)
  BY DEF AnyLogger
<1>2. StaticFields(Append(l.path, c), v) = StaticFields(l.path, v) \o << >>
  BY <1>1, StaticAppend DEF Added
<1>3. StaticFields(l.path, v) \in Seq(Printed)
  BY <1>1, StaticType
<1>4. Encoded(l.fields, v) = StaticFields(l.path, v)
  BY DEF Follows, Prepared
<1> QED
  BY <1>2, <1>3, <1>4

LEMMA WithLogLevelPrepares ==
  ASSUME options \in Options, NEW l \in AnyLogger, Follows(l)
  PROVE  LET c   == [op |-> "WithLogLevel"]
             new == [l EXCEPT !.withLevel = TRUE, !.levelValue = CurrentLevel(l)]
         IN  /\ c \in Ops /\ new \in AnyLogger /\ new.path = l.path
             /\ Prepared(new, Append(l.path, c))
<1> DEFINE c   == [op |-> "WithLogLevel"]
           new == [l EXCEPT !.withLevel = TRUE, !.levelValue = CurrentLevel(l)]
           path == Append(l.path, c)
<1>1. c \in Ops /\ c.op = "WithLogLevel"
  BY DEF Ops
<1>2. l.path \in Seq(Ops) /\ CurrentLevel(l) \in AllLevels
  BY Levels6 DEF AnyLogger, CurrentLevel
<1>3. /\ new \in AnyLogger /\ new.path = l.path /\ new.forced = l.forced /\ new.min = l.min
      /\ new.withLevel = TRUE /\ new.fields = l.fields
  BY <1>2 DEF AnyLogger
<1> HIDE DEF c, new
<1>4. (Unleveled(path) <=> Unleveled(l.path)) /\ Threshold(path) = Threshold(l.path)
  BY <1>1, <1>2, LevelsAppend
<1>5. \E n \in DOMAIN path : path[n].op = "WithLogLevel"
  BY <1>1, <1>2, ShownAppend
<1>6. ASSUME NEW v \in Nat PROVE Encoded(new.fields, v) = StaticFields(path, v)
  BY <1>1, <1>3, SameFields
<1>7. Prepared(new, path)
  BY <1>3, <1>4, <1>5, <1>6 DEF Follows, Prepared
<1> QED
  BY <1>1, <1>3, <1>7 DEF c, new

LEMMA LogLevelPrepares ==
  ASSUME options \in Options, NEW l \in AnyLogger, Follows(l), NEW level \in AllLevels
  PROVE  LET c   == [op |-> "LogLevel", level |-> level]
             new == WithLevel(l, level)
         IN  /\ c \in Ops /\ new \in AnyLogger /\ new.path = l.path
             /\ Prepared(new, Append(l.path, c))
<1> DEFINE c   == [op |-> "LogLevel", level |-> level]
           new == WithLevel(l, level)
           path == Append(l.path, c)
<1>1. c \in Ops /\ c.op = "LogLevel" /\ c.level = level
  BY DEF Ops
<1>2. l.path \in Seq(Ops) /\ l.min = Threshold(l.path)
  BY DEF AnyLogger, Follows, Prepared
<1>3. /\ new \in AnyLogger /\ new.path = l.path
      /\ new.forced = (IF level = NoLevel THEN NoLevel ELSE NoForce)
      /\ new.min = (IF level = NoLevel THEN l.min ELSE level)
      /\ new.withLevel = l.withLevel /\ new.fields = l.fields
  <2>1. CASE level = NoLevel
    BY <2>1, Levels6 DEF AnyLogger, WithLevel
  <2>2. CASE level # NoLevel
    BY <2>2, Levels6 DEF AnyLogger, WithLevel
  <2> QED
    BY <2>1, <2>2
<1> HIDE DEF c, new
<1>4. /\ Unleveled(path) <=> level = NoLevel
      /\ Threshold(path) = IF level # NoLevel THEN level ELSE Threshold(l.path)
  BY <1>1, <1>2, LevelsAppend
<1>5. (\E n \in DOMAIN path : path[n].op = "WithLogLevel")
        <=> \E n \in DOMAIN l.path : l.path[n].op = "WithLogLevel"
  BY <1>1, <1>2, ShownAppend
<1>6. ASSUME NEW v \in Nat PROVE Encoded(new.fields, v) = StaticFields(path, v)
  BY <1>1, <1>3, SameFields
<1>7. Prepared(new, path)
  BY <1>2, <1>3, <1>4, <1>5, <1>6 DEF Follows, Prepared
<1> QED
  BY <1>1, <1>3, <1>7 DEF c, new

-----------------------------------------------------------------------------
(* The family and the arrays. *)

LEMMA CellTypes ==
  /\ Cells \in [DOMAIN Cells -> Seq(Things)]
  /\ \A g \in Goroutines : \A c \in Calls[g] :
        /\ c.level \in AllLevels
        /\ c.exits => c.level = Fatal
        /\ c.slice \in [array : DOMAIN Cells, len : Nat]
        /\ c.slice.array \in DOMAIN Cells
        /\ c.slice.len \in 0 .. Len(Cells[c.slice.array])
  /\ \A s \in StaticSlices : s.array \in DOMAIN Cells /\ s.len \in 0 .. Len(Cells[s.array])
<1>1. Cells \in [DOMAIN Cells -> Seq(StoredThings)]
  BY DerivedLoggersConstants DEF StoredThings
<1>2. StoredThings \subseteq Things
  BY DEF Things
<1>3. Cells \in [DOMAIN Cells -> Seq(Things)]
  BY <1>1, <1>2
<1>4. \A g \in Goroutines : \A c \in Calls[g] :
        c.slice \in StaticSlices \cup {d.slice : d \in UNION {Calls[h] : h \in Goroutines}}
  OBVIOUS
<1>5. \A a \in DOMAIN Cells : Len(Cells[a]) \in Nat
  BY <1>3
<1> QED
  BY <1>3, <1>4, <1>5, DerivedLoggersConstants

LEMMA InitLInv == Init => LInv
<1> SUFFICES ASSUME Init PROVE LInv
  OBVIOUS
<1> DEFINE l == Root(options)
<1>1. options \in Options /\ options.minLevel \in AllLevels /\ options.timestamp \in BOOLEAN
  BY DerivedLoggersConstants DEF Init
<1>2. l \in AnyLogger
  BY <1>1 DEF Root, AnyLogger
<1>3. /\ l.forced = NoForce /\ l.min = options.minLevel /\ l.withLevel = FALSE
      /\ l.fields = << >> /\ l.payload = << >> /\ l.path = << >> /\ l.born = 0
      /\ l.emit = [timestamp |-> options.timestamp, loglevel |-> FALSE, static |-> FALSE]
  BY DEF Root
<1> HIDE DEF l
<1>4. ~Unleveled(<< >>) /\ Threshold(<< >>) = options.minLevel
  BY DEF Unleveled, Threshold, LevelCalls
<1>5. \A v \in Nat : Encoded(<< >>, v) = << >> /\ StaticFields(<< >>, v) = << >>
  <2>1. FlattenSeq(<< >>) = << >>
    BY DEF FlattenSeq
  <2> SUFFICES ASSUME NEW v \in Nat
               PROVE  Encoded(<< >>, v) = << >> /\ StaticFields(<< >>, v) = << >>
    OBVIOUS
  <2>2. << >> \in Seq(Fields) /\ << >> \in Seq(Ops) /\ Len(<< >>) = 0
    OBVIOUS
  <2>3. /\ Encoded(<< >>, v) = FlattenSeq([i \in 1 .. Len(<< >>) |-> EncodedField(<< >>[i], v)])
        /\ StaticFields(<< >>, v) = FlattenSeq([n \in 1 .. Len(<< >>) |-> Added(<< >>[n], v)])
    BY <2>2, EncodedPieces, StaticPieces
  <2>4. /\ [i \in 1 .. Len(<< >>) |-> EncodedField(<< >>[i], v)] = << >>
        /\ [n \in 1 .. Len(<< >>) |-> Added(<< >>[n], v)] = << >>
    OBVIOUS
  <2> QED
    BY <2>1, <2>3, <2>4
<1>6. Prepared(l, l.path)
  BY <1>3, <1>4, <1>5 DEF Prepared
<1>7. l.emit = [timestamp |-> options.timestamp, loglevel |-> l.withLevel,
                static |-> l.payload # << >>]
  BY <1>3
<1>8. Follows(l)
  BY <1>3, <1>5, <1>6, <1>7 DEF Follows
<1>9. loggers = << l >>
  BY DEF Init, l
<1>10. LTypes
  BY <1>1, <1>2, <1>9, CellTypes DEF Init, LTypes
<1> QED
  BY <1>8, <1>9, <1>10 DEF LInv

\* The methods add loggers and change none.
Grown == /\ Len(loggers) <= Len(loggers')
         /\ \A i \in 1 .. Len(loggers) : loggers'[i] = loggers[i]

LEMMA DerivedLInv ==
  ASSUME LInv, NEW l \in AnyLogger, NEW c \in Ops, Prepared(l, Append(l.path, c)), Derive(c, l)
  PROVE  LInv' /\ Grown
<1> DEFINE new == [Rebuilt(l) EXCEPT !.path = Append(@, c)]
<1>1. new \in AnyLogger /\ Follows(new)
  BY RebuiltFollows DEF LInv, LTypes
<1>2. loggers' = Append(loggers, new) /\ UNCHANGED <<options, mem, version>>
  BY DEF Derive
<1> HIDE DEF new
<1>3. PICK n \in Nat : n = Len(loggers)
  BY DEF LInv, LTypes
<1>4. /\ loggers' \in Seq(AnyLogger) /\ Len(loggers') = n + 1 /\ loggers'[n + 1] = new
      /\ \A i \in 1 .. n : loggers'[i] = loggers[i]
  BY <1>1, <1>2, <1>3 DEF LInv, LTypes
<1>5. \A m : Follows(m) => Follows(m)'
  BY <1>2 DEF Follows, Prepared, Threshold
<1>6. ASSUME NEW i \in 1 .. n + 1 PROVE Follows(loggers[i])'
  <2>1. CASE i = n + 1
    BY <1>1, <1>4, <1>5, <2>1
  <2>2. CASE i # n + 1
    <3>1. i \in 1 .. n
      BY <2>2
    <3> QED
      BY <1>3, <1>4, <1>5, <3>1 DEF LInv
  <2> QED
    BY <2>1, <2>2
<1>7. LTypes' /\ loggers' # << >>
  BY <1>2, <1>4 DEF LInv, LTypes
<1> QED
  BY <1>3, <1>4, <1>6, <1>7 DEF LInv, Grown

LEMMA ContentType ==
  ASSUME LTypes, NEW s, s.array \in DOMAIN Cells, s.len \in 0 .. Len(Cells[s.array])
  PROVE  Content(s) \in Seq(Things) /\ Len(Content(s)) = s.len
<1>1. mem[s.array] \in Seq(Things) /\ Len(mem[s.array]) = Len(Cells[s.array])
  BY DEF LTypes
<1> QED
  BY <1>1 DEF Content

LEMMA MethodsLInv ==
  ASSUME LInv, NEW i \in 1 .. Len(loggers),
         \/ \E s \in StaticSlices : With(i, s)
         \/ WithLogLevel(i)
         \/ \E level \in Levels : LogLevel(i, level)
  PROVE  LInv' /\ Grown /\ UNCHANGED <<options, mem, version, entry, exited>> /\ ~exited
<1>1. loggers[i] \in AnyLogger /\ Follows(loggers[i]) /\ options \in Options
  BY DEF LInv, LTypes
<1>2. ASSUME NEW s \in StaticSlices, With(i, s)
      PROVE  LInv' /\ Grown /\ UNCHANGED <<options, mem, version, entry, exited>> /\ ~exited
  <2>1. Content(s) \in Seq(Things)
    BY CellTypes, ContentType DEF LInv
  <2> DEFINE c   == [op |-> "With", kv |-> Content(s)]
             new == [loggers[i] EXCEPT !.fields = @ \o Collected(Content(s))]
  <2>2. /\ c \in Ops /\ new \in AnyLogger /\ new.path = loggers[i].path
        /\ Prepared(new, Append(loggers[i].path, c))
    BY <1>1, <2>1, WithPrepares
  <2>3. Derive(c, new)
    BY <1>2 DEF With
  <2> HIDE DEF c, new
  <2> QED
    BY <2>2, <2>3, DerivedLInv DEF Derive
<1>3. ASSUME WithLogLevel(i)
      PROVE  LInv' /\ Grown /\ UNCHANGED <<options, mem, version, entry, exited>> /\ ~exited
  <2> DEFINE c   == [op |-> "WithLogLevel"]
             new == [loggers[i] EXCEPT !.withLevel = TRUE,
                                       !.levelValue = CurrentLevel(loggers[i])]
  <2>1. /\ c \in Ops /\ new \in AnyLogger /\ new.path = loggers[i].path
        /\ Prepared(new, Append(loggers[i].path, c))
    BY <1>1, WithLogLevelPrepares
  <2>2. Derive(c, new)
    BY <1>3 DEF WithLogLevel
  <2> HIDE DEF c, new
  <2> QED
    BY <2>1, <2>2, DerivedLInv DEF Derive
<1>4. ASSUME NEW level \in Levels, LogLevel(i, level)
      PROVE  LInv' /\ Grown /\ UNCHANGED <<options, mem, version, entry, exited>> /\ ~exited
  <2>1. level \in AllLevels
    BY DerivedLoggersConstants
  <2> DEFINE c   == [op |-> "LogLevel", level |-> level]
             new == WithLevel(loggers[i], level)
  <2>2. /\ c \in Ops /\ new \in AnyLogger /\ new.path = loggers[i].path
        /\ Prepared(new, Append(loggers[i].path, c))
    BY <1>1, <2>1, LogLevelPrepares
  <2>3. Derive(c, new)
    BY <1>4 DEF LogLevel
  <2> HIDE DEF c, new
  <2> QED
    BY <2>2, <2>3, DerivedLInv DEF Derive
<1> QED
  BY <1>2, <1>3, <1>4

\* Entries and the mutable value leave the family as it is.
LEMMA FamilyKept ==
  ASSUME LInv, UNCHANGED <<options, loggers>>, LTypes'
  PROVE  LInv' /\ Grown
<1>1. \A m : Follows(m) => Follows(m)'
  BY DEF Follows, Prepared, Threshold
<1>2. Len(loggers) \in Nat
  BY DEF LInv, LTypes
<1> QED
  BY <1>1, <1>2 DEF LInv, Grown

-----------------------------------------------------------------------------
(* Entries. *)

\* Filtering as the path has it is what shouldLog does.
LEMMA FilterAsPath ==
  ASSUME NEW l \in AnyLogger, Follows(l), NEW level \in AllLevels
  PROVE  ShouldLog(l, level) <=> Enabled(l.path, level)
<1>1. /\ l.forced = IF Unleveled(l.path) THEN NoLevel ELSE NoForce
      /\ l.min = Threshold(l.path)
  BY DEF Follows, Prepared
<1>2. Info # Disabled /\ NoLevel # Disabled /\ NoForce # Disabled /\ NoForce # NoLevel
  BY DEF Info, Disabled, NoLevel, NoForce
<1> QED
  BY <1>1, <1>2 DEF ShouldLog, Enabled

EntryOK(g) ==
    /\ entry[g].logger \in 1 .. Len(loggers)
    /\ entry[g].level \in AllLevels
    /\ entry[g].given \in Seq(Things)
    /\ entry[g].exits => entry[g].level = Fatal
    /\ entry[g].pc = "dropped"
          <=> ~ShouldLog(loggers[entry[g].logger], entry[g].level)

EInv ==
    /\ LInv
    /\ entry = [g \in Goroutines |-> entry[g]]
    /\ \A g \in Goroutines :
          \/ entry[g] = Idle
          \/ entry[g].pc \in {"emit", "dropped", "written"} /\ EntryOK(g)
    /\ exited => \E g \in Goroutines :
          entry[g].pc \in {"dropped", "written"} /\ entry[g].exits

LEMMA IdlePc == Idle.pc = "idle"
  BY DEF Idle

LEMMA InitEInv == Init => EInv
<1> SUFFICES ASSUME Init PROVE EInv
  OBVIOUS
<1> QED
  BY InitLInv DEF Init, EInv

\* What is known of an entry stays true while the family grows.
LEMMA EntryKept ==
  ASSUME LInv, Grown, Len(loggers') \in Nat, NEW g \in Goroutines, entry'[g] = entry[g],
         EntryOK(g)
  PROVE  EntryOK(g)'
<1>1. Len(loggers) \in Nat
  BY DEF LInv, LTypes
<1>2. entry[g].logger \in 1 .. Len(loggers') /\ loggers'[entry[g].logger] = loggers[entry[g].logger]
  BY <1>1 DEF EntryOK, Grown
<1> QED
  BY <1>2 DEF EntryOK, ShouldLog

\* One goroutine's entry changes, to one that is in order.
LEMMA OneEntry ==
  ASSUME EInv, LInv', Grown, NEW g \in Goroutines, NEW e,
         entry' = [entry EXCEPT ![g] = e],
         e = Idle \/ (e.pc \in {"emit", "dropped", "written"} /\ EntryOK(g)'),
         ~exited, exited' = exited
  PROVE  EInv'
<1>1. \A h \in Goroutines : entry'[h] = IF h = g THEN e ELSE entry[h]
  BY DEF EInv
<1>2. entry' = [h \in Goroutines |-> entry'[h]]
  BY DEF EInv
<1>3. Len(loggers') \in Nat
  BY DEF LInv, LTypes
<1>4. ASSUME NEW h \in Goroutines
      PROVE  \/ entry'[h] = Idle
             \/ entry'[h].pc \in {"emit", "dropped", "written"} /\ EntryOK(h)'
  <2>1. CASE h = g
    BY <1>1, <2>1
  <2>2. CASE h # g
    BY <1>1, <1>3, <2>2, EntryKept DEF EInv
  <2> QED
    BY <2>1, <2>2
<1> QED
  BY <1>2, <1>4 DEF EInv

LEMMA MethodsEInv ==
  ASSUME EInv, NEW i \in 1 .. Len(loggers),
         \/ \E s \in StaticSlices : With(i, s)
         \/ WithLogLevel(i)
         \/ \E level \in Levels : LogLevel(i, level)
  PROVE  EInv'
<1>1. LInv' /\ Grown /\ UNCHANGED <<options, mem, version, entry, exited>> /\ ~exited
  BY MethodsLInv DEF EInv
<1>2. Len(loggers') \in Nat
  BY <1>1 DEF LInv, LTypes
<1>3. \A g \in Goroutines : EntryOK(g) => EntryOK(g)'
  BY <1>1, <1>2, EntryKept DEF EInv
<1> QED
  BY <1>1, <1>3 DEF EInv

LEMMA CallerIsThing == "fn" \in Things /\ Goroutines \subseteq Things
  BY DEF Things

LEMMA StoredType ==
  ASSUME LTypes, NEW g \in Goroutines, NEW s, s.array \in DOMAIN Cells,
         s.len \in 0 .. Len(Cells[s.array]), HasRoom(s)
  PROVE  /\ StoredPair(mem[s.array], s.len, g) \in Seq(Things)
         /\ Len(StoredPair(mem[s.array], s.len, g)) = Len(Cells[s.array])
<1> DEFINE cells == mem[s.array]
           len   == s.len
<1>1. PICK n \in Nat : n = Len(Cells[s.array])
  BY CellTypes
<1>2. cells \in Seq(Things) /\ Len(cells) = n /\ len \in Nat /\ len + 2 <= n
  BY <1>1 DEF LTypes, HasRoom
<1>3. "fn" \in Things /\ g \in Things
  BY CallerIsThing
<1>4. StoredPair(cells, len, g) = [[cells EXCEPT ![len + 1] = "fn"] EXCEPT ![len + 2] = g]
  BY DEF StoredPair
<1> HIDE DEF cells, len
<1>5. /\ [cells EXCEPT ![len + 1] = "fn"] \in Seq(Things)
      /\ Len([cells EXCEPT ![len + 1] = "fn"]) = n
  BY <1>2, <1>3
<1>6. \A t \in Seq(Things) : Len(t) = n => /\ [t EXCEPT ![len + 2] = g] \in Seq(Things)
                                            /\ Len([t EXCEPT ![len + 2] = g]) = n
  BY <1>2, <1>3
<1> QED
  BY <1>1, <1>4, <1>5, <1>6 DEF cells, len

LEMMA StoredLTypes ==
  ASSUME LTypes, NEW g \in Goroutines, NEW s, s.array \in DOMAIN Cells,
         s.len \in 0 .. Len(Cells[s.array]), HasRoom(s),
         mem' = [mem EXCEPT ![s.array] = StoredPair(@, s.len, g)],
         UNCHANGED <<options, version, loggers>>
  PROVE  LTypes'
<1> DEFINE new == StoredPair(mem[s.array], s.len, g)
<1>1. new \in Seq(Things) /\ Len(new) = Len(Cells[s.array])
  BY StoredType
<1>2. mem' = [mem EXCEPT ![s.array] = new]
  OBVIOUS
<1> HIDE DEF new
<1>3. mem' \in [DOMAIN Cells -> Seq(Things)]
  BY <1>1, <1>2 DEF LTypes
<1>4. \A a \in DOMAIN Cells : mem'[a] = IF a = s.array THEN new ELSE mem[a]
  BY <1>2 DEF LTypes
<1>5. \A a \in DOMAIN Cells : Len(mem'[a]) = Len(Cells[a])
  BY <1>1, <1>4 DEF LTypes
<1> QED
  BY <1>3, <1>5 DEF LTypes

\* What a call passes on.
ArgsOf(g, i, c) ==
    IF ShouldLog(loggers[i], c.level) /\ options.caller
    THEN IF HasRoom(c.slice) THEN InPlace([c.slice EXCEPT !.len = @ + 2])
         ELSE Copied(Content(c.slice) \o <<"fn", g>>)
    ELSE InPlace(c.slice)

LEMMA CallIs ==
  ASSUME NEW g, NEW i, NEW c, Call(g, i, c)
  PROVE  /\ entry' = [entry EXCEPT ![g] =
               Called(IF ShouldLog(loggers[i], c.level) THEN "emit" ELSE "dropped", i, c,
                      ArgsOf(g, i, c))]
         /\ mem' = IF ShouldLog(loggers[i], c.level) /\ options.caller /\ HasRoom(c.slice)
                   THEN [mem EXCEPT ![c.slice.array] = StoredPair(@, c.slice.len, g)]
                   ELSE mem
<1>1. CASE ~ShouldLog(loggers[i], c.level)
  BY <1>1 DEF Call, Drop, Pass, ArgsOf
<1>2. CASE ShouldLog(loggers[i], c.level) /\ ~options.caller
  BY <1>2 DEF Call, Drop, Pass, ArgsOf
<1>3. CASE ShouldLog(loggers[i], c.level) /\ options.caller /\ HasRoom(c.slice)
  BY <1>3 DEF Call, Drop, Pass, ArgsOf
<1>4. CASE ShouldLog(loggers[i], c.level) /\ options.caller /\ ~HasRoom(c.slice)
  BY <1>4 DEF Call, Drop, Pass, ArgsOf
<1> QED
  BY <1>1, <1>2, <1>3, <1>4

LEMMA CalledIs ==
  ASSUME NEW at, NEW i, NEW c, NEW args
  PROVE  /\ Called(at, i, c, args).pc = at
         /\ Called(at, i, c, args).logger = i
         /\ Called(at, i, c, args).level = c.level
         /\ Called(at, i, c, args).given = Content(c.slice)
         /\ Called(at, i, c, args).args = args
         /\ Called(at, i, c, args).exits = c.exits
BY DEF Called

LEMMA CallEInv ==
  ASSUME EInv, NEW g \in Goroutines, NEW i \in 1 .. Len(loggers), NEW c \in Calls[g],
         Call(g, i, c)
  PROVE  /\ EInv' /\ Grown /\ UNCHANGED <<options, loggers, version, exited>> /\ ~exited
         /\ entry[g] = Idle
         /\ Content(c.slice) \in Seq(Things)
<1>1. UNCHANGED <<options, loggers, version, exited>> /\ ~exited /\ entry[g] = Idle
  BY DEF Call
<1>2. /\ c.level \in AllLevels
      /\ c.exits => c.level = Fatal
      /\ c.slice.array \in DOMAIN Cells
      /\ c.slice.len \in 0 .. Len(Cells[c.slice.array])
  BY CellTypes
<1>3. Content(c.slice) \in Seq(Things)
  BY <1>2, ContentType DEF EInv, LInv
<1>4. LTypes'
  <2>1. CASE mem' = mem
    BY <1>1, <2>1 DEF EInv, LInv, LTypes
  <2>2. CASE /\ HasRoom(c.slice)
             /\ mem' = [mem EXCEPT ![c.slice.array] = StoredPair(@, c.slice.len, g)]
    BY <1>1, <1>2, <2>2, StoredLTypes DEF EInv, LInv
  <2> QED
    BY <2>1, <2>2, CallIs
<1>5. LInv' /\ Grown
  BY <1>1, <1>4, FamilyKept DEF EInv
<1> DEFINE at == IF ShouldLog(loggers[i], c.level) THEN "emit" ELSE "dropped"
           e  == Called(at, i, c, ArgsOf(g, i, c))
<1>6. at \in {"emit", "dropped"} /\ (at = "dropped" <=> ~ShouldLog(loggers[i], c.level))
  OBVIOUS
<1>7. /\ e.pc = at /\ e.logger = i /\ e.level = c.level /\ e.given = Content(c.slice)
      /\ e.exits = c.exits
  BY CalledIs
<1>8. entry' = [entry EXCEPT ![g] = e] /\ entry'[g] = e
  BY CallIs DEF EInv
<1> HIDE DEF e, at
<1>9. EntryOK(g)'
  <2>1. /\ entry'[g].logger = i /\ entry'[g].level = c.level /\ entry'[g].pc = at
        /\ entry'[g].given = Content(c.slice) /\ entry'[g].exits = c.exits
    BY <1>7, <1>8
  <2>2. entry'[g].pc = "dropped"
          <=> ~ShouldLog(loggers'[entry'[g].logger], entry'[g].level)
    BY <1>1, <1>6, <2>1
  <2>3. entry'[g].logger \in 1 .. Len(loggers')
    BY <1>1, <2>1
  <2>4. entry'[g].level \in AllLevels /\ entry'[g].given \in Seq(Things)
    BY <1>2, <1>3, <2>1
  <2>5. entry'[g].exits => entry'[g].level = Fatal
    BY <1>2, <2>1
  <2> QED
    BY <2>2, <2>3, <2>4, <2>5 DEF EntryOK
<1>10. e.pc \in {"emit", "dropped", "written"}
  BY <1>6, <1>7
<1> QED
  BY <1>1, <1>3, <1>5, <1>8, <1>9, <1>10, OneEntry

LEMMA EmitIs ==
  ASSUME EInv, NEW g \in Goroutines, Emit(g)
  PROVE  /\ entry' = [entry EXCEPT ![g] = entry'[g]]
         /\ entry'[g].pc = "written" /\ entry'[g].logger = entry[g].logger
         /\ entry'[g].level = entry[g].level /\ entry'[g].given = entry[g].given
         /\ entry'[g].exits = entry[g].exits /\ entry'[g].seen = version
         /\ entry'[g].line = Line(loggers[entry[g].logger], entry[g].level,
                                  Passed(entry[g].args))
<1> DEFINE e == entry[g]
           new == [pc |-> "written", logger |-> e.logger, level |-> e.level,
                   given |-> e.given, exits |-> e.exits, seen |-> version,
                   line |-> Line(loggers[e.logger], e.level, Passed(e.args))]
<1>1. entry' = [entry EXCEPT ![g] = new]
  BY DEF Emit
<1>2. entry'[g] = new
  BY <1>1 DEF EInv
<1>3. /\ new.pc = "written" /\ new.logger = e.logger
      /\ new.level = e.level /\ new.given = e.given
      /\ new.exits = e.exits /\ new.seen = version
      /\ new.line = Line(loggers[e.logger], e.level, Passed(e.args))
  OBVIOUS
<1> HIDE DEF new
<1> QED
  BY <1>1, <1>2, <1>3

LEMMA EmitEInv ==
  ASSUME EInv, NEW g \in Goroutines, Emit(g)
  PROVE  /\ EInv' /\ Grown /\ UNCHANGED <<options, loggers, mem, version, exited>> /\ ~exited
         /\ entry[g].pc = "emit" /\ EntryOK(g)
<1>1. /\ UNCHANGED <<options, loggers, mem, version, exited>> /\ ~exited
      /\ entry[g].pc = "emit"
  BY DEF Emit
<1>2. EntryOK(g)
  BY <1>1, IdlePc DEF EInv
<1>3. LTypes'
  BY <1>1 DEF EInv, LInv, LTypes
<1>4. LInv' /\ Grown
  BY <1>1, <1>3, FamilyKept DEF EInv
<1>5. entry'[g].pc = "dropped"
          <=> ~ShouldLog(loggers'[entry'[g].logger], entry'[g].level)
  BY <1>1, <1>2, EmitIs DEF EntryOK
<1>6. /\ entry'[g].logger \in 1 .. Len(loggers')
      /\ entry'[g].level \in AllLevels
      /\ entry'[g].given \in Seq(Things)
  BY <1>1, <1>2, EmitIs DEF EntryOK
<1>7. entry'[g].exits => entry'[g].level = Fatal
  BY <1>2, EmitIs DEF EntryOK
<1>8. EntryOK(g)'
  BY <1>5, <1>6, <1>7 DEF EntryOK
<1>9. EInv'
  <2>1. entry' = [entry EXCEPT ![g] = entry'[g]] /\ entry'[g].pc \in {"emit", "dropped", "written"}
    BY EmitIs
  <2> QED
    BY <1>1, <1>4, <1>8, <2>1, OneEntry
<1> QED
  BY <1>1, <1>2, <1>4, <1>9

LEMMA ReturnEInv ==
  ASSUME EInv, NEW g \in Goroutines, Return(g)
  PROVE  /\ EInv' /\ Grown /\ UNCHANGED <<options, loggers, mem, version>>
         /\ entry' = entry \/ entry' = [entry EXCEPT ![g] = Idle]
<1>1. UNCHANGED <<options, loggers, mem, version>> /\ ~exited
  BY DEF Return
<1>2. LTypes'
  BY <1>1 DEF EInv, LInv, LTypes
<1>3. LInv' /\ Grown
  BY <1>1, <1>2, FamilyKept DEF EInv
<1>4. CASE entry[g].exits
  <2>1. exited' = TRUE /\ entry' = entry /\ entry[g].pc \in {"written", "dropped"}
    BY <1>4 DEF Return
  <2>2. \A h \in Goroutines : EntryOK(h) => EntryOK(h)'
    BY <1>1, <2>1 DEF EntryOK, ShouldLog
  <2> QED
    BY <1>1, <1>3, <1>4, <2>1, <2>2 DEF EInv
<1>5. CASE ~entry[g].exits
  <2>1. exited' = exited /\ entry' = [entry EXCEPT ![g] = Idle]
    BY <1>5 DEF Return
  <2> QED
    BY <1>1, <1>3, <2>1, OneEntry
<1> QED
  BY <1>4, <1>5

LEMMA MutateEInv ==
  ASSUME EInv, Mutate
  PROVE  EInv' /\ Grown /\ UNCHANGED <<options, loggers, mem, entry, exited>> /\ version' \in Nat
<1>1. UNCHANGED <<options, loggers, mem, entry, exited>> /\ version' = version + 1
  BY DEF Mutate
<1>2. LTypes'
  BY <1>1 DEF EInv, LInv, LTypes
<1>3. LInv' /\ Grown
  BY <1>1, <1>2, FamilyKept DEF EInv
<1>4. \A h \in Goroutines : EntryOK(h) => EntryOK(h)'
  BY <1>1 DEF EntryOK, ShouldLog
<1> QED
  BY <1>1, <1>2, <1>3, <1>4 DEF EInv, LTypes

LEMMA StepEInv == EInv /\ [Next]_vars => EInv'
<1> SUFFICES ASSUME EInv, [Next]_vars PROVE EInv'
  OBVIOUS
<1>1. CASE UNCHANGED vars
  <2>1. UNCHANGED <<options, loggers, mem, version, entry, exited>>
    BY <1>1 DEF vars
  <2>2. LTypes'
    BY <2>1 DEF EInv, LInv, LTypes
  <2>3. LInv'
    BY <2>1, <2>2, FamilyKept DEF EInv
  <2>4. \A h \in Goroutines : EntryOK(h) => EntryOK(h)'
    BY <2>1 DEF EntryOK, ShouldLog
  <2> QED
    BY <2>1, <2>3, <2>4 DEF EInv
<1>2. CASE Next
  <2>1. ASSUME NEW i \in 1 .. Len(loggers),
               \/ \E s \in StaticSlices : With(i, s)
               \/ WithLogLevel(i)
               \/ \E level \in Levels : LogLevel(i, level)
        PROVE  EInv'
    BY <2>1, MethodsEInv
  <2>2. ASSUME NEW i \in 1 .. Len(loggers), NEW g \in Goroutines, NEW c \in Calls[g], Call(g, i, c)
        PROVE  EInv'
    BY <2>2, CallEInv
  <2>3. ASSUME NEW g \in Goroutines, Emit(g) \/ Return(g) PROVE EInv'
    BY <2>3, EmitEInv, ReturnEInv
  <2>4. ASSUME Mutate PROVE EInv'
    BY <2>4, MutateEInv
  <2> QED
    BY <1>2, <2>1, <2>2, <2>3, <2>4 DEF Next
<1> QED
  BY <1>1, <1>2

\* Every logger is what its path says, and every entry was filtered as its logger would.
THEOREM FamilyIsItsPaths == Spec => []EInv
BY InitEInv, StepEInv, PTL DEF Spec

\* Which entries pass is decided by the calls that made the logger: what its
\* relatives did, and when, makes no difference.
THEOREM FilterAlwaysFollows == Spec => []FilterFollowsDerivation
<1>1. EInv => FilterFollowsDerivation
  <2> SUFFICES ASSUME EInv, NEW g \in Goroutines, entry[g] # Idle
               PROVE  entry[g].pc = "dropped"
                        <=> ~Enabled(loggers[entry[g].logger].path, entry[g].level)
    BY DEF FilterFollowsDerivation
  <2>1. EntryOK(g)
    BY DEF EInv
  <2>2. loggers[entry[g].logger] \in AnyLogger /\ Follows(loggers[entry[g].logger])
    BY <2>1 DEF EInv, EntryOK, LInv, LTypes
  <2> QED
    BY <2>1, <2>2, FilterAsPath DEF EntryOK
<1> QED
  BY <1>1, FamilyIsItsPaths, PTL

\* The process never exits before an enabled Fatal entry has been written.
THEOREM ExitAlwaysAfterLine == Spec => []ExitAfterLine
<1>1. EInv => ExitAfterLine
  <2> SUFFICES ASSUME EInv, exited
               PROVE  \E g \in Goroutines :
                        /\ entry[g] # Idle /\ entry[g].exits
                        /\ Enabled(loggers[entry[g].logger].path, Fatal)
                              => entry[g].pc = "written"
    BY DEF ExitAfterLine
  <2>1. PICK g \in Goroutines : entry[g].pc \in {"dropped", "written"} /\ entry[g].exits
    BY DEF EInv
  <2>2. entry[g] # Idle /\ EntryOK(g)
    BY <2>1, IdlePc DEF EInv
  <2>3. entry[g].level = Fatal
    BY <2>1, <2>2 DEF EntryOK
  <2>4. loggers[entry[g].logger] \in AnyLogger /\ Follows(loggers[entry[g].logger])
    BY <2>2 DEF EInv, EntryOK, LInv, LTypes
  <2>5. entry[g].pc = "dropped" <=> ~Enabled(loggers[entry[g].logger].path, Fatal)
    BY <2>2, <2>3, <2>4, FilterAsPath DEF EntryOK
  <2> QED
    BY <2>1, <2>2, <2>5
<1> QED
  BY <1>1, FamilyIsItsPaths, PTL

-----------------------------------------------------------------------------
(* Lines. *)

\* Goroutines that log at the same time with the caller's name do not pass slices
\* of one array that has room behind them.  (Run Shared is what happens when they do.)
ArraysUnshared ==
    \A g \in Goroutines : \A h \in Goroutines \ {g} :
        \A c \in Calls[g] : \A d \in Calls[h] :
            c.slice.array = d.slice.array /\ (\E o \in Options : o.caller)
            => d.slice.len + 2 > Len(Cells[d.slice.array])

CallerPair(g) == IF options.caller THEN <<"fn", g>> ELSE << >>

\* The emitter will read what the call was given, and the caller.
ArgsOK(g) ==
    /\ Passed(entry[g].args) = entry[g].given \o CallerPair(g)
    /\ entry[g].args.kept # "copy" => \E c \in Calls[g] : entry[g].args.array = c.slice.array

LineOK(g) == entry[g].line = ExpectedLine(g, entry[g])

LineInv ==
    /\ EInv
    /\ \A g \in Goroutines :
          /\ entry[g].pc = "emit" => ArgsOK(g)
          /\ entry[g].pc = "written" => LineOK(g)

LEMMA LineKept ==
  ASSUME EInv, Grown, UNCHANGED options, NEW g \in Goroutines, entry'[g] = entry[g],
         EntryOK(g), LineOK(g)
  PROVE  LineOK(g)'
<1>1. loggers'[entry[g].logger] = loggers[entry[g].logger]
  BY DEF Grown, EntryOK
<1>2. \A path : Threshold(path)' = Threshold(path)
  BY DEF Threshold
<1>3. ExpectedLine(g, entry[g])' = ExpectedLine(g, entry[g])
  BY <1>1, <1>2 DEF ExpectedLine
<1> QED
  BY <1>3 DEF LineOK

LEMMA ArgsKept ==
  ASSUME NEW g \in Goroutines, entry'[g] = entry[g], UNCHANGED options, ArgsOK(g),
         entry[g].args.kept # "copy" => mem'[entry[g].args.array] = mem[entry[g].args.array]
  PROVE  ArgsOK(g)'
BY DEF ArgsOK, Passed, Content, CallerPair

\* A slice that is appended to in its array reads as if it had been copied.
LEMMA AppendedInPlace ==
  ASSUME NEW S, NEW cells \in Seq(S), NEW len \in Nat, len + 2 <= Len(cells), NEW g \in S,
         "fn" \in S
  PROVE  SubSeq(StoredPair(cells, len, g), 1, len + 2) = SubSeq(cells, 1, len) \o <<"fn", g>>
<1> DEFINE stored == StoredPair(cells, len, g)
           lhs == SubSeq(stored, 1, len + 2)
           rhs == SubSeq(cells, 1, len) \o <<"fn", g>>
<1>1. PICK n \in Nat : n = Len(cells)
  OBVIOUS
<1>2. /\ stored \in Seq(S) /\ Len(stored) = n
      /\ \A i \in 1 .. n : stored[i] = IF i = len + 1 THEN "fn" ELSE IF i = len + 2 THEN g
                                       ELSE cells[i]
  <2> DEFINE first == [cells EXCEPT ![len + 1] = "fn"]
  <2>1. stored = [first EXCEPT ![len + 2] = g]
    BY DEF StoredPair
  <2>2. first \in Seq(S) /\ Len(first) = n /\ \A i \in 1 .. n : first[i] = IF i = len + 1 THEN "fn" ELSE cells[i]
    BY <1>1
  <2> HIDE DEF first, stored
  <2>3. DOMAIN first = 1 .. n /\ len + 2 \in 1 .. n /\ len + 2 # len + 1
    BY <1>1, <2>2
  <2>4. stored \in Seq(S) /\ Len(stored) = n
    BY <2>1, <2>2, <2>3
  <2>5. \A i \in 1 .. n : stored[i] = IF i = len + 2 THEN g ELSE first[i]
    BY <2>1, <2>3
  <2> QED
    BY <2>2, <2>3, <2>4, <2>5
<1>3. SubSeq(cells, 1, len) \in Seq(S) /\ Len(SubSeq(cells, 1, len)) = len
      /\ \A i \in 1 .. len : SubSeq(cells, 1, len)[i] = cells[i]
  OBVIOUS
<1>4. <<"fn", g>> \in Seq(S) /\ Len(<<"fn", g>>) = 2
  OBVIOUS
<1> HIDE DEF stored
<1>5. /\ rhs \in Seq(S) /\ Len(rhs) = len + 2
      /\ \A i \in 1 .. len : rhs[i] = cells[i]
      /\ rhs[len + 1] = "fn" /\ rhs[len + 2] = g
  BY <1>3, <1>4
<1>6. lhs \in Seq(S) /\ Len(lhs) = len + 2 /\ \A i \in 1 .. len + 2 : lhs[i] = stored[i]
  BY <1>1, <1>2
<1> HIDE DEF lhs, rhs
<1>7. \A i \in 1 .. len + 2 : lhs[i] = rhs[i]
  BY <1>1, <1>2, <1>5, <1>6
<1>8. len + 2 \in Nat
  OBVIOUS
<1>9. lhs = rhs
  BY <1>5, <1>6, <1>7, <1>8, SeqEqual
<1> QED
  BY <1>9 DEF lhs, rhs, stored

\* What a call passes on reads as what it was given, and the caller.
LEMMA CallArgs ==
  ASSUME EInv, NEW g \in Goroutines, NEW i \in 1 .. Len(loggers), NEW c \in Calls[g],
         Call(g, i, c), entry'[g].pc = "emit"
  PROVE  ArgsOK(g)'
<1> DEFINE s     == c.slice
           given == Content(s)
           args  == ArgsOf(g, i, c)
<1>1. /\ c.slice.array \in DOMAIN Cells /\ c.slice.len \in 0 .. Len(Cells[c.slice.array])
      /\ given \in Seq(Things) /\ UNCHANGED options
  BY CellTypes, CallEInv
<1>2. LTypes /\ mem[s.array] \in Seq(Things) /\ Len(mem[s.array]) = Len(Cells[s.array])
  BY <1>1 DEF EInv, LInv, LTypes
<1>3. /\ entry'[g].pc = IF ShouldLog(loggers[i], c.level) THEN "emit" ELSE "dropped"
      /\ entry'[g].given = given /\ entry'[g].args = args
  BY CallIs, CalledIs DEF EInv
<1>4. ShouldLog(loggers[i], c.level)
  BY <1>3
<1>5. CASE ~options.caller
  <2>1. mem' = mem /\ args = InPlace(s) /\ ~options'.caller
    BY <1>1, <1>5, CallIs DEF ArgsOf
  <2>2. /\ InPlace(s).kept = "slice" /\ InPlace(s).array = s.array
        /\ InPlace(s).len = s.len
    BY DEF InPlace
  <2>3. Passed(entry[g].args)' = given
    BY <1>3, <2>1, <2>2 DEF Passed, Content
  <2>4. given \o << >> = given
    BY <1>1
  <2> HIDE DEF given, args
  <2>5. entry'[g].args.array = c.slice.array
    BY <1>3, <2>1, <2>2
  <2> QED
    BY <1>3, <2>1, <2>3, <2>4, <2>5 DEF ArgsOK, CallerPair
<1>6. CASE options.caller /\ HasRoom(s)
  <2> DEFINE new == StoredPair(mem[s.array], s.len, g)
             t   == [s EXCEPT !.len = @ + 2]
  <2>1. mem' = [mem EXCEPT ![s.array] = new] /\ args = InPlace(t) /\ options'.caller
    BY <1>1, <1>4, <1>6, CallIs DEF ArgsOf
  <2>2. mem'[s.array] = new
    BY <1>1, <2>1 DEF EInv, LInv, LTypes
  <2>3. t.array = s.array /\ t.len = s.len + 2
    BY CellTypes
  <2>4. /\ InPlace(t).kept = "slice" /\ InPlace(t).array = s.array
        /\ InPlace(t).len = s.len + 2
    BY <2>3 DEF InPlace
  <2>5. Passed(entry[g].args)' = SubSeq(new, 1, s.len + 2)
    BY <1>3, <2>1, <2>2, <2>4 DEF Passed, Content
  <2>6. SubSeq(new, 1, s.len + 2) = given \o <<"fn", g>>
    <3>1. s.len \in Nat /\ s.len + 2 <= Len(mem[s.array])
      BY <1>1, <1>6 DEF HasRoom
    <3>2. new = StoredPair(mem[s.array], s.len, g) /\ given = SubSeq(mem[s.array], 1, s.len)
      BY DEF Content
    <3>3. g \in Things /\ "fn" \in Things
      BY CallerIsThing
    <3> HIDE DEF new, given, s
    <3> QED
      BY <1>2, <3>1, <3>2, <3>3, AppendedInPlace
  <2> HIDE DEF given, args, new, t
  <2>7. entry'[g].args.array = c.slice.array
    BY <1>3, <2>1, <2>4
  <2> QED
    BY <1>3, <2>1, <2>5, <2>6, <2>7 DEF ArgsOK, CallerPair
<1>7. CASE options.caller /\ ~HasRoom(s)
  <2>1. args = Copied(given \o <<"fn", g>>) /\ options'.caller
    BY <1>1, <1>4, <1>7 DEF ArgsOf
  <2>2. Copied(given \o <<"fn", g>>).kept = "copy"
        /\ Copied(given \o <<"fn", g>>).cells = given \o <<"fn", g>>
    BY DEF Copied
  <2> HIDE DEF given, args
  <2> QED
    BY <1>3, <2>1, <2>2 DEF ArgsOK, CallerPair, Passed
<1> QED
  BY <1>5, <1>6, <1>7

\* An emitter writes the line that the path of its logger calls for.
LEMMA LineIs ==
  ASSUME EInv, NEW l \in AnyLogger, Follows(l), NEW level, NEW kv \in Seq(Things)
  PROVE  Line(l, level, kv)
           = (IF options.timestamp THEN << Field(Key("ts"), "now") >> ELSE << >>)
             \o << Field(Key("lvl"), level) >>
             \o StaticFields(l.path, l.born)
             \o Spelled(kv, version)
             \o (IF \E n \in DOMAIN l.path : l.path[n].op = "WithLogLevel"
                 THEN << Field(Key("loglevel"),
                               IF Unleveled(l.path) THEN NoLevel ELSE Threshold(l.path)) >>
                 ELSE << >>)
<1> DEFINE shown == \E n \in DOMAIN l.path : l.path[n].op = "WithLogLevel"
           inForce == IF Unleveled(l.path) THEN NoLevel ELSE Threshold(l.path)
           tail == IF shown THEN << Field(Key("loglevel"), inForce) >> ELSE << >>
<1>1. version \in Nat
  BY DEF EInv, LInv, LTypes
<1>2. l.emit.timestamp = options.timestamp /\ l.emit.loglevel = l.withLevel
      /\ l.emit.static = (l.payload # << >>)
  BY DEF Follows
<1>3. (IF l.emit.static THEN l.payload ELSE << >>) = StaticFields(l.path, l.born)
  BY <1>2 DEF Follows
<1>4. RuntimeFields(kv) = Spelled(kv, version)
  BY <1>1, SpelledIsEncoded DEF RuntimeFields
<1>5. l.withLevel <=> shown
  BY DEF Follows, Prepared
<1>6. l.withLevel => l.levelValue = inForce
  BY Levels6 DEF Follows, Prepared, CurrentLevel
<1> HIDE DEF shown, inForce
<1>7. (IF l.emit.loglevel THEN << Field(Key("loglevel"), l.levelValue) >> ELSE << >>) = tail
  BY <1>2, <1>5, <1>6
<1>8. (IF l.emit.timestamp THEN << Field(Key("ts"), "now") >> ELSE << >>)
        = IF options.timestamp THEN << Field(Key("ts"), "now") >> ELSE << >>
  BY <1>2
<1> HIDE DEF tail
<1>9. Line(l, level, kv)
        = (IF options.timestamp THEN << Field(Key("ts"), "now") >> ELSE << >>)
          \o << Field(Key("lvl"), level) >> \o StaticFields(l.path, l.born)
          \o Spelled(kv, version) \o tail
  BY <1>3, <1>4, <1>7, <1>8 DEF Line
<1> QED
  BY <1>9 DEF tail, shown, inForce

LEMMA CallLines ==
  ASSUME ArraysUnshared, LineInv, NEW g \in Goroutines, NEW i \in 1 .. Len(loggers),
         NEW c \in Calls[g], Call(g, i, c)
  PROVE  LineInv'
<1>1. /\ EInv /\ EInv' /\ Grown /\ UNCHANGED <<options, loggers, version, exited>>
      /\ entry[g] = Idle
  BY CallEInv DEF LineInv
<1>2. \A h \in Goroutines \ {g} : entry'[h] = entry[h]
  BY <1>1, CallIs DEF EInv
<1>3. entry'[g].pc \in {"emit", "dropped"}
  BY <1>1, CallIs, CalledIs DEF EInv
<1>4. entry'[g].pc = "emit" => ArgsOK(g)'
  BY <1>1, CallArgs
<1>5. ASSUME NEW h \in Goroutines \ {g}
      PROVE  /\ entry'[h].pc = "emit" => ArgsOK(h)'
             /\ entry'[h].pc = "written" => LineOK(h)'
  <2>1. entry[h].pc = "written" => LineOK(h)'
    <3>1. entry[h].pc = "written" => EntryOK(h)
      BY <1>1, IdlePc DEF EInv
    <3> QED
      BY <1>1, <1>2, <3>1, LineKept DEF LineInv
  <2>2. ASSUME entry[h].pc = "emit", entry[h].args.kept # "copy"
        PROVE  mem'[entry[h].args.array] = mem[entry[h].args.array]
    <3>1. PICK d \in Calls[h] : entry[h].args.array = d.slice.array
      BY <2>2 DEF LineInv, ArgsOK
    <3>2. CASE mem' = mem
      BY <3>2
    <3>3. CASE /\ options.caller /\ HasRoom(c.slice)
               /\ mem' = [mem EXCEPT ![c.slice.array] = StoredPair(@, c.slice.len, g)]
      <4>1. \E o \in Options : o.caller
        BY <1>1, <3>3 DEF EInv, LInv, LTypes
      <4>2. /\ c.slice.array \in DOMAIN Cells /\ c.slice.len \in Nat
            /\ c.slice.len + 2 <= Len(Cells[c.slice.array])
        BY <1>1, <3>3, CellTypes DEF HasRoom, EInv, LInv, LTypes
      <4>3. d.slice.array # c.slice.array
        <5>1. Len(Cells[c.slice.array]) \in Nat
          BY <4>2, CellTypes
        <5>2. ~(c.slice.len + 2 > Len(Cells[c.slice.array]))
          BY <4>2, <5>1
        <5> QED
          BY <4>1, <5>2 DEF ArraysUnshared
      <4> QED
        BY <3>1, <3>3, <4>3 DEF EInv, LInv, LTypes
    <3> QED
      BY <3>2, <3>3, CallIs
  <2>3. entry[h].pc = "emit" => ArgsOK(h)'
    BY <1>1, <1>2, <2>2, ArgsKept DEF LineInv
  <2> QED
    BY <1>2, <2>1, <2>3
<1> QED
  BY <1>1, <1>3, <1>4, <1>5 DEF LineInv

LEMMA EmitLines ==
  ASSUME LineInv, NEW g \in Goroutines, Emit(g)
  PROVE  LineInv'
<1>1. /\ EInv /\ EInv' /\ Grown /\ UNCHANGED <<options, loggers, mem, version>>
      /\ entry[g].pc = "emit" /\ EntryOK(g) /\ ArgsOK(g)
  BY EmitEInv DEF LineInv
<1>2. \A h \in Goroutines \ {g} : entry'[h] = entry[h]
  BY <1>1, EmitIs DEF EInv
<1>3. LineOK(g)'
  <2> DEFINE l  == loggers[entry[g].logger]
             kv == Passed(entry[g].args)
  <2>1. l \in AnyLogger /\ Follows(l)
    BY <1>1 DEF EntryOK, EInv, LInv, LTypes
  <2>2. kv = entry[g].given \o CallerPair(g) /\ entry[g].given \in Seq(Things)
    BY <1>1 DEF ArgsOK, EntryOK
  <2>3. CallerPair(g) \in Seq(Things)
    BY CallerIsThing DEF CallerPair
  <2>4. kv \in Seq(Things)
    BY <2>2, <2>3
  <2>5. entry'[g].line = Line(l, entry[g].level, kv)
    BY <1>1, EmitIs
  <2>6. /\ entry'[g].logger = entry[g].logger /\ entry'[g].level = entry[g].level
        /\ entry'[g].given = entry[g].given /\ entry'[g].seen = version
        /\ loggers' = loggers /\ options' = options
    BY <1>1, EmitIs
  <2> DEFINE expected == (IF options.timestamp THEN << Field(Key("ts"), "now") >> ELSE << >>)
                         \o << Field(Key("lvl"), entry[g].level) >>
                         \o StaticFields(l.path, l.born)
                         \o Spelled(entry[g].given \o CallerPair(g), version)
                         \o (IF \E n \in DOMAIN l.path : l.path[n].op = "WithLogLevel"
                             THEN << Field(Key("loglevel"),
                                           IF Unleveled(l.path) THEN NoLevel
                                           ELSE Threshold(l.path)) >>
                             ELSE << >>)
  <2>7. ExpectedLine(g, entry[g])' = expected
    BY <2>6 DEF ExpectedLine, CallerPair, Threshold
  <2>8. Line(l, entry[g].level, kv) = expected
    <3> HIDE DEF l, kv
    <3>1. EInv
      BY <1>1
    <3> QED
      BY ONLY <3>1, <2>1, <2>2, <2>4, LineIs DEF expected
  <2> HIDE DEF expected, l, kv
  <2> QED
    BY <2>5, <2>7, <2>8 DEF LineOK
<1>4. entry'[g].pc = "written"
  BY <1>1, EmitIs
<1>5. ASSUME NEW h \in Goroutines \ {g}
      PROVE  /\ entry'[h].pc = "emit" => ArgsOK(h)'
             /\ entry'[h].pc = "written" => LineOK(h)'
  <2>1. entry[h].pc = "written" => EntryOK(h)
    BY <1>1, IdlePc DEF EInv
  <2>2. entry[h].pc = "written" => LineOK(h)'
    BY <1>1, <1>2, <2>1, LineKept DEF LineInv
  <2>3. entry[h].pc = "emit" => ArgsOK(h)'
    BY <1>1, <1>2, ArgsKept DEF LineInv
  <2> QED
    BY <1>2, <2>2, <2>3
<1> QED
  BY <1>1, <1>3, <1>4, <1>5 DEF LineInv

\* The other steps leave the entries that are being logged, and what they pass on.
LEMMA OtherLines ==
  ASSUME LineInv, EInv', Grown, UNCHANGED <<options, mem>>,
         \/ entry' = entry
         \/ \E g \in Goroutines : entry' = [entry EXCEPT ![g] = Idle]
  PROVE  LineInv'
<1> SUFFICES ASSUME NEW h \in Goroutines
             PROVE  /\ entry'[h].pc = "emit" => ArgsOK(h)'
                    /\ entry'[h].pc = "written" => LineOK(h)'
  BY DEF LineInv
<1>1. CASE entry'[h] = entry[h]
  <2>1. EInv /\ (entry[h].pc = "written" => EntryOK(h))
    BY IdlePc DEF EInv, LineInv
  <2>2. entry[h].pc = "written" => LineOK(h)'
    BY <1>1, <2>1, LineKept DEF LineInv
  <2>3. entry[h].pc = "emit" => ArgsOK(h)'
    BY <1>1, ArgsKept DEF LineInv
  <2> QED
    BY <1>1, <2>2, <2>3
<1>2. CASE entry'[h] = Idle
  BY <1>2, IdlePc
<1>3. entry'[h] = entry[h] \/ entry'[h] = Idle
  BY DEF LineInv, EInv
<1> QED
  BY <1>1, <1>2, <1>3

\* A line has what every call that made its logger calls for, its own arguments and
\* the caller, in order: nothing that is cached when a logger is built goes stale, and
\* no other goroutine's entry shows.
THEOREM LinesAlwaysFollow ==
  ASSUME ArraysUnshared
  PROVE  Spec => []LinesFollowDerivation
<1>1. Init => LineInv
  <2> SUFFICES ASSUME Init PROVE LineInv
    OBVIOUS
  <2>1. \A g \in Goroutines : entry[g].pc = "idle"
    BY IdlePc DEF Init
  <2> QED
    BY <2>1, InitEInv DEF LineInv
<1>2. LineInv /\ [Next]_vars => LineInv'
  <2> SUFFICES ASSUME LineInv, [Next]_vars PROVE LineInv'
    OBVIOUS
  <2>1. EInv /\ EInv'
    BY StepEInv DEF LineInv
  <2>2. CASE UNCHANGED vars
    <3>1. UNCHANGED <<options, mem, loggers, entry>>
      BY <2>2 DEF vars
    <3>2. Grown
      BY <2>1, <3>1 DEF Grown, EInv, LInv, LTypes
    <3> QED
      BY <2>1, <3>1, <3>2, OtherLines
  <2>3. ASSUME NEW i \in 1 .. Len(loggers),
               \/ \E s \in StaticSlices : With(i, s)
               \/ WithLogLevel(i)
               \/ \E level \in Levels : LogLevel(i, level)
        PROVE  LineInv'
    <3>1. Grown /\ UNCHANGED <<options, mem, entry>>
      BY <2>1, <2>3, MethodsLInv DEF EInv
    <3> QED
      BY <2>1, <3>1, OtherLines
  <2>4. ASSUME NEW i \in 1 .. Len(loggers), NEW g \in Goroutines, NEW c \in Calls[g], Call(g, i, c)
        PROVE  LineInv'
    BY <2>4, CallLines
  <2>5. ASSUME NEW g \in Goroutines, Emit(g) PROVE LineInv'
    BY <2>5, EmitLines
  <2>6. ASSUME NEW g \in Goroutines, Return(g) PROVE LineInv'
    BY <2>1, <2>6, ReturnEInv, OtherLines
  <2>7. ASSUME Mutate PROVE LineInv'
    BY <2>1, <2>7, MutateEInv, OtherLines
  <2> QED
    BY <2>2, <2>3, <2>4, <2>5, <2>6, <2>7 DEF Next
<1>3. LineInv => LinesFollowDerivation
  BY DEF LineInv, LineOK, LinesFollowDerivation
<1> QED
  BY <1>1, <1>2, <1>3, PTL DEF Spec

=============================================================================
