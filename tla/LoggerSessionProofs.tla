------------------------- MODULE LoggerSessionProofs -------------------------
(***************************************************************************)
(* Proofs about LoggerSession and what it is composed of, for any          *)
(* programs, any size of words and caches and any width of UnixNano.       *)
(*                                                                         *)
(* First the parts, each by itself.  Words, Strings, Scans: the tests of   *)
(* whole words miss no byte, since a borrow only starts at a byte that is  *)
(* meant, and so the scans do what a look at every byte would.  Literal    *)
(* caches: what one answers is of the key asked for.  The environment, the *)
(* bridge, the switches, the chains.                                       *)
(*                                                                         *)
(* Then a session.  Types and The state say that every call is one the     *)
(* program may make.  Tokens to Keys say what is printed for a value or a  *)
(* key and that it reads back as it was meant.  The last sections follow a *)
(* line field by field: what is written so far is sound and reads back as  *)
(* the fields so far (SInv, RInv, FInv).                                   *)
(***************************************************************************)
EXTENDS LoggerSession, InductionLemmas, FiniteSetTheorems

-----------------------------------------------------------------------------
(* Words. *)

\* chunkJSONUnsafeMask, chunkEqualMask: a byte below the threshold is marked,
\* whatever is borrowed from it.
LEMMA BelowIsMarked ==
  ASSUME NEW word \in Seq(Nat), NEW t \in 1 .. 127,
         NEW j \in 1 .. Len(word), word[j] < t
  PROVE  j \in BelowMask(word, t)
<1> DEFINE borrowed == IF Borrows(word, t, j - 1) THEN 1 ELSE 0
<1>1. word[j] \in Nat /\ word[j] < 128
  OBVIOUS
<1>2. borrowed = 0 \/ borrowed = 1
  OBVIOUS
<1> HIDE DEF borrowed
<1>3. \A b, n \in Nat : b < n /\ n <= 127 => /\ (b - n - 0) % 256 >= 128
                                            /\ (b - n - 1) % 256 >= 128
  OBVIOUS
<1>4. t \in Nat /\ t <= 127
  OBVIOUS
<1>5. (word[j] - t - 0) % 256 >= 128 /\ (word[j] - t - 1) % 256 >= 128
  BY <1>1, <1>3, <1>4
<1>6. (word[j] - t - borrowed) % 256 >= 128
  BY <1>2, <1>5
<1> QED
  BY <1>1, <1>6 DEF BelowMask, borrowed

\* A byte that is marked has one below the threshold at its place or before it.
LEMMA MarkedBehindBelow ==
  ASSUME NEW word \in Seq(Nat), NEW t \in 1 .. 127, NEW j \in BelowMask(word, t)
  PROVE  \E i \in 1 .. j : word[i] < t
<1>1. j \in 1 .. Len(word) /\ word[j] < 128
  BY DEF BelowMask
<1>2. CASE Borrows(word, t, j - 1)
  <2>1. PICK i \in 1 .. j - 1 : word[i] < t
    BY <1>2 DEF Borrows
  <2> QED
    BY <1>1, <2>1
<1>3. CASE ~Borrows(word, t, j - 1)
  <2>1. (word[j] - t - 0) % 256 >= 128
    BY <1>3 DEF BelowMask
  <2>2. \A b, n \in Nat : b < 128 /\ n <= 127 /\ (b - n - 0) % 256 >= 128 => b < n
    OBVIOUS
  <2>3. word[j] < t
    BY <1>1, <2>1, <2>2
  <2> QED
    BY <1>1, <2>3
<1> QED
  BY <1>2, <1>3

\* The mask of a threshold is empty when no byte is below it, and only then.
LEMMA BelowMaskExact ==
  ASSUME NEW word \in Seq(Nat), NEW t \in 1 .. 127
  PROVE  BelowMask(word, t) = {} <=> \A j \in 1 .. Len(word) : ~(word[j] < t)
<1>1. ASSUME BelowMask(word, t) = {}, NEW j \in 1 .. Len(word), word[j] < t
      PROVE  FALSE
  BY <1>1, BelowIsMarked
<1>2. ASSUME \A j \in 1 .. Len(word) : ~(word[j] < t), NEW j \in BelowMask(word, t)
      PROVE  FALSE
  <2>1. j \in 1 .. Len(word)
    BY DEF BelowMask
  <2>2. PICK i \in 1 .. j : word[i] < t
    BY MarkedBehindBelow
  <2> QED
    BY <1>2, <2>1, <2>2
<1> QED
  BY <1>1, <1>2

\* chunkEqualMask is empty when no byte is the one that is looked for, and only then.
LEMMA EqualMaskExact ==
  ASSUME NEW word \in Seq(Nat), NEW t \in Nat
  PROVE  EqualMask(word, t) = {} <=> \A j \in 1 .. Len(word) : word[j] # t
<1> DEFINE differences == [j \in 1 .. Len(word) |-> Difference(word[j], t)]
<1>1. /\ differences \in Seq(Nat)
      /\ Len(differences) = Len(word)
      /\ \A j \in 1 .. Len(word) : differences[j] < 1 <=> word[j] = t
  BY DEF Difference
<1> HIDE DEF differences
<1>2. EqualMask(word, t) = BelowMask(differences, 1)
  BY DEF EqualMask, differences
<1>3. 1 \in 1 .. 127
  OBVIOUS
<1>4. BelowMask(differences, 1) = {} <=> \A j \in 1 .. Len(differences) : ~(differences[j] < 1)
  BY <1>1, <1>3, BelowMaskExact
<1> QED
  BY <1>1, <1>2, <1>4

\* A word is searched for bytes to escape, or goes unsearched, as it has some or not.
LEMMA WordsTell ==
  ASSUME NEW word \in Seq(Nat)
  PROVE  /\ JSONUnsafeMask(word) = {}
              <=> \A j \in 1 .. Len(word) : ~JSONNeedsEscape(word[j])
         /\ ConsoleEscapeMask(word) = {}
              <=> \A j \in 1 .. Len(word) : ~ConsoleNeedsEscape(word[j])
         /\ ConsoleUnsafeMask(word) = {}
              <=> \A j \in 1 .. Len(word) : ~ConsoleByteUnsafe(word[j])
<1>1. BelowMask(word, Space) = {} <=> \A j \in 1 .. Len(word) : ~(word[j] < Space)
  <2>1. Space \in 1 .. 127
    BY DEF Space
  <2> QED
    BY <2>1, BelowMaskExact
<1>2. /\ EqualMask(word, Quote) = {} <=> \A j \in 1 .. Len(word) : word[j] # Quote
      /\ EqualMask(word, Backslash) = {} <=> \A j \in 1 .. Len(word) : word[j] # Backslash
      /\ EqualMask(word, Delete) = {} <=> \A j \in 1 .. Len(word) : word[j] # Delete
      /\ EqualMask(word, Space) = {} <=> \A j \in 1 .. Len(word) : word[j] # Space
  BY EqualMaskExact DEF Quote, Backslash, Delete, Space
<1>3. JSONUnsafeMask(word) = {} <=> \A j \in 1 .. Len(word) : ~JSONNeedsEscape(word[j])
  BY <1>1, <1>2, Zenon DEF JSONUnsafeMask, JSONNeedsEscape
<1>4. ConsoleEscapeMask(word) = {}
        <=> \A j \in 1 .. Len(word) : ~ConsoleNeedsEscape(word[j])
  BY <1>2, <1>3, Zenon DEF ConsoleEscapeMask, ConsoleNeedsEscape
<1>5. ConsoleUnsafeMask(word) = {}
        <=> \A j \in 1 .. Len(word) : ~ConsoleByteUnsafe(word[j])
  BY <1>2, <1>4, Zenon DEF ConsoleUnsafeMask, ConsoleByteUnsafe
<1> QED
  BY <1>3, <1>4, <1>5

-----------------------------------------------------------------------------
(* Strings. *)

LEMMA Division ==
  ASSUME NEW a \in Nat, NEW w \in Nat \ {0}
  PROVE  /\ a \div w \in Nat
         /\ (a \div w) * w <= a
         /\ a < (a \div w) * w + w
  OBVIOUS

LEMMA Product ==
  ASSUME NEW m \in Nat, NEW n \in Nat, NEW w \in Nat, m <= n
  PROVE  m * w \in Nat /\ m * w <= n * w /\ (m + 1) * w = m * w + w
  OBVIOUS

\* A place in whole words is in one of them.
LEMMA PlaceInWord ==
  ASSUME NEW s \in Seq(Nat), NEW i \in 1 .. Whole(s)
  PROVE  LET n == (i - 1) \div WordBytes
         IN  /\ n \in 0 .. Len(s) \div WordBytes - 1
             /\ i - n * WordBytes \in 1 .. WordBytes
<1> DEFINE n == (i - 1) \div WordBytes
           all == Len(s) \div WordBytes
<1>1. WordBytes \in Nat \ {0} /\ i - 1 \in Nat /\ Len(s) \in Nat
  BY WordBytesPositive
<1>2. all \in Nat /\ i <= all * WordBytes
  BY <1>1, Division DEF Whole
<1>3. n \in Nat /\ n * WordBytes <= i - 1 /\ i - 1 < n * WordBytes + WordBytes
  BY <1>1, Division
<1> HIDE DEF n, all
<1>4. ASSUME all <= n PROVE FALSE
  <2>1. all * WordBytes <= n * WordBytes /\ all * WordBytes \in Nat
    BY <1>1, <1>2, <1>3, <1>4, Product
  <2>2. n * WordBytes \in Nat
    BY <1>1, <1>3, Product
  <2> QED
    BY <1>1, <1>2, <1>3, <2>1, <2>2
<1>5. n * WordBytes \in Nat
  BY <1>1, <1>3, Product
<1>6. n \in 0 .. all - 1
  BY <1>2, <1>3, <1>4
<1>7. i - n * WordBytes \in 1 .. WordBytes
  BY <1>1, <1>3, <1>5
<1> QED
  BY <1>6, <1>7 DEF n, all

\* Word n of a string holds the bytes behind n words.
LEMMA WordHolds ==
  ASSUME NEW s \in Seq(Nat), NEW n \in 0 .. Len(s) \div WordBytes - 1
  PROVE  LET word == Word(s, n * WordBytes)
         IN  /\ word \in Seq(Nat) /\ Len(word) = WordBytes
             /\ \A j \in 1 .. WordBytes : /\ n * WordBytes + j \in 1 .. Whole(s)
                                           /\ word[j] = s[n * WordBytes + j]
<1> DEFINE from == n * WordBytes
<1>1. WordBytes \in Nat \ {0} /\ Len(s) \in Nat /\ n \in Nat
  BY WordBytesPositive, Division
<1>2. /\ Len(s) \div WordBytes \in Nat
      /\ (Len(s) \div WordBytes) * WordBytes <= Len(s)
  BY <1>1, Division
<1>3. n + 1 <= Len(s) \div WordBytes
  BY <1>1, <1>2
<1>4. (n + 1) * WordBytes <= (Len(s) \div WordBytes) * WordBytes
  BY <1>1, <1>2, <1>3, Product
<1>5. from \in Nat /\ (n + 1) * WordBytes = from + WordBytes
  BY <1>1, Product
<1> HIDE DEF from
<1>6. from + WordBytes <= Whole(s) /\ Whole(s) <= Len(s)
  BY <1>2, <1>4, <1>5 DEF Whole
<1>7. Whole(s) \in Nat
  BY <1>1, <1>2, Product DEF Whole
<1>8. /\ Word(s, from) \in Seq(Nat)
      /\ Len(Word(s, from)) = WordBytes
      /\ \A j \in 1 .. WordBytes : Word(s, from)[j] = s[from + j]
  BY <1>1, <1>5, <1>6, <1>7 DEF Word
<1>9. \A j \in 1 .. WordBytes : from + j \in 1 .. Whole(s)
  BY <1>1, <1>5, <1>6, <1>7
<1> QED
  BY <1>8, <1>9 DEF from

LEMMA WholeBound ==
  ASSUME NEW s \in Seq(Nat)
  PROVE  Whole(s) \in 0 .. Len(s)
<1>1. WordBytes \in Nat \ {0} /\ Len(s) \in Nat
  BY WordBytesPositive
<1>2. Len(s) \div WordBytes \in Nat /\ (Len(s) \div WordBytes) * WordBytes <= Len(s)
  BY <1>1, Division
<1> QED
  BY <1>1, <1>2, Product DEF Whole

\* stringTrustedASCII trusts the strings without a byte to escape or beyond ASCII, all
\* of them and no others, however they fall into words.
THEOREM TrustIsExact ==
  ASSUME NEW s \in Seq(Nat)
  PROVE  TrustedASCII(s) <=> \A i \in 1 .. Len(s) : ~JSONNeedsEscape(s[i]) /\ s[i] < 128
<1>1. ASSUME TrustedASCII(s), NEW i \in 1 .. Len(s)
      PROVE  ~JSONNeedsEscape(s[i]) /\ s[i] < 128
  <2>1. CASE i \in 1 .. Whole(s)
    <3> DEFINE n == (i - 1) \div WordBytes
               j == i - n * WordBytes
               word == Word(s, n * WordBytes)
    <3>1. n \in 0 .. Len(s) \div WordBytes - 1 /\ j \in 1 .. WordBytes
      BY <2>1, PlaceInWord
    <3>2. word \in Words(s)
      BY <3>1 DEF Words
    <3>3. word \in Seq(Nat) /\ Len(word) = WordBytes /\ word[j] = s[n * WordBytes + j]
      BY <3>1, WordHolds
    <3>4. n * WordBytes \in Nat
      BY <3>1, WordBytesPositive, Product
    <3>5. n * WordBytes + j = i
      BY <3>4
    <3>6. JSONUnsafeMask(word) = {} /\ word[j] < 128
      BY <1>1, <3>1, <3>2 DEF TrustedASCII
    <3> HIDE DEF word, n, j
    <3>7. ~JSONNeedsEscape(word[j])
      BY <3>1, <3>3, <3>6, WordsTell
    <3> QED
      BY <3>3, <3>5, <3>6, <3>7
  <2>2. CASE i \notin 1 .. Whole(s)
    <3>1. i \in Whole(s) + 1 .. Len(s)
      BY <2>2, WholeBound
    <3> QED
      BY <1>1, <3>1 DEF TrustedASCII
  <2> QED
    BY <2>1, <2>2
<1>2. ASSUME \A i \in 1 .. Len(s) : ~JSONNeedsEscape(s[i]) /\ s[i] < 128
      PROVE  TrustedASCII(s)
  <2>1. ASSUME NEW w \in Words(s)
        PROVE  JSONUnsafeMask(w) = {} /\ \A j \in 1 .. WordBytes : w[j] < 128
    <3>1. PICK n \in 0 .. Len(s) \div WordBytes - 1 : w = Word(s, n * WordBytes)
      BY <2>1 DEF Words
    <3>2. /\ w \in Seq(Nat) /\ Len(w) = WordBytes
          /\ \A j \in 1 .. WordBytes : /\ n * WordBytes + j \in 1 .. Whole(s)
                                        /\ w[j] = s[n * WordBytes + j]
      BY <3>1, WordHolds
    <3>3. \A j \in 1 .. WordBytes : ~JSONNeedsEscape(w[j]) /\ w[j] < 128
      <4> TAKE j \in 1 .. WordBytes
      <4> DEFINE i == n * WordBytes + j
      <4>1. i \in 1 .. Whole(s) /\ w[j] = s[i]
        BY <3>2
      <4> HIDE DEF i
      <4>2. i \in 1 .. Len(s)
        BY <4>1, WholeBound
      <4> QED
        BY <1>2, <4>1, <4>2
    <3> QED
      BY <3>2, <3>3, WordsTell
  <2>2. ASSUME NEW i \in Whole(s) + 1 .. Len(s) PROVE ~JSONNeedsEscape(s[i]) /\ s[i] < 128
    BY <1>2, WholeBound
  <2> QED
    BY <2>1, <2>2 DEF TrustedASCII
<1> QED
  BY <1>1, <1>2

\* A string of the console is quoted if and only if it has a byte that is unsafe
\* (firstConsoleUnsafeIndex).
THEOREM QuoteIsExact ==
  ASSUME NEW s \in Seq(Nat)
  PROVE  NeedsQuote(s) <=> \E i \in 1 .. Len(s) : ConsoleByteUnsafe(s[i])
<1> SUFFICES ASSUME NEW i \in 1 .. Whole(s), ConsoleByteUnsafe(s[i])
             PROVE  ConsoleUnsafeMask(Word(s, ((i - 1) \div WordBytes) * WordBytes)) # {}
  BY WholeBound DEF NeedsQuote
<1> DEFINE n == (i - 1) \div WordBytes
           j == i - n * WordBytes
           word == Word(s, n * WordBytes)
<1>1. n \in 0 .. Len(s) \div WordBytes - 1 /\ j \in 1 .. WordBytes
  BY PlaceInWord
<1>2. word \in Seq(Nat) /\ Len(word) = WordBytes /\ word[j] = s[n * WordBytes + j]
  BY <1>1, WordHolds
<1>3. n * WordBytes \in Nat
  BY <1>1, WordBytesPositive, Product
<1>4. n * WordBytes + j = i
  BY <1>3
<1> HIDE DEF word, n, j
<1>5. ConsoleByteUnsafe(word[j])
  BY <1>2, <1>4
<1>6. ConsoleUnsafeMask(word) # {}
  BY <1>1, <1>2, <1>5, WordsTell
<1> QED
  BY <1>6 DEF word, n

-----------------------------------------------------------------------------
(* Scans. *)

\* The masks mark every byte that has to be escaped, and places of the word alone.
LEMMA MasksMark ==
  ASSUME NEW word \in Seq(Nat), NEW j \in 1 .. Len(word)
  PROVE  /\ JSONNeedsEscape(word[j]) => j \in JSONUnsafeMask(word)
         /\ ConsoleNeedsEscape(word[j]) => j \in ConsoleEscapeMask(word)
<1>1. word[j] < Space => j \in BelowMask(word, Space)
  <2>1. Space \in 1 .. 127
    BY DEF Space
  <2> QED
    BY <2>1, BelowIsMarked
<1>2. ASSUME NEW t \in Nat, word[j] = t PROVE j \in EqualMask(word, t)
  <2> DEFINE differences == [i \in 1 .. Len(word) |-> Difference(word[i], t)]
  <2>1. /\ differences \in Seq(Nat)
        /\ j \in 1 .. Len(differences)
        /\ differences[j] < 1
    BY <1>2 DEF Difference
  <2> HIDE DEF differences
  <2>2. 1 \in 1 .. 127
    OBVIOUS
  <2>3. j \in BelowMask(differences, 1)
    BY <2>1, <2>2, BelowIsMarked
  <2> QED
    BY <2>3 DEF EqualMask, differences
<1>3. Quote \in Nat /\ Backslash \in Nat /\ Delete \in Nat
  BY DEF Quote, Backslash, Delete
<1>4. /\ word[j] = Quote => j \in EqualMask(word, Quote)
      /\ word[j] = Backslash => j \in EqualMask(word, Backslash)
      /\ word[j] = Delete => j \in EqualMask(word, Delete)
  BY <1>2, <1>3
<1> QED
  BY <1>1, <1>4, Zenon
     DEF JSONNeedsEscape, ConsoleNeedsEscape, JSONUnsafeMask, ConsoleEscapeMask

LEMMA MasksWithin ==
  ASSUME NEW word \in Seq(Nat), NEW console
  PROVE  Mask(console, word) \subseteq 1 .. Len(word)
<1>1. \A t : BelowMask(word, t) \subseteq 1 .. Len(word)
  BY DEF BelowMask
<1>2. ASSUME NEW t PROVE EqualMask(word, t) \subseteq 1 .. Len(word)
  BY DEF EqualMask, BelowMask
<1> QED
  BY <1>1, <1>2 DEF Mask, JSONUnsafeMask, ConsoleEscapeMask

ByteTokens == {"raw", "esc"} \X Nat

Needs(console, b) == IF console THEN ConsoleNeedsEscape(b) ELSE JSONNeedsEscape(b)

\* A token says the byte, and escapes it if it has to be; the console no other.
Says(token, b, console) ==
    /\ token = Raw(b) \/ token = Esc(b)
    /\ Needs(console, b) => token = Esc(b)
    /\ console /\ ~Needs(console, b) => token = Raw(b)

\* What a scan has done when it has come to st.scan: the bytes up to lastSafe are
\* written and none behind them has to be escaped.
Midway(s, console) ==
    {st \in [scan : 0 .. Len(s), lastSafe : 0 .. Len(s), out : Seq(ByteTokens)] :
        /\ st.lastSafe <= st.scan
        /\ Len(st.out) = st.lastSafe
        /\ \A i \in 1 .. st.lastSafe : Says(st.out[i], s[i], console)
        /\ \A i \in st.lastSafe + 1 .. st.scan : ~Needs(console, s[i])}

\* The masks of the word behind a place say where in the string it has such bytes.
LEMMA PlacesMarked ==
  ASSUME NEW s \in Seq(Nat), NEW from \in Nat, from + WordBytes <= Len(s),
         NEW console \in BOOLEAN
  PROVE  /\ Placed(s, from, console) \subseteq from + 1 .. from + WordBytes
         /\ \A i \in from + 1 .. from + WordBytes :
               Needs(console, s[i]) => i \in Placed(s, from, console)
<1> DEFINE word == Word(s, from)
<1>1. WordBytes \in Nat
  BY WordBytesPositive
<1>2. /\ word \in Seq(Nat) /\ Len(word) = WordBytes
      /\ \A j \in 1 .. WordBytes : word[j] = s[from + j]
  <2>1. PICK w \in Nat : w = WordBytes
    BY <1>1
  <2>2. PICK n \in Nat : n = Len(s)
    OBVIOUS
  <2>3. from + w <= n
    BY <2>1, <2>2
  <2>4. \A j \in 1 .. w : from + j \in 1 .. n /\ s[from + j] \in Nat
    BY <2>2, <2>3
  <2>5. word = [j \in 1 .. w |-> s[from + j]]
    <3>1. word = SubSeq(s, from + 1, from + w)
      BY <2>1 DEF Word
    <3>2. (from + w) - (from + 1) + 1 = w /\ \A j \in 1 .. w : (from + 1) + j - 1 = from + j
      OBVIOUS
    <3>3. SubSeq(s, from + 1, from + w) = [j \in 1 .. w |-> s[(from + 1) + j - 1]]
      BY <3>2
    <3>4. [j \in 1 .. w |-> s[(from + 1) + j - 1]] = [j \in 1 .. w |-> s[from + j]]
      BY <3>2
    <3> QED
      BY ONLY <3>1, <3>3, <3>4
  <2> HIDE DEF word
  <2> QED
    BY <2>1, <2>4, <2>5
<1>3. Placed(s, from, console) = {from + j : j \in Mask(console, word)}
  BY DEF Placed
<1> HIDE DEF word
<1>4. Mask(console, word) \subseteq 1 .. WordBytes
  BY <1>2, MasksWithin
<1>5. Placed(s, from, console) \subseteq from + 1 .. from + WordBytes
  BY <1>1, <1>3, <1>4
<1>6. ASSUME NEW i \in from + 1 .. from + WordBytes, Needs(console, s[i])
      PROVE  i \in Placed(s, from, console)
  <2>1. i - from \in 1 .. Len(word) /\ from + (i - from) = i
    <3>1. i \in Nat /\ from \in Nat /\ from + 1 <= i /\ i <= from + WordBytes /\ WordBytes \in Nat
      BY <1>1
    <3>2. i - from \in 1 .. WordBytes /\ from + (i - from) = i
      BY ONLY <3>1
    <3> QED
      BY <1>2, <3>2
  <2> DEFINE j == i - from
  <2>2. j \in 1 .. Len(word) /\ from + j = i /\ word[j] = s[i]
    BY <1>2, <2>1
  <2> HIDE DEF j
  <2>3. j \in Mask(console, word)
    BY <1>2, <1>6, <2>2, MasksMark DEF Needs, Mask
  <2> QED
    BY <1>3, <2>2, <2>3
<1> QED
  BY <1>5, <1>6

LEMMA Behind ==
  ASSUME NEW a \in Nat, NEW b \in Nat, NEW i \in 1 .. b - a
  PROVE  a + i \in a + 1 .. b
OBVIOUS

\* What is behind m elements in two sequences of n together.
LEMMA BehindFirst ==
  ASSUME NEW T, NEW a \in Seq(T), NEW b \in Seq(T), NEW m \in Nat, NEW n \in Nat,
         m <= n, Len(a) = m, Len(b) = n - m
  PROVE  /\ a \o b \in Seq(T) /\ Len(a \o b) = n
         /\ \A i \in 1 .. m : (a \o b)[i] = a[i]
         /\ \A i \in m + 1 .. n : (a \o b)[i] = b[i - m]
OBVIOUS

LEMMA Remainder ==
  ASSUME NEW s \in Seq(Nat), NEW m \in Nat, m <= Len(s)
  PROVE  /\ SubSeq(s, m + 1, Len(s)) \in Seq(Nat) /\ Len(SubSeq(s, m + 1, Len(s))) = Len(s) - m
         /\ \A i \in 1 .. Len(s) - m : SubSeq(s, m + 1, Len(s))[i] = s[m + i]
<1>1. PICK n \in Nat : n = Len(s)
  OBVIOUS
<1>2. m <= n
  BY <1>1
<1>3. SubSeq(s, m + 1, n) \in Seq(Nat) /\ Len(SubSeq(s, m + 1, n)) = n - m
  BY <1>1, <1>2
<1>4. \A i \in 1 .. n - m : SubSeq(s, m + 1, n)[i] = s[m + i]
  BY <1>1, <1>2
<1> QED
  BY <1>1, <1>3, <1>4

LEMMA PlainIs ==
  ASSUME NEW s \in Seq(Nat)
  PROVE  /\ Plain(s) \in Seq(ByteTokens) /\ Len(Plain(s)) = Len(s)
         /\ \A i \in 1 .. Len(s) : Plain(s)[i] = Raw(s[i])
<1>1. \A i \in 1 .. Len(s) : Raw(s[i]) \in ByteTokens
  BY DEF ByteTokens, Raw
<1> QED
  BY <1>1 DEF Plain

\* Writing what is marked brings a scan forward, if all that has to be escaped is.
LEMMA MarkMidway ==
  ASSUME NEW s \in Seq(Nat), NEW console \in BOOLEAN, NEW st \in Midway(s, console),
         NEW scan \in 0 .. Len(s), NEW marked \in SUBSET (st.scan + 1 .. scan), marked # {},
         \A i \in st.scan + 1 .. scan : Needs(console, s[i]) => i \in marked,
         console => \A i \in marked : Needs(console, s[i])
  PROVE  Mark(s, st, marked, scan) \in Midway(s, console)
<1> DEFINE last == Max(marked)
           more == Segment(s, st.lastSafe, marked)
           copied  == st.out \o more
<1>1. /\ st.scan \in Nat /\ st.lastSafe \in Nat /\ st.out \in Seq(ByteTokens)
      /\ st.lastSafe <= st.scan /\ st.scan <= Len(s) /\ Len(st.out) = st.lastSafe
      /\ \A i \in 1 .. st.lastSafe : Says(st.out[i], s[i], console)
      /\ \A i \in st.lastSafe + 1 .. st.scan : ~Needs(console, s[i])
  BY DEF Midway
<1>2. last \in marked /\ \A i \in marked : i <= last
  <2>1. marked \in SUBSET (0 .. scan)
    BY <1>1
  <2>2. scan \in Nat
    OBVIOUS
  <2> HIDE DEF last
  <2> QED
    BY <2>1, <2>2, MaxOfNumbers DEF last
<1>3. more = [i \in 1 .. last - st.lastSafe |->
                IF st.lastSafe + i \in marked THEN Esc(s[st.lastSafe + i])
                ELSE Raw(s[st.lastSafe + i])]
  BY DEF Segment
<1> HIDE DEF last, more
<1>4. last \in Nat /\ st.scan < last /\ last <= scan /\ last <= Len(s)
  BY <1>1, <1>2
<1>5. ASSUME NEW i \in st.lastSafe + 1 .. last
      PROVE  /\ s[i] \in Nat
             /\ Says(IF i \in marked THEN Esc(s[i]) ELSE Raw(s[i]), s[i], console)
  <2>1. i \in 1 .. Len(s)
    BY <1>1, <1>4
  <2>2. Needs(console, s[i]) => i \in marked
    <3>1. CASE i <= st.scan
      BY <1>1, <3>1
    <3>2. CASE i > st.scan
      <4>1. i \in st.scan + 1 .. scan
        BY <1>1, <1>4, <3>2
      <4> QED
        BY <4>1
    <3> QED
      BY <1>1, <1>4, <3>1, <3>2
  <2>3. s[i] \in Nat
    BY <2>1
  <2> QED
    BY <2>2, <2>3 DEF Says
<1>6. more \in Seq(ByteTokens) /\ Len(more) = last - st.lastSafe
  <2>1. last - st.lastSafe \in Nat
    BY <1>1, <1>4
  <2>2. ASSUME NEW i \in 1 .. last - st.lastSafe PROVE more[i] \in ByteTokens
    <3>1. st.lastSafe + i \in st.lastSafe + 1 .. last
      BY <1>1, <1>4, Behind
    <3>2. s[st.lastSafe + i] \in Nat
      BY <1>5, <3>1
    <3> QED
      BY <1>3, <3>2 DEF ByteTokens, Raw, Esc
  <2>3. PICK n \in Nat : n = last - st.lastSafe
    BY <2>1
  <2>4. more \in [1 .. n -> ByteTokens]
    <3>1. more = [i \in 1 .. n |-> more[i]]
      BY <1>3, <2>3
    <3>2. \A i \in 1 .. n : more[i] \in ByteTokens
      BY <2>2, <2>3
    <3> QED
      BY ONLY <3>1, <3>2
  <2>5. more \in Seq(ByteTokens) /\ Len(more) = n
    BY ONLY <2>3, <2>4
  <2> QED
    BY <2>3, <2>5
<1>7. /\ copied \in Seq(ByteTokens) /\ Len(copied) = last
      /\ \A i \in 1 .. st.lastSafe : copied[i] = st.out[i]
      /\ \A i \in st.lastSafe + 1 .. last : copied[i] = more[i - st.lastSafe]
  <2>1. PICK m \in Nat : m = st.lastSafe
    BY <1>1
  <2>2. PICK n \in Nat : n = last
    BY <1>4
  <2>3. m <= n /\ Len(st.out) = m /\ Len(more) = n - m
    BY <1>1, <1>4, <1>6, <2>1, <2>2
  <2>4. st.out \in Seq(ByteTokens) /\ more \in Seq(ByteTokens)
    BY <1>1, <1>6
  <2> HIDE DEF copied
  <2>5. /\ st.out \o more \in Seq(ByteTokens) /\ Len(st.out \o more) = n
        /\ \A i \in 1 .. m : (st.out \o more)[i] = st.out[i]
        /\ \A i \in m + 1 .. n : (st.out \o more)[i] = more[i - m]
    <3>1. PICK a : a = st.out
      OBVIOUS
    <3>2. PICK b : b = more
      OBVIOUS
    <3>3. /\ a \in Seq(ByteTokens) /\ b \in Seq(ByteTokens)
          /\ m \in Nat /\ n \in Nat /\ m <= n /\ Len(a) = m /\ Len(b) = n - m
      BY <2>1, <2>2, <2>3, <2>4, <3>1, <3>2
    <3>4. /\ a \o b \in Seq(ByteTokens) /\ Len(a \o b) = n
          /\ \A i \in 1 .. m : (a \o b)[i] = a[i]
          /\ \A i \in m + 1 .. n : (a \o b)[i] = b[i - m]
      BY ONLY <3>3, BehindFirst
    <3> QED
      BY <3>1, <3>2, <3>4
  <2> QED
    BY <2>1, <2>2, <2>5 DEF copied
<1> HIDE DEF copied
<1>8. ASSUME NEW i \in 1 .. last PROVE Says(copied[i], s[i], console)
  <2>1. CASE i <= st.lastSafe
    BY <1>1, <1>7, <2>1
  <2>2. CASE i > st.lastSafe
    <3>1. i \in st.lastSafe + 1 .. last /\ i - st.lastSafe \in 1 .. last - st.lastSafe
      BY <1>1, <1>4, <2>2
    <3>2. st.lastSafe + (i - st.lastSafe) = i
      BY <1>1, <3>1
    <3>3. copied[i] = IF i \in marked THEN Esc(s[i]) ELSE Raw(s[i])
      BY <1>3, <1>7, <3>1, <3>2
    <3> QED
      BY <1>5, <3>1, <3>3
  <2> QED
    BY <1>1, <1>4, <2>1, <2>2
<1>9. ASSUME NEW i \in last + 1 .. scan PROVE ~Needs(console, s[i])
  <2>1. i \in st.scan + 1 .. scan /\ i > last
    BY <1>1, <1>4
  <2> QED
    BY <1>2, <1>4, <2>1
<1>10. Mark(s, st, marked, scan) = [scan |-> scan, lastSafe |-> last, out |-> copied]
  BY DEF Mark, last, copied, more
<1> QED
  BY <1>4, <1>7, <1>8, <1>9, <1>10 DEF Midway

\* Nothing to mark either.
LEMMA SkipMidway ==
  ASSUME NEW s \in Seq(Nat), NEW console \in BOOLEAN, NEW st \in Midway(s, console),
         NEW scan \in 0 .. Len(s), st.scan <= scan,
         \A i \in st.scan + 1 .. scan : ~Needs(console, s[i])
  PROVE  [st EXCEPT !.scan = scan] \in Midway(s, console)
<1> DEFINE next == [st EXCEPT !.scan = scan]
<1>1. /\ st \in [scan : 0 .. Len(s), lastSafe : 0 .. Len(s), out : Seq(ByteTokens)]
      /\ st.lastSafe <= st.scan /\ Len(st.out) = st.lastSafe
      /\ \A i \in 1 .. st.lastSafe : Says(st.out[i], s[i], console)
      /\ \A i \in st.lastSafe + 1 .. st.scan : ~Needs(console, s[i])
  BY DEF Midway
<1>2. /\ next \in [scan : 0 .. Len(s), lastSafe : 0 .. Len(s), out : Seq(ByteTokens)]
      /\ next.scan = scan /\ next.lastSafe = st.lastSafe /\ next.out = st.out
  BY <1>1
<1> HIDE DEF next
<1>3. st.scan \in Nat /\ st.lastSafe \in Nat /\ scan \in Nat
  BY <1>1
<1>4. ASSUME NEW i \in st.lastSafe + 1 .. scan PROVE ~Needs(console, s[i])
  <2>1. i \in st.lastSafe + 1 .. st.scan \/ i \in st.scan + 1 .. scan
    BY <1>1, <1>3
  <2> QED
    BY <1>1, <2>1
<1>5. next \in Midway(s, console)
  BY <1>1, <1>2, <1>3, <1>4 DEF Midway
<1> QED
  BY <1>5 DEF next

\* A round brings a scan forward.
LEMMA StepMidway ==
  ASSUME NEW s \in Seq(Nat), NEW console \in BOOLEAN, NEW st \in Midway(s, console),
         ~(Len(s) - st.scan < WordBytes)
  PROVE  Step(s, st, console) \in Midway(s, console)
<1> DEFINE second == /\ Len(s) - st.scan >= 2 * WordBytes
                     /\ Placed(s, st.scan, console) = {}
           base   == IF second THEN st.scan + WordBytes ELSE st.scan
           marked == {i \in Placed(s, base, console) : console => ConsoleNeedsEscape(s[i])}
           scan   == base + WordBytes
<1>1. WordBytes \in Nat /\ st.scan \in Nat /\ Len(s) \in Nat /\ st.scan + WordBytes <= Len(s)
  BY WordBytesPositive DEF Midway
<1>2. st.scan <= base /\ base \in Nat /\ base + WordBytes <= Len(s)
  BY <1>1
<1>3. \A i \in st.scan + 1 .. base : ~Needs(console, s[i])
  <2>1. CASE second
    <3>1. \A i \in st.scan + 1 .. st.scan + WordBytes : ~Needs(console, s[i])
      BY <1>1, <2>1, PlacesMarked
    <3> QED
      BY <2>1, <3>1
  <2>2. CASE ~second
    BY <1>1, <2>2
  <2> QED
    BY <2>1, <2>2
<1>4. Step(s, st, console) = IF marked = {} THEN [st EXCEPT !.scan = scan]
                             ELSE Mark(s, st, marked, scan)
  BY DEF Step
<1> HIDE DEF base
<1>5. /\ Placed(s, base, console) \subseteq base + 1 .. scan
      /\ \A i \in base + 1 .. scan : Needs(console, s[i]) => i \in Placed(s, base, console)
  BY <1>2, PlacesMarked
<1>6. \A i \in base + 1 .. scan : Needs(console, s[i]) => i \in marked
  BY <1>5 DEF Needs
<1>7. marked \subseteq base + 1 .. scan /\ (console => \A i \in marked : Needs(console, s[i]))
  BY <1>5 DEF Needs
<1> HIDE DEF marked
<1>8. scan \in 0 .. Len(s) /\ st.scan <= scan
  BY <1>1, <1>2
<1>9. \A i \in st.scan + 1 .. scan : i \in st.scan + 1 .. base \/ i \in base + 1 .. scan
  BY <1>1, <1>2
<1>10. base + 1 .. scan \subseteq st.scan + 1 .. scan
  BY <1>1, <1>2
<1> HIDE DEF scan
<1>11. \A i \in st.scan + 1 .. scan : Needs(console, s[i]) => i \in marked
  BY <1>3, <1>6, <1>9
<1>12. CASE marked = {}
  <2>1. \A i \in st.scan + 1 .. scan : ~Needs(console, s[i])
    BY <1>11, <1>12
  <2> QED
    BY <1>4, <1>8, <1>12, <2>1, SkipMidway
<1>13. CASE marked # {}
  <2>1. marked \in SUBSET (st.scan + 1 .. scan)
    BY <1>7, <1>10
  <2> QED
    BY <1>4, <1>7, <1>8, <1>11, <1>13, <2>1, MarkMidway
<1> QED
  BY <1>12, <1>13

\* The tokens of a scanned string say it, byte by byte.
SaysAll(tokens, s, console) ==
    /\ tokens \in Seq(ByteTokens) /\ Len(tokens) = Len(s)
    /\ \A i \in 1 .. Len(s) : Says(tokens[i], s[i], console)

\* Without anything left to escape the rest goes out as it is.
LEMMA RestPlain ==
  ASSUME NEW s \in Seq(Nat), NEW console \in BOOLEAN, NEW st \in Midway(s, console),
         st.scan = Len(s)
  PROVE  SaysAll(st.out \o Plain(SubSeq(s, st.lastSafe + 1, Len(s))), s, console)
<1> DEFINE rest == Plain(SubSeq(s, st.lastSafe + 1, Len(s)))
           copied  == st.out \o rest
<1>1. /\ st.lastSafe \in Nat /\ st.out \in Seq(ByteTokens)
      /\ st.lastSafe <= Len(s) /\ Len(st.out) = st.lastSafe
      /\ \A i \in 1 .. st.lastSafe : Says(st.out[i], s[i], console)
      /\ \A i \in st.lastSafe + 1 .. Len(s) : ~Needs(console, s[i])
  BY DEF Midway
<1>2. /\ rest \in Seq(ByteTokens) /\ Len(rest) = Len(s) - st.lastSafe
      /\ \A i \in 1 .. Len(s) - st.lastSafe : rest[i] = Raw(s[st.lastSafe + i])
  <2> DEFINE tail == SubSeq(s, st.lastSafe + 1, Len(s))
  <2>1. /\ tail \in Seq(Nat) /\ Len(tail) = Len(s) - st.lastSafe
        /\ \A i \in 1 .. Len(s) - st.lastSafe : tail[i] = s[st.lastSafe + i]
    BY <1>1, Remainder
  <2> HIDE DEF tail
  <2>2. /\ Plain(tail) \in Seq(ByteTokens) /\ Len(Plain(tail)) = Len(tail)
        /\ \A i \in 1 .. Len(tail) : Plain(tail)[i] = Raw(tail[i])
    BY <2>1, PlainIs
  <2> QED
    BY <2>1, <2>2 DEF tail
<1> HIDE DEF rest
<1>3. /\ copied \in Seq(ByteTokens) /\ Len(copied) = Len(s)
      /\ \A i \in 1 .. st.lastSafe : copied[i] = st.out[i]
      /\ \A i \in st.lastSafe + 1 .. Len(s) : copied[i] = rest[i - st.lastSafe]
  <2>1. PICK m \in Nat : m = st.lastSafe
    BY <1>1
  <2>2. PICK n \in Nat : n = Len(s)
    OBVIOUS
  <2>3. m <= n /\ Len(st.out) = m /\ Len(rest) = n - m
    BY <1>1, <1>2, <2>1, <2>2
  <2>4. st.out \in Seq(ByteTokens) /\ rest \in Seq(ByteTokens)
    BY <1>1, <1>2
  <2> HIDE DEF copied
  <2>5. /\ st.out \o rest \in Seq(ByteTokens) /\ Len(st.out \o rest) = n
        /\ \A i \in 1 .. m : (st.out \o rest)[i] = st.out[i]
        /\ \A i \in m + 1 .. n : (st.out \o rest)[i] = rest[i - m]
    BY ONLY <2>1, <2>2, <2>3, <2>4, BehindFirst
  <2> QED
    BY <2>1, <2>2, <2>5 DEF copied
<1> HIDE DEF copied
<1>4. ASSUME NEW i \in 1 .. Len(s) PROVE Says(copied[i], s[i], console)
  <2>1. CASE i <= st.lastSafe
    BY <1>1, <1>3, <2>1
  <2>2. CASE i > st.lastSafe
    <3>1. i \in st.lastSafe + 1 .. Len(s) /\ i - st.lastSafe \in 1 .. Len(s) - st.lastSafe
      BY <1>1, <1>2, <2>2
    <3>2. st.lastSafe + (i - st.lastSafe) = i
      BY <1>1, <3>1
    <3>3. copied[i] = Raw(s[i])
      BY <1>2, <1>3, <3>1, <3>2
    <3> QED
      BY <1>1, <3>1, <3>3 DEF Says
  <2> QED
    BY <1>1, <2>1, <2>2
<1> QED
  BY <1>3, <1>4 DEF SaysAll, copied, rest

LEMMA LeftoverSays ==
  ASSUME NEW s \in Seq(Nat), NEW console \in BOOLEAN, NEW st \in Midway(s, console)
  PROVE  SaysAll(Leftover(s, st, console), s, console)
<1> DEFINE marked == {i \in st.scan + 1 .. Len(s) :
                        IF console THEN ConsoleNeedsEscape(s[i]) ELSE JSONNeedsEscape(s[i])}
           done   == IF marked = {} THEN st ELSE Mark(s, st, marked, Len(s))
           skipped == [st EXCEPT !.scan = Len(s)]
<1>1. /\ Len(s) \in 0 .. Len(s) /\ st.scan <= Len(s)
      /\ st \in [scan : 0 .. Len(s), lastSafe : 0 .. Len(s), out : Seq(ByteTokens)]
  BY DEF Midway
<1>2. marked = {i \in st.scan + 1 .. Len(s) : Needs(console, s[i])}
  BY DEF Needs
<1>3. Leftover(s, st, console) = done.out \o Plain(SubSeq(s, done.lastSafe + 1, Len(s)))
  BY DEF Leftover
<1> HIDE DEF marked
<1>4. CASE marked = {}
  <2>1. skipped \in Midway(s, console)
    BY <1>1, <1>2, <1>4, SkipMidway
  <2>2. skipped.scan = Len(s) /\ skipped.out = done.out /\ skipped.lastSafe = done.lastSafe
    BY <1>1, <1>4
  <2> HIDE DEF skipped
  <2> QED
    BY <1>3, <2>1, <2>2, RestPlain
<1>5. CASE marked # {}
  <2>1. done = Mark(s, st, marked, Len(s)) /\ done.scan = Len(s)
    BY <1>5 DEF Mark
  <2>2. /\ marked \in SUBSET (st.scan + 1 .. Len(s))
        /\ \A i \in st.scan + 1 .. Len(s) : Needs(console, s[i]) => i \in marked
        /\ console => \A i \in marked : Needs(console, s[i])
    BY <1>2
  <2>3. done \in Midway(s, console)
    BY <1>1, <1>5, <2>1, <2>2, MarkMidway
  <2> HIDE DEF done
  <2> QED
    BY <1>3, <2>1, <2>3, RestPlain
<1> QED
  BY <1>4, <1>5

LEMMA ScannedSays ==
  ASSUME NEW s \in Seq(Nat), NEW console \in BOOLEAN
  PROVE  SaysAll(Scanned(s, console), s, console)
<1> DEFINE V     == Midway(s, console)
           v0    == [scan |-> 0, lastSafe |-> 0, out |-> << >>]
           After(st) == IF Len(s) - st.scan < WordBytes THEN st ELSE Step(s, st, console)
           Def(F) == [n \in 0 .. Len(s) \div WordBytes |->
                        IF n = 0 THEN v0
                        ELSE IF Len(s) - F[n - 1].scan < WordBytes THEN F[n - 1]
                        ELSE Step(s, F[n - 1], console)]
           round == CHOOSE F : F = Def(F)
<1>1. PICK N \in Nat : N = Len(s) \div WordBytes
  BY WordBytesPositive, Division
<1>2. v0 \in V
  BY DEF Midway
<1>3. ASSUME NEW st \in V PROVE After(st) \in V
  BY <1>3, StepMidway
<1>4. Scanned(s, console) = Leftover(s, round[N], console)
  BY <1>1 DEF Scanned
<1> HIDE DEF V
<1> DEFINE G == [p \in (1 .. N) \X V |-> After(p[2])]
<1>5. G \in [(1 .. N) \X V -> V] /\ \A i \in 1 .. N, v \in V : G[<<i, v>>] = After(v)
  <2> HIDE DEF After
  <2> QED
    BY <1>3
<1> HIDE DEF G
<1>6. PICK E \in [0 .. N -> V] : Recurs(E, N, v0, G)
  <2> HIDE DEF v0
  <2> QED
    BY <1>2, <1>5, Recursion
<1>7. E = Def(E)
  <2>1. ASSUME NEW i \in 0 .. N PROVE E[i] = IF i = 0 THEN v0 ELSE After(E[i - 1])
    <3> HIDE DEF After, v0
    <3>1. CASE i = 0
      BY <1>6, <3>1 DEF Recurs
    <3>2. CASE i # 0
      <4>1. i \in 1 .. N /\ i - 1 \in 0 .. N
        BY <3>2
      <4> QED
        BY <1>5, <1>6, <4>1 DEF Recurs
    <3> QED
      BY <3>1, <3>2
  <2> HIDE DEF v0
  <2> QED
    BY <1>1, <2>1
<1>8. round = Def(round)
  <2> HIDE DEF Def
  <2> QED
    BY <1>7
<1> HIDE DEF round
<1>9. ASSUME NEW i \in 0 .. N PROVE round[i] = IF i = 0 THEN v0 ELSE After(round[i - 1])
  BY <1>1, <1>8
<1> HIDE DEF Def, After, v0
<1> DEFINE S == {m \in Nat : m <= N => round[m] \in V}
<1>10. 0 \in S
  BY <1>2, <1>9
<1>11. ASSUME NEW m \in Nat, m \in S PROVE m + 1 \in S
  <2> SUFFICES ASSUME m + 1 <= N PROVE round[m + 1] \in V
    OBVIOUS
  <2>1. m + 1 \in 0 .. N /\ m + 1 # 0 /\ (m + 1) - 1 = m /\ m <= N
    OBVIOUS
  <2>2. round[m + 1] = After(round[m])
    BY <1>9, <2>1
  <2> QED
    BY <1>3, <1>11, <2>1, <2>2
<1> HIDE DEF S
<1>12. N \in S
  BY <1>10, <1>11, SetInduction
<1> QED
  BY <1>4, <1>12, LeftoverSays DEF S, V

\* The scan of a console's text by words writes what a look at each byte would.
THEOREM ConsoleScanIsExact ==
  ASSUME NEW s \in Seq(Nat)
  PROVE  ConsoleEscaped(s) = MessageByTable(s)
<1> DEFINE tokens == ConsoleEscaped(s)
           table  == MessageByTable(s)
<1>1. /\ tokens \in Seq(ByteTokens) /\ Len(tokens) = Len(s)
      /\ \A i \in 1 .. Len(s) : Says(tokens[i], s[i], TRUE)
  BY ScannedSays DEF SaysAll, ConsoleEscaped
<1>2. /\ table \in Seq(ByteTokens) /\ Len(table) = Len(s)
      /\ \A i \in 1 .. Len(s) : table[i] = IF ConsoleNeedsEscape(s[i]) THEN Esc(s[i]) ELSE Raw(s[i])
  BY DEF MessageByTable, ByteTokens, Esc, Raw
<1> HIDE DEF tokens, table
<1>3. \A i \in 1 .. Len(s) : tokens[i] = table[i]
  BY <1>1, <1>2 DEF Says, Needs
<1>4. PICK n \in Nat : n = Len(s)
  OBVIOUS
<1>5. tokens = table
  BY <1>1, <1>2, <1>3, <1>4, SeqEqual
<1> QED
  BY <1>5 DEF tokens, table

\* The scan of JSON writes each byte once, as it is or escaped, and none as it is that
\* has to be escaped.
THEOREM JSONScanIsSound ==
  ASSUME NEW s \in Seq(Nat)
  PROVE  /\ Len(JSONEscaped(s)) = Len(s)
         /\ \A i \in 1 .. Len(s) :
               /\ JSONEscaped(s)[i] \in {Raw(s[i]), Esc(s[i])}
               /\ JSONNeedsEscape(s[i]) => JSONEscaped(s)[i] = Esc(s[i])
  BY ScannedSays DEF SaysAll, JSONEscaped, Says, Needs

-----------------------------------------------------------------------------
(* Literal caches. *)

\* The caches are tables of Slots places.
Tables == caches = [kind \in Kinds |-> [slot \in 0 .. Slots - 1 |-> caches[kind][slot]]]

CInv == Tables /\ CachesOwn

LEMMA InitCInv == Init => CInv
  BY DEF Init, CInv, Tables, CachesOwn, Fresh, Kinds

\* Only a literal with a cache of its own is looked up or stored.
LEMMA AskedKinds ==
  ASSUME NEW taken, NEW v, NEW colour
  PROVE  CacheAsked(taken, v, colour) \in Kinds \cup {"none"}
<1>1. CASE taken.by = "ConsoleStatic"
  BY <1>1 DEF CacheAsked, Kinds
<1>2. CASE taken.by # "ConsoleStatic" /\ taken.case \in {"time", "duration"}
  BY <1>2 DEF CacheAsked, Kinds
<1>3. CASE taken.by # "ConsoleStatic" /\ taken.case \notin {"time", "duration"}
  BY <1>3 DEF CacheAsked, Kinds
<1> QED
  BY <1>1, <1>2, <1>3

\* Storing a literal puts it at the place of its key (storeFloat, formatDuration,
\* formatTimeRFC3339).
LEMMA StoredCInv ==
  ASSUME CInv, NEW kind \in Kinds \cup {"none"}, NEW id, caches' = Stored(kind, id)
  PROVE  CInv'
<1>1. CASE caches' = caches
  BY <1>1 DEF CInv, Tables, CachesOwn
<1>2. CASE caches' # caches
  <2> DEFINE key   == KeyOf(kind, id)
             slot  == SlotOf(kind, key)
             place == [full |-> TRUE, key |-> key, text |-> id]
  <2>1. kind \in Kinds /\ caches' = [caches EXCEPT ![kind][slot] = place]
    BY <1>2 DEF Stored
  <2> HIDE DEF place
  <2>2. \A k \in Kinds, s \in 0 .. Slots - 1 :
           caches'[k][s] = IF k = kind /\ s = slot THEN place ELSE caches[k][s]
    BY <2>1 DEF CInv, Tables
  <2>3. Tables'
    BY <2>1 DEF CInv, Tables
  <2>4. place.full /\ place.key = KeyOf(kind, place.text) /\ slot = SlotOf(kind, place.key)
    BY DEF place
  <2>5. ASSUME NEW k \in Kinds, NEW s \in 0 .. Slots - 1, caches'[k][s].full
        PROVE  caches'[k][s].key = KeyOf(k, caches'[k][s].text) /\ s = SlotOf(k, caches'[k][s].key)
    BY <2>2, <2>4, <2>5 DEF CInv, CachesOwn
  <2> QED
    BY <2>3, <2>5 DEF CInv, CachesOwn, KeyOf, SlotOf
<1> QED
  BY <1>1, <1>2

LEMMA AfterCInv ==
  ASSUME CInv, NEW v, NEW chain, caches' = CachesAfter(v, chain)
  PROVE  CInv'
<1> DEFINE kind == CacheAsked(Taken(chain, v.type), v, config.colour)
<1>1. kind \in Kinds \cup {"none"}
  BY AskedKinds
<1>2. caches' = Stored(kind, v.id)
  BY DEF CachesAfter
<1> QED
  BY <1>1, <1>2, StoredCInv

LEMMA StepCInv == CInv /\ [Next]_vars => CInv'
<1> SUFFICES ASSUME CInv, [Next]_vars PROVE CInv'
  OBVIOUS
<1>1. CASE UNCHANGED caches
  BY <1>1 DEF CInv, Tables, CachesOwn
<1>2. CASE EncodeField
  BY <1>1, <1>2, AfterCInv DEF EncodeField
<1>3. ASSUME NEW where, WritePair(where) PROVE CInv'
  BY <1>1, <1>3, AfterCInv DEF WritePair
<1>4. CASE OddArgument
  BY <1>4, AfterCInv DEF OddArgument
<1>5. CASE PoolMakesNew
  BY <1>5 DEF PoolMakesNew, CInv, Tables, CachesOwn, Fresh, Kinds
<1>6. CASE FastPair \/ SlowPair
  BY <1>3, <1>6 DEF FastPair, SlowPair
<1>7. CASE Start \/ Write \/ Call \/ Log \/ FastFails \/ Finish \/ UNCHANGED vars
  BY <1>1, <1>7 DEF Start, Write, Call, Log, FastFails, Finish, vars
<1> QED
  BY <1>2, <1>4, <1>5, <1>6, <1>7 DEF Next

\* The places of every cache hold literals of their own keys, whatever was logged
\* and whichever lineWriters the pool gave.
THEOREM CachesHoldOwn == Spec => []CachesOwn
<1>1. CInv => CachesOwn
  BY DEF CInv
<1> QED
  BY <1>1, InitCInv, StepCInv, PTL DEF Spec

\* So what is written for a literal has its key: for a float or a duration it is that
\* literal.
THEOREM LiteralHasKey ==
  ASSUME CachesOwn, NEW kind \in Kinds, NEW id
  PROVE  /\ KeyOf(kind, LiteralOf(kind, id)) = KeyOf(kind, id)
         /\ kind # "time" => LiteralOf(kind, id) = id
<1>1. CASE Holding(kind, id) = {}
  BY <1>1 DEF LiteralOf, Kinds
<1>2. CASE Holding(kind, id) # {}
  <2> DEFINE s == CHOOSE s \in Holding(kind, id) : TRUE
  <2>1. s \in Holding(kind, id)
    BY <1>2
  <2>2. LiteralOf(kind, id) = caches[kind][s].text
    BY <1>2 DEF LiteralOf, Kinds
  <2> HIDE DEF s
  <2>3. s \in 0 .. Slots - 1 /\ caches[kind][s].full /\ caches[kind][s].key = KeyOf(kind, id)
    BY <2>1 DEF Holding
  <2>4. KeyOf(kind, LiteralOf(kind, id)) = KeyOf(kind, id)
    BY <2>2, <2>3 DEF CachesOwn
  <2> QED
    BY <2>4 DEF KeyOf
<1> QED
  BY <1>1, <1>2

-----------------------------------------------------------------------------
(* The environment. *)

\* A variable that makes no sense, taken away.
Sensible(env) == [var \in DOMAIN env |-> [env[var] EXCEPT !.set = @ /\ env[var].ok]]

LEMMA OverrideSensible ==
  ASSUME NEW env, IsEnvironment(env), NEW var \in EnvVariables, NEW seed
  PROVE  Override(seed, Sensible(env)[var]) = Override(seed, env[var])
<1>1. /\ Sensible(env)[var].set = (env[var].set /\ env[var].ok)
      /\ Sensible(env)[var].ok = env[var].ok
      /\ Sensible(env)[var].value = env[var].value
  BY DEF Sensible, IsEnvironment
<1> QED
  BY <1>1 DEF Override

LEMMA PaletteSensible ==
  ASSUME NEW env, IsEnvironment(env), NEW seed
  PROVE  OverridePalette(seed, env.PALETTE) =
            IF env.PALETTE.set /\ ~env.PALETTE.ok THEN "default"
            ELSE OverridePalette(seed, Sensible(env).PALETTE)
<1>1. "PALETTE" \in EnvVariables
  BY DEF EnvVariables
<1>2. /\ Sensible(env).PALETTE.set = (env.PALETTE.set /\ env.PALETTE.ok)
      /\ Sensible(env).PALETTE.ok = env.PALETTE.ok
      /\ Sensible(env).PALETTE.value = env.PALETTE.value
  BY <1>1 DEF Sensible, IsEnvironment
<1>3. env.PALETTE.set \in BOOLEAN /\ env.PALETTE.ok \in BOOLEAN
  BY <1>1 DEF IsEnvironment
<1> QED
  BY <1>2, <1>3 DEF OverridePalette

\* The options of an environment are those of its sensible variables, but for the
\* palette (LoggerFromEnv).
LEMMA ResolvedSensible ==
  ASSUME NEW env, IsEnvironment(env), NEW seed
  PROVE  Resolved(seed, env) =
            [Resolved(seed, Sensible(env)) EXCEPT !.palette =
                IF env.PALETTE.set /\ ~env.PALETTE.ok THEN "default" ELSE @]
<1> DEFINE sensible == Sensible(env)
<1>1. /\ Override(seed.level, env.LEVEL) = Override(seed.level, sensible.LEVEL)
      /\ Override(seed.verbose, env.VERBOSE_FIELDS) = Override(seed.verbose, sensible.VERBOSE_FIELDS)
      /\ Override(seed.caller, env.CALLER_KEYVAL) = Override(seed.caller, sensible.CALLER_KEYVAL)
      /\ Override(seed.callerKey, env.CALLER_KEY) = Override(seed.callerKey, sensible.CALLER_KEY)
      /\ Override(seed.json, env.MODE) = Override(seed.json, sensible.MODE)
      /\ Override(seed.layout, env.TIME_FORMAT) = Override(seed.layout, sensible.TIME_FORMAT)
      /\ Override(seed.noTime, env.DISABLE_TIMESTAMP) = Override(seed.noTime, sensible.DISABLE_TIMESTAMP)
      /\ Override(seed.noColor, env.NO_COLOR) = Override(seed.noColor, sensible.NO_COLOR)
      /\ Override(seed.forceColor, env.FORCE_COLOR) = Override(seed.forceColor, sensible.FORCE_COLOR)
      /\ Override(seed.utc, env.UTC) = Override(seed.utc, sensible.UTC)
  BY OverrideSensible DEF EnvVariables
<1>2. OverridePalette(seed.palette, env.PALETTE) =
        IF env.PALETTE.set /\ ~env.PALETTE.ok THEN "default"
        ELSE OverridePalette(seed.palette, sensible.PALETTE)
  BY PaletteSensible
<1> HIDE DEF sensible
<1>3. Resolved(seed, env) =
            [Resolved(seed, sensible) EXCEPT !.palette =
                IF env.PALETTE.set /\ ~env.PALETTE.ok THEN "default" ELSE @]
  BY <1>1, <1>2 DEF Resolved
<1> QED
  BY <1>3 DEF sensible

\* What the logger was made of.
EInv ==
    /\ program \in Programs
    /\ phase # "start" =>
          config = BuildAdapter(Resolved(program.seed, program.env), out, program.terminals)

LEMMA StepEInv == EInv /\ [Next]_vars => EInv'
<1> SUFFICES ASSUME EInv, [Next]_vars PROVE EInv'
  OBVIOUS
<1>1. CASE Start
  BY <1>1 DEF Start, EInv
<1>2. CASE /\ UNCHANGED <<program, config, out>>
           /\ phase = "start" => phase' = "start"
  BY <1>2 DEF EInv
<1>3. CASE Write \/ Call \/ EncodeField \/ Log \/ Finish \/ PoolMakesNew
  BY <1>2, <1>3 DEF Write, Call, EncodeField, Log, Finish, PoolMakesNew
<1>4. CASE FastPair \/ FastFails \/ SlowPair \/ OddArgument
  BY <1>2, <1>4 DEF FastPair, FastFails, SlowPair, OddArgument
<1>5. CASE UNCHANGED vars
  BY <1>2, <1>5 DEF vars
<1> QED
  BY <1>1, <1>3, <1>4, <1>5 DEF Next

\* A variable that makes no sense changes nothing but the palette, whatever the seed,
\* the other variables and the output (LoggerFromEnv).
THEOREM SeedIsLeft == Spec => []EnvLeavesSeed
<1>1. Init => EInv
  BY DEF Init, EInv
<1>2. EInv => EnvLeavesSeed
  <2> SUFFICES ASSUME EInv, phase # "start"
               PROVE  config = BuildAdapter(
                        [Resolved(program.seed, Sensible(program.env)) EXCEPT !.palette =
                            IF program.env.PALETTE.set /\ ~program.env.PALETTE.ok
                            THEN "default" ELSE @],
                        out, program.terminals)
    BY DEF EnvLeavesSeed, Sensible
  <2>1. IsEnvironment(program.env)
    BY ProgramEnvironments DEF EInv
  <2> QED
    BY <2>1, ResolvedSensible DEF EInv
<1> QED
  BY <1>1, <1>2, StepEInv, PTL DEF Spec

-----------------------------------------------------------------------------
(* The bridge. *)

Filler == {9, 13, 32, 45, 58}

\* t is what is left of s without some of the filler it begins with.
Trims(s, t) ==
    \E k \in 0 .. Len(s) : /\ t = SubSeq(s, k + 1, Len(s))
                           /\ \A i \in 1 .. k : s[i] \in Filler

\* No blank comes last.
Ends(s) == s = << >> \/ ~Blank(s[Len(s)])

LEMMA LeastPlace ==
  ASSUME NEW n \in Nat, NEW S \in SUBSET (0 .. n), S # {}
  PROVE  Min(S) \in S /\ \A y \in S : Min(S) <= y
<1>1. S \in SUBSET Nat
  OBVIOUS
<1>2. PICK x \in S : \A y \in S : x <= y
  BY <1>1, LeastNumber
<1> QED
  BY <1>2 DEF Min

LEMMA CutIs ==
  ASSUME NEW s \in Seq(Nat), NEW k \in Nat, k <= Len(s)
  PROVE  LET t == SubSeq(s, k + 1, Len(s))
         IN  /\ t \in Seq(Nat) /\ Len(t) = Len(s) - k
             /\ \A i \in 1 .. Len(t) : t[i] = s[k + i]
             /\ \A i \in 1 .. Len(s) - k : t[i] = s[k + i]
<1>1. PICK n \in Nat : n = Len(s)
  OBVIOUS
<1>2. /\ SubSeq(s, k + 1, n) \in Seq(Nat) /\ Len(SubSeq(s, k + 1, n)) = n - k
      /\ \A i \in 1 .. n - k : SubSeq(s, k + 1, n)[i] = s[k + i]
  BY <1>1, Remainder
<1> QED
  BY <1>1, <1>2

\* Cutting twice is cutting once.
LEMMA CutTwice ==
  ASSUME NEW s \in Seq(Nat), NEW k \in Nat, k <= Len(s),
         NEW t, t = SubSeq(s, k + 1, Len(s)), NEW j \in Nat, j <= Len(t)
  PROVE  /\ SubSeq(t, j + 1, Len(t)) = SubSeq(s, k + j + 1, Len(s))
         /\ k + j \in Nat /\ k + j <= Len(s)
<1> DEFINE u == SubSeq(t, j + 1, Len(t))
           v == SubSeq(s, k + j + 1, Len(s))
<1>1. PICK n \in Nat : n = Len(s)
  OBVIOUS
<1>2. /\ t \in Seq(Nat) /\ Len(t) = n - k
      /\ \A i \in 1 .. n - k : t[i] = s[k + i]
  BY <1>1, CutIs
<1>3. PICK m \in Nat : m = Len(t)
  BY ONLY <1>2
<1>4. m = n - k /\ j <= m /\ k + j <= n /\ k <= n
  BY <1>1, <1>2, <1>3
<1>5. /\ u \in Seq(Nat) /\ Len(u) = m - j
      /\ \A i \in 1 .. m - j : u[i] = t[j + i]
  BY <1>2, <1>3, CutIs
<1>6. /\ v \in Seq(Nat) /\ Len(v) = n - (k + j)
      /\ \A i \in 1 .. n - (k + j) : v[i] = s[k + j + i]
  BY <1>1, <1>4, CutIs
<1> HIDE DEF u, v
<1>7. PICK l \in Nat : l = m - j
  BY <1>4
<1>8. Len(u) = l /\ Len(v) = l /\ n - (k + j) = l
  BY <1>4, <1>5, <1>6, <1>7
<1>9. ASSUME NEW i \in 1 .. l PROVE u[i] = v[i]
  <2>1. j + i \in 1 .. n - k /\ k + (j + i) = k + j + i
    BY <1>4, <1>7
  <2>2. u[i] = t[j + i] /\ v[i] = s[k + j + i]
    BY <1>5, <1>6, <1>7, <1>8
  <2> QED
    BY <1>2, <2>1, <2>2
<1>10. u = v
  BY ONLY <1>5, <1>6, <1>8, <1>9, SeqEqual
<1> QED
  BY <1>1, <1>4, <1>10 DEF u, v

LEMMA TrimsTwice ==
  ASSUME NEW s \in Seq(Nat), NEW t, NEW u, Trims(s, t), Trims(t, u)
  PROVE  Trims(s, u)
<1>1. PICK k \in 0 .. Len(s) : /\ t = SubSeq(s, k + 1, Len(s))
                               /\ \A i \in 1 .. k : s[i] \in Filler
  BY DEF Trims
<1>2. /\ t \in Seq(Nat) /\ Len(t) = Len(s) - k
      /\ \A i \in 1 .. Len(t) : t[i] = s[k + i]
  BY <1>1, CutIs
<1>3. PICK j \in 0 .. Len(t) : /\ u = SubSeq(t, j + 1, Len(t))
                               /\ \A i \in 1 .. j : t[i] \in Filler
  BY DEF Trims
<1>4. k \in Nat /\ k <= Len(s) /\ j \in Nat /\ j <= Len(t)
  BY <1>2, <1>3
<1>5. u = SubSeq(s, k + j + 1, Len(s)) /\ k + j \in 0 .. Len(s)
  BY <1>1, <1>3, <1>4, CutTwice
<1>6. ASSUME NEW i \in 1 .. k + j PROVE s[i] \in Filler
  <2>1. CASE i <= k
    BY <1>1, <1>4, <2>1
  <2>2. CASE i > k
    <3>1. i - k \in 1 .. j /\ i - k \in 1 .. Len(t) /\ k + (i - k) = i
      BY <1>2, <1>3, <1>4, <2>2
    <3> QED
      BY <1>2, <1>3, <3>1
  <2> QED
    BY <1>4, <2>1, <2>2
<1> QED
  BY <1>5, <1>6 DEF Trims

LEMMA TrimsEnds ==
  ASSUME NEW s \in Seq(Nat), NEW t, Trims(s, t), Ends(s)
  PROVE  t \in Seq(Nat) /\ Ends(t)
<1>1. PICK k \in 0 .. Len(s) : t = SubSeq(s, k + 1, Len(s))
  BY DEF Trims
<1>2. /\ t \in Seq(Nat) /\ Len(t) = Len(s) - k
      /\ \A i \in 1 .. Len(t) : t[i] = s[k + i]
  BY <1>1, CutIs
<1>3. ASSUME t # << >> PROVE ~Blank(t[Len(t)])
  <2>1. Len(t) \in 1 .. Len(t) /\ k + Len(t) = Len(s) /\ s # << >>
    BY <1>2, <1>3
  <2> QED
    BY <1>2, <2>1 DEF Ends
<1> QED
  BY <1>2, <1>3 DEF Ends

LEMMA SeparatorsTrim ==
  ASSUME NEW s \in Seq(Nat)
  PROVE  Trims(s, TrimSeparators(s))
<1> DEFINE kept == {i \in DOMAIN s : s[i] \notin {45, 58, 32}}
<1>1. CASE kept = {}
  <2>1. TrimSeparators(s) = << >> /\ << >> = SubSeq(s, Len(s) + 1, Len(s))
    BY <1>1 DEF TrimSeparators
  <2>2. \A i \in 1 .. Len(s) : s[i] \in Filler
    BY <1>1 DEF Filler
  <2> QED
    BY <2>1, <2>2 DEF Trims
<1>2. CASE kept # {}
  <2> DEFINE first == Min(kept)
  <2>1. kept \in SUBSET (0 .. Len(s)) /\ Len(s) \in Nat
    OBVIOUS
  <2>2. first \in kept /\ \A i \in kept : first <= i
    BY <1>2, <2>1, LeastPlace
  <2>3. TrimSeparators(s) = SubSeq(s, first, Len(s))
    BY <1>2 DEF TrimSeparators
  <2> HIDE DEF first
  <2>4. first \in 1 .. Len(s)
    BY <2>2
  <2>5. ASSUME NEW i \in 1 .. first - 1 PROVE s[i] \in Filler
    <3>1. i \in 1 .. Len(s) /\ ~(first <= i)
      BY <2>4
    <3>2. i \notin kept
      BY <2>2, <3>1
    <3> QED
      BY <3>1, <3>2 DEF Filler
  <2>6. first - 1 \in 0 .. Len(s) /\ (first - 1) + 1 = first
    BY <2>4
  <2> QED
    BY <2>3, <2>5, <2>6 DEF Trims
<1> QED
  BY <1>1, <1>2

\* Of what ends only blanks are cut, and from the front alone.
LEMMA SpaceCuts ==
  ASSUME NEW s \in Seq(Nat), Ends(s)
  PROVE  \E k \in 0 .. Len(s) : /\ TrimSpace(s) = SubSeq(s, k + 1, Len(s))
                               /\ \A i \in 1 .. k : Blank(s[i])
<1> DEFINE kept == {i \in DOMAIN s : ~Blank(s[i])}
<1>1. CASE kept = {}
  <2>1. TrimSpace(s) = << >> /\ << >> = SubSeq(s, Len(s) + 1, Len(s))
    BY <1>1 DEF TrimSpace
  <2>2. \A i \in 1 .. Len(s) : Blank(s[i])
    BY <1>1
  <2> QED
    BY <2>1, <2>2
<1>2. CASE kept # {}
  <2> DEFINE first == Min(kept)
             last  == Max(kept)
  <2>1. kept \in SUBSET (0 .. Len(s)) /\ Len(s) \in Nat
    OBVIOUS
  <2>2. first \in kept /\ \A i \in kept : first <= i
    BY <1>2, <2>1, LeastPlace
  <2>3. last \in kept /\ \A i \in kept : i <= last
    BY <1>2, <2>1, MaxOfNumbers
  <2>4. TrimSpace(s) = SubSeq(s, first, last)
    BY <1>2 DEF TrimSpace
  <2> HIDE DEF first, last
  <2>5. Len(s) \in kept
    BY <1>2 DEF Ends
  <2>6. last = Len(s)
    BY <2>3, <2>5
  <2>7. first \in 1 .. Len(s)
    BY <2>2
  <2>8. ASSUME NEW i \in 1 .. first - 1 PROVE Blank(s[i])
    <3>1. i \in 1 .. Len(s) /\ ~(first <= i)
      BY <2>7
    <3>2. i \notin kept
      BY <2>2, <3>1
    <3> QED
      BY <3>1, <3>2
  <2>9. first - 1 \in 0 .. Len(s) /\ (first - 1) + 1 = first
    BY <2>7
  <2> QED
    BY <2>4, <2>6, <2>8, <2>9
<1> QED
  BY <1>1, <1>2

\* Nothing is cut behind what ends.
LEMMA SpaceTrims ==
  ASSUME NEW s \in Seq(Nat), Ends(s)
  PROVE  Trims(s, TrimSpace(s))
<1>1. PICK k \in 0 .. Len(s) : /\ TrimSpace(s) = SubSeq(s, k + 1, Len(s))
                              /\ \A i \in 1 .. k : Blank(s[i])
  BY SpaceCuts
<1>2. \A i \in 1 .. k : s[i] \in Filler
  <2> SUFFICES ASSUME NEW i \in 1 .. k PROVE s[i] \in Filler
    OBVIOUS
  <2>1. Blank(s[i]) /\ i \in 1 .. Len(s)
    BY <1>1
  <2> QED
    BY <2>1 DEF Filler, Blank
<1> QED
  BY <1>1, <1>2 DEF Trims

\* What is trimmed begins and ends with no blank.
LEMMA TrimSpaceIs ==
  ASSUME NEW s \in Seq(Nat)
  PROVE  TrimSpace(s) \in Seq(Nat) /\ Ends(TrimSpace(s))
<1> DEFINE kept == {i \in DOMAIN s : ~Blank(s[i])}
<1>1. CASE kept = {}
  <2>1. TrimSpace(s) = << >>
    BY <1>1 DEF TrimSpace
  <2> QED
    BY <2>1 DEF Ends
<1>2. CASE kept # {}
  <2> DEFINE first == Min(kept)
             last  == Max(kept)
             t     == SubSeq(s, first, last)
  <2>1. kept \in SUBSET (0 .. Len(s)) /\ Len(s) \in Nat
    OBVIOUS
  <2>2. first \in kept /\ \A i \in kept : first <= i
    BY <1>2, <2>1, LeastPlace
  <2>3. last \in kept /\ \A i \in kept : i <= last
    BY <1>2, <2>1, MaxOfNumbers
  <2>4. TrimSpace(s) = t
    BY <1>2 DEF TrimSpace
  <2> HIDE DEF first, last
  <2>5. first \in 1 .. Len(s) /\ last \in 1 .. Len(s) /\ first <= last
    BY <2>2, <2>3
  <2>6. t \in Seq(Nat) /\ Len(t) = last - first + 1
    BY <2>5
  <2>7. t[Len(t)] = s[last]
    BY <2>5
  <2>8. ~Blank(s[last])
    BY <2>3
  <2> QED
    BY <2>4, <2>6, <2>7, <2>8 DEF Ends
<1> QED
  BY <1>1, <1>2

\* A suffix of a line is kept if the rest is nothing, a level between brackets with
\* blanks behind it, or a level's name with filler.
LEMMA SuffixKept ==
  ASSUME NEW line \in Seq(Nat), NEW cut \in Nat, cut <= Len(line),
         \/ cut = 0
         \/ /\ cut > 0 /\ line[1] = 91
            /\ \E k \in 1 .. cut :
                  /\ line[k] = 93 /\ NamesLevel(SubSeq(line, 2, k - 1))
                  /\ \A i \in k + 1 .. cut : Blank(line[i])
         \/ /\ cut > 0 /\ line[1] \in 300 .. 306
            /\ \A i \in 2 .. cut : line[i] \in Filler
  PROVE  /\ KeepsText(line, SubSeq(line, cut + 1, Len(line)))
         /\ SubSeq(line, cut + 1, Len(line)) \in Seq(Nat)
<1> DEFINE msg  == SubSeq(line, cut + 1, Len(line))
           text == SubSeq(line, 1, cut)
<1>1. msg \in Seq(Nat)
  BY CutIs
<1>2. text \in Seq(Nat) /\ Len(text) = cut /\ DOMAIN text = 1 .. cut
      /\ \A i \in 1 .. cut : text[i] = line[i]
  OBVIOUS
<1>3. CASE cut = 0
  <2>1. text = << >> /\ cut \in 0 .. Len(line)
    BY <1>3
  <2> HIDE DEF text
  <2>2. MayBeCut(text)
    BY <2>1 DEF MayBeCut
  <2> QED
    BY <1>1, <2>1, <2>2 DEF KeepsText, text
<1>4. CASE cut > 0 /\ line[1] = 91
  <2>1. PICK k \in 1 .. cut : /\ line[k] = 93 /\ NamesLevel(SubSeq(line, 2, k - 1))
                             /\ \A i \in k + 1 .. cut : Blank(line[i])
    BY <1>4
  <2>2. SubSeq(text, 2, k - 1) = SubSeq(line, 2, k - 1)
    BY <1>2, <2>1
  <2>3. text[1] = 91 /\ text[k] = 93 /\ \A i \in k + 1 .. Len(text) : Blank(text[i])
    BY <1>2, <1>4, <2>1
  <2> HIDE DEF text
  <2>4. MayBeCut(text)
    BY <1>2, <2>1, <2>2, <2>3 DEF MayBeCut
  <2> QED
    BY <1>1, <2>4 DEF KeepsText, text
<1>5. CASE cut > 0 /\ line[1] \in 300 .. 306
  <2> HIDE DEF text
  <2>3. \A i \in 2 .. cut : line[i] \in Filler
    <3>1. line[1] # 91
      BY <1>5
    <3> QED
      BY <1>5, <3>1
  <2>4. ASSUME NEW i \in 2 .. cut PROVE text[i] \in {45, 58} \/ Blank(text[i])
    <3>1. text[i] = line[i]
      BY <1>2
    <3> QED
      BY <2>3, <3>1 DEF Filler, Blank
  <2>1. text[1] \in 300 .. 306 /\ \A i \in 2 .. Len(text) : text[i] \in {45, 58} \/ Blank(text[i])
    BY <1>2, <1>5, <2>4
  <2>2. MayBeCut(text)
    BY <2>1 DEF MayBeCut
  <2> QED
    BY <1>1, <2>2 DEF KeepsText, text
<1> QED
  BY <1>1, <1>3, <1>4, <1>5 DEF msg

\* What is parsed is a level's name.
LEMMA ParsedNames ==
  ASSUME NEW word \in Seq(Nat), ParseLevel(word) # << >>
  PROVE  NamesLevel(word)
<1> DEFINE name == TrimSpace(word)
<1>1. name \in Seq(Nat)
  BY TrimSpaceIs
<1>2. \/ Len(name) = 1 /\ name[1] \in Names
      \/ name = << 303, Ing >>
  BY DEF ParseLevel
<1> HIDE DEF name
<1>3. Len(name) = 1 => name = << name[1] >>
  BY <1>1
<1>4. name \in {<< n >> : n \in Names} \cup {<< 303, Ing >>}
  BY <1>2, <1>3
<1> QED
  BY <1>4 DEF NamesLevel, name

LEMMA ClassifyKeeps ==
  ASSUME NEW line \in Seq(Nat), line # << >>, Ends(line)
  PROVE  KeepsText(line, ClassifyLineLevel(line).msg) /\ ClassifyLineLevel(line).msg \in Seq(Nat)
<1> DEFINE msg == ClassifyLineLevel(line).msg
<1>0. PICK n \in Nat : n = Len(line) /\ n # 0
  OBVIOUS
<1>1. CASE Bracketed(line) # << >>
  <2> DEFINE at1  == Min(Closing(line))
             rest == SubSeq(line, at1 + 1, Len(line))
  <2>1. line[1] = 91 /\ Closing(line) # {}
    BY <1>1 DEF Bracketed
  <2>2. msg = TrimSpace(rest)
    BY <1>1 DEF ClassifyLineLevel
  <2>3. Closing(line) \in SUBSET (0 .. n)
    BY <1>0 DEF Closing
  <2>4. at1 \in Closing(line)
    BY <2>1, <2>3, LeastPlace
  <2>5. at1 \in Nat /\ at1 <= Len(line)
    BY <1>0, <2>3, <2>4 DEF Closing
  <2> HIDE DEF at1
  <2>6. /\ rest \in Seq(Nat) /\ Len(rest) = n - at1
        /\ \A i \in 1 .. Len(rest) : rest[i] = line[at1 + i]
    BY <1>0, <2>5, CutIs
  <2> HIDE DEF rest
  <2>7. Ends(rest)
    <3>1. CASE rest # << >>
      <4>1. Len(rest) \in 1 .. Len(rest) /\ at1 + Len(rest) = n
        BY <2>5, <2>6, <3>1
      <4> QED
        BY <1>0, <2>6, <4>1 DEF Ends
    <3> QED
      BY <3>1 DEF Ends
  <2>8. PICK k \in 0 .. Len(rest) : /\ TrimSpace(rest) = SubSeq(rest, k + 1, Len(rest))
                                   /\ \A i \in 1 .. k : Blank(rest[i])
    BY <2>6, <2>7, SpaceCuts
  <2>9. k \in Nat /\ k <= Len(rest)
    BY <2>6
  <2>10. rest = SubSeq(line, at1 + 1, Len(line))
    BY DEF rest
  <2>11. SubSeq(rest, k + 1, Len(rest)) = SubSeq(line, at1 + k + 1, Len(line))
    BY <2>5, <2>9, <2>10, CutTwice
  <2>12. at1 + k \in Nat /\ at1 + k <= Len(line)
    BY <2>5, <2>9, <2>10, CutTwice
  <2>15. line[at1] = 93 /\ at1 \in 1 .. at1 + k
    BY <1>0, <2>3, <2>4, <2>5, <2>9 DEF Closing
  <2>16. NamesLevel(SubSeq(line, 2, at1 - 1))
    <3>1. ParseLevel(SubSeq(line, 2, at1 - 1)) # << >>
      BY <1>1, <2>1 DEF Bracketed, at1
    <3>2. SubSeq(line, 2, at1 - 1) \in Seq(Nat)
      <4>1. at1 \in 1 .. n
        BY <1>0, <2>3, <2>4 DEF Closing
      <4>2. \A i \in 2 .. at1 - 1 : i \in 1 .. n
        BY <4>1
      <4> QED
        BY <1>0, <4>1, <4>2
    <3> QED
      BY <3>1, <3>2, ParsedNames
  <2>17. ASSUME NEW i \in at1 + 1 .. at1 + k PROVE Blank(line[i])
    <3>1. i - at1 \in 1 .. k /\ i - at1 \in 1 .. Len(rest) /\ at1 + (i - at1) = i
      BY <2>5, <2>9
    <3> QED
      BY <2>6, <2>8, <3>1
  <2>18. at1 + k > 0
    BY <2>5, <2>9, <2>15
  <2> HIDE DEF msg
  <2>13. /\ KeepsText(line, SubSeq(line, at1 + k + 1, Len(line)))
         /\ SubSeq(line, at1 + k + 1, Len(line)) \in Seq(Nat)
    BY <2>1, <2>12, <2>15, <2>16, <2>17, <2>18, SuffixKept
  <2>14. msg = SubSeq(line, at1 + k + 1, Len(line))
    BY <2>2, <2>8, <2>11
  <2> QED
    BY <2>13, <2>14 DEF msg
<1>2. CASE Bracketed(line) = << >> /\ line[1] \in 300 .. 306
  <2> DEFINE tail == SubSeq(line, 2, Len(line))
  <2>1. msg = TrimTail(line)
    BY <1>2 DEF ClassifyLineLevel
  <2>2. /\ tail \in Seq(Nat) /\ Len(tail) = n - 1
        /\ \A i \in 1 .. n - 1 : tail[i] = line[1 + i]
    BY <1>0
  <2>3. Tail(line) = tail
    BY <1>0
  <2> HIDE DEF tail
  <2>4. Ends(tail)
    <3>1. CASE tail # << >>
      <4>1. n - 1 \in 1 .. n - 1 /\ 1 + (n - 1) = n
        BY <1>0, <2>2, <3>1
      <4> QED
        BY <1>0, <2>2, <4>1 DEF Ends
    <3> QED
      BY <3>1 DEF Ends
  <2> DEFINE a == TrimSpace(tail)
             b == TrimSeparators(a)
  <2>5. Trims(tail, a)
    BY <2>2, <2>4, SpaceTrims
  <2>6. a \in Seq(Nat) /\ Ends(a)
    BY <2>2, <2>4, <2>5, TrimsEnds
  <2> HIDE DEF a
  <2>7. Trims(a, b)
    BY <2>6, SeparatorsTrim
  <2>8. b \in Seq(Nat) /\ Ends(b)
    BY <2>6, <2>7, TrimsEnds
  <2> HIDE DEF b
  <2>9. Trims(b, TrimSpace(b))
    BY <2>8, SpaceTrims
  <2>10. Trims(tail, TrimSpace(b))
    BY <2>2, <2>5, <2>7, <2>9, TrimsTwice
  <2>11. TrimTail(line) = TrimSpace(b)
    BY <2>3 DEF TrimTail, a, b
  <2>12. PICK k \in 0 .. Len(tail) : /\ TrimSpace(b) = SubSeq(tail, k + 1, Len(tail))
                                     /\ \A i \in 1 .. k : tail[i] \in Filler
    BY <2>10 DEF Trims
  <2>13. k \in Nat /\ k <= n - 1
    BY <1>0, <2>2
  <2>14. SubSeq(tail, k + 1, Len(tail)) = SubSeq(line, k + 1 + 1, Len(line))
    <3>1. k <= Len(tail) /\ 1 \in Nat /\ 1 <= Len(line) /\ tail = SubSeq(line, 1 + 1, Len(line))
      BY <1>0, <2>2, <2>13 DEF tail
    <3>2. SubSeq(tail, k + 1, Len(tail)) = SubSeq(line, 1 + k + 1, Len(line))
      BY <2>13, <3>1, CutTwice
    <3>3. 1 + k + 1 = k + 1 + 1
      BY <2>13
    <3> QED
      BY <3>2, <3>3
  <2>15. ASSUME NEW i \in 2 .. k + 1 PROVE line[i] \in Filler
    <3>1. i - 1 \in 1 .. k /\ i - 1 \in 1 .. n - 1 /\ 1 + (i - 1) = i
      BY <2>13
    <3> QED
      BY <2>2, <2>12, <3>1
  <2>16. line[1] \in 300 .. 306
    BY <1>2
  <2>17. k + 1 \in Nat /\ k + 1 <= Len(line) /\ k + 1 > 0
    BY <1>0, <2>13
  <2> HIDE DEF msg
  <2>18. /\ KeepsText(line, SubSeq(line, k + 1 + 1, Len(line)))
         /\ SubSeq(line, k + 1 + 1, Len(line)) \in Seq(Nat)
    BY <2>15, <2>16, <2>17, SuffixKept
  <2> QED
    BY <2>1, <2>11, <2>12, <2>14, <2>18 DEF msg
<1>3. CASE Bracketed(line) = << >> /\ line[1] \notin 300 .. 306
  <2>1. msg = line
    BY <1>3 DEF ClassifyLineLevel
  <2>2. KeepsText(line, SubSeq(line, 0 + 1, Len(line)))
    BY SuffixKept
  <2>3. SubSeq(line, 0 + 1, Len(line)) = line
    OBVIOUS
  <2> QED
    BY <2>1, <2>2, <2>3
<1> QED
  BY <1>1, <1>2, <1>3

-----------------------------------------------------------------------------
(* Types. *)

JSONClean(s)    == \A i \in 1 .. Len(s) : ~JSONNeedsEscape(s[i])
ConsoleClean(s) == \A i \in 1 .. Len(s) : ~ConsoleNeedsEscape(s[i])

\* What is passed to an emitter: the keys that are trusted on the way are JSON.
PassedScalar ==
    {v \in [type : Types \ {"array"}, str : Seq(Nat), id : Nat, elems : {<< >>}] :
        v.type = "trusted" => JSONClean(v.str)}

Arrays ==
    [type : {"array"}, str : Seq(Nat), id : Nat,
     elems : Seq({v \in Scalar : v.type \notin {"float", "nonfinite"}})]

Passable == PassedScalar \cup Arrays

Fields ==
    {f \in [key : Seq(Nat), trusted : BOOLEAN, value : Loggable] :
        f.trusted => JSONClean(f.key)}

Entries ==
    {c \in [op : {"log"}, with : Seq(Loggable), level : Int, msg : Seq(Nat),
            args : Seq(Loggable), prepared : BOOLEAN, line : Seq(Nat), stack : Seq(Seq(Nat))] :
        c.line # << >> => KeepsText(c.line, c.msg)}

Writes == [op : {"write"}, lines : Seq(Seq(Nat)), pinned : Seq(Int), stack : Seq(Seq(Nat))]

LEMMA SafeIsClean ==
  ASSUME NEW s \in Seq(Nat)
  PROVE  /\ ~HasUnsafe(s) => ConsoleClean(s)
         /\ ConsoleClean(s) => JSONClean(s)
         /\ TrustedASCII(s) => JSONClean(s)
<1>1. ~HasUnsafe(s) => ConsoleClean(s)
  BY DEF HasUnsafe, ConsoleClean
<1>2. ConsoleClean(s) => JSONClean(s)
  BY DEF ConsoleClean, JSONClean, ConsoleNeedsEscape
<1>3. TrustedASCII(s) => JSONClean(s)
  BY TrustIsExact DEF JSONClean
<1> QED
  BY <1>1, <1>2, <1>3

LEMMA LoggableIsPassable == Loggable \subseteq Passable
<1>1. ASSUME NEW v \in Scalar PROVE v \in PassedScalar
  <2>1. v \in [type : Types \ {"array"}, str : Seq(Nat), id : Nat, elems : {<< >>}]
    BY DEF Scalar
  <2>2. v.type = "trusted" => ~HasUnsafe(v.str)
    BY DEF Scalar
  <2>3. v.str \in Seq(Nat)
    BY <2>1
  <2>4. v.type = "trusted" => JSONClean(v.str)
    BY <2>2, <2>3, SafeIsClean
  <2> QED
    BY <2>1, <2>4 DEF PassedScalar
<1> QED
  BY <1>1 DEF Loggable, Passable, Arrays

LEMMA PassableParts ==
  ASSUME NEW v \in Passable
  PROVE  /\ v.type \in Types /\ v.str \in Seq(Nat) /\ v.id \in Nat
         /\ v.type = "trusted" => JSONClean(v.str)
         /\ v.type = "array" => v.elems \in Seq({e \in Scalar : e.type \notin {"float", "nonfinite"}})
<1>1. CASE v \in PassedScalar
  BY <1>1 DEF PassedScalar
<1>2. CASE v \in Arrays
  <2>1. "array" \in Types
    BY DEF Types
  <2> QED
    BY <1>2, <2>1 DEF Arrays
<1> QED
  BY <1>1, <1>2 DEF Passable

LEMMA LoggableParts ==
  ASSUME NEW v \in Loggable
  PROVE  /\ v.type \in Types /\ v.str \in Seq(Nat) /\ v.id \in Nat
         /\ v.type = "trusted" => ~HasUnsafe(v.str)
<1>1. CASE v \in Scalar
  BY <1>1 DEF Scalar
<1>2. CASE v \notin Scalar
  <2>1. "array" \in Types
    BY DEF Types
  <2> QED
    BY <1>2, <2>1 DEF Loggable
<1> QED
  BY <1>1, <1>2

LEMMA TextLoggable ==
  ASSUME NEW s \in Seq(Nat), NEW type \in {"string", "error"}
  PROVE  Value(type, s, 0) \in Loggable /\ Value(type, s, 0) \in Passable
<1>1. Value(type, s, 0) \in Scalar
  BY DEF Value, Scalar, Types
<1> QED
  BY <1>1, LoggableIsPassable DEF Loggable

LEMMA ItoaType ==
  ASSUME NEW n \in Nat
  PROVE  Itoa(n) \in Seq(Nat)
<1> DEFINE Def(F) == [k \in 0 .. n |-> IF k = 0 THEN n ELSE F[k - 1] \div 10]
           G == [p \in (1 .. n) \X Nat |-> p[2] \div 10]
<1>1. G \in [(1 .. n) \X Nat -> Nat] /\ \A i \in 1 .. n, v \in Nat : G[<<i, v>>] = v \div 10
  OBVIOUS
<1> HIDE DEF G
<1>2. PICK E \in [0 .. n -> Nat] : Recurs(E, n, n, G)
  BY <1>1, Recursion
<1>3. E = Def(E)
  <2>1. ASSUME NEW i \in 0 .. n PROVE E[i] = IF i = 0 THEN n ELSE E[i - 1] \div 10
    <3>1. CASE i = 0
      BY <1>2, <3>1 DEF Recurs
    <3>2. CASE i # 0
      <4>1. i \in 1 .. n /\ i - 1 \in 0 .. n
        BY <3>2
      <4> QED
        BY <1>1, <1>2, <4>1 DEF Recurs
    <3> QED
      BY <3>1, <3>2
  <2> QED
    BY <2>1
<1> DEFINE rest == CHOOSE F : F = Def(F)
           size == Cardinality({k \in 0 .. n : k = 0 \/ rest[k] # 0})
<1>4. rest = Def(rest)
  BY <1>3
<1>5. Itoa(n) = [i \in 1 .. size |-> 48 + (rest[size - i] % 10)]
  BY DEF Itoa
<1> HIDE DEF rest
<1>6. \A k \in 0 .. n : rest[k] = IF k = 0 THEN n ELSE rest[k - 1] \div 10
  BY <1>4
<1> HIDE DEF Def
<1> DEFINE S == {m \in Nat : m <= n => rest[m] \in Nat}
<1>7. 0 \in S
  BY <1>6
<1>8. ASSUME NEW m \in Nat, m \in S PROVE m + 1 \in S
  <2> SUFFICES ASSUME m + 1 <= n PROVE rest[m + 1] \in Nat
    OBVIOUS
  <2>1. m + 1 \in 0 .. n /\ m + 1 # 0 /\ (m + 1) - 1 = m /\ rest[m] \in Nat
    BY <1>8
  <2>2. rest[m + 1] = rest[m] \div 10
    BY <1>6, <2>1
  <2> QED
    BY <2>1, <2>2
<1> HIDE DEF S
<1>9. \A k \in 0 .. n : rest[k] \in Nat
  <2>1. \A m \in Nat : m \in S
    BY <1>7, <1>8, SetInduction
  <2> QED
    BY <2>1 DEF S
<1>10. size \in 0 .. n + 1
  <2> DEFINE T == {k \in 0 .. n : k = 0 \/ rest[k] # 0}
  <2>1. IsFiniteSet(0 .. n) /\ Cardinality(0 .. n) = n + 1
    BY FS_Interval
  <2>2. T \in SUBSET (0 .. n)
    OBVIOUS
  <2> HIDE DEF T
  <2>3. IsFiniteSet(T) /\ Cardinality(T) <= Cardinality(0 .. n)
    BY <2>1, <2>2, FS_Subset
  <2>4. Cardinality(T) \in Nat
    BY <2>3, FS_CardinalityType
  <2>5. Cardinality(T) \in 0 .. n + 1
    BY <2>1, <2>3, <2>4
  <2> QED
    BY <2>5 DEF T
<1> HIDE DEF size
<1>11. \A i \in 1 .. size : rest[size - i] \in Nat
  <2>1. \A i \in 1 .. size : size - i \in 0 .. n
    BY <1>10
  <2> QED
    BY <1>9, <2>1
<1>12. \A i \in 1 .. size : 48 + (rest[size - i] % 10) \in Nat
  BY <1>11
<1> QED
  BY <1>5, <1>10, <1>12

LEMMA ArgKeyType == \A n \in Nat : ArgKey(n) \in Seq(Nat) /\ ArgKey(n) # << >>
<1> SUFFICES ASSUME NEW n \in Nat PROVE ArgKey(n) \in Seq(Nat) /\ ArgKey(n) # << >>
  OBVIOUS
<1>1. PICK digits \in Seq(Nat) : digits = Itoa(n)
  BY ItoaType
<1>2. ArgKey(n) = <<97, 114, 103>> \o digits
  BY <1>1 DEF ArgKey
<1>3. Len(<<97, 114, 103>> \o digits) = 3 + Len(digits)
  OBVIOUS
<1> QED
  BY <1>2, <1>3

LEMMA KeyTextType ==
  ASSUME NEW v \in Passable, NEW n \in Nat
  PROVE  KeyText(v, n) \in Seq(Nat)
  BY PassableParts, ArgKeyType DEF KeyText

LEMMA PairNumber ==
  ASSUME NEW i \in Nat, i >= 1
  PROVE  (i - 1) \div 2 \in Nat
OBVIOUS

LEMMA KeyvalsType ==
  ASSUME NEW given \in Seq(Loggable)
  PROVE  Keyvals(given) \in Seq(Passable) /\ Len(Keyvals(given)) = Len(given)
<1>1. PICK n \in Nat : n = Len(given) /\ DOMAIN given = 1 .. n
  OBVIOUS
<1>2. ASSUME NEW i \in 1 .. n PROVE Keyvals(given)[i] \in Passable
  <2>1. given[i] \in Loggable /\ given[i] \in Passable
    BY <1>1, LoggableIsPassable
  <2>2. CASE i % 2 = 0 \/ i = Len(given) \/ given[i].type = "trusted"
    <3>1. Keyvals(given)[i] = given[i]
      BY <1>1, <2>2 DEF Keyvals
    <3> QED
      BY <2>1, <3>1
  <2>3. CASE ~(i % 2 = 0 \/ i = Len(given) \/ given[i].type = "trusted")
    <3> DEFINE key == KeyText(given[i], (i - 1) \div 2)
    <3>1. Keyvals(given)[i] = Value(IF TrustedASCII(key) THEN "trusted" ELSE "string", key, 0)
      BY <1>1, <2>3 DEF Keyvals
    <3>2. key \in Seq(Nat)
      BY <2>1, PairNumber, KeyTextType
    <3> HIDE DEF key
    <3>3. TrustedASCII(key) => JSONClean(key)
      BY <3>2, SafeIsClean
    <3>4. CASE TrustedASCII(key)
      BY <3>1, <3>2, <3>3, <3>4 DEF Value, Passable, PassedScalar, Types
    <3>5. CASE ~TrustedASCII(key)
      BY <3>1, <3>2, <3>5 DEF Value, Passable, PassedScalar, Types
    <3> QED
      BY <3>4, <3>5
  <2> QED
    BY <2>2, <2>3
<1>3. Keyvals(given) = [i \in 1 .. n |-> Keyvals(given)[i]]
  BY <1>1 DEF Keyvals
<1>4. Keyvals(given) \in [1 .. n -> Passable]
  BY ONLY <1>2, <1>3
<1>5. Keyvals(given) \in Seq(Passable) /\ Len(Keyvals(given)) = n
  BY ONLY <1>1, <1>4
<1> QED
  BY <1>1, <1>5

LEMMA CallerNameType ==
  ASSUME NEW stack \in Seq(Seq(Nat))
  PROVE  CallerName(stack) \in Seq(Nat)
  BY DEF CallerName

LEMMA CallerFieldType ==
  ASSUME config.callerKey \in Seq(Nat), call.stack \in Seq(Seq(Nat))
  PROVE  CallerField \in Seq(Passable)
<1> DEFINE key == Value(IF TrustedASCII(config.callerKey) THEN "trusted" ELSE "string",
                        config.callerKey, 0)
<1>1. key \in Passable
  <2>1. CASE TrustedASCII(config.callerKey)
    <3>1. JSONClean(config.callerKey)
      BY <2>1, SafeIsClean
    <3> QED
      BY <2>1, <3>1 DEF Value, Passable, PassedScalar, Types
  <2>2. CASE ~TrustedASCII(config.callerKey)
    BY <2>2 DEF Value, Passable, PassedScalar, Types
  <2> QED
    BY <2>1, <2>2
<1>2. Str(CallerName(call.stack)) \in Passable
  BY CallerNameType, TextLoggable DEF Str
<1>3. CallerField = IF ~config.caller THEN << >> ELSE << key, Str(CallerName(call.stack)) >>
  BY DEF CallerField
<1> HIDE DEF key
<1> QED
  BY <1>1, <1>2, <1>3

LEMMA CollectFieldsType ==
  ASSUME NEW given \in Seq(Loggable)
  PROVE  CollectFields(given) \in Seq(Fields)
<1> DEFINE lone == Len(given) = 1 /\ "error" \in CasesOf(given[1].type)
<1>1. CASE lone
  <2> DEFINE word == <<101, 114, 114, 111, 114>>
             f == [key |-> word, trusted |-> TRUE, value |-> Value("error", given[1].str, 0)]
  <2>1. word \in Seq(Nat) /\ JSONClean(word)
    BY DEF JSONClean, JSONNeedsEscape, Space, Quote, Backslash
  <2>2. given[1] \in Loggable
    BY <1>1
  <2>3. Value("error", given[1].str, 0) \in Loggable
    BY <2>2, LoggableParts, TextLoggable
  <2>4. CollectFields(given) = << f >>
    BY <1>1 DEF CollectFields
  <2> HIDE DEF word
  <2>5. f \in Fields
    BY <2>1, <2>3 DEF Fields
  <2> QED
    BY <2>4, <2>5
<1>2. CASE ~lone
  <2>1. PICK n \in Nat : n = Len(given)
    OBVIOUS
  <2>2. PICK m \in Nat : m = (n + 1) \div 2
    OBVIOUS
  <2>3. ASSUME NEW i \in 1 .. m
        PROVE  CollectFields(given)[i] \in Fields
    <3> DEFINE odd == 2 * i > Len(given)
               key == IF odd THEN ArgKey(i - 1) ELSE KeyText(given[2 * i - 1], i - 1)
               v   == IF odd THEN given[Len(given)] ELSE given[2 * i]
               trusted == \/ ~odd /\ given[2 * i - 1].type = "trusted"
                          \/ TrustedASCII(key)
    <3>1. CollectFields(given)[i] = [key |-> key, trusted |-> trusted, value |-> v]
      BY <1>2, <2>1, <2>2 DEF CollectFields
    <3>2. CASE odd
      <4>1. n \in 1 .. n /\ i - 1 \in Nat
        BY <2>1, <2>2
      <4>2. v \in Loggable
        BY <2>1, <3>2, <4>1
      <4>3. key \in Seq(Nat)
        BY <3>2, <4>1, ArgKeyType
      <4>4. trusted => JSONClean(key)
        <5> HIDE DEF key
        <5> QED
          BY <3>2, <4>3, SafeIsClean
      <4>5. trusted \in BOOLEAN
        OBVIOUS
      <4> HIDE DEF key, v, trusted
      <4> QED
        BY <3>1, <4>2, <4>3, <4>4, <4>5 DEF Fields
    <3>3. CASE ~odd
      <4>1. 2 * i \in 1 .. n /\ 2 * i - 1 \in 1 .. n /\ i - 1 \in Nat
        BY <2>1, <3>3
      <4>2. v \in Loggable /\ given[2 * i - 1] \in Loggable
        BY <2>1, <3>3, <4>1
      <4>3. key \in Seq(Nat)
        BY <3>3, <4>1, <4>2, KeyTextType, LoggableIsPassable
      <4>4. given[2 * i - 1].type = "trusted" => JSONClean(key)
        <5> SUFFICES ASSUME given[2 * i - 1].type = "trusted" PROVE JSONClean(key)
          OBVIOUS
        <5>1. key = given[2 * i - 1].str
          BY <3>3 DEF KeyText
        <5> HIDE DEF key
        <5> QED
          BY <4>2, <5>1, LoggableParts, SafeIsClean
      <4>5. trusted => JSONClean(key)
        <5> HIDE DEF key
        <5> QED
          BY <4>3, <4>4, SafeIsClean
      <4>6. trusted \in BOOLEAN
        OBVIOUS
      <4> HIDE DEF key, v, trusted
      <4> QED
        BY <3>1, <4>2, <4>3, <4>5, <4>6 DEF Fields
    <3> QED
      BY <3>2, <3>3
  <2>4. CollectFields(given) = [i \in 1 .. m |-> CollectFields(given)[i]]
    BY <1>2, <2>1, <2>2 DEF CollectFields
  <2>5. CollectFields(given) \in [1 .. m -> Fields]
    BY ONLY <2>3, <2>4
  <2> QED
    BY ONLY <2>2, <2>5
<1> QED
  BY <1>1, <1>2

-----------------------------------------------------------------------------
(* The calls of the bridge and of the logger itself. *)

\* A line of a write and the entry it becomes.
Made ==
    {m \in [line : Seq(Nat), entry : [level : Int, msg : Seq(Nat)]] :
        m.line # << >> /\ KeepsText(m.line, m.entry.msg)}

LEMMA ParsedLevel ==
  ASSUME NEW word
  PROVE  ParseLevel(word) = << >> \/ ParseLevel(word)[1] \in Int
<1>1. \A code \in Names : ByName[code] \in Int
  BY DEF Names, ByName
<1>2. 303 \in Names
  BY DEF Names
<1>3. PICK name : name = TrimSpace(word)
  OBVIOUS
<1>4. ParseLevel(word) = CASE Len(name) = 1 /\ name[1] \in Names -> << ByName[name[1]] >>
                           [] name = << 303, Ing >>              -> << ByName[303] >>
                           [] OTHER                              -> << >>
  BY <1>3 DEF ParseLevel
<1>5. ParseLevel(word) \in {<< >>, << ByName[303] >>}
        \/ (name[1] \in Names /\ ParseLevel(word) = << ByName[name[1]] >>)
  BY ONLY <1>4
<1> QED
  BY <1>1, <1>2, <1>5

LEMMA ClassifiedLevel ==
  ASSUME NEW line
  PROVE  /\ ClassifyLineLevel(line) =
                [level |-> ClassifyLineLevel(line).level, msg |-> ClassifyLineLevel(line).msg]
         /\ ClassifyLineLevel(line).level \in Int
<1>1. CASE Bracketed(line) # << >>
  <2>1. PICK word : Bracketed(line) = ParseLevel(word)
    BY <1>1 DEF Bracketed
  <2>2. Bracketed(line)[1] \in Int
    BY <1>1, <2>1, ParsedLevel
  <2> QED
    BY <1>1, <2>2 DEF ClassifyLineLevel
<1>2. CASE Bracketed(line) = << >> /\ line[1] \in 300 .. 306
  <2>1. ByName[line[1]] \in Int
    BY <1>2 DEF ByName, Names
  <2> QED
    BY <1>2, <2>1 DEF ClassifyLineLevel
<1>3. CASE Bracketed(line) = << >> /\ line[1] \notin 300 .. 306
  BY <1>3 DEF ClassifyLineLevel, Info
<1> QED
  BY <1>1, <1>2, <1>3

LEMMA BridgedMakes ==
  ASSUME NEW text \in Seq(Seq(Nat)), NEW pinned \in Seq(Int)
  PROVE  Bridged(text, pinned) \in Seq(Made)
<1> DEFINE line(i) == TrimSpace(text[i])
           one(i) == IF line(i) = << >> THEN << >>
                     ELSE << [line |-> line(i),
                              entry |-> IF pinned = << >> THEN ClassifyLineLevel(line(i))
                                        ELSE [level |-> pinned[1], msg |-> line(i)]] >>
           all == [i \in DOMAIN text |-> one(i)]
<1>1. PICK n \in Nat : n = Len(text) /\ DOMAIN text = 1 .. n
  OBVIOUS
<1>2. ASSUME NEW i \in 1 .. n PROVE one(i) \in Seq(Made)
  <2>1. PICK l : l = line(i)
    OBVIOUS
  <2>2. l \in Seq(Nat) /\ Ends(l)
    BY <1>1, <2>1, TrimSpaceIs
  <2>3. CASE l = << >>
    BY <2>1, <2>3
  <2>4. CASE l # << >>
    <3> DEFINE entry == IF pinned = << >> THEN ClassifyLineLevel(l)
                        ELSE [level |-> pinned[1], msg |-> l]
    <3>1. one(i) = << [line |-> l, entry |-> entry] >>
      BY <2>1, <2>4
    <3>2. entry \in [level : Int, msg : Seq(Nat)] /\ KeepsText(l, entry.msg)
      <4>1. CASE pinned = << >>
        <5>1. KeepsText(l, ClassifyLineLevel(l).msg)
          BY <2>2, <2>4, ClassifyKeeps
        <5>2. ClassifyLineLevel(l).msg \in Seq(Nat)
          BY <2>2, <2>4, ClassifyKeeps
        <5> QED
          BY <4>1, <5>1, <5>2, ClassifiedLevel
      <4>2. CASE pinned # << >>
        <5>1. pinned[1] \in Int
          BY <4>2
        <5>2. KeepsText(l, SubSeq(l, 0 + 1, Len(l)))
          <6>1. 0 \in Nat /\ 0 <= Len(l)
            BY <2>2
          <6> QED
            BY <2>2, <6>1, SuffixKept
        <5>3. SubSeq(l, 0 + 1, Len(l)) = l
          BY <2>2
        <5> QED
          BY <2>2, <4>2, <5>1, <5>2, <5>3
      <4> QED
        BY <4>1, <4>2
    <3> HIDE DEF entry
    <3>3. [line |-> l, entry |-> entry] \in Made
      BY <2>2, <2>4, <3>2 DEF Made
    <3> HIDE DEF one
    <3> QED
      BY <3>1, <3>3
  <2> QED
    BY <2>3, <2>4
<1> HIDE DEF one
<1>3. all \in Seq(Seq(Made))
  BY <1>1, <1>2
<1>4. Bridged(text, pinned) = FlattenSeq(all)
  BY DEF Bridged, one
<1> HIDE DEF all
<1> QED
  BY <1>3, <1>4, FlattenType

LEMMA OwnErrorType ==
  ASSUME NEW msg \in {ModeInvalid, OpenFailed}, NEW key \in {<< 109 >>, << 111 >>}
  PROVE  OwnError(msg, key) \in Entries
<1>1. << Quote, 101, Space >> \in Seq(Nat) /\ << 120 >> \in Seq(Nat) /\ key \in Seq(Nat)
  <2>1. Quote \in Nat /\ Space \in Nat
    BY DEF Quote, Space
  <2>2. \A a, b, c \in Nat : << a, b, c >> \in Seq(Nat)
    OBVIOUS
  <2>3. \A a \in Nat : << a >> \in Seq(Nat)
    OBVIOUS
  <2>4. << 109 >> \in Seq(Nat) /\ << 111 >> \in Seq(Nat) /\ << 120 >> \in Seq(Nat)
    BY ONLY <2>3
  <2>5. key = << 109 >> \/ key = << 111 >>
    OBVIOUS
  <2> QED
    BY <2>1, <2>2, <2>4, <2>5
<1>2. /\ Value("error", << Quote, 101, Space >>, 0) \in Loggable
      /\ Str(key) \in Loggable /\ Str(<< 120 >>) \in Loggable
  BY <1>1, TextLoggable DEF Str
<1>3. msg \in Seq(Nat) /\ << UserFunction >> \in Seq(Seq(Nat))
  <2>1. \A a \in Nat : << a >> \in Seq(Nat)
    OBVIOUS
  <2>2. << 109 >> \in Seq(Nat) /\ << 111 >> \in Seq(Nat) /\ << 102 >> \in Seq(Nat)
    BY ONLY <2>1
  <2>3. ModeInvalid \in Seq(Nat) /\ OpenFailed \in Seq(Nat) /\ UserFunction \in Seq(Nat)
    BY <2>2 DEF ModeInvalid, OpenFailed, UserFunction
  <2>4. msg = ModeInvalid \/ msg = OpenFailed
    OBVIOUS
  <2>5. \A a \in Seq(Nat) : << a >> \in Seq(Seq(Nat))
    OBVIOUS
  <2> QED
    BY <2>3, <2>4, <2>5
<1> QED
  BY <1>2, <1>3 DEF OwnError, Entries

LEMMA OwnErrorsType ==
  ASSUME NEW p
  PROVE  OwnErrors(p) \in Seq(Entries)
<1>1. OwnError(ModeInvalid, << 109 >>) \in Entries /\ OwnError(OpenFailed, << 111 >>) \in Entries
  BY OwnErrorType
<1> DEFINE first == IF p.fileMode.set /\ ~FileModeOk(p.fileMode.value)
                    THEN << OwnError(ModeInvalid, << 109 >>) >> ELSE << >>
           second == IF OpenFails(p.output) THEN << OwnError(OpenFailed, << 111 >>) >> ELSE << >>
<1>2. first \in Seq(Entries) /\ second \in Seq(Entries)
  BY <1>1
<1>3. OwnErrors(p) = first \o second
  BY DEF OwnErrors
<1> HIDE DEF first, second
<1> QED
  BY <1>2, <1>3

-----------------------------------------------------------------------------
(* The state. *)

Queueable == Entries \cup Writes

\* Every call that is made or to come is one the program may make, one of the logger's
\* own or a line of the bridge, and its fields and arguments are typed.
TInv ==
    /\ queue \in Seq(Queueable)
    /\ call \in Entries \cup {NoCall}
    /\ phase \in {"start", "idle", "with", "fast", "slow"}
    /\ phase \in {"with", "fast", "slow"} => call \in Entries
    /\ fields \in Seq(Fields)
    /\ args \in Seq(Passable)
    /\ at \in Nat \ {0}

LEMMA InitTInv == Init => TInv
<1> SUFFICES ASSUME Init PROVE TInv
  OBVIOUS
<1>1. queue = << >> /\ call = NoCall /\ phase = "start" /\ fields = << >> /\ args = << >> /\ at = 1
  BY DEF Init
<1> QED
  BY <1>1 DEF TInv

\* What buildAdapter makes of a program's options.
LEMMA ConfigParts ==
  ASSUME EInv, phase # "start"
  PROVE  /\ config.callerKey \in Seq(Nat) /\ config.callerKey # << >>
         /\ config.layout.text \in Seq(Nat)
         /\ config.json \in BOOLEAN /\ config.colour \in BOOLEAN /\ config.stampTrusted \in BOOLEAN
         /\ config.stampTrusted => ~HasUnsafe(Stamp(config.layout))
<1> DEFINE options == Resolved(program.seed, program.env)
<1>1. /\ IsEnvironment(program.env)
      /\ program.seed.callerKey \in Seq(Nat) /\ program.env.CALLER_KEY.value \in Seq(Nat)
      /\ program.seed.layout.text \in Seq(Nat) /\ program.env.TIME_FORMAT.value.text \in Seq(Nat)
      /\ program.seed.json \in BOOLEAN /\ program.env.MODE.value \in BOOLEAN
  BY ProgramEnvironments DEF EInv
<1>2. config = BuildAdapter(options, out, program.terminals)
  BY DEF EInv
<1>3. options.callerKey \in Seq(Nat)
  BY <1>1 DEF Resolved, Override
<1>4. options.layout.text \in Seq(Nat)
  BY <1>1 DEF Resolved, Override
<1>10. options.json \in BOOLEAN
  BY <1>1 DEF Resolved, Override
<1> HIDE DEF options
<1>5. FnKey \in Seq(Nat) /\ FnKey # << >>
  <2>1. \A a, b \in Nat : << a, b >> \in Seq(Nat) /\ << a, b >> # << >>
    OBVIOUS
  <2> QED
    BY <2>1 DEF FnKey
<1>6. config.callerKey = IF options.callerKey = << >> THEN FnKey ELSE options.callerKey
  BY <1>2 DEF BuildAdapter
<1>7. config.layout = options.layout /\ config.json = options.json
  BY <1>2 DEF BuildAdapter
<1>8. config.colour \in BOOLEAN
  BY <1>2 DEF BuildAdapter, ColorEnabled
<1>9. config.stampTrusted = (~options.noTime /\ ~HasUnsafe(Stamp(options.layout)))
  BY <1>2 DEF BuildAdapter
<1> QED
  BY <1>3, <1>4, <1>5, <1>6, <1>7, <1>8, <1>9, <1>10

LEMMA StartTInv == TInv /\ EInv /\ Start => TInv'
<1> SUFFICES ASSUME TInv, EInv, Start PROVE TInv'
  OBVIOUS
<1>1. OwnErrors(program) \in Seq(Queueable)
  BY OwnErrorsType DEF Queueable
<1>2. program.calls \in Seq(Queueable)
  <2>1. program.calls \in Seq(Calls)
    BY ProgramCalls DEF EInv
  <2>2. ASSUME NEW c \in Calls PROVE c \in Queueable
    <3>1. CASE c.op = "write"
      BY <3>1 DEF Calls, Queueable, Writes
    <3>2. CASE c.op # "write"
      <4>1. c \in [op : {"log"}, with : Seq(Loggable), level : Int, msg : Seq(Nat), args : Seq(Loggable),
                   prepared : BOOLEAN, line : {<< >>}, stack : Seq(Seq(Nat))]
        BY <3>2 DEF Calls
      <4>2. << >> \in Seq(Nat)
        OBVIOUS
      <4>3. c.line = << >> /\ c \in [op : {"log"}, with : Seq(Loggable), level : Int, msg : Seq(Nat),
                   args : Seq(Loggable), prepared : BOOLEAN, line : Seq(Nat), stack : Seq(Seq(Nat))]
        BY <4>1, <4>2
      <4> QED
        BY <4>3 DEF Entries, Queueable
    <3> QED
      BY <3>1, <3>2
  <2> QED
    BY <2>1, <2>2
<1>3. queue' \in Seq(Queueable)
  BY <1>1, <1>2 DEF Start
<1>4. UNCHANGED <<call, fields, args, at>> /\ phase' = "idle"
  BY DEF Start
<1> QED
  BY <1>3, <1>4 DEF TInv

LEMMA WriteTInv == TInv /\ Write => TInv'
<1> SUFFICES ASSUME TInv, Write PROVE TInv'
  OBVIOUS
<1> DEFINE w == Head(queue)
           made == Bridged(w.lines, w.pinned)
           entry(i) == [op |-> "log", with |-> << >>,
                        level |-> made[i].entry.level, msg |-> made[i].entry.msg,
                        args |-> << >>, prepared |-> FALSE,
                        line |-> made[i].line, stack |-> w.stack]
           entries == [i \in DOMAIN made |-> entry(i)]
<1>1. queue # << >> /\ w.op = "write" /\ queue' = entries \o Tail(queue)
  BY DEF Write
<1>2. w \in Queueable /\ Tail(queue) \in Seq(Queueable)
  <2>1. queue \in Seq(Queueable) /\ queue # << >>
    BY <1>1 DEF TInv
  <2> QED
    BY <2>1
<1>3. w \in Writes
  BY <1>1, <1>2 DEF Queueable, Entries
<1>4. made \in Seq(Made) /\ w.stack \in Seq(Seq(Nat))
  BY <1>3, BridgedMakes DEF Writes
<1> HIDE DEF made, w
<1>5. ASSUME NEW i \in DOMAIN made PROVE entry(i) \in Queueable
  <2>1. made[i] \in Made
    BY <1>4
  <2>2. /\ made[i].line \in Seq(Nat) /\ made[i].entry.level \in Int
        /\ made[i].entry.msg \in Seq(Nat)
        /\ KeepsText(made[i].line, made[i].entry.msg)
    BY <2>1 DEF Made
  <2>3. << >> \in Seq(Loggable)
    OBVIOUS
  <2> QED
    BY <1>4, <2>2, <2>3 DEF Entries, Queueable
<1>6. entries \in Seq(Queueable)
  <2> HIDE DEF entry
  <2>1. PICK n \in Nat : DOMAIN made = 1 .. n
    BY <1>4
  <2> QED
    BY <1>5, <2>1
<1> HIDE DEF entries
<1>7. queue' \in Seq(Queueable)
  BY <1>1, <1>2, <1>6
<1>8. UNCHANGED <<phase, call, fields, args, at>>
  BY DEF Write
<1> QED
  BY <1>7, <1>8 DEF TInv

LEMMA CallTInv == TInv /\ Call => TInv'
<1> SUFFICES ASSUME TInv, Call PROVE TInv'
  OBVIOUS
<1>1. queue # << >> /\ Head(queue).op = "log" /\ call' = Head(queue) /\ queue' = Tail(queue)
  BY DEF Call
<1>2. Head(queue) \in Queueable /\ queue' \in Seq(Queueable)
  BY <1>1 DEF TInv
<1>3. Head(queue) \in Entries
  BY <1>1, <1>2 DEF Queueable, Writes
<1>4. CollectFields(Head(queue).with) \in Seq(Fields)
  BY <1>3, CollectFieldsType DEF Entries
<1>5. fields' \in Seq(Fields) /\ at' = 1 /\ phase' = "with" /\ args' = args
  BY <1>4 DEF Call
<1> QED
  BY <1>1, <1>2, <1>3, <1>5 DEF TInv

LEMMA LogTInv == TInv /\ EInv /\ Log => TInv'
<1> SUFFICES ASSUME TInv, EInv, Log PROVE TInv'
  OBVIOUS
<1>1. phase = "with" /\ UNCHANGED <<queue, call, fields>>
  BY DEF Log
<1>2. call \in Entries
  BY <1>1 DEF TInv
<1>3. CASE ShouldLog(call.level)
  <2> DEFINE given == IF call.prepared THEN Keyvals(call.args) ELSE call.args
  <2>1. args' = given \o CallerField /\ at' = 1 /\ phase' = "fast"
    BY <1>3 DEF Log, WithCaller
  <2>2. call.args \in Seq(Loggable) /\ call.stack \in Seq(Seq(Nat))
    BY <1>2 DEF Entries
  <2>3. call.args \in Seq(Passable)
    BY <2>2, LoggableIsPassable
  <2>4. given \in Seq(Passable)
    BY <2>2, <2>3, KeyvalsType
  <2>5. CallerField \in Seq(Passable)
    BY <1>1, <2>2, ConfigParts, CallerFieldType
  <2> HIDE DEF given
  <2>6. args' \in Seq(Passable)
    BY <2>1, <2>4, <2>5
  <2> QED
    BY <1>1, <1>2, <2>1, <2>6 DEF TInv
<1>4. CASE ~ShouldLog(call.level)
  <2>1. phase' = "idle" /\ UNCHANGED <<args, at>>
    BY <1>4 DEF Log
  <2> QED
    BY <1>1, <2>1 DEF TInv
<1> QED
  BY <1>3, <1>4

LEMMA StepTInv == TInv /\ EInv /\ [Next]_vars => TInv'
<1> SUFFICES ASSUME TInv, EInv, [Next]_vars PROVE TInv'
  OBVIOUS
<1>1. CASE EncodeField
  <2>1. at' = at + 1 /\ UNCHANGED <<queue, call, phase, fields, args>>
    BY <1>1 DEF EncodeField
  <2> QED
    BY <2>1 DEF TInv
<1>2. CASE FastPair \/ SlowPair \/ OddArgument
  <2>1. at' = at + 1 /\ UNCHANGED <<queue, call, phase, fields, args>>
    BY <1>2 DEF FastPair, SlowPair, OddArgument
  <2> QED
    BY <2>1 DEF TInv
<1>3. CASE FastFails
  <2>1. /\ at' = 1 /\ UNCHANGED <<queue, call, fields, args>>
        /\ phase = "fast" /\ phase' = "slow"
    BY <1>3 DEF FastFails
  <2> QED
    BY <2>1 DEF TInv
<1>4. CASE Finish
  <2>1. UNCHANGED <<queue, call, fields, args, at>> /\ phase' = "idle"
    BY <1>4 DEF Finish
  <2> QED
    BY <2>1 DEF TInv
<1>5. CASE PoolMakesNew \/ UNCHANGED vars
  <2>1. UNCHANGED <<queue, call, phase, fields, args, at>>
    BY <1>5 DEF PoolMakesNew, vars
  <2> QED
    BY <2>1 DEF TInv
<1> QED
  BY <1>1, <1>2, <1>3, <1>4, <1>5, StartTInv, WriteTInv, CallTInv, LogTInv DEF Next

LEMMA SpecTInv == Spec => [](TInv /\ EInv)
<1>1. Init => EInv
  BY DEF Init, EInv
<1> QED
  BY <1>1, InitTInv, StepTInv, StepEInv, PTL DEF Spec

\* Through the bridge a line loses a level's name and the separators behind it, and a
\* bracket only with a level in it, whatever else the line holds (loggerWriter,
\* classifyLineLevel).
THEOREM BridgeLosesNoText == Spec => []BridgeKeepsText
<1>1. TInv => BridgeKeepsText
  <2> SUFFICES ASSUME TInv, call.op # "none", call.line # << >>
               PROVE  KeepsText(call.line, call.msg)
    BY DEF BridgeKeepsText
  <2>1. call \in Entries
    BY DEF TInv, NoCall
  <2> QED
    BY <2>1 DEF Entries
<1> QED
  BY <1>1, SpecTInv, PTL

-----------------------------------------------------------------------------
(* The logger's own errors. *)

Own == OwnErrors(program)

Busy == IF phase \in {"start", "idle"} THEN 0 ELSE 1

\* The logger's own errors are the first calls: those that have gone out are the first
\* lines, one is under way and the rest waits in front.
Reported ==
    \A n \in 1 .. Len(Own) :
        /\ n <= Len(lines) => lines[n].call.msg = Own[n].msg /\ lines[n].to = out.dests
        /\ n = Len(lines) + 1 /\ Busy = 1 => call = Own[n]
        /\ n > Len(lines) + Busy => /\ n - Len(lines) - Busy <= Len(queue)
                                    /\ queue[n - Len(lines) - Busy] = Own[n]

OInv ==
    /\ phase = "start" => lines = << >>
    /\ Len(lines) \in Nat
    /\ phase # "start" =>
          /\ out = Output(program.output, program.base)
          /\ config.level <= 3 => Reported

LEMMA OwnParts ==
    /\ Own \in Seq(Entries)
    /\ \A n \in 1 .. Len(Own) : Own[n].op = "log" /\ Own[n].level = 3
<1> DEFINE first == IF program.fileMode.set /\ ~FileModeOk(program.fileMode.value)
                    THEN << OwnError(ModeInvalid, << 109 >>) >> ELSE << >>
           second == IF OpenFails(program.output) THEN << OwnError(OpenFailed, << 111 >>) >>
                     ELSE << >>
<1>1. Own \in Seq(Entries)
  BY OwnErrorsType DEF Own
<1>2. \A msg, key : OwnError(msg, key).op = "log" /\ OwnError(msg, key).level = 3
  BY DEF OwnError
<1> DEFINE Three == {e \in Entries : e.op = "log" /\ e.level = 3}
<1>3. OwnError(ModeInvalid, << 109 >>) \in Three /\ OwnError(OpenFailed, << 111 >>) \in Three
  BY <1>2, OwnErrorType
<1>4. Own = first \o second
  BY DEF Own, OwnErrors
<1> HIDE DEF Three
<1>5. first \in Seq(Three) /\ second \in Seq(Three)
  BY <1>3
<1> HIDE DEF first, second
<1>6. Own \in Seq(Three)
  BY <1>4, <1>5
<1> QED
  BY <1>1, <1>6 DEF Three

\* Once the lines and the call under way are not among them, all have gone out.
LEMMA AllReported ==
  ASSUME Reported, Len(lines) \in Nat, Own \in Seq(Entries),
         Len(lines) + 1 \in 1 .. Len(Own) => FALSE
  PROVE  \A n \in 1 .. Len(Own) : n <= Len(lines)
<1>1. PICK l \in Nat : l = Len(lines)
  OBVIOUS
<1>2. PICK m \in Nat : m = Len(Own)
  OBVIOUS
<1>3. ~(l + 1 \in 1 .. m)
  BY <1>1, <1>2
<1>4. \A n \in 1 .. m : n <= l
  BY <1>3
<1> QED
  BY <1>1, <1>2, <1>4

LEMMA DoneReported ==
  ASSUME Reported, Len(lines) \in Nat, \A n \in 1 .. Len(Own) : n <= Len(lines),
         UNCHANGED <<program, lines, out>>, Own \in Seq(Entries)
  PROVE  Reported'
<1>1. Own' = Own /\ lines' = lines /\ out' = out
  BY DEF Own, OwnErrors
<1>2. Busy' \in Nat
  BY DEF Busy
<1>3. PICK l \in Nat : l = Len(lines)
  OBVIOUS
<1>4. PICK b \in Nat : b = Busy'
  BY <1>2
<1>5. PICK m \in Nat : m = Len(Own)
  OBVIOUS
<1>6. ASSUME NEW n \in 1 .. m
      PROVE  /\ n <= l => lines[n].call.msg = Own[n].msg /\ lines[n].to = out.dests
             /\ ~(n = l + 1) /\ ~(n > l + b)
  <2>1. n <= l
    BY <1>3, <1>5
  <2>2. lines[n].call.msg = Own[n].msg /\ lines[n].to = out.dests
    BY <1>3, <1>5, <2>1 DEF Reported
  <2> QED
    BY <2>1, <2>2
<1>7. \A n \in 1 .. Len(Own') :
        /\ n <= Len(lines') => lines'[n].call.msg = Own'[n].msg /\ lines'[n].to = out'.dests
        /\ n = Len(lines') + 1 /\ Busy' = 1 => call' = Own'[n]
        /\ n > Len(lines') + Busy' => /\ n - Len(lines') - Busy' <= Len(queue')
                                      /\ queue'[n - Len(lines') - Busy'] = Own'[n]
  BY ONLY <1>1, <1>3, <1>4, <1>5, <1>6
<1> QED
  BY <1>7 DEF Reported

LEMMA StartReported ==
  ASSUME TInv, EInv, OInv, Start
  PROVE  Reported'
<1>1. /\ lines = << >> /\ phase = "start" /\ phase' = "idle"
      /\ program' = program /\ lines' = lines /\ queue' = Own \o program.calls
  BY DEF OInv, Start, Own
<1>2. Own' = Own
  BY <1>1 DEF Own, OwnErrors
<1>3. Busy' = 0 /\ Len(lines') = 0
  BY <1>1 DEF Busy
<1>4. Own \in Seq(Entries) /\ program.calls \in Seq(Calls)
  BY OwnParts, ProgramCalls DEF EInv
<1>5. PICK S : Own \in Seq(S) /\ program.calls \in Seq(S)
  <2>1. Own \in Seq(Entries \cup Calls) /\ program.calls \in Seq(Entries \cup Calls)
    BY <1>4
  <2> QED
    BY <2>1
<1>6. ASSUME NEW n \in 1 .. Len(Own)
      PROVE  n <= Len(Own \o program.calls) /\ (Own \o program.calls)[n] = Own[n]
  BY <1>5
<1>7. ASSUME NEW n \in 1 .. Len(Own)
      PROVE  n <= Len(queue') /\ queue'[n] = Own'[n] /\ n - 0 - 0 = n /\ n \in Nat /\ n # 0
  BY <1>1, <1>2, <1>6
<1> QED
  BY <1>2, <1>3, <1>7 DEF Reported

LEMMA WriteReported ==
  ASSUME Reported, Len(lines) \in Nat, TInv, Write
  PROVE  Reported'
<1>1. /\ phase = "idle" /\ queue # << >> /\ Head(queue).op = "write"
      /\ UNCHANGED <<program, lines, out>>
  BY DEF Write
<1>2. Busy = 0 /\ Own \in Seq(Entries)
  BY <1>1, OwnParts DEF Busy
<1>3. ASSUME Len(lines) + 1 \in 1 .. Len(Own) PROVE FALSE
  <2>1. (Len(lines) + 1) - Len(lines) - Busy = 1 /\ Len(lines) + 1 > Len(lines) + Busy
    BY <1>2
  <2>2. queue[1] = Own[Len(lines) + 1]
    BY <1>3, <2>1 DEF Reported
  <2>3. Own[Len(lines) + 1].op = "log"
    BY <1>3, OwnParts
  <2>4. Head(queue) = queue[1]
    BY <1>1 DEF TInv
  <2> QED
    BY <1>1, <2>2, <2>3, <2>4
<1> QED
  BY <1>1, <1>2, <1>3, AllReported, DoneReported

LEMMA CallReported ==
  ASSUME Reported, Len(lines) \in Nat, TInv, Call
  PROVE  Reported'
<1>1. /\ phase = "idle" /\ queue # << >> /\ call' = Head(queue) /\ queue' = Tail(queue)
      /\ phase' = "with" /\ UNCHANGED <<program, lines, out>>
  BY DEF Call
<1>2. Own' = Own /\ Busy = 0 /\ Busy' = 1 /\ Own \in Seq(Entries)
  BY <1>1, OwnParts DEF Own, OwnErrors, Busy
<1>3. PICK l \in Nat : l = Len(lines)
  OBVIOUS
<1>4. PICK k \in Nat : /\ Len(queue) = k /\ k # 0 /\ call' = queue[1]
                       /\ Len(queue') = k - 1
                       /\ \A i \in 1 .. k - 1 : queue'[i] = queue[i + 1]
  <2>1. queue \in Seq(Queueable) /\ queue # << >>
    BY <1>1 DEF TInv
  <2> QED
    BY <1>1, <2>1
<1>5. ASSUME NEW n \in 1 .. Len(Own)
      PROVE  /\ n <= l => lines[n].call.msg = Own[n].msg /\ lines[n].to = out.dests
             /\ n = l + 1 => call' = Own[n]
             /\ n > l + 1 => n - l - 1 <= k - 1 /\ queue'[n - l - 1] = Own[n]
  <2>0. n \in Nat
    BY <1>2
  <2>1. n <= l => lines[n].call.msg = Own[n].msg /\ lines[n].to = out.dests
    BY <1>3 DEF Reported
  <2>2. n > l => n - l <= k /\ queue[n - l] = Own[n]
    <3>1. n > l => n - l - 0 <= k /\ queue[n - l - 0] = Own[n]
      BY <1>2, <1>3, <1>4 DEF Reported
    <3>2. n - l - 0 = n - l
      BY <2>0
    <3> QED
      BY <3>1, <3>2
  <2>3. n = l + 1 => n - l = 1 /\ n > l
    BY <2>0
  <2>4. n > l + 1 => /\ n > l
                     /\ n - l <= k => n - l - 1 \in 1 .. k - 1 /\ (n - l - 1) + 1 = n - l
    BY <1>4, <2>0
  <2>5. n > l + 1 => n - l - 1 \in 1 .. k - 1 /\ queue'[n - l - 1] = Own[n]
    BY <1>4, <2>2, <2>4
  <2>6. n > l + 1 => n - l - 1 <= k - 1
    BY <1>4, <2>5
  <2> QED
    BY <1>4, <2>1, <2>2, <2>3, <2>5, <2>6
<1> QED
  BY <1>1, <1>2, <1>3, <1>4, <1>5 DEF Reported

LEMMA LogReported ==
  ASSUME Reported, Len(lines) \in Nat, config.level <= 3, Log
  PROVE  Reported'
<1>1. phase = "with" /\ UNCHANGED <<program, lines, out, queue, call>>
  BY DEF Log
<1>2. Own' = Own /\ Busy = 1 /\ Own \in Seq(Entries)
  BY <1>1, OwnParts DEF Own, OwnErrors, Busy
<1>3. CASE ShouldLog(call.level)
  <2>1. Busy' = 1
    BY <1>3 DEF Log, Busy
  <2> QED
    BY <1>1, <1>2, <2>1 DEF Reported
<1>4. CASE ~ShouldLog(call.level)
  <2>1. ASSUME Len(lines) + 1 \in 1 .. Len(Own) PROVE FALSE
    <3>1. call = Own[Len(lines) + 1]
      BY <1>2, <2>1 DEF Reported
    <3>2. call.level = 3
      BY <2>1, <3>1, OwnParts
    <3>3. ~(3 >= config.level)
      BY <1>4, <3>2 DEF ShouldLog
    <3> QED
      BY <3>3
  <2> QED
    BY <1>1, <1>2, <2>1, AllReported, DoneReported
<1> QED
  BY <1>3, <1>4

LEMMA FinishReported ==
  ASSUME Reported, OInv, Finish
  PROVE  Reported' /\ Len(lines') \in Nat
<1> DEFINE line == [to |-> out.dests, call |-> call, head |-> LineHead,
                    static |-> static, runtime |-> runtime]
<1>1. /\ lines' = Append(lines, line) /\ phase \in {"fast", "slow"} /\ phase' = "idle"
      /\ UNCHANGED <<program, out, queue, call>>
  BY DEF Finish
<1>2. Own' = Own /\ Busy = 1 /\ Busy' = 0 /\ Own \in Seq(Entries)
  BY <1>1, OwnParts DEF Own, OwnErrors, Busy
<1>3. line.call = call /\ line.to = out.dests
  OBVIOUS
<1> HIDE DEF line
<1>4. PICK l \in Nat : l = Len(lines)
  BY DEF OInv
<1>5. Len(lines') = l + 1 /\ lines'[l + 1] = line /\ \A n \in 1 .. l : lines'[n] = lines[n]
  BY <1>1, <1>4
<1> QED
  BY <1>1, <1>2, <1>3, <1>4, <1>5 DEF Reported

\* What is neither begun nor ended changes nothing of this.
LEMMA OtherReported ==
  ASSUME Reported, Busy' = Busy, UNCHANGED <<program, out, queue, call, lines>>
  PROVE  Reported'
<1>1. Own' = Own
  BY DEF Own, OwnErrors
<1> QED
  BY <1>1 DEF Reported

LEMMA OtherSteps ==
  ASSUME OInv,
         \/ EncodeField \/ FastPair \/ FastFails \/ SlowPair \/ OddArgument
         \/ PoolMakesNew \/ UNCHANGED vars
  PROVE  /\ UNCHANGED <<program, config, out, queue, call, lines>>
         /\ Busy' = Busy
         /\ phase = "start" <=> phase' = "start"
<1>1. CASE EncodeField
  BY <1>1 DEF EncodeField, Busy
<1>2. CASE FastPair
  BY <1>2 DEF FastPair, Busy
<1>3. CASE FastFails
  BY <1>3 DEF FastFails, Busy
<1>4. CASE SlowPair
  BY <1>4 DEF SlowPair, Busy
<1>5. CASE OddArgument
  BY <1>5 DEF OddArgument, Busy
<1>6. CASE PoolMakesNew
  BY <1>6 DEF PoolMakesNew, Busy
<1>7. CASE UNCHANGED vars
  BY <1>7 DEF vars, Busy
<1> QED
  BY <1>1, <1>2, <1>3, <1>4, <1>5, <1>6, <1>7

\* The parts of the invariant that do not speak of the own errors.
LEMMA OthersOInv ==
  ASSUME OInv, UNCHANGED <<program, config, out, lines>>,
         phase = "start" <=> phase' = "start", config.level <= 3 => Reported'
  PROVE  OInv'
<1>1. (phase = "start" => lines = << >>)' /\ (Len(lines) \in Nat)'
  BY DEF OInv
<1>2. phase' # "start" => out' = Output(program'.output, program'.base)
  BY DEF OInv
<1>3. phase' # "start" => (config'.level <= 3 => Reported')
  OBVIOUS
<1> QED
  BY <1>1, <1>2, <1>3 DEF OInv

LEMMA StepOInv ==
  ASSUME TInv, EInv, OInv, [Next]_vars
  PROVE  OInv'
<1>1. CASE Start
  <2>1. /\ phase = "start" /\ phase' = "idle" /\ program' = program /\ lines' = lines
        /\ out' = Output(program.output, program.base)
    BY <1>1 DEF Start
  <2>2. Reported'
    BY <1>1, StartReported
  <2> QED
    BY <2>1, <2>2 DEF OInv
<1>2. CASE Write
  <2>1. /\ phase = "idle" /\ UNCHANGED <<program, config, out, phase, lines>>
    BY <1>2 DEF Write
  <2>2. config.level <= 3 => Reported'
    BY <1>2, <2>1, WriteReported DEF OInv
  <2> QED
    BY <2>1, <2>2, OthersOInv
<1>3. CASE Call
  <2>1. /\ phase = "idle" /\ phase' = "with" /\ UNCHANGED <<program, config, out, lines>>
    BY <1>3 DEF Call
  <2>2. config.level <= 3 => Reported'
    BY <1>3, <2>1, CallReported DEF OInv
  <2> QED
    BY <2>1, <2>2, OthersOInv
<1>4. CASE Log
  <2>1. /\ phase = "with" /\ phase' # "start" /\ UNCHANGED <<program, config, out, lines>>
    BY <1>4 DEF Log
  <2>2. config.level <= 3 => Reported'
    BY <1>4, <2>1, LogReported DEF OInv
  <2> QED
    BY <2>1, <2>2, OthersOInv
<1>5. CASE Finish
  <2>1. /\ phase \in {"fast", "slow"} /\ phase' = "idle" /\ UNCHANGED <<program, config, out>>
    BY <1>5 DEF Finish
  <2>2. config.level <= 3 => Reported'
    BY <1>5, <2>1, FinishReported DEF OInv
  <2>3. Len(lines') \in Nat
    <3>1. PICK l \in Nat : l = Len(lines)
      BY DEF OInv
    <3>2. Len(lines') = Len(lines) + 1
      BY <1>5 DEF Finish
    <3> QED
      BY <3>1, <3>2
  <2> QED
    BY <2>1, <2>2, <2>3 DEF OInv
<1>6. CASE \/ EncodeField \/ FastPair \/ FastFails \/ SlowPair \/ OddArgument
           \/ PoolMakesNew \/ UNCHANGED vars
  <2>1. /\ UNCHANGED <<program, config, out, queue, call, lines>>
        /\ Busy' = Busy
        /\ phase = "start" <=> phase' = "start"
    BY <1>6, OtherSteps
  <2>2. CASE phase = "start"
    BY <2>1, <2>2 DEF OInv
  <2>3. CASE phase # "start"
    <3>1. config.level <= 3 => Reported'
      BY <2>1, <2>3, OtherReported DEF OInv
    <3> QED
      BY <2>1, <3>1, OthersOInv
  <2> QED
    BY <2>2, <2>3
<1> QED
  BY <1>1, <1>2, <1>3, <1>4, <1>5, <1>6 DEF Next

LEMMA SpecOInv == Spec => [](TInv /\ EInv /\ OInv)
<1>1. Init => OInv
  BY DEF Init, OInv
<1>2. TInv /\ EInv /\ OInv /\ [Next]_vars => OInv'
  BY StepOInv
<1>3. Spec => [](TInv /\ EInv)
  BY SpecTInv
<1> QED
  BY <1>1, <1>2, <1>3, PTL DEF Spec

\* The messages of the own errors.
LEMMA OwnMessages ==
  ASSUME NEW p
  PROVE  LET failed  == OpenFails(p.output)
             invalid == p.fileMode.set /\ ~FileModeOk(p.fileMode.value)
             own     == (IF invalid THEN << ModeInvalid >> ELSE << >>)
                        \o (IF failed THEN << OpenFailed >> ELSE << >>)
         IN  /\ Len(own) = Len(OwnErrors(p)) /\ Len(own) \in Nat
             /\ DOMAIN own = 1 .. Len(own)
             /\ \A n \in 1 .. Len(own) : own[n] = OwnErrors(p)[n].msg
<1> DEFINE failed  == OpenFails(p.output)
           invalid == p.fileMode.set /\ ~FileModeOk(p.fileMode.value)
           mode == OwnError(ModeInvalid, << 109 >>)
           open == OwnError(OpenFailed, << 111 >>)
           own     == (IF invalid THEN << ModeInvalid >> ELSE << >>)
                        \o (IF failed THEN << OpenFailed >> ELSE << >>)
<1>1. mode.msg = ModeInvalid /\ open.msg = OpenFailed
  BY DEF OwnError
<1>2. OwnErrors(p) = (IF invalid THEN << mode >> ELSE << >>)
                     \o (IF failed THEN << open >> ELSE << >>)
  BY DEF OwnErrors
<1>3. \A a, b : /\ Len(<< a >> \o << b >>) = 2
                /\ (<< a >> \o << b >>)[1] = a /\ (<< a >> \o << b >>)[2] = b
  <2> TAKE a, b
  <2>1. << a >> \in Seq({a, b}) /\ << b >> \in Seq({a, b})
    OBVIOUS
  <2> QED
    BY <2>1
<1>10. \A a : Len(<< a >>) = 1 /\ << a >>[1] = a /\ DOMAIN << a >> = 1 .. 1
  OBVIOUS
<1>9. \A a : << a >> \o << >> = << a >> /\ << >> \o << a >> = << a >>
  OBVIOUS
<1>4. << >> \o << >> = << >>
  OBVIOUS
<1> HIDE DEF failed, invalid, mode, open
<1>5. CASE failed /\ invalid
  <2>2. own = << ModeInvalid >> \o << OpenFailed >> /\ OwnErrors(p) = << mode >> \o << open >>
    BY <1>2, <1>5
  <2>3. own \in Seq({ModeInvalid, OpenFailed})
    BY <2>2
  <2>1. /\ Len(own) = 2 /\ own[1] = ModeInvalid /\ own[2] = OpenFailed /\ DOMAIN own = 1 .. 2
        /\ Len(OwnErrors(p)) = 2 /\ OwnErrors(p)[1] = mode /\ OwnErrors(p)[2] = open
    BY <2>2, <2>3, <1>3
  <2> QED
    BY <2>1, <1>1 DEF failed, invalid
<1>6. CASE ~failed /\ invalid
  <2>1. own = << ModeInvalid >> /\ OwnErrors(p) = << mode >>
    BY <1>2, <1>9, <1>6
  <2>2. /\ Len(own) = 1 /\ own[1] = ModeInvalid /\ DOMAIN own = 1 .. 1
        /\ Len(OwnErrors(p)) = 1 /\ OwnErrors(p)[1] = mode
    BY <2>1, <1>10
  <2> QED
    BY <2>2, <1>1 DEF failed, invalid
<1>7. CASE failed /\ ~invalid
  <2>1. own = << OpenFailed >> /\ OwnErrors(p) = << open >>
    BY <1>2, <1>9, <1>7
  <2>2. /\ Len(own) = 1 /\ own[1] = OpenFailed /\ DOMAIN own = 1 .. 1
        /\ Len(OwnErrors(p)) = 1 /\ OwnErrors(p)[1] = open
    BY <2>1, <1>10
  <2> QED
    BY <2>2, <1>1 DEF failed, invalid
<1>8. CASE ~failed /\ ~invalid
  <2>1. own = << >> /\ OwnErrors(p) = << >>
    BY <1>2, <1>4, <1>8
  <2> QED
    BY <2>1 DEF failed, invalid
<1> QED
  BY <1>5, <1>6, <1>7, <1>8

\* An output that cannot be opened leaves the base writer, and what LoggerFromEnv has to
\* report of it or of a file mode are the first lines there: its own With(err).Error
\* calls are not lost, overtaken or sent elsewhere.
THEOREM OwnErrorsSurface == Spec => []OutputErrorsSurface
<1>1. TInv /\ EInv /\ OInv => OutputErrorsSurface
  <2> SUFFICES ASSUME TInv, EInv, OInv, phase = "idle", queue = << >>
               PROVE  OutputErrorsSurface
    BY DEF OutputErrorsSurface
  <2> DEFINE failed  == OpenFails(program.output)
             invalid == program.fileMode.set /\ ~FileModeOk(program.fileMode.value)
             own     == (IF invalid THEN << ModeInvalid >> ELSE << >>)
                        \o (IF failed THEN << OpenFailed >> ELSE << >>)
  <2>1. /\ Len(own) = Len(Own) /\ Len(own) \in Nat /\ DOMAIN own = 1 .. Len(own)
        /\ \A n \in 1 .. Len(own) : own[n] = Own[n].msg
    BY OwnMessages DEF Own
  <2>2. failed => out = [dests |-> << program.base >>, owned |-> FALSE]
    BY DEF OInv, Output
  <2> HIDE DEF failed, invalid, own
  <2>3. ASSUME config.level <= 3
        PROVE  /\ Len(lines) >= Len(own)
               /\ \A n \in DOMAIN own : lines[n].call.msg = own[n]
               /\ \A n \in DOMAIN own : lines[n].to = out.dests
    <3>1. Reported /\ Busy = 0 /\ Len(queue) = 0
      BY <2>3 DEF OInv, Busy
    <3>2. PICK l \in Nat : l = Len(lines)
      BY DEF OInv
    <3>3. PICK m \in Nat : m = Len(own)
      BY <2>1
    <3>4. ASSUME NEW n \in 1 .. m PROVE n <= l
      <4>1. n > Len(lines) + Busy => n - Len(lines) - Busy <= Len(queue)
        BY <2>1, <3>1, <3>3 DEF Reported
      <4>2. n > l + 0 => n - l - 0 <= 0
        BY <3>1, <3>2, <4>1
      <4> QED
        BY <4>2
    <3>5. m <= l
      BY <3>4
    <3>6. \A n \in 1 .. m : lines[n].call.msg = Own[n].msg /\ lines[n].to = out.dests
      BY <2>1, <3>1, <3>2, <3>3, <3>4 DEF Reported
    <3> QED
      BY <2>1, <3>2, <3>3, <3>5, <3>6
  <2> QED
    BY <2>2, <2>3 DEF OutputErrorsSurface, own, failed, invalid
<1> QED
  BY <1>1, SpecOInv, PTL

-----------------------------------------------------------------------------
(* The switches. *)

\* The case that a value of the type is meant for.
MeantCase(type) ==
    CASE type = "nonfinite" -> "float"
      [] type \in {"jsonNumber", "stringerError", "stringerMarshaler"} -> "stringer"
      [] type = "other"     -> "default"
      [] OTHER              -> type

\* The switch takes the type by that case, or leaves it to the next switch.
Takes(switch, type, case) ==
    Matches(switch, type) # {} /\ switch[Min(Matches(switch, type))] = case

LEMMA TakesFirst ==
  ASSUME NEW switch, NEW n \in Nat, DOMAIN switch = 1 .. n, NEW type,
         NEW i \in 1 .. n, switch[i] \in CasesOf(type),
         \A j \in 1 .. n : j < i => switch[j] \notin CasesOf(type)
  PROVE  Takes(switch, type, switch[i])
<1> DEFINE M == Matches(switch, type)
<1>1. i \in M /\ M \subseteq 1 .. n
  BY DEF Matches
<1>2. \A j \in M : i <= j
  BY DEF Matches
<1> HIDE DEF M
<1>3. M \in SUBSET (0 .. n) /\ M # {}
  BY <1>1
<1>4. Min(M) \in M /\ \A y \in M : Min(M) <= y
  BY <1>3, LeastPlace
<1>5. Min(M) \in 1 .. n /\ i <= Min(M) /\ Min(M) <= i
  BY <1>1, <1>2, <1>4
<1>6. Min(M) = i
  BY <1>5
<1> QED
  BY <1>1, <1>5, <1>6 DEF Takes, M

LEMMA PTLogTakes ==
  ASSUME NEW type \in Types
  PROVE  IF type \in {"bytes", "nil", "stringer", "error", "stringerError",
                       "marshaler", "stringerMarshaler", "jsonNumber", "other"}
         THEN Matches(PTLog, type) = {} ELSE Takes(PTLog, type, MeantCase(type))
<1> DEFINE Left == {"bytes", "nil", "stringer", "error", "stringerError",
                    "marshaler", "stringerMarshaler", "jsonNumber", "other"}
<1>1. DOMAIN PTLog = 1 .. 8
  BY DEF PTLog
<1>2. CASE type \notin Left
  <2>1. \E i \in 1 .. 8 : /\ PTLog[i] = MeantCase(type)
                          /\ PTLog[i] \in CasesOf(type)
                          /\ \A j \in 1 .. 8 : j < i => PTLog[j] \notin CasesOf(type)
    BY <1>2 DEF PTLog, MeantCase, CasesOf, Types
  <2> QED
    BY <1>1, <1>2, <2>1, TakesFirst
<1>3. CASE type \in Left
  BY <1>1, <1>3 DEF PTLog, CasesOf, Matches
<1> QED
  BY <1>2, <1>3

LEMMA JSONInlineTakes ==
  ASSUME NEW type \in Types
  PROVE  IF type \in {"nil", "array", "marshaler", "other"}
         THEN Matches(JSONInline, type) = {} ELSE Takes(JSONInline, type, MeantCase(type))
<1> DEFINE Left == {"nil", "array", "marshaler", "other"}
<1>1. DOMAIN JSONInline = 1 .. 10
  BY DEF JSONInline
<1>2. CASE type \notin Left
  <2>1. \E i \in 1 .. 10 : /\ JSONInline[i] = MeantCase(type)
                          /\ JSONInline[i] \in CasesOf(type)
                          /\ \A j \in 1 .. 10 : j < i => JSONInline[j] \notin CasesOf(type)
    BY <1>2 DEF JSONInline, MeantCase, CasesOf, Types
  <2> QED
    BY <1>1, <1>2, <2>1, TakesFirst
<1>3. CASE type \in Left
  BY <1>1, <1>3 DEF JSONInline, CasesOf, Matches
<1> QED
  BY <1>2, <1>3

LEMMA JSONFastTakes ==
  ASSUME NEW type \in Types
  PROVE  IF type \in {"bytes", "nil", "array", "stringer", "error",
                       "stringerError", "marshaler", "stringerMarshaler",
                       "jsonNumber", "other"}
         THEN Matches(JSONFast, type) = {} ELSE Takes(JSONFast, type, MeantCase(type))
<1> DEFINE Left == {"bytes", "nil", "array", "stringer", "error",
                    "stringerError", "marshaler", "stringerMarshaler",
                    "jsonNumber", "other"}
<1>1. DOMAIN JSONFast = 1 .. 7
  BY DEF JSONFast
<1>2. CASE type \notin Left
  <2>1. \E i \in 1 .. 7 : /\ JSONFast[i] = MeantCase(type)
                          /\ JSONFast[i] \in CasesOf(type)
                          /\ \A j \in 1 .. 7 : j < i => JSONFast[j] \notin CasesOf(type)
    BY <1>2 DEF JSONFast, MeantCase, CasesOf, Types
  <2> QED
    BY <1>1, <1>2, <2>1, TakesFirst
<1>3. CASE type \in Left
  BY <1>1, <1>3 DEF JSONFast, CasesOf, Matches
<1> QED
  BY <1>2, <1>3

LEMMA JSONColorTakes ==
  ASSUME NEW type \in Types
  PROVE  IF type \in {"array", "marshaler", "other"}
         THEN Matches(JSONColor, type) = {} ELSE Takes(JSONColor, type, MeantCase(type))
<1> DEFINE Left == {"array", "marshaler", "other"}
<1>1. DOMAIN JSONColor = 1 .. 11
  BY DEF JSONColor
<1>2. CASE type \notin Left
  <2>1. \E i \in 1 .. 11 : /\ JSONColor[i] = MeantCase(type)
                          /\ JSONColor[i] \in CasesOf(type)
                          /\ \A j \in 1 .. 11 : j < i => JSONColor[j] \notin CasesOf(type)
    BY <1>2 DEF JSONColor, MeantCase, CasesOf, Types
  <2> QED
    BY <1>1, <1>2, <2>1, TakesFirst
<1>3. CASE type \in Left
  BY <1>1, <1>3 DEF JSONColor, CasesOf, Matches
<1> QED
  BY <1>2, <1>3

LEMMA ConsoleInlineTakes ==
  ASSUME NEW type \in Types
  PROVE  IF type \in {"array", "marshaler", "other"}
         THEN Matches(ConsoleInline, type) = {} ELSE Takes(ConsoleInline, type, MeantCase(type))
<1> DEFINE Left == {"array", "marshaler", "other"}
<1>1. DOMAIN ConsoleInline = 1 .. 11
  BY DEF ConsoleInline
<1>2. CASE type \notin Left
  <2>1. \E i \in 1 .. 11 : /\ ConsoleInline[i] = MeantCase(type)
                          /\ ConsoleInline[i] \in CasesOf(type)
                          /\ \A j \in 1 .. 11 : j < i => ConsoleInline[j] \notin CasesOf(type)
    BY <1>2 DEF ConsoleInline, MeantCase, CasesOf, Types
  <2> QED
    BY <1>1, <1>2, <2>1, TakesFirst
<1>3. CASE type \in Left
  BY <1>1, <1>3 DEF ConsoleInline, CasesOf, Matches
<1> QED
  BY <1>2, <1>3

LEMMA ConsoleFastTakes ==
  ASSUME NEW type \in Types
  PROVE  IF type \in {"array", "marshaler", "other"}
         THEN Matches(ConsoleFast, type) = {} ELSE Takes(ConsoleFast, type, MeantCase(type))
<1> DEFINE Left == {"array", "marshaler", "other"}
<1>1. DOMAIN ConsoleFast = 1 .. 11
  BY DEF ConsoleFast
<1>2. CASE type \notin Left
  <2>1. \E i \in 1 .. 11 : /\ ConsoleFast[i] = MeantCase(type)
                          /\ ConsoleFast[i] \in CasesOf(type)
                          /\ \A j \in 1 .. 11 : j < i => ConsoleFast[j] \notin CasesOf(type)
    BY <1>2 DEF ConsoleFast, MeantCase, CasesOf, Types
  <2> QED
    BY <1>1, <1>2, <2>1, TakesFirst
<1>3. CASE type \in Left
  BY <1>1, <1>3 DEF ConsoleFast, CasesOf, Matches
<1> QED
  BY <1>2, <1>3

LEMMA ConsoleValueTakes ==
  ASSUME NEW type \in Types
  PROVE  IF type \in {"trusted", "array", "marshaler", "other"}
         THEN Matches(ConsoleValue, type) = {} ELSE Takes(ConsoleValue, type, MeantCase(type))
<1> DEFINE Left == {"trusted", "array", "marshaler", "other"}
<1>1. DOMAIN ConsoleValue = 1 .. 10
  BY DEF ConsoleValue
<1>2. CASE type \notin Left
  <2>1. \E i \in 1 .. 10 : /\ ConsoleValue[i] = MeantCase(type)
                          /\ ConsoleValue[i] \in CasesOf(type)
                          /\ \A j \in 1 .. 10 : j < i => ConsoleValue[j] \notin CasesOf(type)
    BY <1>2 DEF ConsoleValue, MeantCase, CasesOf, Types
  <2> QED
    BY <1>1, <1>2, <2>1, TakesFirst
<1>3. CASE type \in Left
  BY <1>1, <1>3 DEF ConsoleValue, CasesOf, Matches
<1> QED
  BY <1>2, <1>3

LEMMA ConsoleStaticTakes ==
  ASSUME NEW type \in Types
  PROVE  IF type \in {"trusted", "array", "marshaler", "other"}
         THEN Matches(ConsoleStatic, type) = {} ELSE Takes(ConsoleStatic, type, MeantCase(type))
<1> DEFINE Left == {"trusted", "array", "marshaler", "other"}
<1>1. DOMAIN ConsoleStatic = 1 .. 10
  BY DEF ConsoleStatic
<1>2. CASE type \notin Left
  <2>1. \E i \in 1 .. 10 : /\ ConsoleStatic[i] = MeantCase(type)
                          /\ ConsoleStatic[i] \in CasesOf(type)
                          /\ \A j \in 1 .. 10 : j < i => ConsoleStatic[j] \notin CasesOf(type)
    BY <1>2 DEF ConsoleStatic, MeantCase, CasesOf, Types
  <2> QED
    BY <1>1, <1>2, <2>1, TakesFirst
<1>3. CASE type \in Left
  BY <1>1, <1>3 DEF ConsoleStatic, CasesOf, Matches
<1> QED
  BY <1>2, <1>3

\* writeJSONValuePlain takes a time and a duration by their String method.
ValueCase(type) == IF type \in {"time", "duration"} THEN "stringer" ELSE MeantCase(type)

LEMMA JSONValueTakes ==
  ASSUME NEW type \in Types
  PROVE  IF type \in {"array", "other"}
         THEN Matches(JSONValue, type) = {} ELSE Takes(JSONValue, type, ValueCase(type))
<1> DEFINE Left == {"array", "other"}
<1>1. DOMAIN JSONValue = 1 .. 13
  BY DEF JSONValue
<1>2. CASE type \notin Left
  <2>1. \E i \in 1 .. 13 : /\ JSONValue[i] = ValueCase(type)
                          /\ JSONValue[i] \in CasesOf(type)
                          /\ \A j \in 1 .. 13 : j < i => JSONValue[j] \notin CasesOf(type)
    BY <1>2 DEF JSONValue, MeantCase, CasesOf, Types, ValueCase
  <2> QED
    BY <1>1, <1>2, <2>1, TakesFirst
<1>3. CASE type \in Left
  BY <1>1, <1>3 DEF JSONValue, CasesOf, Matches
<1> QED
  BY <1>2, <1>3

-----------------------------------------------------------------------------
(* The chains. *)

\* A chain takes a value at its first switch that has a case for it.
LEMMA ChainTakes ==
  ASSUME NEW chain, NEW m \in Nat, DOMAIN chain = 1 .. m, NEW type, NEW case,
         \A n \in 1 .. m : \/ Takes(chain[n].cases, type, case)
                            \/ Matches(chain[n].cases, type) = {}
                            \/ \E k \in 1 .. m : k < n /\ Takes(chain[k].cases, type, case)
  PROVE  \/ /\ Taken(chain, type) = [by |-> "Marshal", case |-> "default"]
            /\ \A n \in 1 .. m : Matches(chain[n].cases, type) = {}
         \/ \E n \in 1 .. m :
               /\ Taken(chain, type) = [by |-> chain[n].name, case |-> case]
               /\ Matches(chain[n].cases, type) # {}
               /\ \A k \in 1 .. m : k < n => Matches(chain[k].cases, type) = {}
<1> DEFINE hits == {n \in DOMAIN chain : Matches(chain[n].cases, type) # {}}
<1>1. hits \in SUBSET (0 .. m) /\ hits \subseteq 1 .. m
  OBVIOUS
<1>2. \A n \in 1 .. m : n \in hits <=> Matches(chain[n].cases, type) # {}
  OBVIOUS
<1>3. Taken(chain, type) =
        IF hits = {} THEN [by |-> "Marshal", case |-> "default"]
        ELSE [by |-> chain[Min(hits)].name,
              case |-> chain[Min(hits)].cases[Min(Matches(chain[Min(hits)].cases, type))]]
  BY DEF Taken
<1> HIDE DEF hits
<1>4. CASE hits = {}
  BY <1>2, <1>3, <1>4
<1>5. CASE hits # {}
  <2>1. Min(hits) \in hits /\ \A y \in hits : Min(hits) <= y
    BY <1>1, <1>5, LeastPlace
  <2>2. PICK n : n = Min(hits)
    OBVIOUS
  <2>3. n \in 1 .. m /\ n \in hits /\ \A y \in hits : n <= y
    BY <1>1, <2>1, <2>2
  <2>4. \A k \in 1 .. m : k < n => Matches(chain[k].cases, type) = {}
    BY <1>2, <2>3
  <2>5. Takes(chain[n].cases, type, case)
    BY <1>2, <2>3, <2>4 DEF Takes
  <2>6. Taken(chain, type) = [by |-> chain[n].name,
                              case |-> chain[n].cases[Min(Matches(chain[n].cases, type))]]
    BY <1>3, <1>5, <2>2
  <2>7. Taken(chain, type) = [by |-> chain[n].name, case |-> case]
    BY <2>5, <2>6 DEF Takes
  <2> QED
    BY <1>2, <2>3, <2>4, <2>7
<1> QED
  BY <1>4, <1>5

LEMMA ChainOfTwo ==
  ASSUME NEW a, NEW b
  PROVE  DOMAIN << a, b >> = 1 .. 2 /\ << a, b >>[1] = a /\ << a, b >>[2] = b
OBVIOUS

LEMMA ChainOfThree ==
  ASSUME NEW x, NEW a, NEW b
  PROVE  LET c == << x >> \o << a, b >>
         IN  DOMAIN c = 1 .. 3 /\ c[1] = x /\ c[2] = a /\ c[3] = b
<1>1. << x >> \in Seq({x, a, b}) /\ << a, b >> \in Seq({x, a, b})
  OBVIOUS
<1> QED
  BY <1>1

LEMMA ChainOfFour ==
  ASSUME NEW x, NEW y, NEW a, NEW b
  PROVE  LET c == << x, y >> \o << a, b >>
         IN  DOMAIN c = 1 .. 4 /\ c[1] = x /\ c[2] = y /\ c[3] = a /\ c[4] = b
<1>1. << x, y >> \in Seq({x, y, a, b}) /\ << a, b >> \in Seq({x, y, a, b})
  OBVIOUS
<1> QED
  BY <1>1

\* What the end of every chain has no case for has none at all, but "default".
LEMMA TailTakes ==
  ASSUME NEW type \in Types
  PROVE  /\ \/ Takes(PTLog, type, MeantCase(type))
            \/ Matches(PTLog, type) = {} /\ Takes(JSONValue, type, MeantCase(type))
            \/ type = "other" /\ Matches(PTLog, type) = {} /\ Matches(JSONValue, type) = {}
         /\ Matches(PTLog, type) # {} => MeantCase(type) \notin {"stringer", "error", "bytes"}
<1>1. type \in {"time", "duration", "array"} => Takes(PTLog, type, MeantCase(type))
  BY PTLogTakes
<1>2. type \notin {"time", "duration", "array", "other"} => Takes(JSONValue, type, MeantCase(type))
  BY JSONValueTakes DEF ValueCase
<1>3. type = "other" => Matches(PTLog, type) = {} /\ Matches(JSONValue, type) = {}
  BY PTLogTakes, JSONValueTakes
<1>4. Takes(PTLog, type, MeantCase(type)) \/ Matches(PTLog, type) = {}
  BY PTLogTakes
<1>5. MeantCase(type) \in {"stringer", "error", "bytes"} =>
        type \in {"stringer", "error", "bytes", "jsonNumber", "stringerError", "stringerMarshaler"}
  BY DEF MeantCase
<1>6. MeantCase(type) \in {"stringer", "error", "bytes"} => Matches(PTLog, type) = {}
  BY <1>5, PTLogTakes
<1> QED
  BY <1>1, <1>2, <1>3, <1>4, <1>6

Reading == {"stringer", "error", "bytes"}

\* How a value is taken by a chain whose first switches have the name `first', and take
\* it if own is TRUE.
TakenBy(taken, type, own, first, last) ==
    /\ taken.case = MeantCase(type)
    /\ own => taken.by = first
    /\ ~own => taken.by \in {"PTLog", last, "Marshal"}
    /\ ~own /\ MeantCase(type) \in Reading => taken.by = last

LEMMA TwoTakes ==
  ASSUME NEW type \in Types, NEW last, NEW c,
         c = << Switch("PTLog", PTLog), Switch(last, JSONValue) >>
  PROVE  TakenBy(Taken(c, type), type, FALSE, "", last)
<1> DEFINE case == MeantCase(type)
<1>1. /\ DOMAIN c = 1 .. 2
      /\ c[1] = Switch("PTLog", PTLog) /\ c[2] = Switch(last, JSONValue)
  BY ChainOfTwo
<1>2. /\ c[1].cases = PTLog /\ c[1].name = "PTLog"
      /\ c[2].cases = JSONValue /\ c[2].name = last
  BY <1>1 DEF Switch
<1>3. \A n \in 1 .. 2 : \/ Takes(c[n].cases, type, case)
                        \/ Matches(c[n].cases, type) = {}
                        \/ \E k \in 1 .. 2 : k < n /\ Takes(c[k].cases, type, case)
  BY <1>2, TailTakes
<1>4. \/ /\ Taken(c, type) = [by |-> "Marshal", case |-> "default"]
         /\ \A n \in 1 .. 2 : Matches(c[n].cases, type) = {}
      \/ \E n \in 1 .. 2 :
               /\ Taken(c, type) = [by |-> c[n].name, case |-> case]
               /\ Matches(c[n].cases, type) # {}
               /\ \A k \in 1 .. 2 : k < n => Matches(c[k].cases, type) = {}
  <2>1. DOMAIN c = 1 .. 2 /\ 2 \in Nat
    BY <1>1
  <2> HIDE DEF case
  <2> QED
    BY ONLY <1>3, <2>1, ChainTakes
<1>5. CASE Taken(c, type) = [by |-> "Marshal", case |-> "default"]
           /\ \A n \in 1 .. 2 : Matches(c[n].cases, type) = {}
  <2>1. type = "other"
    BY <1>2, <1>5, TailTakes DEF Takes
  <2> QED
    BY <1>5, <2>1 DEF TakenBy, MeantCase, Reading
<1>6. ASSUME NEW n \in 1 .. 2, Taken(c, type) = [by |-> c[n].name, case |-> case],
             Matches(c[n].cases, type) # {}
      PROVE  TakenBy(Taken(c, type), type, FALSE, "", last)
  <2>1. n = 1 => case \notin Reading
    BY <1>2, <1>6, TailTakes DEF Reading
  <2>2. n = 1 \/ n = 2
    OBVIOUS
  <2> QED
    BY <1>2, <1>6, <2>1, <2>2 DEF TakenBy
<1> QED
  BY <1>4, <1>5, <1>6

LEMMA ThreeTakes ==
  ASSUME NEW type \in Types, NEW first, NEW switch, NEW last, NEW c,
         Takes(switch, type, MeantCase(type)) \/ Matches(switch, type) = {},
         c = << Switch(first, switch) >>
             \o << Switch("PTLog", PTLog), Switch(last, JSONValue) >>
  PROVE  TakenBy(Taken(c, type), type, Matches(switch, type) # {}, first, last)
<1> DEFINE case == MeantCase(type)
<1>1. /\ DOMAIN c = 1 .. 3 /\ c[1] = Switch(first, switch)
      /\ c[2] = Switch("PTLog", PTLog) /\ c[3] = Switch(last, JSONValue)
  BY ChainOfThree
<1>2. /\ c[1].cases = switch /\ c[1].name = first
      /\ c[2].cases = PTLog /\ c[2].name = "PTLog"
      /\ c[3].cases = JSONValue /\ c[3].name = last
  BY <1>1 DEF Switch
<1>3. \A n \in 1 .. 3 : \/ Takes(c[n].cases, type, case)
                        \/ Matches(c[n].cases, type) = {}
                        \/ \E k \in 1 .. 3 : k < n /\ Takes(c[k].cases, type, case)
  BY <1>2, TailTakes
<1>4. \/ /\ Taken(c, type) = [by |-> "Marshal", case |-> "default"]
         /\ \A n \in 1 .. 3 : Matches(c[n].cases, type) = {}
      \/ \E n \in 1 .. 3 :
               /\ Taken(c, type) = [by |-> c[n].name, case |-> case]
               /\ Matches(c[n].cases, type) # {}
               /\ \A k \in 1 .. 3 : k < n => Matches(c[k].cases, type) = {}
  <2>1. DOMAIN c = 1 .. 3 /\ 3 \in Nat
    BY <1>1
  <2> HIDE DEF case
  <2> QED
    BY ONLY <1>3, <2>1, ChainTakes
<1>5. CASE Taken(c, type) = [by |-> "Marshal", case |-> "default"]
           /\ \A n \in 1 .. 3 : Matches(c[n].cases, type) = {}
  <2>1. type = "other" /\ Matches(switch, type) = {}
    BY <1>2, <1>5, TailTakes DEF Takes
  <2> QED
    BY <1>5, <2>1 DEF TakenBy, MeantCase, Reading
<1>6. ASSUME NEW n \in 1 .. 3, Taken(c, type) = [by |-> c[n].name, case |-> case],
             Matches(c[n].cases, type) # {},
             \A k \in 1 .. 3 : k < n => Matches(c[k].cases, type) = {}
      PROVE  TakenBy(Taken(c, type), type, Matches(switch, type) # {}, first, last)
  <2>1. n = 2 => case \notin Reading
    BY <1>2, <1>6, TailTakes DEF Reading
  <2>2. n = 1 \/ n = 2 \/ n = 3
    OBVIOUS
  <2>3. Matches(switch, type) # {} <=> n = 1
    BY <1>2, <1>6, <2>2
  <2> QED
    BY <1>2, <1>6, <2>1, <2>2, <2>3 DEF TakenBy
<1> QED
  BY <1>4, <1>5, <1>6

LEMMA FourTakes ==
  ASSUME NEW type \in Types, NEW first, NEW switch, NEW second, NEW last, NEW c,
         Takes(switch, type, MeantCase(type)) \/ Matches(switch, type) = {},
         Takes(second, type, MeantCase(type)) \/ Matches(second, type) = {},
         c = << Switch(first, switch), Switch(first, second) >>
             \o << Switch("PTLog", PTLog), Switch(last, JSONValue) >>
  PROVE  TakenBy(Taken(c, type), type,
                 Matches(switch, type) # {} \/ Matches(second, type) # {}, first, last)
<1> DEFINE case == MeantCase(type)
           own == Matches(switch, type) # {} \/ Matches(second, type) # {}
<1>1. /\ DOMAIN c = 1 .. 4 /\ c[1] = Switch(first, switch) /\ c[2] = Switch(first, second)
      /\ c[3] = Switch("PTLog", PTLog) /\ c[4] = Switch(last, JSONValue)
  BY ChainOfFour
<1>2. /\ c[1].cases = switch /\ c[1].name = first
      /\ c[2].cases = second /\ c[2].name = first
      /\ c[3].cases = PTLog /\ c[3].name = "PTLog"
      /\ c[4].cases = JSONValue /\ c[4].name = last
  BY <1>1 DEF Switch
<1>3. \A n \in 1 .. 4 : \/ Takes(c[n].cases, type, case)
                        \/ Matches(c[n].cases, type) = {}
                        \/ \E k \in 1 .. 4 : k < n /\ Takes(c[k].cases, type, case)
  BY <1>2, TailTakes
<1>4. \/ /\ Taken(c, type) = [by |-> "Marshal", case |-> "default"]
         /\ \A n \in 1 .. 4 : Matches(c[n].cases, type) = {}
      \/ \E n \in 1 .. 4 :
               /\ Taken(c, type) = [by |-> c[n].name, case |-> case]
               /\ Matches(c[n].cases, type) # {}
               /\ \A k \in 1 .. 4 : k < n => Matches(c[k].cases, type) = {}
  <2>1. DOMAIN c = 1 .. 4 /\ 4 \in Nat
    BY <1>1
  <2> HIDE DEF case
  <2> QED
    BY ONLY <1>3, <2>1, ChainTakes
<1>5. CASE Taken(c, type) = [by |-> "Marshal", case |-> "default"]
           /\ \A n \in 1 .. 4 : Matches(c[n].cases, type) = {}
  <2>1. type = "other" /\ ~own
    BY <1>2, <1>5, TailTakes DEF Takes
  <2> QED
    BY <1>5, <2>1 DEF TakenBy, MeantCase, Reading
<1>6. ASSUME NEW n \in 1 .. 4, Taken(c, type) = [by |-> c[n].name, case |-> case],
             Matches(c[n].cases, type) # {},
             \A k \in 1 .. 4 : k < n => Matches(c[k].cases, type) = {}
      PROVE  TakenBy(Taken(c, type), type, own, first, last)
  <2>1. n = 3 => case \notin Reading
    BY <1>2, <1>6, TailTakes DEF Reading
  <2>2. n = 1 \/ n = 2 \/ n = 3 \/ n = 4
    OBVIOUS
  <2>3. own <=> n \in {1, 2}
    BY <1>2, <1>6, <2>2
  <2> HIDE DEF own
  <2> QED
    BY <1>2, <1>6, <2>1, <2>2, <2>3 DEF TakenBy
<1> QED
  BY <1>4, <1>5, <1>6

Passes == {"static", "fast", "slow"}

\* Every switch of a chain that has a case for a value has the same one first, and it is
\* the one the value's type is meant for: stringers before errors and marshalers, times
\* and durations before stringers.  Which switch it is tells how strings are escaped.
THEOREM SwitchesAgree ==
  ASSUME NEW type \in Types, NEW json \in BOOLEAN, NEW colour \in BOOLEAN, NEW where \in Passes
  PROVE  LET taken == Taken(Chain(json, colour, where), type)
             left  == {"array", "marshaler", "other"}
                      \cup (IF where = "static" THEN {"trusted"} ELSE {})
         IN  /\ taken.case = MeantCase(type)
             /\ json => /\ taken.by \in {"JSON", "PTLog", "JSONValue", "Marshal"}
                        /\ taken.case \in Reading => taken.by \in {"JSON", "JSONValue"}
             /\ ~json /\ type \notin left =>
                   taken.by = IF where = "static" THEN "ConsoleStatic" ELSE "Console"
             /\ ~json /\ type \in left =>
                   taken.by \in {"PTLog", "JSONValue", "JSONColored", "Marshal"}
<1> DEFINE c == Chain(json, colour, where)
           tail(last) == << Switch("PTLog", PTLog), Switch(last, JSONValue) >>
<1>1. JSONTail = tail("JSONValue") /\ ColoredTail = tail("JSONColored")
  BY DEF JSONTail, ColoredTail, PTLogColored, JSONValueColored
<1>2. CASE json /\ colour
  <2>1. c = << Switch("JSON", JSONColor) >> \o tail("JSONValue")
    BY <1>1, <1>2 DEF Chain
  <2> HIDE DEF c
  <2>2. TakenBy(Taken(c, type), type, Matches(JSONColor, type) # {}, "JSON", "JSONValue")
    BY <2>1, JSONColorTakes, ThreeTakes
  <2> QED
    BY <1>2, <2>2 DEF TakenBy, c
<1>3. CASE json /\ ~colour /\ where = "static"
  <2>1. c = tail("JSONValue")
    BY <1>1, <1>3 DEF Chain
  <2> HIDE DEF c
  <2>2. TakenBy(Taken(c, type), type, FALSE, "", "JSONValue")
    BY <2>1, TwoTakes
  <2> QED
    BY <1>3, <2>2 DEF TakenBy, c
<1>4. CASE json /\ ~colour /\ where = "fast"
  <2>1. c = << Switch("JSON", JSONInline), Switch("JSON", JSONFast) >> \o tail("JSONValue")
    BY <1>1, <1>4 DEF Chain
  <2> HIDE DEF c
  <2>2. TakenBy(Taken(c, type), type,
                Matches(JSONInline, type) # {} \/ Matches(JSONFast, type) # {},
                "JSON", "JSONValue")
    BY <2>1, JSONInlineTakes, JSONFastTakes, FourTakes
  <2> QED
    BY <1>4, <2>2 DEF TakenBy, c
<1>5. CASE json /\ ~colour /\ where = "slow"
  <2>1. c = << Switch("JSON", JSONFast) >> \o tail("JSONValue")
    BY <1>1, <1>5 DEF Chain
  <2> HIDE DEF c
  <2>2. TakenBy(Taken(c, type), type, Matches(JSONFast, type) # {}, "JSON", "JSONValue")
    BY <2>1, JSONFastTakes, ThreeTakes
  <2> QED
    BY <1>5, <2>2 DEF TakenBy, c
<1>6. CASE ~json /\ where = "static"
  <2>1. PICK last \in {"JSONValue", "JSONColored"} :
            c = << Switch("ConsoleStatic", ConsoleStatic) >> \o tail(last)
    BY <1>1, <1>6 DEF Chain, ConsoleStaticColor
  <2> HIDE DEF c
  <2>2. TakenBy(Taken(c, type), type, Matches(ConsoleStatic, type) # {}, "ConsoleStatic", last)
    BY <2>1, ConsoleStaticTakes, ThreeTakes
  <2>3. Matches(ConsoleStatic, type) # {} <=> type \notin {"trusted", "array", "marshaler", "other"}
    BY ConsoleStaticTakes DEF Takes
  <2> QED
    BY <1>6, <2>2, <2>3 DEF TakenBy, c
<1>7. CASE ~json /\ where # "static" /\ colour
  <2>1. c = << Switch("Console", ConsoleInline) >> \o tail("JSONColored")
    BY <1>1, <1>7 DEF Chain, ConsoleColorInline
  <2> HIDE DEF c
  <2>2. TakenBy(Taken(c, type), type, Matches(ConsoleInline, type) # {}, "Console", "JSONColored")
    BY <2>1, ConsoleInlineTakes, ThreeTakes
  <2>3. Matches(ConsoleInline, type) # {} <=> type \notin {"array", "marshaler", "other"}
    BY ConsoleInlineTakes DEF Takes
  <2> QED
    BY <1>7, <2>2, <2>3 DEF TakenBy, c
<1>8. CASE ~json /\ where # "static" /\ ~colour
  <2>1. PICK switch \in {ConsoleInline, ConsoleFast} :
            c = << Switch("Console", switch), Switch("Console", ConsoleValue) >>
                \o tail("JSONValue")
    BY <1>1, <1>8 DEF Chain, Passes
  <2> HIDE DEF c
  <2>2. Takes(switch, type, MeantCase(type)) \/ Matches(switch, type) = {}
    BY <2>1, ConsoleInlineTakes, ConsoleFastTakes
  <2>3. TakenBy(Taken(c, type), type,
                Matches(switch, type) # {} \/ Matches(ConsoleValue, type) # {},
                "Console", "JSONValue")
    BY <2>1, <2>2, ConsoleValueTakes, FourTakes
  <2>4. Matches(switch, type) # {} <=> type \notin {"array", "marshaler", "other"}
    BY <2>1, ConsoleInlineTakes, ConsoleFastTakes DEF Takes
  <2>5. Matches(ConsoleValue, type) # {} => type \notin {"array", "marshaler", "other"}
    BY ConsoleValueTakes
  <2> QED
    BY <1>8, <2>3, <2>4, <2>5 DEF TakenBy, c
<1> QED
  BY <1>2, <1>3, <1>4, <1>5, <1>6, <1>7, <1>8 DEF Passes

-----------------------------------------------------------------------------
(* Tokens. *)

Token == {"raw", "esc", "quote", "punct", "null", "nil", "bool", "num", "float", "time",
          "duration", "json"} \X Nat

\* The tokens are those of the bytes, each as it is or escaped.
Spells(tokens, s) ==
    /\ tokens = [i \in 1 .. Len(s) |-> tokens[i]]
    /\ \A i \in 1 .. Len(s) : tokens[i] = Raw(s[i]) \/ tokens[i] = Esc(s[i])

LEMMA SpelledType ==
  ASSUME NEW s \in Seq(Nat), NEW tokens, Spells(tokens, s)
  PROVE  /\ tokens \in Seq(Token) /\ Len(tokens) = Len(s) /\ DOMAIN tokens = 1 .. Len(s)
         /\ \A i \in DOMAIN tokens : tokens[i][1] # "quote" /\ tokens[i][1] # "time"
<1>1. PICK n \in Nat : n = Len(s)
  OBVIOUS
<1>2. ASSUME NEW i \in 1 .. n
      PROVE  tokens[i] \in Token /\ tokens[i][1] # "quote" /\ tokens[i][1] # "time"
  <2>1. s[i] \in Nat
    BY <1>1
  <2>2. tokens[i] = Raw(s[i]) \/ tokens[i] = Esc(s[i])
    BY <1>1 DEF Spells
  <2>3. \A b \in Nat : /\ Raw(b) \in Token /\ Raw(b)[1] = "raw"
                       /\ Esc(b) \in Token /\ Esc(b)[1] = "esc"
    BY DEF Raw, Esc, Token
  <2> QED
    BY <2>1, <2>2, <2>3
<1>3. tokens = [i \in 1 .. n |-> tokens[i]]
  BY <1>1 DEF Spells
<1>4. tokens \in [1 .. n -> Token]
  BY ONLY <1>2, <1>3
<1>5. tokens \in Seq(Token) /\ Len(tokens) = n /\ DOMAIN tokens = 1 .. n
  BY ONLY <1>1, <1>4
<1> QED
  BY <1>1, <1>2, <1>5

\* All ways to write a string spell it: as it is, looked up or scanned.
LEMMA WaysSpell ==
  ASSUME NEW s \in Seq(Nat)
  PROVE  /\ Spells(Plain(s), s) /\ Spells(JSONByTable(s), s) /\ Spells(JSONEscaped(s), s)
         /\ Spells(ConsoleEscaped(s), s)
<1>1. Spells(Plain(s), s)
  BY DEF Spells, Plain
<1>2. Spells(JSONByTable(s), s)
  BY DEF Spells, JSONByTable
<1>3. Spells(JSONEscaped(s), s)
  <2>1. PICK n \in Nat : n = Len(s)
    OBVIOUS
  <2>2. PICK t : t = JSONEscaped(s)
    OBVIOUS
  <2>3. t \in Seq(ByteTokens) /\ Len(t) = n
    BY <2>1, <2>2, ScannedSays DEF SaysAll, JSONEscaped
  <2>4. t = [i \in 1 .. n |-> t[i]]
    BY <2>1, <2>3
  <2>5. \A i \in 1 .. n : t[i] = Raw(s[i]) \/ t[i] = Esc(s[i])
    BY <2>1, <2>2, JSONScanIsSound
  <2> QED
    BY <2>1, <2>2, <2>4, <2>5 DEF Spells
<1>4. Spells(MessageByTable(s), s)
  BY DEF Spells, MessageByTable
<1> QED
  BY <1>1, <1>2, <1>3, <1>4, ConsoleScanIsExact

\* ... and none leaves a byte raw that has to be escaped, if it is one for such strings.
LEMMA WaysSound ==
  ASSUME NEW s \in Seq(Nat)
  PROVE  /\ JSONSound(JSONByTable(s)) /\ JSONSound(JSONEscaped(s))
         /\ ConsoleSound(ConsoleEscaped(s)) /\ ConsoleSound(MessageByTable(s))
         /\ JSONClean(s) => JSONSound(Plain(s))
         /\ ConsoleClean(s) => ConsoleSound(Plain(s))
<1>1. JSONSound(JSONByTable(s))
  BY DEF JSONSound, JSONByTable, Raw, Esc
<1>2. JSONSound(JSONEscaped(s))
  <2>1. DOMAIN JSONEscaped(s) = 1 .. Len(s)
    BY WaysSpell, SpelledType
  <2> SUFFICES ASSUME NEW i \in 1 .. Len(s), JSONEscaped(s)[i][1] = "raw"
               PROVE  ~JSONNeedsEscape(JSONEscaped(s)[i][2])
    BY <2>1 DEF JSONSound
  <2>2. JSONEscaped(s)[i] = Raw(s[i]) /\ ~JSONNeedsEscape(s[i])
    BY JSONScanIsSound DEF Raw, Esc
  <2> QED
    BY <2>2 DEF Raw
<1>3. ConsoleSound(MessageByTable(s))
  BY DEF ConsoleSound, MessageByTable, Raw, Esc
<1>4. JSONClean(s) => JSONSound(Plain(s))
  BY DEF JSONSound, JSONClean, Plain, Raw
<1>5. ConsoleClean(s) => ConsoleSound(Plain(s))
  BY DEF ConsoleSound, ConsoleClean, Plain, Raw
<1> QED
  BY <1>1, <1>2, <1>3, <1>4, <1>5, ConsoleScanIsExact

LEMMA ConsoleIsJSON ==
  ASSUME NEW tokens, ConsoleSound(tokens)
  PROVE  JSONSound(tokens)
  BY DEF ConsoleSound, JSONSound, ConsoleNeedsEscape

LEMMA QuotedParts ==
  ASSUME NEW tokens \in Seq(Token)
  PROVE  LET q == Quoted(tokens)
             n == Len(tokens)
         IN  /\ q \in Seq(Token) /\ Len(q) = n + 2 /\ DOMAIN q = 1 .. n + 2
             /\ q[1] = <<"quote", 0>> /\ q[n + 2] = <<"quote", 0>>
             /\ \A i \in 1 .. n : q[i + 1] = tokens[i]
             /\ q # << >> /\ Head(q) = <<"quote", 0>>
<1> DEFINE mark == << <<"quote", 0>> >>
<1>1. mark \in Seq(Token) /\ Len(mark) = 1 /\ mark[1] = <<"quote", 0>>
  BY DEF Token
<1>2. Quoted(tokens) = (mark \o tokens) \o mark
  BY DEF Quoted
<1> HIDE DEF mark
<1>3. PICK n \in Nat : n = Len(tokens)
  OBVIOUS
<1>4. PICK a : a = mark \o tokens
  OBVIOUS
<1>5. /\ a \in Seq(Token) /\ Len(a) = n + 1 /\ a[1] = <<"quote", 0>>
      /\ \A i \in 1 .. n : a[i + 1] = tokens[i]
  <2>1. Len(a) = 1 + n /\ \A i \in 1 .. 1 + n : a[i] = IF i <= 1 THEN mark[i] ELSE tokens[i - 1]
    BY ONLY <1>1, <1>3, <1>4, tokens \in Seq(Token), n \in Nat, ConcatType
  <2>2. a \in Seq(Token) /\ \A i \in 1 .. n : i + 1 \in 1 .. 1 + n /\ ~(i + 1 <= 1) /\ (i + 1) - 1 = i
    BY <1>1, <1>4
  <2> QED
    BY <1>1, <2>1, <2>2
<1>6. PICK q : q = a \o mark
  OBVIOUS
<1>7. /\ q \in Seq(Token) /\ Len(q) = n + 2 /\ q[n + 2] = <<"quote", 0>>
      /\ \A i \in 1 .. n + 1 : q[i] = a[i]
  <2>1. /\ Len(q) = (n + 1) + 1
        /\ \A i \in 1 .. (n + 1) + 1 : q[i] = IF i <= n + 1 THEN a[i] ELSE mark[i - (n + 1)]
    <3>1. PICK k \in Nat : k = n + 1
      OBVIOUS
    <3>2. Len(q) = k + 1 /\ \A i \in 1 .. k + 1 : q[i] = IF i <= k THEN a[i] ELSE mark[i - k]
      <4>1. Len(a) = k
        BY <1>5, <3>1
      <4> QED
        <5>1. a \in Seq(Token) /\ mark \in Seq(Token)
          BY <1>1, <1>5
        <5>2. /\ Len(a \o mark) = Len(a) + Len(mark)
              /\ \A i \in 1 .. Len(a) + Len(mark) :
                   (a \o mark)[i] = IF i <= Len(a) THEN a[i] ELSE mark[i - Len(a)]
          BY ONLY <5>1, ConcatType
        <5>3. Len(mark) = 1
          BY <1>1
        <5> QED
          BY ONLY <4>1, <5>2, <5>3, <1>6
    <3> QED
      BY <3>1, <3>2
  <2>2. q \in Seq(Token) /\ (n + 2) - (n + 1) = 1 /\ ~(n + 2 <= n + 1)
    BY <1>1, <1>5, <1>6
  <2> QED
    BY <1>1, <2>1, <2>2
<1>8. DOMAIN q = 1 .. n + 2 /\ q # << >> /\ Head(q) = q[1]
  BY <1>7
<1>9. q[1] = <<"quote", 0>> /\ \A i \in 1 .. n : q[i + 1] = tokens[i]
  BY <1>5, <1>7
<1>10. Quoted(tokens) = q
  BY <1>2, <1>4, <1>6
<1> QED
  BY ONLY <1>3, <1>7, <1>8, <1>9, <1>10

-----------------------------------------------------------------------------
(* Reading tokens back. *)

LEMMA UnescapedSpelled ==
  ASSUME NEW s \in Seq(Nat), NEW tokens, Spells(tokens, s)
  PROVE  Unescaped(tokens) = Plain(s)
<1>1. DOMAIN tokens = 1 .. Len(s)
  BY SpelledType
<1>2. ASSUME NEW i \in 1 .. Len(s)
      PROVE  (CASE tokens[i][1] = "esc"  -> Raw(tokens[i][2])
                [] tokens[i][1] = "time" -> <<"time", KeyOf("time", tokens[i][2])>>
                [] OTHER                 -> tokens[i]) = Raw(s[i])
  BY DEF Spells, Raw, Esc
<1> QED
  BY <1>1, <1>2 DEF Unescaped, Plain

LEMMA ContentQuoted ==
  ASSUME NEW tokens \in Seq(Token)
  PROVE  Content(Quoted(tokens)) = tokens
<1>1. PICK n \in Nat : n = Len(tokens)
  OBVIOUS
<1>2. PICK q : q = Quoted(tokens)
  OBVIOUS
<1>3. /\ q \in Seq(Token) /\ Len(q) = n + 2 /\ q # << >> /\ Head(q)[1] = "quote"
      /\ \A i \in 1 .. n : q[i + 1] = tokens[i]
  BY <1>1, <1>2, QuotedParts
<1>4. Content(q) = SubSeq(q, 2, n + 1)
  BY <1>3 DEF Content
<1>5. PICK t : t = SubSeq(q, 2, n + 1)
  OBVIOUS
<1>6. t \in Seq(Token) /\ Len(t) = n /\ \A i \in 1 .. n : t[i] = q[i + 1]
  BY <1>1, <1>3, <1>5
<1>7. t = tokens
  BY <1>1, <1>3, <1>6, SeqEqual
<1> QED
  BY <1>2, <1>4, <1>5, <1>7

LEMMA ContentBare ==
  ASSUME NEW tokens \in Seq(Token), tokens # << >> => tokens[1][1] # "quote"
  PROVE  Content(tokens) = tokens
<1>1. tokens # << >> => Head(tokens) = tokens[1]
  OBVIOUS
<1> QED
  BY <1>1 DEF Content

LEMMA ContentSpelled ==
  ASSUME NEW s \in Seq(Nat), NEW tokens, Spells(tokens, s)
  PROVE  Content(tokens) = tokens
<1>1. tokens \in Seq(Token) /\ \A i \in DOMAIN tokens : tokens[i][1] # "quote"
  BY SpelledType
<1>2. tokens # << >> => 1 \in DOMAIN tokens
  BY <1>1
<1> QED
  BY <1>1, <1>2, ContentBare

\* What is read back token by token.
ReadToken(t) ==
    CASE t[1] = "esc"  -> Raw(t[2])
      [] t[1] = "time" -> <<"time", KeyOf("time", t[2])>>
      [] OTHER         -> t

LEMMA KeyType == \A id \in Nat : KeyOf("time", id) \in Nat
<1>1. NanoWidth \in Nat \ {0}
  BY SessionSizes
<1>2. 2 * NanoWidth \in Nat \ {0}
  BY <1>1
<1>3. \A id \in Nat, m \in Nat \ {0} : id % m \in Nat
  OBVIOUS
<1> QED
  BY <1>2, <1>3 DEF KeyOf

LEMMA ReadTokenType ==
  ASSUME NEW t \in Token
  PROVE  ReadToken(t) \in Token
<1>1. t[2] \in Nat
  BY DEF Token
<1>2. \A n \in Nat : Raw(n) \in Token /\ <<"time", n>> \in Token
  BY DEF Raw, Token
<1>3. KeyOf("time", t[2]) \in Nat
  BY <1>1, KeyType
<1> QED
  BY <1>1, <1>2, <1>3 DEF ReadToken

LEMMA UnescapedIs ==
  ASSUME NEW tokens \in Seq(Token)
  PROVE  /\ Unescaped(tokens) \in Seq(Token) /\ Len(Unescaped(tokens)) = Len(tokens)
         /\ \A i \in 1 .. Len(tokens) : Unescaped(tokens)[i] = ReadToken(tokens[i])
<1>1. PICK n \in Nat : n = Len(tokens) /\ DOMAIN tokens = 1 .. n
  OBVIOUS
<1>2. Unescaped(tokens) = [i \in 1 .. n |-> ReadToken(tokens[i])]
  BY <1>1 DEF Unescaped, ReadToken
<1>3. \A i \in 1 .. n : ReadToken(tokens[i]) \in Token
  BY <1>1, ReadTokenType
<1>4. PICK u : u = [i \in 1 .. n |-> ReadToken(tokens[i])]
  OBVIOUS
<1>5. u \in Seq(Token) /\ Len(u) = n /\ \A i \in 1 .. n : u[i] = ReadToken(tokens[i])
  BY <1>3, <1>4
<1> QED
  BY <1>1, <1>2, <1>4, <1>5

LEMMA UnescapedQuoted ==
  ASSUME NEW tokens \in Seq(Token)
  PROVE  Unescaped(Quoted(tokens)) = Quoted(Unescaped(tokens))
<1>1. PICK n \in Nat : n = Len(tokens)
  OBVIOUS
<1>2. PICK q : q = Quoted(tokens)
  OBVIOUS
<1>3. /\ q \in Seq(Token) /\ Len(q) = n + 2
      /\ q[1] = <<"quote", 0>> /\ q[n + 2] = <<"quote", 0>>
      /\ \A i \in 1 .. n : q[i + 1] = tokens[i]
  BY <1>1, <1>2, QuotedParts
<1>4. PICK u : u = Unescaped(tokens)
  OBVIOUS
<1>5. u \in Seq(Token) /\ Len(u) = n /\ \A i \in 1 .. n : u[i] = ReadToken(tokens[i])
  BY <1>1, <1>4, UnescapedIs
<1>6. PICK r : r = Quoted(u)
  OBVIOUS
<1>7. /\ r \in Seq(Token) /\ Len(r) = n + 2
      /\ r[1] = <<"quote", 0>> /\ r[n + 2] = <<"quote", 0>>
      /\ \A i \in 1 .. n : r[i + 1] = u[i]
  BY <1>5, <1>6, QuotedParts
<1>8. PICK v : v = Unescaped(q)
  OBVIOUS
<1>9. v \in Seq(Token) /\ Len(v) = n + 2 /\ \A i \in 1 .. n + 2 : v[i] = ReadToken(q[i])
  BY <1>3, <1>8, UnescapedIs
<1>10. ReadToken(<<"quote", 0>>) = <<"quote", 0>>
  BY DEF ReadToken
<1>11. ASSUME NEW i \in 1 .. n + 2 PROVE v[i] = r[i]
  <2>1. CASE i = 1 \/ i = n + 2
    BY <1>3, <1>7, <1>9, <1>10, <2>1
  <2>2. CASE i # 1 /\ i # n + 2
    <3>1. PICK j \in 1 .. n : i = j + 1
      <4>1. i - 1 \in 1 .. n /\ i = (i - 1) + 1
        BY <2>2
      <4> QED
        BY <4>1
    <3>2. v[i] = ReadToken(q[j + 1]) /\ q[j + 1] = tokens[j] /\ r[i] = u[j]
      BY <1>3, <1>7, <1>9, <3>1
    <3> QED
      BY <1>5, <3>2
  <2> QED
    BY <2>1, <2>2
<1>12. v = r
  BY <1>7, <1>9, <1>11, SeqEqual
<1> QED
  BY <1>2, <1>4, <1>6, <1>8, <1>12

LEMMA ReadOne ==
  ASSUME NEW t \in Token
  PROVE  /\ << t >> \in Seq(Token)
         /\ Unescaped(<< t >>) = << ReadToken(t) >>
         /\ t[1] # "quote" => Content(<< t >>) = << t >>
         /\ t[1] \notin {"esc", "time"} => ReadToken(t) = t
<1>1. << t >> \in Seq(Token) /\ DOMAIN << t >> = 1 .. 1 /\ << t >>[1] = t
  OBVIOUS
<1>2. Unescaped(<< t >>) = << ReadToken(t) >>
  BY <1>1 DEF Unescaped, ReadToken
<1>3. t[1] # "quote" => Content(<< t >>) = << t >>
  BY <1>1, ContentBare
<1> QED
  BY <1>1, <1>2, <1>3 DEF ReadToken

-----------------------------------------------------------------------------
(* What is printed for a value. *)

\* The literals that the caches hold are numbers.
Numbered == \A kind \in Kinds : \A s \in 0 .. Slots - 1 : caches[kind][s].text \in Nat

Boolean == config.json \in BOOLEAN /\ config.colour \in BOOLEAN

LEMMA LiteralIs ==
  ASSUME CachesOwn, Numbered, NEW kind \in Kinds \cup {"none"}, NEW id \in Nat
  PROVE  /\ LiteralOf(kind, id) \in Nat
         /\ kind # "time" => LiteralOf(kind, id) = id
         /\ kind \in {"time", "none"} =>
               KeyOf("time", LiteralOf(kind, id)) = KeyOf("time", id)
<1>1. CASE kind = "none" \/ Holding(kind, id) = {}
  <2>1. LiteralOf(kind, id) = id
    BY <1>1 DEF LiteralOf
  <2> QED
    BY <2>1
<1>2. CASE kind # "none" /\ Holding(kind, id) # {}
  <2> DEFINE s == CHOOSE s \in Holding(kind, id) : TRUE
  <2>1. s \in Holding(kind, id)
    BY <1>2
  <2>2. LiteralOf(kind, id) = caches[kind][s].text
    BY <1>2 DEF LiteralOf
  <2> HIDE DEF s
  <2>3. s \in 0 .. Slots - 1
    BY <2>1 DEF Holding
  <2>4. LiteralOf(kind, id) \in Nat
    BY <1>2, <2>2, <2>3 DEF Numbered
  <2> QED
    BY <1>2, <2>4, LiteralHasKey
<1> QED
  BY <1>1, <1>2

LEMMA SeenOne ==
  ASSUME NEW k \in Token, k[1] \notin {"esc", "quote"}
  PROVE  Seen(<< k >>) = << ReadToken(k) >> /\ (k[1] # "time" => Seen(<< k >>) = << k >>)
  BY ReadOne DEF Seen

LEMMA SeenQuoted ==
  ASSUME NEW tokens \in Seq(Token)
  PROVE  Seen(Quoted(tokens)) = IF config.json THEN Quoted(Unescaped(tokens))
                                ELSE Unescaped(tokens)
  BY ContentQuoted, UnescapedQuoted DEF Seen

\* writeConsoleStringPlain and the three like it.
LEMMA ConsoleStringIs ==
  ASSUME NEW s \in Seq(Nat)
  PROVE  \E x : /\ Spells(x, s) /\ ConsoleSound(x)
                /\ \/ ConsoleString(s) = Quoted(x)
                   \/ ConsoleString(s) = x /\ \A i \in DOMAIN x : x[i] # Raw(Space)
<1>1. CASE NeedsQuote(s)
  BY <1>1, WaysSpell, WaysSound DEF ConsoleString
<1>2. CASE ~NeedsQuote(s)
  <2>1. \A i \in 1 .. Len(s) : ~ConsoleByteUnsafe(s[i])
    BY <1>2, QuoteIsExact
  <2>2. ConsoleClean(s)
    BY <2>1 DEF ConsoleClean, ConsoleByteUnsafe
  <2>3. \A i \in 1 .. Len(s) : Plain(s)[i] # Raw(Space)
    BY <2>1 DEF Plain, Raw, ConsoleByteUnsafe
  <2>4. DOMAIN Plain(s) = 1 .. Len(s)
    BY DEF Plain
  <2> QED
    BY <1>2, <2>2, <2>3, <2>4, WaysSpell, WaysSound DEF ConsoleString
<1> QED
  BY <1>1, <1>2

\* A string, whatever its type, is spelled: quoted in JSON, on the console quoted if it
\* has to be.
LEMMA TextPrinted ==
  ASSUME Boolean, NEW v \in Passable, v.type \in Text, NEW where \in Passes,
         where = "static" => v \in Loggable
  PROVE  \E x : /\ Spells(x, v.str) /\ JSONSound(x)
                /\ config.json => Tokens(v, Where(where)) = Quoted(x)
                /\ ~config.json =>
                      /\ ConsoleSound(x)
                      /\ \/ Tokens(v, Where(where)) = Quoted(x)
                         \/ /\ Tokens(v, Where(where)) = x
                            /\ \A i \in DOMAIN x : x[i] # Raw(Space)
<1> DEFINE s == v.str
           case == MeantCase(v.type)
<1>1. v.type \in Types /\ s \in Seq(Nat) /\ (v.type = "trusted" => JSONClean(s))
  BY PassableParts
<1>2. PICK taken : taken = Taken(Where(where), v.type)
  OBVIOUS
<1>3. /\ taken.case = case
      /\ config.json => /\ taken.by \in {"JSON", "PTLog", "JSONValue", "Marshal"}
                        /\ case \in Reading => taken.by \in {"JSON", "JSONValue"}
      /\ ~config.json /\ ~(where = "static" /\ v.type = "trusted") =>
            taken.by \in {"Console", "ConsoleStatic"}
      /\ ~config.json /\ where = "static" /\ v.type = "trusted" =>
            taken.by \in {"PTLog", "JSONValue", "JSONColored", "Marshal"}
  BY <1>1, <1>2, SwitchesAgree DEF Where, Boolean, Text
<1>4. case \in {"trusted", "string"} \cup Reading /\ (case = "trusted" <=> v.type = "trusted")
  BY DEF MeantCase, Text, Reading
<1>5. PICK literal : Tokens(v, Where(where)) = Printed(taken, v, literal, config.asNull)
  BY <1>2 DEF Tokens
<1> HIDE DEF s, case
<1>6. Tokens(v, Where(where)) = PrintedScalar(taken, v, literal, config.asNull)
  BY <1>3, <1>4, <1>5 DEF Printed, Reading
<1>7. CASE config.json
  <2>1. taken.by \notin {"Console", "ConsoleStatic"}
    BY <1>3, <1>7
  <2>2. CASE case = "trusted"
    <3>1. PrintedScalar(taken, v, literal, config.asNull) = Quoted(Plain(s))
      BY <1>3, <2>1, <2>2 DEF PrintedScalar, s
    <3> QED
      BY <1>1, <1>4, <1>6, <1>7, <2>2, <3>1, WaysSpell, WaysSound DEF s
  <2>3. CASE case = "string"
    <3>1. PrintedScalar(taken, v, literal, config.asNull) = Quoted(JSONEscaped(s))
      BY <1>3, <2>1, <2>3 DEF PrintedScalar, s
    <3> QED
      BY <1>1, <1>6, <1>7, <3>1, WaysSpell, WaysSound DEF s
  <2>4. CASE case \in Reading
    <3>1. PrintedScalar(taken, v, literal, config.asNull) = JSONText(taken.by, s)
      BY <1>3, <2>1, <2>4 DEF PrintedScalar, s, Reading
    <3>2. taken.by = "JSON" \/ taken.by = "JSONValue"
      BY <1>3, <1>7, <2>4
    <3>3. CASE taken.by = "JSON" /\ TrustedASCII(s)
      <4>1. JSONClean(s) /\ JSONText(taken.by, s) = Quoted(Plain(s))
        BY <1>1, <3>3, SafeIsClean DEF JSONText
      <4> QED
        BY <1>1, <1>6, <1>7, <3>1, <4>1, WaysSpell, WaysSound DEF s
    <3>4. CASE taken.by = "JSON" /\ ~TrustedASCII(s)
      <4>1. JSONText(taken.by, s) = Quoted(JSONEscaped(s))
        BY <3>4 DEF JSONText
      <4> QED
        BY <1>1, <1>6, <1>7, <3>1, <4>1, WaysSpell, WaysSound DEF s
    <3>5. CASE taken.by = "JSONValue"
      <4>1. JSONText(taken.by, s) = Quoted(JSONByTable(s))
        BY <3>5 DEF JSONText
      <4> QED
        BY <1>1, <1>6, <1>7, <3>1, <4>1, WaysSpell, WaysSound DEF s
    <3> QED
      BY <3>2, <3>3, <3>4, <3>5
  <2> QED
    BY <1>4, <2>2, <2>3, <2>4
<1>8. CASE ~config.json /\ ~(where = "static" /\ v.type = "trusted")
  <2>1. PrintedScalar(taken, v, literal, config.asNull) = ConsoleString(s)
    BY <1>3, <1>4, <1>8 DEF PrintedScalar, s, Reading
  <2> QED
    BY <1>1, <1>6, <1>8, <2>1, ConsoleStringIs, ConsoleIsJSON DEF s
<1>9. CASE ~config.json /\ where = "static" /\ v.type = "trusted"
  <2>1. PrintedScalar(taken, v, literal, config.asNull) = Quoted(Plain(s))
    BY <1>3, <1>4, <1>9 DEF PrintedScalar, s
  <2>2. ConsoleClean(s)
    BY <1>1, <1>9, LoggableParts, SafeIsClean DEF s
  <2> QED
    BY <1>1, <1>6, <1>9, <2>1, <2>2, WaysSpell, WaysSound, ConsoleIsJSON DEF s
<1> QED
  BY <1>7, <1>8, <1>9 DEF Boolean

\* The time of static console fields is cut to its second, in its zone.
LEMMA Rest ==
  ASSUME NEW a \in Nat, NEW w \in Nat \ {0}, NEW q \in Nat, NEW r \in Nat, r < w, a = q * w + r
  PROVE  a % w = r
OBVIOUS

LEMMA Parity ==
  ASSUME NEW id \in Nat
  PROVE  \E q \in Nat : q = id \div 2 /\ id % 2 = id - 2 * q /\ id - 2 * q \in Nat
<1>1. PICK q \in Nat : q = id \div 2 /\ (id = 2 * q \/ id = 2 * q + 1)
  OBVIOUS
<1>2. id % 2 = id - 2 * q
  BY <1>1
<1> QED
  BY <1>1, <1>2

LEMMA WholeSecondIs ==
  ASSUME NEW id \in Nat
  PROVE  WholeSecond(id) = SecondOf(id) /\ WholeSecond(id) \in Nat
<1>1. PICK q \in Nat : q = id \div 2 /\ id % 2 = id - 2 * q /\ id - 2 * q \in Nat
  BY Parity
<1>2. Second \in Nat \ {0}
  BY SecondPositive
<1>3. PICK e \in Nat : e = q \div Second
  BY <1>2, Division
<1>4. PICK d \in Nat : d = e * Second /\ d <= q /\ q < d + Second
  <2>1. e * Second <= q /\ q < e * Second + Second
    BY <1>2, <1>3, Division
  <2>2. e * Second \in Nat
    BY <1>2, Product
  <2> QED
    BY <2>1, <2>2
<1>5. q - d \in Nat /\ q - d < Second /\ q = d + (q - d)
  BY <1>2, <1>4
<1>6. q % Second = q - d
  <2>1. q = e * Second + (q - d)
    BY <1>4, <1>5
  <2> QED
    BY <1>2, <1>5, <2>1, Rest
<1>7. WholeSecond(id) = d * 2 + (id - 2 * q)
  BY <1>1, <1>3, <1>4 DEF WholeSecond
<1>8. SecondOf(id) = id - 2 * (q - d)
  BY <1>1, <1>6 DEF SecondOf
<1> QED
  BY <1>1, <1>4, <1>7, <1>8

\* What a reader of a static field on the console is told of a time.
Told(v, where) ==
    IF where = "static" /\ ~config.json /\ v.type = "time" THEN [v EXCEPT !.id = SecondOf(v.id)]
    ELSE v

\* Anything but strings and arrays is one token, quoted or not, that is read as what
\* the value means, whichever place of a cache its literal comes from.
LEMMA OnePrinted ==
  ASSUME CachesOwn, Numbered, Boolean, NEW v \in Passable, v.type \notin Text \cup {"array"},
         NEW where \in Passes
  PROVE  /\ Seen(Tokens(v, Where(where))) = Meant(Told(v, where))
         /\ \E k \in Token : /\ k[1] \notin {"raw", "esc", "quote", "punct"}
                             /\ \/ Tokens(v, Where(where)) = << k >>
                                \/ Tokens(v, Where(where)) = Quoted(<< k >>)
<1> DEFINE case == MeantCase(v.type)
           Shaped(tokens) == \E k \in Token : /\ k[1] \notin {"raw", "esc", "quote", "punct"}
                                              /\ tokens = << k >> \/ tokens = Quoted(<< k >>)
<1>1. v.type \in Types /\ v.id \in Nat
  BY PassableParts
<1>2. PICK taken : taken = Taken(Where(where), v.type)
  OBVIOUS
<1>3. /\ taken.case = case
      /\ config.json => taken.by \notin {"Console", "ConsoleStatic"}
      /\ ~config.json /\ v.type \notin {"marshaler", "other"} =>
            taken.by = IF where = "static" THEN "ConsoleStatic" ELSE "Console"
  BY <1>1, <1>2, SwitchesAgree DEF Where, Boolean, Text
<1>4. PICK kind : kind = CacheAsked(taken, v, config.colour)
  OBVIOUS
<1>5. kind \in Kinds \cup {"none"}
  BY <1>4, AskedKinds
<1>6. PICK literal : literal = LiteralOf(kind, v.id)
  OBVIOUS
<1>7. /\ literal \in Nat
      /\ kind # "time" => literal = v.id
      /\ kind \in {"time", "none"} => KeyOf("time", literal) = KeyOf("time", v.id)
  BY <1>1, <1>5, <1>6, LiteralIs
<1>8. Tokens(v, Where(where)) = Printed(taken, v, literal, config.asNull)
  BY <1>2, <1>4, <1>6 DEF Tokens
<1>9. case \in {"bool", "num", "float", "time", "duration", "nil", "marshaler", "default"}
  BY <1>1 DEF MeantCase, Text, Types
<1>10. Tokens(v, Where(where)) = PrintedScalar(taken, v, literal, config.asNull)
  BY <1>3, <1>8, <1>9 DEF Printed
<1>11. \A n \in Nat : /\ <<"bool", n>> \in Token /\ <<"num", n>> \in Token
                      /\ <<"float", n>> \in Token /\ <<"time", n>> \in Token
                      /\ <<"duration", n>> \in Token /\ <<"json", n>> \in Token
                      /\ <<"nil", 0>> \in Token /\ <<"null", 0>> \in Token
  BY DEF Token
<1>12. ASSUME NEW k \in Token, k[1] \notin {"raw", "esc", "quote", "punct"}
       PROVE  /\ << k >> \in Seq(Token)
              /\ Seen(<< k >>) = << ReadToken(k) >>
              /\ Seen(Quoted(<< k >>)) = IF config.json THEN Quoted(<< ReadToken(k) >>)
                                         ELSE << ReadToken(k) >>
              /\ k[1] # "time" => ReadToken(k) = k
              /\ Shaped(<< k >>) /\ Shaped(Quoted(<< k >>))
  BY <1>12, ReadOne, SeenOne, SeenQuoted
<1>13. CASE case \in {"bool", "num"} \/ (case = "float" /\ v.type = "float")
  <2>1. v.type = case /\ kind # "time"
    <3>1. v.type = case
      BY <1>13 DEF MeantCase
    <3>2. kind # "time"
      BY <1>3, <1>4, <1>13 DEF CacheAsked
    <3> QED
      BY <3>1, <3>2
  <2>2. Tokens(v, Where(where)) = << <<case, v.id>> >>
    BY <1>3, <1>7, <1>10, <1>13, <2>1 DEF PrintedScalar
  <2>3. Meant(Told(v, where)) = << <<case, v.id>> >>
    BY <1>13, <2>1 DEF Meant, Told, Text
  <2>4. <<case, v.id>> \in Token
    BY <1>1, <1>11, <1>13
  <2>5. <<case, v.id>>[1] = case
    OBVIOUS
  <2> QED
    BY <1>12, <1>13, <2>2, <2>3, <2>4, <2>5
<1>14. CASE case = "float" /\ v.type = "nonfinite"
  <2>1. kind # "time" /\ Told(v, where) = v
    BY <1>3, <1>4, <1>14 DEF CacheAsked, Told
  <2>2. CASE config.json /\ config.asNull
    <3>1. Tokens(v, Where(where)) = << <<"null", 0>> >>
      BY <1>3, <1>10, <1>14, <2>2 DEF PrintedScalar, NonFinite, Null
    <3>2. Meant(v) = << <<"null", 0>> >>
      BY <1>14, <2>2 DEF Meant, Null, Text
    <3> QED
      BY <1>11, <1>12, <2>1, <3>1, <3>2
  <2>3. CASE config.json /\ ~config.asNull
    <3>1. Tokens(v, Where(where)) = Quoted(<< <<"float", v.id>> >>)
      BY <1>3, <1>10, <1>14, <2>3 DEF PrintedScalar, NonFinite
    <3>2. Meant(v) = Quoted(<< <<"float", v.id>> >>)
      BY <1>14, <2>3 DEF Meant, Text
    <3>3. <<"float", v.id>> \in Token
      BY <1>1, <1>11
    <3> QED
      BY <1>12, <2>1, <2>3, <3>1, <3>2, <3>3
  <2>4. CASE ~config.json
    <3>1. Tokens(v, Where(where)) = << <<"float", v.id>> >>
      BY <1>3, <1>7, <1>10, <1>14, <2>1, <2>4 DEF PrintedScalar
    <3>2. Meant(v) = << <<"float", v.id>> >>
      BY <1>14, <2>4 DEF Meant, Text
    <3>3. <<"float", v.id>> \in Token
      BY <1>1, <1>11
    <3> QED
      BY <1>12, <2>1, <3>1, <3>2, <3>3
  <2> QED
    BY <2>2, <2>3, <2>4 DEF Boolean
<1>15. CASE case = "time"
  <2>1. v.type = "time"
    BY <1>1, <1>15 DEF MeantCase
  <2>2. \A n \in Nat : /\ <<"time", n>> \in Token
                       /\ ReadToken(<<"time", n>>) = <<"time", KeyOf("time", n)>>
    BY <1>11 DEF ReadToken
  <2>3. CASE taken.by # "ConsoleStatic"
    <3>1. kind = "time"
      BY <1>3, <1>4, <1>15, <2>3 DEF CacheAsked
    <3>2. Told(v, where) = v
      BY <1>3, <2>1, <2>3 DEF Told, Boolean
    <3>3. Tokens(v, Where(where)) = IF config.json THEN Quoted(<< <<"time", literal>> >>)
                                    ELSE << <<"time", literal>> >>
      BY <1>3, <1>10, <1>15, <2>1, <2>3 DEF PrintedScalar, TimeLiteral, Boolean
    <3>4. Meant(v) = IF config.json THEN Quoted(<< <<"time", KeyOf("time", v.id)>> >>)
                     ELSE << <<"time", KeyOf("time", v.id)>> >>
      BY <2>1 DEF Meant, Text
    <3>5. KeyOf("time", literal) = KeyOf("time", v.id) /\ literal \in Nat
      BY <1>7, <3>1
    <3> QED
      BY <1>12, <2>2, <3>2, <3>3, <3>4, <3>5 DEF Boolean
  <2>4. CASE taken.by = "ConsoleStatic"
    <3>1. ~config.json /\ where = "static"
      BY <1>3, <2>1, <2>4 DEF Boolean
    <3>2. Tokens(v, Where(where)) = << <<"time", SecondOf(v.id)>> >> /\ SecondOf(v.id) \in Nat
      BY <1>1, <1>3, <1>10, <1>15, <2>4, WholeSecondIs DEF PrintedScalar, TimeLiteral
    <3>3. Told(v, where).type = "time" /\ Told(v, where).id = SecondOf(v.id)
      <4>1. Told(v, where) = [v EXCEPT !.id = SecondOf(v.id)]
        BY <2>1, <3>1 DEF Told
      <4>2. v = [type |-> v.type, str |-> v.str, id |-> v.id, elems |-> v.elems]
        BY <2>1 DEF Passable, PassedScalar, Arrays
      <4> QED
        BY ONLY <2>1, <4>1, <4>2
    <3>4. Meant(Told(v, where)) = << <<"time", KeyOf("time", SecondOf(v.id))>> >>
      BY <3>1, <3>3 DEF Meant, Text
    <3> QED
      BY <1>12, <2>2, <3>2, <3>4
  <2> QED
    BY <2>3, <2>4
<1>16. CASE case = "duration"
  <2>1. v.type = "duration" /\ kind # "time" /\ Told(v, where) = v
    <3>1. v.type = "duration"
      BY <1>1, <1>16 DEF MeantCase
    <3>2. kind # "time"
      BY <1>3, <1>4, <1>16 DEF CacheAsked
    <3> QED
      BY <3>1, <3>2 DEF Told
  <2>2. Tokens(v, Where(where)) = IF config.json THEN Quoted(<< <<"duration", v.id>> >>)
                                  ELSE << <<"duration", v.id>> >>
    BY <1>3, <1>7, <1>10, <1>16, <2>1 DEF PrintedScalar, Boolean
  <2>3. Meant(v) = IF config.json THEN Quoted(<< <<"duration", v.id>> >>)
                   ELSE << <<"duration", v.id>> >>
    BY <2>1 DEF Meant, Text
  <2>4. <<"duration", v.id>> \in Token
    BY <1>1, <1>11
  <2> QED
    BY <1>12, <2>1, <2>2, <2>3, <2>4 DEF Boolean
<1>17. CASE case = "nil"
  <2>1. v.type = "nil" /\ Told(v, where) = v
    BY <1>1, <1>17 DEF MeantCase, Told
  <2>2. Tokens(v, Where(where)) = IF config.json THEN << <<"null", 0>> >> ELSE << <<"nil", 0>> >>
    BY <1>3, <1>10, <1>17, <2>1 DEF PrintedScalar, Null, Boolean
  <2>3. Meant(v) = IF config.json THEN << <<"null", 0>> >> ELSE << <<"nil", 0>> >>
    BY <2>1 DEF Meant, Text, Null
  <2> QED
    BY <1>11, <1>12, <2>1, <2>2, <2>3
<1>18. CASE case \in {"marshaler", "default"}
  <2>1. v.type \in {"marshaler", "other"} /\ Told(v, where) = v
    BY <1>1, <1>18 DEF MeantCase, Told, Types
  <2>2. Tokens(v, Where(where)) = << <<"json", v.id>> >>
    BY <1>3, <1>10, <1>18 DEF PrintedScalar
  <2>3. Meant(v) = << <<"json", v.id>> >>
    BY <2>1 DEF Meant, Text
  <2>4. <<"json", v.id>> \in Token
    BY <1>1, <1>11
  <2> QED
    BY <1>12, <2>1, <2>2, <2>3, <2>4
<1>19. case = "float" => v.type = "float" \/ v.type = "nonfinite"
  BY DEF MeantCase
<1> QED
  BY <1>9, <1>13, <1>14, <1>15, <1>16, <1>17, <1>18, <1>19

-----------------------------------------------------------------------------
(* Arrays. *)

Elements == {v \in Scalar : v.type \notin {"float", "nonfinite"}}

\* Tokens with nothing raw that JSON has to escape.
SoundToken == {t \in Token : t[1] = "raw" => ~JSONNeedsEscape(t[2])}

LEMMA SoundSequence ==
  ASSUME NEW tokens \in Seq(Token)
  PROVE  tokens \in Seq(SoundToken) <=> JSONSound(tokens)
<1>1. PICK n \in Nat : n = Len(tokens) /\ DOMAIN tokens = 1 .. n
  OBVIOUS
<1>2. ASSUME JSONSound(tokens) PROVE tokens \in Seq(SoundToken)
  <2>1. \A i \in 1 .. n : tokens[i] \in SoundToken
    BY <1>1, <1>2 DEF JSONSound, SoundToken
  <2>2. tokens = [i \in 1 .. n |-> tokens[i]]
    BY <1>1
  <2>3. tokens \in [1 .. n -> SoundToken]
    BY ONLY <2>1, <2>2
  <2> QED
    BY ONLY <1>1, <2>3
<1>3. ASSUME tokens \in Seq(SoundToken) PROVE JSONSound(tokens)
  BY <1>3 DEF JSONSound, SoundToken
<1> QED
  BY <1>2, <1>3

LEMMA QuotedSound ==
  ASSUME NEW tokens \in Seq(Token), JSONSound(tokens)
  PROVE  JSONSound(Quoted(tokens)) /\ (ConsoleSound(tokens) => ConsoleSound(Quoted(tokens)))
<1>1. PICK n \in Nat : n = Len(tokens) /\ DOMAIN tokens = 1 .. n
  OBVIOUS
<1>2. PICK q : q = Quoted(tokens)
  OBVIOUS
<1>3. /\ DOMAIN q = 1 .. n + 2 /\ q[1] = <<"quote", 0>> /\ q[n + 2] = <<"quote", 0>>
      /\ \A i \in 1 .. n : q[i + 1] = tokens[i]
  BY <1>1, <1>2, QuotedParts
<1>4. ASSUME NEW i \in 1 .. n + 2, q[i][1] = "raw"
      PROVE  \E j \in 1 .. n : q[i] = tokens[j]
  <2>1. i # 1 /\ i # n + 2
    BY <1>3, <1>4
  <2>2. i - 1 \in 1 .. n /\ (i - 1) + 1 = i
    BY <2>1
  <2> QED
    BY <1>3, <2>2
<1>5. JSONSound(q)
  <2> SUFFICES ASSUME NEW i \in 1 .. n + 2, q[i][1] = "raw" PROVE ~JSONNeedsEscape(q[i][2])
    BY <1>3 DEF JSONSound
  <2>1. PICK j \in 1 .. n : q[i] = tokens[j]
    BY <1>4
  <2> QED
    BY <1>1, <2>1 DEF JSONSound
<1>6. ASSUME ConsoleSound(tokens) PROVE ConsoleSound(q)
  <2> SUFFICES ASSUME NEW i \in 1 .. n + 2, q[i][1] = "raw" PROVE ~ConsoleNeedsEscape(q[i][2])
    BY <1>3 DEF ConsoleSound
  <2>1. PICK j \in 1 .. n : q[i] = tokens[j]
    BY <1>4
  <2> QED
    BY <1>1, <1>6, <2>1 DEF ConsoleSound
<1> QED
  BY <1>2, <1>5, <1>6

\* Which case of writeJSONValuePlain takes an element that is no string.
LEMMA ElementTakes ==
  ASSUME NEW type \in Types \ {"array"}
  PROVE  LET taken == Taken(<< Switch("JSONValue", JSONValue) >>, type)
         IN  taken = IF type = "other" THEN [by |-> "Marshal", case |-> "default"]
                     ELSE [by |-> "JSONValue", case |-> ValueCase(type)]
<1> DEFINE case == ValueCase(type)
<1>1. PICK c : c = << Switch("JSONValue", JSONValue) >>
  OBVIOUS
<1>2. DOMAIN c = 1 .. 1 /\ c[1].cases = JSONValue /\ c[1].name = "JSONValue"
  BY <1>1 DEF Switch
<1>3. IF type = "other" THEN Matches(JSONValue, type) = {} ELSE Takes(JSONValue, type, case)
  BY JSONValueTakes
<1> HIDE DEF case
<1>4. \A n \in 1 .. 1 : \/ Takes(c[n].cases, type, case)
                        \/ Matches(c[n].cases, type) = {}
                        \/ \E k \in 1 .. 1 : k < n /\ Takes(c[k].cases, type, case)
  BY <1>2, <1>3
<1>5. 1 \in Nat
  OBVIOUS
<1>6. \/ /\ Taken(c, type) = [by |-> "Marshal", case |-> "default"]
         /\ \A n \in 1 .. 1 : Matches(c[n].cases, type) = {}
      \/ \E n \in 1 .. 1 :
               /\ Taken(c, type) = [by |-> c[n].name, case |-> case]
               /\ Matches(c[n].cases, type) # {}
               /\ \A k \in 1 .. 1 : k < n => Matches(c[k].cases, type) = {}
  BY ONLY <1>2, <1>4, <1>5, ChainTakes
<1>7. Taken(c, type) = IF type = "other" THEN [by |-> "Marshal", case |-> "default"]
                       ELSE [by |-> "JSONValue", case |-> case]
  BY <1>2, <1>3, <1>6 DEF Takes
<1> QED
  BY <1>1, <1>7 DEF case

\* An element is read as what it means, and sound.
LEMMA ElementIs ==
  ASSUME NEW v \in Elements
  PROVE  /\ Element(v) \in Seq(Token) /\ JSONSound(Element(v))
         /\ Unescaped(Element(v)) = ElementMeant(v)
<1>1. /\ v.type \in Types \ {"array", "float", "nonfinite"} /\ v.str \in Seq(Nat) /\ v.id \in Nat
      /\ v.type = "trusted" => JSONClean(v.str)
  BY SafeIsClean DEF Elements, Scalar
<1> DEFINE s == v.str
<1>2. ASSUME NEW x, Spells(x, s), JSONSound(x)
      PROVE  /\ Quoted(x) \in Seq(Token) /\ JSONSound(Quoted(x))
             /\ Unescaped(Quoted(x)) = Quoted(Plain(s))
  <2>1. x \in Seq(Token)
    BY <1>1, <1>2, SpelledType
  <2> QED
    BY <1>1, <1>2, <2>1, QuotedParts, QuotedSound, UnescapedQuoted, UnescapedSpelled
<1>3. ASSUME NEW k \in Token, k[1] \notin {"raw", "esc", "time"}
      PROVE  << k >> \in Seq(Token) /\ JSONSound(<< k >>) /\ Unescaped(<< k >>) = << k >>
  BY <1>3, ReadOne DEF JSONSound
<1>4. CASE v.type \in {"trusted", "string"}
  <2>1. Element(v) = PrintedScalar([by |-> "PTLog", case |-> v.type], v, v.id, FALSE)
    BY <1>4 DEF Element
  <2>2. Element(v) = IF v.type = "trusted" THEN Quoted(Plain(s)) ELSE Quoted(JSONEscaped(s))
    BY <1>4, <2>1 DEF PrintedScalar
  <2>3. ElementMeant(v) = Quoted(Plain(s))
    BY <1>4 DEF ElementMeant, Text
  <2> QED
    BY <1>1, <1>2, <1>4, <2>2, <2>3, WaysSpell, WaysSound
<1>5. CASE v.type \notin {"trusted", "string"}
  <2>1. PICK taken : taken = Taken(<< Switch("JSONValue", JSONValue) >>, v.type)
    OBVIOUS
  <2>2. Element(v) = PrintedScalar(taken, v, v.id, FALSE)
    BY <1>5, <2>1 DEF Element
  <2>3. taken = IF v.type = "other" THEN [by |-> "Marshal", case |-> "default"]
                ELSE [by |-> "JSONValue", case |-> ValueCase(v.type)]
    BY <1>1, <2>1, ElementTakes
  <2>4. CASE v.type \in Text \cup {"time", "duration"}
    <3>1. taken.case \in Reading /\ taken.by = "JSONValue"
      BY <1>5, <2>3, <2>4 DEF ValueCase, MeantCase, Text, Reading
    <3>2. Element(v) = JSONText("JSONValue", s)
      BY <2>2, <3>1 DEF PrintedScalar, Reading
    <3>3. Element(v) = Quoted(JSONByTable(s))
      BY <3>2 DEF JSONText
    <3>4. ElementMeant(v) = Quoted(Plain(s))
      BY <2>4 DEF ElementMeant, Text
    <3> QED
      BY <1>1, <1>2, <3>3, <3>4, WaysSpell, WaysSound
  <2>5. CASE v.type \in {"bool", "num"}
    <3>1. taken.case = v.type /\ taken.by = "JSONValue"
      BY <2>3, <2>5 DEF ValueCase, MeantCase
    <3>2. Element(v) = << <<v.type, v.id>> >>
      BY <2>2, <2>5, <3>1 DEF PrintedScalar
    <3>3. ElementMeant(v) = << <<v.type, v.id>> >>
      BY <2>5 DEF ElementMeant, Text
    <3>4. <<v.type, v.id>> \in Token
      BY <1>1, <2>5 DEF Token
    <3>5. <<v.type, v.id>>[1] = v.type
      OBVIOUS
    <3> QED
      BY <1>3, <2>5, <3>2, <3>3, <3>4, <3>5
  <2>6. CASE v.type = "nil"
    <3>1. taken.case = "nil" /\ taken.by = "JSONValue"
      BY <2>3, <2>6 DEF ValueCase, MeantCase
    <3>2. Element(v) = << <<"null", 0>> >>
      BY <2>2, <3>1 DEF PrintedScalar, Null
    <3>3. ElementMeant(v) = << <<"null", 0>> >>
      BY <2>6 DEF ElementMeant, Text, Null
    <3>4. <<"null", 0>> \in Token
      BY DEF Token
    <3> QED
      BY <1>3, <3>2, <3>3, <3>4
  <2>7. CASE v.type \in {"marshaler", "other"}
    <3>1. taken.case \in {"marshaler", "default"}
      BY <2>3, <2>7 DEF ValueCase, MeantCase
    <3>2. Element(v) = << <<"json", v.id>> >>
      BY <2>2, <3>1 DEF PrintedScalar
    <3>3. ElementMeant(v) = << <<"json", v.id>> >>
      BY <2>7 DEF ElementMeant, Text
    <3>4. <<"json", v.id>> \in Token
      BY <1>1 DEF Token
    <3> QED
      BY <1>3, <3>2, <3>3, <3>4
  <2> QED
    BY <1>1, <1>5, <2>4, <2>5, <2>6, <2>7 DEF Types, Text
<1> QED
  BY <1>4, <1>5

LEMMA UnescapedConcat ==
  ASSUME NEW a \in Seq(Token), NEW b \in Seq(Token)
  PROVE  Unescaped(a \o b) = Unescaped(a) \o Unescaped(b)
<1>1. PICK m \in Nat : m = Len(a)
  OBVIOUS
<1>2. PICK n \in Nat : n = Len(b)
  OBVIOUS
<1>3. PICK c : c = a \o b
  OBVIOUS
<1>4. /\ c \in Seq(Token) /\ Len(c) = m + n
      /\ \A i \in 1 .. m + n : c[i] = IF i <= m THEN a[i] ELSE b[i - m]
  BY <1>1, <1>2, <1>3, ConcatType
<1>5. PICK u : u = Unescaped(a)
  OBVIOUS
<1>6. PICK w : w = Unescaped(b)
  OBVIOUS
<1>7. /\ u \in Seq(Token) /\ Len(u) = m /\ \A i \in 1 .. m : u[i] = ReadToken(a[i])
  BY <1>1, <1>5, UnescapedIs
<1>8. /\ w \in Seq(Token) /\ Len(w) = n /\ \A i \in 1 .. n : w[i] = ReadToken(b[i])
  BY <1>2, <1>6, UnescapedIs
<1>9. PICK x : x = u \o w
  OBVIOUS
<1>10. /\ x \in Seq(Token) /\ Len(x) = m + n
       /\ \A i \in 1 .. m + n : x[i] = IF i <= m THEN u[i] ELSE w[i - m]
  <2>1. /\ u \o w \in Seq(Token) /\ Len(u \o w) = Len(u) + Len(w)
        /\ \A i \in 1 .. Len(u) + Len(w) : (u \o w)[i] = IF i <= Len(u) THEN u[i] ELSE w[i - Len(u)]
    BY ONLY <1>7, <1>8, ConcatType
  <2>2. Len(u) = m /\ Len(w) = n
    BY <1>7, <1>8
  <2> QED
    BY ONLY <1>9, <2>1, <2>2
<1>11. PICK y : y = Unescaped(c)
  OBVIOUS
<1>12. PICK k \in Nat : k = m + n
  OBVIOUS
<1>13. y \in Seq(Token) /\ Len(y) = k /\ \A i \in 1 .. k : y[i] = ReadToken(c[i])
  BY <1>4, <1>11, <1>12, UnescapedIs
<1>14. ASSUME NEW i \in 1 .. k PROVE y[i] = x[i]
  <2>1. CASE i <= m
    BY <1>4, <1>7, <1>10, <1>12, <1>13, <2>1
  <2>2. CASE ~(i <= m)
    <3>1. i - m \in 1 .. n
      BY <1>12, <2>2
    <3> QED
      BY <1>4, <1>8, <1>10, <1>12, <1>13, <2>2, <3>1
  <2> QED
    BY <2>1, <2>2
<1>15. Len(x) = k
  BY <1>10, <1>12
<1>16. y = x
  BY ONLY <1>10, <1>13, <1>14, <1>15, SeqEqual
<1> QED
  BY <1>3, <1>5, <1>6, <1>9, <1>11, <1>16

\* Reading a concatenation is reading its parts.
LEMMA UnescapedFlatten ==
  ASSUME NEW ss \in Seq(Seq(Token))
  PROVE  Unescaped(FlattenSeq(ss)) = FlattenSeq([i \in DOMAIN ss |-> Unescaped(ss[i])])
<1> DEFINE First(n) == SubSeq(ss, 1, n)
           Each(tt) == [i \in DOMAIN tt |-> Unescaped(tt[i])]
           S == {n \in Nat : n <= Len(ss) =>
                    Unescaped(FlattenSeq(First(n))) = FlattenSeq(Each(First(n)))}
<1>0. ASSUME NEW tt \in Seq(Seq(Token))
      PROVE  Each(tt) \in Seq(Seq(Token)) /\ Len(Each(tt)) = Len(tt)
             /\ \A i \in 1 .. Len(tt) : Each(tt)[i] = Unescaped(tt[i])
  <2>1. PICK n \in Nat : n = Len(tt) /\ DOMAIN tt = 1 .. n
    OBVIOUS
  <2>2. \A i \in 1 .. n : Unescaped(tt[i]) \in Seq(Token)
    BY <2>1, UnescapedIs
  <2>3. Each(tt) = [i \in 1 .. n |-> Unescaped(tt[i])]
    BY <2>1
  <2>4. Each(tt) \in Seq(Seq(Token)) /\ Len(Each(tt)) = n
        /\ \A i \in 1 .. n : Each(tt)[i] = Unescaped(tt[i])
    BY ONLY <2>1, <2>2, <2>3
  <2> QED
    BY <2>1, <2>4
<1>1. 0 \in S
  <2>1. First(0) = << >>
    OBVIOUS
  <2>2. Each(<< >>) = << >>
    OBVIOUS
  <2>3. << >> \in Seq(Token) /\ Unescaped(<< >>) = << >>
    BY DEF Unescaped
  <2>4. << >> \in Seq(Seq(Token))
    OBVIOUS
  <2>5. FlattenSeq(<< >>) = << >>
    BY <2>4, FlattenType
  <2>6. Unescaped(FlattenSeq(First(0))) = FlattenSeq(Each(First(0)))
    BY ONLY <2>1, <2>2, <2>3, <2>5
  <2> QED
    BY <2>6
<1> HIDE DEF First, Each
<1>2. ASSUME NEW n \in Nat, n \in S PROVE n + 1 \in S
  <2> SUFFICES ASSUME n + 1 <= Len(ss)
               PROVE  Unescaped(FlattenSeq(First(n + 1))) = FlattenSeq(Each(First(n + 1)))
    OBVIOUS
  <2> DEFINE s == ss[n + 1]
             h == First(n)
  <2>1. s \in Seq(Token) /\ h \in Seq(Seq(Token)) /\ First(n + 1) = Append(h, s)
    BY DEF First
  <2>2. Unescaped(FlattenSeq(h)) = FlattenSeq(Each(h))
    BY <1>2
  <2> HIDE DEF h, s
  <2>3. FlattenSeq(Append(h, s)) = FlattenSeq(h) \o s /\ FlattenSeq(h) \in Seq(Token)
    BY <2>1, FlattenAppend, FlattenType
  <2>4. Unescaped(FlattenSeq(h) \o s) = Unescaped(FlattenSeq(h)) \o Unescaped(s)
    BY <2>1, <2>3, UnescapedConcat
  <2>5. Each(Append(h, s)) = Append(Each(h), Unescaped(s))
    <3>1. PICK m \in Nat : m = Len(h)
      BY <2>1
    <3>2. PICK hs : hs = Append(h, s)
      OBVIOUS
    <3>3. hs \in Seq(Seq(Token)) /\ Len(hs) = m + 1 /\ hs[m + 1] = s
          /\ \A i \in 1 .. m : hs[i] = h[i]
      BY <2>1, <3>1, <3>2
    <3>4. PICK x : x = Each(hs)
      OBVIOUS
    <3>5. x \in Seq(Seq(Token)) /\ Len(x) = m + 1 /\ \A i \in 1 .. m + 1 : x[i] = Unescaped(hs[i])
      <4>1. Len(x) = Len(hs)
        BY <1>0, <3>3, <3>4
      <4>2. \A i \in 1 .. Len(hs) : x[i] = Unescaped(hs[i])
        BY <1>0, <3>3, <3>4
      <4>3. x \in Seq(Seq(Token))
        BY <1>0, <3>3, <3>4
      <4> QED
        BY ONLY <3>3, <4>1, <4>2, <4>3
    <3>6. PICK e : e = Each(h)
      OBVIOUS
    <3>7. e \in Seq(Seq(Token)) /\ Len(e) = m /\ \A i \in 1 .. m : e[i] = Unescaped(h[i])
      <4>1. Len(e) = Len(h)
        BY <1>0, <2>1, <3>6
      <4>2. \A i \in 1 .. Len(h) : e[i] = Unescaped(h[i])
        BY <1>0, <2>1, <3>6
      <4>3. e \in Seq(Seq(Token))
        BY <1>0, <2>1, <3>6
      <4> QED
        BY ONLY <3>1, <4>1, <4>2, <4>3
    <3>8. PICK u \in Seq(Token) : u = Unescaped(s)
      BY <2>1, UnescapedIs
    <3>9. PICK y : y = Append(e, u)
      OBVIOUS
    <3>10. y \in Seq(Seq(Token)) /\ Len(y) = m + 1 /\ y[m + 1] = u
           /\ \A i \in 1 .. m : y[i] = e[i]
      BY <3>7, <3>8, <3>9
    <3>11. \A i \in 1 .. m + 1 : x[i] = y[i]
      <4> TAKE i \in 1 .. m + 1
      <4>1. x[i] = Unescaped(hs[i])
        BY <3>5
      <4>2. CASE i = m + 1
        BY <3>3, <3>8, <3>10, <4>1, <4>2
      <4>3. CASE i # m + 1
        <5>1. i \in 1 .. m
          BY <3>1, <4>3
        <5>2. hs[i] = h[i] /\ y[i] = e[i] /\ e[i] = Unescaped(h[i])
          BY <3>3, <3>7, <3>10, <5>1
        <5> QED
          BY <4>1, <5>2
      <4> QED
        BY <4>2, <4>3
    <3>12. x = y
      BY ONLY <3>1, <3>5, <3>10, <3>11, SeqEqual
    <3> QED
      BY ONLY <3>2, <3>4, <3>6, <3>8, <3>9, <3>12
  <2>6. FlattenSeq(Append(Each(h), Unescaped(s))) = FlattenSeq(Each(h)) \o Unescaped(s)
    <3>1. Each(h) \in Seq(Seq(Token)) /\ Unescaped(s) \in Seq(Token)
      BY <1>0, <2>1, UnescapedIs
    <3> QED
      BY <3>1, FlattenAppend
  <2> QED
    BY <2>1, <2>2, <2>3, <2>4, <2>5, <2>6
<1>3. Len(ss) \in Nat /\ First(Len(ss)) = ss
  BY DEF First
<1>4. Len(ss) \in S
  <2> HIDE DEF S
  <2> QED
    BY <1>1, <1>2, <1>3, SetInduction
<1> QED
  BY <1>3, <1>4 DEF Each

LEMMA PunctIs ==
  ASSUME NEW c \in Nat
  PROVE  Punct(c) \in Seq(SoundToken) /\ Punct(c) \in Seq(Token) /\ Unescaped(Punct(c)) = Punct(c)
<1>1. <<"punct", c>> \in Token /\ <<"punct", c>> \in SoundToken
  BY DEF Token, SoundToken
<1>2. <<"punct", c>>[1] = "punct"
  OBVIOUS
<1> QED
  BY <1>1, <1>2, ReadOne DEF Punct

\* An array is read as its elements with what stands between them (writePTLogArray).
LEMMA ArrayIs ==
  ASSUME NEW elems \in Seq(Elements)
  PROVE  /\ Array(elems) \in Seq(Token) /\ JSONSound(Array(elems))
         /\ Unescaped(Array(elems)) = ArrayMeant(elems)
         /\ Array(elems) # << >> /\ Array(elems)[1] = <<"punct", 1>>
<1> DEFINE one(i) == (IF i > 1 THEN Punct(2) ELSE << >>) \o Element(elems[i])
           meant(i) == (IF i = 1 THEN << >> ELSE Punct(2)) \o ElementMeant(elems[i])
           all == [i \in DOMAIN elems |-> one(i)]
<1>1. PICK n \in Nat : n = Len(elems) /\ DOMAIN elems = 1 .. n
  OBVIOUS
<1>2. ASSUME NEW i \in 1 .. n
      PROVE  one(i) \in Seq(SoundToken) /\ one(i) \in Seq(Token) /\ Unescaped(one(i)) = meant(i)
  <2>1. elems[i] \in Elements
    BY <1>1
  <2>2. /\ Element(elems[i]) \in Seq(Token) /\ Element(elems[i]) \in Seq(SoundToken)
        /\ Unescaped(Element(elems[i])) = ElementMeant(elems[i])
    BY <2>1, ElementIs, SoundSequence
  <2>3. PICK p : p = IF i > 1 THEN Punct(2) ELSE << >>
    OBVIOUS
  <2>4. p \in Seq(SoundToken) /\ p \in Seq(Token) /\ Unescaped(p) = p
    <3>1. << >> \in Seq(SoundToken) /\ << >> \in Seq(Token) /\ Unescaped(<< >>) = << >>
      BY DEF Unescaped
    <3> QED
      BY <2>3, <3>1, PunctIs
  <2>5. PICK e : e = Element(elems[i])
    OBVIOUS
  <2>6. p \o e \in Seq(SoundToken) /\ p \o e \in Seq(Token)
    BY <2>2, <2>4, <2>5
  <2>7. Unescaped(p \o e) = p \o ElementMeant(elems[i])
    BY <2>2, <2>4, <2>5, UnescapedConcat
  <2>8. p = IF i = 1 THEN << >> ELSE Punct(2)
    BY <2>3
  <2> QED
    BY <2>3, <2>5, <2>6, <2>7, <2>8
<1> HIDE DEF one, meant
<1>3. all \in Seq(Seq(SoundToken)) /\ all \in Seq(Seq(Token)) /\ DOMAIN all = 1 .. n
  BY <1>1, <1>2
<1>4. Array(elems) = (Punct(1) \o FlattenSeq(all)) \o Punct(3)
  BY DEF Array, one
<1>5. [i \in DOMAIN all |-> Unescaped(all[i])] = [i \in DOMAIN elems |-> meant(i)]
  BY <1>1, <1>2
<1>6. ArrayMeant(elems) = (Punct(1) \o FlattenSeq([i \in DOMAIN elems |-> meant(i)])) \o Punct(3)
  BY DEF ArrayMeant, meant
<1> HIDE DEF all
<1>7. PICK f : f = FlattenSeq(all)
  OBVIOUS
<1>8. f \in Seq(SoundToken) /\ f \in Seq(Token)
  BY <1>3, <1>7, FlattenType
<1>9. Unescaped(f) = FlattenSeq([i \in DOMAIN elems |-> meant(i)])
  BY <1>3, <1>5, <1>7, UnescapedFlatten
<1>10. /\ Punct(1) \in Seq(SoundToken) /\ Punct(1) \in Seq(Token) /\ Unescaped(Punct(1)) = Punct(1)
       /\ Punct(3) \in Seq(SoundToken) /\ Punct(3) \in Seq(Token) /\ Unescaped(Punct(3)) = Punct(3)
  BY PunctIs
<1>11. PICK a : a = Punct(1) \o f
  OBVIOUS
<1>12. a \in Seq(SoundToken) /\ a \in Seq(Token) /\ Unescaped(a) = Punct(1) \o Unescaped(f)
  <2>1. Punct(1) \o f \in Seq(SoundToken)
    BY <1>8, <1>10
  <2>2. Punct(1) \o f \in Seq(Token)
    BY <1>8, <1>10
  <2>3. Unescaped(Punct(1) \o f) = Punct(1) \o Unescaped(f)
    BY <1>8, <1>10, UnescapedConcat
  <2> QED
    BY <1>11, <2>1, <2>2, <2>3
<1>13. PICK b : b = a \o Punct(3)
  OBVIOUS
<1>14. b \in Seq(SoundToken) /\ b \in Seq(Token) /\ Unescaped(b) = Unescaped(a) \o Punct(3)
  <2>1. a \o Punct(3) \in Seq(SoundToken)
    BY <1>10, <1>12
  <2>2. a \o Punct(3) \in Seq(Token)
    BY <1>10, <1>12
  <2>3. Unescaped(a \o Punct(3)) = Unescaped(a) \o Punct(3)
    BY <1>10, <1>12, UnescapedConcat
  <2> QED
    BY <1>13, <2>1, <2>2, <2>3
<1>15. Array(elems) = b
  BY <1>4, <1>7, <1>11, <1>13
<1>16. b # << >> /\ b[1] = <<"punct", 1>>
  <2>1. Punct(1)[1] = <<"punct", 1>> /\ Len(Punct(1)) = 1
    BY DEF Punct
  <2>2. a[1] = Punct(1)[1] /\ a # << >>
    BY <1>8, <1>10, <1>11, <2>1
  <2>3. b[1] = a[1] /\ b # << >>
    BY <1>10, <1>12, <1>13, <2>2
  <2> QED
    BY <2>1, <2>2, <2>3
<1> QED
  BY <1>6, <1>9, <1>12, <1>14, <1>15, <1>16, SoundSequence

-----------------------------------------------------------------------------
(* What is read back of a value. *)

\* What a value's tokens must not have raw.
ValueSound(tokens) ==
    /\ JSONSound(tokens)
    /\ ~config.json /\ Head(tokens \o Null)[1] # "punct" =>
          ConsoleSound(tokens) /\ Delimited(tokens)

LEMMA QuotedDelimited ==
  ASSUME NEW tokens \in Seq(Token)
  PROVE  Delimited(Quoted(tokens))
<1>1. Content(Quoted(tokens)) = tokens
  BY ContentQuoted
<1>2. Len(Quoted(tokens)) = Len(tokens) + 2
  BY QuotedParts
<1>3. PICK n \in Nat : n = Len(tokens)
  OBVIOUS
<1>4. Quoted(tokens) # tokens
  BY <1>2, <1>3
<1> QED
  BY <1>1, <1>4 DEF Delimited

LEMMA TextIs ==
  ASSUME Boolean, NEW v \in Passable, v.type \in Text, NEW where \in Passes,
         where = "static" => v \in Loggable
  PROVE  /\ Tokens(v, Where(where)) \in Seq(Token)
         /\ Seen(Tokens(v, Where(where))) = Meant(Told(v, where))
         /\ ValueSound(Tokens(v, Where(where)))
<1>1. v.str \in Seq(Nat)
  BY PassableParts
<1>2. PICK t : t = Tokens(v, Where(where))
  OBVIOUS
<1>3. PICK x : /\ Spells(x, v.str) /\ JSONSound(x)
               /\ config.json => t = Quoted(x)
               /\ ~config.json => /\ ConsoleSound(x)
                                  /\ \/ t = Quoted(x)
                                     \/ t = x /\ \A i \in DOMAIN x : x[i] # Raw(Space)
  BY <1>2, TextPrinted
<1>4. /\ x \in Seq(Token) /\ Unescaped(x) = Plain(v.str) /\ Content(x) = x
      /\ Quoted(x) \in Seq(Token) /\ Content(Quoted(x)) = x
  BY <1>1, <1>3, SpelledType, UnescapedSpelled, ContentSpelled, ContentQuoted, QuotedParts
<1>5. Told(v, where) = v
  BY DEF Told, Text
<1>6. Meant(v) = IF config.json THEN Quoted(Plain(v.str)) ELSE Plain(v.str)
  BY DEF Meant, Text
<1>7. JSONSound(Quoted(x)) /\ (ConsoleSound(x) => ConsoleSound(Quoted(x))) /\ Delimited(Quoted(x))
  BY <1>3, <1>4, QuotedSound, QuotedDelimited
<1>8. CASE t = Quoted(x)
  <2>1. Seen(t) = IF config.json THEN Quoted(Plain(v.str)) ELSE Plain(v.str)
    BY <1>4, <1>8, SeenQuoted
  <2>2. ValueSound(t)
    BY <1>3, <1>7, <1>8 DEF ValueSound
  <2> QED
    BY <1>2, <1>4, <1>5, <1>6, <1>8, <2>1, <2>2
<1>9. CASE ~config.json /\ t = x /\ \A i \in DOMAIN x : x[i] # Raw(Space)
  <2>1. Seen(t) = Plain(v.str)
    BY <1>4, <1>9 DEF Seen
  <2>2. Delimited(t)
    BY <1>9 DEF Delimited
  <2>3. ValueSound(t)
    BY <1>3, <1>9, <2>2 DEF ValueSound
  <2> QED
    BY <1>2, <1>4, <1>5, <1>6, <1>9, <2>1, <2>3
<1> QED
  BY <1>3, <1>8, <1>9 DEF Boolean

LEMMA ArrayPrinted ==
  ASSUME Boolean, NEW v \in Passable, v.type = "array", NEW where \in Passes
  PROVE  /\ Tokens(v, Where(where)) \in Seq(Token)
         /\ Seen(Tokens(v, Where(where))) = Meant(Told(v, where))
         /\ ValueSound(Tokens(v, Where(where)))
<1>1. v.elems \in Seq(Elements) /\ v.type \in Types
  BY PassableParts DEF Elements
<1>2. Taken(Where(where), v.type).case = "array"
  BY <1>1, SwitchesAgree DEF Where, Boolean, MeantCase
<1>3. PICK t : t = Array(v.elems)
  OBVIOUS
<1>4. Tokens(v, Where(where)) = t
  BY <1>2, <1>3 DEF Tokens, Printed
<1>5. /\ t \in Seq(Token) /\ JSONSound(t) /\ Unescaped(t) = ArrayMeant(v.elems)
      /\ t # << >> /\ t[1] = <<"punct", 1>>
  BY <1>1, <1>3, ArrayIs
<1>6. Content(t) = t
  BY <1>5, ContentBare
<1>7. Seen(t) = ArrayMeant(v.elems)
  BY <1>5, <1>6 DEF Seen
<1>8. Told(v, where) = v /\ Meant(v) = ArrayMeant(v.elems)
  BY DEF Told, Meant, Text
<1>9. Head(t \o Null)[1] = "punct"
  <2>1. Null \in Seq(Token)
    BY DEF Null, Token
  <2>2. PICK u : u = t \o Null
    OBVIOUS
  <2>3. PICK n \in Nat : n = Len(t)
    BY <1>5
  <2>4. PICK k \in Nat : k = Len(Null)
    BY <2>1
  <2>5. u \in Seq(Token) /\ Len(u) = n + k /\ \A i \in 1 .. n + k : u[i] = IF i <= n THEN t[i] ELSE Null[i - n]
    <3>1. /\ t \o Null \in Seq(Token) /\ Len(t \o Null) = Len(t) + Len(Null)
          /\ \A i \in 1 .. Len(t) + Len(Null) :
                (t \o Null)[i] = IF i <= Len(t) THEN t[i] ELSE Null[i - Len(t)]
      BY ONLY <1>5, <2>1, ConcatType
    <3> QED
      BY ONLY <2>2, <2>3, <2>4, <3>1
  <2>6. n >= 1
    BY <1>5, <2>3
  <2>7. u[1] = <<"punct", 1>> /\ u # << >>
    BY <1>5, <2>5, <2>6
  <2>8. Head(u) = <<"punct", 1>>
    BY <2>5, <2>7
  <2>9. Head(t \o Null) = <<"punct", 1>>
    BY ONLY <2>2, <2>8
  <2>10. <<"punct", 1>>[1] = "punct"
    OBVIOUS
  <2> QED
    BY ONLY <2>9, <2>10
<1>10. ValueSound(t)
  BY <1>5, <1>9 DEF ValueSound
<1> QED
  BY <1>4, <1>5, <1>7, <1>8, <1>10

LEMMA OneSound ==
  ASSUME NEW k \in Token, k[1] \notin {"raw", "esc", "quote", "punct"}
  PROVE  /\ << k >> \in Seq(Token) /\ Quoted(<< k >>) \in Seq(Token)
         /\ ValueSound(<< k >>) /\ ValueSound(Quoted(<< k >>))
<1>1. << k >> \in Seq(Token) /\ DOMAIN << k >> = 1 .. 1 /\ << k >>[1] = k
  OBVIOUS
<1>2. JSONSound(<< k >>) /\ ConsoleSound(<< k >>)
  BY <1>1 DEF JSONSound, ConsoleSound
<1>3. Delimited(<< k >>)
  BY <1>1 DEF Delimited, Raw
<1>4. Quoted(<< k >>) \in Seq(Token)
  BY <1>1, QuotedParts
<1>5. JSONSound(Quoted(<< k >>)) /\ ConsoleSound(Quoted(<< k >>)) /\ Delimited(Quoted(<< k >>))
  BY <1>1, <1>2, QuotedSound, QuotedDelimited
<1> QED
  BY <1>1, <1>2, <1>3, <1>4, <1>5 DEF ValueSound

\* Whatever is logged, and whichever pass, switch and cache prints it, it is read back
\* as what it means, and nothing in it is raw that has to be escaped.
LEMMA ValueIs ==
  ASSUME CachesOwn, Numbered, Boolean, NEW v \in Passable, NEW where \in Passes,
         where = "static" => v \in Loggable
  PROVE  /\ Tokens(v, Where(where)) \in Seq(Token)
         /\ Seen(Tokens(v, Where(where))) = Meant(Told(v, where))
         /\ ValueSound(Tokens(v, Where(where)))
<1>1. CASE v.type \in Text
  BY <1>1, TextIs
<1>2. CASE v.type = "array"
  BY <1>2, ArrayPrinted
<1>3. CASE v.type \notin Text \cup {"array"}
  <2>1. PICK t : t = Tokens(v, Where(where))
    OBVIOUS
  <2>2. /\ Seen(t) = Meant(Told(v, where))
        /\ \E k \in Token : /\ k[1] \notin {"raw", "esc", "quote", "punct"}
                            /\ t = << k >> \/ t = Quoted(<< k >>)
    BY <1>3, <2>1, OnePrinted
  <2>3. t \in Seq(Token) /\ ValueSound(t)
    BY <2>2, OneSound
  <2> QED
    BY <2>1, <2>2, <2>3
<1> QED
  BY <1>1, <1>2, <1>3

-----------------------------------------------------------------------------
(* Keys. *)

LEMMA PrintedKeyIs ==
  ASSUME NEW json \in BOOLEAN, NEW key \in Seq(Nat), NEW trusted, trusted => JSONClean(key)
  PROVE  /\ \E x : Spells(x, key) /\ PrintedKey(json, key, trusted) = IF json THEN Quoted(x) ELSE x
         /\ json => JSONSound(PrintedKey(json, key, trusted))
<1>1. /\ Spells(Plain(key), key) /\ Spells(JSONEscaped(key), key)
      /\ JSONSound(JSONEscaped(key)) /\ (trusted => JSONSound(Plain(key)))
  BY WaysSpell, WaysSound
<1>2. Plain(key) \in Seq(Token) /\ JSONEscaped(key) \in Seq(Token)
  BY <1>1, SpelledType
<1>3. JSONSound(Quoted(JSONEscaped(key))) /\ (trusted => JSONSound(Quoted(Plain(key))))
  BY <1>1, <1>2, QuotedSound
<1> QED
  BY <1>1, <1>3 DEF PrintedKey

LEMMA StaticKeyIs ==
  ASSUME Boolean, NEW f \in Fields
  PROVE  /\ \E x : /\ Spells(x, f.key)
                   /\ StaticKey(config.json, config.colour, f) = IF config.json THEN Quoted(x) ELSE x
         /\ config.json => JSONSound(StaticKey(config.json, config.colour, f))
<1>1. f.key \in Seq(Nat) /\ (f.trusted => JSONClean(f.key))
  BY DEF Fields
<1>2. CASE config.json /\ ~config.colour /\ ~f.trusted
  <2>1. StaticKey(config.json, config.colour, f) = Quoted(JSONByTable(f.key))
    BY <1>2 DEF StaticKey
  <2>2. Spells(JSONByTable(f.key), f.key) /\ JSONSound(JSONByTable(f.key))
    BY <1>1, WaysSpell, WaysSound
  <2>3. JSONSound(Quoted(JSONByTable(f.key)))
    BY <1>1, <2>2, SpelledType, QuotedSound
  <2> QED
    BY <1>2, <2>1, <2>2, <2>3
<1>3. CASE ~(config.json /\ ~config.colour /\ ~f.trusted)
  <2>1. StaticKey(config.json, config.colour, f) = PrintedKey(config.json, f.key, f.trusted)
    BY <1>3 DEF StaticKey
  <2> QED
    BY <1>1, <2>1, PrintedKeyIs DEF Boolean
<1> QED
  BY <1>2, <1>3

\* The string that a key is read back as.
LEMMA KeyRead ==
  ASSUME NEW key \in Seq(Nat), NEW x, Spells(x, key), NEW printed, printed = Quoted(x) \/ printed = x
  PROVE  Unescaped(Content(printed)) = Plain(key)
<1>1. x \in Seq(Token) /\ Unescaped(x) = Plain(key) /\ Content(x) = x /\ Content(Quoted(x)) = x
  BY SpelledType, UnescapedSpelled, ContentSpelled, ContentQuoted
<1> QED
  BY <1>1

\* A key that goes without escaping needs none.
LEMMA TrustedKey ==
  ASSUME NEW v \in Passable, NEW n \in Nat, NEW where,
         KeyTrusted(v, KeyText(v, n), where)
  PROVE  JSONClean(KeyText(v, n))
<1> DEFINE key == KeyText(v, n)
<1>1. key \in Seq(Nat)
  BY KeyTextType
<1>2. CASE v.type = "trusted"
  <2>1. key = v.str
    BY <1>2 DEF KeyText
  <2> QED
    BY <1>2, <2>1, PassableParts
<1>3. CASE v.type # "trusted"
  <2>1. TrustedASCII(key) \/ ~HasUnsafe(key)
    BY <1>3 DEF KeyTrusted
  <2> HIDE DEF key
  <2>2. JSONClean(key)
    BY <1>1, <2>1, SafeIsClean
  <2> QED
    BY <2>2 DEF key
<1> QED
  BY <1>2, <1>3

-----------------------------------------------------------------------------
(* The literals of the caches. *)

LEMMA StoredNumbered ==
  ASSUME Tables, Numbered, NEW kind \in Kinds \cup {"none"}, NEW id \in Nat,
         caches' = Stored(kind, id)
  PROVE  Numbered'
<1>1. CASE caches' = caches
  BY <1>1 DEF Numbered
<1>2. CASE caches' # caches
  <2> DEFINE key   == KeyOf(kind, id)
             slot  == SlotOf(kind, key)
             place == [full |-> TRUE, key |-> key, text |-> id]
  <2>1. kind \in Kinds /\ caches' = [caches EXCEPT ![kind][slot] = place]
    BY <1>2 DEF Stored
  <2>2. place.text = id
    OBVIOUS
  <2> HIDE DEF place, slot, key
  <2>3. \A k \in Kinds, s \in 0 .. Slots - 1 :
           caches'[k][s] = IF k = kind /\ s = slot THEN place ELSE caches[k][s]
    BY <2>1 DEF Tables
  <2> QED
    BY <2>2, <2>3 DEF Numbered
<1> QED
  BY <1>1, <1>2

LEMMA AfterNumbered ==
  ASSUME Tables, Numbered, NEW v, v.id \in Nat, NEW chain, caches' = CachesAfter(v, chain)
  PROVE  Numbered'
<1> DEFINE kind == CacheAsked(Taken(chain, v.type), v, config.colour)
<1>1. kind \in Kinds \cup {"none"}
  BY AskedKinds
<1>2. caches' = Stored(kind, v.id)
  BY DEF CachesAfter
<1> HIDE DEF kind
<1> QED
  BY <1>1, <1>2, StoredNumbered

\* The argument that is printed next.
LEMMA PairParts ==
  ASSUME TInv, IsPair
  PROVE  /\ 2 * at \in 1 .. Len(args) /\ 2 * at - 1 \in 1 .. Len(args) /\ at - 1 \in Nat
         /\ args[2 * at] \in Passable /\ args[2 * at - 1] \in Passable
<1>1. args \in Seq(Passable) /\ at \in Nat \ {0} /\ 2 * at <= Len(args)
  BY DEF TInv, IsPair
<1> QED
  BY <1>1

LEMMA OddParts ==
  ASSUME TInv, 2 * at - 1 = Len(args)
  PROVE  Len(args) \in 1 .. Len(args) /\ at - 1 \in Nat /\ args[Len(args)] \in Passable
<1>1. args \in Seq(Passable) /\ at \in Nat \ {0} /\ 2 * at - 1 = Len(args)
  BY DEF TInv
<1>2. Len(args) >= 1 /\ at - 1 \in Nat
  BY <1>1
<1> QED
  BY <1>1, <1>2

LEMMA FieldParts ==
  ASSUME TInv, at <= Len(fields)
  PROVE  /\ fields[at] \in Fields /\ fields[at].value \in Loggable
         /\ fields[at].value \in Passable
         /\ fields[at].key \in Seq(Nat)
<1>1. fields \in Seq(Fields) /\ at \in Nat \ {0}
  BY DEF TInv
<1>2. fields[at] \in Fields
  BY <1>1
<1> QED
  BY <1>2, LoggableIsPassable DEF Fields

LEMMA InitNumbered == Init => Numbered
  BY DEF Init, Numbered, Fresh, Kinds

LEMMA StepNumbered ==
  ASSUME TInv, CInv, Numbered, [Next]_vars
  PROVE  Numbered'
<1>1. CASE UNCHANGED caches
  BY <1>1 DEF Numbered
<1>2. CASE EncodeField
  <2>1. at <= Len(fields)
    BY <1>2 DEF EncodeField
  <2>2. fields[at].value.id \in Nat
    BY <2>1, FieldParts, PassableParts
  <2>3. caches' = caches \/ caches' = CachesAfter(fields[at].value, Where("static"))
    BY <1>2 DEF EncodeField
  <2> QED
    BY <1>1, <2>2, <2>3, AfterNumbered DEF CInv
<1>3. ASSUME NEW where, IsPair, WritePair(where) PROVE Numbered'
  <2>1. args[2 * at].id \in Nat
    BY <1>3, PairParts, PassableParts
  <2>2. caches' = caches \/ caches' = CachesAfter(args[2 * at], Where(where))
    BY <1>3 DEF WritePair
  <2> QED
    BY <1>1, <2>1, <2>2, AfterNumbered DEF CInv
<1>4. CASE OddArgument
  <2>1. 2 * at - 1 = Len(args)
    BY <1>4 DEF OddArgument
  <2>2. args[Len(args)].id \in Nat
    BY <2>1, OddParts, PassableParts
  <2>3. caches' = CachesAfter(args[Len(args)], Where(IF config.json THEN "fast" ELSE phase))
    BY <1>4 DEF OddArgument
  <2> QED
    BY <2>2, <2>3, AfterNumbered DEF CInv
<1>5. CASE PoolMakesNew
  BY <1>5 DEF PoolMakesNew, Numbered, Fresh, Kinds
<1>6. CASE FastPair \/ SlowPair
  BY <1>3, <1>6 DEF FastPair, SlowPair
<1>7. CASE Start \/ Write \/ Call \/ Log \/ FastFails \/ Finish \/ UNCHANGED vars
  BY <1>1, <1>7 DEF Start, Write, Call, Log, FastFails, Finish, vars
<1> QED
  BY <1>2, <1>4, <1>5, <1>6, <1>7 DEF Next

\* What the proofs of what is written and read need of the state.
SessionInv == TInv /\ EInv /\ CInv /\ Numbered

LEMMA SpecSessionInv == Spec => []SessionInv
<1>1. Init => CInv /\ Numbered
  BY InitCInv, InitNumbered
<1>2. TInv /\ CInv /\ Numbered /\ [Next]_vars => (CInv /\ Numbered)'
  BY StepCInv, StepNumbered
<1> QED
  BY <1>1, <1>2, SpecTInv, PTL DEF Spec, SessionInv

LEMMA Booleans ==
  ASSUME SessionInv, phase # "start"
  PROVE  Boolean /\ CachesOwn /\ Numbered
  BY ConfigParts DEF SessionInv, CInv, Boolean

-----------------------------------------------------------------------------
(* Nothing is raw that has to be escaped. *)

\* A field as it is written.
Rows ==
    {f \in [key : Seq(Token), value : Seq(Token)] :
        ValueSound(f.value) /\ (config.json => JSONSound(f.key))}

HeadSound(head) ==
    IF config.json THEN JSONSound(head.msg) /\ JSONSound(head.stamp) ELSE ConsoleSound(head.msg)

SInv ==
    /\ phase = "start" => static = << >> /\ runtime = << >> /\ lines = << >>
    /\ static \in Seq(Rows) /\ runtime \in Seq(Rows)
    /\ Len(lines) \in Nat /\ DOMAIN lines = 1 .. Len(lines)
    /\ \A n \in 1 .. Len(lines) :
          /\ HeadSound(lines[n].head)
          /\ lines[n].static \in Seq(Rows) /\ lines[n].runtime \in Seq(Rows)

\* The row of a field of With, of a pair and of an argument without a key.
StaticRow(f) ==
    [key |-> StaticKey(config.json, config.colour, f), value |-> Tokens(f.value, Where("static"))]

PairRow(where) ==
    [key |-> PrintedKey(config.json, KeyText(args[2 * at - 1], at - 1),
                        KeyTrusted(args[2 * at - 1], KeyText(args[2 * at - 1], at - 1), where)),
     value |-> Tokens(args[2 * at], Where(where))]

OddRow ==
    [key |-> PrintedKey(config.json, ArgKey(at - 1), FALSE),
     value |-> Tokens(args[Len(args)], Where(IF config.json THEN "fast" ELSE phase))]

\* How the row of a key and a value reads.
SeenRow(f) == [key |-> Unescaped(Content(f.key)), value |-> Seen(f.value)]

LEMMA SpelledRow ==
  ASSUME Boolean, NEW key \in Seq(Nat), NEW x, Spells(x, key),
         NEW printed, printed = IF config.json THEN Quoted(x) ELSE x
  PROVE  printed \in Seq(Token) /\ Unescaped(Content(printed)) = Plain(key)
<1>1. x \in Seq(Token)
  BY SpelledType
<1>2. printed = Quoted(x) \/ printed = x
  BY DEF Boolean
<1>3. printed \in Seq(Token)
  BY <1>1, <1>2, QuotedParts
<1> QED
  BY <1>2, <1>3, KeyRead

LEMMA StaticRowIs ==
  ASSUME SessionInv, phase # "start", at <= Len(fields)
  PROVE  LET f == fields[at]
         IN  /\ StaticRow(f) \in Rows
             /\ SeenRow(StaticRow(f)) =
                  [key |-> Plain(f.key), value |-> Meant(Told(f.value, "static"))]
<1> DEFINE f == fields[at]
<1>1. TInv /\ Boolean /\ CachesOwn /\ Numbered
  BY Booleans DEF SessionInv
<1>2. f \in Fields /\ f.value \in Loggable /\ f.value \in Passable /\ f.key \in Seq(Nat)
  BY <1>1, FieldParts
<1> HIDE DEF f
<1>3. PICK k, t : k = StaticKey(config.json, config.colour, f) /\ t = Tokens(f.value, Where("static"))
  OBVIOUS
<1>4. PICK x : Spells(x, f.key) /\ k = IF config.json THEN Quoted(x) ELSE x
  BY <1>1, <1>2, <1>3, StaticKeyIs
<1>5. k \in Seq(Token) /\ Unescaped(Content(k)) = Plain(f.key)
  BY <1>1, <1>2, <1>4, SpelledRow
<1>6. config.json => JSONSound(k)
  BY <1>1, <1>2, <1>3, StaticKeyIs
<1>7. t \in Seq(Token) /\ Seen(t) = Meant(Told(f.value, "static")) /\ ValueSound(t)
  <2>1. "static" \in Passes
    BY DEF Passes
  <2> QED
    BY <1>1, <1>2, <1>3, <2>1, ValueIs
<1>8. StaticRow(f) = [key |-> k, value |-> t]
  BY <1>3 DEF StaticRow
<1>9. StaticRow(f) \in Rows
  BY <1>5, <1>6, <1>7, <1>8 DEF Rows
<1>10. SeenRow(StaticRow(f)) = [key |-> Plain(f.key), value |-> Meant(Told(f.value, "static"))]
  BY <1>5, <1>7, <1>8 DEF SeenRow
<1> QED
  BY <1>9, <1>10 DEF f

LEMMA PairRowIs ==
  ASSUME SessionInv, phase # "start", IsPair, NEW where \in {"fast", "slow"}
  PROVE  /\ PairRow(where) \in Rows
         /\ SeenRow(PairRow(where)) =
              [key |-> Plain(KeyText(args[2 * at - 1], at - 1)), value |-> Meant(args[2 * at])]
<1> DEFINE v == args[2 * at]
           kv == args[2 * at - 1]
           key == KeyText(kv, at - 1)
           trusted == KeyTrusted(kv, key, where)
<1>1. TInv /\ Boolean /\ CachesOwn /\ Numbered
  BY Booleans DEF SessionInv
<1>2. v \in Passable /\ kv \in Passable /\ at - 1 \in Nat
  BY <1>1, PairParts
<1> HIDE DEF v, kv
<1>3. key \in Seq(Nat) /\ (trusted => JSONClean(key))
  BY <1>2, KeyTextType, TrustedKey
<1> HIDE DEF trusted, key
<1>4. PICK k, t : k = PrintedKey(config.json, key, trusted) /\ t = Tokens(v, Where(where))
  OBVIOUS
<1>5. PICK x : Spells(x, key) /\ k = IF config.json THEN Quoted(x) ELSE x
  BY <1>1, <1>3, <1>4, PrintedKeyIs DEF Boolean
<1>6. k \in Seq(Token) /\ Unescaped(Content(k)) = Plain(key)
  BY <1>1, <1>3, <1>5, SpelledRow
<1>7. config.json => JSONSound(k)
  BY <1>1, <1>3, <1>4, PrintedKeyIs DEF Boolean
<1>8. t \in Seq(Token) /\ Seen(t) = Meant(v) /\ ValueSound(t)
  <2>1. where \in Passes /\ where # "static"
    BY DEF Passes
  <2>2. Told(v, where) = v
    BY <2>1 DEF Told
  <2> QED
    BY <1>1, <1>2, <1>4, <2>1, <2>2, ValueIs
<1>9. PairRow(where) = [key |-> k, value |-> t]
  BY <1>4 DEF PairRow, v, kv, key, trusted
<1>10. PairRow(where) \in Rows
  BY <1>6, <1>7, <1>8, <1>9 DEF Rows
<1>11. SeenRow(PairRow(where)) = [key |-> Plain(key), value |-> Meant(v)]
  BY <1>6, <1>8, <1>9 DEF SeenRow
<1> QED
  BY <1>10, <1>11 DEF v, kv, key

LEMMA OddRowIs ==
  ASSUME SessionInv, phase \in {"fast", "slow"}, 2 * at - 1 = Len(args)
  PROVE  /\ OddRow \in Rows
         /\ SeenRow(OddRow) = [key |-> Plain(ArgKey(at - 1)), value |-> Meant(args[Len(args)])]
<1> DEFINE v == args[Len(args)]
           key == ArgKey(at - 1)
           where == IF config.json THEN "fast" ELSE phase
<1>1. TInv /\ Boolean /\ CachesOwn /\ Numbered
  BY Booleans DEF SessionInv
<1>2. v \in Passable /\ at - 1 \in Nat
  BY <1>1, OddParts
<1>3. key \in Seq(Nat)
  BY <1>2, ArgKeyType
<1>4. where \in Passes /\ where # "static"
  BY DEF Passes
<1> HIDE DEF v, key, where
<1>13. PICK trusted \in BOOLEAN : trusted = FALSE
  OBVIOUS
<1>14. trusted => JSONClean(key)
  BY <1>13
<1>5. PICK k, t : k = PrintedKey(config.json, key, trusted) /\ t = Tokens(v, Where(where))
  OBVIOUS
<1>6. PICK x : Spells(x, key) /\ k = IF config.json THEN Quoted(x) ELSE x
  BY <1>1, <1>3, <1>5, <1>14, PrintedKeyIs DEF Boolean
<1>7. k \in Seq(Token) /\ Unescaped(Content(k)) = Plain(key)
  BY <1>1, <1>3, <1>6, SpelledRow
<1>8. config.json => JSONSound(k)
  BY <1>1, <1>3, <1>5, <1>14, PrintedKeyIs DEF Boolean
<1>9. t \in Seq(Token) /\ Seen(t) = Meant(v) /\ ValueSound(t)
  <2>1. Told(v, where) = v
    BY <1>4 DEF Told
  <2> QED
    BY <1>1, <1>2, <1>4, <1>5, <2>1, ValueIs
<1>10. OddRow = [key |-> k, value |-> t]
  BY <1>5, <1>13 DEF OddRow, v, key, where
<1>11. OddRow \in Rows
  BY <1>7, <1>8, <1>9, <1>10 DEF Rows
<1>12. SeenRow(OddRow) = [key |-> Plain(key), value |-> Meant(v)]
  BY <1>7, <1>9, <1>10 DEF SeenRow
<1> QED
  BY <1>11, <1>12 DEF v, key

\* What the emitters put in front: the message escaped, the time stamp too unless
\* buildAdapter found it safe.
LEMMA LineHeadSound ==
  ASSUME SessionInv, phase \in {"fast", "slow"}
  PROVE  HeadSound(LineHead)
<1>1. TInv /\ EInv /\ Boolean
  BY Booleans DEF SessionInv
<1>2. call.msg \in Seq(Nat)
  BY <1>1 DEF TInv, Entries
<1>3. /\ config.layout.text \in Seq(Nat) /\ config.stampTrusted \in BOOLEAN
      /\ config.stampTrusted => ~HasUnsafe(Stamp(config.layout))
  BY <1>1, ConfigParts
<1>4. PICK s : s = Stamp(config.layout)
  OBVIOUS
<1>5. s \in Seq(Nat) /\ (config.stampTrusted => JSONClean(s))
  <2>1. s \in Seq(Nat)
    BY <1>3, <1>4 DEF Stamp
  <2> QED
    BY <1>3, <1>4, <2>1, SafeIsClean
<1>6. CASE config.json
  <2>1. LineHead = JSONHead
    BY <1>1, <1>6 DEF LineHead, JSONColorHead, Boolean
  <2>2. JSONSound(<< >>)
    BY DEF JSONSound
  <2>3. ASSUME NEW x \in Seq(Nat) PROVE JSONSound(Quoted(JSONEscaped(x)))
    BY WaysSpell, WaysSound, SpelledType, QuotedSound
  <2>4. JSONSound(JSONHead.msg)
    BY <1>2, <2>2, <2>3 DEF JSONHead
  <2>5. JSONSound(JSONHead.stamp)
    <3>1. config.stampTrusted => JSONSound(Quoted(Plain(s)))
      BY <1>5, WaysSpell, WaysSound, SpelledType, QuotedSound
    <3>2. JSONHead.stamp = IF ~config.timestamp THEN << >>
                           ELSE IF config.stampTrusted THEN Quoted(Plain(s))
                           ELSE Quoted(JSONEscaped(s))
      BY <1>4 DEF JSONHead
    <3> QED
      BY <1>3, <1>5, <2>2, <2>3, <3>1, <3>2
  <2> QED
    BY <1>6, <2>1, <2>4, <2>5 DEF HeadSound
<1>7. CASE ~config.json
  <2>1. LineHead = ConsoleHead
    BY <1>1, <1>7 DEF LineHead, ConsoleColorHead, Boolean
  <2>2. ConsoleHead.msg = MessageByTable(call.msg)
    BY DEF ConsoleHead
  <2> QED
    BY <1>2, <1>7, <2>1, <2>2, WaysSound DEF HeadSound
<1> QED
  BY <1>1, <1>6, <1>7 DEF Boolean

\* What keeps the options keeps the rows and the heads.
LEMMA SameRows ==
  ASSUME UNCHANGED config
  PROVE  Rows' = Rows
  BY DEF Rows, ValueSound

LEMMA InitSInv == Init => SInv
<1> SUFFICES ASSUME Init PROVE SInv
  OBVIOUS
<1>1. static = << >> /\ runtime = << >> /\ lines = << >>
  BY DEF Init
<1>2. << >> \in Seq(Rows) /\ Len(<< >>) = 0 /\ DOMAIN << >> = 1 .. 0
  OBVIOUS
<1> QED
  BY <1>1, <1>2 DEF SInv

LEMMA StartSInv ==
  ASSUME SInv, Start
  PROVE  SInv'
<1>1. static' = << >> /\ runtime' = << >> /\ lines' = << >>
  BY DEF Start, SInv
<1>2. << >> \in Seq(Rows') /\ Len(<< >>) = 0 /\ DOMAIN << >> = 1 .. 0
  OBVIOUS
<1> QED
  BY <1>1, <1>2 DEF SInv

\* Neither the fields nor the lines before change, unless there is another row.
LEMMA RowsSInv ==
  ASSUME SInv, UNCHANGED <<config, lines>>, phase' # "start",
         static' \in Seq(Rows), runtime' \in Seq(Rows)
  PROVE  SInv'
<1>1. Rows' = Rows
  BY SameRows
<1>2. (Len(lines) \in Nat /\ DOMAIN lines = 1 .. Len(lines))'
  BY DEF SInv
<1>3. ASSUME NEW n \in 1 .. Len(lines')
      PROVE  HeadSound(lines[n].head)' /\ lines'[n].static \in Seq(Rows') /\ lines'[n].runtime \in Seq(Rows')
  BY <1>1, <1>3 DEF SInv, HeadSound
<1> QED
  BY <1>1, <1>2, <1>3 DEF SInv

LEMMA PairSInv ==
  ASSUME SessionInv, SInv, NEW where \in {"fast", "slow"}, phase = where, phase' = where, IsPair,
         WritePair(where), UNCHANGED <<config, lines, static>>
  PROVE  SInv'
<1>1. phase # "start" /\ phase' # "start"
  OBVIOUS
<1>2. runtime' = runtime \/ runtime' = Append(runtime, PairRow(where))
  BY DEF WritePair, PairRow
<1>3. PairRow(where) \in Rows
  BY <1>1, PairRowIs
<1>4. runtime \in Seq(Rows) /\ static' \in Seq(Rows)
  BY DEF SInv
<1>5. runtime' \in Seq(Rows)
  BY <1>2, <1>3, <1>4
<1> QED
  BY <1>1, <1>4, <1>5, RowsSInv

LEMMA FinishSInv ==
  ASSUME SessionInv, SInv, Finish
  PROVE  SInv'
<1> DEFINE line == [to |-> out.dests, call |-> call, head |-> LineHead,
                    static |-> static, runtime |-> runtime]
<1>1. /\ lines' = Append(lines, line) /\ phase \in {"fast", "slow"} /\ phase' = "idle"
      /\ UNCHANGED <<config, static, runtime>>
  BY DEF Finish
<1>2. line.head = LineHead /\ line.static = static /\ line.runtime = runtime
  OBVIOUS
<1> HIDE DEF line
<1>3. PICK l \in Nat : l = Len(lines) /\ DOMAIN lines = 1 .. l
  BY DEF SInv
<1>4. /\ Len(lines') = l + 1 /\ DOMAIN lines' = 1 .. l + 1
      /\ lines'[l + 1] = line /\ \A n \in 1 .. l : lines'[n] = lines[n]
  BY <1>1, <1>3
<1>5. Rows' = Rows
  BY <1>1, SameRows
<1>6. static \in Seq(Rows) /\ runtime \in Seq(Rows)
  BY DEF SInv
<1>7. HeadSound(LineHead)
  BY <1>1, LineHeadSound
<1>8. ASSUME NEW n \in 1 .. l + 1
      PROVE  /\ HeadSound(lines'[n].head)
             /\ lines'[n].static \in Seq(Rows) /\ lines'[n].runtime \in Seq(Rows)
  <2>1. CASE n = l + 1
    BY <1>2, <1>4, <1>6, <1>7, <2>1
  <2>2. CASE n # l + 1
    <3>1. n \in 1 .. l /\ lines'[n] = lines[n]
      BY <1>4, <2>2
    <3> QED
      BY <1>3, <3>1 DEF SInv
  <2> QED
    BY <2>1, <2>2
<1>9. \A n \in 1 .. l + 1 : HeadSound(lines[n].head)'
  BY <1>1, <1>8 DEF HeadSound
<1>10. (static \in Seq(Rows) /\ runtime \in Seq(Rows))'
  BY <1>1, <1>5, <1>6
<1>11. l + 1 \in Nat
  OBVIOUS
<1> QED
  BY <1>1, <1>4, <1>5, <1>8, <1>9, <1>10, <1>11 DEF SInv

LEMMA StepSInv ==
  ASSUME SessionInv, SInv, [Next]_vars
  PROVE  SInv'
<1>1. static \in Seq(Rows) /\ runtime \in Seq(Rows) /\ << >> \in Seq(Rows)
  BY DEF SInv
<1>2. CASE Write
  <2>1. UNCHANGED <<config, lines, static, runtime>> /\ phase' # "start"
    BY <1>2 DEF Write
  <2> QED
    BY <1>1, <2>1, RowsSInv
<1>3. CASE Call
  <2>1. UNCHANGED <<config, lines, runtime>> /\ static' = << >> /\ phase' # "start"
    BY <1>3 DEF Call
  <2> QED
    BY <1>1, <2>1, RowsSInv
<1>4. CASE EncodeField
  <2>1. /\ UNCHANGED <<config, lines, runtime>> /\ phase # "start" /\ phase' # "start"
        /\ at <= Len(fields)
        /\ static' = static \/ static' = Append(static, StaticRow(fields[at]))
    BY <1>4 DEF EncodeField, StaticRow
  <2>2. StaticRow(fields[at]) \in Rows
    BY <2>1, StaticRowIs
  <2>3. static' \in Seq(Rows)
    BY <1>1, <2>1, <2>2
  <2> QED
    BY <1>1, <2>1, <2>3, RowsSInv
<1>5. CASE Log
  <2>1. /\ UNCHANGED <<config, lines, static>> /\ phase' # "start"
        /\ runtime' = << >> \/ runtime' = runtime
    BY <1>5 DEF Log
  <2> QED
    BY <1>1, <2>1, RowsSInv
<1>6. CASE FastPair
  BY <1>6, PairSInv DEF FastPair
<1>7. CASE SlowPair
  BY <1>7, PairSInv DEF SlowPair
<1>8. CASE FastFails
  <2>1. UNCHANGED <<config, lines, static>> /\ phase' # "start" /\ runtime' = << >>
    BY <1>8 DEF FastFails, BackToStart
  <2> QED
    BY <1>1, <2>1, RowsSInv
<1>9. CASE OddArgument
  <2>1. /\ UNCHANGED <<config, lines, static>> /\ phase' # "start"
        /\ phase \in {"fast", "slow"} /\ 2 * at - 1 = Len(args)
        /\ runtime' = Append(runtime, OddRow)
    BY <1>9 DEF OddArgument, OddRow
  <2>2. runtime' \in Seq(Rows)
    BY <1>1, <2>1, OddRowIs
  <2> QED
    BY <1>1, <2>1, <2>2, RowsSInv
<1>10. CASE PoolMakesNew
  <2>1. UNCHANGED <<config, lines, static, runtime>> /\ phase' # "start"
    BY <1>10 DEF PoolMakesNew
  <2> QED
    BY <1>1, <2>1, RowsSInv
<1>11. CASE UNCHANGED vars
  <2>1. UNCHANGED <<phase, config, lines, static, runtime>>
    BY <1>11 DEF vars
  <2>2. CASE phase' # "start"
    BY <1>1, <2>1, <2>2, RowsSInv
  <2>3. CASE phase' = "start"
    <3>1. static' = << >> /\ runtime' = << >> /\ lines' = << >>
      BY <2>1, <2>3 DEF SInv
    <3>2. << >> \in Seq(Rows') /\ Len(<< >>) = 0 /\ DOMAIN << >> = 1 .. 0
      OBVIOUS
    <3> QED
      BY <3>1, <3>2 DEF SInv
  <2> QED
    BY <2>2, <2>3
<1> QED
  BY <1>2, <1>3, <1>4, <1>5, <1>6, <1>7, <1>8, <1>9, <1>10, <1>11, StartSInv, FinishSInv DEF Next

LEMMA SpecSInv == Spec => [](SessionInv /\ SInv)
  BY SpecSessionInv, InitSInv, StepSInv, PTL DEF Spec

\* In JSON nothing is raw that has to be escaped, on the console no value and no message
\* has a raw control byte, quote or backslash, and a space only between quotes: whatever
\* is logged, from whichever switch (json_escape.go, console_escape.go, writeTrustedKey).
THEOREM NothingUnescaped == Spec => []StringsEscaped
<1>1. ASSUME SInv PROVE StringsEscaped
  <2> SUFFICES ASSUME NEW n \in 1 .. Len(lines)
               PROVE  /\ IF config.json
                         THEN JSONSound(lines[n].head.msg) /\ JSONSound(lines[n].head.stamp)
                         ELSE ConsoleSound(lines[n].head.msg)
                      /\ \A f \in ToSet(lines[n].static \o lines[n].runtime) :
                            /\ JSONSound(f.value)
                            /\ config.json => JSONSound(f.key)
                            /\ ~config.json /\ Head(f.value \o Null)[1] # "punct"
                                  => ConsoleSound(f.value) /\ Delimited(f.value)
    BY <1>1 DEF SInv, StringsEscaped
  <2>1. HeadSound(lines[n].head) /\ lines[n].static \in Seq(Rows) /\ lines[n].runtime \in Seq(Rows)
    BY <1>1 DEF SInv
  <2>2. PICK s : s = lines[n].static \o lines[n].runtime
    OBVIOUS
  <2>3. s \in Seq(Rows)
    BY <2>1, <2>2
  <2>4. ASSUME NEW f \in ToSet(s) PROVE f \in Rows
    BY <2>3, <2>4 DEF ToSet
  <2>5. ASSUME NEW f \in Rows
        PROVE  /\ JSONSound(f.value)
               /\ config.json => JSONSound(f.key)
               /\ ~config.json /\ Head(f.value \o Null)[1] # "punct"
                     => ConsoleSound(f.value) /\ Delimited(f.value)
    BY <2>5 DEF Rows, ValueSound
  <2> QED
    BY <2>1, <2>2, <2>4, <2>5 DEF HeadSound
<1> QED
  BY <1>1, SpecSInv, PTL

-----------------------------------------------------------------------------
(* The fields of a line are read back. *)

\* Key and value of the n-th pair, or of the argument without a key.
PairKey(given, n) == IF 2 * n > Len(given) THEN ArgKey(n - 1) ELSE KeyText(given[2 * n - 1], n - 1)

PairValue(given, n) == IF 2 * n > Len(given) THEN given[Len(given)] ELSE given[2 * n]

MeantRow(given, n) == [key |-> Plain(PairKey(given, n)), value |-> Meant(PairValue(given, n))]

MeantRows(given) == {MeantRow(given, n) : n \in Nat}

LEMMA PairMeantIs ==
  ASSUME NEW given, NEW n \in Nat
  PROVE  /\ PairMeant(given, n) = IF PairKey(given, n) = << >> THEN << >> ELSE << MeantRow(given, n) >>
         /\ PairMeant(given, n) \in Seq(MeantRows(given))
<1>1. PairMeant(given, n) = IF PairKey(given, n) = << >> THEN << >> ELSE << MeantRow(given, n) >>
  BY DEF PairMeant, PairKey, PairValue, MeantRow
<1>2. MeantRow(given, n) \in MeantRows(given)
  BY DEF MeantRows
<1> QED
  BY <1>1, <1>2

\* What the first m pairs mean.
MeantUpTo(given, m) == FlattenSeq([n \in 1 .. m |-> PairMeant(given, n)])

LEMMA MeantGrows ==
  ASSUME NEW given, NEW m \in Nat
  PROVE  /\ MeantUpTo(given, m) \in Seq(MeantRows(given))
         /\ MeantUpTo(given, m + 1) = MeantUpTo(given, m) \o PairMeant(given, m + 1)
         /\ MeantUpTo(given, 0) = << >>
<1> DEFINE R == MeantRows(given)
<1> HIDE DEF R
<1>1. \A n \in Nat : PairMeant(given, n) \in Seq(R)
  BY PairMeantIs DEF R
<1>2. MeantUpTo(given, m) \in Seq(R)
  <2>1. [n \in 1 .. m |-> PairMeant(given, n)] \in Seq(Seq(R))
    BY <1>1
  <2> QED
    BY <2>1, FlattenType DEF MeantUpTo
<1>3. MeantUpTo(given, m + 1) = MeantUpTo(given, m) \o PairMeant(given, m + 1)
  <2>1. PICK P : P = [n \in 1 .. m + 1 |-> PairMeant(given, n)]
    OBVIOUS
  <2>2. /\ P = [n \in 1 .. m + 1 |-> P[n]]
        /\ \A n \in 1 .. m + 1 : P[n] \in Seq(R)
        /\ [n \in 1 .. m |-> P[n]] = [n \in 1 .. m |-> PairMeant(given, n)]
        /\ P[m + 1] = PairMeant(given, m + 1)
    BY <1>1, <2>1
  <2>3. FlattenSeq(P) = FlattenSeq([n \in 1 .. m |-> P[n]]) \o P[m + 1]
    BY <2>2, FlattenGrows
  <2> QED
    BY <2>1, <2>2, <2>3 DEF MeantUpTo
<1>4. MeantUpTo(given, 0) = << >>
  <2>1. [n \in 1 .. 0 |-> PairMeant(given, n)] = << >>
    OBVIOUS
  <2>2. << >> \in Seq(Seq(R))
    OBVIOUS
  <2> QED
    BY <2>1, <2>2, FlattenType DEF MeantUpTo
<1> QED
  BY <1>2, <1>3, <1>4 DEF R

\* A row more is read behind the rest.
LEMMA SeenGrows ==
  ASSUME NEW T, NEW written \in Seq(Rows), NEW row \in Rows, FieldsSeen(written) \in Seq(T),
         SeenRow(row) \in T
  PROVE  FieldsSeen(Append(written, row)) = FieldsSeen(written) \o << SeenRow(row) >>
<1>1. PICK n \in Nat : n = Len(written) /\ DOMAIN written = 1 .. n
  OBVIOUS
<1>2. \A w : FieldsSeen(w) = [i \in DOMAIN w |-> SeenRow(w[i])]
  BY DEF FieldsSeen, SeenRow
<1>3. PICK a : a = FieldsSeen(written)
  OBVIOUS
<1>4. a \in Seq(T) /\ Len(a) = n /\ \A i \in 1 .. n : a[i] = SeenRow(written[i])
  <2>1. a = [i \in 1 .. n |-> SeenRow(written[i])]
    BY <1>1, <1>2, <1>3
  <2> QED
    BY <1>1, <1>3, <2>1
<1>5. PICK x : x = SeenRow(row)
  OBVIOUS
<1>6. PICK w : w = Append(written, row)
  OBVIOUS
<1>7. DOMAIN w = 1 .. n + 1 /\ w[n + 1] = row /\ \A i \in 1 .. n : w[i] = written[i]
  BY <1>1, <1>6
<1>8. PICK b : b = FieldsSeen(w)
  OBVIOUS
<1>9. b = [i \in 1 .. n + 1 |-> SeenRow(w[i])]
  BY <1>2, <1>7, <1>8
<1>10. ASSUME NEW i \in 1 .. n + 1 PROVE SeenRow(w[i]) = IF i = n + 1 THEN x ELSE a[i]
  <2>1. CASE i = n + 1
    BY <1>5, <1>7, <2>1
  <2>2. CASE i # n + 1
    <3>1. i \in 1 .. n
      BY <2>2
    <3> QED
      BY <1>4, <1>7, <2>2, <3>1
  <2> QED
    BY <2>1, <2>2
<1>11. x \in T
  BY <1>5
<1>12. PICK c : c = a \o << x >>
  OBVIOUS
<1>13. c \in Seq(T) /\ Len(c) = n + 1 /\ \A i \in 1 .. n + 1 : c[i] = IF i = n + 1 THEN x ELSE a[i]
  <2>1. PICK e : e = << x >>
    OBVIOUS
  <2>2. e \in Seq(T) /\ Len(e) = 1 /\ e[1] = x
    BY <1>11, <2>1
  <2>3. /\ a \o e \in Seq(T) /\ Len(a \o e) = Len(a) + Len(e)
        /\ \A i \in 1 .. Len(a) + Len(e) : (a \o e)[i] = IF i <= Len(a) THEN a[i] ELSE e[i - Len(a)]
    BY ONLY <1>4, <2>2, ConcatType
  <2>4. c \in Seq(T) /\ Len(c) = n + 1 /\ \A i \in 1 .. n + 1 : c[i] = IF i <= n THEN a[i] ELSE e[i - n]
    <3>1. Len(a) = n /\ Len(e) = 1 /\ c = a \o e
      BY <1>4, <1>12, <2>1, <2>2
    <3> QED
      BY ONLY <2>3, <3>1
  <2>5. \A i \in 1 .. n + 1 : (i <= n <=> i # n + 1) /\ (i = n + 1 => i - n = 1)
    OBVIOUS
  <2> QED
    BY <2>2, <2>4, <2>5
<1>14. b \in Seq(T) /\ Len(b) = n + 1 /\ \A i \in 1 .. n + 1 : b[i] = IF i = n + 1 THEN x ELSE a[i]
  <2>1. \A i \in 1 .. n : a[i] \in T
    BY <1>4
  <2>2. \A i \in 1 .. n + 1 : (IF i = n + 1 THEN x ELSE a[i]) \in T
    BY <1>11, <2>1
  <2>3. b = [i \in 1 .. n + 1 |-> IF i = n + 1 THEN x ELSE a[i]]
    BY <1>9, <1>10
  <2> QED
    BY <2>2, <2>3
<1>15. b = c
  BY <1>13, <1>14, SeqEqual
<1> QED
  BY <1>3, <1>5, <1>6, <1>8, <1>12, <1>15

-----------------------------------------------------------------------------
(* The arguments. *)

LEMMA MeantConstant ==
  ASSUME UNCHANGED config
  PROVE  /\ \A given, m : MeantUpTo(given, m)' = MeantUpTo(given, m)
         /\ \A written : FieldsSeen(written)' = FieldsSeen(written)
<1>1. \A given, m : MeantUpTo(given, m)' = MeantUpTo(given, m)
  BY DEF MeantUpTo, PairMeant, Meant
<1>2. \A written : FieldsSeen(written)' = FieldsSeen(written)
  BY DEF FieldsSeen, Seen
<1> QED
  BY <1>1, <1>2

Passed == WithCaller(IF call.prepared THEN Keyvals(call.args) ELSE call.args, CallerField)

\* In both passes, what is written so far reads back as the pairs so far.
RInv ==
    phase \in {"fast", "slow"} =>
        /\ args = Passed
        /\ 2 * at - 3 <= Len(args)
        /\ FieldsSeen(runtime) = MeantUpTo(args, at - 1)

LEMMA PassedConstant ==
  ASSUME UNCHANGED <<config, call>>
  PROVE  Passed' = Passed
  BY DEF Passed, CallerField

LEMMA RowRInv ==
  ASSUME SessionInv, SInv, RInv, phase \in {"fast", "slow"}, at' = at + 1,
         UNCHANGED <<config, call, args, phase>>, 2 * at - 1 <= Len(args),
         NEW row \in Rows, SeenRow(row) = MeantRow(args, at),
         runtime' = IF PairKey(args, at) = << >> THEN runtime ELSE Append(runtime, row)
  PROVE  RInv'
<1>1. at \in Nat /\ at - 1 \in Nat /\ (at - 1) + 1 = at /\ at' - 1 = at
  BY DEF SessionInv, TInv
<1>2. PICK T : T = MeantRows(args)
  OBVIOUS
<1>3. /\ MeantUpTo(args, at - 1) \in Seq(T)
      /\ MeantUpTo(args, at) = MeantUpTo(args, at - 1) \o PairMeant(args, at)
  BY <1>1, <1>2, MeantGrows
<1>4. PairMeant(args, at) = IF PairKey(args, at) = << >> THEN << >> ELSE << MeantRow(args, at) >>
  BY <1>1, PairMeantIs
<1>5. MeantRow(args, at) \in T
  BY <1>1, <1>2 DEF MeantRows
<1>6. FieldsSeen(runtime) = MeantUpTo(args, at - 1)
  BY DEF RInv
<1>7. runtime \in Seq(Rows)
  BY DEF SInv
<1>8. FieldsSeen(runtime') = MeantUpTo(args, at)
  <2>1. CASE PairKey(args, at) = << >>
    <3>1. PICK s : s = MeantUpTo(args, at - 1)
      OBVIOUS
    <3>2. s \in Seq(T) /\ MeantUpTo(args, at) = s \o << >> /\ FieldsSeen(runtime') = s
      BY <1>3, <1>4, <1>6, <2>1, <3>1
    <3>3. s \o << >> = s
      BY <3>2
    <3> QED
      BY <3>2, <3>3
  <2>2. CASE PairKey(args, at) # << >>
    <3>1. FieldsSeen(runtime') = FieldsSeen(runtime) \o << SeenRow(row) >>
      BY <1>3, <1>5, <1>6, <1>7, <2>2, SeenGrows
    <3> QED
      BY <1>3, <1>4, <1>6, <2>2, <3>1
  <2> QED
    BY <2>1, <2>2
<1>9. FieldsSeen(runtime)' = MeantUpTo(args, at - 1)'
  BY <1>1, <1>8, MeantConstant
<1>10. args' = Passed'
  BY PassedConstant DEF RInv
<1>11. (2 * at - 3 <= Len(args))'
  BY <1>1
<1> QED
  BY <1>9, <1>10, <1>11 DEF RInv

LEMMA PairRInv ==
  ASSUME SessionInv, SInv, RInv, NEW where \in {"fast", "slow"}, phase = where, IsPair,
         WritePair(where), at' = at + 1, UNCHANGED <<config, call, args, phase>>
  PROVE  RInv'
<1>1. PairRow(where) \in Rows
  BY PairRowIs
<1>2. ~(2 * at > Len(args)) /\ 2 * at - 1 <= Len(args)
  <2>1. at \in Nat /\ args \in Seq(Passable) /\ 2 * at <= Len(args)
    BY DEF SessionInv, TInv, IsPair
  <2> QED
    BY <2>1
<1>3. /\ PairKey(args, at) = KeyText(args[2 * at - 1], at - 1)
      /\ PairValue(args, at) = args[2 * at]
  BY <1>2 DEF PairKey, PairValue
<1>4. SeenRow(PairRow(where)) = MeantRow(args, at)
  BY <1>3, PairRowIs DEF MeantRow
<1>5. runtime' = IF PairKey(args, at) = << >> THEN runtime ELSE Append(runtime, PairRow(where))
  BY <1>3 DEF WritePair, PairRow
<1> QED
  BY <1>1, <1>2, <1>4, <1>5, RowRInv

LEMMA OddRInv ==
  ASSUME SessionInv, SInv, RInv, OddArgument
  PROVE  RInv'
<1>1. /\ phase \in {"fast", "slow"} /\ 2 * at - 1 = Len(args) /\ at' = at + 1
      /\ UNCHANGED <<config, call, args, phase>>
      /\ runtime' = Append(runtime, OddRow)
  BY DEF OddArgument, OddRow
<1>2. OddRow \in Rows
  BY <1>1, OddRowIs
<1>3. at \in Nat /\ at - 1 \in Nat
  BY DEF SessionInv, TInv
<1>4. 2 * at > Len(args) /\ 2 * at - 1 <= Len(args)
  BY <1>1, <1>3
<1>5. PairKey(args, at) = ArgKey(at - 1) /\ PairValue(args, at) = args[Len(args)]
  BY <1>4 DEF PairKey, PairValue
<1>6. SeenRow(OddRow) = MeantRow(args, at)
  BY <1>1, <1>5, OddRowIs DEF MeantRow
<1>7. PairKey(args, at) # << >>
  BY <1>3, <1>5, ArgKeyType
<1>8. runtime' = IF PairKey(args, at) = << >> THEN runtime ELSE Append(runtime, OddRow)
  BY <1>1, <1>7
<1> QED
  BY <1>1, <1>2, <1>4, <1>6, <1>8, RowRInv

\* A pass begins with nothing written.
LEMMA BeginRInv ==
  ASSUME at' = 1, runtime' = << >>, args' = Passed, UNCHANGED <<config, call>>, Len(args') \in Nat
  PROVE  RInv'
<1>1. at' - 1 = 0 /\ (2 * at - 3 <= Len(args))'
  OBVIOUS
<1>2. FieldsSeen(<< >>) = << >>
  BY DEF FieldsSeen
<1>3. MeantUpTo(args', 0) = << >>
  BY MeantGrows
<1>4. FieldsSeen(runtime)' = MeantUpTo(args, at - 1)'
  BY <1>1, <1>2, <1>3, MeantConstant
<1>5. args' = Passed'
  BY PassedConstant
<1> QED
  BY <1>1, <1>4, <1>5 DEF RInv

LEMMA StepRInv ==
  ASSUME SessionInv, SessionInv', SInv, RInv, [Next]_vars
  PROVE  RInv'
<1>1. Len(args') \in Nat
  BY DEF SessionInv, TInv
<1>2. CASE Log
  <2>1. CASE phase' \notin {"fast", "slow"}
    BY <2>1 DEF RInv
  <2>2. CASE phase' \in {"fast", "slow"}
    <3>1. at' = 1 /\ runtime' = << >> /\ args' = Passed /\ UNCHANGED <<config, call>>
      BY <1>2, <2>2 DEF Log, Passed
    <3> QED
      BY <1>1, <3>1, BeginRInv
  <2> QED
    BY <2>1, <2>2
<1>3. CASE FastPair
  <2>1. /\ phase = "fast" /\ IsPair /\ WritePair("fast") /\ at' = at + 1
        /\ UNCHANGED <<config, call, args, phase>>
    BY <1>3 DEF FastPair
  <2> QED
    BY <2>1, PairRInv
<1>4. CASE SlowPair
  <2>1. /\ phase = "slow" /\ IsPair /\ WritePair("slow") /\ at' = at + 1
        /\ UNCHANGED <<config, call, args, phase>>
    BY <1>4 DEF SlowPair
  <2> QED
    BY <2>1, PairRInv
<1>5. CASE FastFails
  <2>1. at' = 1 /\ runtime' = << >> /\ args' = Passed /\ UNCHANGED <<config, call>>
    BY <1>5 DEF FastFails, BackToStart, RInv
  <2> QED
    BY <1>1, <2>1, BeginRInv
<1>6. CASE OddArgument
  BY <1>6, OddRInv
<1>7. CASE Start \/ Write \/ Call \/ EncodeField \/ Finish \/ PoolMakesNew
  <2>1. phase' \notin {"fast", "slow"}
    BY <1>7 DEF Start, Write, Call, EncodeField, Finish, PoolMakesNew
  <2> QED
    BY <2>1 DEF RInv
<1>8. CASE UNCHANGED vars
  <2>1. UNCHANGED <<phase, args, at, runtime, config, call>>
    BY <1>8 DEF vars
  <2>2. Passed' = Passed
    BY <2>1, PassedConstant
  <2>3. FieldsSeen(runtime)' = FieldsSeen(runtime) /\ MeantUpTo(args, at - 1)' = MeantUpTo(args, at - 1)
    BY <2>1, MeantConstant
  <2> QED
    BY <2>1, <2>2, <2>3 DEF RInv
<1> QED
  BY <1>2, <1>3, <1>4, <1>5, <1>6, <1>7, <1>8 DEF Next

LEMMA SpecRInv == Spec => [](SessionInv /\ SInv /\ RInv)
<1>1. Init => RInv
  BY DEF Init, RInv
<1> QED
  BY <1>1, SpecSInv, StepRInv, PTL DEF Spec

\* Keyvals keeps the values and the text of the keys.
LEMMA KeyvalsKeeps ==
  ASSUME NEW given \in Seq(Loggable), NEW i \in 1 .. Len(given)
  PROVE  \/ Keyvals(given)[i] = given[i]
         \/ /\ i % 2 # 0 /\ i # Len(given)
            /\ Keyvals(given)[i].type \in {"trusted", "string"}
            /\ Keyvals(given)[i].str = KeyText(given[i], (i - 1) \div 2)
<1>1. PICK l \in Nat : l = Len(given) /\ DOMAIN given = 1 .. l
  OBVIOUS
<1>2. CASE i % 2 = 0 \/ i = Len(given) \/ given[i].type = "trusted"
  BY <1>1, <1>2 DEF Keyvals
<1>3. CASE ~(i % 2 = 0 \/ i = Len(given) \/ given[i].type = "trusted")
  <2> DEFINE key == KeyText(given[i], (i - 1) \div 2)
  <2>1. Keyvals(given)[i] = Value(IF TrustedASCII(key) THEN "trusted" ELSE "string", key, 0)
    BY <1>1, <1>3 DEF Keyvals
  <2> HIDE DEF key
  <2>2. Keyvals(given)[i].type \in {"trusted", "string"} /\ Keyvals(given)[i].str = key
    BY <2>1 DEF Value
  <2> QED
    BY <1>3, <2>2 DEF key
<1> QED
  BY <1>2, <1>3

LEMMA Halves ==
  ASSUME NEW n \in Nat, n >= 1
  PROVE  ((2 * n - 1) - 1) \div 2 = n - 1 /\ (2 * n) % 2 = 0
OBVIOUS

\* So prepared arguments mean what the given ones mean, the caller field included.
LEMMA KeyvalsMean ==
  ASSUME NEW given \in Seq(Loggable), NEW c \in Seq(Passable)
  PROVE  /\ Len(Keyvals(given) \o c) = Len(given \o c)
         /\ MeantUpTo(Keyvals(given) \o c, (Len(given \o c) + 1) \div 2) = FieldsMeant(given \o c)
<1>1. PICK l \in Nat : l = Len(given)
  OBVIOUS
<1>2. PICK k : k = Keyvals(given)
  OBVIOUS
<1>3. k \in Seq(Passable) /\ Len(k) = l /\ given \in Seq(Passable)
  BY <1>1, <1>2, KeyvalsType, LoggableIsPassable
<1>4. PICK C \in Nat : C = Len(c)
  OBVIOUS
<1>5. PICK A, K : A = given \o c /\ K = k \o c
  OBVIOUS
<1>6. A \in Seq(Passable) /\ Len(A) = l + C /\ \A i \in 1 .. l + C : A[i] = IF i <= l THEN given[i] ELSE c[i - l]
  <2>1. /\ given \o c \in Seq(Passable) /\ Len(given \o c) = Len(given) + Len(c)
        /\ \A i \in 1 .. Len(given) + Len(c) :
              (given \o c)[i] = IF i <= Len(given) THEN given[i] ELSE c[i - Len(given)]
    BY ONLY <1>3, c \in Seq(Passable), ConcatType
  <2> QED
    BY ONLY <1>1, <1>4, <1>5, <2>1
<1>7. K \in Seq(Passable) /\ Len(K) = l + C /\ \A i \in 1 .. l + C : K[i] = IF i <= l THEN k[i] ELSE c[i - l]
  <2>1. /\ k \o c \in Seq(Passable) /\ Len(k \o c) = Len(k) + Len(c)
        /\ \A i \in 1 .. Len(k) + Len(c) :
              (k \o c)[i] = IF i <= Len(k) THEN k[i] ELSE c[i - Len(k)]
    BY ONLY <1>3, c \in Seq(Passable), ConcatType
  <2>2. Len(k) = l
    BY <1>3
  <2> QED
    BY ONLY <1>4, <1>5, <2>1, <2>2
<1>8. ASSUME NEW i \in 1 .. l + C, i % 2 = 0 \/ i = l + C
      PROVE  K[i] = A[i]
  <2>1. CASE i <= l
    <3>1. k[i] = given[i]
      <4>1. i \in 1 .. Len(given) /\ (i = l + C => i = l)
        BY <1>1, <2>1
      <4> QED
        BY <1>1, <1>2, <1>8, <4>1, KeyvalsKeeps
    <3> QED
      BY <1>6, <1>7, <2>1, <3>1
  <2>2. CASE ~(i <= l)
    BY <1>6, <1>7, <2>2
  <2> QED
    BY <2>1, <2>2
<1>9. ASSUME NEW n \in Nat, n >= 1, 2 * n <= l + C
      PROVE  KeyText(K[2 * n - 1], n - 1) = KeyText(A[2 * n - 1], n - 1)
  <2>1. PICK i : i = 2 * n - 1
    OBVIOUS
  <2>2. i \in 1 .. l + C /\ (i - 1) \div 2 = n - 1
    BY <1>9, <2>1, Halves
  <2>3. CASE i <= l
    <3>1. i \in 1 .. Len(given) /\ K[i] = k[i] /\ A[i] = given[i]
      BY <1>1, <1>6, <1>7, <2>2, <2>3
    <3>2. \/ k[i] = given[i]
          \/ /\ k[i].type \in {"trusted", "string"}
             /\ k[i].str = KeyText(given[i], n - 1)
      BY <1>2, <2>2, <3>1, KeyvalsKeeps
    <3>3. CASE k[i].type \in {"trusted", "string"} /\ k[i].str = KeyText(given[i], n - 1)
      <4>1. KeyText(k[i], n - 1) = k[i].str
        BY <3>3 DEF KeyText
      <4> QED
        BY <2>1, <3>1, <3>3, <4>1
    <3> QED
      BY <2>1, <3>1, <3>2, <3>3
  <2>4. CASE ~(i <= l)
    BY <1>6, <1>7, <2>1, <2>2, <2>4
  <2> QED
    BY <2>3, <2>4
<1>10. PICK m \in Nat : m = (l + C + 1) \div 2
  OBVIOUS
<1>11. ASSUME NEW n \in 1 .. m PROVE PairMeant(K, n) = PairMeant(A, n)
  <2>1. n \in Nat /\ n >= 1 /\ l + C \in 1 .. l + C
    BY <1>10
  <2>2. CASE 2 * n > l + C
    <3>1. PairKey(K, n) = PairKey(A, n)
      BY <1>6, <1>7, <2>2 DEF PairKey
    <3>2. PairValue(K, n) = PairValue(A, n)
      BY <1>6, <1>7, <1>8, <2>1, <2>2 DEF PairValue
    <3> QED
      BY <2>1, <3>1, <3>2, PairMeantIs DEF MeantRow
  <2>3. CASE ~(2 * n > l + C)
    <3>1. 2 * n <= l + C /\ 2 * n \in 1 .. l + C
      BY <2>1, <2>3
    <3>2. PairKey(K, n) = PairKey(A, n)
      BY <1>6, <1>7, <1>9, <2>1, <2>3, <3>1 DEF PairKey
    <3>3. PairValue(K, n) = PairValue(A, n)
      <4>1. (2 * n) % 2 = 0
        BY <2>1, Halves
      <4>2. K[2 * n] = A[2 * n]
        BY <1>8, <3>1, <4>1
      <4> QED
        BY <1>6, <1>7, <2>3, <4>2 DEF PairValue
    <3> QED
      BY <2>1, <3>2, <3>3, PairMeantIs DEF MeantRow
  <2> QED
    BY <2>2, <2>3
<1>12. MeantUpTo(K, m) = MeantUpTo(A, m)
  BY <1>11 DEF MeantUpTo
<1>13. FieldsMeant(A) = MeantUpTo(A, m)
  BY <1>6, <1>10 DEF FieldsMeant, MeantUpTo
<1> QED
  BY <1>2, <1>5, <1>6, <1>7, <1>10, <1>12, <1>13

LEMMA AllPairs ==
  ASSUME NEW a \in Nat, NEW l \in Nat, 2 * a - 1 > l, 2 * a - 3 <= l
  PROVE  (l + 1) \div 2 = a - 1
<1>1. l = 2 * (a - 1) \/ l + 1 = 2 * (a - 1)
  OBVIOUS
<1>2. \A b \in Int : (2 * b) \div 2 = b /\ (2 * b + 1) \div 2 = b
  OBVIOUS
<1> QED
  BY <1>1, <1>2

LEMMA ReadBack ==
  ASSUME SessionInv, RInv
  PROVE  FieldsReadBack
<1> SUFFICES ASSUME Written PROVE FieldsSeen(runtime) = FieldsMeant(call.args \o CallerField)
  BY DEF FieldsReadBack
<1>1. phase \in {"fast", "slow"} /\ 2 * at - 1 > Len(args)
  BY DEF Written
<1>2. at \in Nat /\ args \in Seq(Passable) /\ call \in Entries
  BY <1>1 DEF SessionInv, TInv
<1>3. call.args \in Seq(Loggable) /\ call.stack \in Seq(Seq(Nat))
  BY <1>2 DEF Entries
<1>4. CallerField \in Seq(Passable)
  BY <1>1, <1>3, ConfigParts, CallerFieldType DEF SessionInv
<1>5. PICK g : g = call.args \o CallerField
  OBVIOUS
<1>6. /\ FieldsSeen(runtime) = MeantUpTo(args, at - 1) /\ 2 * at - 3 <= Len(args)
      /\ args = (IF call.prepared THEN Keyvals(call.args) ELSE call.args) \o CallerField
  BY <1>1 DEF RInv, Passed, WithCaller
<1>7. (Len(args) + 1) \div 2 = at - 1
  <2>1. Len(args) \in Nat
    BY <1>2
  <2> QED
    BY <1>1, <1>2, <1>6, <2>1, AllPairs
<1>8. CASE call.prepared
  BY <1>3, <1>4, <1>6, <1>7, <1>8, KeyvalsMean
<1>9. CASE ~call.prepared
  <2>1. args = g
    BY <1>5, <1>6, <1>9
  <2>2. FieldsMeant(g) = MeantUpTo(g, (Len(g) + 1) \div 2)
    BY DEF FieldsMeant, MeantUpTo
  <2> QED
    BY <1>5, <1>6, <1>7, <2>1, <2>2
<1> QED
  BY <1>8, <1>9

\* The arguments of an entry read back from its line as what they are, and each once:
\* from the fast pass as from the slow one, from every type switch, scanned, looked up or
\* trusted, prepared by Keyvals or not, whatever the caches hold.
THEOREM ArgumentsReadBack == Spec => []FieldsReadBack
  BY ReadBack, SpecRInv, PTL

-----------------------------------------------------------------------------
(* The fields of With. *)

\* What a field of With means to a reader of its line.
FieldRow(f) == [key |-> Plain(f.key), value |-> Meant(Told(f.value, "static"))]

FieldMeant(f) == IF f.key = << >> THEN << >> ELSE << FieldRow(f) >>

EncodedUpTo(collected, m) == FlattenSeq([n \in 1 .. m |-> FieldMeant(collected[n])])

LEMMA EncodedGrows ==
  ASSUME NEW collected, NEW m \in Nat
  PROVE  LET R == {FieldRow(collected[n]) : n \in Nat}
         IN  /\ EncodedUpTo(collected, m) \in Seq(R)
             /\ EncodedUpTo(collected, m + 1) = EncodedUpTo(collected, m) \o FieldMeant(collected[m + 1])
             /\ EncodedUpTo(collected, 0) = << >>
<1> DEFINE R == {FieldRow(collected[n]) : n \in Nat}
<1>1. \A n \in Nat : FieldMeant(collected[n]) \in Seq(R)
  <2> SUFFICES ASSUME NEW n \in Nat PROVE FieldMeant(collected[n]) \in Seq(R)
    OBVIOUS
  <2>1. FieldRow(collected[n]) \in R
    OBVIOUS
  <2> HIDE DEF R
  <2> QED
    BY <2>1 DEF FieldMeant
<1> HIDE DEF R
<1>2. EncodedUpTo(collected, m) \in Seq(R)
  <2>1. [n \in 1 .. m |-> FieldMeant(collected[n])] \in Seq(Seq(R))
    BY <1>1
  <2> QED
    BY <2>1, FlattenType DEF EncodedUpTo
<1>3. EncodedUpTo(collected, m + 1) = EncodedUpTo(collected, m) \o FieldMeant(collected[m + 1])
  <2>1. PICK P : P = [n \in 1 .. m + 1 |-> FieldMeant(collected[n])]
    OBVIOUS
  <2>2. /\ P = [n \in 1 .. m + 1 |-> P[n]]
        /\ \A n \in 1 .. m + 1 : P[n] \in Seq(R)
        /\ [n \in 1 .. m |-> P[n]] = [n \in 1 .. m |-> FieldMeant(collected[n])]
        /\ P[m + 1] = FieldMeant(collected[m + 1])
    BY <1>1, <2>1
  <2>3. FlattenSeq(P) = FlattenSeq([n \in 1 .. m |-> P[n]]) \o P[m + 1]
    BY <2>2, FlattenGrows
  <2> QED
    BY <2>1, <2>2, <2>3 DEF EncodedUpTo
<1>4. EncodedUpTo(collected, 0) = << >>
  <2>1. [n \in 1 .. 0 |-> FieldMeant(collected[n])] = << >>
    OBVIOUS
  <2>2. << >> \in Seq(Seq(R))
    OBVIOUS
  <2> QED
    BY <2>1, <2>2, FlattenType DEF EncodedUpTo
<1> QED
  BY <1>2, <1>3, <1>4 DEF R

\* What is encoded so far reads back as the fields so far, and stays for the line.
FInv ==
    /\ phase \in {"with", "fast", "slow"} => fields = CollectFields(call.with)
    /\ phase = "with" => at <= Len(fields) + 1 /\ FieldsSeen(static) = EncodedUpTo(fields, at - 1)
    /\ phase \in {"fast", "slow"} => FieldsSeen(static) = EncodedUpTo(fields, Len(fields))

LEMMA EncodedConstant ==
  ASSUME UNCHANGED config
  PROVE  \A collected, m : EncodedUpTo(collected, m)' = EncodedUpTo(collected, m)
  BY DEF EncodedUpTo, FieldMeant, FieldRow, Meant, Told

LEMMA EncodeFInv ==
  ASSUME SessionInv, SInv, FInv, EncodeField
  PROVE  FInv'
<1> DEFINE f == fields[at]
<1>1. /\ phase = "with" /\ at <= Len(fields) /\ at' = at + 1
      /\ UNCHANGED <<config, call, fields, phase>>
      /\ static' = IF f.key = << >> THEN static ELSE Append(static, StaticRow(f))
  BY DEF EncodeField, StaticRow
<1>2. at \in Nat /\ at - 1 \in Nat /\ (at - 1) + 1 = at /\ at' - 1 = at /\ Len(fields) \in Nat
  BY <1>1 DEF SessionInv, TInv
<1>3. PICK T : T = {FieldRow(fields[n]) : n \in Nat}
  OBVIOUS
<1>4. /\ EncodedUpTo(fields, at - 1) \in Seq(T)
      /\ EncodedUpTo(fields, at) = EncodedUpTo(fields, at - 1) \o FieldMeant(f)
  BY <1>2, <1>3, EncodedGrows
<1>5. FieldRow(f) \in T
  BY <1>2, <1>3
<1>6. StaticRow(f) \in Rows /\ SeenRow(StaticRow(f)) = FieldRow(f)
  BY <1>1, StaticRowIs DEF FieldRow
<1>7. FieldsSeen(static) = EncodedUpTo(fields, at - 1)
  BY <1>1 DEF FInv
<1>8. static \in Seq(Rows)
  BY DEF SInv
<1> HIDE DEF f
<1>9. FieldsSeen(static') = EncodedUpTo(fields, at)
  <2>1. CASE f.key = << >>
    <3>1. PICK s : s = EncodedUpTo(fields, at - 1)
      OBVIOUS
    <3>2. s \in Seq(T) /\ EncodedUpTo(fields, at) = s \o << >> /\ FieldsSeen(static') = s
      BY <1>1, <1>4, <1>7, <2>1, <3>1 DEF FieldMeant
    <3>3. s \o << >> = s
      BY <3>2
    <3> QED
      BY <3>2, <3>3
  <2>2. CASE f.key # << >>
    <3>1. FieldsSeen(static') = FieldsSeen(static) \o << SeenRow(StaticRow(f)) >>
      BY <1>1, <1>4, <1>5, <1>6, <1>7, <1>8, <2>2, SeenGrows
    <3> QED
      BY <1>4, <1>6, <1>7, <2>2, <3>1 DEF FieldMeant
  <2> QED
    BY <2>1, <2>2
<1>10. FieldsSeen(static)' = EncodedUpTo(fields, at - 1)'
  BY <1>1, <1>2, <1>9, MeantConstant, EncodedConstant
<1>11. (at <= Len(fields) + 1)'
  BY <1>1, <1>2
<1>12. (fields = CollectFields(call.with))'
  BY <1>1 DEF FInv
<1> QED
  BY <1>1, <1>10, <1>11, <1>12 DEF FInv

\* A line keeps what was encoded.
LEMMA KeptFInv ==
  ASSUME FInv, phase \in {"fast", "slow"}, UNCHANGED <<config, call, fields, static>>,
         phase' \in {"idle", "fast", "slow"}
  PROVE  FInv'
<1>1. FieldsSeen(static)' = EncodedUpTo(fields, Len(fields))'
  BY MeantConstant, EncodedConstant DEF FInv
<1>2. (fields = CollectFields(call.with))'
  BY DEF FInv
<1> QED
  BY <1>1, <1>2 DEF FInv

LEMMA StepFInv ==
  ASSUME SessionInv, SInv, FInv, [Next]_vars
  PROVE  FInv'
<1>1. CASE Call
  <2>1. /\ fields' = CollectFields(Head(queue).with) /\ call' = Head(queue) /\ static' = << >>
        /\ at' = 1 /\ phase' = "with" /\ UNCHANGED config
    BY <1>1 DEF Call
  <2>2. fields' = CollectFields(call'.with)
    BY <2>1
  <2>3. Head(queue) \in Entries
    <3>1. queue \in Seq(Queueable) /\ queue # << >> /\ Head(queue).op = "log"
      BY <1>1 DEF Call, SessionInv, TInv
    <3>2. Head(queue) \in Queueable
      BY <3>1
    <3> QED
      BY <3>1, <3>2 DEF Queueable, Writes
  <2>4. Len(fields') \in Nat
    BY <2>1, <2>3, CollectFieldsType DEF Entries
  <2>5. FieldsSeen(<< >>) = << >> /\ EncodedUpTo(fields', 0) = << >>
    <3>1. \A c : EncodedUpTo(c, 0) = << >>
      BY EncodedGrows
    <3>2. FieldsSeen(<< >>) = << >>
      BY DEF FieldsSeen
    <3> QED
      BY <3>1, <3>2
  <2>6. at' - 1 = 0 /\ at' <= Len(fields') + 1
    BY <2>1, <2>4
  <2>7. FieldsSeen(static)' = EncodedUpTo(fields, at - 1)'
    BY <2>1, <2>5, <2>6, MeantConstant, EncodedConstant
  <2> QED
    BY <2>1, <2>2, <2>6, <2>7 DEF FInv
<1>2. CASE EncodeField
  BY <1>2, EncodeFInv
<1>3. CASE Log
  <2>1. /\ phase = "with" /\ at > Len(fields) /\ phase' \in {"fast", "idle"}
        /\ UNCHANGED <<config, call, fields, static>>
    BY <1>3 DEF Log
  <2>2. at - 1 = Len(fields)
    <3>1. at \in Nat /\ Len(fields) \in Nat /\ at <= Len(fields) + 1
      BY <2>1 DEF SessionInv, TInv, FInv
    <3> QED
      BY <2>1, <3>1
  <2>3. FieldsSeen(static)' = EncodedUpTo(fields, Len(fields))'
    BY <2>1, <2>2, MeantConstant, EncodedConstant DEF FInv
  <2>4. (fields = CollectFields(call.with))'
    BY <2>1 DEF FInv
  <2> QED
    BY <2>1, <2>3, <2>4 DEF FInv
<1>4. CASE FastPair \/ FastFails \/ SlowPair \/ OddArgument \/ Finish
  <2>1. /\ phase \in {"fast", "slow"} /\ phase' \in {"idle", "fast", "slow"}
        /\ UNCHANGED <<config, call, fields, static>>
    BY <1>4 DEF FastPair, FastFails, SlowPair, OddArgument, Finish
  <2> QED
    BY <2>1, KeptFInv
<1>5. CASE Start \/ Write
  <2>1. phase' = "idle"
    BY <1>5 DEF Start, Write
  <2> QED
    BY <2>1 DEF FInv
<1>6. CASE PoolMakesNew \/ UNCHANGED vars
  <2>1. UNCHANGED <<phase, at, config, call, fields, static>>
    BY <1>6 DEF PoolMakesNew, vars
  <2>2. /\ FieldsSeen(static)' = FieldsSeen(static)
        /\ EncodedUpTo(fields, at - 1)' = EncodedUpTo(fields, at - 1)
        /\ EncodedUpTo(fields, Len(fields))' = EncodedUpTo(fields, Len(fields))
    BY <2>1, MeantConstant, EncodedConstant
  <2> QED
    BY <2>1, <2>2 DEF FInv
<1> QED
  BY <1>1, <1>2, <1>3, <1>4, <1>5, <1>6 DEF Next

LEMMA SpecFInv == Spec => [](SessionInv /\ FInv)
<1>1. Init => FInv
  BY DEF Init, FInv
<1> QED
  BY <1>1, SpecSInv, StepFInv, PTL DEF Spec

\* What a reader is told of a value of With, as StaticReadsBack has it.
LEMMA ToldIs ==
  ASSUME Boolean, NEW v
  PROVE  Told(v, "static") = IF v.type = "time" /\ ~config.json
                             THEN [v EXCEPT !.id = SecondOf(v.id)] ELSE v
  BY DEF Told

ToldArguments(given) ==
    [i \in DOMAIN given |-> IF i % 2 = 0 \/ i = Len(given) THEN Told(given[i], "static")
                            ELSE given[i]]

\* A lone error is the value of the field "error".
LEMMA LoneMeans ==
  ASSUME NEW v \in Loggable, "error" \in CasesOf(v.type),
         NEW word \in Seq(Nat), word # << >>
  PROVE  EncodedUpTo(<< [key |-> word, trusted |-> TRUE, value |-> Value("error", v.str, 0)] >>, 1)
           = FieldsMeant(ToldArguments(<< Str(word), v >>))
<1>1. v.type \in {"error", "stringerError"}
  <2>1. v.type \in Types
    BY LoggableParts
  <2> QED
    BY <2>1 DEF CasesOf, Types
<1>2. PICK f : f = [key |-> word, trusted |-> TRUE, value |-> Value("error", v.str, 0)]
  OBVIOUS
<1>3. Told(f.value, "static") = f.value /\ f.value.type = "error" /\ f.value.str = v.str /\ f.key = word
  BY <1>2 DEF Value, Told
<1>4. Meant(f.value) = Meant(v)
  BY <1>1, <1>3 DEF Meant, Text
<1>5. PICK row : row = [key |-> Plain(word), value |-> Meant(v)]
  OBVIOUS
<1>6. FieldMeant(f) = << row >>
  BY <1>3, <1>4, <1>5 DEF FieldMeant, FieldRow
<1>7. PICK T : T = {row}
  OBVIOUS
<1>8. << row >> \in Seq(T) /\ << >> \o << row >> = << row >>
  BY <1>7
<1>9. EncodedUpTo(<< f >>, 1) = << row >>
  <2>1. EncodedUpTo(<< f >>, 0 + 1) = EncodedUpTo(<< f >>, 0) \o FieldMeant(<< f >>[0 + 1])
    BY EncodedGrows
  <2>2. EncodedUpTo(<< f >>, 0) = << >> /\ << f >>[1] = f
    BY EncodedGrows
  <2> QED
    BY <1>6, <1>8, <2>1, <2>2
<1>10. PICK g : g = ToldArguments(<< Str(word), v >>)
  OBVIOUS
<1>11. Len(g) = 2 /\ g[1] = Str(word) /\ g[2] = v
  <2>1. PICK s : s = << Str(word), v >>
    OBVIOUS
  <2>2. DOMAIN s = 1 .. 2 /\ Len(s) = 2 /\ s[1] = Str(word) /\ s[2] = v
    BY <2>1
  <2>3. Told(v, "static") = v
    BY <1>1 DEF Told
  <2>4. g = [i \in 1 .. 2 |-> IF i % 2 = 0 \/ i = 2 THEN Told(s[i], "static") ELSE s[i]]
    BY <1>10, <2>1, <2>2 DEF ToldArguments
  <2>5. 1 % 2 # 0
    OBVIOUS
  <2>6. g[1] = s[1] /\ g[2] = Told(s[2], "static")
    BY <2>4, <2>5
  <2>7. Len(g) = 2
    BY <2>4
  <2> QED
    BY <2>2, <2>3, <2>6, <2>7
<1>12. FieldsMeant(g) = MeantUpTo(g, 1)
  <2>1. (Len(g) + 1) \div 2 = 1
    BY <1>11
  <2> QED
    BY <2>1 DEF FieldsMeant, MeantUpTo
<1>13. PairKey(g, 1) = word /\ PairValue(g, 1) = v
  BY <1>11 DEF PairKey, PairValue, KeyText, Str, Value
<1>14. PairMeant(g, 1) = << row >>
  BY <1>5, <1>13, PairMeantIs DEF MeantRow
<1>15. MeantUpTo(g, 1) = << row >>
  <2>1. MeantUpTo(g, 0 + 1) = MeantUpTo(g, 0) \o PairMeant(g, 0 + 1) /\ MeantUpTo(g, 0) = << >>
    BY MeantGrows
  <2> QED
    BY <1>8, <1>14, <2>1
<1> QED
  BY <1>2, <1>9, <1>10, <1>12, <1>15

\* Fields are collected pair by pair.
LEMMA CollectedMeans ==
  ASSUME NEW given \in Seq(Loggable), ~(Len(given) = 1 /\ "error" \in CasesOf(given[1].type))
  PROVE  EncodedUpTo(CollectFields(given), Len(CollectFields(given)))
           = FieldsMeant(ToldArguments(given))
<1>1. PICK l \in Nat : l = Len(given) /\ DOMAIN given = 1 .. l
  OBVIOUS
<1>2. PICK m \in Nat : m = (l + 1) \div 2
  OBVIOUS
<1>3. PICK c : c = CollectFields(given)
  OBVIOUS
<1>4. PICK g : g = ToldArguments(given)
  OBVIOUS
<1>5. Len(g) = l /\ \A i \in 1 .. l : g[i] = IF i % 2 = 0 \/ i = l THEN Told(given[i], "static") ELSE given[i]
  <2>1. g = [i \in 1 .. l |-> IF i % 2 = 0 \/ i = l THEN Told(given[i], "static") ELSE given[i]]
    BY <1>1, <1>4 DEF ToldArguments
  <2> QED
    BY <2>1
<1>6. Len(c) = m /\ \A n \in 1 .. m :
        /\ c[n].key = IF 2 * n > l THEN ArgKey(n - 1) ELSE KeyText(given[2 * n - 1], n - 1)
        /\ c[n].value = IF 2 * n > l THEN given[l] ELSE given[2 * n]
  <2>1. c = [n \in 1 .. m |-> c[n]]
    BY <1>1, <1>2, <1>3 DEF CollectFields
  <2>2. \A n \in 1 .. m :
        /\ c[n].key = IF 2 * n > l THEN ArgKey(n - 1) ELSE KeyText(given[2 * n - 1], n - 1)
        /\ c[n].value = IF 2 * n > l THEN given[l] ELSE given[2 * n]
    BY <1>1, <1>2, <1>3 DEF CollectFields
  <2>3. Len(c) = m
    BY <2>1
  <2> QED
    BY <2>2, <2>3
<1>7. ASSUME NEW n \in 1 .. m PROVE FieldMeant(c[n]) = PairMeant(g, n)
  <2>1. n \in Nat /\ n >= 1 /\ n - 1 \in Nat /\ l \in 1 .. l
    BY <1>2
  <2>2. c[n].key = PairKey(g, n)
    <3>1. CASE 2 * n > l
      BY <1>5, <1>6, <3>1 DEF PairKey
    <3>2. CASE ~(2 * n > l)
      <4>1. 2 * n - 1 \in 1 .. l /\ 2 * n - 1 # l /\ (2 * n - 1) % 2 # 0
        BY <2>1, <3>2
      <4>2. g[2 * n - 1] = given[2 * n - 1]
        BY <1>5, <4>1
      <4> QED
        BY <1>5, <1>6, <3>2, <4>2 DEF PairKey
    <3> QED
      BY <3>1, <3>2
  <2>3. Told(c[n].value, "static") = PairValue(g, n)
    <3>1. CASE 2 * n > l
      <4>1. g[l] = Told(given[l], "static")
        BY <1>5, <2>1
      <4> QED
        BY <1>5, <1>6, <3>1, <4>1 DEF PairValue
    <3>2. CASE ~(2 * n > l)
      <4>1. 2 * n \in 1 .. l /\ (2 * n) % 2 = 0
        BY <2>1, <3>2, Halves
      <4>2. g[2 * n] = Told(given[2 * n], "static")
        BY <1>5, <4>1
      <4> QED
        BY <1>5, <1>6, <3>2, <4>2 DEF PairValue
    <3> QED
      BY <3>1, <3>2
  <2> QED
    BY <2>1, <2>2, <2>3, PairMeantIs DEF FieldMeant, FieldRow, MeantRow
<1>8. EncodedUpTo(c, m) = MeantUpTo(g, m)
  BY <1>7 DEF EncodedUpTo, MeantUpTo
<1>9. FieldsMeant(g) = MeantUpTo(g, m)
  BY <1>2, <1>5 DEF FieldsMeant, MeantUpTo
<1> QED
  BY <1>3, <1>4, <1>6, <1>8, <1>9

\* The fields of With, which other code encodes ahead, read back as what they are too; on
\* the console a time loses the fraction of its second (encodeBaseJSONPlain,
\* encodeBaseJSONColor, encodeConsoleFieldsPlain and its coloured twin).
THEOREM WithReadsBack == Spec => []StaticReadsBack
<1>1. ASSUME SessionInv, FInv PROVE StaticReadsBack
  <2> DEFINE word == <<101, 114, 114, 111, 114>>
             lone == Len(call.with) = 1 /\ "error" \in CasesOf(call.with[1].type)
             given == IF lone THEN << Str(word), call.with[1] >> ELSE call.with
  <2> SUFFICES ASSUME Written
               PROVE  FieldsSeen(static) = FieldsMeant([i \in DOMAIN given |->
                         IF i % 2 = 0 \/ i = Len(given)
                         THEN IF given[i].type = "time" /\ ~config.json
                              THEN [given[i] EXCEPT !.id = SecondOf(given[i].id)] ELSE given[i]
                         ELSE given[i]])
    BY DEF StaticReadsBack
  <2>1. word \in Seq(Nat) /\ word # << >>
    OBVIOUS
  <2>2. phase \in {"fast", "slow"}
    BY DEF Written
  <2>3. call.with \in Seq(Loggable)
    BY <1>1, <2>2 DEF SessionInv, TInv, Entries
  <2>4. FieldsSeen(static) = EncodedUpTo(CollectFields(call.with), Len(CollectFields(call.with)))
    BY <1>1, <2>2 DEF FInv
  <2>5. FieldsSeen(static) = FieldsMeant(ToldArguments(given))
    <3>1. CASE lone
      <4>1. CollectFields(call.with) =
              << [key |-> word, trusted |-> TRUE, value |-> Value("error", call.with[1].str, 0)] >>
        BY <3>1 DEF CollectFields
      <4>2. call.with[1] \in Loggable
        BY <2>3, <3>1
      <4>3. Len(CollectFields(call.with)) = 1
        BY <4>1
      <4> HIDE DEF word
      <4>4. given = << Str(word), call.with[1] >>
        BY <3>1
      <4> HIDE DEF given
      <4> QED
        BY <2>1, <2>4, <3>1, <4>1, <4>2, <4>3, <4>4, LoneMeans
    <3>2. CASE ~lone
      BY <2>3, <2>4, <3>2, CollectedMeans
    <3> QED
      BY <3>1, <3>2
  <2> HIDE DEF given
  <2>6. Boolean
    BY <1>1, <2>2, Booleans
  <2>7. ToldArguments(given) = [i \in DOMAIN given |->
                         IF i % 2 = 0 \/ i = Len(given)
                         THEN IF given[i].type = "time" /\ ~config.json
                              THEN [given[i] EXCEPT !.id = SecondOf(given[i].id)] ELSE given[i]
                         ELSE given[i]]
    BY <2>6, ToldIs DEF ToldArguments
  <2> QED
    BY <2>5, <2>7
<1> QED
  BY <1>1, SpecFInv, PTL

=============================================================================
