----------------------------- MODULE EscapeScan -----------------------------
(***************************************************************************)
(* How the bytes of a string are escaped (json_escape.go,                  *)
(* console_escape.go, escape_consts.go and the table-driven loops): eight  *)
(* bytes at a time are tested with one subtraction, whose borrow runs from *)
(* a byte into the next, and what is left over byte by byte.               *)
(*                                                                         *)
(* A string is a sequence of bytes.  What is written is a sequence of      *)
(* tokens: <<"raw", b>> for a byte as it is, <<"esc", b>> for its escape,  *)
(* \n, \u000a or \x0a.                                                     *)
(***************************************************************************)
EXTENDS Integers, Sequences, FiniteSetsExt

CONSTANT WordBytes  \* bytes tested at a time: 8

ASSUME WordBytesPositive == WordBytes \in Nat \ {0}

Byte == 0 .. 255

Space == 32  Quote == 34  Backslash == 92  Delete == 127

Raw(b) == <<"raw", b>>
Esc(b) == <<"esc", b>>

Plain(s) == [i \in 1 .. Len(s) |-> Raw(s[i])]

-----------------------------------------------------------------------------
(* Words. *)

Word(s, i) == SubSeq(s, i + 1, i + WordBytes)

\* What t in every byte of the word borrows from the byte behind place j.
Borrows(word, t, j) ==
    \E i \in 1 .. j : word[i] < t /\ \A k \in i + 1 .. j : word[k] <= t

\* The bytes of word - t in each byte that have their high bit set, where the
\* word's own have not.
BelowMask(word, t) ==
    {j \in 1 .. Len(word) :
        LET borrowed == IF Borrows(word, t, j - 1) THEN 1 ELSE 0
        IN  word[j] < 128 /\ (word[j] - t - borrowed) % 256 >= 128}

\* A byte xor t: what differs in the last bit alone is told from the rest.
Difference(b, t) ==
    CASE b = t                                  -> 0
      [] b = (IF t % 2 = 0 THEN t + 1 ELSE t - 1) -> 1
      [] OTHER                                  -> 2

\* chunkEqualMask.
EqualMask(word, t) == BelowMask([j \in 1 .. Len(word) |-> Difference(word[j], t)], 1)

\* Mutant: backslashes are left out of the mask.
JSONUnsafeMaskNoBackslash(word) == BelowMask(word, Space) \cup EqualMask(word, Quote)

\* chunkJSONUnsafeMask.
JSONUnsafeMask(word) ==
    BelowMask(word, Space) \cup EqualMask(word, Quote) \cup EqualMask(word, Backslash)

\* chunkConsoleEscapeMask.
ConsoleEscapeMask(word) == JSONUnsafeMask(word) \cup EqualMask(word, Delete)

\* chunkHasConsoleUnsafe, as the bytes it is about.
ConsoleUnsafeMask(word) == ConsoleEscapeMask(word) \cup EqualMask(word, Space)

-----------------------------------------------------------------------------
(* Single bytes. *)

JSONNeedsEscape(b)    == b < Space \/ b \in {Quote, Backslash}
ConsoleNeedsEscape(b) == JSONNeedsEscape(b) \/ b = Delete
ConsoleByteUnsafe(b)  == ConsoleNeedsEscape(b) \/ b = Space

\* The loops that look up every byte: writeJSONStringTo, appendEscapedKey.
JSONByTable(s) ==
    [i \in 1 .. Len(s) |-> IF JSONNeedsEscape(s[i]) THEN Esc(s[i]) ELSE Raw(s[i])]

\* writeConsoleMessagePlain, writeConsoleMessageColor.
MessageByTable(s) ==
    [i \in 1 .. Len(s) |-> IF ConsoleNeedsEscape(s[i]) THEN Esc(s[i]) ELSE Raw(s[i])]

-----------------------------------------------------------------------------
(* Scans. *)

\* s behind the first `from' bytes and up to the last of `marked', those escaped.
Segment(s, from, marked) ==
    [i \in 1 .. Max(marked) - from |->
        IF from + i \in marked THEN Esc(s[from + i]) ELSE Raw(s[from + i])]

\* The marked bytes are written, with all that come before them.
Mark(s, st, marked, scan) ==
    [scan |-> scan,
     lastSafe |-> Max(marked),
     out |-> st.out \o Segment(s, st.lastSafe, marked)]

Mask(console, word) == IF console THEN ConsoleEscapeMask(word) ELSE JSONUnsafeMask(word)

\* The places in s that the mask of its word behind the first i bytes marks.
Placed(s, i, console) == {i + j : j \in Mask(console, Word(s, i))}

\* A round of the loop over whole words: two are tested at a time when there are two
\* left.  JSON escapes whatever the mask marks, the console looks it up in its table.
Step(s, st, console) ==
    LET left   == Len(s) - st.scan
        second == /\ left >= 2 * WordBytes
                  /\ Placed(s, st.scan, console) = {}
        base   == IF second THEN st.scan + WordBytes ELSE st.scan
        marked == {i \in Placed(s, base, console) : console => ConsoleNeedsEscape(s[i])}
    IN  IF marked = {} THEN [st EXCEPT !.scan = base + WordBytes]
        ELSE Mark(s, st, marked, base + WordBytes)

\* The bytes that are left over, and the end of the string.
Leftover(s, st, console) ==
    LET marked == {i \in st.scan + 1 .. Len(s) :
                    IF console THEN ConsoleNeedsEscape(s[i]) ELSE JSONNeedsEscape(s[i])}
        done   == IF marked = {} THEN st ELSE Mark(s, st, marked, Len(s))
    IN  done.out \o Plain(SubSeq(s, done.lastSafe + 1, Len(s)))

Scanned(s, console) ==
    LET round[n \in 0 .. Len(s) \div WordBytes] ==
            IF n = 0 THEN [scan |-> 0, lastSafe |-> 0, out |-> << >>]
            ELSE IF Len(s) - round[n - 1].scan < WordBytes THEN round[n - 1]
            ELSE Step(s, round[n - 1], console)
    IN  Leftover(s, round[Len(s) \div WordBytes], console)

\* appendEscapedStringContent and appendConsoleEscapedContentTo.
JSONEscaped(s)    == Scanned(s, FALSE)
ConsoleEscaped(s) == Scanned(s, TRUE)

-----------------------------------------------------------------------------
(* Tests. *)

\* The places of s in whole words, and those left over.
Whole(s) == (Len(s) \div WordBytes) * WordBytes

Words(s) == {Word(s, n * WordBytes) : n \in 0 .. Len(s) \div WordBytes - 1}

\* needsQuote: firstConsoleUnsafeIndex finds a byte.
NeedsQuote(s) ==
    \E i \in 1 .. Len(s) :
        /\ ConsoleByteUnsafe(s[i])
        /\ i <= Whole(s) =>
              ConsoleUnsafeMask(Word(s, ((i - 1) \div WordBytes) * WordBytes)) # {}

\* stringTrustedASCII.
TrustedASCII(s) ==
    /\ \A w \in Words(s) : JSONUnsafeMask(w) = {} /\ \A j \in 1 .. WordBytes : w[j] < 128
    /\ \A i \in Whole(s) + 1 .. Len(s) : ~JSONNeedsEscape(s[i]) /\ s[i] < 128

\* stringHasUnsafe; 255 stands for bytes that are not UTF-8.
HasUnsafe(s) == \E i \in 1 .. Len(s) : ConsoleNeedsEscape(s[i]) \/ s[i] = 255

=============================================================================
