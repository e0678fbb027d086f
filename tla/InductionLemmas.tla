--------------------------- MODULE InductionLemmas ---------------------------
(***************************************************************************)
(* Induction and recursion in first-order form, for sets and functions in  *)
(* place of operators, and what follows for the recursive operators of the *)
(* community modules that the models use.                                  *)
(***************************************************************************)
EXTENDS Integers, Sequences, FiniteSetsExt, SequencesExt, WellFoundedInduction, TLAPS

-----------------------------------------------------------------------------
(* Induction. *)

\* A set of numbers that is not empty has a least one.
LEMMA LeastNumber ==
  ASSUME NEW T \in SUBSET Nat, T # {}
  PROVE  \E n \in T : \A m \in T : n <= m
<1> DEFINE R == OpToRel(<, Nat)
<1>1. IsWellFoundedOn(R, Nat)
  BY NatLessThanWellFounded, Zenon
<1>2. \A m, n \in Nat : m < n => <<m, n>> \in R
  BY DEF OpToRel
<1> HIDE DEF R
<1>3. PICK n \in T : \A m \in T : ~(<<m, n>> \in R)
  BY <1>1, WFMin
<1>4. \A m \in T : ~(m < n)
  BY <1>2, <1>3
<1>5. \A m \in T : n <= m
  BY <1>4
<1> QED
  BY <1>5

\* A set that has 0 and with a number the next one has them all.
LEMMA SetInduction ==
  ASSUME NEW S, 0 \in S, \A n \in Nat : n \in S => n + 1 \in S
  PROVE  \A n \in Nat : n \in S
<1> DEFINE T == Nat \ S
<1> SUFFICES ASSUME T # {} PROVE FALSE
  OBVIOUS
<1>1. PICK n \in T : \A m \in T : n <= m
  BY LeastNumber
<1>2. n # 0 /\ n \in Nat
  OBVIOUS
<1>3. n - 1 \in S
  BY <1>1, <1>2
<1> QED
  BY <1>2, <1>3

\* F has v0 and then what G makes of each place and the value before it, up to n.
Recurs(F, n, v0, G) ==
    \A i \in 0 .. n : F[i] = IF i = 0 THEN v0 ELSE G[<<i, F[i - 1]>>]

\* Such a function exists.
LEMMA Recursion ==
  ASSUME NEW V, NEW v0 \in V, NEW n \in Nat, NEW G \in [(1 .. n) \X V -> V]
  PROVE  \E F \in [0 .. n -> V] : Recurs(F, n, v0, G)
<1> DEFINE S == {m \in Nat : m <= n => \E F \in [0 .. m -> V] : Recurs(F, m, v0, G)}
<1>1. 0 \in S
  <2> DEFINE F == [i \in 0 .. 0 |-> v0]
  <2>1. F \in [0 .. 0 -> V] /\ Recurs(F, 0, v0, G)
    BY DEF Recurs
  <2> QED
    BY <2>1
<1>2. ASSUME NEW m \in Nat, m \in S PROVE m + 1 \in S
  <2> SUFFICES ASSUME m + 1 <= n PROVE \E F \in [0 .. m + 1 -> V] : Recurs(F, m + 1, v0, G)
    OBVIOUS
  <2>1. PICK F \in [0 .. m -> V] : Recurs(F, m, v0, G)
    BY <1>2
  <2> DEFINE next == [i \in 0 .. m + 1 |-> IF i <= m THEN F[i] ELSE G[<<m + 1, F[m]>>]]
  <2>2. next \in [0 .. m + 1 -> V]
    <3>1. F[m] \in V /\ m + 1 \in 1 .. n
      OBVIOUS
    <3>2. G[<<m + 1, F[m]>>] \in V
      BY <3>1
    <3>3. \A i \in 0 .. m + 1 : i <= m => F[i] \in V
      OBVIOUS
    <3> QED
      BY <3>2, <3>3
  <2>3. Recurs(next, m + 1, v0, G)
    <3> SUFFICES ASSUME NEW i \in 0 .. m + 1
                 PROVE  next[i] = IF i = 0 THEN v0 ELSE G[<<i, next[i - 1]>>]
      BY DEF Recurs
    <3>1. CASE i <= m
      <4>1. i \in 0 .. m /\ next[i] = F[i]
        BY <3>1
      <4>2. i # 0 => next[i - 1] = F[i - 1]
        BY <3>1
      <4> QED
        BY <2>1, <4>1, <4>2 DEF Recurs
    <3>2. CASE i = m + 1
      <4>1. next[i] = G[<<m + 1, F[m]>>] /\ next[i - 1] = F[m] /\ i # 0
        BY <3>2
      <4> QED
        BY <3>2, <4>1
    <3> QED
      BY <3>1, <3>2
  <2> QED
    BY <2>2, <2>3
<1>3. n \in S
  <2> HIDE DEF S
  <2> QED
    BY <1>1, <1>2, SetInduction
<1> QED
  BY <1>3

-----------------------------------------------------------------------------
(* Max. *)

LEMMA MaxIs ==
  ASSUME NEW S \in SUBSET Int, NEW m \in S, \A y \in S : y <= m
  PROVE  Max(S) = m
<1>1. \A x \in S : (\A y \in S : x >= y) => x = m
  OBVIOUS
<1>2. \A y \in S : m >= y
  OBVIOUS
<1> QED
  BY <1>1, <1>2 DEF Max

\* A set of numbers up to n has a greatest one.
LEMMA MaxOfNumbers ==
  ASSUME NEW n \in Nat, NEW S \in SUBSET (0 .. n), S # {}
  PROVE  Max(S) \in S /\ \A y \in S : y <= Max(S)
<1> DEFINE T == {m \in Nat : \A y \in S : y <= m}
<1>1. T \in SUBSET Nat /\ n \in T
  OBVIOUS
<1>2. PICK m \in T : \A k \in T : m <= k
  BY <1>1, LeastNumber
<1>3. m \in S
  <2> SUFFICES ASSUME m \notin S PROVE FALSE
    OBVIOUS
  <2>1. PICK y \in S : TRUE
    OBVIOUS
  <2>2. m - 1 \in Nat
    BY <2>1
  <2>3. \A x \in S : x <= m - 1
    OBVIOUS
  <2> QED
    BY <1>2, <2>2, <2>3
<1> QED
  BY <1>3, MaxIs

-----------------------------------------------------------------------------
(* Sequences. *)

LEMMA SeqEqual ==
  ASSUME NEW T, NEW s \in Seq(T), NEW t \in Seq(T), NEW n, Len(s) = n, Len(t) = n,
         \A i \in 1 .. n : s[i] = t[i]
  PROVE  s = t
OBVIOUS

LEMMA ConcatType ==
  ASSUME NEW T, NEW a \in Seq(T), NEW b \in Seq(T)
  PROVE  /\ a \o b \in Seq(T)
         /\ Len(a \o b) = Len(a) + Len(b)
         /\ \A i \in 1 .. Len(a) + Len(b) :
               (a \o b)[i] = IF i <= Len(a) THEN a[i] ELSE b[i - Len(a)]
OBVIOUS

LEMMA ConcatAssoc ==
  ASSUME NEW T, NEW a \in Seq(T), NEW b \in Seq(T), NEW c \in Seq(T)
  PROVE  (a \o b) \o c = a \o (b \o c)
<1> DEFINE left == (a \o b) \o c
           right == a \o (b \o c)
<1>1. /\ left \in Seq(T) /\ right \in Seq(T)
      /\ Len(left) = Len(a) + Len(b) + Len(c) /\ Len(right) = Len(left)
  OBVIOUS
<1>2. \A i \in 1 .. Len(left) : left[i] = right[i]
  OBVIOUS
<1> HIDE DEF left, right
<1>3. left = right
  BY <1>1, <1>2
<1> QED
  BY <1>3 DEF left, right

-----------------------------------------------------------------------------
(* FlattenSeq. *)

\* F lists how ss is put together, up to each place.
Flattens(F, ss) ==
    /\ F[0] = << >>
    /\ \A i \in 1 .. Len(ss) : F[i] = F[i - 1] \o ss[i]

LEMMA FlattenedBySteps ==
  ASSUME NEW T, NEW ss \in Seq(Seq(T))
  PROVE  \E F \in [0 .. Len(ss) -> Seq(T)] :
            Flattens(F, ss) /\ FlattenSeq(ss) = F[Len(ss)]
<1> DEFINE Def(F) == [i \in 1 .. Len(ss) |-> IF i = 1 THEN ss[i] ELSE F[i - 1] \o ss[i]]
<1>1. CASE Len(ss) = 0
  <2>1. ss = << >> /\ FlattenSeq(ss) = << >>
    BY <1>1 DEF FlattenSeq
  <2> DEFINE F == [i \in 0 .. 0 |-> << >>]
  <2>2. F \in [0 .. Len(ss) -> Seq(T)] /\ Flattens(F, ss)
    BY <1>1 DEF Flattens
  <2> QED
    BY <1>1, <2>1, <2>2
<1>2. CASE Len(ss) # 0
  <2>0. PICK n : n = Len(ss)
    OBVIOUS
  <2>1. n \in Nat \ {0} /\ << >> \in Seq(T) /\ \A i \in 1 .. n : ss[i] \in Seq(T)
    BY <1>2, <2>0
  <2> DEFINE G == [p \in (1 .. n) \X Seq(T) |-> p[2] \o ss[p[1]]]
  <2>2. G \in [(1 .. n) \X Seq(T) -> Seq(T)]
    BY <2>1
  <2>3. \A i \in 1 .. n, t \in Seq(T) : G[<<i, t>>] = t \o ss[i]
    OBVIOUS
  <2> HIDE DEF G
  <2>4. PICK E \in [0 .. n -> Seq(T)] : Recurs(E, n, << >>, G)
    BY <2>1, <2>2, Recursion
  <2>5. E[0] = << >>
    <3>1. 0 \in 0 .. n
      BY <2>1
    <3> QED
      BY <2>4, <3>1 DEF Recurs
  <2>7. \A i \in 1 .. n : E[i - 1] \in Seq(T) /\ E[i] = E[i - 1] \o ss[i]
    <3> SUFFICES ASSUME NEW i \in 1 .. n
                 PROVE  E[i - 1] \in Seq(T) /\ E[i] = E[i - 1] \o ss[i]
      OBVIOUS
    <3>1. i \in 0 .. n /\ i - 1 \in 0 .. n /\ i # 0
      BY <2>1
    <3>2. E[i] = G[<<i, E[i - 1]>>] /\ E[i - 1] \in Seq(T)
      BY <2>4, <3>1 DEF Recurs
    <3> QED
      BY <2>3, <3>2
  <2>8. E[1] = ss[1]
    <3>1. 1 \in 1 .. n /\ 1 - 1 = 0
      BY <2>1
    <3>2. E[1] = << >> \o ss[1] /\ ss[1] \in Seq(T)
      BY <2>1, <2>5, <2>7, <3>1
    <3> QED
      BY <3>2
  <2> DEFINE e == [i \in 1 .. n |-> E[i]]
  <2>9. e = Def(e)
    <3>1. \A i \in 1 .. n : i # 1 => i - 1 \in 1 .. n
      BY <2>1
    <3>2. \A i \in 1 .. n : E[i] = IF i = 1 THEN ss[i] ELSE e[i - 1] \o ss[i]
      BY <2>7, <2>8, <3>1
    <3> QED
      BY <2>0, <3>2
  <2> HIDE DEF e
  <2> DEFINE f == CHOOSE f : f = Def(f)
  <2>10. f = Def(f)
    BY <2>9
  <2>11. FlattenSeq(ss) = f[n]
    BY <1>2, <2>0 DEF FlattenSeq
  <2> HIDE DEF f
  <2>12. \A i \in 1 .. n : f[i] = IF i = 1 THEN ss[i] ELSE f[i - 1] \o ss[i]
    BY <2>0, <2>10
  <2> HIDE DEF Def
  <2> DEFINE S == {m \in Nat : m \in 1 .. n => f[m] = E[m]}
  <2>13. 0 \in S
    BY <2>1
  <2>14. ASSUME NEW m \in Nat, m \in S PROVE m + 1 \in S
    <3> SUFFICES ASSUME m + 1 \in 1 .. n PROVE f[m + 1] = E[m + 1]
      OBVIOUS
    <3>1. (m + 1) - 1 = m
      OBVIOUS
    <3>2. f[m + 1] = IF m = 0 THEN ss[m + 1] ELSE f[m] \o ss[m + 1]
      BY <2>12, <3>1
    <3>3. CASE m = 0
      BY <3>2, <3>3, <2>8
    <3>4. CASE m # 0
      <4>1. f[m] = E[m]
        BY <2>1, <2>14, <3>4
      <4> QED
        BY <3>1, <3>2, <3>4, <4>1, <2>7
    <3> QED
      BY <3>3, <3>4
  <2> HIDE DEF S
  <2>15. n \in S
    BY <2>1, <2>13, <2>14, SetInduction
  <2>16. FlattenSeq(ss) = E[n]
    BY <2>1, <2>11, <2>15 DEF S
  <2>17. Flattens(E, ss)
    BY <2>0, <2>5, <2>7 DEF Flattens
  <2> QED
    BY <2>0, <2>16, <2>17
<1> QED
  BY <1>1, <1>2

\* There is one way to put a sequence together.
LEMMA FlattensOnce ==
  ASSUME NEW ss, Len(ss) \in Nat, NEW tt, Len(tt) \in Nat, Len(ss) <= Len(tt),
         \A i \in 1 .. Len(ss) : ss[i] = tt[i],
         NEW F, Flattens(F, ss), NEW E, Flattens(E, tt)
  PROVE  F[Len(ss)] = E[Len(ss)]
<1>0. PICK n : n = Len(ss)
  OBVIOUS
<1> DEFINE S == {m \in Nat : m <= n => F[m] = E[m]}
<1>1. 0 \in S
  BY DEF Flattens
<1>2. ASSUME NEW m \in Nat, m \in S PROVE m + 1 \in S
  <2> SUFFICES ASSUME m + 1 <= n PROVE F[m + 1] = E[m + 1]
    OBVIOUS
  <2>1. /\ m + 1 \in 1 .. Len(ss) /\ m + 1 \in 1 .. Len(tt)
        /\ (m + 1) - 1 = m
    BY <1>0
  <2>2. F[m + 1] = F[m] \o ss[m + 1] /\ E[m + 1] = E[m] \o tt[m + 1]
    BY <2>1 DEF Flattens
  <2>3. F[m] = E[m] /\ ss[m + 1] = tt[m + 1]
    BY <1>0, <1>2, <2>1
  <2> QED
    BY <2>2, <2>3
<1> HIDE DEF S
<1>3. n \in S
  BY <1>0, <1>1, <1>2, SetInduction
<1> QED
  BY <1>0, <1>3 DEF S

LEMMA FlattenType ==
  ASSUME NEW T, NEW ss \in Seq(Seq(T))
  PROVE  FlattenSeq(ss) \in Seq(T) /\ FlattenSeq(<< >>) = << >>
<1>1. FlattenSeq(<< >>) = << >>
  BY DEF FlattenSeq
<1>2. PICK F \in [0 .. Len(ss) -> Seq(T)] : FlattenSeq(ss) = F[Len(ss)]
  BY FlattenedBySteps
<1>3. Len(ss) \in 0 .. Len(ss)
  OBVIOUS
<1> QED
  BY <1>1, <1>2, <1>3

\* The last of the sequences comes last.
LEMMA FlattenAppend ==
  ASSUME NEW T, NEW ss \in Seq(Seq(T)), NEW s \in Seq(T)
  PROVE  FlattenSeq(Append(ss, s)) = FlattenSeq(ss) \o s
<1> DEFINE tt == Append(ss, s)
<1>1. tt \in Seq(Seq(T)) /\ Len(tt) = Len(ss) + 1 /\ Len(ss) \in Nat
      /\ tt[Len(tt)] = s /\ \A i \in 1 .. Len(ss) : ss[i] = tt[i]
  OBVIOUS
<1> HIDE DEF tt
<1>2. PICK F \in [0 .. Len(ss) -> Seq(T)] : Flattens(F, ss) /\ FlattenSeq(ss) = F[Len(ss)]
  BY FlattenedBySteps
<1>3. PICK E \in [0 .. Len(tt) -> Seq(T)] : Flattens(E, tt) /\ FlattenSeq(tt) = E[Len(tt)]
  BY <1>1, FlattenedBySteps
<1>4. F[Len(ss)] = E[Len(ss)]
  <2>1. Len(ss) <= Len(tt) /\ Len(tt) \in Nat
    BY <1>1
  <2> QED
    BY <1>1, <1>2, <1>3, <2>1, FlattensOnce
<1>5. E[Len(tt)] = E[Len(ss)] \o s
  <2>1. Len(tt) \in 1 .. Len(tt) /\ Len(tt) - 1 = Len(ss)
    BY <1>1
  <2> QED
    BY <1>1, <1>3, <2>1 DEF Flattens
<1> QED
  BY <1>2, <1>3, <1>4, <1>5 DEF tt

\* What is put together from one more is that put behind the rest.
LEMMA FlattenGrows ==
  ASSUME NEW T, NEW m \in Nat, NEW P, P = [n \in 1 .. m + 1 |-> P[n]],
         \A n \in 1 .. m + 1 : P[n] \in Seq(T)
  PROVE  FlattenSeq(P) = FlattenSeq([n \in 1 .. m |-> P[n]]) \o P[m + 1]
<1>1. PICK Q : Q = [n \in 1 .. m |-> P[n]]
  OBVIOUS
<1>2. Q \in Seq(Seq(T)) /\ Len(Q) = m
  <2>1. \A n \in 1 .. m : P[n] \in Seq(T)
    OBVIOUS
  <2>2. Q \in [1 .. m -> Seq(T)]
    BY ONLY <1>1, <2>1
  <2> QED
    BY ONLY <2>2, m \in Nat
<1>3. PICK s : s = P[m + 1]
  OBVIOUS
<1>4. s \in Seq(T)
  BY <1>3
<1>5. P = Append(Q, s)
  <2>1. P \in Seq(Seq(T)) /\ Len(P) = m + 1
    <3>1. P \in [1 .. m + 1 -> Seq(T)]
      BY ONLY P = [n \in 1 .. m + 1 |-> P[n]], \A n \in 1 .. m + 1 : P[n] \in Seq(T)
    <3> QED
      BY ONLY <3>1, m \in Nat
  <2>2. Append(Q, s) \in Seq(Seq(T)) /\ Len(Append(Q, s)) = m + 1
    BY <1>2, <1>4
  <2>3. \A n \in 1 .. m + 1 : P[n] = Append(Q, s)[n]
    BY <1>1, <1>2, <1>3, <1>4
  <2> QED
    BY <2>1, <2>2, <2>3, SeqEqual
<1>6. FlattenSeq(Append(Q, s)) = FlattenSeq(Q) \o s
  BY <1>2, <1>4, FlattenAppend
<1> QED
  BY <1>1, <1>3, <1>5, <1>6

LEMMA FlattenOne ==
  ASSUME NEW T, NEW s \in Seq(T)
  PROVE  FlattenSeq(<< s >>) = s
<1>1. << >> \in Seq(Seq(T)) /\ Append(<< >>, s) = << s >> /\ << >> \o s = s
  OBVIOUS
<1>2. FlattenSeq(Append(<< >>, s)) = FlattenSeq(<< >>) \o s
  BY <1>1, FlattenAppend
<1> QED
  BY <1>1, <1>2, FlattenType

\* What is put together from two halves is the halves put together.
LEMMA FlattenConcat ==
  ASSUME NEW T, NEW ss \in Seq(Seq(T)), NEW tt \in Seq(Seq(T))
  PROVE  FlattenSeq(ss \o tt) = FlattenSeq(ss) \o FlattenSeq(tt)
<1> DEFINE First(n) == SubSeq(tt, 1, n)
           S == {n \in Nat : n <= Len(tt) =>
                    FlattenSeq(ss \o First(n)) = FlattenSeq(ss) \o FlattenSeq(First(n))}
<1>1. 0 \in S
  <2>1. First(0) = << >> /\ ss \o << >> = ss /\ FlattenSeq(ss) \o << >> = FlattenSeq(ss)
    BY FlattenType
  <2> QED
    BY <2>1, FlattenType
<1>2. ASSUME NEW n \in Nat, n \in S PROVE n + 1 \in S
  <2> SUFFICES ASSUME n + 1 <= Len(tt)
               PROVE  FlattenSeq(ss \o First(n + 1)) = FlattenSeq(ss) \o FlattenSeq(First(n + 1))
    OBVIOUS
  <2> DEFINE s == tt[n + 1]
             h == First(n)
  <2>1. s \in Seq(T) /\ h \in Seq(Seq(T)) /\ First(n + 1) = Append(h, s)
    OBVIOUS
  <2>2. FlattenSeq(ss \o h) = FlattenSeq(ss) \o FlattenSeq(h)
    BY <1>2
  <2> HIDE DEF h, s
  <2>3. ss \o Append(h, s) = Append(ss \o h, s) /\ ss \o h \in Seq(Seq(T))
    BY <2>1
  <2>4. FlattenSeq(ss \o Append(h, s)) = FlattenSeq(ss \o h) \o s
    BY <2>1, <2>3, FlattenAppend
  <2>5. FlattenSeq(Append(h, s)) = FlattenSeq(h) \o s
    BY <2>1, FlattenAppend
  <2>6. FlattenSeq(ss) \in Seq(T) /\ FlattenSeq(h) \in Seq(T)
    BY <2>1, FlattenType
  <2>7. (FlattenSeq(ss) \o FlattenSeq(h)) \o s = FlattenSeq(ss) \o (FlattenSeq(h) \o s)
    <3> DEFINE a == FlattenSeq(ss)
               b == FlattenSeq(h)
    <3>1. a \in Seq(T) /\ b \in Seq(T) /\ s \in Seq(T)
      BY <2>1, <2>6
    <3> HIDE DEF a, b
    <3>2. (a \o b) \o s = a \o (b \o s)
      BY ONLY <3>1, ConcatAssoc
    <3> QED
      BY <3>2 DEF a, b
  <2> QED
    BY <2>1, <2>2, <2>4, <2>5, <2>6, <2>7
<1>3. Len(tt) \in Nat /\ First(Len(tt)) = tt
  OBVIOUS
<1> HIDE DEF First
<1>4. Len(tt) \in S
  <2> HIDE DEF S
  <2> QED
    BY <1>1, <1>2, <1>3, SetInduction
<1> QED
  BY <1>3, <1>4
=============================================================================
