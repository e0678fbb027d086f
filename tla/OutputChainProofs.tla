------------------------- MODULE OutputChainProofs -------------------------
(***************************************************************************)
(* Proofs about OutputChain for any number of destinations, goroutines,    *)
(* readers and lines, and for observers anywhere.                          *)
(***************************************************************************)
EXTENDS OutputChain, FiniteSetTheorems, TLAPS

Busy(g)  == pc[g] # "idle"
After(g) == pc[g] \in {"observe", "fail", "tell", "tee"}
Wrong(g) == short[g] \/ err[g]

\* Lines under way are all different, and no newer line has failed.
LinesOwn ==
    /\ \A g \in Goroutines : Busy(g) => line[g] \in 1 .. lines /\ at[g] \in 1 .. Destinations
    /\ \A g, h \in Goroutines : Busy(g) /\ Busy(h) /\ line[g] = line[h] => g = h
    /\ \A o \in Places : Failed(o) \subseteq 1 .. lines

\* An ObservedWriter looks at the destination the tee has come to, or the tee.
Positions ==
    \A g \in Goroutines :
        /\ After(g) => observer[g] \in {0, at[g]}
        /\ pc[g] = "tee" => observer[g] = at[g]

\* What short and err of a line under way say of it.
Outcomes ==
    \A g \in Goroutines :
        /\ pc[g] = "write" => line[g] \notin Failed(0)
        /\ After(g) => (Wrong(g) <=> line[g] \in Failed(0))
        /\ After(g) /\ Wrong(g) => line[g] \in Failed(observer[g])
        /\ pc[g] \in {"fail", "tell"} => err[g]

\* The destinations the tee has passed have the line.
Passed ==
    \A g \in Goroutines :
        /\ Busy(g) => \A d \in 1 .. at[g] - 1 : line[g] \in got[d]
        /\ After(g) /\ ~short[g] => line[g] \in got[at[g]]

WriteInv == TypeOK /\ LinesOwn /\ Positions /\ Outcomes /\ Passed

\* The goroutines that have counted a failure and not told it yet.
Telling(o) == {g \in Goroutines : pc[g] = "tell" /\ observer[g] = o}

ToldCounted ==
    \A o \in Observers :
        /\ told[o] \subseteq Failed(o)
        /\ Cardinality(told[o]) + Cardinality(Telling(o)) <= failures[o]

\* A reader between its two loads.
Loading ==
    \A r \in Readers :
        /\ rpc[r] = "failures" =>
              /\ before[r].failures <= failures[asked[r]]
              /\ before[r].shorts <= shortWrite[asked[r]]
        /\ rpc[r] = "shorts" =>
              /\ before[r].failures <= snapshot[r].failures
              /\ snapshot[r].failures <= failures[asked[r]]
              /\ before[r].shorts <= shortWrite[asked[r]]

-----------------------------------------------------------------------------
(* Failed lines. *)

LEMMA FailedSame ==
    ASSUME UNCHANGED failed
    PROVE  \A o : Failed(o)' = Failed(o)
BY DEF Failed

LEMMA FailedBelow ==
    ASSUME NEW d \in 1 .. Destinations
    PROVE  Failed(d) \subseteq Failed(0)
BY OutputChainConstants DEF Failed

\* A destination that fails adds the line to its own failures and the tee's.
LEMMA FailedMore ==
    ASSUME TypeOK, NEW d \in 1 .. Destinations, NEW x,
           failed' = [failed EXCEPT ![d] = @ \cup {x}]
    PROVE  \A o \in Places : Failed(o)' = IF o \in {0, d} THEN Failed(o) \cup {x} ELSE Failed(o)
<1>1. \A e \in 1 .. Destinations : failed'[e] = IF e = d THEN failed[e] \cup {x} ELSE failed[e]
  BY DEF TypeOK
<1>2. ASSUME NEW o \in Places, o # 0
      PROVE  Failed(o)' = IF o = d THEN Failed(o) \cup {x} ELSE Failed(o)
  BY <1>1, <1>2, OutputChainConstants DEF Failed, Places
<1>3. Failed(0)' = Failed(0) \cup {x}
  <2>1. Failed(0) = UNION {failed[e] : e \in 1 .. Destinations}
    BY DEF Failed
  <2>2. Failed(0)' = UNION {failed'[e] : e \in 1 .. Destinations}
    BY DEF Failed
  <2>3. \A y : y \in Failed(0)' <=> y \in Failed(0) \cup {x}
    BY <1>1, <2>1, <2>2
  <2>. QED  BY <2>3
<1>. QED  BY <1>2, <1>3 DEF Places

-----------------------------------------------------------------------------
(* Write. *)

LEMMA InitWrite == Init => WriteInv
<1>. SUFFICES ASSUME Init PROVE WriteInv
  OBVIOUS
<1>1. TypeOK
  BY OutputChainConstants DEF Init, TypeOK, Places, Lines, Zero
<1>2. \A o \in Places : Failed(o) = {}
  BY DEF Init, Failed, Places
<1>. QED
  BY <1>1, <1>2 DEF Init, WriteInv, LinesOwn, Positions, Outcomes, Passed, Busy, After

LEMMA BeginWrite ==
    ASSUME WriteInv, NEW g \in Goroutines, Begin(g)
    PROVE  WriteInv'
<1>1. \A o : Failed(o)' = Failed(o)
  BY FailedSame DEF Begin
<1>2. TypeOK'
  <2>1. lines + 1 \in 0 .. MaxLines /\ 1 \in Places
    BY OutputChainConstants DEF WriteInv, TypeOK, Begin, Places
  <2>. QED  BY <2>1 DEF WriteInv, TypeOK, Begin, readers
<1>3. /\ pc' = [pc EXCEPT ![g] = "write"] /\ line' = [line EXCEPT ![g] = lines + 1]
      /\ at' = [at EXCEPT ![g] = 1] /\ lines' = lines + 1 /\ pc[g] = "idle"
      /\ UNCHANGED <<observer, short, err, got>>
  BY DEF Begin
<1>4. \A h \in Goroutines : h # g =>
        /\ pc'[h] = pc[h] /\ line'[h] = line[h] /\ at'[h] = at[h]
  BY <1>3 DEF WriteInv, TypeOK
<1>5. pc'[g] = "write" /\ line'[g] = lines + 1 /\ at'[g] = 1
  BY <1>3 DEF WriteInv, TypeOK
<1>6. lines \in Nat /\ \A o \in Places : lines + 1 \notin Failed(o)
  BY OutputChainConstants DEF WriteInv, LinesOwn, TypeOK
<1>7. LinesOwn'
  <2>1. \A h \in Goroutines : (Busy(h) => line[h] \in 1 .. lines /\ at[h] \in 1 .. Destinations)'
    BY <1>3, <1>4, <1>5, <1>6, OutputChainConstants DEF WriteInv, LinesOwn, Busy
  <2>2. \A h, i \in Goroutines : (Busy(h) /\ Busy(i) /\ line[h] = line[i] => h = i)'
    BY <1>4, <1>5, <1>6 DEF WriteInv, LinesOwn, Busy
  <2>3. \A o \in Places : (Failed(o) \subseteq 1 .. lines)'
    BY <1>1, <1>3, <1>6 DEF WriteInv, LinesOwn
  <2>. QED  BY <2>1, <2>2, <2>3 DEF LinesOwn
<1>8. Positions'
  BY <1>3, <1>4, <1>5 DEF WriteInv, Positions, After
<1>9. Outcomes'
  BY <1>1, <1>3, <1>4, <1>5, <1>6, OutputChainConstants DEF WriteInv, Outcomes, After, Wrong, Places
<1>10. Passed'
  BY <1>3, <1>4, <1>5 DEF WriteInv, Passed, Busy, After
<1>. QED  BY <1>2, <1>7, <1>8, <1>9, <1>10 DEF WriteInv

LEMMA WriteDestinationWrite ==
    ASSUME WriteInv, NEW g \in Goroutines, WriteDestination(g)
    PROVE  WriteInv'
<1>. DEFINE d == at[g]
<1>1. PICK s, e \in BOOLEAN :
        /\ short' = [short EXCEPT ![g] = s]
        /\ err' = [err EXCEPT ![g] = e]
        /\ got' = IF s THEN got ELSE [got EXCEPT ![d] = @ \cup {line[g]}]
        /\ failed' = IF s \/ e THEN [failed EXCEPT ![d] = @ \cup {line[g]}] ELSE failed
  BY DEF WriteDestination
<1>2. /\ pc[g] = "write"
      /\ observer' = [observer EXCEPT ![g] = d]
      /\ pc' = [pc EXCEPT ![g] = IF d \in Observers THEN "observe" ELSE "tee"]
      /\ UNCHANGED <<line, at, lines, shortWrite, failures, told, rpc, asked, snapshot, before>>
  BY DEF WriteDestination, readers
<1>3. d \in 1 .. Destinations /\ line[g] \in 1 .. lines /\ lines \in 0 .. MaxLines
  BY <1>2 DEF WriteInv, LinesOwn, Busy, TypeOK
<1>4. TypeOK'
  <2>1. d \in Places /\ line[g] \in Lines
    BY <1>3, OutputChainConstants DEF Places, Lines
  <2>2. got' \in [1 .. Destinations -> SUBSET Lines]
    BY <1>1, <1>3, <2>1 DEF WriteInv, TypeOK
  <2>3. failed' \in [1 .. Destinations -> SUBSET Lines]
    BY <1>1, <1>3, <2>1 DEF WriteInv, TypeOK
  <2>4. /\ pc' \in [Goroutines -> {"idle", "write", "observe", "fail", "tell", "tee"}]
        /\ observer' \in [Goroutines -> Places]
        /\ short' \in [Goroutines -> BOOLEAN] /\ err' \in [Goroutines -> BOOLEAN]
    BY <1>1, <1>2, <2>1 DEF WriteInv, TypeOK
  <2>. QED  BY <1>2, <2>2, <2>3, <2>4 DEF WriteInv, TypeOK
<1>5. \A o \in Places : Failed(o)' = IF (s \/ e) /\ o \in {0, d} THEN Failed(o) \cup {line[g]}
                                      ELSE Failed(o)
  <2>1. CASE s \/ e
    BY <1>1, <1>3, <2>1, FailedMore DEF WriteInv
  <2>2. CASE ~(s \/ e)
    BY <1>1, <2>2, FailedSame
  <2>. QED  BY <2>1, <2>2
<1>6. \A h \in Goroutines : h # g =>
        /\ pc'[h] = pc[h] /\ observer'[h] = observer[h]
        /\ short'[h] = short[h] /\ err'[h] = err[h]
  BY <1>1, <1>2 DEF WriteInv, TypeOK
<1>7. /\ pc'[g] \in {"observe", "tee"} /\ observer'[g] = d /\ short'[g] = s /\ err'[g] = e
  BY <1>1, <1>2 DEF WriteInv, TypeOK
<1>8. LinesOwn'
  BY <1>2, <1>3, <1>5, <1>6, <1>7 DEF WriteInv, LinesOwn, Busy
<1>9. Positions'
  BY <1>2, <1>6, <1>7 DEF WriteInv, Positions, After
<1>10. 0 \in Places /\ d \in Places
  BY <1>3, OutputChainConstants DEF Places
<1>11. \A h \in Goroutines : h # g /\ Busy(h) => line[h] # line[g]
  BY <1>2 DEF WriteInv, LinesOwn, Busy
<1>12. Outcomes'
  <2>1. \A h \in Goroutines : observer[h] \in Places
    BY DEF WriteInv, TypeOK
  <2>. SUFFICES ASSUME NEW h \in Goroutines
                PROVE  (/\ pc[h] = "write" => line[h] \notin Failed(0)
                        /\ After(h) => (Wrong(h) <=> line[h] \in Failed(0))
                        /\ After(h) /\ Wrong(h) => line[h] \in Failed(observer[h])
                        /\ pc[h] \in {"fail", "tell"} => err[h])'
    BY DEF Outcomes
  <2>2. CASE h = g
    BY <1>2, <1>5, <1>7, <1>10, <2>2 DEF WriteInv, Outcomes, After, Wrong
  <2>3. CASE h # g
    BY <1>2, <1>5, <1>6, <1>10, <1>11, <2>1, <2>3 DEF WriteInv, Outcomes, After, Wrong, Busy
  <2>. QED  BY <2>2, <2>3
<1>13. /\ \A c \in 1 .. Destinations : got[c] \subseteq got'[c]
       /\ ~s => line[g] \in got'[d]
  BY <1>1, <1>3 DEF WriteInv, TypeOK
<1>14. Passed'
  <2>1. \A h \in Goroutines : Busy(h)' => Busy(h) /\ at[h] \in 1 .. Destinations
    BY <1>2, <1>6 DEF WriteInv, LinesOwn, Busy
  <2>2. \A h \in Goroutines : \A c \in 1 .. at[h] - 1 : Busy(h)' => c \in 1 .. Destinations
    BY <2>1, OutputChainConstants
  <2>. QED
    BY <1>2, <1>6, <1>7, <1>13, <2>1, <2>2 DEF WriteInv, Passed, Busy, After
<1>. QED  BY <1>4, <1>8, <1>9, <1>12, <1>14 DEF WriteInv

LEMMA ObserveWrite ==
    ASSUME WriteInv, NEW g \in Goroutines, Observe(g)
    PROVE  WriteInv'
<1>1. \A o : Failed(o)' = Failed(o)
  BY FailedSame DEF Observe
<1>2. /\ pc[g] = "observe" /\ err' = [err EXCEPT ![g] = @ \/ short[g]]
      /\ pc' = [pc EXCEPT ![g] = IF err'[g] THEN "fail" ELSE Returns(g, observer[g])]
      /\ shortWrite' = IF short[g] THEN [shortWrite EXCEPT ![observer[g]] = @ + 1] ELSE shortWrite
      /\ UNCHANGED <<line, at, observer, short, lines, failures, got, failed, told,
                     rpc, asked, snapshot, before>>
  BY DEF Observe, readers
<1>3. TypeOK'
  BY <1>2 DEF WriteInv, TypeOK, Returns
<1>4. /\ err'[g] = Wrong(g) /\ pc'[g] \in {"fail", "idle", "tee"}
      /\ pc'[g] = "fail" <=> Wrong(g)
      /\ pc'[g] = "tee" => observer[g] # 0
      /\ \A h \in Goroutines : h # g => pc'[h] = pc[h] /\ err'[h] = err[h]
  BY <1>2 DEF WriteInv, TypeOK, Wrong, Returns
<1>5. LinesOwn'
  BY <1>1, <1>2, <1>4 DEF WriteInv, LinesOwn, Busy
<1>6. Positions'
  BY <1>2, <1>4 DEF WriteInv, Positions, After
<1>7. Outcomes'
  BY <1>1, <1>2, <1>4 DEF WriteInv, Outcomes, After, Wrong
<1>8. Passed'
  BY <1>2, <1>4 DEF WriteInv, Passed, Busy, After
<1>. QED  BY <1>3, <1>5, <1>6, <1>7, <1>8 DEF WriteInv

LEMMA CountFailureWrite ==
    ASSUME WriteInv, NEW g \in Goroutines, CountFailure(g)
    PROVE  WriteInv'
<1>1. \A o : Failed(o)' = Failed(o)
  BY FailedSame DEF CountFailure
<1>2. /\ pc[g] = "fail" /\ pc' = [pc EXCEPT ![g] = "tell"]
      /\ failures' = [failures EXCEPT ![observer[g]] = @ + 1]
      /\ UNCHANGED <<line, at, observer, short, err, lines, shortWrite, got, failed, told,
                     rpc, asked, snapshot, before>>
  BY DEF CountFailure, readers
<1>3. TypeOK'
  BY <1>2 DEF WriteInv, TypeOK
<1>4. pc'[g] = "tell" /\ \A h \in Goroutines : h # g => pc'[h] = pc[h]
  BY <1>2 DEF WriteInv, TypeOK
<1>5. LinesOwn'
  BY <1>1, <1>2, <1>4 DEF WriteInv, LinesOwn, Busy
<1>6. Positions'
  BY <1>2, <1>4 DEF WriteInv, Positions, After
<1>7. Outcomes'
  BY <1>1, <1>2, <1>4 DEF WriteInv, Outcomes, After, Wrong
<1>8. Passed'
  BY <1>2, <1>4 DEF WriteInv, Passed, Busy, After
<1>. QED  BY <1>3, <1>5, <1>6, <1>7, <1>8 DEF WriteInv

LEMMA TellWrite ==
    ASSUME WriteInv, NEW g \in Goroutines, Tell(g)
    PROVE  WriteInv'
<1>1. \A o : Failed(o)' = Failed(o)
  BY FailedSame DEF Tell
<1>2. /\ pc[g] = "tell" /\ pc' = [pc EXCEPT ![g] = Returns(g, observer[g])]
      /\ told' = [told EXCEPT ![observer[g]] = @ \cup {line[g]}]
      /\ UNCHANGED <<line, at, observer, short, err, lines, shortWrite, failures, got, failed,
                     rpc, asked, snapshot, before>>
  BY DEF Tell, readers
<1>3. TypeOK'
  <2>1. line[g] \in Lines /\ observer[g] \in Places
    BY <1>2, OutputChainConstants DEF WriteInv, LinesOwn, TypeOK, Busy, Lines
  <2>2. told' \in [Places -> SUBSET Lines]
    BY <1>2, <2>1 DEF WriteInv, TypeOK
  <2>3. pc' \in [Goroutines -> {"idle", "write", "observe", "fail", "tell", "tee"}]
    BY <1>2 DEF WriteInv, TypeOK, Returns
  <2>. QED  BY <1>2, <2>2, <2>3 DEF WriteInv, TypeOK
<1>4. /\ pc'[g] \in {"idle", "tee"}
      /\ pc'[g] = "tee" => observer[g] # 0
      /\ \A h \in Goroutines : h # g => pc'[h] = pc[h]
  BY <1>2 DEF WriteInv, TypeOK, Returns
<1>5. LinesOwn'
  BY <1>1, <1>2, <1>4 DEF WriteInv, LinesOwn, Busy
<1>6. Positions'
  BY <1>2, <1>4 DEF WriteInv, Positions, After
<1>7. Outcomes'
  BY <1>1, <1>2, <1>4 DEF WriteInv, Outcomes, After, Wrong
<1>8. Passed'
  BY <1>2, <1>4 DEF WriteInv, Passed, Busy, After
<1>. QED  BY <1>3, <1>5, <1>6, <1>7, <1>8 DEF WriteInv

LEMMA TeeWrite ==
    ASSUME WriteInv, NEW g \in Goroutines, Tee(g)
    PROVE  WriteInv'
<1>1. \A o : Failed(o)' = Failed(o)
  BY FailedSame DEF Tee
<1>2. /\ pc[g] = "tee"
      /\ UNCHANGED <<line, short, lines, shortWrite, failures, got, failed, told,
                     rpc, asked, snapshot, before>>
  BY DEF Tee, readers
<1>3. at[g] \in 1 .. Destinations /\ observer[g] = at[g]
  BY <1>2 DEF WriteInv, LinesOwn, Positions, Busy
<1>4. CASE More(g)
  <2>1. /\ at' = [at EXCEPT ![g] = @ + 1] /\ pc' = [pc EXCEPT ![g] = "write"]
        /\ UNCHANGED <<observer, err>> /\ ~Wrong(g) /\ at[g] < Destinations
    BY <1>4 DEF Tee, More, Wrong
  <2>2. TypeOK'
    <3>1. at[g] + 1 \in Places
      BY <1>3, <2>1, OutputChainConstants DEF Places
    <3>. QED  BY <1>2, <2>1, <3>1 DEF WriteInv, TypeOK
  <2>3. /\ pc'[g] = "write" /\ at'[g] = at[g] + 1
        /\ \A h \in Goroutines : h # g => pc'[h] = pc[h] /\ at'[h] = at[h]
    BY <2>1 DEF WriteInv, TypeOK
  <2>4. LinesOwn'
    BY <1>1, <1>2, <1>3, <2>1, <2>3, OutputChainConstants DEF WriteInv, LinesOwn, Busy
  <2>5. Positions'
    BY <2>1, <2>3 DEF WriteInv, Positions, After
  <2>6. Outcomes'
    BY <1>1, <1>2, <2>1, <2>3 DEF WriteInv, Outcomes, After, Wrong
  <2>7. Passed'
    <3>1. \A d \in 1 .. at[g] : line[g] \in got[d]
      BY <1>2, <1>3, <2>1, OutputChainConstants DEF WriteInv, Passed, Busy, After, Wrong
    <3>. QED
      BY <1>2, <1>3, <2>3, <3>1, OutputChainConstants DEF WriteInv, Passed, Busy, After
  <2>. QED  BY <2>2, <2>4, <2>5, <2>6, <2>7 DEF WriteInv
<1>5. CASE ~More(g)
  <2>1. /\ err' = [err EXCEPT ![g] = @ \/ short[g]] /\ observer' = [observer EXCEPT ![g] = 0]
        /\ pc' = [pc EXCEPT ![g] = IF 0 \in Observers THEN "observe" ELSE "idle"]
        /\ UNCHANGED at
    BY <1>5 DEF Tee
  <2>2. TypeOK'
    <3>1. 0 \in Places
      BY OutputChainConstants DEF Places
    <3>. QED  BY <1>2, <2>1, <3>1 DEF WriteInv, TypeOK
  <2>3. /\ pc'[g] \in {"observe", "idle"} /\ observer'[g] = 0 /\ err'[g] = Wrong(g)
        /\ \A h \in Goroutines : h # g => /\ pc'[h] = pc[h] /\ observer'[h] = observer[h]
                                          /\ err'[h] = err[h]
    BY <2>1 DEF WriteInv, TypeOK, Wrong
  <2>4. LinesOwn'
    BY <1>1, <1>2, <2>1, <2>3 DEF WriteInv, LinesOwn, Busy
  <2>5. Positions'
    BY <2>1, <2>3 DEF WriteInv, Positions, After
  <2>6. Outcomes'
    BY <1>1, <1>2, <2>1, <2>3 DEF WriteInv, Outcomes, After, Wrong
  <2>7. Passed'
    BY <1>2, <2>1, <2>3 DEF WriteInv, Passed, Busy, After
  <2>. QED  BY <2>2, <2>4, <2>5, <2>6, <2>7 DEF WriteInv
<1>. QED  BY <1>4, <1>5

LEMMA StatsWrite ==
    ASSUME WriteInv, NEW r \in Readers, Stats(r)
    PROVE  WriteInv'
<1>1. UNCHANGED <<chain, shortWrite, failures>>
  BY DEF Stats, Ask, LoadFailures, LoadShortWrites, Return
<1>2. \A o : Failed(o)' = Failed(o)
  BY <1>1, FailedSame DEF chain
<1>3. TypeOK'
  <2>1. CASE Ask(r)
    <3>1. PICK o \in Observers :
            /\ asked' = [asked EXCEPT ![r] = o]
            /\ before' = [before EXCEPT ![r] = [failures |-> failures[o],
                                                shorts |-> shortWrite[o]]]
      BY <2>1 DEF Ask
    <3>2. o \in Places
      BY OutputChainConstants
    <3>3. before' \in [Readers -> [failures: Nat, shorts: Nat]]
      BY <3>1, <3>2 DEF WriteInv, TypeOK
    <3>4. /\ asked' \in [Readers -> Places] /\ UNCHANGED snapshot
          /\ rpc' \in [Readers -> {"idle", "failures", "shorts", "done"}]
      BY <2>1, <3>1, <3>2 DEF WriteInv, TypeOK, Ask
    <3>. QED  BY <1>1, <3>3, <3>4 DEF WriteInv, TypeOK, chain
  <2>2. CASE LoadFailures(r)
    BY <1>1, <2>2 DEF WriteInv, TypeOK, chain, LoadFailures
  <2>3. CASE LoadShortWrites(r)
    BY <1>1, <2>3 DEF WriteInv, TypeOK, chain, LoadShortWrites
  <2>4. CASE Return(r)
    BY <1>1, <2>4 DEF WriteInv, TypeOK, chain, Return
  <2>. QED  BY <2>1, <2>2, <2>3, <2>4 DEF Stats
<1>. QED
  BY <1>1, <1>2, <1>3 DEF WriteInv, LinesOwn, Positions, Outcomes, Passed, Busy, After, Wrong, chain

LEMMA NextWrite == WriteInv /\ [Next]_vars => WriteInv'
<1>. SUFFICES ASSUME WriteInv, [Next]_vars PROVE WriteInv'
  OBVIOUS
<1>1. CASE UNCHANGED vars
  <2>1. \A o : Failed(o)' = Failed(o)
    BY <1>1, FailedSame DEF vars, chain
  <2>. QED
    BY <1>1, <2>1 DEF vars, chain, readers, WriteInv, TypeOK, LinesOwn, Positions, Outcomes,
                      Passed, Busy, After, Wrong
<1>2. ASSUME NEW g \in Goroutines, Write(g) PROVE WriteInv'
  BY <1>2, BeginWrite, WriteDestinationWrite, ObserveWrite, CountFailureWrite, TellWrite, TeeWrite
     DEF Write
<1>3. ASSUME NEW r \in Readers, Stats(r) PROVE WriteInv'
  BY <1>3, StatsWrite
<1>. QED  BY <1>1, <1>2, <1>3 DEF Next

THEOREM WriteAlways == Spec => []WriteInv
BY InitWrite, NextWrite, PTL DEF Spec

\* What the program may rely on of every variable (OutputChain).
THEOREM TypeCorrect == Spec => []TypeOK
<1>1. WriteInv => TypeOK
  BY DEF WriteInv
<1>. QED  BY <1>1, WriteAlways, PTL

\* The tee leaves no gaps (teeWriter): what a later destination has, the
\* earlier ones have.
THEOREM CopiesAlwaysNested == Spec => []CopiesNested
<1>1. Init => CopiesNested
  BY OutputChainConstants DEF Init, CopiesNested
<1>2. CopiesNested /\ WriteInv /\ [Next]_vars => CopiesNested'
  <2>. SUFFICES ASSUME CopiesNested, WriteInv, [Next]_vars PROVE CopiesNested'
    OBVIOUS
  <2>1. ASSUME NEW g \in Goroutines, WriteDestination(g) PROVE CopiesNested'
    <3>1. PICK s \in BOOLEAN :
            got' = IF s THEN got ELSE [got EXCEPT ![at[g]] = @ \cup {line[g]}]
      BY <2>1 DEF WriteDestination
    <3>2. /\ at[g] \in 1 .. Destinations
          /\ \A d \in 1 .. at[g] - 1 : line[g] \in got[d]
      BY <2>1 DEF WriteDestination, WriteInv, LinesOwn, Passed, Busy
    <3>3. \A d \in 1 .. Destinations :
            got'[d] = IF ~s /\ d = at[g] THEN got[d] \cup {line[g]} ELSE got[d]
      BY <3>1, <3>2 DEF WriteInv, TypeOK
    <3>4. \A d \in 2 .. Destinations : d \in 1 .. Destinations /\ d - 1 \in 1 .. Destinations
      BY OutputChainConstants
    <3>5. at[g] \in 2 .. Destinations => line[g] \in got[at[g] - 1]
      BY <3>2, OutputChainConstants
    <3>. QED  BY <3>3, <3>4, <3>5 DEF CopiesNested
  <2>2. CASE UNCHANGED got
    BY <2>2 DEF CopiesNested
  <2>3. ASSUME NEW g \in Goroutines, Write(g), ~WriteDestination(g) PROVE UNCHANGED got
    BY <2>3 DEF Write, Begin, Observe, CountFailure, Tell, Tee
  <2>4. ASSUME NEW r \in Readers, Stats(r) PROVE UNCHANGED got
    BY <2>4 DEF Stats, Ask, LoadFailures, LoadShortWrites, Return, chain
  <2>. QED  BY <2>1, <2>2, <2>3, <2>4 DEF Next, vars, chain
<1>. QED  BY <1>1, <1>2, WriteAlways, PTL DEF Spec

-----------------------------------------------------------------------------
(* Counting. *)

LEMMA SomeFinite ==
    ASSUME NEW S \in SUBSET Goroutines
    PROVE  IsFiniteSet(S) /\ Cardinality(S) \in Nat
BY FS_Subset, FS_CardinalityType, OutputChainConstants

LEMMA LinesFinite ==
    ASSUME NEW S, NEW n \in Nat, S \subseteq 1 .. n
    PROVE  IsFiniteSet(S) /\ Cardinality(S) \in Nat
<1>1. IsFiniteSet(1 .. n)
  BY FS_Interval
<1>. QED  BY <1>1, FS_Subset, FS_CardinalityType

\* At most one goroutine more or less.
LEMMA OneMore ==
    ASSUME NEW S \in SUBSET Goroutines, NEW g \in Goroutines, g \notin S
    PROVE  Cardinality(S \cup {g}) = Cardinality(S) + 1
BY SomeFinite, FS_AddElement

LEMMA OneLess ==
    ASSUME NEW S \in SUBSET Goroutines, NEW g \in S
    PROVE  Cardinality(S \ {g}) = Cardinality(S) - 1
BY SomeFinite, FS_RemoveElement

LEMMA UncountedSome == \A o : Uncounted(o) \in SUBSET Goroutines
BY DEF Uncounted

LEMMA TellingSome == \A o : Telling(o) \in SUBSET Goroutines
BY DEF Telling

\* Whether h is among the goroutines that have a failure of o still to count.
Owes(h, o) ==
    /\ line[h] \in Failed(o)
    /\ \/ pc[h] \in {"observe", "fail"} /\ observer[h] = o
       \/ o = 0 /\ (pc[h] = "tee" \/ (pc[h] # "idle" /\ observer[h] # 0))

LEMMA UncountedOwe == \A o : Uncounted(o) = {h \in Goroutines : Owes(h, o)}
BY DEF Uncounted, Owes

LEMMA UncountedOwe2 == \A o : Uncounted(o)' = {h \in Goroutines : Owes(h, o)'}
BY DEF Uncounted, Owes

\* A step that changes neither what o has counted nor who owes it keeps the sum.
LEMMA CountKept ==
    ASSUME NEW o \in Observers,
           failures[o] + Cardinality(Uncounted(o)) = Cardinality(Failed(o)),
           Failed(o)' = Failed(o), failures'[o] = failures[o],
           \A h \in Goroutines : Owes(h, o)' <=> Owes(h, o)
    PROVE  failures'[o] + Cardinality(Uncounted(o)') = Cardinality(Failed(o)')
<1>1. Uncounted(o)' = Uncounted(o)
  BY UncountedOwe, UncountedOwe2
<1>. QED  BY <1>1

Counted(o) == failures[o] + Cardinality(Uncounted(o)) = Cardinality(Failed(o))

LEMMA FailuresCounted == FailuresExact <=> \A o \in Observers : Counted(o)
BY DEF FailuresExact, Counted

LEMMA InitCounted ==
    ASSUME Init, NEW o \in Observers
    PROVE  Counted(o)
<1>1. o \in Places
  BY OutputChainConstants
<1>2. Failed(o) = {}
  BY <1>1 DEF Init, Failed, Places
<1>3. Uncounted(o) = {} /\ failures[o] = 0
  BY <1>1, <1>2 DEF Uncounted, Init
<1>. QED  BY <1>2, <1>3, FS_EmptySet DEF Counted

\* A failing destination adds a line to Failed and its goroutine to Uncounted.
LEMMA WriteDestinationCounted ==
    ASSUME WriteInv, WriteInv', NEW g \in Goroutines, WriteDestination(g),
           NEW o \in Observers, Counted(o)
    PROVE  Counted(o)'
<1>. DEFINE d == at[g]
<1>1. PICK s, e \in BOOLEAN :
        failed' = IF s \/ e THEN [failed EXCEPT ![d] = @ \cup {line[g]}] ELSE failed
  BY DEF WriteDestination
<1>2. /\ pc[g] = "write" /\ observer' = [observer EXCEPT ![g] = d]
      /\ pc' = [pc EXCEPT ![g] = IF d \in Observers THEN "observe" ELSE "tee"]
      /\ UNCHANGED <<line, at, lines, failures>>
  BY DEF WriteDestination
<1>3. /\ d \in 1 .. Destinations /\ lines \in Nat /\ o \in Places /\ 0 \in Places
      /\ d \in Places
  BY <1>2, OutputChainConstants DEF WriteInv, LinesOwn, Busy, TypeOK, Places
<1>4. \A h \in Goroutines : h # g => pc'[h] = pc[h] /\ observer'[h] = observer[h]
  BY <1>2 DEF WriteInv, TypeOK
<1>5. /\ pc'[g] \in {"observe", "tee"} /\ observer'[g] = d
      /\ d \in Observers => pc'[g] = "observe"
  BY <1>2 DEF WriteInv, TypeOK
<1>6. line[g] \notin Failed(0) /\ line[g] \notin Failed(o)
  <2>1. line[g] \notin Failed(0)
    BY <1>2 DEF WriteInv, Outcomes
  <2>2. o # 0 => o \in 1 .. Destinations
    BY <1>3, OutputChainConstants DEF Places
  <2>. QED  BY <2>1, <2>2, FailedBelow
<1>7. \A h \in Goroutines : h # g /\ pc[h] # "idle" => line[h] # line[g]
  BY <1>2 DEF WriteInv, LinesOwn, Busy
<1>8. CASE ~(s \/ e)
  <2>1. \A p : Failed(p)' = Failed(p)
    BY <1>1, <1>8, FailedSame
  <2>2. \A h \in Goroutines : Owes(h, o)' <=> Owes(h, o)
    BY <1>2, <1>4, <1>6, <2>1 DEF Owes
  <2>. QED  BY <1>2, <2>1, <2>2, CountKept DEF Counted
<1>9. CASE s \/ e
  <2>1. \A p \in Places : Failed(p)' = IF p \in {0, d} THEN Failed(p) \cup {line[g]} ELSE Failed(p)
    BY <1>1, <1>3, <1>9, FailedMore DEF WriteInv
  <2>2. CASE o \notin {0, d}
    <3>1. \A h \in Goroutines : Owes(h, o)' <=> Owes(h, o)
      BY <1>2, <1>3, <1>4, <1>5, <1>6, <2>1, <2>2 DEF Owes
    <3>. QED  BY <1>2, <1>3, <2>1, <2>2, <3>1, CountKept DEF Counted
  <2>3. CASE o \in {0, d}
    <3>1. Failed(o)' = Failed(o) \cup {line[g]}
      BY <1>3, <2>1, <2>3
    <3>2. Cardinality(Failed(o)') = Cardinality(Failed(o)) + 1
      <4>1. IsFiniteSet(Failed(o))
        BY <1>3, LinesFinite DEF WriteInv, LinesOwn
      <4>. QED  BY <1>6, <3>1, <4>1, FS_AddElement
    <3>3. Owes(g, o)' /\ ~Owes(g, o)
      BY <1>2, <1>3, <1>5, <1>6, <2>3, <3>1 DEF Owes
    <3>4. \A h \in Goroutines : h # g => (Owes(h, o)' <=> Owes(h, o))
      BY <1>2, <1>4, <1>7, <3>1 DEF Owes
    <3>5. Uncounted(o)' = Uncounted(o) \cup {g} /\ g \notin Uncounted(o)
      BY <3>3, <3>4, UncountedOwe, UncountedOwe2
    <3>6. Cardinality(Uncounted(o)') = Cardinality(Uncounted(o)) + 1
      BY <3>5, OneMore, UncountedSome
    <3>7. /\ failures'[o] = failures[o] /\ failures[o] \in Nat
          /\ Cardinality(Uncounted(o)) \in Nat
      BY <1>2, <1>3, UncountedSome, SomeFinite DEF WriteInv, TypeOK
    <3>. QED  BY <3>2, <3>6, <3>7 DEF Counted
  <2>. QED  BY <2>2, <2>3
<1>. QED  BY <1>8, <1>9

\* The observer counts: its goroutine owes it nothing any more.
LEMMA CountFailureCounted ==
    ASSUME WriteInv, WriteInv', NEW g \in Goroutines, CountFailure(g),
           NEW o \in Observers, Counted(o)
    PROVE  Counted(o)'
<1>1. \A p : Failed(p)' = Failed(p)
  BY FailedSame DEF CountFailure
<1>2. /\ pc[g] = "fail" /\ pc' = [pc EXCEPT ![g] = "tell"]
      /\ failures' = [failures EXCEPT ![observer[g]] = @ + 1]
      /\ UNCHANGED <<line, observer>>
  BY DEF CountFailure
<1>3. pc'[g] = "tell" /\ \A h \in Goroutines : h # g => pc'[h] = pc[h]
  BY <1>2 DEF WriteInv, TypeOK
<1>4. o \in Places
  BY OutputChainConstants
<1>5. \A h \in Goroutines : h # g => (Owes(h, o)' <=> Owes(h, o))
  BY <1>1, <1>2, <1>3 DEF Owes
<1>6. line[g] \in Failed(observer[g])
  BY <1>2 DEF WriteInv, Outcomes, After, Wrong
<1>7. CASE o # observer[g]
  <2>1. Owes(g, o)' <=> Owes(g, o)
    BY <1>1, <1>2, <1>3, <1>7 DEF Owes
  <2>2. failures'[o] = failures[o]
    BY <1>2, <1>4, <1>7 DEF WriteInv, TypeOK
  <2>. QED  BY <1>1, <1>5, <2>1, <2>2, CountKept DEF Counted
<1>8. CASE o = observer[g]
  <2>1. Owes(g, o) /\ ~Owes(g, o)'
    BY <1>1, <1>2, <1>3, <1>6, <1>8 DEF Owes
  <2>2. Uncounted(o)' = Uncounted(o) \ {g} /\ g \in Uncounted(o)
    BY <1>5, <2>1, UncountedOwe, UncountedOwe2
  <2>3. Cardinality(Uncounted(o)') = Cardinality(Uncounted(o)) - 1
    BY <2>2, OneLess, UncountedSome
  <2>4. failures'[o] = failures[o] + 1 /\ failures[o] \in Nat
    BY <1>2, <1>4, <1>8 DEF WriteInv, TypeOK
  <2>5. Cardinality(Uncounted(o)) \in Nat
    BY UncountedSome, SomeFinite
  <2>. QED  BY <1>1, <2>3, <2>4, <2>5 DEF Counted
<1>. QED  BY <1>7, <1>8

\* The other steps of a Write neither add nor settle a debt.
LEMMA OtherWriteCounted ==
    ASSUME WriteInv, WriteInv', NEW g \in Goroutines,
           Begin(g) \/ Observe(g) \/ Tell(g) \/ Tee(g),
           NEW o \in Observers, Counted(o)
    PROVE  Counted(o)'
<1>1. \A p : Failed(p)' = Failed(p)
  BY FailedSame DEF Begin, Observe, Tell, Tee
<1>2. UNCHANGED failures
  BY DEF Begin, Observe, Tell, Tee
<1>3. o \in Places /\ 0 \in Places
  BY OutputChainConstants DEF Places
<1>4. Failed(o) \subseteq Failed(0)
  BY <1>3, FailedBelow, OutputChainConstants DEF Places
<1>5. \A h \in Goroutines : Owes(h, o)' <=> Owes(h, o)
  <2>1. CASE Begin(g)
    <3>1. /\ pc[g] = "idle" /\ line' = [line EXCEPT ![g] = lines + 1]
          /\ pc' = [pc EXCEPT ![g] = "write"] /\ UNCHANGED observer
      BY <2>1 DEF Begin
    <3>2. lines + 1 \notin Failed(o)
      BY <1>3, OutputChainConstants DEF WriteInv, LinesOwn, TypeOK
    <3>3. /\ line'[g] = lines + 1 /\ pc'[g] = "write"
          /\ \A h \in Goroutines : h # g => pc'[h] = pc[h] /\ line'[h] = line[h]
      BY <3>1 DEF WriteInv, TypeOK
    <3>. QED  BY <1>1, <3>1, <3>2, <3>3 DEF Owes
  <2>2. CASE Observe(g)
    <3>1. /\ pc[g] = "observe" /\ err' = [err EXCEPT ![g] = @ \/ short[g]]
          /\ pc' = [pc EXCEPT ![g] = IF err'[g] THEN "fail" ELSE Returns(g, observer[g])]
          /\ UNCHANGED <<line, observer>>
      BY <2>2 DEF Observe
    <3>2. /\ pc'[g] = IF Wrong(g) THEN "fail" ELSE Returns(g, observer[g])
          /\ \A h \in Goroutines : h # g => pc'[h] = pc[h]
      BY <3>1 DEF WriteInv, TypeOK, Wrong
    <3>3. ~Wrong(g) => line[g] \notin Failed(o)
      BY <1>4, <3>1 DEF WriteInv, Outcomes, After
    <3>. QED  BY <1>1, <3>1, <3>2, <3>3 DEF Owes
  <2>3. CASE Tell(g)
    <3>1. /\ pc[g] = "tell" /\ pc' = [pc EXCEPT ![g] = Returns(g, observer[g])]
          /\ UNCHANGED <<line, observer>>
      BY <2>3 DEF Tell
    <3>2. /\ pc'[g] = Returns(g, observer[g])
          /\ \A h \in Goroutines : h # g => pc'[h] = pc[h]
      BY <3>1 DEF WriteInv, TypeOK
    <3>. QED  BY <1>1, <3>1, <3>2 DEF Owes, Returns
  <2>4. CASE Tee(g) /\ More(g)
    <3>1. /\ pc[g] = "tee" /\ pc' = [pc EXCEPT ![g] = "write"]
          /\ UNCHANGED <<line, observer>>
      BY <2>4 DEF Tee
    <3>2. /\ pc'[g] = "write"
          /\ \A h \in Goroutines : h # g => pc'[h] = pc[h]
      BY <3>1 DEF WriteInv, TypeOK
    <3>3. line[g] \notin Failed(o)
      BY <1>4, <2>4, <3>1 DEF WriteInv, Outcomes, After, More, Wrong
    <3>. QED  BY <1>1, <3>1, <3>2, <3>3 DEF Owes
  <2>5. CASE Tee(g) /\ ~More(g)
    <3>1. /\ pc[g] = "tee" /\ observer' = [observer EXCEPT ![g] = 0] /\ UNCHANGED line
          /\ pc' = [pc EXCEPT ![g] = IF 0 \in Observers THEN "observe" ELSE "idle"]
      BY <2>5 DEF Tee
    <3>2. /\ observer'[g] = 0 /\ pc'[g] = IF 0 \in Observers THEN "observe" ELSE "idle"
          /\ \A h \in Goroutines : h # g => pc'[h] = pc[h] /\ observer'[h] = observer[h]
      BY <3>1 DEF WriteInv, TypeOK
    <3>. QED  BY <1>1, <3>1, <3>2 DEF Owes
  <2>. QED  BY <2>1, <2>2, <2>3, <2>4, <2>5
<1>. QED  BY <1>1, <1>2, <1>5, CountKept DEF Counted

\* Every Write that went wrong below an ObservedWriter is counted there, once
\* (observed_writer.go), by any number of goroutines at the same time.
THEOREM FailuresAlwaysExact == Spec => []FailuresExact
<1>1. Init => FailuresExact
  BY InitCounted, FailuresCounted
<1>2. FailuresExact /\ WriteInv /\ WriteInv' /\ [Next]_vars => FailuresExact'
  <2>. SUFFICES ASSUME FailuresExact, WriteInv, WriteInv', [Next]_vars, NEW o \in Observers
                PROVE  Counted(o)'
    BY DEF FailuresExact, Counted
  <2>1. Counted(o)
    BY FailuresCounted
  <2>2. ASSUME UNCHANGED <<chain, failures>> PROVE Counted(o)'
    BY <2>1, <2>2 DEF Counted, Uncounted, Failed, chain
  <2>3. ASSUME NEW g \in Goroutines, Write(g) PROVE Counted(o)'
    BY <2>1, <2>3, WriteDestinationCounted, CountFailureCounted, OtherWriteCounted DEF Write
  <2>4. ASSUME NEW r \in Readers, Stats(r) PROVE UNCHANGED <<chain, failures>>
    BY <2>4 DEF Stats, Ask, LoadFailures, LoadShortWrites, Return
  <2>. QED  BY <2>2, <2>3, <2>4 DEF Next, vars
<1>. QED  BY <1>1, <1>2, WriteAlways, PTL DEF Spec

LEMMA InitTold == Init => ToldCounted
<1>. SUFFICES ASSUME Init, NEW o \in Observers
              PROVE  /\ told[o] \subseteq Failed(o)
                     /\ Cardinality(told[o]) + Cardinality(Telling(o)) <= failures[o]
  BY DEF ToldCounted
<1>1. o \in Places
  BY OutputChainConstants
<1>2. told[o] = {} /\ Telling(o) = {} /\ failures[o] = 0
  BY <1>1 DEF Init, Telling
<1>. QED  BY <1>2, FS_EmptySet

LEMMA StepTold ==
    ASSUME ToldCounted, WriteInv, [Next]_vars, NEW o \in Observers
    PROVE  /\ told'[o] \subseteq Failed(o)'
           /\ Cardinality(told'[o]) + Cardinality(Telling(o)') <= failures'[o]
<1>. DEFINE Goal == /\ told'[o] \subseteq Failed(o)'
                    /\ Cardinality(told'[o]) + Cardinality(Telling(o)') <= failures'[o]
<1>1. /\ told[o] \subseteq Failed(o)
      /\ Cardinality(told[o]) + Cardinality(Telling(o)) <= failures[o]
      /\ o \in Places
  BY OutputChainConstants DEF ToldCounted
<1>2. /\ IsFiniteSet(told[o]) /\ Cardinality(told[o]) \in Nat
      /\ Cardinality(Telling(o)) \in Nat /\ failures[o] \in Nat
  <2>1. told[o] \subseteq 1 .. MaxLines
    BY <1>1 DEF WriteInv, TypeOK, Lines
  <2>. QED
    BY <1>1, <2>1, LinesFinite, SomeFinite, TellingSome, OutputChainConstants DEF WriteInv, TypeOK
<1>3. Failed(o) \subseteq Failed(o)'
  <2>1. ASSUME NEW g \in Goroutines, WriteDestination(g) PROVE Failed(o) \subseteq Failed(o)'
    <3>1. at[g] \in 1 .. Destinations
      BY <2>1 DEF WriteInv, LinesOwn, Busy, WriteDestination
    <3>2. \/ failed' = failed
          \/ failed' = [failed EXCEPT ![at[g]] = @ \cup {line[g]}]
      BY <2>1 DEF WriteDestination
    <3>. QED  BY <1>1, <3>1, <3>2, FailedMore, FailedSame DEF WriteInv
  <2>2. ASSUME NEW g \in Goroutines, Write(g), ~WriteDestination(g) PROVE UNCHANGED failed
    BY <2>2 DEF Write, Begin, Observe, CountFailure, Tell, Tee
  <2>3. ASSUME NEW r \in Readers, Stats(r) PROVE UNCHANGED failed
    BY <2>3 DEF Stats, Ask, LoadFailures, LoadShortWrites, Return, chain
  <2>. QED  BY <2>1, <2>2, <2>3, FailedSame DEF Next, vars, chain
<1>4. ASSUME Telling(o)' = Telling(o), UNCHANGED <<told, failures>> PROVE Goal
  BY <1>1, <1>3, <1>4
<1>5. ASSUME NEW g \in Goroutines, CountFailure(g) PROVE Goal
  <2>1. /\ pc[g] = "fail" /\ pc' = [pc EXCEPT ![g] = "tell"]
        /\ failures' = [failures EXCEPT ![observer[g]] = @ + 1]
        /\ UNCHANGED <<observer, told>>
    BY <1>5 DEF CountFailure
  <2>2. pc'[g] = "tell" /\ \A h \in Goroutines : h # g => pc'[h] = pc[h]
    BY <2>1 DEF WriteInv, TypeOK
  <2>3. CASE observer[g] = o
    <3>1. Telling(o)' = Telling(o) \cup {g} /\ g \notin Telling(o)
      BY <2>1, <2>2, <2>3 DEF Telling
    <3>2. Cardinality(Telling(o)') = Cardinality(Telling(o)) + 1
      BY <3>1, OneMore, TellingSome
    <3>3. failures'[o] = failures[o] + 1
      BY <1>1, <2>1, <2>3 DEF WriteInv, TypeOK
    <3>. QED  BY <1>1, <1>2, <1>3, <2>1, <3>2, <3>3
  <2>4. CASE observer[g] # o
    <3>1. Telling(o)' = Telling(o)
      BY <2>1, <2>2, <2>4 DEF Telling
    <3>2. failures'[o] = failures[o]
      BY <1>1, <2>1, <2>4 DEF WriteInv, TypeOK
    <3>. QED  BY <1>1, <1>3, <2>1, <3>1, <3>2
  <2>. QED  BY <2>3, <2>4
<1>6. ASSUME NEW g \in Goroutines, Tell(g) PROVE Goal
  <2>1. /\ pc[g] = "tell" /\ pc' = [pc EXCEPT ![g] = Returns(g, observer[g])]
        /\ told' = [told EXCEPT ![observer[g]] = @ \cup {line[g]}]
        /\ UNCHANGED <<observer, failures>>
    BY <1>6 DEF Tell
  <2>2. /\ pc'[g] # "tell" /\ \A h \in Goroutines : h # g => pc'[h] = pc[h]
        /\ observer[g] \in Places /\ line[g] \in Failed(observer[g])
    BY <2>1 DEF WriteInv, TypeOK, Outcomes, After, Wrong, Returns
  <2>3. CASE observer[g] = o
    <3>1. Telling(o)' = Telling(o) \ {g} /\ g \in Telling(o)
      BY <2>1, <2>2, <2>3 DEF Telling
    <3>2. Cardinality(Telling(o)') = Cardinality(Telling(o)) - 1
      BY <3>1, OneLess, TellingSome
    <3>3. told'[o] = told[o] \cup {line[g]}
      BY <1>1, <2>1, <2>3 DEF WriteInv, TypeOK
    <3>4. \/ Cardinality(told'[o]) = Cardinality(told[o])
          \/ Cardinality(told'[o]) = Cardinality(told[o]) + 1
      BY <1>2, <3>3, FS_AddElement
    <3>5. told'[o] \subseteq Failed(o)'
      BY <1>1, <1>3, <2>2, <2>3, <3>3
    <3>. QED  BY <1>1, <1>2, <2>1, <3>2, <3>4, <3>5
  <2>4. CASE observer[g] # o
    <3>1. Telling(o)' = Telling(o)
      BY <2>1, <2>2, <2>4 DEF Telling
    <3>2. told'[o] = told[o]
      BY <1>1, <2>1, <2>4 DEF WriteInv, TypeOK
    <3>. QED  BY <1>1, <1>3, <2>1, <3>1, <3>2
  <2>. QED  BY <2>3, <2>4
<1>7. ASSUME NEW g \in Goroutines,
             Begin(g) \/ WriteDestination(g) \/ Observe(g) \/ Tee(g)
      PROVE  Goal
  <2>1. /\ pc[g] # "tell" /\ pc'[g] # "tell" /\ UNCHANGED <<told, failures>>
        /\ \A h \in Goroutines : h # g => pc'[h] = pc[h] /\ observer'[h] = observer[h]
    BY <1>7 DEF Begin, WriteDestination, Observe, Tee, Returns, WriteInv, TypeOK
  <2>2. Telling(o)' = Telling(o)
    BY <2>1 DEF Telling
  <2>. QED  BY <1>4, <2>1, <2>2
<1>8. ASSUME UNCHANGED <<chain, failures>> PROVE Goal
  BY <1>4, <1>8 DEF chain, Telling
<1>9. ASSUME NEW r \in Readers, Stats(r) PROVE UNCHANGED <<chain, failures>>
  BY <1>9 DEF Stats, Ask, LoadFailures, LoadShortWrites, Return
<1>10. Goal
  BY <1>5, <1>6, <1>7, <1>8, <1>9 DEF Next, Write, vars
<1>. QED  BY <1>10

\* onFailure is called for lines that failed, after they were counted
\* (ObservedWriter.Write).
THEOREM AlwaysToldWhatFailed == Spec => []ToldWhatFailed
<1>1. ToldCounted /\ WriteInv /\ [Next]_vars => ToldCounted'
  BY StepTold DEF ToldCounted
<1>2. Spec => []ToldCounted
  BY <1>1, InitTold, WriteAlways, PTL DEF Spec
<1>3. ToldCounted /\ WriteInv => ToldWhatFailed
  <2>. SUFFICES ASSUME ToldCounted, WriteInv, NEW o \in Observers
                PROVE  told[o] \subseteq Failed(o) /\ Cardinality(told[o]) <= failures[o]
    BY DEF ToldWhatFailed
  <2>1. told[o] \subseteq 1 .. MaxLines /\ failures[o] \in Nat
    BY OutputChainConstants DEF WriteInv, TypeOK, Lines
  <2>2. Cardinality(told[o]) \in Nat /\ Cardinality(Telling(o)) \in Nat
    BY <2>1, LinesFinite, SomeFinite, TellingSome, OutputChainConstants
  <2>. QED  BY <2>1, <2>2 DEF ToldCounted
<1>. QED  BY <1>2, <1>3, WriteAlways, PTL

-----------------------------------------------------------------------------
(* Stats. *)

LEMMA CountersGrow ==
    ASSUME TypeOK, [Next]_vars, NEW o \in Places
    PROVE  failures[o] <= failures'[o] /\ shortWrite[o] <= shortWrite'[o]
<1>1. failures[o] \in Nat /\ shortWrite[o] \in Nat
  BY DEF TypeOK
<1>2. ASSUME NEW g \in Goroutines, Observe(g)
      PROVE  UNCHANGED failures /\ shortWrite[o] <= shortWrite'[o]
  <2>1. \/ shortWrite' = shortWrite
        \/ shortWrite' = [shortWrite EXCEPT ![observer[g]] = @ + 1]
    BY <1>2 DEF Observe
  <2>. QED  BY <1>1, <1>2, <2>1 DEF TypeOK, Observe
<1>3. ASSUME NEW g \in Goroutines, CountFailure(g)
      PROVE  UNCHANGED shortWrite /\ failures[o] <= failures'[o]
  BY <1>1, <1>3 DEF TypeOK, CountFailure
<1>4. ASSUME NEW g \in Goroutines, Begin(g) \/ WriteDestination(g) \/ Tell(g) \/ Tee(g)
      PROVE  UNCHANGED <<shortWrite, failures>>
  BY <1>4 DEF Begin, WriteDestination, Tell, Tee
<1>5. ASSUME NEW r \in Readers, Stats(r) PROVE UNCHANGED <<shortWrite, failures>>
  BY <1>5 DEF Stats, Ask, LoadFailures, LoadShortWrites, Return
<1>. QED  BY <1>1, <1>2, <1>3, <1>4, <1>5 DEF Next, Write, vars

\* Stats is between what the counters were at its call and what they are now
\* (README.md, Operational Output Health).
THEOREM StatsAlwaysInCall == Spec => []StatsInCall
<1>1. Init => Loading /\ StatsInCall
  BY DEF Init, Loading, StatsInCall
<1>2. Loading /\ StatsInCall /\ TypeOK /\ TypeOK' /\ [Next]_vars => Loading' /\ StatsInCall'
  <2>. SUFFICES ASSUME Loading, StatsInCall, TypeOK, TypeOK', [Next]_vars, NEW r \in Readers
                PROVE  /\ (rpc[r] = "failures" =>
                            /\ before[r].failures <= failures[asked[r]]
                            /\ before[r].shorts <= shortWrite[asked[r]])'
                       /\ (rpc[r] = "shorts" =>
                            /\ before[r].failures <= snapshot[r].failures
                            /\ snapshot[r].failures <= failures[asked[r]]
                            /\ before[r].shorts <= shortWrite[asked[r]])'
                       /\ (rpc[r] = "done" =>
                            /\ before[r].failures <= snapshot[r].failures
                            /\ snapshot[r].failures <= failures[asked[r]]
                            /\ before[r].shorts <= snapshot[r].shorts
                            /\ snapshot[r].shorts <= shortWrite[asked[r]])'
    BY DEF Loading, StatsInCall
  <2>. DEFINE Goal == /\ (rpc[r] = "failures" =>
                            /\ before[r].failures <= failures[asked[r]]
                            /\ before[r].shorts <= shortWrite[asked[r]])'
                      /\ (rpc[r] = "shorts" =>
                            /\ before[r].failures <= snapshot[r].failures
                            /\ snapshot[r].failures <= failures[asked[r]]
                            /\ before[r].shorts <= shortWrite[asked[r]])'
                      /\ (rpc[r] = "done" =>
                            /\ before[r].failures <= snapshot[r].failures
                            /\ snapshot[r].failures <= failures[asked[r]]
                            /\ before[r].shorts <= snapshot[r].shorts
                            /\ snapshot[r].shorts <= shortWrite[asked[r]])'
  <2>1. \A o \in Places : /\ failures[o] \in Nat /\ shortWrite[o] \in Nat
                          /\ failures'[o] \in Nat /\ shortWrite'[o] \in Nat
                          /\ failures[o] <= failures'[o] /\ shortWrite[o] <= shortWrite'[o]
    BY CountersGrow DEF TypeOK
  <2>2. /\ asked[r] \in Places /\ asked'[r] \in Places
        /\ before[r].failures \in Nat /\ before[r].shorts \in Nat
        /\ snapshot[r].failures \in Nat /\ snapshot[r].shorts \in Nat
    BY DEF TypeOK
  <2>3. ASSUME rpc'[r] = rpc[r], asked'[r] = asked[r], snapshot'[r] = snapshot[r],
               before'[r] = before[r]
        PROVE  Goal
    BY <2>1, <2>2, <2>3 DEF Loading, StatsInCall
  <2>4. ASSUME NEW q \in Readers, Stats(q), q # r PROVE Goal
    <3>1. /\ rpc'[r] = rpc[r] /\ asked'[r] = asked[r] /\ snapshot'[r] = snapshot[r]
          /\ before'[r] = before[r]
      BY <2>4 DEF Stats, Ask, LoadFailures, LoadShortWrites, Return, TypeOK
    <3>. QED  BY <2>3, <3>1
  <2>5. CASE Ask(r)
    <3>1. PICK o \in Observers :
            /\ asked' = [asked EXCEPT ![r] = o]
            /\ before' = [before EXCEPT ![r] = [failures |-> failures[o],
                                                shorts |-> shortWrite[o]]]
      BY <2>5 DEF Ask
    <3>2. /\ asked'[r] = o /\ rpc'[r] = "failures" /\ o \in Places
          /\ before'[r] = [failures |-> failures[o], shorts |-> shortWrite[o]]
          /\ UNCHANGED <<failures, shortWrite>>
      BY <2>5, <3>1, OutputChainConstants DEF Ask, TypeOK
    <3>. QED  BY <2>1, <3>2
  <2>6. CASE LoadFailures(r)
    <3>1. /\ snapshot'[r].failures = failures[asked[r]] /\ rpc[r] = "failures"
          /\ rpc'[r] = "shorts" /\ UNCHANGED <<asked, before, shortWrite, failures>>
      BY <2>6 DEF LoadFailures, TypeOK
    <3>. QED  BY <2>1, <2>2, <3>1 DEF Loading
  <2>7. CASE LoadShortWrites(r)
    <3>1. /\ snapshot'[r].shorts = shortWrite[asked[r]] /\ rpc[r] = "shorts"
          /\ snapshot'[r].failures = snapshot[r].failures
          /\ rpc'[r] = "done" /\ UNCHANGED <<asked, before, shortWrite, failures>>
      BY <2>7 DEF LoadShortWrites, TypeOK
    <3>. QED  BY <2>1, <2>2, <3>1 DEF Loading
  <2>8. CASE Return(r)
    BY <2>8 DEF Return, TypeOK
  <2>9. ASSUME UNCHANGED readers PROVE Goal
    BY <2>3, <2>9 DEF readers
  <2>10. ASSUME NEW g \in Goroutines, Write(g) PROVE UNCHANGED readers
    BY <2>10 DEF Write, Begin, WriteDestination, Observe, CountFailure, Tell, Tee
  <2>11. Goal
    BY <2>4, <2>5, <2>6, <2>7, <2>8, <2>9, <2>10 DEF Next, Stats, vars
  <2>. QED  BY <2>11
<1>. QED  BY <1>1, <1>2, TypeCorrect, PTL DEF Spec
=============================================================================
