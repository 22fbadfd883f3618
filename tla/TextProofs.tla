----------------------------- MODULE TextProofs -----------------------------
(***************************************************************************)
(* Proofs about the text functions of the worker (OutputCompare) and of    *)
(* the note index (NoteSearch), for texts of any length.  Each recursive   *)
(* function is first shown to satisfy the recursion that defines it        *)
(* (Iteration); what it computes then follows by induction over the        *)
(* positions of the text (InductionUpTo).                                  *)
(***************************************************************************)
EXTENDS OutputCompare, NoteSearch, Recursion, SequenceTheorems,
        FiniteSetTheorems, TLAPS

-----------------------------------------------------------------------------
(* Line ends.                                                              *)

(***************************************************************************)
(* EndingsUpTo is the recursion it states, and never lets a CR through.    *)
(***************************************************************************)
LEMMA EndingsRecursion ==
    ASSUME NEW t \in Texts
    PROVE  LET e == EndingsUpTo(t)
           IN  /\ e \in [0 .. Len(t) -> Seq(Characters \ {CR})]
               /\ e[0] = <<>>
               /\ \A i \in 1 .. Len(t) :
                    e[i] = IF t[i] = LF /\ i > 1 /\ t[i - 1] = CR THEN e[i - 1]
                           ELSE Append(e[i - 1], IF t[i] = CR THEN LF ELSE t[i])
<1> DEFINE N == Len(t)
           S == Seq(Characters \ {CR})
           Step(i, s) == IF t[i] = LF /\ i > 1 /\ t[i - 1] = CR THEN s
                         ELSE Append(s, IF t[i] = CR THEN LF ELSE t[i])
           G == [x \in (1 .. N) \X S |-> Step(x[1], x[2])]
<1>1. N \in Nat /\ t \in [1 .. N -> Characters]
  BY DEF Texts
<1>2. ASSUME NEW i \in 1 .. N, NEW s \in S PROVE Step(i, s) \in S
  BY <1>1, CharactersDiffer
<1>3. G \in [(1 .. N) \X S -> S]
  BY <1>2
<1>4. <<>> \in S
  OBVIOUS
<1>5. PICK f \in [0 .. N -> S] :
          f[0] = <<>> /\ \A n \in 1 .. N : f[n] = G[<<n, f[n - 1]>>]
  <2>1. \E f \in [0 .. N -> S] :
          f[0] = <<>> /\ \A n \in 1 .. N : f[n] = G[<<n, f[n - 1]>>]
    <3> HIDE DEF S, G, N
    <3>1. Iterates(N, S, <<>>, G) # {}
      BY <1>1, <1>3, <1>4, Iteration
    <3> QED BY <3>1 DEF Iterates
  <2> QED BY <2>1
<1>6. ASSUME NEW n \in 1 .. N PROVE G[<<n, f[n - 1]>>] = Step(n, f[n - 1])
  <2>1. f[n - 1] \in S
    BY <1>1, <1>5
  <2> HIDE DEF Step, S
  <2> QED BY <2>1
<1>7. f = [n \in 0 .. N |-> IF n = 0 THEN <<>> ELSE Step(n, f[n - 1])]
  <2> HIDE DEF Step, G, S
  <2>1. \A n \in 0 .. N : (n # 0) => n \in 1 .. N
    BY <1>1
  <2> QED BY <1>5, <1>6, <2>1
<1> DEFINE e == EndingsUpTo(t)
<1>8. e = [n \in 0 .. N |-> IF n = 0 THEN <<>> ELSE Step(n, e[n - 1])]
  BY <1>7 DEF EndingsUpTo
<1>9. e[0] = <<>> /\ \A n \in 1 .. N : e[n] = Step(n, e[n - 1])
  <2> HIDE DEF Step, e
  <2> QED BY <1>1, <1>8
<1>10. \A n \in 0 .. N : e[n] \in S
  <2> DEFINE P == {n \in 0 .. N : e[n] \in S}
  <2>1. 0 \in P
    <3> HIDE DEF Step, S, e
    <3> QED BY <1>1, <1>4, <1>9
  <2>2. ASSUME NEW n \in 0 .. N - 1, n \in P PROVE n + 1 \in P
    <3>1. n + 1 \in 1 .. N /\ (n + 1) - 1 = n
      BY <1>1
    <3> HIDE DEF Step, S, e
    <3> QED BY <1>2, <1>9, <2>2, <3>1
  <2>3. 0 .. N \subseteq P
    <3> HIDE DEF P
    <3> QED BY <1>1, <2>1, <2>2, InductionUpTo
  <2> QED BY <2>3
<1>11. e \in [0 .. N -> S]
  <2> HIDE DEF Step, S
  <2> QED BY <1>8, <1>10
<1> QED BY <1>9, <1>11

LEMMA EndingsType ==
    ASSUME NEW t \in Texts
    PROVE  Endings(t) \in Seq(Characters \ {CR}) /\ Endings(t) \in Texts
<1>1. Len(t) \in 0 .. Len(t)
  BY DEF Texts
<1>2. Endings(t) \in Seq(Characters \ {CR})
  BY <1>1, EndingsRecursion DEF Endings
<1>3. Seq(Characters \ {CR}) \subseteq Texts
  BY DEF Texts
<1> QED BY <1>2, <1>3

(***************************************************************************)
(* A text without CR keeps its line ends.                                  *)
(***************************************************************************)
LEMMA EndingsFixed ==
    ASSUME NEW t \in Seq(Characters \ {CR})
    PROVE  Endings(t) = t
<1> DEFINE e == EndingsUpTo(t)
           N == Len(t)
           Prefix(n) == SubSeq(t, 1, n)
           P == {n \in 0 .. N : e[n] = Prefix(n)}
<1>1. t \in Texts /\ N \in Nat /\ t \in [1 .. N -> Characters \ {CR}]
  BY DEF Texts
<1>2. e[0] = <<>> /\ \A i \in 1 .. N : e[i] = Append(e[i - 1], t[i])
  <2>1. ASSUME NEW i \in 1 .. N PROVE t[i] # CR /\ ~ (i > 1 /\ t[i - 1] = CR)
    BY <1>1
  <2> QED BY <1>1, <2>1, EndingsRecursion
<1>3. /\ Prefix(0) = <<>> 
      /\ Prefix(N) = t
      /\ \A n \in 0 .. N - 1 : Prefix(n + 1) = Append(Prefix(n), t[n + 1])
  BY <1>1
<1>4. 0 .. N \subseteq P
  <2> HIDE DEF e, Prefix
  <2>1. 0 \in P
    BY <1>1, <1>2, <1>3
  <2>2. ASSUME NEW n \in 0 .. N - 1, n \in P PROVE n + 1 \in P
    <3>1. n + 1 \in 1 .. N /\ (n + 1) - 1 = n
      BY <1>1
    <3>2. e[n + 1] = Append(e[n], t[n + 1])
      BY <1>2, <3>1
    <3>3. e[n] = Prefix(n)
      BY <2>2
    <3>4. Prefix(n + 1) = Append(Prefix(n), t[n + 1])
      BY <1>3
    <3>5. e[n + 1] = Prefix(n + 1)
      BY <3>2, <3>3, <3>4
    <3> QED BY <3>1, <3>5
  <2> HIDE DEF P
  <2> QED BY <1>1, <2>1, <2>2, InductionUpTo
<1>5. e[N] = Prefix(N)
  BY <1>1, <1>4
<1> QED BY <1>3, <1>5 DEF Endings

(***************************************************************************)
(* Ending lines twice is ending them once.                                 *)
(***************************************************************************)
LEMMA EndingsTwice ==
    ASSUME NEW t \in Texts
    PROVE  Endings(Endings(t)) = Endings(t)
BY EndingsType, EndingsFixed

(***************************************************************************)
(* What the worker keeps of an output: no CR, no more than the limit, and  *)
(* all of an output within the limit.                                      *)
(***************************************************************************)
LEMMA CapturedType ==
    ASSUME NEW t \in Texts
    PROVE  /\ Captured(t) \in Seq(Characters \ {CR})
           /\ Len(Captured(t)) <= StdoutLimit
           /\ Len(Endings(t)) <= StdoutLimit => Captured(t) = Endings(t)
<1>1. Endings(t) \in Seq(Characters \ {CR})
  BY EndingsType
<1>2. ASSUME NEW out \in Seq(Characters \ {CR}), ~ (Len(out) <= StdoutLimit)
      PROVE  /\ SubSeq(out, 1, StdoutLimit) \in Seq(Characters \ {CR})
             /\ Len(SubSeq(out, 1, StdoutLimit)) = StdoutLimit
  BY <1>2, WordsAreNumbers
<1> QED BY <1>1, <1>2, WordsAreNumbers DEF Captured

-----------------------------------------------------------------------------
(* Words.                                                                  *)

(***************************************************************************)
(* WordsUpTo collects texts.                                               *)
(***************************************************************************)
LEMMA WordsRecursion ==
    ASSUME NEW t \in Texts
    PROVE  WordsUpTo(t) \in [0 .. Len(t) -> Seq(Texts)]
<1> DEFINE N == Len(t)
           S == Seq(Texts)
           Step(i, s) == IF t[i] \in Space THEN s
                         ELSE IF i > 1 /\ t[i - 1] \notin Space
                              THEN [s EXCEPT ![Len(s)] = Append(@, t[i])]
                              ELSE Append(s, <<t[i]>>)
           G == [x \in (1 .. N) \X S |-> Step(x[1], x[2])]
<1>1. N \in Nat /\ t \in [1 .. N -> Characters]
  BY DEF Texts
<1>2. ASSUME NEW i \in 1 .. N, NEW s \in S PROVE Step(i, s) \in S
  <2>1. t[i] \in Characters
    BY <1>1
  <2>2. Append(s, <<t[i]>>) \in S
    BY <2>1 DEF Texts
  <2>3. [s EXCEPT ![Len(s)] = Append(@, t[i])] \in S
    <3>1. CASE Len(s) = 0
      <4>1. [s EXCEPT ![Len(s)] = Append(@, t[i])] = s
        BY <3>1
      <4> QED BY <4>1
    <3>2. CASE Len(s) # 0
      <4>1. s[Len(s)] \in Texts
        BY <3>2
      <4>2. Append(s[Len(s)], t[i]) \in Texts
        BY <2>1, <4>1 DEF Texts
      <4> HIDE DEF S
      <4> QED BY <3>2, <4>2 DEF S
    <3> QED BY <3>1, <3>2
  <2> QED BY <2>2, <2>3
<1>3. G \in [(1 .. N) \X S -> S]
  BY <1>2
<1>4. <<>> \in S
  OBVIOUS
<1>5. PICK f \in [0 .. N -> S] :
          f[0] = <<>> /\ \A n \in 1 .. N : f[n] = G[<<n, f[n - 1]>>]
  <2>1. \E f \in [0 .. N -> S] :
          f[0] = <<>> /\ \A n \in 1 .. N : f[n] = G[<<n, f[n - 1]>>]
    <3> HIDE DEF S, G, N
    <3>1. Iterates(N, S, <<>>, G) # {}
      BY <1>1, <1>3, <1>4, Iteration
    <3> QED BY <3>1 DEF Iterates
  <2> QED BY <2>1
<1>6. ASSUME NEW n \in 1 .. N PROVE G[<<n, f[n - 1]>>] = Step(n, f[n - 1])
  <2>1. f[n - 1] \in S
    BY <1>1, <1>5
  <2> HIDE DEF Step, S
  <2> QED BY <2>1
<1>7. f = [n \in 0 .. N |-> IF n = 0 THEN <<>> ELSE Step(n, f[n - 1])]
  <2> HIDE DEF Step, G, S
  <2>1. \A n \in 0 .. N : (n # 0) => n \in 1 .. N
    BY <1>1
  <2> QED BY <1>5, <1>6, <2>1
<1> DEFINE w == WordsUpTo(t)
<1>8. w = [n \in 0 .. N |-> IF n = 0 THEN <<>> ELSE Step(n, w[n - 1])]
  BY <1>7 DEF WordsUpTo
<1>9. w[0] = <<>> /\ \A n \in 1 .. N : w[n] = Step(n, w[n - 1])
  <2> HIDE DEF Step, w
  <2> QED BY <1>1, <1>8
<1>10. \A n \in 0 .. N : w[n] \in S
  <2> DEFINE P == {n \in 0 .. N : w[n] \in S}
  <2>1. 0 \in P
    <3> HIDE DEF Step, S, w
    <3> QED BY <1>1, <1>4, <1>9
  <2>2. ASSUME NEW n \in 0 .. N - 1, n \in P PROVE n + 1 \in P
    <3>1. n + 1 \in 1 .. N /\ (n + 1) - 1 = n
      BY <1>1
    <3> HIDE DEF Step, S, w
    <3> QED BY <1>2, <1>9, <2>2, <3>1
  <2>3. 0 .. N \subseteq P
    <3> HIDE DEF P
    <3> QED BY <1>1, <2>1, <2>2, InductionUpTo
  <2> QED BY <2>3
<1> HIDE DEF Step, S, w
<1> QED BY <1>8, <1>10 DEF w, S

LEMMA WordsType ==
    ASSUME NEW t \in Texts
    PROVE  Words(t) \in Seq(Texts)
<1>1. Len(t) \in 0 .. Len(t)
  BY DEF Texts
<1> QED BY <1>1, WordsRecursion DEF Words

-----------------------------------------------------------------------------
(* Lines.                                                                  *)

(***************************************************************************)
(* A set of numbers up to N that is not empty has a least and a greatest   *)
(* element.                                                                *)
(***************************************************************************)
LEMMA EndsOfSet ==
    ASSUME NEW N \in Nat, NEW K \in SUBSET (1 .. N), K # {}
    PROVE  /\ \E i \in K : \A j \in K : i <= j
           /\ \E i \in K : \A j \in K : i >= j
<1>1. \E i \in K : \A j \in K : i <= j
  <2>1. K \in SUBSET Nat
    OBVIOUS
  <2> QED BY <2>1, LeastNumber
<1>2. \E i \in K : \A j \in K : i >= j
  <2> DEFINE M == {N - i : i \in K}
  <2>1. M \in SUBSET Nat /\ M # {}
    <3>1. PICK i \in K : TRUE
      OBVIOUS
    <3>2. N - i \in M
      OBVIOUS
    <3>3. M \in SUBSET Nat
      OBVIOUS
    <3> QED BY <3>2, <3>3
  <2>2. PICK m \in M : \A k \in M : m <= k
    <3> HIDE DEF M
    <3> QED BY <2>1, LeastNumber
  <2>3. PICK i \in K : m = N - i
    BY <2>2
  <2>4. ASSUME NEW j \in K PROVE i >= j
    <3>1. N - j \in M
      OBVIOUS
    <3>2. m <= N - j
      BY <2>2, <3>1
    <3> QED BY <2>3, <3>2
  <2> QED BY <2>4
<1> QED BY <1>1, <1>2

(***************************************************************************)
(* Strip cuts a text to the part between two characters it does not drop;  *)
(* what is cut off are characters it drops.                                *)
(***************************************************************************)
LEMMA StripCuts ==
    ASSUME NEW S, NEW t \in Seq(S), NEW Drop
    PROVE  \/ Strip(t, Drop) = <<>>
           \/ \E m, n \in 1 .. Len(t) :
                /\ m <= n
                /\ Strip(t, Drop) = SubSeq(t, m, n)
                /\ t[m] \notin Drop /\ t[n] \notin Drop
                /\ \A i \in 1 .. Len(t) : i < m \/ i > n => t[i] \in Drop
<1> DEFINE K == {i \in DOMAIN t : t[i] \notin Drop}
           m == CHOOSE i \in K : \A j \in K : i <= j
           n == CHOOSE i \in K : \A j \in K : i >= j
<1>1. Len(t) \in Nat /\ DOMAIN t = 1 .. Len(t)
  OBVIOUS
<1>2. CASE K = {}
  BY <1>2 DEF Strip
<1>3. CASE K # {}
  <2>1. /\ m \in K /\ \A j \in K : m <= j
        /\ n \in K /\ \A j \in K : n >= j
    <3>1. K \in SUBSET (1 .. Len(t))
      BY <1>1
    <3> HIDE DEF K
    <3> QED BY <1>1, <1>3, <3>1, EndsOfSet
  <2>2. Strip(t, Drop) = SubSeq(t, m, n)
    BY <1>3 DEF Strip
  <2> HIDE DEF m, n
  <2>3. m \in 1 .. Len(t) /\ n \in 1 .. Len(t) /\ m <= n
    BY <1>1, <2>1
  <2>4. t[m] \notin Drop /\ t[n] \notin Drop
    BY <2>1
  <2>5. ASSUME NEW i \in 1 .. Len(t), i < m \/ i > n PROVE t[i] \in Drop
    <3>1. i \notin K
      BY <1>1, <2>1, <2>3, <2>5
    <3> QED BY <1>1, <3>1
  <2> QED BY <2>2, <2>3, <2>4, <2>5
<1> QED BY <1>2, <1>3

(***************************************************************************)
(* A stripped text has characters of the text only, and does not begin or  *)
(* end with a character to drop.                                           *)
(***************************************************************************)
LEMMA StripType ==
    ASSUME NEW S, NEW t \in Seq(S), NEW Drop
    PROVE  /\ Strip(t, Drop) \in Seq(S)
           /\ Strip(t, Drop) # <<>> =>
                /\ Strip(t, Drop)[1] \notin Drop
                /\ Strip(t, Drop)[Len(Strip(t, Drop))] \notin Drop
<1>1. CASE Strip(t, Drop) = <<>>
  BY <1>1
<1>2. CASE Strip(t, Drop) # <<>>
  <2>1. PICK m, n \in 1 .. Len(t) :
            /\ m <= n
            /\ Strip(t, Drop) = SubSeq(t, m, n)
            /\ t[m] \notin Drop /\ t[n] \notin Drop
    BY <1>2, StripCuts
  <2>2. /\ SubSeq(t, m, n) \in Seq(S)
        /\ Len(SubSeq(t, m, n)) = n - m + 1
        /\ SubSeq(t, m, n)[1] = t[m]
        /\ SubSeq(t, m, n)[n - m + 1] = t[n]
    <3>1. SubSeq(t, m, n) \in Seq(S) /\ Len(SubSeq(t, m, n)) = n - m + 1
      BY <2>1
    <3>2. \A i \in 1 .. n - m + 1 : SubSeq(t, m, n)[i] = t[m + i - 1]
      BY <2>1
    <3>3. /\ 1 \in 1 .. n - m + 1 /\ n - m + 1 \in 1 .. n - m + 1
          /\ m + 1 - 1 = m /\ m + (n - m + 1) - 1 = n
      BY <2>1
    <3> QED BY <3>1, <3>2, <3>3
  <2> QED BY <2>1, <2>2
<1> QED BY <1>1, <1>2

\* The parts ls, the last of them one character longer.
Longer(ls, c) == [ls EXCEPT ![Len(ls)] = Append(@, c)]

\* p[n] is what the first n characters of t are split up into.
SplitsUp(p, t, Ends) ==
    /\ p[0] = << <<>> >>
    /\ \A n \in 1 .. Len(t) :
          p[n] = IF t[n] \in Ends THEN Append(p[n - 1], <<>>)
                 ELSE Longer(p[n - 1], t[n])

(***************************************************************************)
(* PartsUpTo is the recursion it states; there is always a part, and no    *)
(* part holds a character of Ends.                                         *)
(***************************************************************************)
LEMMA PartsRecursion ==
    ASSUME NEW C, NEW t \in Seq(C), NEW Ends
    PROVE  /\ PartsUpTo(t, Ends) \in [0 .. Len(t) -> Seq(Seq(C \ Ends)) \ {<<>>}]
           /\ SplitsUp(PartsUpTo(t, Ends), t, Ends)
<1> DEFINE N == Len(t)
           S == Seq(Seq(C \ Ends)) \ {<<>>}
           first == << <<>> >>
           Step(i, s) == IF t[i] \in Ends THEN Append(s, <<>>)
                         ELSE Longer(s, t[i])
           G == [x \in (1 .. N) \X S |-> Step(x[1], x[2])]
<1>1. N \in Nat /\ t \in [1 .. N -> C]
  OBVIOUS
<1>2. ASSUME NEW i \in 1 .. N, NEW s \in S PROVE Step(i, s) \in S
  <2>1. Append(s, <<>>) \in S
    OBVIOUS
  <2>2. ASSUME t[i] \notin Ends
        PROVE  Longer(s, t[i]) \in S
    <3>1. s[Len(s)] \in Seq(C \ Ends) /\ Len(s) \in DOMAIN s
      OBVIOUS
    <3>2. Append(s[Len(s)], t[i]) \in Seq(C \ Ends)
      BY <1>1, <2>2, <3>1
    <3> QED BY <3>1, <3>2 DEF Longer
  <2> QED BY <2>1, <2>2
<1>3. G \in [(1 .. N) \X S -> S]
  BY <1>2
<1>4. first \in S
  OBVIOUS
<1>5. PICK f \in [0 .. N -> S] :
          f[0] = first /\ \A n \in 1 .. N : f[n] = G[<<n, f[n - 1]>>]
  <2>1. \E f \in [0 .. N -> S] :
          f[0] = first /\ \A n \in 1 .. N : f[n] = G[<<n, f[n - 1]>>]
    <3> HIDE DEF S, G, N, first
    <3>1. Iterates(N, S, first, G) # {}
      BY <1>1, <1>3, <1>4, Iteration
    <3> QED BY <3>1 DEF Iterates
  <2> QED BY <2>1
<1>6. ASSUME NEW n \in 1 .. N PROVE G[<<n, f[n - 1]>>] = Step(n, f[n - 1])
  <2>1. f[n - 1] \in S
    <3> HIDE DEF S, G, first
    <3> QED BY <1>1, <1>5
  <2> HIDE DEF Step, S
  <2> QED BY <2>1
<1>7. f = [n \in 0 .. N |-> IF n = 0 THEN first ELSE Step(n, f[n - 1])]
  <2> HIDE DEF Step, G, S, first
  <2>1. \A n \in 0 .. N : (n # 0) => n \in 1 .. N
    BY <1>1
  <2> QED BY <1>5, <1>6, <2>1
<1> DEFINE p == PartsUpTo(t, Ends)
<1>8. p = [n \in 0 .. N |-> IF n = 0 THEN first ELSE Step(n, p[n - 1])]
  BY <1>7 DEF PartsUpTo, Longer
<1>9. p[0] = first /\ \A n \in 1 .. N : p[n] = Step(n, p[n - 1])
  <2> HIDE DEF Step, p, first
  <2> QED BY <1>1, <1>8
<1>10. \A n \in 0 .. N : p[n] \in S
  <2> DEFINE P == {n \in 0 .. N : p[n] \in S}
  <2>1. 0 \in P
    <3> HIDE DEF Step, S, p, first
    <3> QED BY <1>1, <1>4, <1>9
  <2>2. ASSUME NEW n \in 0 .. N - 1, n \in P PROVE n + 1 \in P
    <3>1. n + 1 \in 1 .. N /\ (n + 1) - 1 = n
      BY <1>1
    <3> HIDE DEF Step, S, p, first
    <3> QED BY <1>2, <1>9, <2>2, <3>1
  <2>3. 0 .. N \subseteq P
    <3> HIDE DEF P
    <3> QED BY <1>1, <2>1, <2>2, InductionUpTo
  <2> QED BY <2>3
<1>11. p \in [0 .. N -> S]
  <2> HIDE DEF Step, S, first
  <2> QED BY <1>8, <1>10
<1>12. SplitsUp(p, t, Ends)
  <2> HIDE DEF p
  <2> QED BY <1>9 DEF SplitsUp
<1> QED BY <1>11, <1>12

LEMMA PartsType ==
    ASSUME NEW C, NEW t \in Seq(C), NEW Ends
    PROVE  Parts(t, Ends) \in Seq(Seq(C \ Ends)) \ {<<>>}
<1>1. Len(t) \in 0 .. Len(t)
  OBVIOUS
<1>2. PartsUpTo(t, Ends) \in [0 .. Len(t) -> Seq(Seq(C \ Ends)) \ {<<>>}]
  BY PartsRecursion
<1>3. PartsUpTo(t, Ends)[Len(t)] \in Seq(Seq(C \ Ends)) \ {<<>>}
  BY <1>1, <1>2
<1> QED BY <1>3 DEF Parts

\* Texts without CR in which no blank begins or ends a line.
Trimmed == {s \in Seq(Characters \ {CR}) :
              \A k \in 1 .. Len(s) :
                 s[k] \in Blanks => /\ k > 1 /\ s[k - 1] # LF
                                    /\ k < Len(s) /\ s[k + 1] # LF}

(***************************************************************************)
(* JoinedUpTo is the recursion it states, in every set of texts that       *)
(* joining does not leave.                                                 *)
(***************************************************************************)
LEMMA JoinedRecursion ==
    ASSUME NEW S, NEW ls \in Seq(S), <<>> \in S,
           \A s, l \in S : s \o <<LF>> \o l \in S
    PROVE  LET g == JoinedUpTo(ls)
           IN  /\ g \in [0 .. Len(ls) -> S]
               /\ g[0] = <<>>
               /\ \A n \in 1 .. Len(ls) :
                     g[n] = IF n = 1 THEN ls[1] ELSE g[n - 1] \o <<LF>> \o ls[n]
<1> DEFINE N == Len(ls)
           Step(i, s) == IF i = 1 THEN ls[1] ELSE s \o <<LF>> \o ls[i]
           G == [x \in (1 .. N) \X S |-> Step(x[1], x[2])]
<1>1. N \in Nat /\ ls \in [1 .. N -> S]
  OBVIOUS
<1>3. ASSUME NEW i \in 1 .. N, NEW s \in S PROVE Step(i, s) \in S
  BY <1>1
<1>4. G \in [(1 .. N) \X S -> S]
  <2> HIDE DEF Step
  <2> QED BY <1>3
<1>5. PICK f \in [0 .. N -> S] :
          f[0] = <<>> /\ \A n \in 1 .. N : f[n] = G[<<n, f[n - 1]>>]
  <2>1. \E f \in [0 .. N -> S] :
          f[0] = <<>> /\ \A n \in 1 .. N : f[n] = G[<<n, f[n - 1]>>]
    <3> HIDE DEF G, N
    <3>1. Iterates(N, S, <<>>, G) # {}
      BY <1>1, <1>4, Iteration
    <3> QED BY <3>1 DEF Iterates
  <2> QED BY <2>1
<1>6. ASSUME NEW n \in 1 .. N PROVE G[<<n, f[n - 1]>>] = Step(n, f[n - 1])
  <2>1. f[n - 1] \in S
    BY <1>1, <1>5
  <2> HIDE DEF Step
  <2> QED BY <2>1
<1>7. f = [n \in 0 .. N |-> IF n = 0 THEN <<>> ELSE Step(n, f[n - 1])]
  <2> HIDE DEF Step, G
  <2>1. \A n \in 0 .. N : (n # 0) => n \in 1 .. N
    BY <1>1
  <2> QED BY <1>5, <1>6, <2>1
<1> DEFINE g == JoinedUpTo(ls)
<1>8. g = [n \in 0 .. N |-> IF n = 0 THEN <<>> ELSE Step(n, g[n - 1])]
  BY <1>7 DEF JoinedUpTo
<1>9. g[0] = <<>> /\ \A n \in 1 .. N : g[n] = Step(n, g[n - 1])
  <2> HIDE DEF Step, g
  <2> QED BY <1>1, <1>8
<1>10. \A n \in 0 .. N : g[n] \in S
  <2> DEFINE P == {n \in 0 .. N : g[n] \in S}
  <2>1. 0 \in P
    <3> HIDE DEF Step, g
    <3> QED BY <1>1, <1>9
  <2>2. ASSUME NEW n \in 0 .. N - 1, n \in P PROVE n + 1 \in P
    <3>1. n + 1 \in 1 .. N /\ (n + 1) - 1 = n
      BY <1>1
    <3> HIDE DEF Step, g
    <3> QED BY <1>3, <1>9, <2>2, <3>1
  <2>3. 0 .. N \subseteq P
    <3> HIDE DEF P
    <3> QED BY <1>1, <2>1, <2>2, InductionUpTo
  <2> QED BY <2>3
<1>11. g \in [0 .. N -> S]
  <2> HIDE DEF Step
  <2> QED BY <1>8, <1>10
<1> QED BY <1>9, <1>11

(***************************************************************************)
(* Trimmed lines, joined, are a trimmed text.                              *)
(***************************************************************************)
LEMMA JoinedType ==
    ASSUME NEW ls \in Seq(Trimmed)
    PROVE  Joined(ls) \in Trimmed
<1>1. ASSUME NEW s \in Trimmed, NEW l \in Trimmed PROVE s \o <<LF>> \o l \in Trimmed
  <2> DEFINE r == s \o <<LF>> \o l
             a == Len(s)
             b == Len(l)
  <2>1. s \in Seq(Characters \ {CR}) /\ l \in Seq(Characters \ {CR})
    BY DEF Trimmed
  <2>2. /\ r \in Seq(Characters \ {CR})
        /\ a \in Nat /\ b \in Nat
        /\ Len(r) = a + 1 + b
        /\ \A k \in 1 .. a : r[k] = s[k]
        /\ r[a + 1] = LF
        /\ \A k \in 1 .. b : r[a + 1 + k] = l[k]
    BY <2>1, CharactersDiffer
  <2> HIDE DEF r
  <2>3. ASSUME NEW k \in 1 .. Len(r), r[k] \in Blanks
        PROVE  k > 1 /\ r[k - 1] # LF /\ k < Len(r) /\ r[k + 1] # LF
    <3>1. CASE k \in 1 .. a
      <4>1. k > 1 /\ s[k - 1] # LF /\ k < a /\ s[k + 1] # LF
        BY <2>2, <2>3, <3>1 DEF Trimmed
      <4> QED BY <2>2, <3>1, <4>1
    <3>2. CASE k = a + 1
      BY <2>2, <2>3, <3>2, CharactersDiffer
    <3>3. CASE k \in a + 2 .. a + 1 + b
      <4>1. PICK j \in 1 .. b : k = a + 1 + j
        <5>1. k - a - 1 \in 1 .. b /\ k = a + 1 + (k - a - 1)
          BY <2>2, <3>3
        <5> QED BY <5>1
      <4>2. l[j] \in Blanks
        BY <2>2, <2>3, <4>1
      <4>3. j > 1 /\ l[j - 1] # LF /\ j < b /\ l[j + 1] # LF
        BY <4>1, <4>2 DEF Trimmed
      <4>4. PICK u, v \in 1 .. b : /\ u = j - 1 /\ k - 1 = a + 1 + u
                                   /\ v = j + 1 /\ k + 1 = a + 1 + v
        BY <2>2, <4>1, <4>3
      <4>5. r[a + 1 + u] = l[u] /\ r[a + 1 + v] = l[v]
        BY <2>2
      <4>6. k > 1 /\ k < Len(r)
        BY <2>2, <4>1, <4>3
      <4> QED BY <4>3, <4>4, <4>5, <4>6
    <3> QED BY <2>2, <3>1, <3>2, <3>3
  <2> QED BY <2>2, <2>3 DEF Trimmed, r
<1>2. <<>> \in Trimmed
  BY DEF Trimmed
<1>3. JoinedUpTo(ls) \in [0 .. Len(ls) -> Trimmed]
  BY <1>1, <1>2, JoinedRecursion
<1>4. Len(ls) \in 0 .. Len(ls)
  OBVIOUS
<1> QED BY <1>3, <1>4 DEF Joined

LEMMA TrimmedLinesType ==
    ASSUME NEW t \in Texts
    PROVE  TrimmedLines(t) \in Seq(Trimmed)
<1> DEFINE C == (Characters \ {CR}) \ {LF}
           lines == Parts(Endings(t), {LF})
<1>1. lines \in Seq(Seq(C))
  BY EndingsType, PartsType
<1>2. ASSUME NEW l \in Seq(C) PROVE Strip(l, Blanks) \in Trimmed
  <2> DEFINE s == Strip(l, Blanks)
  <2>1. s \in Seq(C) /\ (s # <<>> => s[1] \notin Blanks /\ s[Len(s)] \notin Blanks)
    BY StripType
  <2> HIDE DEF s
  <2>2. \A k \in 1 .. Len(s) : s[k] # LF /\ s[k] # CR /\ s[k] \in Characters
    BY <2>1
  <2>3. s \in Seq(Characters \ {CR})
    BY <2>1
  <2>4. ASSUME NEW k \in 1 .. Len(s), s[k] \in Blanks
        PROVE  k > 1 /\ s[k - 1] # LF /\ k < Len(s) /\ s[k + 1] # LF
    <3>1. k # 1 /\ k # Len(s)
      BY <2>1, <2>4
    <3>2. k - 1 \in 1 .. Len(s) /\ k + 1 \in 1 .. Len(s)
      BY <2>1, <3>1
    <3> QED BY <2>2, <3>1, <3>2
  <2> QED BY <2>3, <2>4 DEF Trimmed, s
<1> HIDE DEF C, lines
<1>3. \A i \in DOMAIN lines : Strip(lines[i], Blanks) \in Trimmed
  BY <1>1, <1>2
<1>4. [i \in DOMAIN lines |-> Strip(lines[i], Blanks)] \in Seq(Trimmed)
  BY <1>1, <1>3
<1> QED BY <1>4 DEF TrimmedLines, lines

(***************************************************************************)
(* What normalize makes of a text: no CR, no blank at the beginning or end *)
(* of a line, no empty line at the beginning or at the end.                *)
(***************************************************************************)
THEOREM NormalForm ==
    ASSUME NEW t \in Texts
    PROVE  /\ normalize(t) \in Trimmed
           /\ normalize(t) # <<>> =>
                /\ normalize(t)[1] # LF
                /\ normalize(t)[Len(normalize(t))] # LF
<1> DEFINE j == Joined(TrimmedLines(t))
<1>1. j \in Trimmed /\ j \in Seq(Characters \ {CR})
  BY TrimmedLinesType, JoinedType DEF Trimmed
<1> HIDE DEF j
<1>2. CASE Strip(j, {LF}) = <<>>
  <2>1. normalize(t) = <<>>
    BY <1>2 DEF normalize, j
  <2>2. <<>> \in Trimmed
    BY DEF Trimmed
  <2> QED BY <2>1, <2>2
<1>3. CASE Strip(j, {LF}) # <<>>
  <2>1. PICK m, n \in 1 .. Len(j) :
            /\ m <= n
            /\ Strip(j, {LF}) = SubSeq(j, m, n)
            /\ j[m] \notin {LF} /\ j[n] \notin {LF}
            /\ \A i \in 1 .. Len(j) : i < m \/ i > n => j[i] \in {LF}
    BY <1>1, <1>3, StripCuts
  <2> DEFINE s == SubSeq(j, m, n)
  <2>2. /\ s \in Seq(Characters \ {CR})
        /\ Len(s) = n - m + 1
        /\ \A k \in 1 .. n - m + 1 : s[k] = j[m + k - 1]
    BY <1>1, <2>1
  <2>3. s[1] # LF /\ s[Len(s)] # LF
    BY <2>1, <2>2
  <2> HIDE DEF s
  <2>4. ASSUME NEW k \in 1 .. Len(s), s[k] \in Blanks
        PROVE  k > 1 /\ s[k - 1] # LF /\ k < Len(s) /\ s[k + 1] # LF
    <3>1. PICK i \in m .. n : i = m + k - 1
      BY <2>1, <2>2
    <3>2. i \in 1 .. Len(j) /\ j[i] \in Blanks /\ Len(j) \in Nat
      <4>1. Len(j) \in Nat
        BY <1>1
      <4>2. i \in 1 .. Len(j)
        BY <2>1, <4>1
      <4>3. k \in 1 .. n - m + 1
        BY <2>2
      <4>4. s[k] = j[i]
        BY <2>2, <3>1, <4>3
      <4> QED BY <2>4, <4>1, <4>2, <4>4
    <3>3. i > 1 /\ j[i - 1] # LF /\ i < Len(j) /\ j[i + 1] # LF
      BY <1>1, <3>2 DEF Trimmed
    <3>4. i # m
      <4>1. CASE i = m
        <5>1. i - 1 \in 1 .. Len(j) /\ i - 1 < m
          BY <3>2, <3>3, <4>1
        <5> QED BY <2>1, <3>3, <5>1
      <4> QED BY <4>1
    <3>5. i # n
      <4>1. CASE i = n
        <5>1. i + 1 \in 1 .. Len(j) /\ i + 1 > n
          BY <3>2, <3>3, <4>1
        <5> QED BY <2>1, <3>3, <5>1
      <4> QED BY <4>1
    <3>6. /\ k - 1 \in 1 .. n - m + 1 /\ i - 1 = m + (k - 1) - 1
          /\ k + 1 \in 1 .. n - m + 1 /\ i + 1 = m + (k + 1) - 1
      BY <2>1, <2>2, <3>1, <3>4, <3>5
    <3>7. s[k - 1] = j[i - 1] /\ s[k + 1] = j[i + 1]
      BY <2>2, <3>6
    <3> QED BY <2>1, <2>2, <3>3, <3>6, <3>7
  <2>5. s \in Trimmed
    BY <2>2, <2>4 DEF Trimmed
  <2> QED BY <2>1, <2>3, <2>5 DEF normalize, j, s
<1> QED BY <1>2, <1>3

-----------------------------------------------------------------------------
(* Verdicts.                                                               *)

\* All the words the float mode finds in t are finite numbers.
Numeric(t) ==
    LET words == Words(normalize(t))
    IN  \A i \in DOMAIN words : words[i] \in Finite

(***************************************************************************)
(* Joining one more line adds a line end and the line.                     *)
(***************************************************************************)
LEMMA TextsJoined ==
    ASSUME NEW ls \in Seq(Texts)
    PROVE  LET g == JoinedUpTo(ls)
           IN  /\ g \in [0 .. Len(ls) -> Texts]
               /\ g[0] = <<>>
               /\ \A n \in 1 .. Len(ls) :
                     g[n] = IF n = 1 THEN ls[1] ELSE g[n - 1] \o <<LF>> \o ls[n]
<1>1. <<>> \in Texts
  BY DEF Texts
<1>2. \A s, l \in Texts : s \o <<LF>> \o l \in Texts
  BY CharactersDiffer DEF Texts
<1> QED BY <1>1, <1>2, JoinedRecursion

LEMMA JoinedAppend ==
    ASSUME NEW ls \in Seq(Texts), NEW l \in Texts
    PROVE  /\ Joined(ls) \in Texts
           /\ Joined(Append(ls, l)) =
                IF ls = <<>> THEN l ELSE Joined(ls) \o <<LF>> \o l
<1> DEFINE N == Len(ls)
           ms == Append(ls, l)
           f == JoinedUpTo(ls)
           g == JoinedUpTo(ms)
           P == {n \in 0 .. N : f[n] = g[n]}
<1>1. /\ N \in Nat /\ ms \in Seq(Texts) /\ Len(ms) = N + 1
      /\ \A i \in 1 .. N : ms[i] = ls[i]
      /\ ms[N + 1] = l
  OBVIOUS
<1>2. /\ f \in [0 .. N -> Texts] /\ f[0] = <<>>
      /\ \A n \in 1 .. N : f[n] = IF n = 1 THEN ls[1] ELSE f[n - 1] \o <<LF>> \o ls[n]
  BY TextsJoined
<1> HIDE DEF ms
<1>3. /\ g[0] = <<>>
      /\ \A n \in 1 .. N + 1 :
            g[n] = IF n = 1 THEN ms[1] ELSE g[n - 1] \o <<LF>> \o ms[n]
  BY <1>1, TextsJoined
<1> HIDE DEF f, g
<1>4. 0 \in P
  BY <1>1, <1>2, <1>3
<1>5. ASSUME NEW n \in 0 .. N - 1, n \in P PROVE n + 1 \in P
  <2>1. n + 1 \in 1 .. N /\ n + 1 \in 1 .. N + 1 /\ (n + 1) - 1 = n
    BY <1>1
  <2>2. ms[n + 1] = ls[n + 1] /\ f[n] = g[n]
    BY <1>1, <1>5, <2>1
  <2>3. /\ f[n + 1] = IF n + 1 = 1 THEN ls[1] ELSE f[n] \o <<LF>> \o ls[n + 1]
        /\ g[n + 1] = IF n + 1 = 1 THEN ms[1] ELSE g[n] \o <<LF>> \o ms[n + 1]
    BY <1>2, <1>3, <2>1
  <2>4. f[n + 1] = g[n + 1]
    <3>1. CASE n + 1 = 1
      <4>1. f[n + 1] = ls[1] /\ g[n + 1] = ms[1] /\ ms[1] = ls[1]
        BY <2>2, <2>3, <3>1
      <4> QED BY <4>1
    <3>2. CASE n + 1 # 1
      BY <2>2, <2>3, <3>2
    <3> QED BY <3>1, <3>2
  <2> QED BY <2>1, <2>4
<1>6. 0 .. N \subseteq P
  <2> HIDE DEF P
  <2> QED BY <1>1, <1>4, <1>5, InductionUpTo
<1>7. f[N] = g[N] /\ f[N] \in Texts
  BY <1>1, <1>2, <1>6
<1>8. Joined(ls) = f[N] /\ Joined(ms) = g[N + 1]
  BY <1>1 DEF Joined, f, g
<1>9. g[N + 1] = IF N = 0 THEN l ELSE g[N] \o <<LF>> \o l
  <2>1. N + 1 \in 1 .. N + 1 /\ (N + 1) - 1 = N /\ (N + 1 = 1 <=> N = 0)
    BY <1>1
  <2>2. g[N + 1] = IF N + 1 = 1 THEN ms[1] ELSE g[N] \o <<LF>> \o ms[N + 1]
    BY <1>3, <2>1
  <2>3. CASE N = 0
    <3>1. ms[1] = l
      BY <1>1, <2>3
    <3> QED BY <2>1, <2>2, <2>3, <3>1
  <2>4. CASE N # 0
    BY <1>1, <2>1, <2>2, <2>4
  <2> QED BY <2>3, <2>4
<1>10. ls = <<>> <=> N = 0
  OBVIOUS
<1> QED BY <1>7, <1>8, <1>9, <1>10 DEF ms

(***************************************************************************)
(* A character added to the last line is added to the joined text.         *)
(***************************************************************************)
LEMMA JoinedGrow ==
    ASSUME NEW ls \in Seq(Texts), ls # <<>>, NEW c \in Characters
    PROVE  Joined(Longer(ls, c)) = Append(Joined(ls), c)
<1> DEFINE N == Len(ls)
           front == SubSeq(ls, 1, N - 1)
           last == ls[N]
<1>1. /\ front \in Seq(Texts) /\ last \in Texts
      /\ ls = Append(front, last)
  OBVIOUS
<1>2. Append(last, c) \in Texts
  BY <1>1 DEF Texts
<1>3. [ls EXCEPT ![N] = Append(@, c)] = Append(front, Append(last, c))
  <2> DEFINE a == [ls EXCEPT ![N] = Append(@, c)]
             b == Append(front, Append(last, c))
  <2>1. N \in Nat \ {0} /\ N \in 1 .. N
    OBVIOUS
  <2>2. /\ a \in Seq(Texts) /\ Len(a) = N
        /\ \A i \in 1 .. N : a[i] = IF i = N THEN Append(last, c) ELSE ls[i]
    BY <1>2, <2>1
  <2>3. /\ b \in Seq(Texts) /\ Len(b) = N
        /\ \A i \in 1 .. N : b[i] = IF i = N THEN Append(last, c) ELSE ls[i]
    <3>1. /\ Len(front) = N - 1
          /\ \A i \in 1 .. N - 1 : front[i] = ls[i]
      <4>1. ASSUME NEW k \in 0 .. N
            PROVE  /\ Len(SubSeq(ls, 1, k)) = k
                   /\ \A i \in 1 .. k : SubSeq(ls, 1, k)[i] = ls[i]
        BY <2>1
      <4>2. N - 1 \in 0 .. N
        BY <2>1
      <4> HIDE DEF N
      <4> QED BY <4>1, <4>2
    <3> HIDE DEF front, last, N
    <3>2. b \in Seq(Texts) /\ Len(b) = N
      BY <1>1, <1>2, <2>1, <3>1
    <3>3. \A i \in 1 .. N : b[i] = IF i = N THEN Append(last, c) ELSE front[i]
      BY <1>1, <1>2, <2>1, <3>1
    <3> QED BY <2>1, <3>1, <3>2, <3>3
  <2> HIDE DEF a, b
  <2>4. \A i \in 1 .. N : a[i] = b[i]
    BY <2>2, <2>3
  <2>5. a = b
    BY <2>2, <2>3, <2>4, SeqEqual
  <2> QED BY <2>5 DEF a, b
<1> HIDE DEF front, last
<1>4. /\ Joined(ls) = IF front = <<>> THEN last ELSE Joined(front) \o <<LF>> \o last
      /\ Joined(Append(front, Append(last, c))) =
            IF front = <<>> THEN Append(last, c)
            ELSE Joined(front) \o <<LF>> \o Append(last, c)
      /\ Joined(front) \in Texts
  BY <1>1, <1>2, JoinedAppend
<1>5. ASSUME NEW a \in Seq(Characters), NEW b \in Seq(Characters)
      PROVE  a \o <<LF>> \o Append(b, c) = Append(a \o <<LF>> \o b, c)
  BY CharactersDiffer
<1>6. Joined(front) \o <<LF>> \o Append(last, c) = Append(Joined(front) \o <<LF>> \o last, c)
  BY <1>1, <1>4, <1>5 DEF Texts
<1> QED BY <1>3, <1>4, <1>6 DEF Longer

(***************************************************************************)
(* The parts of a text between its line ends, joined, are the text.        *)
(***************************************************************************)
LEMMA PartsJoined ==
    ASSUME NEW t \in Texts
    PROVE  Joined(Parts(t, {LF})) = t
<1> DEFINE N == Len(t)
           p == PartsUpTo(t, {LF})
           Prefix(n) == SubSeq(t, 1, n)
           P == {n \in 0 .. N : Joined(p[n]) = Prefix(n)}
<1>1. t \in Seq(Characters) /\ N \in Nat /\ t \in [1 .. N -> Characters]
  BY DEF Texts
<1>2. p \in [0 .. N -> Seq(Seq(Characters \ {LF})) \ {<<>>}] /\ SplitsUp(p, t, {LF})
  BY <1>1, PartsRecursion
<1>3. /\ Prefix(0) = <<>>
      /\ Prefix(N) = t
      /\ \A n \in 0 .. N : Prefix(n) \in Seq(Characters)
      /\ \A n \in 0 .. N - 1 : Prefix(n + 1) = Append(Prefix(n), t[n + 1])
  BY <1>1
<1> HIDE DEF p, Prefix
<1>4. Seq(Seq(Characters \ {LF})) \subseteq Seq(Texts)
  <2>1. Seq(Characters \ {LF}) \subseteq Texts
    BY DEF Texts
  <2> QED BY <2>1, SeqMonotonic
<1>5. <<>> \in Texts
  BY DEF Texts
<1>6. 0 \in P
  <2>1. Joined(Append(<<>>, <<>>)) = <<>>
    <3>1. <<>> \in Seq(Texts)
      OBVIOUS
    <3> QED BY <1>5, <3>1, JoinedAppend
  <2>2. p[0] = Append(<<>>, <<>>)
    BY <1>2 DEF SplitsUp
  <2> QED BY <1>1, <1>3, <2>1, <2>2
<1>7. ASSUME NEW n \in 0 .. N - 1, n \in P PROVE n + 1 \in P
  <2>1. n + 1 \in 1 .. N /\ (n + 1) - 1 = n /\ n \in 0 .. N
    BY <1>1
  <2>2. p[n] \in Seq(Texts) /\ p[n] # <<>>
    BY <1>2, <1>4, <2>1
  <2>3. t[n + 1] \in Characters
    BY <1>1, <2>1
  <2>4. Joined(p[n]) = Prefix(n) /\ Prefix(n) \in Seq(Characters)
    BY <1>3, <1>7, <2>1
  <2>5. p[n + 1] = IF t[n + 1] \in {LF} THEN Append(p[n], <<>>)
                   ELSE Longer(p[n], t[n + 1])
    BY <1>2, <2>1 DEF SplitsUp
  <2>6. Joined(p[n + 1]) = Append(Prefix(n), t[n + 1])
    <3>1. CASE t[n + 1] = LF
      <4>1. Joined(Append(p[n], <<>>)) = Prefix(n) \o <<LF>> \o <<>>
        BY <1>5, <2>2, <2>4, JoinedAppend
      <4>2. Prefix(n) \o <<LF>> \o <<>> = Append(Prefix(n), LF)
        BY <2>4, CharactersDiffer
      <4> QED BY <2>5, <3>1, <4>1, <4>2
    <3>2. CASE t[n + 1] # LF
      <4>1. p[n + 1] = Longer(p[n], t[n + 1])
        BY <2>5, <3>2
      <4> QED BY <2>2, <2>3, <2>4, <4>1, JoinedGrow
    <3> QED BY <3>1, <3>2
  <2>7. Prefix(n + 1) = Append(Prefix(n), t[n + 1])
    BY <1>3
  <2>8. n + 1 \in 0 .. N
    BY <1>1
  <2> QED BY <2>6, <2>7, <2>8
<1>8. 0 .. N \subseteq P
  <2> HIDE DEF P
  <2> QED BY <1>1, <1>6, <1>7, InductionUpTo
<1>9. Joined(p[N]) = t
  BY <1>1, <1>3, <1>8
<1> QED BY <1>9 DEF Parts, p

(***************************************************************************)
(* A text that does not begin or end with a character to drop is not cut.  *)
(***************************************************************************)
LEMMA StripFixed ==
    ASSUME NEW S, NEW t \in Seq(S), NEW Drop,
           t # <<>> => t[1] \notin Drop /\ t[Len(t)] \notin Drop
    PROVE  Strip(t, Drop) = t
<1> DEFINE K == {i \in DOMAIN t : t[i] \notin Drop}
           m == CHOOSE i \in K : \A j \in K : i <= j
           n == CHOOSE i \in K : \A j \in K : i >= j
<1>1. CASE t = <<>>
  <2>1. K = {}
    BY <1>1
  <2> QED BY <1>1, <2>1 DEF Strip
<1>2. CASE t # <<>>
  <2>1. Len(t) \in Nat \ {0} /\ 1 \in K /\ Len(t) \in K /\ \A j \in K : 1 <= j /\ j <= Len(t)
    BY <1>2
  <2>2. m = 1 /\ n = Len(t)
    <3>1. K \subseteq Nat
      OBVIOUS
    <3> HIDE DEF K
    <3>2. m \in K /\ \A j \in K : m <= j
      BY <2>1
    <3>3. n \in K /\ \A j \in K : n >= j
      <4>1. \E i \in K : \A j \in K : i >= j
        BY <2>1, <3>1
      <4> QED BY <4>1
    <3> HIDE DEF m, n
    <3>4. m <= 1 /\ 1 <= m /\ n >= Len(t) /\ n <= Len(t) /\ m \in Nat /\ n \in Nat
      BY <2>1, <3>1, <3>2, <3>3
    <3> QED BY <2>1, <3>4
  <2>3. Strip(t, Drop) = SubSeq(t, m, n)
    BY <2>1 DEF Strip
  <2>4. SubSeq(t, 1, Len(t)) = t
    OBVIOUS
  <2> QED BY <2>2, <2>3, <2>4
<1> QED BY <1>1, <1>2

\* The parts of the first n characters of t: no blank begins a part or ends
\* one that is complete, and the last part ends as those characters do.
Shaped(ls, t, n) ==
    /\ \A i \in 1 .. Len(ls) : ls[i] # <<>> => ls[i][1] \notin Blanks
    /\ \A i \in 1 .. Len(ls) - 1 : ls[i] # <<>> => ls[i][Len(ls[i])] \notin Blanks
    /\ ls[Len(ls)] = <<>> => n = 0 \/ t[n] = LF
    /\ ls[Len(ls)] # <<>> => n > 0 /\ ls[Len(ls)][Len(ls[Len(ls)])] = t[n]

(***************************************************************************)
(* Splitting a text of trimmed lines leaves no part to trim.               *)
(***************************************************************************)
LEMMA PartsShaped ==
    ASSUME NEW t \in Trimmed
    PROVE  Shaped(Parts(t, {LF}), t, Len(t))
<1> DEFINE C == Characters \ {LF}
           N == Len(t)
           p == PartsUpTo(t, {LF})
           P == {n \in 0 .. N : Shaped(p[n], t, n)}
<1>1. t \in Seq(Characters) /\ N \in Nat
  BY DEF Trimmed
<1>2. /\ \A k \in 1 .. N : t[k] \in Characters
      /\ \A k \in 1 .. N : t[k] \in Blanks => k > 1 /\ t[k - 1] # LF /\ k < N /\ t[k + 1] # LF
  BY <1>1 DEF Trimmed
<1>3. p \in [0 .. N -> Seq(Seq(C)) \ {<<>>}] /\ SplitsUp(p, t, {LF})
  BY <1>1, PartsRecursion
<1> HIDE DEF p, N
<1>4. 0 \in P
  <2>1. p[0] = << <<>> >>
    BY <1>3 DEF SplitsUp
  <2> QED BY <1>1, <2>1 DEF Shaped
<1>5. ASSUME NEW n \in 0 .. N - 1, n \in P PROVE n + 1 \in P
  <2> DEFINE ls == p[n]
             c == t[n + 1]
             last == ls[Len(ls)]
  <2>1. n + 1 \in 1 .. N /\ n + 1 \in 0 .. N /\ n \in 0 .. N /\ (n + 1) - 1 = n /\ n + 1 > 0
    BY <1>1
  <2>2. ls \in Seq(Seq(C)) /\ ls # <<>> /\ Shaped(ls, t, n) /\ c \in Characters
    BY <1>2, <1>3, <1>5, <2>1
  <2>3. p[n + 1] = IF c \in {LF} THEN Append(ls, <<>>) ELSE Longer(ls, c)
    BY <1>3, <2>1 DEF SplitsUp, N
  <2>4. last \in Seq(C) /\ Len(ls) \in Nat \ {0}
    BY <2>2
  <2> HIDE DEF ls, c, last
  <2>5. CASE c = LF
    <3>1. p[n + 1] = Append(ls, <<>>)
      BY <2>3, <2>5
    <3>2. /\ Len(Append(ls, <<>>)) = Len(ls) + 1
          /\ Append(ls, <<>>)[Len(ls) + 1] = <<>>
          /\ \A i \in 1 .. Len(ls) : Append(ls, <<>>)[i] = ls[i]
      BY <2>2
    <3>3. last # <<>> => last[Len(last)] \notin Blanks
      <4>1. ASSUME last # <<>>, last[Len(last)] \in Blanks PROVE FALSE
        <5>1. n > 0 /\ t[n] \in Blanks
          BY <2>2, <4>1 DEF Shaped, last
        <5>2. n \in 1 .. N
          BY <2>1, <5>1
        <5> QED BY <1>2, <2>5, <5>1, <5>2 DEF c
      <4> QED BY <4>1
    <3>4. ASSUME NEW i \in 1 .. Len(ls), ls[i] # <<>>
          PROVE  ls[i][Len(ls[i])] \notin Blanks
      <4>1. CASE i = Len(ls)
        BY <3>3, <3>4, <4>1 DEF last
      <4>2. CASE i # Len(ls)
        <5>1. i \in 1 .. Len(ls) - 1
          BY <2>4, <4>2
        <5> QED BY <2>2, <3>4, <5>1 DEF Shaped
      <4> QED BY <4>1, <4>2
    <3>5. ASSUME NEW i \in 1 .. Len(ls) + 1
          PROVE  i \in 1 .. Len(ls) \/ i = Len(ls) + 1
      BY <2>4
    <3>6. Len(ls) + 1 - 1 = Len(ls)
      BY <2>4
    <3>7. \A i \in 1 .. Len(ls) : ls[i] # <<>> => ls[i][1] \notin Blanks
      BY <2>2 DEF Shaped
    <3> DEFINE ms == Append(ls, <<>>)
    <3>8. Shaped(ms, t, n + 1)
      <4>1. Len(ms) = Len(ls) + 1 /\ ms[Len(ls) + 1] = <<>> /\ \A i \in 1 .. Len(ls) : ms[i] = ls[i]
        BY <3>2
      <4>2. t[n + 1] = LF
        BY <2>5 DEF c
      <4> HIDE DEF ms
      <4>3. \A i \in 1 .. Len(ms) : ms[i] # <<>> => ms[i][1] \notin Blanks
        BY <3>5, <3>7, <4>1
      <4>4. \A i \in 1 .. Len(ms) - 1 : ms[i] # <<>> => ms[i][Len(ms[i])] \notin Blanks
        BY <3>4, <3>6, <4>1
      <4> QED BY <4>1, <4>2, <4>3, <4>4 DEF Shaped
    <3> QED BY <2>1, <3>1, <3>8
  <2>6. CASE c # LF
    <3> DEFINE ms == Longer(ls, c)
               end == Append(last, c)
    <3>1. p[n + 1] = ms
      BY <2>3, <2>6
    <3>2. c \in C
      BY <2>2, <2>6
    <3>3. /\ end \in Seq(C) /\ end # <<>> /\ Len(end) = Len(last) + 1
          /\ end[Len(last) + 1] = c
          /\ last # <<>> => end[1] = last[1]
          /\ last = <<>> => end[1] = c
      BY <2>4, <3>2
    <3>4. /\ Len(ms) = Len(ls)
          /\ ms[Len(ls)] = end
          /\ \A i \in 1 .. Len(ls) : i # Len(ls) => ms[i] = ls[i]
      BY <2>2, <2>4, <3>3 DEF Longer, last
    <3>5. end[1] \notin Blanks
      <4>1. CASE last # <<>>
        BY <2>2, <2>4, <3>3, <4>1 DEF Shaped, last
      <4>2. CASE last = <<>>
        <5>1. n = 0 \/ t[n] = LF
          BY <2>2, <4>2 DEF Shaped, last
        <5>2. c \notin Blanks
          BY <1>2, <2>1, <5>1 DEF c
        <5> QED BY <3>3, <4>2, <5>2
      <4> QED BY <4>1, <4>2
    <3> HIDE DEF ms, end
    <3>6. ASSUME NEW i \in 1 .. Len(ls), ms[i] # <<>> PROVE ms[i][1] \notin Blanks
      <4>1. CASE i = Len(ls)
        BY <3>4, <3>5, <4>1
      <4>2. CASE i # Len(ls)
        BY <2>2, <3>4, <3>6, <4>2 DEF Shaped
      <4> QED BY <4>1, <4>2
    <3>7. ASSUME NEW i \in 1 .. Len(ls) - 1, ms[i] # <<>>
          PROVE  ms[i][Len(ms[i])] \notin Blanks
      <4>1. i \in 1 .. Len(ls) /\ i # Len(ls)
        BY <2>4
      <4>2. ms[i] = ls[i]
        BY <3>4, <4>1
      <4> QED BY <2>2, <3>7, <4>2 DEF Shaped
    <3>8. Shaped(ms, t, n + 1)
      BY <2>1, <3>3, <3>4, <3>6, <3>7 DEF Shaped, c
    <3> QED BY <2>1, <3>1, <3>8
  <2> QED BY <2>5, <2>6
<1>6. 0 .. N \subseteq P
  <2> HIDE DEF P
  <2> QED BY <1>1, <1>4, <1>5, InductionUpTo
<1>7. Shaped(p[N], t, N)
  BY <1>1, <1>6
<1> QED BY <1>7 DEF Parts, p, N

(***************************************************************************)
(* Trimming the lines of a text of trimmed lines changes nothing.          *)
(***************************************************************************)
LEMMA TrimmedStays ==
    ASSUME NEW t \in Trimmed
    PROVE  TrimmedLines(t) = Parts(t, {LF})
<1> DEFINE ls == Parts(t, {LF})
           N == Len(t)
<1>1. t \in Seq(Characters \ {CR}) /\ t \in Seq(Characters) /\ N \in Nat
  BY DEF Trimmed
<1>2. Endings(t) = t
  BY <1>1, EndingsFixed
<1>3. ls \in Seq(Seq(Characters \ {LF})) /\ ls # <<>> /\ Shaped(ls, t, N)
  BY <1>1, PartsShaped, PartsType
<1> HIDE DEF ls
<1>4. ASSUME NEW i \in DOMAIN ls PROVE Strip(ls[i], Blanks) = ls[i]
  <2>1. i \in 1 .. Len(ls) /\ Len(ls) \in Nat /\ ls[i] \in Seq(Characters \ {LF})
    BY <1>3
  <2>2. ls[i] # <<>> => ls[i][1] \notin Blanks
    BY <1>3, <2>1 DEF Shaped
  <2>3. ASSUME ls[i] # <<>> PROVE ls[i][Len(ls[i])] \notin Blanks
    <3>1. CASE i = Len(ls)
      <4>1. N > 0 /\ ls[i][Len(ls[i])] = t[N]
        BY <1>3, <2>3, <3>1 DEF Shaped
      <4>2. N \in 1 .. N /\ ~ (N < N)
        BY <1>1, <4>1
      <4>3. t[N] \notin Blanks
        BY <4>2 DEF Trimmed
      <4> QED BY <4>1, <4>3
    <3>2. CASE i # Len(ls)
      <4>1. i \in 1 .. Len(ls) - 1
        BY <2>1, <3>2
      <4> QED BY <1>3, <2>3, <4>1 DEF Shaped
    <3> QED BY <3>1, <3>2
  <2> QED BY <2>1, <2>2, <2>3, StripFixed
<1>5. [i \in DOMAIN ls |-> Strip(ls[i], Blanks)] = [i \in DOMAIN ls |-> ls[i]]
  BY <1>4
<1>6. [i \in DOMAIN ls |-> ls[i]] = ls
  BY <1>3
<1> QED BY <1>2, <1>5, <1>6 DEF TrimmedLines, ls

(***************************************************************************)
(* normalize leaves a text alone that has no CR, no blank at an end of a   *)
(* line and no line end at its own ends.                                   *)
(***************************************************************************)
THEOREM NormalTextsStay ==
    ASSUME NEW t \in Trimmed, t # <<>> => t[1] # LF /\ t[Len(t)] # LF
    PROVE  normalize(t) = t
<1>1. t \in Seq(Characters) /\ t \in Texts
  BY DEF Trimmed, Texts
<1>2. Joined(TrimmedLines(t)) = t
  BY <1>1, TrimmedStays, PartsJoined
<1>3. Strip(t, {LF}) = t
  BY <1>1, StripFixed
<1> QED BY <1>2, <1>3 DEF normalize

(***************************************************************************)
(* Normalizing a second time changes nothing.                              *)
(***************************************************************************)
THEOREM NormalizeIsIdempotent ==
    ASSUME NEW t \in Texts
    PROVE  normalize(normalize(t)) = normalize(t)
BY NormalForm, NormalTextsStay

(***************************************************************************)
(* A program that prints the normal form of the expected output of a       *)
(* line_trim case, within the limit, passes it: no blank at the end of a   *)
(* line and no empty line around the output is needed to pass.             *)
(***************************************************************************)
THEOREM NormalFormPasses ==
    ASSUME NEW case, case.mode = "line_trim", case.expected \in Texts,
           Len(normalize(case.expected)) <= StdoutLimit
    PROVE  Passes(case, normalize(case.expected))
<1> DEFINE out == normalize(case.expected)
<1>1. out \in Seq(Characters \ {CR}) /\ out \in Texts
  BY NormalForm DEF Trimmed, Texts
<1>2. normalize(out) = out
  BY NormalizeIsIdempotent
<1> HIDE DEF out
<1>3. Captured(out) = out
  BY <1>1, EndingsFixed, CapturedType DEF out
<1>4. normalize(Captured(out)) = normalize(case.expected)
  BY <1>2, <1>3 DEF out
<1> QED BY <1>4 DEF Passes, compare_output, out

(***************************************************************************)
(* Some program passes an exact test case if and only if the case expects  *)
(* a text without CR that fits the captured output: run_code reads a       *)
(* program's output as text, so a case with CR LF line ends, as a form     *)
(* posts them, or with a longer output refuses every program.              *)
(***************************************************************************)
THEOREM ExactIsPassable ==
    ASSUME NEW case, case.mode = "exact", case.expected \in Texts
    PROVE  (\E printed \in Texts : Passes(case, printed))
             <=> /\ case.expected \in Seq(Characters \ {CR})
                 /\ Len(case.expected) <= StdoutLimit
<1>1. ASSUME NEW printed \in Texts
      PROVE  Passes(case, printed) <=> case.expected = Captured(printed)
  BY DEF Passes, compare_output
<1>2. ASSUME NEW printed \in Texts, Passes(case, printed)
      PROVE  /\ case.expected \in Seq(Characters \ {CR})
             /\ Len(case.expected) <= StdoutLimit
  BY <1>1, <1>2, CapturedType
<1>3. ASSUME case.expected \in Seq(Characters \ {CR}),
             Len(case.expected) <= StdoutLimit
      PROVE  Passes(case, case.expected)
  <2>1. Endings(case.expected) = case.expected
    BY <1>3, EndingsFixed
  <2> QED BY <1>1, <1>3, <2>1, CapturedType
<1> QED BY <1>2, <1>3

(***************************************************************************)
(* A program that prints the expected output of a line_trim case, within   *)
(* the limit and with any of the three line ends, passes it.               *)
(***************************************************************************)
THEOREM ExpectedOutputPasses ==
    ASSUME NEW case, case.mode = "line_trim", case.expected \in Texts,
           NEW printed \in Texts, Endings(printed) = Endings(case.expected),
           Len(Endings(printed)) <= StdoutLimit
    PROVE  Passes(case, printed)
<1>1. Captured(printed) = Endings(case.expected)
  BY CapturedType
<1>2. normalize(Captured(printed)) = normalize(case.expected)
  BY <1>1, EndingsTwice DEF normalize, TrimmedLines
<1> QED BY <1>2 DEF Passes, compare_output

(***************************************************************************)
(* In the float mode the expected output itself passes if and only if all  *)
(* of its words are finite numbers: a case with one word of another kind   *)
(* refuses every program, the reference solution included.                 *)
(***************************************************************************)
THEOREM FloatIsPassable ==
    ASSUME NEW case, case.mode = "float", case.expected \in Texts,
           case.tolerance \in Nat, Len(Endings(case.expected)) <= StdoutLimit
    PROVE  /\ Passes(case, case.expected) <=> Numeric(case.expected)
           /\ \A printed \in Texts :
                 Passes(case, printed) => Numeric(case.expected)
<1> DEFINE words == Words(normalize(case.expected))
           numeric == \A i \in DOMAIN words : words[i] \in Finite
           got(printed) == Words(normalize(Captured(printed)))
<1>1. ASSUME NEW printed \in Texts
      PROVE  Passes(case, printed) <=>
               /\ Len(words) = Len(got(printed))
               /\ \A i \in DOMAIN words :
                     Close(words[i], got(printed)[i], case.tolerance)
  BY DEF Passes, compare_output
<1>2. ASSUME NEW printed \in Texts, Passes(case, printed) PROVE numeric
  <2> HIDE DEF words, got
  <2> QED BY <1>1, <1>2 DEF Close
<1>3. got(case.expected) = words
  BY CapturedType, EndingsTwice DEF normalize, TrimmedLines
<1>4. ASSUME numeric PROVE Passes(case, case.expected)
  <2> HIDE DEF words, got
  <2>1. ASSUME NEW i \in DOMAIN words
        PROVE  Close(words[i], words[i], case.tolerance)
    BY <1>4, WordsAreNumbers DEF Close
  <2> QED BY <1>1, <1>3, <2>1
<1>5. Numeric(case.expected) <=> numeric
  BY DEF Numeric
<1> HIDE DEF words
<1> QED BY <1>2, <1>4, <1>5

(***************************************************************************)
(* The float mode does not care which of two texts is the expected one.    *)
(***************************************************************************)
THEOREM FloatIsSymmetric ==
    ASSUME NEW e \in Texts, NEW a \in Texts, NEW tolerance \in Nat,
           compare_output(e, a, "float", tolerance)
    PROVE  compare_output(a, e, "float", tolerance)
<1> DEFINE p == Words(normalize(e))
           q == Words(normalize(a))
<1>0. p \in Seq(Texts) /\ q \in Seq(Texts)
  BY NormalForm, WordsType DEF Trimmed, Texts
<1> HIDE DEF p, q
<1>1. Len(p) = Len(q) /\ \A i \in DOMAIN p : Close(p[i], q[i], tolerance)
  BY DEF compare_output, p, q
<1>2. DOMAIN p = DOMAIN q
  BY <1>0, <1>1
<1>3. ASSUME NEW i \in DOMAIN q PROVE Close(q[i], p[i], tolerance)
  BY <1>1, <1>2, WordsAreNumbers DEF Close
<1>4. Len(q) = Len(p) /\ \A i \in DOMAIN q : Close(q[i], p[i], tolerance)
  BY <1>1, <1>3
<1> QED BY <1>4 DEF compare_output, p, q

-----------------------------------------------------------------------------
(* Chunks.                                                                 *)

\* Texts of C that fit a chunk, and hold something.
Fitting(C) == {c \in Seq(C) : Len(c) \in 1 .. ChunkMax}

(***************************************************************************)
(* A sentence is cut into pieces that fit.                                 *)
(***************************************************************************)
LEMMA PiecesFit ==
    ASSUME NEW C, NEW s \in Seq(C)
    PROVE  Pieces(s) \in Seq(Fitting(C))
<1> DEFINE L == Len(s)
           M == ChunkMax
           q == (L + M - 1) \div M
<1>1. L \in Nat /\ M \in Nat \ {0}
  BY SearchIsConfigured
<1>2. q \in Nat /\ q * M <= L + M - 1
  BY <1>1
<1>3. ASSUME NEW i \in 1 .. q
      PROVE  SubSeq(s, (i - 1) * M + 1, Smaller(i * M, L)) \in Fitting(C)
  <2> DEFINE a == (i - 1) * M
             b == Smaller(i * M, L)
  <2>1. a \in Nat /\ i * M = a + M
    BY <1>1, <1>2
  <2>2. i * M <= q * M
    BY <1>1, <1>2
  <2>3. a + 1 <= L
    BY <1>1, <1>2, <2>1, <2>2
  <2> HIDE DEF a
  <2>4. b \in 1 .. L /\ a + 1 <= b /\ b <= a + M
    BY <1>1, <2>1, <2>3 DEF Smaller
  <2> HIDE DEF b
  <2>5. SubSeq(s, a + 1, b) \in Seq(C) /\ Len(SubSeq(s, a + 1, b)) = b - a
    BY <1>1, <2>1, <2>4
  <2> QED BY <1>1, <2>1, <2>4, <2>5 DEF Fitting, a, b
<1> DEFINE piece(i) == SubSeq(s, (i - 1) * M + 1, Smaller(i * M, L))
<1>4. Pieces(s) = [i \in 1 .. q |-> piece(i)]
  BY DEF Pieces
<1>5. \A i \in 1 .. q : piece(i) \in Fitting(C)
  BY <1>3
<1> HIDE DEF piece, q
<1>6. [i \in 1 .. q |-> piece(i)] \in Seq(Fitting(C))
  BY <1>2, <1>5
<1> QED BY <1>4, <1>6

\* What chunk_text holds while it packs texts of C.
Packing(C) == [chunks : Seq(Fitting(C)), current : Fitting(C) \cup {<<>>}]

LEMMA FlushedFit ==
    ASSUME NEW C, NEW p \in Packing(C)
    PROVE  Flushed(p) \in Seq(Fitting(C))
BY DEF Flushed, Packing

LEMMA PackedFit ==
    ASSUME NEW C, Blank \in C, NEW p \in Packing(C), NEW s \in Seq(C), s # <<>>
    PROVE  Packed(p, s) \in Packing(C)
<1>1. Flushed(p) \in Seq(Fitting(C)) /\ Pieces(s) \in Seq(Fitting(C))
  BY FlushedFit, PiecesFit
<1>2. CASE Len(s) > ChunkMax
  BY <1>1, <1>2 DEF Packed, Packing
<1>3. CASE Len(s) <= ChunkMax /\ Len(p.current) + Len(s) + 1 <= ChunkMax
  <2>1. p.current \in Seq(C)
    <3>1. p.current \in Fitting(C) \cup {<<>>}
      BY DEF Packing
    <3>2. <<>> \in Seq(C)
      OBVIOUS
    <3> QED BY <3>1, <3>2 DEF Fitting
  <2>2. s \in Fitting(C)
    BY <1>3, SearchIsConfigured DEF Fitting
  <2>3. p.current \o <<Blank>> \o s \in Fitting(C)
    BY <1>3, <2>1, SearchIsConfigured DEF Fitting
  <2> DEFINE c == IF p.current = <<>> THEN s ELSE p.current \o <<Blank>> \o s
  <2>4. c \in Fitting(C)
    BY <2>2, <2>3
  <2>5. Packed(p, s) = [p EXCEPT !.current = c]
    BY <1>3, SearchIsConfigured DEF Packed
  <2> HIDE DEF c
  <2> QED BY <2>4, <2>5 DEF Packing
<1>4. CASE Len(s) <= ChunkMax /\ ~ (Len(p.current) + Len(s) + 1 <= ChunkMax)
  <2>1. s \in Fitting(C)
    BY <1>4, SearchIsConfigured DEF Fitting
  <2> QED BY <1>1, <1>4, <2>1, SearchIsConfigured DEF Packed, Packing
<1>5. Len(s) \in Nat /\ ChunkMax \in Nat
  BY SearchIsConfigured
<1> QED BY <1>2, <1>3, <1>4, <1>5

(***************************************************************************)
(* PackedUpTo is the recursion it states.                                  *)
(***************************************************************************)
LEMMA PackingRecursion ==
    ASSUME NEW C, Blank \in C, NEW text \in Seq(Seq(C) \ {<<>>})
    PROVE  LET p == PackedUpTo(text)
           IN  /\ p \in [0 .. Len(text) -> Packing(C)]
               /\ p[0] = [chunks |-> <<>>, current |-> <<>>]
               /\ \A i \in 1 .. Len(text) : p[i] = Packed(p[i - 1], text[i])
<1> DEFINE N == Len(text)
           S == Packing(C)
           first == [chunks |-> <<>>, current |-> <<>>]
           Step(i, p) == Packed(p, text[i])
           G == [x \in (1 .. N) \X S |-> Step(x[1], x[2])]
<1>1. N \in Nat /\ text \in [1 .. N -> Seq(C) \ {<<>>}]
  OBVIOUS
<1>2. ASSUME NEW i \in 1 .. N, NEW p \in S PROVE Step(i, p) \in S
  BY <1>1, PackedFit
<1>3. G \in [(1 .. N) \X S -> S]
  <2> HIDE DEF Step, S
  <2> QED BY <1>2
<1>4. first \in S
  BY DEF Packing
<1>5. PICK f \in [0 .. N -> S] :
          f[0] = first /\ \A n \in 1 .. N : f[n] = G[<<n, f[n - 1]>>]
  <2>1. \E f \in [0 .. N -> S] :
          f[0] = first /\ \A n \in 1 .. N : f[n] = G[<<n, f[n - 1]>>]
    <3> HIDE DEF S, G, N, first
    <3>1. Iterates(N, S, first, G) # {}
      BY <1>1, <1>3, <1>4, Iteration
    <3> QED BY <3>1 DEF Iterates
  <2> HIDE DEF S, G, first
  <2> QED BY <2>1
<1>6. ASSUME NEW n \in 1 .. N PROVE G[<<n, f[n - 1]>>] = Step(n, f[n - 1])
  <2>1. f[n - 1] \in S
    <3>1. n - 1 \in 0 .. N
      BY <1>1
    <3> HIDE DEF S, G, N, first
    <3> QED BY <1>5, <3>1
  <2> HIDE DEF Step, S
  <2> QED BY <2>1
<1>7. f = [n \in 0 .. N |-> IF n = 0 THEN first ELSE Step(n, f[n - 1])]
  <2> HIDE DEF Step, G, S, first
  <2>1. \A n \in 0 .. N : (n # 0) => n \in 1 .. N
    BY <1>1
  <2> QED BY <1>5, <1>6, <2>1
<1> DEFINE p == PackedUpTo(text)
<1>8. p = [n \in 0 .. N |-> IF n = 0 THEN first ELSE Step(n, p[n - 1])]
  BY <1>7 DEF PackedUpTo
<1>9. p[0] = first /\ \A n \in 1 .. N : p[n] = Step(n, p[n - 1])
  <2> HIDE DEF Step, p, first
  <2> QED BY <1>1, <1>8
<1>10. \A n \in 0 .. N : p[n] \in S
  <2> DEFINE P == {n \in 0 .. N : p[n] \in S}
  <2>1. 0 \in P
    <3> HIDE DEF Step, S, p, first
    <3> QED BY <1>1, <1>4, <1>9
  <2>2. ASSUME NEW n \in 0 .. N - 1, n \in P PROVE n + 1 \in P
    <3>1. n + 1 \in 1 .. N /\ (n + 1) - 1 = n
      BY <1>1
    <3> HIDE DEF Step, S, p, first
    <3> QED BY <1>2, <1>9, <2>2, <3>1
  <2>3. 0 .. N \subseteq P
    <3> HIDE DEF P
    <3> QED BY <1>1, <2>1, <2>2, InductionUpTo
  <2> QED BY <2>3
<1>11. p \in [0 .. N -> S]
  <2> HIDE DEF Step, S, first
  <2> QED BY <1>8, <1>10
<1> QED BY <1>9, <1>11

(***************************************************************************)
(* Every chunk of a text holds something and no more than the limit,       *)
(* whatever the lengths of its sentences (test_chunk_text_respects_max_    *)
(* chars tries one text).                                                  *)
(***************************************************************************)
THEOREM ChunksFit ==
    ASSUME NEW C, Blank \in C, NEW text \in Seq(Seq(C) \ {<<>>})
    PROVE  chunk_text(text) \in Seq(Fitting(C))
<1>1. Len(text) \in 0 .. Len(text)
  OBVIOUS
<1>2. PackedUpTo(text)[Len(text)] \in Packing(C)
  BY <1>1, PackingRecursion
<1> QED BY <1>2, FlushedFit DEF chunk_text

\* Neighbouring chunks that one chunk could not hold.
Apart(a, b) == Len(a) + Len(b) + 1 > ChunkMax

TightPacking(C) ==
    {p \in Packing(C) :
        /\ \A i \in 1 .. Len(p.chunks) - 1 : Apart(p.chunks[i], p.chunks[i + 1])
        /\ p.chunks # <<>> =>
             p.current # <<>> /\ Apart(p.chunks[Len(p.chunks)], p.current)}

LEMMA FlushedTight ==
    ASSUME NEW C, NEW p \in TightPacking(C)
    PROVE  LET c == Flushed(p)
           IN  \A i \in 1 .. Len(c) - 1 : Apart(c[i], c[i + 1])
<1>1. p.chunks \in Seq(Fitting(C))
  BY DEF TightPacking, Packing
<1>2. /\ \A i \in 1 .. Len(p.chunks) - 1 : Apart(p.chunks[i], p.chunks[i + 1])
      /\ p.chunks # <<>> => Apart(p.chunks[Len(p.chunks)], p.current)
  BY DEF TightPacking
<1>3. CASE p.current = <<>>
  BY <1>2, <1>3 DEF Flushed
<1>4. CASE p.current # <<>>
  <2> DEFINE n == Len(p.chunks)
             c == Append(p.chunks, p.current)
  <2>1. /\ n \in Nat /\ Len(c) = n + 1 /\ c[n + 1] = p.current
        /\ \A i \in 1 .. n : c[i] = p.chunks[i]
        /\ n # 0 => p.chunks # <<>>
    <3>1. p.current \in Fitting(C) \cup {<<>>}
      BY DEF TightPacking, Packing
    <3> QED BY <1>1, <3>1
  <2>2. ASSUME NEW i \in 1 .. n PROVE Apart(c[i], c[i + 1])
    <3> HIDE DEF c
    <3>1. CASE i = n
      BY <1>2, <2>1, <3>1
    <3>2. CASE i # n
      <4>1. i \in 1 .. n - 1 /\ i + 1 \in 1 .. n
        BY <2>1, <3>2
      <4> QED BY <1>2, <2>1, <4>1
    <3> QED BY <3>1, <3>2
  <2>3. Flushed(p) = c
    BY <1>4 DEF Flushed
  <2> HIDE DEF c, n
  <2> QED BY <2>1, <2>2, <2>3
<1> QED BY <1>3, <1>4

LEMMA PackedTight ==
    ASSUME NEW C, Blank \in C, NEW p \in TightPacking(C), NEW s \in Fitting(C)
    PROVE  Packed(p, s) \in TightPacking(C)
<1>1. /\ p \in Packing(C) /\ p.chunks \in Seq(Fitting(C))
      /\ p.current \in Fitting(C) \cup {<<>>}
  BY DEF TightPacking, Packing
<1>2. s \in Seq(C) /\ s # <<>> /\ Len(s) \in 1 .. ChunkMax
  BY DEF Fitting
<1>3. Packed(p, s) \in Packing(C)
  BY <1>1, <1>2, PackedFit
<1>4. /\ \A i \in 1 .. Len(p.chunks) - 1 : Apart(p.chunks[i], p.chunks[i + 1])
      /\ p.chunks # <<>> =>
           p.current # <<>> /\ Apart(p.chunks[Len(p.chunks)], p.current)
  BY DEF TightPacking
<1>5. p.current \in Seq(C) /\ Len(p.current) \in Nat /\ Len(s) \in Nat
      /\ ChunkMax \in Nat
  <2>1. p.current \in Seq(C)
    <3>1. <<>> \in Seq(C)
      OBVIOUS
    <3> QED BY <1>1, <3>1 DEF Fitting
  <2>2. ChunkMax \in Nat
    BY SearchIsConfigured
  <2> QED BY <1>2, <2>1, <2>2
<1>6. CASE Len(p.current) + Len(s) + 1 <= ChunkMax
  <2> DEFINE c == IF p.current = <<>> THEN s ELSE p.current \o <<Blank>> \o s
  <2>1. c # <<>> /\ Len(c) >= Len(p.current)
    BY <1>2, <1>5
  <2>2. Packed(p, s) = [p EXCEPT !.current = c]
    BY <1>2, <1>5, <1>6 DEF Packed
  <2>3. Packed(p, s).chunks = p.chunks /\ Packed(p, s).current = c
    <3> HIDE DEF c
    <3> QED BY <1>1, <2>2 DEF Packing
  <2>4. ASSUME p.chunks # <<>> PROVE Apart(p.chunks[Len(p.chunks)], c)
    <3>1. p.chunks[Len(p.chunks)] \in Seq(C)
      BY <1>1, <2>4 DEF Fitting
    <3>2. Len(p.chunks[Len(p.chunks)]) \in Nat /\ Len(c) \in Nat
      <4>1. c \in Seq(C)
        BY <1>2, <1>5
      <4> QED BY <3>1, <4>1
    <3>3. Apart(p.chunks[Len(p.chunks)], p.current)
      BY <1>4, <2>4
    <3> DEFINE x == Len(p.chunks[Len(p.chunks)])
               y == Len(p.current)
               z == Len(c)
    <3>4. x + y + 1 > ChunkMax /\ z >= y
      BY <2>1, <3>3 DEF Apart
    <3>5. {x, y, z, ChunkMax} \subseteq Nat
      BY <1>5, <3>2
    <3>6. x + z + 1 > ChunkMax
      <4> HIDE DEF x, y, z
      <4> QED BY <3>4, <3>5
    <3> QED BY <3>6 DEF Apart
  <2> HIDE DEF c
  <2> QED BY <1>3, <1>4, <2>1, <2>3, <2>4 DEF TightPacking
<1>7. CASE ~ (Len(p.current) + Len(s) + 1 <= ChunkMax)
  <2>1. Packed(p, s) = [chunks |-> Flushed(p), current |-> s]
    BY <1>2, <1>5, <1>7 DEF Packed
  <2>2. \A i \in 1 .. Len(Flushed(p)) - 1 : Apart(Flushed(p)[i], Flushed(p)[i + 1])
    BY FlushedTight
  <2>3. ASSUME Flushed(p) # <<>> PROVE Apart(Flushed(p)[Len(Flushed(p))], s)
    <3>1. p.current # <<>>
      BY <1>4, <2>3 DEF Flushed
    <3>2. Flushed(p) = Append(p.chunks, p.current)
      BY <3>1 DEF Flushed
    <3>3. Flushed(p)[Len(Flushed(p))] = p.current
      BY <1>1, <3>2
    <3> QED BY <1>5, <1>7, <3>3 DEF Apart
  <2> QED BY <1>2, <1>3, <2>1, <2>2, <2>3 DEF TightPacking
<1> QED BY <1>6, <1>7

(***************************************************************************)
(* When no sentence has to be cut, no two neighbouring chunks would fit    *)
(* one chunk: the loop packs as many sentences as the limit allows, and    *)
(* does not begin a chunk too early.                                       *)
(***************************************************************************)
THEOREM ChunksAreTight ==
    ASSUME NEW C, Blank \in C, NEW text \in Seq(Fitting(C))
    PROVE  LET c == chunk_text(text)
           IN  \A i \in 1 .. Len(c) - 1 : Len(c[i]) + Len(c[i + 1]) + 1 > ChunkMax
<1> DEFINE N == Len(text)
           p == PackedUpTo(text)
           P == {n \in 0 .. N : p[n] \in TightPacking(C)}
<1>1. N \in Nat /\ \A i \in 1 .. N : text[i] \in Fitting(C)
  OBVIOUS
<1>2. text \in Seq(Seq(C) \ {<<>>})
  <2>1. Fitting(C) \subseteq Seq(C) \ {<<>>}
    BY DEF Fitting
  <2> QED BY <2>1, SeqMonotonic
<1>3. /\ p \in [0 .. N -> Packing(C)]
      /\ p[0] = [chunks |-> <<>>, current |-> <<>>]
      /\ \A i \in 1 .. N : p[i] = Packed(p[i - 1], text[i])
  BY <1>2, PackingRecursion
<1> HIDE DEF p
<1>4. 0 \in P
  <2>1. p[0] \in Packing(C)
    BY <1>1, <1>3
  <2>2. p[0] \in TightPacking(C)
    BY <1>3, <2>1 DEF TightPacking
  <2> QED BY <1>1, <2>2
<1>5. ASSUME NEW n \in 0 .. N - 1, n \in P PROVE n + 1 \in P
  <2>1. n + 1 \in 1 .. N /\ (n + 1) - 1 = n /\ p[n] \in TightPacking(C)
    BY <1>1, <1>5
  <2>2. p[n + 1] = Packed(p[n], text[n + 1])
    BY <1>3, <2>1
  <2>3. p[n + 1] \in TightPacking(C)
    BY <1>1, <2>1, <2>2, PackedTight
  <2> QED BY <2>1, <2>3
<1>6. 0 .. N \subseteq P
  <2> HIDE DEF P
  <2> QED BY <1>1, <1>4, <1>5, InductionUpTo
<1>7. p[N] \in TightPacking(C)
  BY <1>1, <1>6
<1> QED BY <1>7, FlushedTight DEF chunk_text, Apart, p

(***************************************************************************)
(* FlattenSeq, unfolded: the flattened beginnings of a sequence.           *)
(***************************************************************************)
FlatUpTo(ss) ==
    CHOOSE f : f = [i \in 1 .. Len(ss) |->
                      IF i = 1 THEN ss[i] ELSE f[i - 1] \o ss[i]]

LEMMA FlatRecursion ==
    ASSUME NEW D, NEW ss \in Seq(Seq(D))
    PROVE  LET f == FlatUpTo(ss)
           IN  /\ \A i \in 1 .. Len(ss) : f[i] \in Seq(D)
               /\ Len(ss) > 0 => f[1] = ss[1]
               /\ \A i \in 2 .. Len(ss) : f[i] = f[i - 1] \o ss[i]
               /\ FlattenSeq(ss) = IF Len(ss) = 0 THEN <<>> ELSE f[Len(ss)]
<1> DEFINE N == Len(ss)
           S == Seq(D)
           G == [x \in (1 .. N) \X S |-> x[2] \o ss[x[1]]]
<1>1. N \in Nat /\ ss \in [1 .. N -> S]
  OBVIOUS
<1>2. G \in [(1 .. N) \X S -> S]
  BY <1>1
<1>3. <<>> \in S
  OBVIOUS
<1>4. PICK g \in [0 .. N -> S] :
          g[0] = <<>> /\ \A n \in 1 .. N : g[n] = G[<<n, g[n - 1]>>]
  <2>1. \E g \in [0 .. N -> S] :
          g[0] = <<>> /\ \A n \in 1 .. N : g[n] = G[<<n, g[n - 1]>>]
    <3> HIDE DEF S, G, N
    <3>1. Iterates(N, S, <<>>, G) # {}
      BY <1>1, <1>2, <1>3, Iteration
    <3> QED BY <3>1 DEF Iterates
  <2> HIDE DEF S, G
  <2> QED BY <2>1
<1>5. ASSUME NEW n \in 1 .. N PROVE g[n] \in S /\ g[n - 1] \in S /\ g[n] = g[n - 1] \o ss[n]
  <2>1. n \in 0 .. N /\ n - 1 \in 0 .. N
    BY <1>1
  <2>2. g[n] \in S /\ g[n - 1] \in S /\ g[n] = G[<<n, g[n - 1]>>]
    <3> HIDE DEF S, G, N
    <3> QED BY <1>4, <2>1
  <2>3. G[<<n, g[n - 1]>>] = g[n - 1] \o ss[n]
    <3> HIDE DEF S
    <3> QED BY <2>2
  <2> QED BY <2>2, <2>3
<1> DEFINE h == [n \in 1 .. N |-> g[n]]
<1>6. ASSUME NEW n \in 1 .. N
      PROVE  h[n] = IF n = 1 THEN ss[n] ELSE h[n - 1] \o ss[n]
  <2>1. CASE n = 1
    <3>1. h[1] = g[0] \o ss[1]
      <4>1. n - 1 = 0
        BY <2>1
      <4>2. g[n] = g[n - 1] \o ss[n]
        BY <1>5
      <4> QED BY <2>1, <4>1, <4>2
    <3>2. ss[1] \in Seq(D)
      BY <1>1, <2>1
    <3>3. <<>> \o ss[1] = ss[1]
      BY <3>2, ConcatEmptySeq
    <3>4. g[0] = <<>>
      BY <1>4
    <3> QED BY <2>1, <3>1, <3>3, <3>4
  <2>2. CASE n # 1
    <3>1. n - 1 \in 1 .. N
      BY <1>1, <2>2
    <3> QED BY <1>5, <2>2, <3>1
  <2> QED BY <2>1, <2>2
<1>7. h = [i \in 1 .. N |-> IF i = 1 THEN ss[i] ELSE h[i - 1] \o ss[i]]
  <2>1. \A i \in 1 .. N : h[i] = IF i = 1 THEN ss[i] ELSE h[i - 1] \o ss[i]
    BY <1>6
  <2>2. h = [i \in 1 .. N |-> h[i]]
    OBVIOUS
  <2> HIDE DEF h
  <2> QED BY <2>1, <2>2
<1> DEFINE f == FlatUpTo(ss)
<1>8. f = [i \in 1 .. N |-> IF i = 1 THEN ss[i] ELSE f[i - 1] \o ss[i]]
  <2> HIDE DEF h
  <2> QED BY <1>7 DEF FlatUpTo
<1>9. \A i \in 1 .. N : f[i] = IF i = 1 THEN ss[i] ELSE f[i - 1] \o ss[i]
  <2> HIDE DEF f, N
  <2> QED BY <1>8
<1>10. ASSUME N > 0 PROVE f[1] = ss[1]
  <2> HIDE DEF f
  <2> QED BY <1>1, <1>9, <1>10
<1>11. ASSUME NEW i \in 2 .. N PROVE f[i] = f[i - 1] \o ss[i]
  <2>1. i \in 1 .. N /\ i # 1
    BY <1>1
  <2> HIDE DEF f, N
  <2> QED BY <1>9, <2>1
<1>12. \A i \in 1 .. N : f[i] \in S
  <2> DEFINE P == {n \in 0 .. N : n = 0 \/ f[n] \in S}
  <2>1. 0 \in P
    BY <1>1
  <2>2. ASSUME NEW n \in 0 .. N - 1, n \in P PROVE n + 1 \in P
    <3>1. n + 1 \in 1 .. N /\ ss[n + 1] \in S
      BY <1>1
    <3>2. f[n + 1] \in S
      <4>1. CASE n = 0
        BY <1>10, <3>1, <4>1
      <4>2. CASE n # 0
        <5>1. n + 1 \in 2 .. N /\ (n + 1) - 1 = n /\ f[n] \in S
          BY <1>1, <2>2, <4>2
        <5> HIDE DEF f
        <5>2. f[n + 1] = f[n] \o ss[n + 1]
          BY <1>11, <5>1
        <5> QED BY <3>1, <5>1, <5>2
      <4> QED BY <4>1, <4>2
    <3> HIDE DEF f, S
    <3> QED BY <3>1, <3>2
  <2>3. 0 .. N \subseteq P
    <3> HIDE DEF P
    <3> QED BY <1>1, <2>1, <2>2, InductionUpTo
  <2>4. ASSUME NEW n \in 1 .. N PROVE f[n] \in S
    <3>1. n \in P /\ n # 0
      <4> HIDE DEF P
      <4> QED BY <1>1, <2>3
    <3> HIDE DEF f, S
    <3> QED BY <3>1
  <2> HIDE DEF f, S
  <2> QED BY <2>4
<1>13. FlattenSeq(ss) = IF N = 0 THEN <<>> ELSE f[N]
  <2>1. N = 0 => ss = <<>>
    BY <1>1
  <2> QED BY <2>1 DEF FlattenSeq, FlatUpTo
<1> HIDE DEF f
<1> QED BY <1>10, <1>11, <1>12, <1>13 DEF f

LEMMA FlattenType ==
    ASSUME NEW D, NEW ss \in Seq(Seq(D))
    PROVE  FlattenSeq(ss) \in Seq(D)
<1>1. Len(ss) \in Nat /\ <<>> \in Seq(D)
  OBVIOUS
<1>2. Len(ss) # 0 => Len(ss) \in 1 .. Len(ss)
  BY <1>1
<1> QED BY <1>1, <1>2, FlatRecursion

(***************************************************************************)
(* Sequences that begin alike are flattened alike so far.                  *)
(***************************************************************************)
LEMMA FlatAgree ==
    ASSUME NEW D, NEW a \in Seq(Seq(D)), NEW b \in Seq(Seq(D)), NEW m \in Nat,
           m <= Len(a), m <= Len(b), \A k \in 1 .. m : a[k] = b[k]
    PROVE  \A k \in 1 .. m : FlatUpTo(a)[k] = FlatUpTo(b)[k]
<1> DEFINE f == FlatUpTo(a)
           g == FlatUpTo(b)
           P == {n \in 0 .. m : n = 0 \/ f[n] = g[n]}
<1>1. Len(a) \in Nat /\ Len(b) \in Nat
  OBVIOUS
<1>2. /\ Len(a) > 0 => f[1] = a[1]
      /\ \A i \in 2 .. Len(a) : f[i] = f[i - 1] \o a[i]
      /\ Len(b) > 0 => g[1] = b[1]
      /\ \A i \in 2 .. Len(b) : g[i] = g[i - 1] \o b[i]
  BY FlatRecursion
<1> HIDE DEF f, g
<1>3. 0 \in P
  OBVIOUS
<1>4. ASSUME NEW n \in 0 .. m - 1, n \in P PROVE n + 1 \in P
  <2>1. n + 1 \in 1 .. m /\ a[n + 1] = b[n + 1]
    OBVIOUS
  <2>2. f[n + 1] = g[n + 1]
    <3>1. CASE n = 0
      BY <1>1, <1>2, <2>1, <3>1
    <3>2. CASE n # 0
      <4>1. n + 1 \in 2 .. Len(a) /\ n + 1 \in 2 .. Len(b) /\ (n + 1) - 1 = n
        BY <1>1, <3>2
      <4>2. f[n + 1] = f[n] \o a[n + 1] /\ g[n + 1] = g[n] \o b[n + 1]
        BY <1>2, <4>1
      <4>3. f[n] = g[n]
        BY <1>4, <3>2
      <4> QED BY <2>1, <4>2, <4>3
    <3> QED BY <3>1, <3>2
  <2> QED BY <2>1, <2>2
<1>5. 0 .. m \subseteq P
  <2> HIDE DEF P
  <2> QED BY <1>3, <1>4, InductionUpTo
<1> QED BY <1>5 DEF f, g

LEMMA FlattenAppend ==
    ASSUME NEW D, NEW ss \in Seq(Seq(D)), NEW x \in Seq(D)
    PROVE  FlattenSeq(Append(ss, x)) = FlattenSeq(ss) \o x
<1> DEFINE N == Len(ss)
           l == Append(ss, x)
<1>1. /\ N \in Nat /\ l \in Seq(Seq(D)) /\ Len(l) = N + 1
      /\ \A k \in 1 .. N : l[k] = ss[k]
      /\ l[N + 1] = x
  OBVIOUS
<1> HIDE DEF l
<1>2. /\ FlattenSeq(l) = FlatUpTo(l)[N + 1]
      /\ FlatUpTo(l)[1] = l[1]
      /\ \A i \in 2 .. N + 1 : FlatUpTo(l)[i] = FlatUpTo(l)[i - 1] \o l[i]
  <2>1. /\ Len(l) > 0 => FlatUpTo(l)[1] = l[1]
        /\ \A i \in 2 .. Len(l) : FlatUpTo(l)[i] = FlatUpTo(l)[i - 1] \o l[i]
        /\ FlattenSeq(l) = IF Len(l) = 0 THEN <<>> ELSE FlatUpTo(l)[Len(l)]
    BY <1>1, FlatRecursion
  <2>2. Len(l) = N + 1 /\ N + 1 > 0 /\ N + 1 # 0
    BY <1>1
  <2> QED BY <2>1, <2>2
<1>3. CASE N = 0
  <2>1. FlatUpTo(l)[1] = x
    BY <1>1, <1>2, <1>3
  <2>2. FlattenSeq(ss) = <<>>
    BY <1>3, FlatRecursion
  <2>3. <<>> \o x = x
    BY ConcatEmptySeq
  <2> QED BY <1>2, <1>3, <2>1, <2>2, <2>3 DEF l
<1>4. CASE N # 0
  <2>1. FlatUpTo(l)[N + 1] = FlatUpTo(l)[N] \o x
    <3>1. N + 1 \in 2 .. N + 1 /\ (N + 1) - 1 = N
      BY <1>1, <1>4
    <3> QED BY <1>1, <1>2, <3>1
  <2>2. FlatUpTo(l)[N] = FlatUpTo(ss)[N]
    <3>1. \A k \in 1 .. N : FlatUpTo(l)[k] = FlatUpTo(ss)[k]
      <4>1. N <= Len(l) /\ N <= Len(ss)
        BY <1>1
      <4> HIDE DEF N
      <4> QED BY <1>1, <4>1, FlatAgree
    <3> QED BY <1>1, <1>4, <3>1
  <2>3. FlattenSeq(ss) = FlatUpTo(ss)[N]
    BY <1>4, FlatRecursion
  <2> QED BY <1>2, <2>1, <2>2, <2>3 DEF l
<1> QED BY <1>3, <1>4

LEMMA FlattenEmpty == FlattenSeq(<<>>) = <<>>
BY DEF FlattenSeq

(***************************************************************************)
(* Appending after a concatenation is appending to its second part.        *)
(***************************************************************************)
LEMMA ConcatAppend ==
    ASSUME NEW S, NEW s \in Seq(S), NEW t \in Seq(S), NEW e \in S
    PROVE  s \o Append(t, e) = Append(s \o t, e) /\ s \o t \in Seq(S)
OBVIOUS

(***************************************************************************)
(* Flattening goes through concatenation.                                  *)
(***************************************************************************)
LEMMA FlattenConcat ==
    ASSUME NEW D, NEW a \in Seq(Seq(D)), NEW b \in Seq(Seq(D))
    PROVE  FlattenSeq(a \o b) = FlattenSeq(a) \o FlattenSeq(b)
<1> DEFINE N == Len(b)
           front(n) == SubSeq(b, 1, n)
           P == {n \in 0 .. N :
                   FlattenSeq(a \o front(n)) = FlattenSeq(a) \o FlattenSeq(front(n))}
<1>1. N \in Nat /\ b \in [1 .. N -> Seq(D)]
  OBVIOUS
<1>2. /\ front(0) = <<>>
      /\ front(N) = b
      /\ \A n \in 0 .. N : front(n) \in Seq(Seq(D))
      /\ \A n \in 0 .. N - 1 : front(n + 1) = Append(front(n), b[n + 1])
  BY <1>1
<1> HIDE DEF front
<1>3. FlattenSeq(a) \in Seq(D)
  BY FlattenType
<1>4. 0 \in P
  <2>1. a \o <<>> = a /\ FlattenSeq(a) \o <<>> = FlattenSeq(a)
    BY <1>3, ConcatEmptySeq
  <2>2. FlattenSeq(a \o front(0)) = FlattenSeq(a) \o FlattenSeq(front(0))
    BY <1>2, <2>1, FlattenEmpty
  <2> QED BY <1>1, <2>2
<1>5. ASSUME NEW n \in 0 .. N - 1, n \in P PROVE n + 1 \in P
  <2> DEFINE q == front(n)
             x == b[n + 1]
  <2>1. q \in Seq(Seq(D)) /\ x \in Seq(D) /\ front(n + 1) = Append(q, x)
    <3>1. n \in 0 .. N /\ n + 1 \in 1 .. N
      BY <1>1
    <3>2. q \in Seq(Seq(D))
      BY <1>2, <3>1
    <3>3. x \in Seq(D)
      BY <1>1, <3>1
    <3>4. front(n + 1) = Append(q, x)
      BY <1>2
    <3> QED BY <3>2, <3>3, <3>4
  <2>2. FlattenSeq(a \o q) = FlattenSeq(a) \o FlattenSeq(q)
    BY <1>5
  <2> HIDE DEF q, x
  <2>3. a \o Append(q, x) = Append(a \o q, x) /\ a \o q \in Seq(Seq(D))
    BY <2>1, ConcatAppend
  <2>4. FlattenSeq(a \o Append(q, x)) = (FlattenSeq(a) \o FlattenSeq(q)) \o x
    BY <2>1, <2>2, <2>3, FlattenAppend
  <2>5. FlattenSeq(q) \in Seq(D)
    BY <2>1, FlattenType
  <2>6. ASSUME NEW u \in Seq(D), NEW v \in Seq(D), NEW y \in Seq(D)
        PROVE  (u \o v) \o y = u \o (v \o y)
    BY ConcatAssociative
  <2>7. FlattenSeq(Append(q, x)) = FlattenSeq(q) \o x
    BY <2>1, FlattenAppend
  <2>8. FlattenSeq(a \o front(n + 1)) = FlattenSeq(a) \o FlattenSeq(front(n + 1))
    <3>1. (FlattenSeq(a) \o FlattenSeq(q)) \o x = FlattenSeq(a) \o (FlattenSeq(q) \o x)
      BY <1>3, <2>1, <2>5, <2>6
    <3> QED BY <2>1, <2>4, <2>7, <3>1
  <2> QED BY <1>1, <2>8
<1>6. 0 .. N \subseteq P
  <2> HIDE DEF P
  <2> QED BY <1>1, <1>4, <1>5, InductionUpTo
<1>7. FlattenSeq(a \o front(N)) = FlattenSeq(a) \o FlattenSeq(front(N))
  BY <1>1, <1>6
<1> QED BY <1>2, <1>7

-----------------------------------------------------------------------------
(* What chunks say.                                                        *)

Letter(c) == IF c = Blank THEN <<>> ELSE <<c>>
LettersOf(s) == [i \in DOMAIN s |-> Letter(s[i])]
AllLettersOf(text) == [i \in DOMAIN text |-> Letters(text[i])]

LEMMA LettersFlat ==
    ASSUME NEW C, NEW s \in Seq(C)
    PROVE  /\ LettersOf(s) \in Seq(Seq(C))
           /\ Letters(s) = FlattenSeq(LettersOf(s))
           /\ Letters(s) \in Seq(C)
<1>1. ASSUME NEW i \in 1 .. Len(s) PROVE Letter(s[i]) \in Seq(C)
  BY DEF Letter
<1>2. LettersOf(s) \in Seq(Seq(C))
  <2>1. LettersOf(s) = [i \in 1 .. Len(s) |-> Letter(s[i])]
    BY DEF LettersOf
  <2>2. [i \in 1 .. Len(s) |-> Letter(s[i])] \in Seq(Seq(C))
    BY <1>1
  <2> QED BY <2>1, <2>2
<1>3. Letters(s) = FlattenSeq(LettersOf(s))
  BY DEF Letters, LettersOf, Letter
<1> QED BY <1>2, <1>3, FlattenType

LEMMA ConcatAt ==
    ASSUME NEW D, NEW v \in Seq(D), NEW w \in Seq(D)
    PROVE  /\ v \o w \in Seq(D)
           /\ Len(v \o w) = Len(v) + Len(w)
           /\ \A i \in 1 .. Len(v) + Len(w) :
                 (v \o w)[i] = IF i <= Len(v) THEN v[i] ELSE w[i - Len(v)]
OBVIOUS

LEMMA LettersConcat ==
    ASSUME NEW C, NEW s \in Seq(C), NEW t \in Seq(C)
    PROVE  Letters(s \o t) = Letters(s) \o Letters(t)
<1> DEFINE m == Len(s)
           n == Len(t)
<1>1. /\ s \o t \in Seq(C)
      /\ m \in Nat /\ n \in Nat /\ Len(s \o t) = m + n
      /\ DOMAIN s = 1 .. m /\ DOMAIN t = 1 .. n
      /\ DOMAIN (s \o t) = 1 .. m + n
      /\ \A i \in 1 .. m + n : (s \o t)[i] = IF i <= m THEN s[i] ELSE t[i - m]
  OBVIOUS
<1>2. /\ LettersOf(s) \in Seq(Seq(C)) /\ LettersOf(t) \in Seq(Seq(C))
      /\ LettersOf(s \o t) \in Seq(Seq(C))
  BY <1>1, LettersFlat
<1>3. /\ Len(LettersOf(s)) = m /\ Len(LettersOf(t)) = n
      /\ Len(LettersOf(s \o t)) = m + n
  BY <1>1 DEF LettersOf
<1> DEFINE u == LettersOf(s) \o LettersOf(t)
<1>4. /\ u \in Seq(Seq(C)) /\ Len(u) = m + n
      /\ \A i \in 1 .. m + n :
            u[i] = IF i <= m THEN LettersOf(s)[i] ELSE LettersOf(t)[i - m]
  <2>1. /\ u \in Seq(Seq(C))
        /\ Len(u) = Len(LettersOf(s)) + Len(LettersOf(t))
        /\ \A i \in 1 .. Len(LettersOf(s)) + Len(LettersOf(t)) :
              u[i] = IF i <= Len(LettersOf(s)) THEN LettersOf(s)[i]
                     ELSE LettersOf(t)[i - Len(LettersOf(s))]
    BY <1>2, ConcatAt, Zenon DEF u
  <2> HIDE DEF m, n, u
  <2> QED BY <1>3, <2>1, Zenon
<1> HIDE DEF u
<1>5. ASSUME NEW i \in 1 .. m + n PROVE LettersOf(s \o t)[i] = u[i]
  <2>1. LettersOf(s \o t)[i] = Letter((s \o t)[i])
    BY <1>1 DEF LettersOf
  <2>2. CASE i <= m
    <3>1. i \in 1 .. m
      BY <1>1, <2>2
    <3>2. LettersOf(s)[i] = Letter(s[i])
      BY <1>1, <3>1 DEF LettersOf
    <3>3. (s \o t)[i] = s[i] /\ u[i] = LettersOf(s)[i]
      BY <1>1, <1>4, <2>2
    <3> QED BY <2>1, <3>2, <3>3
  <2>3. CASE ~ (i <= m)
    <3>1. i - m \in 1 .. n
      BY <1>1, <2>3
    <3>2. LettersOf(t)[i - m] = Letter(t[i - m])
      BY <1>1, <3>1 DEF LettersOf
    <3>3. (s \o t)[i] = t[i - m] /\ u[i] = LettersOf(t)[i - m]
      BY <1>1, <1>4, <2>3
    <3> QED BY <2>1, <3>2, <3>3
  <2> QED BY <2>2, <2>3
<1>6. LettersOf(s \o t) = u
  BY <1>2, <1>3, <1>4, <1>5, SeqEqual
<1>7. FlattenSeq(u) = FlattenSeq(LettersOf(s)) \o FlattenSeq(LettersOf(t))
  BY <1>2, FlattenConcat DEF u
<1>8. /\ Letters(s) = FlattenSeq(LettersOf(s))
      /\ Letters(t) = FlattenSeq(LettersOf(t))
      /\ Letters(s \o t) = FlattenSeq(LettersOf(s \o t))
  BY <1>1, LettersFlat
<1> QED BY <1>6, <1>7, <1>8

LEMMA AllLettersFlat ==
    ASSUME NEW C, NEW text \in Seq(Seq(C))
    PROVE  /\ AllLettersOf(text) \in Seq(Seq(C))
           /\ Len(AllLettersOf(text)) = Len(text)
           /\ \A i \in 1 .. Len(text) : AllLettersOf(text)[i] = Letters(text[i])
           /\ AllLetters(text) = FlattenSeq(AllLettersOf(text))
           /\ AllLetters(text) \in Seq(C)
<1>1. \A i \in 1 .. Len(text) : Letters(text[i]) \in Seq(C)
  <2>1. \A i \in 1 .. Len(text) : text[i] \in Seq(C)
    OBVIOUS
  <2> QED BY <2>1, LettersFlat
<1>2. AllLettersOf(text) = [i \in 1 .. Len(text) |-> Letters(text[i])]
  BY DEF AllLettersOf
<1>3. /\ [i \in 1 .. Len(text) |-> Letters(text[i])] \in Seq(Seq(C))
      /\ Len([i \in 1 .. Len(text) |-> Letters(text[i])]) = Len(text)
  BY <1>1
<1>4. AllLetters(text) = FlattenSeq(AllLettersOf(text))
  BY DEF AllLetters, AllLettersOf
<1> QED BY <1>2, <1>3, <1>4, FlattenType

LEMMA AllLettersEmpty == AllLetters(<<>>) = <<>>
<1>1. AllLettersOf(<<>>) = <<>>
  BY DEF AllLettersOf
<1>2. AllLetters(<<>>) = FlattenSeq(AllLettersOf(<<>>))
  BY DEF AllLetters, AllLettersOf
<1> QED BY <1>1, <1>2, FlattenEmpty

LEMMA AllLettersConcat ==
    ASSUME NEW C, NEW a \in Seq(Seq(C)), NEW b \in Seq(Seq(C))
    PROVE  AllLetters(a \o b) = AllLetters(a) \o AllLetters(b)
<1> DEFINE m == Len(a)
           n == Len(b)
           u == AllLettersOf(a) \o AllLettersOf(b)
<1>1. /\ a \o b \in Seq(Seq(C))
      /\ m \in Nat /\ n \in Nat /\ Len(a \o b) = m + n
      /\ \A i \in 1 .. m + n : (a \o b)[i] = IF i <= m THEN a[i] ELSE b[i - m]
  OBVIOUS
<1>2. /\ AllLettersOf(a) \in Seq(Seq(C)) /\ Len(AllLettersOf(a)) = m
      /\ AllLettersOf(b) \in Seq(Seq(C)) /\ Len(AllLettersOf(b)) = n
      /\ AllLettersOf(a \o b) \in Seq(Seq(C)) /\ Len(AllLettersOf(a \o b)) = m + n
      /\ \A i \in 1 .. m : AllLettersOf(a)[i] = Letters(a[i])
      /\ \A i \in 1 .. n : AllLettersOf(b)[i] = Letters(b[i])
      /\ \A i \in 1 .. m + n : AllLettersOf(a \o b)[i] = Letters((a \o b)[i])
  BY <1>1, AllLettersFlat
<1>3. /\ u \in Seq(Seq(C)) /\ Len(u) = m + n
      /\ \A i \in 1 .. m + n :
            u[i] = IF i <= m THEN AllLettersOf(a)[i] ELSE AllLettersOf(b)[i - m]
  <2>0. AllLettersOf(a) \in Seq(Seq(C)) /\ AllLettersOf(b) \in Seq(Seq(C))
    BY <1>2, Zenon
  <2>1. /\ u \in Seq(Seq(C))
        /\ Len(u) = Len(AllLettersOf(a)) + Len(AllLettersOf(b))
        /\ \A i \in 1 .. Len(AllLettersOf(a)) + Len(AllLettersOf(b)) :
              u[i] = IF i <= Len(AllLettersOf(a)) THEN AllLettersOf(a)[i]
                     ELSE AllLettersOf(b)[i - Len(AllLettersOf(a))]
    BY <2>0, ConcatAt, Zenon DEF u
  <2> HIDE DEF m, n, u
  <2> QED BY <1>2, <2>1, Zenon
<1> HIDE DEF u
<1>4. ASSUME NEW i \in 1 .. m + n PROVE AllLettersOf(a \o b)[i] = u[i]
  <2>1. CASE i <= m
    <3>1. i \in 1 .. m
      BY <1>1, <2>1
    <3> QED BY <1>1, <1>2, <1>3, <2>1, <3>1
  <2>2. CASE ~ (i <= m)
    <3>1. i - m \in 1 .. n
      BY <1>1, <2>2
    <3>2. u[i] = Letters(b[i - m])
      BY <1>2, <1>3, <2>2, <3>1
    <3> QED BY <1>1, <1>2, <2>2, <3>2
  <2> QED BY <2>1, <2>2
<1>5. AllLettersOf(a \o b) = u
  BY <1>2, <1>3, <1>4, SeqEqual
<1>6. FlattenSeq(u) = FlattenSeq(AllLettersOf(a)) \o FlattenSeq(AllLettersOf(b))
  BY <1>2, FlattenConcat DEF u
<1>7. /\ AllLetters(a) = FlattenSeq(AllLettersOf(a))
      /\ AllLetters(b) = FlattenSeq(AllLettersOf(b))
      /\ AllLetters(a \o b) = FlattenSeq(AllLettersOf(a \o b))
  BY <1>1, AllLettersFlat
<1> QED BY <1>5, <1>6, <1>7

LEMMA AllLettersAppend ==
    ASSUME NEW C, NEW text \in Seq(Seq(C)), NEW s \in Seq(C)
    PROVE  AllLetters(Append(text, s)) = AllLetters(text) \o Letters(s)
<1>1. <<s>> \in Seq(Seq(C)) /\ Append(text, s) = text \o <<s>>
  OBVIOUS
<1>2. AllLetters(<<s>>) = Letters(s)
  <2>1. AllLettersOf(<<s>>) = Append(<<>>, Letters(s))
    BY DEF AllLettersOf
  <2>2. Letters(s) \in Seq(C) /\ <<>> \in Seq(Seq(C))
    BY LettersFlat
  <2>3. FlattenSeq(Append(<<>>, Letters(s))) = FlattenSeq(<<>>) \o Letters(s)
    BY <2>2, FlattenAppend
  <2>4. <<>> \o Letters(s) = Letters(s)
    BY <2>2, ConcatEmptySeq
  <2> QED BY <1>1, <2>1, <2>3, <2>4, FlattenEmpty, AllLettersFlat
<1> QED BY <1>1, <1>2, AllLettersConcat

(***************************************************************************)
(* The pieces of a sentence say what it says.                              *)
(***************************************************************************)
LEMMA PiecesKeep ==
    ASSUME NEW C, NEW s \in Seq(C)
    PROVE  AllLetters(Pieces(s)) = Letters(s)
<1> DEFINE L == Len(s)
           M == ChunkMax
           q == Len(Pieces(s))
           end(n) == Smaller(n * M, L)
           front(n) == SubSeq(Pieces(s), 1, n)
           head(n) == SubSeq(s, 1, end(n))
           P == {n \in 0 .. q : AllLetters(front(n)) = Letters(head(n))}
<1>1. L \in Nat /\ M \in Nat \ {0}
  BY SearchIsConfigured
<1>2. Pieces(s) \in Seq(Seq(C)) /\ q \in Nat
  <2>1. Fitting(C) \subseteq Seq(C)
    BY DEF Fitting
  <2>2. Pieces(s) \in Seq(Fitting(C))
    BY PiecesFit
  <2> QED BY <2>1, <2>2
<1>3. /\ q = (L + M - 1) \div M
      /\ \A i \in 1 .. q : Pieces(s)[i] = SubSeq(s, (i - 1) * M + 1, end(i))
  <2> DEFINE r == (L + M - 1) \div M
             piece(i) == SubSeq(s, (i - 1) * M + 1, end(i))
  <2>1. r \in Nat
    BY <1>1
  <2>2. Pieces(s) = [i \in 1 .. r |-> piece(i)]
    BY DEF Pieces
  <2> HIDE DEF r, piece
  <2>3. Len(Pieces(s)) = r /\ \A i \in 1 .. r : Pieces(s)[i] = piece(i)
    BY <2>1, <2>2
  <2> QED BY <2>3 DEF r, piece
<1>4. q * M >= L /\ q * M <= L + M - 1
  BY <1>1, <1>3
<1>5. ASSUME NEW n \in 0 .. q - 1
      PROVE  /\ n * M \in 0 .. L
             /\ end(n) = n * M
             /\ end(n + 1) \in n * M .. L
  <2> HIDE DEF q, M, L
  <2>1. n * M \in Nat /\ (n + 1) * M = n * M + M
    BY <1>1, <1>2
  <2>2. (n + 1) * M <= q * M
    BY <1>1, <1>2
  <2>3. n * M <= L
    BY <1>1, <1>2, <1>4, <2>1, <2>2
  <2> QED BY <1>1, <2>1, <2>3 DEF Smaller
<1>6. end(0) = 0 /\ end(q) = L
  BY <1>1, <1>2, <1>4 DEF Smaller
<1>7. /\ front(0) = <<>> /\ front(q) = Pieces(s)
      /\ \A n \in 0 .. q : front(n) \in Seq(Seq(C))
      /\ \A n \in 0 .. q - 1 : front(n + 1) = Append(front(n), Pieces(s)[n + 1])
  <2> DEFINE p == Pieces(s)
  <2>1. p \in Seq(Seq(C)) /\ q = Len(p)
    BY <1>2
  <2> HIDE DEF p
  <2>2. /\ SubSeq(p, 1, 0) = <<>> /\ SubSeq(p, 1, Len(p)) = p
        /\ \A n \in 0 .. Len(p) : SubSeq(p, 1, n) \in Seq(Seq(C))
        /\ \A n \in 0 .. Len(p) - 1 : SubSeq(p, 1, n + 1) = Append(SubSeq(p, 1, n), p[n + 1])
    BY <2>1
  <2> QED BY <2>2 DEF p
<1> HIDE DEF front
<1>8. 0 \in P
  <2>1. head(0) = <<>>
    BY <1>6
  <2>2. Letters(<<>>) = <<>>
    <3>1. LettersOf(<<>>) = <<>> /\ <<>> \in Seq(C)
      BY DEF LettersOf
    <3> QED BY <3>1, LettersFlat, FlattenEmpty
  <2>3. AllLetters(front(0)) = Letters(head(0))
    BY <1>7, <2>1, <2>2, AllLettersEmpty
  <2> HIDE DEF head
  <2> QED BY <1>2, <2>3
<1>9. ASSUME NEW n \in 0 .. q - 1, n \in P PROVE n + 1 \in P
  <2> DEFINE piece == Pieces(s)[n + 1]
  <2>1. n \in 0 .. q /\ n + 1 \in 1 .. q /\ n + 1 \in 0 .. q
    BY <1>2
  <2>2. piece = SubSeq(s, n * M + 1, end(n + 1)) /\ piece \in Seq(C)
    <3>1. (n + 1) - 1 = n
      BY <2>1
    <3>2. Pieces(s)[n + 1] = SubSeq(s, ((n + 1) - 1) * M + 1, end(n + 1))
      BY <1>3, <2>1
    <3>3. Pieces(s)[n + 1] \in Seq(C)
      BY <1>2, <2>1
    <3> QED BY <3>1, <3>2, <3>3
  <2> HIDE DEF end
  <2>3. head(n) = SubSeq(s, 1, n * M)
    BY <1>5
  <2>4. SubSeq(s, 1, n * M) \o SubSeq(s, n * M + 1, end(n + 1)) = head(n + 1)
    <3> DEFINE k == n * M
               e == end(n + 1)
    <3>1. k \in 0 .. L /\ e \in k .. L
      BY <1>5
    <3> HIDE DEF k, e
    <3>2. SubSeq(s, 1, k) \o SubSeq(s, k + 1, e) = SubSeq(s, 1, e)
      <4>1. 1 \in 1 .. L + 1 /\ k \in 1 - 1 .. L /\ e \in k .. L
        BY <1>1, <3>1
      <4> QED BY <4>1, ConcatAdjacentSubSeq
    <3> QED BY <3>2 DEF k, e
  <2>5. head(n) \in Seq(C)
    <3> DEFINE k == n * M
    <3>1. k \in 0 .. L
      BY <1>5
    <3> HIDE DEF k, head
    <3>2. SubSeq(s, 1, k) \in Seq(C)
      BY <1>1, <3>1
    <3> QED BY <2>3, <3>2 DEF k
  <2> HIDE DEF head, piece
  <2>6. Letters(head(n + 1)) = Letters(head(n)) \o Letters(piece)
    BY <2>2, <2>3, <2>4, <2>5, LettersConcat
  <2>7. AllLetters(front(n + 1)) = AllLetters(front(n)) \o Letters(piece)
    <3>1. front(n + 1) = Append(front(n), piece)
      BY <1>7 DEF piece
    <3>2. front(n) \in Seq(Seq(C))
      BY <1>7, <2>1
    <3> QED BY <2>2, <3>1, <3>2, AllLettersAppend
  <2>8. AllLetters(front(n)) = Letters(head(n))
    BY <1>9
  <2>9. AllLetters(front(n + 1)) = Letters(head(n + 1))
    BY <2>6, <2>7, <2>8
  <2> HIDE DEF q
  <2> QED BY <2>1, <2>9
<1>10. 0 .. q \subseteq P
  <2> HIDE DEF P, q
  <2> QED BY <1>2, <1>8, <1>9, InductionUpTo
<1>11. AllLetters(front(q)) = Letters(head(q))
  <2>1. q \in 0 .. q
    BY <1>2
  <2> HIDE DEF q, head
  <2> QED BY <1>10, <2>1
<1>12. head(q) = s
  BY <1>6, SubSeqFull
<1> QED BY <1>7, <1>11, <1>12

(***************************************************************************)
(* What chunk_text holds says what the sentences read so far say.          *)
(***************************************************************************)
Said(p) == AllLetters(p.chunks) \o Letters(p.current)

LEMMA PackingType ==
    ASSUME NEW C, NEW p \in Packing(C)
    PROVE  /\ p.chunks \in Seq(Seq(C)) /\ p.current \in Seq(C)
           /\ AllLetters(p.chunks) \in Seq(C) /\ Letters(p.current) \in Seq(C)
           /\ Said(p) \in Seq(C)
<1>1. Fitting(C) \subseteq Seq(C) /\ <<>> \in Seq(C)
  BY DEF Fitting
<1>2. p.chunks \in Seq(Fitting(C)) /\ p.current \in Fitting(C) \cup {<<>>}
  BY DEF Packing
<1>3. p.chunks \in Seq(Seq(C)) /\ p.current \in Seq(C)
  <2>1. p.chunks \in Seq(Seq(C))
    BY <1>1, <1>2, SeqMonotonic
  <2>2. p.current \in Seq(C)
    BY <1>1, <1>2
  <2> QED BY <2>1, <2>2
<1>4. AllLetters(p.chunks) \in Seq(C) /\ Letters(p.current) \in Seq(C)
  BY <1>3, AllLettersFlat, LettersFlat
<1> QED BY <1>3, <1>4 DEF Said

LEMMA FlushedSays ==
    ASSUME NEW C, NEW p \in Packing(C)
    PROVE  AllLetters(Flushed(p)) = Said(p)
<1>1. CASE p.current = <<>>
  <2>1. Letters(<<>>) = <<>>
    <3>1. LettersOf(<<>>) = <<>> /\ <<>> \in Seq(C)
      BY DEF LettersOf
    <3> QED BY <3>1, LettersFlat, FlattenEmpty
  <2>2. AllLetters(p.chunks) \o <<>> = AllLetters(p.chunks)
    BY PackingType, ConcatEmptySeq
  <2> QED BY <1>1, <2>1, <2>2 DEF Flushed, Said
<1>2. CASE p.current # <<>>
  BY <1>2, PackingType, AllLettersAppend DEF Flushed, Said
<1> QED BY <1>1, <1>2

LEMMA PackedSays ==
    ASSUME NEW C, Blank \in C, NEW p \in Packing(C), NEW s \in Seq(C), s # <<>>
    PROVE  Said(Packed(p, s)) = Said(p) \o Letters(s)
<1>1. /\ p.chunks \in Seq(Seq(C)) /\ p.current \in Seq(C)
      /\ AllLetters(p.chunks) \in Seq(C) /\ Letters(p.current) \in Seq(C)
      /\ Said(p) \in Seq(C) /\ Letters(s) \in Seq(C)
  BY PackingType, LettersFlat
<1>2. Flushed(p) \in Seq(Seq(C)) /\ Pieces(s) \in Seq(Seq(C))
  <2>1. Fitting(C) \subseteq Seq(C)
    BY DEF Fitting
  <2>2. Flushed(p) \in Seq(Fitting(C)) /\ Pieces(s) \in Seq(Fitting(C))
    BY FlushedFit, PiecesFit
  <2> QED BY <2>1, <2>2
<1>3. AllLetters(Flushed(p)) = Said(p)
  BY FlushedSays
<1>4. Letters(<<>>) = <<>> /\ Letters(<<Blank>>) = <<>>
  <2>1. LettersOf(<<>>) = <<>> /\ <<>> \in Seq(C)
    BY DEF LettersOf
  <2>2. LettersOf(<<Blank>>) = Append(<<>>, <<>>) /\ <<Blank>> \in Seq(C)
    BY DEF LettersOf, Letter
  <2>3. FlattenSeq(Append(<<>>, <<>>)) = FlattenSeq(<<>>) \o <<>>
    <3>1. <<>> \in Seq(Seq(C)) /\ <<>> \in Seq(C)
      OBVIOUS
    <3> QED BY <3>1, FlattenAppend
  <2>4. <<>> \o <<>> = <<>>
    BY <2>1, ConcatEmptySeq
  <2> QED BY <2>1, <2>2, <2>3, <2>4, LettersFlat, FlattenEmpty
<1>5. Said(p) \o <<>> = Said(p) /\ \A t \in Seq(C) : <<>> \o t = t /\ t \o <<>> = t
  BY <1>1, ConcatEmptySeq
<1>6. ASSUME NEW u \in Seq(C), NEW v \in Seq(C), NEW y \in Seq(C)
      PROVE  (u \o v) \o y = u \o (v \o y)
  BY ConcatAssociative
<1>7. CASE Len(s) > ChunkMax
  <2>1. Packed(p, s) = [chunks |-> Flushed(p) \o Pieces(s), current |-> <<>>]
    BY <1>7 DEF Packed
  <2>2. AllLetters(Flushed(p) \o Pieces(s)) = Said(p) \o Letters(s)
    <3>1. AllLetters(Flushed(p) \o Pieces(s))
            = AllLetters(Flushed(p)) \o AllLetters(Pieces(s))
      BY <1>2, AllLettersConcat
    <3>2. AllLetters(Pieces(s)) = Letters(s)
      BY PiecesKeep
    <3> QED BY <1>3, <3>1, <3>2
  <2>3. Said(p) \o Letters(s) \in Seq(C)
    BY <1>1
  <2>4. (Said(p) \o Letters(s)) \o <<>> = Said(p) \o Letters(s)
    BY <1>5, <2>3
  <2>5. Said(Packed(p, s)) = AllLetters(Flushed(p) \o Pieces(s)) \o Letters(<<>>)
    BY <2>1 DEF Said
  <2> QED BY <1>4, <2>2, <2>4, <2>5
<1>8. CASE Len(s) <= ChunkMax /\ Len(p.current) + Len(s) + 1 <= ChunkMax
  <2> DEFINE c == IF p.current = <<>> THEN s ELSE p.current \o <<Blank>> \o s
  <2>1. Packed(p, s) = [p EXCEPT !.current = c]
    BY <1>8, SearchIsConfigured DEF Packed
  <2>2. Letters(c) = Letters(p.current) \o Letters(s)
    <3>1. CASE p.current = <<>>
      BY <1>1, <1>4, <1>5, <3>1
    <3>2. CASE p.current # <<>>
      <4>1. <<Blank>> \in Seq(C) /\ p.current \o <<Blank>> \in Seq(C)
        BY <1>1
      <4>2. Letters((p.current \o <<Blank>>) \o s) = Letters(p.current \o <<Blank>>) \o Letters(s)
        BY <4>1, LettersConcat
      <4>3. Letters(p.current \o <<Blank>>) = Letters(p.current) \o Letters(<<Blank>>)
        BY <1>1, <4>1, LettersConcat
      <4> QED BY <1>1, <1>4, <1>5, <3>2, <4>2, <4>3
    <3> QED BY <3>1, <3>2
  <2> HIDE DEF c
  <2>3. Said([p EXCEPT !.current = c]) = AllLetters(p.chunks) \o Letters(c)
    BY DEF Said, Packing
  <2>4. (AllLetters(p.chunks) \o Letters(p.current)) \o Letters(s)
          = AllLetters(p.chunks) \o (Letters(p.current) \o Letters(s))
    <3>1. /\ AllLetters(p.chunks) \in Seq(C)
          /\ Letters(p.current) \in Seq(C) /\ Letters(s) \in Seq(C)
      BY <1>1
    <3> QED BY <1>6, <3>1, Zenon
  <2> QED BY <2>1, <2>2, <2>3, <2>4 DEF Said
<1>9. CASE Len(s) <= ChunkMax /\ ~ (Len(p.current) + Len(s) + 1 <= ChunkMax)
  <2>1. Packed(p, s) = [chunks |-> Flushed(p), current |-> s]
    BY <1>9, SearchIsConfigured DEF Packed
  <2>2. Said(Packed(p, s)) = AllLetters(Flushed(p)) \o Letters(s)
    BY <2>1 DEF Said
  <2> QED BY <1>3, <2>2
<1>10. Len(s) \in Nat /\ ChunkMax \in Nat
  BY SearchIsConfigured
<1> QED BY <1>7, <1>8, <1>9, <1>10

(***************************************************************************)
(* Packing a text into chunks neither drops, repeats nor reorders anything *)
(* but blanks: a search by any part of a comment can meet it.              *)
(***************************************************************************)
THEOREM ChunksKeepText ==
    ASSUME NEW C, Blank \in C, NEW text \in Seq(Seq(C) \ {<<>>})
    PROVE  AllLetters(chunk_text(text)) = AllLetters(text)
<1> DEFINE N == Len(text)
           p == PackedUpTo(text)
           front(n) == SubSeq(text, 1, n)
           P == {n \in 0 .. N : Said(p[n]) = AllLetters(front(n))}
<1>1. /\ N \in Nat /\ text \in [1 .. N -> Seq(C) \ {<<>>}]
      /\ text \in Seq(Seq(C))
  OBVIOUS
<1>2. /\ front(0) = <<>> /\ front(N) = text
      /\ \A n \in 0 .. N : front(n) \in Seq(Seq(C))
      /\ \A n \in 0 .. N - 1 : front(n + 1) = Append(front(n), text[n + 1])
  BY <1>1
<1>3. /\ p \in [0 .. N -> Packing(C)]
      /\ p[0] = [chunks |-> <<>>, current |-> <<>>]
      /\ \A i \in 1 .. N : p[i] = Packed(p[i - 1], text[i])
  BY PackingRecursion
<1> HIDE DEF p, front
<1>4. 0 \in P
  <2>1. Letters(<<>>) = <<>>
    <3>1. LettersOf(<<>>) = <<>> /\ <<>> \in Seq(C)
      BY DEF LettersOf
    <3> QED BY <3>1, LettersFlat, FlattenEmpty
  <2>2. <<>> \in Seq(C)
    OBVIOUS
  <2>3. <<>> \o <<>> = <<>>
    BY <2>2, ConcatEmptySeq
  <2>4. Said(p[0]) = AllLetters(front(0))
    BY <1>2, <1>3, <2>1, <2>3, AllLettersEmpty DEF Said
  <2> QED BY <1>1, <2>4
<1>5. ASSUME NEW n \in 0 .. N - 1, n \in P PROVE n + 1 \in P
  <2>1. n \in 0 .. N /\ n + 1 \in 1 .. N /\ n + 1 \in 0 .. N /\ (n + 1) - 1 = n
    BY <1>1
  <2>2. text[n + 1] \in Seq(C) /\ text[n + 1] # <<>>
    BY <1>1, <2>1
  <2>3. p[n + 1] = Packed(p[n], text[n + 1]) /\ p[n] \in Packing(C)
    <3> HIDE DEF N
    <3> QED BY <1>3, <2>1
  <2>4. Said(p[n + 1]) = Said(p[n]) \o Letters(text[n + 1])
    BY <2>2, <2>3, PackedSays
  <2>5. front(n) \in Seq(Seq(C)) /\ front(n + 1) = Append(front(n), text[n + 1])
    BY <1>2, <2>1
  <2>6. AllLetters(front(n + 1)) = AllLetters(front(n)) \o Letters(text[n + 1])
    BY <2>2, <2>5, AllLettersAppend
  <2>7. Said(p[n]) = AllLetters(front(n))
    BY <1>5
  <2>8. Said(p[n + 1]) = AllLetters(front(n + 1))
    BY <2>4, <2>6, <2>7
  <2> HIDE DEF N
  <2> QED BY <2>1, <2>8
<1>6. 0 .. N \subseteq P
  <2> HIDE DEF P
  <2> QED BY <1>1, <1>4, <1>5, InductionUpTo
<1>7. Said(p[N]) = AllLetters(front(N)) /\ p[N] \in Packing(C)
  <2>1. N \in 0 .. N
    BY <1>1
  <2> HIDE DEF N
  <2> QED BY <1>3, <1>6, <2>1
<1>8. AllLetters(Flushed(p[N])) = Said(p[N])
  BY <1>7, FlushedSays
<1> QED BY <1>2, <1>7, <1>8 DEF chunk_text, p

-----------------------------------------------------------------------------
(* The ranking.                                                            *)

(***************************************************************************)
(* A search lists at most top_k notes, none twice, none excluded and none  *)
(* below the threshold, each no better than the one before it; and it      *)
(* leaves a note it could list out only for notes that score as much and   *)
(* only when the list is full.                                             *)
(***************************************************************************)
THEOREM AnswerIsBest ==
    ASSUME NEW hits, IsFiniteSet(hits), NEW top_k \in Int, NEW excluded,
           NEW answer \in search_notes(hits, top_k, excluded)
    PROVE  LET met  == Met(hits, excluded)
               kept == Kept(met)
           IN  /\ answer \in Seq(kept)
               /\ excluded \notin kept
               /\ Len(answer) = Smaller(Limit(top_k), Cardinality(kept))
               /\ \A i, j \in DOMAIN answer :
                     i < j => /\ answer[i] # answer[j]
                              /\ AtLeast(Score(met, answer[i]), Score(met, answer[j]))
               /\ \A n \in kept :
                     \/ \E i \in DOMAIN answer : answer[i] = n
                     \/ /\ Len(answer) = Limit(top_k)
                        /\ \A i \in DOMAIN answer :
                              AtLeast(Score(met, answer[i]), Score(met, n))
<1> DEFINE met  == Met(hits, excluded)
           kept == Kept(met)
           c    == Cardinality(kept)
           l    == Limit(top_k)
           k    == Smaller(l, c)
           S(n) == Score(met, n)
<1>1. c \in Nat
  <2>1. IsFiniteSet(met)
    BY FS_Subset DEF Met
  <2>2. IsFiniteSet({h.note : h \in met})
    <3> DEFINE notes == {h.note : h \in met}
               note  == [h \in met |-> h.note]
    <3>1. note \in Surjection(met, notes)
      BY DEF Surjection
    <3> QED BY <2>1, <3>1, FS_Surjection DEF ExistsSurjection
  <2> QED BY <2>2, FS_Subset, FS_CardinalityType DEF Kept
<1>2. l \in Nat \ {0}
  BY SearchIsConfigured DEF Limit
<1>3. excluded \notin kept
  BY DEF Kept, Met
<1>4. PICK r \in Rankings(met) : answer = [i \in 1 .. k |-> r[i]]
  BY DEF search_notes
<1>5. /\ r \in [1 .. c -> kept]
      /\ \A i, j \in 1 .. c : r[i] = r[j] => i = j
      /\ \A n \in kept : \E i \in 1 .. c : r[i] = n
      /\ \A i, j \in 1 .. c : i < j => AtLeast(S(r[i]), S(r[j]))
  BY DEF Rankings, Bijection, Injection, Surjection, IsInjective
<1> HIDE DEF c, kept, l, S
<1>6. k \in Nat /\ k <= c /\ k <= l /\ (k # l => k = c)
  BY <1>1, <1>2 DEF Smaller
<1> HIDE DEF k
<1>7. answer \in Seq(kept) /\ Len(answer) = k /\ DOMAIN answer = 1 .. k
  BY <1>1, <1>4, <1>5, <1>6
<1>8. \A i \in 1 .. k : i \in 1 .. c /\ answer[i] = r[i]
  BY <1>1, <1>4, <1>6
<1>9. ASSUME NEW i \in 1 .. k, NEW j \in 1 .. k, i < j
      PROVE  answer[i] # answer[j] /\ AtLeast(S(answer[i]), S(answer[j]))
  BY <1>5, <1>6, <1>8, <1>9
<1>10. ASSUME NEW n \in kept, ~ \E i \in 1 .. k : answer[i] = n
       PROVE  k = l /\ \A i \in 1 .. k : AtLeast(S(answer[i]), S(n))
  <2>1. PICK j \in 1 .. c : r[j] = n
    BY <1>5
  <2>2. ~ (j <= k)
    BY <1>1, <1>6, <1>8, <1>10, <2>1
  <2>3. k = l
    BY <1>1, <1>6, <2>1, <2>2
  <2>4. ASSUME NEW i \in 1 .. k PROVE AtLeast(S(answer[i]), S(n))
    BY <1>1, <1>5, <1>6, <1>8, <2>1, <2>2
  <2> QED BY <2>3, <2>4
<1> QED
  BY <1>3, <1>7, <1>9, <1>10 DEF kept, c, l, k, S
=============================================================================
