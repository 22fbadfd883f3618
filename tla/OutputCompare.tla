---------------------------- MODULE OutputCompare ---------------------------
(***************************************************************************)
(* What the worker keeps of a program's output, and how it compares it     *)
(* with the output a test case expects (worker/runner.py).  A text is a    *)
(* sequence of characters; the numbers of the float mode are integers,     *)
(* multiples of some small unit.                                           *)
(***************************************************************************)
EXTENDS Integers, Sequences

CONSTANTS
    Characters,   \* what texts are made of
    CR, LF,       \* the two characters that end a line
    Blanks,       \* the other characters str.strip removes
    StdoutLimit,  \* config.STDOUT_LIMIT
    Finite,       \* the words float() reads as a finite number
    Value(_)      \* the number such a word stands for

ASSUME CharactersDiffer ==
    /\ {CR, LF} \cup Blanks \subseteq Characters
    /\ CR # LF
    /\ {CR, LF} \cap Blanks = {}

ASSUME WordsAreNumbers ==
    /\ StdoutLimit \in Nat
    /\ \A w \in Finite : Value(w) \in Int

Texts == Seq(Characters)

(***************************************************************************)
(* CR LF and CR become LF: what text=True does to a captured output, and   *)
(* the two replacements of normalize to any text.                          *)
(***************************************************************************)
EndingsUpTo(t) ==
    LET e[i \in 0 .. Len(t)] ==
          IF i = 0 THEN <<>>
          ELSE IF t[i] = LF /\ i > 1 /\ t[i - 1] = CR THEN e[i - 1]
          ELSE Append(e[i - 1], IF t[i] = CR THEN LF ELSE t[i])
    IN  e
Endings(t) == EndingsUpTo(t)[Len(t)]

\* run_code and limit_text: the part of the output the worker compares.
Captured(printed) ==
    LET out == Endings(printed)
    IN  IF Len(out) <= StdoutLimit THEN out ELSE SubSeq(out, 1, StdoutLimit)

\* The parts of t between the characters of Ends, empty ones included.
PartsUpTo(t, Ends) ==
    LET p[i \in 0 .. Len(t)] ==
          IF i = 0 THEN << <<>> >>
          ELSE IF t[i] \in Ends THEN Append(p[i - 1], <<>>)
          ELSE [p[i - 1] EXCEPT ![Len(p[i - 1])] = Append(@, t[i])]
    IN  p
Parts(t, Ends) == PartsUpTo(t, Ends)[Len(t)]

\* str.strip: t from its first to its last character outside Drop.
Strip(t, Drop) ==
    LET kept == {i \in DOMAIN t : t[i] \notin Drop}
    IN  IF kept = {} THEN <<>>
        ELSE SubSeq(t, CHOOSE i \in kept : \A j \in kept : i <= j,
                       CHOOSE i \in kept : \A j \in kept : i >= j)

\* The lines joined by LF.
JoinedUpTo(ls) ==
    LET g[i \in 0 .. Len(ls)] ==
          IF i = 0 THEN <<>>
          ELSE IF i = 1 THEN ls[1]
          ELSE g[i - 1] \o <<LF>> \o ls[i]
    IN  g
Joined(ls) == JoinedUpTo(ls)[Len(ls)]

TrimmedLines(t) ==
    LET lines == Parts(Endings(t), {LF})
    IN  [i \in DOMAIN lines |-> Strip(lines[i], Blanks)]
normalize(t) == Strip(Joined(TrimmedLines(t)), {LF})

\* str.split: the words between blanks and line ends.
Space == {CR, LF} \cup Blanks
WordsUpTo(t) ==
    LET w[i \in 0 .. Len(t)] ==
          IF i = 0 THEN <<>>
          ELSE IF t[i] \in Space THEN w[i - 1]
          ELSE IF i > 1 /\ t[i - 1] \notin Space
               THEN [w[i - 1] EXCEPT ![Len(w[i - 1])] = Append(@, t[i])]
               ELSE Append(w[i - 1], <<t[i]>>)
    IN  w
Words(t) == WordsUpTo(t)[Len(t)]

\* A word float() refuses, or reads as nan or infinite, is close to nothing.
Close(e, a, tolerance) ==
    /\ {e, a} \subseteq Finite
    /\ Value(e) - Value(a) \in -tolerance .. tolerance

compare_output(expected, actual, mode, tolerance) ==
    CASE mode = "exact" -> expected = actual
      [] mode = "float" ->
           LET e == Words(normalize(expected))
               a == Words(normalize(actual))
           IN  /\ Len(e) = Len(a)
               /\ \A i \in DOMAIN e : Close(e[i], a[i], tolerance)
      [] OTHER -> normalize(expected) = normalize(actual)

\* What process_one decides about one case and what the program printed.
Passes(case, printed) ==
    compare_output(case.expected, Captured(printed), case.mode, case.tolerance)
=============================================================================
