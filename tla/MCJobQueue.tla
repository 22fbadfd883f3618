----------------------------- MODULE MCJobQueue -----------------------------
(* Instances of JobQueue for TLC, with the comparison of outputs they take *)
(* as a choice evaluated on every text of at most MaxText characters.      *)
EXTENDS JobQueue, OutputCompare, TLC

CONSTANTS Digit, Tab, MaxText

\* Workers are alike, and so are requests and evaluations.
Symmetry ==
    Permutations(Workers) \cup Permutations(Polls) \cup Permutations(Evals)

\* Two words are numbers, and a word of three characters is none.
MCFinite == {<<Digit>>, <<Digit, Digit>>}
MCValue(w) == Len(w)

ShortTexts == UNION {[1 .. n -> Characters] : n \in 0 .. MaxText}

\* normalize changes a text once, leaves its words as they are, and does not
\* see which of the three line ends the text has.
ASSUME NormalizeIsStable ==
    \A t \in ShortTexts :
        /\ normalize(normalize(t)) = normalize(t)
        /\ Words(normalize(t)) = Words(t)
        /\ normalize(Endings(t)) = normalize(t)

\* The normal form is reached, not only promised: a text without CR, blanks
\* at the ends of its lines and empty lines at its ends is left alone.
ASSUME NormalTextsStay ==
    \A t \in ShortTexts :
        /\ \A i \in DOMAIN t : t[i] # CR
        /\ \A i \in DOMAIN t : t[i] \in Blanks =>
              /\ i > 1 /\ t[i - 1] # LF
              /\ i < Len(t) /\ t[i + 1] # LF
        /\ t # <<>> => t[1] # LF /\ t[Len(t)] # LF
        => normalize(t) = t
=============================================================================
