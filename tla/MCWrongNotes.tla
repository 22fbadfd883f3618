---------------------------- MODULE MCWrongNotes ----------------------------
(* Instances of WrongNotes for TLC, with the chunks and the search of the  *)
(* index they keep evaluated on every small text and every small index.    *)
EXTENDS WrongNotes, NoteSearch, TLC

CONSTANTS Letter, MaxSentence, MaxStored

\* Posts are alike, and so are reviews.
Symmetry == Permutations(Posts) \cup Permutations(Reviews)

Sentences ==
    {s \in UNION {[1 .. n -> {Letter, Blank}] : n \in 1 .. MaxSentence} :
        s[1] # Blank /\ s[Len(s)] # Blank}
ShortTexts == UNION {[1 .. n -> Sentences] : n \in 0 .. 2}

\* Chunks fit, say what the text says, and as few as packing in order can:
\* two neighbours would not fit one chunk.
ASSUME ChunksAreTight ==
    \A text \in ShortTexts :
        LET c == chunk_text(text)
        IN  /\ \A i \in DOMAIN c : Len(c[i]) \in 1 .. ChunkMax
            /\ AllLetters(c) = AllLetters(text)
            /\ (\A i \in DOMAIN text : Len(text[i]) <= ChunkMax) =>
                  \A i \in 1 .. Len(c) - 1 :
                      Len(c[i]) + Len(c[i + 1]) + 1 > ChunkMax

SmallIndexes ==
    {H \in SUBSET [user : {1}, note : {1, 2}, section : {"topic", "note"},
                   distance : 0 .. Unit] : Cardinality(H) <= MaxStored}

\* Every score is a similarity, and every search has an answer.
ASSUME ScoresAreSimilarities ==
    \A H \in SmallIndexes :
        /\ \A n \in {1, 2} :
              LET s == Score(H, n)
              IN  s.den > 0 /\ s.num \in 0 .. Unit * s.den
        /\ search_notes(H, 0, 1) # {}

\* The excluded note is dropped after the nearest chunks are taken: its own
\* chunks can leave no place for a note that would be listed.
ASSUME OwnChunksCrowdOut ==
    \E stored \in SmallIndexes :
        /\ \E r \in search_notes(stored, 0, 1) : r # <<>>
        /\ \A met \in Nearest(stored, 1) :
              \A r \in search_notes(met, 0, 1) : r = <<>>

\* A collection is made for one kind of vectors, yet a text can come with
\* the other kind: when the model is configured and does not answer.
ASSUME FallbackDoesNotFit ==
    \A backend \in {"openai", "hash", "auto"}, key, answers \in BOOLEAN :
        Embedding(backend, key, answers) # Collection(backend, key)
            <=> UsesModel(backend, key) /\ ~answers
=============================================================================
