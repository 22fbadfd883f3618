----------------------------- MODULE NoteSearch -----------------------------
(***************************************************************************)
(* What the index of wrong notes is built from and how it is searched      *)
(* (fastapi_app/services/chroma.py): texts are packed into short chunks,   *)
(* and the chunks a query meets are reduced to a ranking of notes.         *)
(*                                                                         *)
(* A text is the sequence of its sentences, a sentence a sequence of       *)
(* characters that neither begins nor ends with a blank.  Distances,       *)
(* similarities and weights are whole multiples of a small unit.           *)
(***************************************************************************)
EXTENDS Integers, SequencesExt

CONSTANTS
    Blank,          \* the character chunk_text joins sentences with
    ChunkMax,       \* RAG_CHUNK_MAX_CHARS
    PerQuery,       \* RAG_PER_QUERY_K
    TopK,           \* RAG_TOP_K
    Unit,           \* the similarity 1.0
    Threshold,      \* RAG_SCORE_THRESHOLD
    WMean, WMax     \* RAG_W_MEAN and RAG_W_MAX

ASSUME SearchIsConfigured ==
    /\ {ChunkMax, TopK, Unit} \subseteq Nat \ {0}
    /\ {Threshold, WMean, WMax} \subseteq Nat
    /\ PerQuery \in Int

-----------------------------------------------------------------------------
(* Chunks.                                                                 *)

Smaller(m, n) == IF m <= n THEN m ELSE n

\* A sentence that is longer than a chunk, cut every ChunkMax characters.
Pieces(s) ==
    [i \in 1 .. (Len(s) + ChunkMax - 1) \div ChunkMax |->
        SubSeq(s, (i - 1) * ChunkMax + 1, Smaller(i * ChunkMax, Len(s)))]

\* The loop of chunk_text: finished chunks, and the one being filled.
Flushed(p) ==
    IF p.current = <<>> THEN p.chunks ELSE Append(p.chunks, p.current)

Packed(p, s) ==
    IF Len(s) > ChunkMax
    THEN [chunks |-> Flushed(p) \o Pieces(s), current |-> <<>>]
    ELSE IF Len(p.current) + Len(s) + 1 <= ChunkMax
    THEN [p EXCEPT !.current = IF @ = <<>> THEN s ELSE @ \o <<Blank>> \o s]
    ELSE [chunks |-> Flushed(p), current |-> s]

PackedUpTo(text) ==
    LET p[i \in 0 .. Len(text)] ==
          IF i = 0 THEN [chunks |-> <<>>, current |-> <<>>]
          ELSE Packed(p[i - 1], text[i])
    IN  p
chunk_text(text) == Flushed(PackedUpTo(text)[Len(text)])

\* The topic: the category and the tags of the problem, if there are any.
build_topic_text(category, tags) == category \o tags

\* The chunks of a note: its topic, then section by section.
build_note_chunks(sections, topic) ==
    LET Of(name, texts) ==
          [i \in DOMAIN texts |-> [section |-> name, text |-> texts[i]]]
    IN  (IF topic = <<>> THEN <<>> ELSE Of("topic", <<topic>>))
          \o FlattenSeq([i \in DOMAIN sections |->
                           Of(sections[i].name, chunk_text(sections[i].text))])

\* What a text says: its sentences, or chunks, without blanks.
Letters(s) ==
    FlattenSeq([i \in DOMAIN s |-> IF s[i] = Blank THEN <<>> ELSE <<s[i]>>])
AllLetters(text) == FlattenSeq([i \in DOMAIN text |-> Letters(text[i])])

-----------------------------------------------------------------------------
(* Embeddings.                                                             *)

\* _use_openai, for a configured backend and with or without a key.
UsesModel(backend, key) == backend # "hash" /\ key

\* The kind of vectors of the collection, and of a text while the model
\* answers or not: embed_text falls back to hashed vectors.
Collection(backend, key) == IF UsesModel(backend, key) THEN "model" ELSE "hash"
Embedding(backend, key, answers) ==
    IF UsesModel(backend, key) /\ answers THEN "model" ELSE "hash"

-----------------------------------------------------------------------------
(* Search.  A hit is a stored chunk a query chunk met: its owner, note,    *)
(* section and distance.                                                   *)

\* What collection.query may return: the nearest of the user's chunks.
Nearest(stored, user) ==
    LET own == {h \in stored : h.user = user}
        k   == IF PerQuery < 1 THEN 1 ELSE PerQuery
    IN  {H \in SUBSET own :
            /\ Cardinality(H) = Smaller(k, Cardinality(own))
            /\ \A h \in H, g \in own \ H : h.distance <= g.distance}

Similarity(h) == IF h.distance >= Unit THEN 0 ELSE Unit - h.distance

\* The best similarity of each section of a note; a section without any is
\* not recorded.
SectionSims(hits, n) ==
    LET met == {h \in hits : h.note = n /\ Similarity(h) > 0}
    IN  [s \in {h.section : h \in met} |->
            Max({Similarity(h) : h \in {g \in met : g.section = s}})]

\* The score as a fraction: the weighted mean of mean and maximum.
aggregate_section_sims(sims) ==
    LET n == Cardinality(DOMAIN sims)
        w == WMean + WMax
    IN  IF n = 0 THEN [num |-> 0, den |-> 1]
        ELSE [num |-> WMean * FoldFunction(+, 0, sims) + WMax * n * Max(Range(sims)),
              den |-> n * (IF w = 0 THEN 1 ELSE w)]

AtLeast(a, b) == a.num * b.den >= b.num * a.den

Met(hits, excluded) == {h \in hits : h.note # excluded}
Score(met, n) == aggregate_section_sims(SectionSims(met, n))
Kept(met) == {n \in {h.note : h \in met} :
                AtLeast(Score(met, n), [num |-> Threshold, den |-> 1])}
Limit(top_k) == IF top_k = 0 THEN TopK ELSE IF top_k < 1 THEN 1 ELSE top_k

\* The notes over the threshold, best first; equal scores in any order.
Rankings(met) ==
    {r \in Bijection(1 .. Cardinality(Kept(met)), Kept(met)) :
        \A i, j \in DOMAIN r : i < j => AtLeast(Score(met, r[i]), Score(met, r[j]))}

\* The lists a search may answer with: a ranking cut after top_k notes.
search_notes(hits, top_k, excluded) ==
    LET met == Met(hits, excluded)
        k   == Smaller(Limit(top_k), Cardinality(Kept(met)))
    IN  {[i \in 1 .. k |-> r[i]] : r \in Rankings(met)}
=============================================================================
