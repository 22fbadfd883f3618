-------------------------- MODULE WrongNotesProofs --------------------------
(* Proofs about WrongNotes: its type invariant and its safety properties.  *)
EXTENDS WrongNotes, TLAPS

\* The invariant holds initially.
LEMMA Initially == Init => Inv
<1> SUFFICES ASSUME Init PROVE Inv
  OBVIOUS
<1>1. TypeOK
  BY DEF Init, TypeOK
<1>2. PlaceInv /\ SerialInv
  BY PostsAssumption DEF Init, PlaceInv, SerialInv, Alone, InProgress, Working
<1>3. OneNote /\ Consistent
  BY DEF Init, OneNote, Consistent
<1>4. IndexOfNote /\ RewardsMatch
  BY DEF Init, IndexOfNote, RewardsMatch
<1>5. QED BY <1>1, <1>2, <1>3, <1>4 DEF Inv

-----------------------------------------------------------------------------
(* The steps of a post.                                                    *)

\* A post that is alone finds the one note there is.
LEMMA FindStep ==
    ASSUME Inv, NEW p \in Posts, Find(p) PROVE Inv'
<1> USE PostsAssumption
       DEF Find, noteVars, indexVars, reviewVars, Inv, TypeOK, FirstNote
<1>1. TypeOK'
  BY DEF Working
<1>2. PlaceInv'
  BY DEF PlaceInv
<1>3. SerialInv'
  <2> SUFFICES ASSUME ~overlap' PROVE Alone'
    BY DEF SerialInv
  <2>1. ~overlap /\ \A q \in Posts : ~InProgress(q)
    OBVIOUS
  <2>2. \A q \in Posts : InProgress(q)' => q = p
    BY <2>1 DEF InProgress
  <2>3. \A q \in Posts : (pc[q] \in Working)' => DoneBy(q)'
    BY <2>1, <2>2 DEF InProgress, DoneBy, PlaceInv, Working
  <2>4. \A q \in Posts : embed'[q] # "pending"
    BY <2>1 DEF InProgress
  <2>5. notes' \subseteq {newest'}
    BY <2>1 DEF SerialInv, Alone
  <2>6. QED BY <2>2, <2>3, <2>4, <2>5 DEF Alone
<1>4. OneNote' /\ Consistent'
  BY <1>3 DEF OneNote, Consistent
<1>5. IndexOfNote'
  BY DEF IndexOfNote, PlaceInv
<1>6. RewardsMatch'
  BY DEF RewardsMatch
<1>7. QED BY <1>1, <1>2, <1>3, <1>4, <1>5, <1>6

\* A post that is alone and has found no note creates the first one.
LEMMA CreateStep ==
    ASSUME Inv, NEW p \in Posts, Create(p) PROVE Inv'
<1> USE PostsAssumption
       DEF Create, noteVars, indexVars, reviewVars, Inv, TypeOK
<1>1. TypeOK'
  OBVIOUS
<1>2. PlaceInv'
  BY DEF PlaceInv
<1>3. SerialInv'
  BY DEF SerialInv, Alone, DoneBy, InProgress
<1>4. OneNote' /\ Consistent'
  BY <1>3 DEF SerialInv, Alone, OneNote, Consistent
<1>5. IndexOfNote'
  BY DEF IndexOfNote
<1>6. RewardsMatch'
  BY DEF RewardsMatch
<1>7. QED BY <1>1, <1>2, <1>3, <1>4, <1>5, <1>6

\* An edit takes back what the note claimed.
LEMMA EditStep ==
    ASSUME Inv, NEW p \in Posts, Edit(p) PROVE Inv'
<1> USE PostsAssumption
       DEF Edit, noteVars, indexVars, reviewVars, Inv, TypeOK, EditedStatus
<1>1. TypeOK'
  BY DEF Working
<1>2. PlaceInv'
  BY DEF PlaceInv
<1>3. SerialInv'
  BY DEF SerialInv, Alone, DoneBy, InProgress
<1>4. OneNote' /\ Consistent'
  BY <1>3 DEF OneNote, Consistent
<1>5. IndexOfNote'
  BY DEF IndexOfNote
<1>6. RewardsMatch'
  BY DEF RewardsMatch
<1>7. QED BY <1>1, <1>2, <1>3, <1>4, <1>5, <1>6

\* The result saved is that of the post's own comment.
LEMMA AnalyzeStep ==
    ASSUME Inv, NEW p \in Posts, Analyze(p) PROVE Inv'
<1> USE PostsAssumption
       DEF Analyze, noteVars, indexVars, reviewVars, Inv, TypeOK
<1>1. TypeOK'
  BY DEF Working
<1>2. PlaceInv'
  BY DEF PlaceInv
<1>3. SerialInv'
  BY DEF SerialInv, Alone, DoneBy, InProgress, PlaceInv
<1>4. OneNote' /\ Consistent'
  BY <1>3 DEF SerialInv, Alone, DoneBy, OneNote, Consistent
<1>5. IndexOfNote'
  BY DEF IndexOfNote
<1>6. RewardsMatch'
  BY DEF RewardsMatch
<1>7. QED BY <1>1, <1>2, <1>3, <1>4, <1>5, <1>6

\* The note is not said to be indexed when it is sent.
LEMMA CallEmbedStep ==
    ASSUME Inv, NEW p \in Posts, CallEmbed(p) PROVE Inv'
<1> USE PostsAssumption
       DEF CallEmbed, noteVars, indexVars, reviewVars, Inv, TypeOK
<1>1. TypeOK'
  BY DEF Working
<1>2. PlaceInv'
  BY DEF PlaceInv
<1>3. SerialInv'
  BY DEF SerialInv, Alone, DoneBy, InProgress
<1>4. OneNote' /\ Consistent'
  BY <1>3 DEF OneNote, Consistent
<1>5. IndexOfNote'
  BY DEF IndexOfNote
<1>6. RewardsMatch'
  BY DEF RewardsMatch
<1>7. QED BY <1>1, <1>2, <1>3, <1>4, <1>5, <1>6

\* The AI server changes the index of a note that claims nothing about it.
LEMMA ServeEmbedStep ==
    ASSUME Inv, NEW p \in Posts, ServeEmbed(p) PROVE Inv'
<1> USE PostsAssumption
       DEF ServeEmbed, noteVars, indexVars, reviewVars, Inv, TypeOK
<1>1. TypeOK'
  <2>1. index' \in [Posts -> SUBSET Posts]
    OBVIOUS
  <2>2. undeleted' \subseteq notes'
    BY DEF PlaceInv
  <2>3. QED BY <2>1, <2>2
<1>2. PlaceInv'
  BY DEF PlaceInv
<1>3. SerialInv'
  BY DEF SerialInv, Alone, DoneBy, InProgress, PlaceInv
<1>4. OneNote' /\ Consistent'
  BY <1>3 DEF SerialInv, Alone, OneNote, Consistent
<1>5. IndexOfNote'
  BY DEF IndexOfNote
<1>6. RewardsMatch'
  BY DEF RewardsMatch
<1>7. QED BY <1>1, <1>2, <1>3, <1>4, <1>5, <1>6

\* The index has the chunks when the answer says so.
LEMMA EmbedReturnsStep ==
    ASSUME Inv, NEW p \in Posts, EmbedReturns(p) PROVE Inv'
<1> USE PostsAssumption
       DEF EmbedReturns, noteVars, indexVars, reviewVars, Inv, TypeOK
<1>1. TypeOK'
  BY DEF Working
<1>2. PlaceInv'
  BY DEF PlaceInv
<1>3. SerialInv'
  BY DEF SerialInv, Alone, DoneBy, InProgress
<1>4. OneNote' /\ Consistent'
  BY <1>3 DEF OneNote, Consistent
<1>5. IndexOfNote'
  BY DEF IndexOfNote
<1>6. RewardsMatch'
  BY DEF RewardsMatch
<1>7. QED BY <1>1, <1>2, <1>3, <1>4, <1>5, <1>6

\* A note whose call failed does not claim to be indexed.
LEMMA EmbedFailsStep ==
    ASSUME Inv, NEW p \in Posts, EmbedFails(p) PROVE Inv'
<1> USE PostsAssumption
       DEF EmbedFails, noteVars, indexVars, reviewVars, Inv, TypeOK, MayFail
<1>1. TypeOK'
  BY DEF Working
<1>2. PlaceInv'
  BY DEF PlaceInv
<1>3. SerialInv'
  BY DEF SerialInv, Alone, DoneBy, InProgress
<1>4. OneNote' /\ Consistent'
  BY <1>3 DEF SerialInv, Alone, DoneBy, OneNote, Consistent
<1>5. IndexOfNote'
  BY DEF IndexOfNote
<1>6. RewardsMatch'
  BY DEF RewardsMatch
<1>7. QED BY <1>1, <1>2, <1>3, <1>4, <1>5, <1>6

\* The vector row comes first.
LEMMA SaveVectorStep ==
    ASSUME Inv, NEW p \in Posts, SaveVector(p) PROVE Inv'
<1> USE PostsAssumption
       DEF SaveVector, noteVars, indexVars, reviewVars, Inv, TypeOK
<1>1. TypeOK'
  BY DEF Working
<1>2. PlaceInv'
  BY DEF PlaceInv
<1>3. SerialInv'
  BY DEF SerialInv, Alone, DoneBy, InProgress
<1>4. OneNote' /\ Consistent'
  BY <1>3 DEF OneNote, Consistent
<1>5. IndexOfNote'
  BY DEF IndexOfNote
<1>6. RewardsMatch'
  BY DEF RewardsMatch
<1>7. QED BY <1>1, <1>2, <1>3, <1>4, <1>5, <1>6

\* The note is said to be indexed once it is.
LEMMA MarkIndexedStep ==
    ASSUME Inv, NEW p \in Posts, MarkIndexed(p) PROVE Inv'
<1> USE PostsAssumption
       DEF MarkIndexed, noteVars, indexVars, reviewVars, Inv, TypeOK
<1>1. TypeOK'
  BY DEF Working
<1>2. PlaceInv'
  BY DEF PlaceInv
<1>3. SerialInv'
  BY DEF SerialInv, Alone, DoneBy, InProgress, PlaceInv
<1>4. OneNote' /\ Consistent'
  BY <1>3 DEF SerialInv, Alone, DoneBy, OneNote, Consistent, PlaceInv
<1>5. IndexOfNote'
  BY DEF IndexOfNote, PlaceInv
<1>6. RewardsMatch'
  BY DEF RewardsMatch
<1>7. QED BY <1>1, <1>2, <1>3, <1>4, <1>5, <1>6

\* The result is saved again.
LEMMA SaveResultStep ==
    ASSUME Inv, NEW p \in Posts, SaveResult(p) PROVE Inv'
<1> USE PostsAssumption
       DEF SaveResult, noteVars, indexVars, reviewVars, Inv, TypeOK
<1>1. TypeOK'
  BY DEF Working
<1>2. PlaceInv'
  BY DEF PlaceInv
<1>3. SerialInv'
  BY DEF SerialInv, Alone, DoneBy, InProgress
<1>4. OneNote' /\ Consistent'
  BY <1>3 DEF SerialInv, Alone, DoneBy, OneNote, Consistent
<1>5. IndexOfNote'
  BY DEF IndexOfNote
<1>6. RewardsMatch'
  BY DEF RewardsMatch
<1>7. QED BY <1>1, <1>2, <1>3, <1>4, <1>5, <1>6

\* A note that is rewarded has an analysis.
LEMMA AwardStep ==
    ASSUME Inv, NEW p \in Posts, Award(p) PROVE Inv'
<1> USE PostsAssumption
       DEF Award, noteVars, indexVars, reviewVars, Inv, TypeOK, PaidFor
<1>1. TypeOK'
  BY DEF PlaceInv
<1>2. PlaceInv'
  BY DEF PlaceInv
<1>3. SerialInv'
  BY DEF SerialInv, Alone, DoneBy, InProgress
<1>4. OneNote' /\ Consistent'
  BY <1>3 DEF OneNote, Consistent
<1>5. IndexOfNote'
  BY DEF IndexOfNote
<1>6. RewardsMatch'
  BY DEF RewardsMatch, PlaceInv
<1>7. QED BY <1>1, <1>2, <1>3, <1>4, <1>5, <1>6

\* A death leaves the note as it is.
LEMMA DieStep ==
    ASSUME Inv, NEW p \in Posts, Die(p) PROVE Inv'
<1> USE PostsAssumption DEF Die, noteVars, indexVars, reviewVars, Inv, TypeOK
<1>1. TypeOK'
  OBVIOUS
<1>2. PlaceInv'
  BY DEF PlaceInv, Working
<1>3. SerialInv'
  BY DEF SerialInv, Alone, InProgress, Working
<1>4. OneNote' /\ Consistent'
  BY <1>3 DEF OneNote, Consistent
<1>5. IndexOfNote'
  BY DEF IndexOfNote
<1>6. RewardsMatch'
  BY DEF RewardsMatch
<1>7. QED BY <1>1, <1>2, <1>3, <1>4, <1>5, <1>6

-----------------------------------------------------------------------------
(* The steps of a review.                                                  *)

\* A review loads a note that exists.
LEMMA LoadNoteStep ==
    ASSUME Inv, NEW r \in Reviews, LoadNote(r) PROVE Inv'
<1> USE PostsAssumption
       DEF LoadNote, noteVars, indexVars, reviewVars, Inv, TypeOK
<1>1. TypeOK'
  OBVIOUS
<1>2. PlaceInv'
  BY DEF PlaceInv
<1>3. SerialInv'
  BY DEF SerialInv, Alone, DoneBy, InProgress
<1>4. OneNote' /\ Consistent'
  BY <1>3 DEF OneNote, Consistent
<1>5. IndexOfNote'
  BY DEF IndexOfNote
<1>6. RewardsMatch'
  BY DEF RewardsMatch
<1>7. QED BY <1>1, <1>2, <1>3, <1>4, <1>5, <1>6

\* The note is reviewed before its reward.
LEMMA SaveReviewedStep ==
    ASSUME Inv, NEW r \in Reviews, SaveReviewed(r) PROVE Inv'
<1> USE PostsAssumption
       DEF SaveReviewed, noteVars, indexVars, reviewVars, Inv, TypeOK
<1>1. TypeOK'
  OBVIOUS
<1>2. PlaceInv'
  BY DEF PlaceInv
<1>3. SerialInv'
  BY DEF SerialInv, Alone, DoneBy, InProgress
<1>4. OneNote' /\ Consistent'
  BY <1>3 DEF OneNote, Consistent
<1>5. IndexOfNote'
  BY DEF IndexOfNote
<1>6. RewardsMatch'
  BY DEF RewardsMatch
<1>7. QED BY <1>1, <1>2, <1>3, <1>4, <1>5, <1>6

\* The reward follows.
LEMMA AwardReviewStep ==
    ASSUME Inv, NEW r \in Reviews, AwardReview(r) PROVE Inv'
<1> USE PostsAssumption
       DEF AwardReview, noteVars, indexVars, reviewVars, Inv, TypeOK, MayAward
<1>1. TypeOK'
  BY DEF PlaceInv
<1>2. PlaceInv'
  BY DEF PlaceInv
<1>3. SerialInv'
  BY DEF SerialInv, Alone, DoneBy, InProgress
<1>4. OneNote' /\ Consistent'
  BY <1>3 DEF OneNote, Consistent
<1>5. IndexOfNote'
  BY DEF IndexOfNote
<1>6. RewardsMatch'
  BY DEF RewardsMatch, PlaceInv
<1>7. QED BY <1>1, <1>2, <1>3, <1>4, <1>5, <1>6

\* A review that dies leaves its note unpaid.
LEMMA DieReviewStep ==
    ASSUME Inv, NEW r \in Reviews, DieReview(r) PROVE Inv'
<1> USE PostsAssumption
       DEF DieReview, noteVars, indexVars, reviewVars, Inv, TypeOK
<1>1. TypeOK'
  OBVIOUS
<1>2. PlaceInv'
  BY DEF PlaceInv
<1>3. SerialInv'
  BY DEF SerialInv, Alone, DoneBy, InProgress
<1>4. OneNote' /\ Consistent'
  BY <1>3 DEF OneNote, Consistent
<1>5. IndexOfNote'
  BY DEF IndexOfNote
<1>6. RewardsMatch'
  BY DEF RewardsMatch
<1>7. QED BY <1>1, <1>2, <1>3, <1>4, <1>5, <1>6

-----------------------------------------------------------------------------
(* The theorems.                                                           *)

\* The invariant is inductive.
LEMMA InductiveStep == Inv /\ [Next]_vars => Inv'
<1> SUFFICES ASSUME Inv, [Next]_vars PROVE Inv'
  OBVIOUS
<1>1. CASE UNCHANGED vars
  BY <1>1
     DEF vars, noteVars, indexVars, reviewVars, Inv, TypeOK, PlaceInv,
         SerialInv, Alone, DoneBy, InProgress, OneNote, Consistent,
         IndexOfNote, RewardsMatch
<1>2. ASSUME NEW p \in Posts, RunPost(p) \/ ServeEmbed(p) \/ Die(p)
      PROVE  Inv'
  BY <1>2, FindStep, CreateStep, EditStep, AnalyzeStep, CallEmbedStep,
     ServeEmbedStep, EmbedReturnsStep, EmbedFailsStep, SaveVectorStep,
     MarkIndexedStep, SaveResultStep, AwardStep, DieStep
     DEF RunPost
<1>3. ASSUME NEW r \in Reviews, Review(r) \/ DieReview(r)
      PROVE  Inv'
  BY <1>3, LoadNoteStep, SaveReviewedStep, AwardReviewStep, DieReviewStep
     DEF Review
<1>4. QED BY <1>1, <1>2, <1>3 DEF Next

\* The invariant that the properties below are read from.
THEOREM Invariance == Spec => []Inv
BY Initially, InductiveStep, PTL DEF Spec

\* The variables keep their types for any posts and reviews: what is edited,
\* rewarded or reviewed is a note that exists.
THEOREM TypeCorrect == Spec => []TypeOK
BY Invariance, PTL DEF Inv

\* Posts that do not overlap write one note.
THEOREM NotesAreOne == Spec => []OneNote
BY Invariance, PTL DEF Inv

\* Posts that do not overlap leave a note that claims no more than is true:
\* its analysis is that of its comment, the chunks of the comment are in the
\* index, and no others unless the AI server failed to delete them.
THEOREM NoteIsConsistent == Spec => []Consistent
BY Invariance, PTL DEF Inv

\* An indexed note has a vector row, and the chunks of a note come from posts
\* that edit it, whatever posts overlap.
THEOREM IndexBelongsToNote == Spec => []IndexOfNote
BY Invariance, PTL DEF Inv

\* Notes and reviews are rewarded for work that is saved, and a reward is
\* missing only after a death.
THEOREM RewardsMatchWork == Spec => []RewardsMatch
BY Invariance, PTL DEF Inv
=============================================================================
