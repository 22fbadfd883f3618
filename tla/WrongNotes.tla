----------------------------- MODULE WrongNotes -----------------------------
(***************************************************************************)
(* The wrong notes a user writes about one failed submission: posts of the *)
(* form (WrongNoteCreateView.post, django/wrongnotes/views.py), the calls  *)
(* they make to the AI server (django/wrongnotes/services.py through       *)
(* django/ai_proxy/client.py), the index that server keeps                 *)
(* (fastapi_app/services/chroma.py), and the reviews of the notes.         *)
(*                                                                         *)
(* A post is sent once; sending the form again is another post.  Every     *)
(* post has a text of its own, so a comment, an analysis and the chunks in *)
(* the index are named by the post they come from, and a note by the post  *)
(* that created it.  Posts for different submissions share no note.        *)
(***************************************************************************)

CONSTANTS
    Posts,    \* posts of the form of the submission
    Reviews,  \* requests that mark one of its notes as reviewed
    NoPost

ASSUME PostsAssumption == NoPost \notin Posts

VARIABLES
    notes,    \* the notes of the submission
    newest,   \* the one with the highest id
    comment,  \* the post whose comment a note holds
    analysis, \* the post whose AI result it holds
    status,   \* WrongNote.status
    vector,   \* the note has a WrongNoteVector row
    index,    \* the posts that chunks of the note in the index come from
    paid,     \* notes that have been rewarded with wrongnote_completed
    pc,       \* where each post is
    note,     \* the note it works on
    embed,    \* its embed request, as the AI server sees it
    reviewed, \* WrongNote.is_reviewed
    reviewPaid, \* notes that have been rewarded with review_completed
    rpc, rnote, \* where each review is, and the note it is about
    overlap,  \* history: a post began while another one was in progress
    undeleted \* history: notes whose old chunks were last not deleted

noteVars == <<notes, newest, comment, analysis, status, vector>>
indexVars == <<index, undeleted>>
reviewVars == <<reviewed, reviewPaid, rpc, rnote>>
vars == <<noteVars, indexVars, paid, pc, note, embed, reviewVars, overlap>>

\* The places of a post between its first statement and its reply.
Working == {"found", "saved", "analyzed", "embedding", "embedded",
            "vectored", "marked", "rewarding"}

TypeOK ==
    /\ notes \subseteq Posts
    /\ newest \in notes \cup {NoPost}
    /\ comment \in [Posts -> Posts \cup {NoPost}]
    /\ analysis \in [Posts -> Posts \cup {NoPost}]
    /\ status \in [Posts -> {"none", "completed", "indexed", "index_failed"}]
    /\ vector \in [Posts -> BOOLEAN]
    /\ index \in [Posts -> SUBSET Posts]
    /\ paid \subseteq notes
    /\ pc \in [Posts -> Working \cup {"new", "done", "dead"}]
    /\ note \in [Posts -> notes \cup {NoPost}]
    /\ embed \in [Posts -> {"none", "pending", "done", "failed"}]
    /\ reviewed \in [Posts -> BOOLEAN]
    /\ reviewPaid \subseteq notes
    /\ rpc \in [Reviews -> {"new", "loaded", "saved", "done", "dead"}]
    /\ rnote \in [Reviews -> notes \cup {NoPost}]
    /\ overlap \in BOOLEAN
    /\ undeleted \subseteq notes

Init ==
    /\ notes = {} /\ newest = NoPost
    /\ comment = [n \in Posts |-> NoPost]
    /\ analysis = [n \in Posts |-> NoPost]
    /\ status = [n \in Posts |-> "none"]
    /\ vector = [n \in Posts |-> FALSE]
    /\ index = [n \in Posts |-> {}]
    /\ paid = {}
    /\ pc = [p \in Posts |-> "new"]
    /\ note = [p \in Posts |-> NoPost]
    /\ embed = [p \in Posts |-> "none"]
    /\ reviewed = [n \in Posts |-> FALSE]
    /\ reviewPaid = {}
    /\ rpc = [r \in Reviews |-> "new"]
    /\ rnote = [r \in Reviews |-> NoPost]
    /\ overlap = FALSE
    /\ undeleted = {}

-----------------------------------------------------------------------------
(* The post, until the note holds its AI result.                           *)

\* A post is in progress until it has replied or died and its request to the
\* AI server is answered there.
InProgress(p) == pc[p] \in Working \/ embed[p] = "pending"

\* Mutant: a post always creates a note.
NoneFound == NoPost

\* filter(user, submission).order_by("-id").first()
FirstNote == newest

\* The submission is a failed final one and the comment is not empty; other
\* posts are answered with 400 and change nothing.
Find(p) ==
    /\ pc[p] = "new"
    /\ note' = [note EXCEPT ![p] = FirstNote]
    /\ pc' = [pc EXCEPT ![p] = "found"]
    /\ overlap' = (overlap \/ \E q \in Posts : InProgress(q))
    /\ UNCHANGED <<noteVars, indexVars, paid, embed, reviewVars>>

Create(p) ==
    /\ pc[p] = "found"
    /\ note[p] = NoPost
    /\ notes' = notes \cup {p}
    /\ newest' = p
    /\ comment' = [comment EXCEPT ![p] = p]
    /\ status' = [status EXCEPT ![p] = "completed"]
    /\ note' = [note EXCEPT ![p] = p]
    /\ UNCHANGED <<analysis, vector, indexVars, paid, pc, embed, reviewVars,
                   overlap>>

\* Mutant: the edit keeps the status of the note.
KeptStatus(n) == status[n]
EditedStatus(n) == "completed"

\* The note found or created is saved with the comment.  Its tags are those
\* of the problem, always.
Edit(p) ==
    /\ pc[p] = "found"
    /\ note[p] # NoPost
    /\ comment' = [comment EXCEPT ![note[p]] = p]
    /\ status' = [status EXCEPT ![note[p]] = EditedStatus(note[p])]
    /\ pc' = [pc EXCEPT ![p] = "saved"]
    /\ UNCHANGED <<notes, newest, analysis, vector, indexVars, paid, note,
                   embed, reviewVars, overlap>>

\* analyze_wrong_note searches similar notes and has the note analysed; a
\* call that fails only leaves its error in the result, which is saved.
Analyze(p) ==
    /\ pc[p] = "saved"
    /\ analysis' = [analysis EXCEPT ![note[p]] = p]
    /\ pc' = [pc EXCEPT ![p] = "analyzed"]
    /\ UNCHANGED <<notes, newest, comment, status, vector, indexVars, paid,
                   note, embed, reviewVars, overlap>>

-----------------------------------------------------------------------------
(* embed_wrong_note, and the AI server.                                    *)

\* The sections sent are those of the post's own copy of the note.
CallEmbed(p) ==
    /\ pc[p] = "analyzed"
    /\ embed' = [embed EXCEPT ![p] = "pending"]
    /\ pc' = [pc EXCEPT ![p] = "embedding"]
    /\ UNCHANGED <<noteVars, indexVars, paid, note, reviewVars, overlap>>

\* embed_note_chunked deletes the chunks of the note and stores the new
\* ones; a deletion that fails is swallowed, and then the old chunks whose
\* ids are not those of new ones stay.  The handler never awaits and the
\* server is one process, so other handlers do not see the steps in between;
\* but it may fail before or after the deletion, or the request gets lost.
\* The client may be long gone.
ServeEmbed(p) ==
    /\ embed[p] = "pending"
    /\ \/ /\ embed' = [embed EXCEPT ![p] = "done"]
          /\ \/ /\ index' = [index EXCEPT ![note[p]] = {p}]
                /\ undeleted' = undeleted \ {note[p]}
             \/ /\ \E old \in SUBSET index[note[p]] :
                      index' = [index EXCEPT ![note[p]] = old \cup {p}]
                /\ undeleted' = undeleted \cup {note[p]}
       \/ /\ embed' = [embed EXCEPT ![p] = "failed"]
          /\ index' \in {index, [index EXCEPT ![note[p]] = {}]}
          /\ UNCHANGED undeleted
    /\ UNCHANGED <<noteVars, paid, pc, note, reviewVars, overlap>>

EmbedReturns(p) ==
    /\ pc[p] = "embedding"
    /\ embed[p] = "done"
    /\ pc' = [pc EXCEPT ![p] = "embedded"]
    /\ UNCHANGED <<noteVars, indexVars, paid, note, embed, reviewVars,
                   overlap>>

\* Mutant: the call has no time limit.
HasAnswer(p) == embed[p] \in {"done", "failed"}

\* An error is answered, the call times out, or the answer is not read.
MayFail(p) == TRUE

\* FastAPIClientError: the error joins the result and the note is marked.
EmbedFails(p) ==
    /\ pc[p] = "embedding"
    /\ MayFail(p)
    /\ analysis' = [analysis EXCEPT ![note[p]] = p]
    /\ status' = [status EXCEPT ![note[p]] = "index_failed"]
    /\ pc' = [pc EXCEPT ![p] = "rewarding"]
    /\ UNCHANGED <<notes, newest, comment, vector, indexVars, paid, note,
                   embed, reviewVars, overlap>>

\* Mutant: the vector row is forgotten.
SkipVector(p) ==
    /\ pc[p] = "embedded"
    /\ pc' = [pc EXCEPT ![p] = "vectored"]
    /\ UNCHANGED <<noteVars, indexVars, paid, note, embed, reviewVars,
                   overlap>>

\* WrongNoteVector.update_or_create
SaveVector(p) ==
    /\ pc[p] = "embedded"
    /\ vector' = [vector EXCEPT ![note[p]] = TRUE]
    /\ pc' = [pc EXCEPT ![p] = "vectored"]
    /\ UNCHANGED <<notes, newest, comment, analysis, status, indexVars, paid,
                   note, embed, reviewVars, overlap>>

MarkIndexed(p) ==
    /\ pc[p] = "vectored"
    /\ status' = [status EXCEPT ![note[p]] = "indexed"]
    /\ pc' = [pc EXCEPT ![p] = "marked"]
    /\ UNCHANGED <<notes, newest, comment, analysis, vector, indexVars, paid,
                   note, embed, reviewVars, overlap>>

\* The result is saved again with what the index answered.
SaveResult(p) ==
    /\ pc[p] = "marked"
    /\ analysis' = [analysis EXCEPT ![note[p]] = p]
    /\ pc' = [pc EXCEPT ![p] = "rewarding"]
    /\ UNCHANGED <<notes, newest, comment, status, vector, indexVars, paid,
                   note, embed, reviewVars, overlap>>

\* Mutant: the reward is identified by the request.
PaidPerPost(p) == p
PaidFor(p) == note[p]

\* record_user_action (module Rewards) pays a note once.
Award(p) ==
    /\ pc[p] = "rewarding"
    /\ paid' = paid \cup {PaidFor(p)}
    /\ pc' = [pc EXCEPT ![p] = "done"]
    /\ UNCHANGED <<noteVars, indexVars, note, embed, reviewVars, overlap>>

\* The process dies, or an exception escapes that is no FastAPIClientError.
Die(p) ==
    /\ pc[p] \in Working
    /\ pc' = [pc EXCEPT ![p] = "dead"]
    /\ UNCHANGED <<noteVars, indexVars, paid, note, embed, reviewVars,
                   overlap>>

-----------------------------------------------------------------------------
(* review_wrong_note.                                                      *)

\* A note that is reviewed already is answered without a reward.
LoadNote(r) ==
    /\ rpc[r] = "new"
    /\ \E n \in notes :
         /\ rnote' = [rnote EXCEPT ![r] = n]
         /\ rpc' = [rpc EXCEPT ![r] = IF reviewed[n] THEN "done" ELSE "loaded"]
    /\ UNCHANGED <<noteVars, indexVars, paid, pc, note, embed, reviewed,
                   reviewPaid, overlap>>

SaveReviewed(r) ==
    /\ rpc[r] = "loaded"
    /\ reviewed' = [reviewed EXCEPT ![rnote[r]] = TRUE]
    /\ rpc' = [rpc EXCEPT ![r] = "saved"]
    /\ UNCHANGED <<noteVars, indexVars, paid, pc, note, embed, reviewPaid,
                   rnote, overlap>>

\* Mutant: the reward is paid before the note is saved.
AwardLoaded(r) == rpc[r] \in {"loaded", "saved"}
MayAward(r) == rpc[r] = "saved"

AwardReview(r) ==
    /\ MayAward(r)
    /\ reviewPaid' = reviewPaid \cup {rnote[r]}
    /\ rpc' = [rpc EXCEPT ![r] = "done"]
    /\ UNCHANGED <<noteVars, indexVars, paid, pc, note, embed, reviewed, rnote,
                   overlap>>

DieReview(r) ==
    /\ rpc[r] \in {"loaded", "saved"}
    /\ rpc' = [rpc EXCEPT ![r] = "dead"]
    /\ UNCHANGED <<noteVars, indexVars, paid, pc, note, embed, reviewed,
                   reviewPaid, rnote, overlap>>

-----------------------------------------------------------------------------
RunPost(p) ==
    \/ Find(p) \/ Create(p) \/ Edit(p) \/ Analyze(p) \/ CallEmbed(p)
    \/ EmbedReturns(p) \/ EmbedFails(p) \/ SaveVector(p) \/ MarkIndexed(p)
    \/ SaveResult(p) \/ Award(p)

Review(r) == LoadNote(r) \/ SaveReviewed(r) \/ AwardReview(r)

Next ==
    \/ \E p \in Posts : RunPost(p) \/ ServeEmbed(p) \/ Die(p)
    \/ \E r \in Reviews : Review(r) \/ DieReview(r)

Spec == Init /\ [][Next]_vars

\* A request that lives goes on; the calls it makes have a time limit.  The
\* AI server need not answer.
PostFairness == \A p \in Posts : WF_vars(RunPost(p))

-----------------------------------------------------------------------------
(* Safety.                                                                 *)

\* Posts one after the other write one note, whichever of them die on the
\* way.
OneNote == ~overlap => \A m, n \in notes : m = n

\* If no two posts are in progress at a time, a note that is said to be
\* indexed, or not to be, has the analysis of its own comment.  If it is said
\* to be indexed the index has the chunks of that comment, and no others
\* unless the AI server could not delete the old ones and went on: neither a
\* time limit nor a death on the way leaves a note that claims too much.
Consistent ==
    ~overlap => \A n \in notes :
        /\ status[n] \in {"indexed", "index_failed"}
              => analysis[n] = comment[n]
        /\ status[n] = "indexed" =>
              /\ comment[n] \in index[n]
              /\ n \in undeleted \/ index[n] = {comment[n]}

\* Whatever posts overlap, a note that is said to be indexed has its vector
\* row, and the chunks of a note come from posts that edit this note.
IndexOfNote ==
    \A n \in Posts :
        /\ status[n] = "indexed" => vector[n]
        /\ \A p \in index[n] : note[p] = n

\* A post that ends has been rewarded, for a note with an analysis.  A
\* review is rewarded only if the note says so, and the reward is missing
\* only while a review is about to award it or after one has died there.
RewardsMatch ==
    /\ \A p \in Posts : pc[p] = "done" => note[p] \in paid
    /\ \A n \in paid : analysis[n] # NoPost
    /\ \A n \in reviewPaid : reviewed[n]
    /\ \A n \in Posts : reviewed[n] /\ n \notin reviewPaid =>
          \E r \in Reviews : rnote[r] = n /\ rpc[r] \in {"saved", "dead"}

-----------------------------------------------------------------------------
(* The inductive invariant behind the safety properties.                   *)

\* What the place of a post or of a review says.
PlaceInv ==
    /\ \A p \in Posts :
         /\ pc[p] = "new" => note[p] = NoPost /\ embed[p] = "none"
         /\ pc[p] \in Working \ {"found"} => note[p] # NoPost
         /\ pc[p] \in {"found", "saved", "analyzed"} => embed[p] = "none"
         /\ pc[p] \in {"embedded", "vectored", "marked"} => embed[p] = "done"
         /\ embed[p] # "none" => note[p] # NoPost
         /\ pc[p] \in Working \ {"found", "saved"}
               => analysis[note[p]] # NoPost
         /\ pc[p] \in {"vectored", "marked"} => vector[note[p]]
    /\ \A r \in Reviews :
         /\ rpc[r] \in {"loaded", "saved"} => rnote[r] # NoPost
         /\ rpc[r] = "saved" => reviewed[rnote[r]]

\* What a post that is alone has done to its note.
DoneBy(p) ==
    /\ note[p] = newest
    /\ pc[p] # "found" => comment[note[p]] = p
    /\ pc[p] \in {"saved", "analyzed", "embedding", "embedded", "vectored"}
          => status[note[p]] = "completed"
    /\ pc[p] \in Working \ {"found", "saved"} => analysis[note[p]] = p
    /\ pc[p] \in {"embedding", "embedded", "vectored", "marked"}
          /\ embed[p] = "done" =>
             /\ p \in index[note[p]]
             /\ note[p] \in undeleted \/ index[note[p]] = {p}

\* The one note is that of the post in progress, and no request that may
\* still change the index finds its note indexed.
Alone ==
    /\ notes \subseteq {newest}
    /\ \A p, q \in Posts : InProgress(p) /\ InProgress(q) => p = q
    /\ \A p \in Posts : pc[p] \in Working => DoneBy(p)
    /\ \A p \in Posts : embed[p] = "pending" => status[note[p]] # "indexed"

SerialInv == ~overlap => Alone

Inv ==
    /\ TypeOK
    /\ PlaceInv
    /\ SerialInv
    /\ OneNote
    /\ Consistent
    /\ IndexOfNote
    /\ RewardsMatch

-----------------------------------------------------------------------------
(* Liveness.                                                               *)

\* A post that does not die ends, whatever the AI server does.
PostsEnd ==
    PostFairness =>
        \A p \in Posts : pc[p] = "found" ~> pc[p] \in {"done", "dead"}

-----------------------------------------------------------------------------
(* What the documentation says and the code does not do.                   *)

\* FR-WN-001: there is one note per submission.
NoteIsUnique == \A m, n \in notes : m = n
=============================================================================
