------------------------------ MODULE AIProxy -------------------------------
(***************************************************************************)
(* A call of the AI server and the rows that record it: call_fastapi in    *)
(* django/ai_proxy/client.py, the FastAPI handlers that answer it          *)
(* (fastapi_app/routers), and the pages that pass the answer on            *)
(* (django/ai_proxy/views.py, django/adminpanel/views.py).                 *)
(*                                                                         *)
(* The module has the steps of one call; the module that extends it says   *)
(* who calls, and what becomes of the answer.  A caller makes one call at  *)
(* a time.  The call may end at any of its places by an exception no       *)
(* clause names: the connection is reset while the answer is awaited, the  *)
(* time limit passes while the body of an HTTP error is read, a row cannot *)
(* be written.  `log` and `errors` are about the call in progress or, for  *)
(* a caller that ends with it, the last one.                               *)
(***************************************************************************)
EXTENDS Naturals

CONSTANT Callers

VARIABLES
    call,   \* where the call of each caller is
    reply,  \* what came back
    log,    \* status of its LLMRequestLog row
    errors  \* its ErrorLog rows

callVars == <<call, reply, log, errors>>

-----------------------------------------------------------------------------
(* What the AI server answers.                                             *)

\* The AI functions that are called: request_type, path.
Kinds == {"hint", "tutor", "search", "analyze", "embed", "summarize",
          "generate", "lab"}

\* What the language model or the vector database gives the handler: a text
\* (or results), nothing, a text that contains "[stub]", an exception.
Completions == {"text", "blank", "stub", "error"}

\* A service function returns what it was given or raises an exception of its
\* own.  Test cases that are missing a program are an error as well; nothing
\* catches what the vector database raises.
CallModel(c) == IF c = "error" THEN "raised" ELSE c
GenerateHint(c)  == CallModel(c)
AnalyzeNote(c)   == CallModel(c)
AskTutor(c)      == CallModel(c)
Summarize(c)     == CallModel(c)
RunNode(c)       == CallModel(c)
GenerateCases(c) == IF c = "blank" THEN "raised" ELSE CallModel(c)
CallIndex(c)     == IF c = "error" THEN "crashed" ELSE c

\* The handlers do not treat a blank answer and an exception alike.  A reply
\* is "ok", "hollow" (status success without content), "stub" (success with
\* a "[stub]" in it), "empty", "refused" (status failed), or none of these:
\* "broken" (an HTTP error, an unreadable or missing answer) or "late".
Answer(out) ==
    CASE out = "raised" -> "refused" [] out = "crashed" -> "broken"
      [] out = "blank" -> "hollow" [] out = "stub" -> "stub" [] OTHER -> "ok"

EmptyIfBlank(out) == IF out = "blank" THEN "empty" ELSE Answer(out)

HintReply(c)      == Answer(GenerateHint(c))
AnalyzeReply(c)   == Answer(AnalyzeNote(c))
SummarizeReply(c) == Answer(Summarize(c))
LabReply(c)       == Answer(RunNode(c))
GenerateReply(c)  == Answer(GenerateCases(c))
TutorReply(c)     == EmptyIfBlank(AskTutor(c))
SearchReply(c)    == EmptyIfBlank(CallIndex(c))
EmbedReply(c) ==
    IF c = "blank" THEN "ok"  \* no chunk, and success all the same
                   ELSE Answer(CallIndex(c))

HandlerReply(kind, c) ==
    CASE kind = "hint" -> HintReply(c)
      [] kind = "tutor" -> TutorReply(c)
      [] kind = "search" -> SearchReply(c)
      [] kind = "analyze" -> AnalyzeReply(c)
      [] kind = "embed" -> EmbedReply(c)
      [] kind = "summarize" -> SummarizeReply(c)
      [] kind = "generate" -> GenerateReply(c)
      [] kind = "lab" -> LabReply(c)

Exceptions == {"broken", "late"}
Replies == {"ok", "hollow", "stub", "empty", "refused"} \cup Exceptions

\* verify_internal and the check of the payload come before any handler.
PossibleReplies(kind) ==
    {HandlerReply(kind, c) : c \in Completions} \cup Exceptions

-----------------------------------------------------------------------------
(* The call.                                                               *)

\* AIProxyResult.status; a stub counts as not implemented.
StatusOf(r) ==
    CASE r = "late" -> "timeout" [] r = "empty" -> "empty"
      [] r \in {"ok", "hollow"} -> "success" [] OTHER -> "failed"

Answered(r) == StatusOf(r) \in {"success", "empty"}

\* The error row of an exception is written in its handler, before the log
\* is completed; that of a failed answer afterwards.
LogsFirst(r) == r \in Exceptions

\* Mutant: error_logged is not looked at.
LogsAnyFailure(r) == ~Answered(r)
LogsLast(r) == ~Answered(r) /\ ~LogsFirst(r)

InCall == {"sent", "failing", "received", "completed"}
CallPlaces == InCall \cup {"idle", "returned"}

CallTypeOK ==
    /\ call \in [Callers -> CallPlaces]
    /\ reply \in [Callers -> Replies \cup {"none"}]
    /\ log \in [Callers -> {"none", "processing", "success", "empty",
                            "failed", "timeout"}]
    /\ errors \in [Callers -> 0..1]

CallInit ==
    /\ call = [p \in Callers |-> "idle"]
    /\ reply = [p \in Callers |-> "none"]
    /\ log = [p \in Callers |-> "none"]
    /\ errors = [p \in Callers |-> 0]

Goto(p, place) == call' = [call EXCEPT ![p] = place]

\* LLMRequestLog.objects.create, and the request is sent.
Send(p) ==
    /\ call[p] = "idle"
    /\ log' = [log EXCEPT ![p] = "processing"]
    /\ errors' = [errors EXCEPT ![p] = 0]
    /\ reply' = [reply EXCEPT ![p] = "none"]
    /\ Goto(p, "sent")

\* urlopen returns or raises within the time limit.
Receive(p, kind) ==
    /\ call[p] = "sent"
    /\ \E r \in PossibleReplies(kind) :
        /\ reply' = [reply EXCEPT ![p] = r]
        /\ Goto(p, IF LogsFirst(r) THEN "failing" ELSE "received")
    /\ UNCHANGED <<log, errors>>

\* ErrorLog.objects.create of an exception's handler.
LogException(p) ==
    /\ call[p] = "failing"
    /\ errors' = [errors EXCEPT ![p] = @ + 1]
    /\ Goto(p, "received")
    /\ UNCHANGED <<reply, log>>

\* _complete_log.
CompleteLog(p) ==
    /\ call[p] = "received"
    /\ log' = [log EXCEPT ![p] = StatusOf(reply[p])]
    /\ Goto(p, IF LogsLast(reply[p]) THEN "completed" ELSE "returned")
    /\ UNCHANGED <<reply, errors>>

\* The error row of an answer that says it failed.
LogFailure(p) ==
    /\ call[p] = "completed"
    /\ errors' = [errors EXCEPT ![p] = @ + 1]
    /\ Goto(p, "returned")
    /\ UNCHANGED <<reply, log>>

\* The caller goes on.  The rows stay in the database, but nothing writes them
\* any more, and they are followed no longer.
Forget(p) ==
    /\ Goto(p, "idle")
    /\ reply' = [reply EXCEPT ![p] = "none"]
    /\ log' = [log EXCEPT ![p] = "none"]
    /\ errors' = [errors EXCEPT ![p] = 0]

CallStep(p, kind) ==
    Receive(p, kind) \/ LogException(p) \/ CompleteLog(p) \/ LogFailure(p)

\* The rows tell the truth about a call that has returned: the log has its
\* status, and there is one error row if it failed and none otherwise.  It
\* is processing until its errors are logged, and stays so for ever if an
\* exception escapes before; a log that succeeded has no error row.
CallLogged(p) ==
    /\ call[p] = "returned" =>
        /\ log[p] = StatusOf(reply[p])
        /\ errors[p] = IF Answered(reply[p]) THEN 0 ELSE 1
    /\ call[p] \in {"sent", "failing", "received"} => log[p] = "processing"
    /\ log[p] \in {"success", "empty"} => errors[p] = 0
=============================================================================
