------------------------------ MODULE Judging -------------------------------
(***************************************************************************)
(* What the judging queue promises to those who submit code, without its   *)
(* rows, workers and requests: a submission is executed at most once, the  *)
(* execution decides its outcome, and the board shows nothing (pending),   *)
(* that outcome, or an error put there because nobody answered in time.    *)
(* A solve is rewarded only if the outcome is success.                     *)
(***************************************************************************)
CONSTANTS Submits, Runs
Subs == Submits \cup Runs

VARIABLES
    phase,   \* of each submission's execution: queued, started, judged
    outcome, \* what the execution found ("pending" until then)
    board,   \* what the user is shown
    awarded  \* the submissions rewarded as solved

vars == <<phase, outcome, board, awarded>>

Init ==
    /\ phase = [s \in Subs |-> "queued"]
    /\ outcome = [s \in Subs |-> "pending"]
    /\ board = [s \in Subs |-> "pending"]
    /\ awarded = {}

Start(s) ==
    /\ phase[s] = "queued"
    /\ phase' = [phase EXCEPT ![s] = "started"]
    /\ UNCHANGED <<outcome, board, awarded>>

Decide(s, r) ==
    /\ phase[s] = "started"
    /\ phase' = [phase EXCEPT ![s] = "judged"]
    /\ outcome' = [outcome EXCEPT ![s] = r]
    /\ board' = [board EXCEPT ![s] = r]
    /\ UNCHANGED awarded

GiveUp(s) ==
    /\ board' = [board EXCEPT ![s] = "error"]
    /\ UNCHANGED <<phase, outcome, awarded>>

Award(s) ==
    /\ outcome[s] = "success"
    /\ awarded' = awarded \cup {s}
    /\ UNCHANGED <<phase, outcome, board>>

Next ==
    \/ \E s \in Subs : Start(s) \/ GiveUp(s)
    \/ \E s \in Subs, r \in {"success", "wrong", "error", "timeout"} :
          Decide(s, r)
    \/ \E s \in Submits : Award(s)

Spec == Init /\ [][Next]_vars
=============================================================================
