------------------------- MODULE ExternalCallPromise -------------------------
(***************************************************************************)
(* What the app promises the root helper about one external call: the      *)
(* status it shows only moves forward, a cleanup is silent until it is     *)
(* over, and what it then shows is the outcome of this session.            *)
(*                                                                         *)
(* The journalled session and the status it shows are two things: the app  *)
(* journals a change before it shows it, and may die in between.           *)
(***************************************************************************)
EXTENDS Naturals

CONSTANT None

VARIABLES
    stage,    \* "none", "live", "cleaning", "aborted" or "over", as journalled
    level,    \* how far the call came: the rank of its last live status
    outcome,  \* what a cleanup is to end with, and what an ended call ended with
    shown     \* the status and reason on display, None before the first one

pvars == <<stage, level, outcome, shown>>

Ladder == <<"ACK", "CALLER_HELD", "DIALING", "OPERATOR_ANSWERED", "MERGING", "CONFERENCED">>
Level == 1 .. 6

Outcomes ==
    {[status |-> "COMPLETED", reason |-> "CALLER_HANGUP"],
     [status |-> "COMPLETED", reason |-> "OPERATOR_HANGUP"],
     [status |-> "NOT_CONNECTED", reason |-> "UNANSWERED"],
     [status |-> "NOT_CONNECTED", reason |-> "ANSWER_TIMEOUT"],
     [status |-> "SYSTEM_FAILURE", reason |-> "FAILED"],
     [status |-> "SYSTEM_FAILURE", reason |-> "HELPER_CANCELLED"]}

TimedOut == [status |-> "SYSTEM_FAILURE", reason |-> "CLEANUP_TIMEOUT"]
CallerLeft == [status |-> "COMPLETED", reason |-> "CALLER_HANGUP"]

Showing(l) == [status |-> Ladder[l], reason |-> "-"]

PInit == stage = "none" /\ level = 1 /\ outcome = None /\ shown = None

\* A new session; a request that is refused is over at once.
PBegin ==
    /\ stage \in {"none", "over"}
    /\ \/ stage' = "live" /\ outcome' = None
       \/ stage' = "over" /\ outcome' = [status |-> "SYSTEM_FAILURE", reason |-> "FAILED"]
    /\ level' = 1 /\ shown' = None

PAdvance ==
    /\ stage = "live" /\ level < 6
    /\ level' = level + 1
    /\ UNCHANGED <<stage, outcome, shown>>

\* The outcome may still be replaced while the cleanup runs.
PClean ==
    /\ stage \in {"live", "cleaning"}
    /\ stage' = "cleaning"
    /\ outcome' \in Outcomes
    /\ outcome'.reason = "OPERATOR_HANGUP" => level = 6
    /\ outcome'.reason = "ANSWER_TIMEOUT" => level = 3
    /\ outcome'.status = "NOT_CONNECTED" => level < 6
    /\ UNCHANGED <<level, shown>>

\* A cleanup that finds the caller gone ends in the caller's hangup, whatever
\* it was started for.
PFinish ==
    /\ \/ stage = "cleaning" /\ outcome' \in {outcome, CallerLeft}
       \/ stage = "aborted" /\ outcome' = TimedOut
    /\ stage' = "over"
    /\ UNCHANGED <<level, shown>>

PAbort ==
    /\ stage = "cleaning"
    /\ stage' = "aborted" /\ outcome' = TimedOut
    /\ UNCHANGED <<level, shown>>

\* A live status is shown while the call is live or being cleaned up; an abort
\* and an end show their outcome.
PShow ==
    /\ \/ stage \in {"live", "cleaning"} /\ shown' = Showing(level)
       \/ stage \in {"aborted", "over"} /\ shown' = outcome
    /\ UNCHANGED <<stage, level, outcome>>

\* A restart shows an aborted cleanup without its reason.
PShowAgain ==
    /\ stage = "aborted"
    /\ shown' = [status |-> "SYSTEM_FAILURE", reason |-> "-"]
    /\ UNCHANGED <<stage, level, outcome>>

PNext == PBegin \/ PAdvance \/ PClean \/ PFinish \/ PAbort \/ PShow \/ PShowAgain

PSpec == PInit /\ [][PNext]_pvars
=============================================================================
