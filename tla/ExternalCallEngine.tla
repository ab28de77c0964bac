-------------------------- MODULE ExternalCallEngine --------------------------
(***************************************************************************)
(* The Android controller of one external call (app/.../telecom/external/  *)
(* ExternalCallEngine.kt): it holds the owned caller, dials one operator   *)
(* leg, merges the two, and cleans up, against the calls that Telecom      *)
(* shows it.                                                               *)
(*                                                                         *)
(* A handler of the engine (begin, recorderReady, cancel, reconcile,       *)
(* recover) runs on the main thread, so the view of Telecom is frozen      *)
(* while it runs.  It is split where the code journals, publishes or calls *)
(* Telecom: pc names the statement that comes next, "idle" when no handler *)
(* is running, and the process may die between any two of them.            *)
(*                                                                         *)
(* Times are relative: a deadline is what is left of it, an age is how     *)
(* long a window has been open, both saturating, so time needs no bound.   *)
(***************************************************************************)
EXTENDS Integers, FiniteSets

CONSTANTS
    OpIds,            \* identities of the outgoing legs Telecom may create
    None,             \* "no value"
    SetupTimeout, AnswerTimeout, RecorderTimeout, MergeTimeout, CleanupTimeout,
    StableTime,       \* CALLER_ACTIVE_STABLE_MS
    GraceTime,        \* CARRIER_AUTO_UNHOLD_GRACE_MS
    JournalMayFail,   \* whether a journal write may be lost
    MaxSessions,      \* bound: external_call blocks run in this call
    MaxCrashes,       \* bound: deaths of the app process
    MaxGlitches       \* bound: foreign calls and identity reads that fail

ASSUME EngineAssumption ==
    /\ {SetupTimeout, AnswerTimeout, RecorderTimeout, MergeTimeout,
        CleanupTimeout, StableTime, GraceTime, MaxSessions, MaxCrashes, MaxGlitches} \subseteq Nat
    /\ StableTime > 0
    /\ JournalMayFail \in BOOLEAN
    /\ None \notin OpIds

VARIABLES
    up,         \* the app process is alive
    pc,         \* next statement of the running handler
    recovering, \* recover() still has to republish the status
    session,    \* ExternalCallEngine.current
    journal,    \* external-call/recovery.json
    published,  \* last status handed to the observer: [status, reason]
    caller,     \* view of the inbound call: [state, trusted]
    ops,        \* view of the outgoing legs: [state, tag]
    conf,       \* view of the conference parent: [state, kids]
    stranger,   \* view of a call this session does not own
    asked,      \* history: commands given to Telecom in this session
    merged,     \* history: a conference of both legs was verified in this session
    sessions,   \* sessions begun
    crashes,    \* process deaths so far
    glitches    \* faults of the surroundings so far

engineVars == <<up, pc, recovering, session, journal, published>>
telecomVars == <<caller, ops, conf, stranger>>
historyVars == <<asked, merged>>
vars == <<engineVars, telecomVars, historyVars, sessions, crashes, glitches>>

-----------------------------------------------------------------------------
(* Phases, statuses and reasons.                                           *)

CleanupPhases == {"RETURNING_CALLER", "CLEANING_CALLER_HANGUP", "CLEANUP_NOT_CONNECTED",
                  "CLEANUP_SYSTEM_FAILURE", "CLEANUP_ABORTED"}
TerminalPhases == {"COMPLETED", "NOT_CONNECTED", "SYSTEM_FAILURE"}
SetupPhases == {"HOLDING_CALLER", "WAITING_DIALING", "DIALING", "WAITING_RECORDER",
                "WAITING_CONFERENCEABLE", "MERGING"}
Phases == SetupPhases \cup {"CONFERENCED"} \cup CleanupPhases \cup TerminalPhases

LiveStatuses == {"ACK", "CALLER_HELD", "DIALING", "OPERATOR_ANSWERED", "MERGING", "CONFERENCED"}
Statuses == LiveStatuses \cup TerminalPhases

\* The reasons the properties tell apart; FAILED stands for every other
\* system-failure reason and UNANSWERED for every other not-connected one.
Reasons == {"-", "FAILED", "HELPER_CANCELLED", "UNANSWERED", "ANSWER_TIMEOUT",
            "CALLER_HANGUP", "OPERATOR_HANGUP", "CLEANUP_TIMEOUT"}

Session == [phase : Phases, op : OpIds \cup {None}, conf : BOOLEAN,
            deadline : Nat, reason : Reasons, heartbeat : Statuses \cup {None},
            disconnectAsked : BOOLEAN, unholdAsked : BOOLEAN,
            safeFor : Nat \cup {None}, activeFor : Nat \cup {None},
            activeSeen : BOOLEAN, unholdAllowed : BOOLEAN]

ASSUME NoneAssumption == None \notin Session \cup Statuses \cup Nat

Terminal(s) == s.phase \in TerminalPhases
InCleanup(s) == s.phase \in CleanupPhases

NewSession(phase, deadline, reason) ==
    [phase |-> phase, op |-> None, conf |-> FALSE, deadline |-> deadline, reason |-> reason,
     heartbeat |-> None, disconnectAsked |-> FALSE, unholdAsked |-> FALSE,
     safeFor |-> None, activeFor |-> None, activeSeen |-> FALSE, unholdAllowed |-> TRUE]

\* Mutant: a cleanup shows its outcome while it still runs.
StatusForOutcomeEarly(s) ==
    CASE s.phase = "HOLDING_CALLER" -> "ACK"
      [] s.phase = "WAITING_DIALING" -> "CALLER_HELD"
      [] s.phase = "DIALING" -> "DIALING"
      [] s.phase \in {"WAITING_RECORDER", "WAITING_CONFERENCEABLE"} -> "OPERATOR_ANSWERED"
      [] s.phase = "MERGING" -> "MERGING"
      [] s.phase \in {"CONFERENCED", "RETURNING_CALLER"} -> "CONFERENCED"
      [] s.phase = "CLEANING_CALLER_HANGUP" -> "COMPLETED"
      [] s.phase = "CLEANUP_NOT_CONNECTED" -> "NOT_CONNECTED"
      [] s.phase \in {"CLEANUP_SYSTEM_FAILURE", "CLEANUP_ABORTED"} -> "SYSTEM_FAILURE"
      [] OTHER -> s.phase

\* The public status that stands for a phase; a cleanup keeps showing the
\* status that was public when it started.
StatusFor(s) ==
    CASE s.phase = "HOLDING_CALLER" -> "ACK"
      [] s.phase = "WAITING_DIALING" -> "CALLER_HELD"
      [] s.phase = "DIALING" -> "DIALING"
      [] s.phase \in {"WAITING_RECORDER", "WAITING_CONFERENCEABLE"} -> "OPERATOR_ANSWERED"
      [] s.phase = "MERGING" -> "MERGING"
      [] s.phase \in {"CONFERENCED", "RETURNING_CALLER"} -> "CONFERENCED"
      [] s.phase \in {"CLEANING_CALLER_HANGUP", "CLEANUP_NOT_CONNECTED",
                      "CLEANUP_SYSTEM_FAILURE"} -> s.heartbeat
      [] s.phase = "CLEANUP_ABORTED" -> "SYSTEM_FAILURE"
      [] OTHER -> s.phase

-----------------------------------------------------------------------------
(* The view of Telecom (external: modelled from how the engine reads it).  *)

CallerStates == {"ACTIVE", "HOLDING", "DISCONNECTING", "DISCONNECTED", "GONE"}
OpStates == {"UNPLACED", "PENDING", "NEW", "DIALING", "ACTIVE", "HOLDING",
             "DISCONNECTING", "DISCONNECTED", "GONE"}
Tags == {"unowned", "owned", "emergency"}
ConfStates == {"NONE", "NEW", "ACTIVE", "DISCONNECTED", "GONE"}
Legs == {"caller", "stranger"} \cup OpIds

CallerVisible == caller.state # "GONE"
CallerEnded == caller.state \in {"GONE", "DISCONNECTED"}
Visible(o) == ops[o].state \notin {"UNPLACED", "PENDING", "GONE"}
Connected(o) == Visible(o) /\ ops[o].state \notin {"DISCONNECTING", "DISCONNECTED"}
ConfVisible == conf.state \notin {"NONE", "GONE"}
Links(o) == ConfVisible /\ {"caller", o} \subseteq conf.kids   \* telecom.conferenceId(caller, o)

\* The outgoing legs that carry this session's tag, and the one cleanup adopts.
Tagged == {o \in OpIds : Visible(o) /\ ops[o].tag # "unowned"}
Owned == {o \in OpIds : Visible(o) /\ ops[o].tag = "owned"}

\* A parent Telecom announces before it links the merged legs is awaited, but
\* only while the requested merge is in flight.
PendingConferenceParent(s) ==
    /\ s.phase = "MERGING"
    /\ s.op # None
    /\ conf.state \in {"NEW", "ACTIVE"}
    /\ conf.kids \subseteq {"caller", s.op}

Unexpected(s, known) ==
    \/ \E o \in OpIds \ {s.op} : Connected(o)
    \/ stranger = "LIVE"
    \/ conf.state \in {"NEW", "ACTIVE"} /\ ~known /\ ~PendingConferenceParent(s)

UnexpectedInCleanup(s) ==
    \/ \E o \in OpIds \ {s.op} : Visible(o) /\ ops[o].state # "DISCONNECTED"
    \/ stranger # "NONE"
    \/ conf.state \in {"NEW", "ACTIVE"} /\ ~s.conf

\* persistOutgoingOwnership(): the leg is tagged when it surfaces, and only
\* while the journal holds a session that is not over.
TagAllowed == journal # None /\ ~Terminal(journal)

-----------------------------------------------------------------------------
(* Effects.                                                                *)

\* update(): the snapshot in memory, then the journal.  A write that fails is
\* only noted (bridgeHealthy), the handler goes on.
Save(s) ==
    /\ session' = s
    /\ journal' = s \/ (JournalMayFail /\ journal' = journal)

Publish(status, reason) == published' = [status |-> status, reason |-> reason]

Commands == {"hold", "place", "merge", "disconnect", "unhold"}
NothingAsked == [c \in Commands |-> 0]
Ask(command) == asked' = [asked EXCEPT ![command] = @ + 1]

Goto(label) == pc' = label /\ UNCHANGED <<up, recovering, sessions, crashes, glitches>>

Running(label) == up /\ pc = label

-----------------------------------------------------------------------------
(* Failure and cleanup entry.                                              *)

\* Mutant: the status to keep showing is not remembered.
CleaningForgetful(s, phase, reason, unholdCaller) ==
    [s EXCEPT !.phase = phase,
              !.deadline = IF InCleanup(s) THEN @ ELSE CleanupTimeout,
              !.reason = reason,
              !.unholdAllowed = @ /\ unholdCaller]

Cleaning(s, phase, reason, unholdCaller) ==
    [s EXCEPT !.phase = phase,
              !.deadline = IF InCleanup(s) THEN @ ELSE CleanupTimeout,
              !.reason = reason,
              !.heartbeat = IF @ = None THEN StatusFor(s) ELSE @,
              !.unholdAllowed = @ /\ unholdCaller]

\* startCleanup(): an aborted cleanup is final and is only driven on.
StartCleanup(s, phase, reason, unholdCaller) ==
    /\ IF s.phase = "CLEANUP_ABORTED"
       THEN UNCHANGED <<session, journal>>
       ELSE Save(Cleaning(s, phase, reason, unholdCaller))
    /\ Goto("cleanup")
    /\ UNCHANGED published

FailSystem(s) == StartCleanup(s, "CLEANUP_SYSTEM_FAILURE", "FAILED", TRUE)
FailSystemNoUnhold(s) == StartCleanup(s, "CLEANUP_SYSTEM_FAILURE", "FAILED", FALSE)
FailNotConnected(s, reason) == StartCleanup(s, "CLEANUP_NOT_CONNECTED", reason, TRUE)

\* update() followed by nothing else: the handler returns.
Stay(s) == Save(s) /\ Goto("idle") /\ UNCHANGED published

-----------------------------------------------------------------------------
(* begin()                                                                 *)

BeginValid(destinationEmergency) ==
    caller.state = "ACTIVE" /\ caller.trusted /\ ~destinationEmergency

Begin(destinationEmergency, canHold) ==
    /\ Running("idle") /\ ~recovering
    /\ session # None => Terminal(session)
    /\ sessions < MaxSessions
    /\ sessions' = sessions + 1
    /\ IF BeginValid(destinationEmergency)
       THEN /\ Save(NewSession("HOLDING_CALLER", IF canHold THEN SetupTimeout ELSE 0, "-"))
            /\ pc' = IF canHold THEN "ack" ELSE "ack_no_hold"
       ELSE /\ Save(NewSession("SYSTEM_FAILURE", 0, "FAILED"))
            /\ pc' = "terminal"
    /\ asked' = NothingAsked
    /\ merged' = FALSE
    /\ published' = None
    /\ UNCHANGED <<up, recovering, crashes, glitches, telecomVars>>

PublishAck ==
    /\ up /\ pc \in {"ack", "ack_no_hold"}
    /\ Publish("ACK", "-")
    /\ Goto(IF pc = "ack" THEN "hold" ELSE "hold_unavailable")
    /\ UNCHANGED <<session, journal, telecomVars, historyVars>>

HoldUnavailable ==
    /\ Running("hold_unavailable")
    /\ FailSystem(session)
    /\ UNCHANGED <<telecomVars, historyVars>>

\* telecom.hold(); ok is what the binder call returned.
Hold(ok) ==
    /\ Running("hold")
    /\ Ask("hold")
    /\ \/ ok /\ Goto("idle") /\ UNCHANGED <<session, journal, published>>
       \/ ~ok /\ FailSystem(session)
    /\ UNCHANGED <<telecomVars, merged>>

-----------------------------------------------------------------------------
(* recorderReady(), cancel(), protocolFailure()                            *)

RecorderReady ==
    /\ Running("idle") /\ ~recovering
    /\ session # None /\ ~Terminal(session)
    /\ \/ session.phase # "WAITING_RECORDER" /\ FailSystem(session)
       \/ /\ session.phase = "WAITING_RECORDER"
          /\ \/ ~(CallerVisible /\ caller.trusted) /\ FailSystem(session)
             \/ /\ CallerVisible /\ caller.trusted
                /\ \/ session.op \notin Owned
                      /\ FailNotConnected(session, "UNANSWERED")
                   \/ /\ session.op \in Owned
                      /\ IF caller.state = "HOLDING" /\ ops[session.op].state = "ACTIVE"
                         THEN /\ Save([session EXCEPT !.phase = "WAITING_CONFERENCEABLE",
                                                      !.deadline = MergeTimeout])
                              /\ Goto("reconcile") /\ UNCHANGED published
                         ELSE FailSystem(session)
    /\ UNCHANGED <<telecomVars, historyVars>>

\* cancel(reason): ANSWER_TIMEOUT is checked against the outcome, any other
\* reason fails the system.
Cancel(reason) ==
    /\ Running("idle") /\ ~recovering
    /\ session # None /\ ~Terminal(session)
    /\ CASE reason = "ANSWER_TIMEOUT" /\ session.phase = "DIALING" /\ session.deadline = 0 ->
                FailNotConnected(session, "ANSWER_TIMEOUT")
         [] reason = "ANSWER_TIMEOUT" /\ session.phase = "CLEANUP_NOT_CONNECTED"
                                      /\ session.reason = "ANSWER_TIMEOUT" ->
                Goto("cleanup") /\ UNCHANGED <<session, journal, published>>
         [] reason = "HELPER_CANCELLED" ->
                StartCleanup(session, "CLEANUP_SYSTEM_FAILURE", reason, TRUE)
         [] OTHER -> FailSystem(session)
    /\ UNCHANGED <<telecomVars, historyVars>>

\* protocolFailure(reason)
ProtocolFailure ==
    /\ Running("idle") /\ ~recovering
    /\ session # None /\ ~Terminal(session)
    /\ FailSystem(session)
    /\ UNCHANGED <<telecomVars, historyVars>>

-----------------------------------------------------------------------------
(* reconcile()                                                             *)

\* A handler that calls reconcile() continues at "reconcile"; a poll or a
\* Telecom callback starts one.
Reconciling == up /\ (pc = "reconcile" \/ (pc = "idle" /\ ~recovering))

\* The session with the operator leg this pass discovers.
Adopted(s) ==
    IF s.op = None /\ Tagged # {} THEN [s EXCEPT !.op = CHOOSE o \in Tagged : TRUE] ELSE s

\* The tagged legs are not the one operator this session dialled.
OperatorMismatch(s) ==
    \/ Cardinality(Tagged) > 1
    \/ \E o \in Tagged : ops[o].tag = "emergency" \/ s.op \notin {None, o}

\* A live call that is neither leg nor the conference of both.
ForeignCall(s) == Unexpected(Adopted(s), s.conf \/ (s.op # None /\ Links(s.op)))

IdentityFailure(s) == ~caller.trusted \/ OperatorMismatch(s) \/ ForeignCall(s)

\* The order of the checks is the code's: the caller's end, its ownership, the
\* operator's identity, then any other call.
ReconcileFailure ==
    /\ Reconciling
    /\ session # None /\ ~Terminal(session) /\ ~InCleanup(session)
    /\ \/ /\ CallerEnded
          /\ StartCleanup(session, "CLEANING_CALLER_HANGUP", "CALLER_HANGUP", TRUE)
       \/ /\ ~CallerEnded /\ ~caller.trusted
          /\ FailSystemNoUnhold(session)
       \/ /\ ~CallerEnded /\ caller.trusted /\ OperatorMismatch(session)
          /\ FailSystem(session)
       \/ /\ ~CallerEnded /\ caller.trusted /\ ~OperatorMismatch(session)
          /\ ForeignCall(session)
          /\ FailSystem(Adopted(session))
    /\ UNCHANGED <<telecomVars, historyVars>>

OpState(s) == IF s.op # None /\ Visible(s.op) THEN ops[s.op].state ELSE "GONE"

\* One phase of the when-expression; s is the session with its adopted leg.
StepHoldingCaller(s) ==
    /\ s.phase = "HOLDING_CALLER"
    /\ IF caller.state = "HOLDING"
       THEN Save([s EXCEPT !.phase = "WAITING_DIALING"]) /\ Goto("held") /\ UNCHANGED published
       ELSE IF s.deadline = 0 THEN FailSystem(s) ELSE Stay(s)

StepWaitingDialing(s) ==
    /\ s.phase = "WAITING_DIALING"
    /\ CASE OpState(s) \in {"DIALING", "ACTIVE"} ->
               /\ Save([s EXCEPT !.phase = "DIALING", !.deadline = AnswerTimeout])
               /\ Goto("dialing") /\ UNCHANGED published
         [] OpState(s) = "DISCONNECTED" -> FailNotConnected(s, "UNANSWERED")
         [] OTHER -> IF s.deadline = 0 THEN FailSystem(s) ELSE Stay(s)

Answered(s) == [s EXCEPT !.phase = "WAITING_RECORDER", !.deadline = RecorderTimeout]

StepDialing(s) ==
    /\ s.phase = "DIALING"
    /\ CASE OpState(s) = "ACTIVE" -> Save(Answered(s)) /\ Goto("answered") /\ UNCHANGED published
         [] OpState(s) = "DISCONNECTED" -> FailNotConnected(s, "UNANSWERED")
         [] OTHER -> IF s.deadline = 0 THEN FailNotConnected(s, "ANSWER_TIMEOUT") ELSE Stay(s)

OperatorLost(s) == OpState(s) \in {"GONE", "DISCONNECTED"}

StepWaitingRecorder(s) ==
    /\ s.phase = "WAITING_RECORDER"
    /\ IF OperatorLost(s) THEN FailNotConnected(s, "UNANSWERED")
       ELSE IF s.deadline = 0 THEN FailSystem(s) ELSE Stay(s)

StepWaitingConferenceable(s, canConference) ==
    /\ s.phase = "WAITING_CONFERENCEABLE"
    /\ IF OperatorLost(s) THEN FailNotConnected(s, "UNANSWERED")
       ELSE IF caller.state = "HOLDING" /\ OpState(s) = "ACTIVE" /\ canConference
       THEN Save([s EXCEPT !.phase = "MERGING"]) /\ Goto("merging") /\ UNCHANGED published
       ELSE IF s.deadline = 0 THEN FailSystem(s) ELSE Stay(s)

\* Mutant: an operator lost during the merge counts as a finished talk.
StepMergingGenerous(s) ==
    /\ s.phase = "MERGING"
    /\ IF OperatorLost(s) THEN StartCleanup(s, "RETURNING_CALLER", "OPERATOR_HANGUP", TRUE)
       ELSE IF Links(s.op)
       THEN /\ Save([s EXCEPT !.phase = "CONFERENCED", !.conf = TRUE, !.deadline = 0])
            /\ Goto("conferenced") /\ UNCHANGED published
       ELSE IF s.deadline = 0 THEN FailSystem(s) ELSE Stay(s)

StepMerging(s) ==
    /\ s.phase = "MERGING"
    /\ IF OperatorLost(s) THEN FailNotConnected(s, "UNANSWERED")
       ELSE IF Links(s.op)
       THEN /\ Save([s EXCEPT !.phase = "CONFERENCED", !.conf = TRUE, !.deadline = 0])
            /\ Goto("conferenced") /\ UNCHANGED published
       ELSE IF s.deadline = 0 THEN FailSystem(s) ELSE Stay(s)

StepConferenced(s) ==
    /\ s.phase = "CONFERENCED"
    /\ IF OperatorLost(s)
       THEN StartCleanup(s, "RETURNING_CALLER", "OPERATOR_HANGUP", TRUE)
       ELSE Stay(s)

Reconcile(canConference) ==
    /\ Reconciling
    /\ session # None /\ ~Terminal(session) /\ ~InCleanup(session)
    /\ ~CallerEnded /\ ~IdentityFailure(session)
    /\ LET s == Adopted(session) IN
          \/ StepHoldingCaller(s) \/ StepWaitingDialing(s) \/ StepDialing(s)
          \/ StepWaitingRecorder(s) \/ StepWaitingConferenceable(s, canConference)
          \/ StepMerging(s) \/ StepConferenced(s)
    /\ merged' = (merged \/ session'.phase = "CONFERENCED")
    /\ UNCHANGED <<telecomVars, asked>>

\* The statuses a phase change publishes once it is journalled.
PublishProgress ==
    /\ up
    /\ \/ pc = "held" /\ Publish("CALLER_HELD", "-") /\ Goto("place")
       \/ /\ pc = "dialing" /\ Publish("DIALING", "-")
          /\ Goto(IF OpState(session) = "ACTIVE" THEN "answer" ELSE "idle")
       \/ pc = "answered" /\ Publish("OPERATOR_ANSWERED", "-") /\ Goto("idle")
       \/ pc = "merging" /\ Publish("MERGING", "-") /\ Goto("conference")
       \/ pc = "conferenced" /\ Publish("CONFERENCED", "-") /\ Goto("idle")
    /\ UNCHANGED <<session, journal, telecomVars, historyVars>>

\* operatorAnswered() of a leg that Telecom showed ACTIVE at once.
AnswerAtOnce ==
    /\ Running("answer")
    /\ Save(Answered(session)) /\ Goto("answered")
    /\ UNCHANGED <<published, telecomVars, historyVars>>

\* telecom.placeCall(): Telecom will surface a new leg some time later.
PlaceCall(ok) ==
    /\ Running("place")
    /\ Ask("place")
    /\ \/ /\ ok
          /\ \E o \in OpIds : /\ ops[o].state = "UNPLACED"
                              /\ ops' = [ops EXCEPT ![o].state = "PENDING"]
          /\ Goto("idle") /\ UNCHANGED <<session, journal, published>>
       \/ ~ok /\ FailSystem(session) /\ UNCHANGED ops
    /\ UNCHANGED <<caller, conf, stranger, merged>>

Conference(ok) ==
    /\ Running("conference")
    /\ Ask("merge")
    /\ \/ ok /\ Goto("idle") /\ UNCHANGED <<session, journal, published>>
       \/ ~ok /\ FailSystem(session)
    /\ UNCHANGED <<telecomVars, merged>>

-----------------------------------------------------------------------------
(* reconcileCleanup().  Every update() of the handler is a step; "cleanup"  *)
(* runs the handler on from the same view.                                 *)

CleanupRunning ==
    /\ up /\ session # None /\ ~Terminal(session)
    /\ pc = "cleanup" \/ (InCleanup(session) /\ Reconciling)

\* Cleanup may adopt the one owned leg that Telecom surfaces late.
AdoptLate ==
    /\ CleanupRunning
    /\ session.op = None /\ Cardinality(Owned) = 1
    /\ \E o \in Owned : Save([session EXCEPT !.op = o, !.safeFor = None, !.activeFor = None])
    /\ Goto("cleanup")
    /\ UNCHANGED <<published, telecomVars, historyVars>>

CleanupReady == CleanupRunning /\ ~(session.op = None /\ Cardinality(Owned) = 1)

\* Mutant: a leg that was asked to disconnect counts as gone.
OperatorAsked == session.op # None => ~Visible(session.op) \/ session.disconnectAsked

OperatorSafe == session.op # None => ~Visible(session.op)

\* Mutant: the marker of an earlier request is not looked at.
MayDisconnectAgain ==
    /\ session.op # None
    /\ Connected(session.op) /\ ops[session.op].tag = "owned"

\* The exact leg may be disconnected: still connected and provably ours.
MayDisconnect ==
    /\ session.op # None
    /\ Connected(session.op) /\ ops[session.op].tag = "owned"
    /\ ~session.disconnectAsked

AllClear == /\ OperatorSafe
            /\ ~(session.conf /\ ConfVisible)
            /\ ~UnexpectedInCleanup(session)

\* The marker is journalled before Telecom is asked.
MarkDisconnect ==
    /\ CleanupReady /\ MayDisconnect
    /\ Save([session EXCEPT !.disconnectAsked = TRUE, !.safeFor = None, !.activeFor = None])
    /\ Goto("disconnect")
    /\ UNCHANGED <<published, telecomVars, historyVars>>

Disconnect ==
    /\ Running("disconnect")
    /\ Ask("disconnect")
    /\ Goto("idle")
    /\ UNCHANGED <<session, journal, published, telecomVars, merged>>

MarkSafe ==
    /\ CleanupReady /\ AllClear /\ session.safeFor = None
    /\ Save([session EXCEPT !.safeFor = 0])
    /\ Goto("cleanup")
    /\ UNCHANGED <<published, telecomVars, historyVars>>

Settled == CleanupReady /\ AllClear /\ session.safeFor # None

\* terminal(): forgets the calls, then publishes.
Ended(s, phase, reason) ==
    [s EXCEPT !.phase = phase, !.op = None, !.conf = FALSE, !.deadline = 0, !.reason = reason]

Aborted(s) ==
    [s EXCEPT !.phase = "CLEANUP_ABORTED", !.deadline = 0, !.reason = "CLEANUP_TIMEOUT"]

FinishCallerEnded ==
    /\ Settled /\ CallerEnded
    /\ Save(IF session.phase = "CLEANUP_ABORTED"
            THEN Ended(session, "SYSTEM_FAILURE", "CLEANUP_TIMEOUT")
            ELSE Ended(session, "COMPLETED", "CALLER_HANGUP"))
    /\ Goto("terminal")
    /\ UNCHANGED <<published, telecomVars, historyVars>>

OpenActiveWindow ==
    /\ Settled /\ caller.trusted /\ caller.state = "ACTIVE" /\ session.activeFor = None
    /\ Save([session EXCEPT !.activeFor = 0, !.activeSeen = TRUE])
    /\ Goto("cleanup")
    /\ UNCHANGED <<published, telecomVars, historyVars>>

\* finishSafeCleanup(): the caller has been ACTIVE for the whole window.
CallerStable ==
    /\ Settled /\ caller.trusted /\ caller.state = "ACTIVE"
    /\ session.activeFor # None /\ session.activeFor >= StableTime

FinishSafe ==
    /\ CallerStable
    /\ \/ /\ session.phase # "CLEANING_CALLER_HANGUP"
          /\ Save(CASE session.phase = "RETURNING_CALLER" ->
                          Ended(session, "COMPLETED", "OPERATOR_HANGUP")
                    [] session.phase = "CLEANUP_NOT_CONNECTED" ->
                          Ended(session, "NOT_CONNECTED", session.reason)
                    [] session.phase = "CLEANUP_SYSTEM_FAILURE" ->
                          Ended(session, "SYSTEM_FAILURE", session.reason)
                    [] OTHER -> Ended(session, "SYSTEM_FAILURE", "CLEANUP_TIMEOUT"))
          /\ Goto("terminal")
       \/ /\ session.phase = "CLEANING_CALLER_HANGUP"
          /\ Save(Aborted(session)) /\ Goto("aborted")
    /\ UNCHANGED <<published, telecomVars, historyVars>>

\* Never unhold while a leg remains, before the grace, twice, or once the
\* caller has been seen ACTIVE.
MayUnhold ==
    /\ Settled /\ caller.trusted /\ caller.state = "HOLDING"
    /\ session.activeFor = None
    /\ session.unholdAllowed /\ ~session.activeSeen /\ ~session.unholdAsked
    /\ session.safeFor >= GraceTime

MarkUnhold ==
    /\ MayUnhold
    /\ Save([session EXCEPT !.unholdAsked = TRUE])
    /\ Goto("unhold")
    /\ UNCHANGED <<published, telecomVars, historyVars>>

Unhold ==
    /\ Running("unhold")
    /\ Ask("unhold")
    /\ Goto("idle")
    /\ UNCHANGED <<session, journal, published, telecomVars, merged>>

\* The stable window only survives while the caller is alone and ACTIVE.
WindowBroken ==
    /\ CleanupReady /\ ~MayDisconnect
    /\ \/ ~AllClear
       \/ Settled /\ ~CallerEnded /\ ~(caller.trusted /\ caller.state = "ACTIVE")

CloseActiveWindow ==
    /\ WindowBroken /\ session.activeFor # None
    /\ Save([session EXCEPT !.activeFor = None])
    /\ Goto("cleanup")
    /\ UNCHANGED <<published, telecomVars, historyVars>>

\* Nothing to do now: abortCleanupIfExpired(), or the handler returns.
CleanupWaits ==
    \/ WindowBroken /\ session.activeFor = None /\ ~MayUnhold
    \/ Settled /\ caller.trusted /\ caller.state = "ACTIVE" /\ session.activeFor # None
       /\ session.activeFor < StableTime

\* Mutant: a cleanup that cannot finish is never given up.
CleanupWaitingForever ==
    /\ CleanupWaits
    /\ UNCHANGED <<session, journal>> /\ Goto("idle")
    /\ UNCHANGED <<published, telecomVars, historyVars>>

CleanupWaiting ==
    /\ CleanupWaits
    /\ IF session.phase # "CLEANUP_ABORTED" /\ session.deadline = 0
       THEN Save(Aborted(session)) /\ Goto("aborted")
       ELSE UNCHANGED <<session, journal>> /\ Goto("idle")
    /\ UNCHANGED <<published, telecomVars, historyVars>>

\* publish() of an abort and of a terminal phase.
PublishOutcome ==
    /\ up /\ pc \in {"aborted", "terminal"}
    /\ Publish(StatusFor(session), session.reason)
    /\ Goto("idle")
    /\ UNCHANGED <<session, journal, telecomVars, historyVars>>

Cleanup ==
    \/ AdoptLate \/ MarkDisconnect \/ Disconnect \/ MarkSafe \/ FinishCallerEnded
    \/ OpenActiveWindow \/ FinishSafe \/ MarkUnhold \/ Unhold
    \/ CloseActiveWindow \/ CleanupWaiting \/ PublishOutcome

-----------------------------------------------------------------------------
(* Process death and recover().                                            *)

Crash ==
    /\ up /\ crashes < MaxCrashes
    /\ crashes' = crashes + 1
    /\ up' = FALSE /\ pc' = "idle" /\ recovering' = FALSE /\ session' = None
    /\ UNCHANGED <<journal, published, telecomVars, historyVars, sessions, glitches>>

\* The controller resumes from the journal once the recovery barrier has
\* established that the view of Telecom is complete.  A terminal session is
\* published again, a live one is driven on and then published.  Legs that
\* surfaced meanwhile are tagged as they are added.
Recover ==
    /\ ~up
    /\ up' = TRUE /\ session' = journal
    /\ ops' = [o \in OpIds |->
                  IF Visible(o) /\ ops[o].tag = "unowned" /\ TagAllowed
                  THEN [ops[o] EXCEPT !.tag = "owned"] ELSE ops[o]]
    /\ IF journal = None
       THEN pc' = "idle" /\ recovering' = FALSE
       ELSE IF Terminal(journal)
       THEN pc' = "terminal" /\ recovering' = FALSE
       ELSE IF ~CallerVisible
       THEN pc' = "reconcile" /\ recovering' = FALSE
       ELSE IF ~caller.trusted
       THEN pc' = "unowned" /\ recovering' = FALSE
       ELSE /\ recovering' = TRUE
            /\ pc' = IF journal.phase = "HOLDING_CALLER" /\ caller.state = "ACTIVE"
                     THEN "rehold" ELSE "reconcile"
    /\ UNCHANGED <<journal, published, caller, conf, stranger, historyVars, sessions, crashes, glitches>>

RecoverUnowned ==
    /\ Running("unowned")
    /\ FailSystemNoUnhold(session)
    /\ UNCHANGED <<telecomVars, historyVars>>

\* A caller that was never put on hold is held again; a failure ends recover()
\* without the republication.
RecoverHold(ok) ==
    /\ Running("rehold")
    /\ Ask("hold")
    /\ IF ok
       THEN pc' = "reconcile" /\ UNCHANGED <<recovering, session, journal>>
       ELSE /\ Save(Cleaning(session, "CLEANUP_SYSTEM_FAILURE", "FAILED", TRUE))
            /\ pc' = "cleanup" /\ recovering' = FALSE
    /\ UNCHANGED <<up, published, telecomVars, merged, sessions, crashes, glitches>>

\* The last statement of recover(), unless the session ended meanwhile.
Republish ==
    /\ Running("idle") /\ recovering
    /\ recovering' = FALSE
    /\ IF Terminal(session) THEN UNCHANGED published ELSE Publish(StatusFor(session), "-")
    /\ UNCHANGED <<up, pc, session, journal, telecomVars, historyVars, sessions, crashes, glitches>>

-----------------------------------------------------------------------------
(* Telecom and time (external).                                            *)

Quiet == pc = "idle" /\ ~recovering    \* callbacks are delivered between handlers
NotEngine == UNCHANGED <<engineVars, historyVars, sessions, crashes>>

CallerMoves ==
    /\ Quiet /\ caller.state \notin {"GONE", "DISCONNECTED"}
    /\ \E st \in CallerStates \ {caller.state, "GONE"} :
          /\ caller.state = "DISCONNECTING" => st = "DISCONNECTED"
          /\ caller' = [caller EXCEPT !.state = st]
    /\ UNCHANGED <<ops, conf, stranger, glitches>> /\ NotEngine

CallerRemoved ==
    /\ Quiet /\ caller.state \in {"DISCONNECTING", "DISCONNECTED"}
    /\ caller' = [caller EXCEPT !.state = "GONE"]
    /\ UNCHANGED <<ops, conf, stranger, glitches>> /\ NotEngine

\* The next state a leg may be shown in.
OpSteps(st) ==
    CASE st = "PENDING" -> {"NEW", "DIALING", "GONE"}
      [] st = "NEW" -> {"DIALING", "ACTIVE", "DISCONNECTED"}
      [] st = "DIALING" -> {"ACTIVE", "DISCONNECTING", "DISCONNECTED"}
      [] st = "ACTIVE" -> {"HOLDING", "DISCONNECTING", "DISCONNECTED"}
      [] st = "HOLDING" -> {"ACTIVE", "DISCONNECTING", "DISCONNECTED"}
      [] st = "DISCONNECTING" -> {"DISCONNECTED"}
      [] st = "DISCONNECTED" -> {"GONE"}
      [] OTHER -> {}

OpMoves(o) ==
    /\ Quiet
    /\ \E st \in OpSteps(ops[o].state) :
          ops' = [ops EXCEPT ![o] =
                    [state |-> st,
                     tag |-> IF up /\ @.tag = "unowned" /\ st # "GONE" /\ TagAllowed
                             THEN "owned" ELSE @.tag]]
    /\ UNCHANGED <<caller, conf, stranger, glitches>> /\ NotEngine

ConfMoves ==
    /\ Quiet
    /\ \/ /\ conf.state = "NONE" /\ asked["merge"] > 0
          /\ conf' = [conf EXCEPT !.state = "NEW"]
       \/ /\ conf.state \in {"NEW", "ACTIVE"}
          /\ \E leg \in {"caller"} \cup {o \in OpIds : Connected(o)}
                       \cup (IF stranger = "LIVE" THEN {"stranger"} ELSE {}) :
                conf' = [state |-> "ACTIVE", kids |-> conf.kids \cup {leg}]
       \/ /\ conf.state \in {"NEW", "ACTIVE"}
          /\ conf' = [state |-> "DISCONNECTED", kids |-> {}]
       \/ /\ conf.state = "DISCONNECTED"
          /\ conf' = [conf EXCEPT !.state = "GONE"]
    /\ UNCHANGED <<caller, ops, stranger, glitches>> /\ NotEngine

\* Faults of the surroundings: a foreign call, a conference nobody asked for, and
\* identity reads that fail closed to "emergency".
Glitch ==
    /\ Quiet /\ glitches < MaxGlitches
    /\ glitches' = glitches + 1
    /\ \/ /\ stranger = "NONE" /\ stranger' = "LIVE" /\ UNCHANGED <<caller, ops, conf>>
       \/ /\ caller' = [caller EXCEPT !.trusted = ~@] /\ UNCHANGED <<ops, conf, stranger>>
       \/ /\ \E o \in OpIds : /\ Visible(o) /\ ops[o].tag \in {"owned", "emergency"}
                              /\ ops' = [ops EXCEPT ![o].tag =
                                            IF @ = "owned" THEN "emergency" ELSE "owned"]
          /\ UNCHANGED <<caller, conf, stranger>>
       \/ /\ conf.state = "NONE" /\ conf' = [conf EXCEPT !.state = "NEW"]
          /\ UNCHANGED <<caller, ops, stranger>>
    /\ NotEngine

StrangerEnds ==
    /\ Quiet /\ stranger # "NONE"
    /\ stranger' = IF stranger = "LIVE" THEN "DISCONNECTING" ELSE "NONE"
    /\ UNCHANGED <<caller, ops, conf, glitches>> /\ NotEngine

Telecom == CallerMoves \/ CallerRemoved \/ (\E o \in OpIds : OpMoves(o)) \/ ConfMoves
           \/ Glitch \/ StrangerEnds

\* One unit of elapsedRealtime, which also runs while the process is down.
Older(age, limit) == IF age = None \/ age >= limit THEN age ELSE age + 1
Aged(s) ==
    IF s = None THEN s
    ELSE [s EXCEPT !.deadline = IF @ > 0 THEN @ - 1 ELSE 0,
                   !.safeFor = Older(@, GraceTime), !.activeFor = Older(@, StableTime)]

Tick ==
    /\ Quiet
    /\ session' = Aged(session) /\ journal' = Aged(journal)
    /\ UNCHANGED <<up, pc, recovering, published, telecomVars, historyVars, sessions, crashes, glitches>>

-----------------------------------------------------------------------------
Init ==
    /\ up = TRUE /\ pc = "idle" /\ recovering = FALSE
    /\ session = None /\ journal = None /\ published = None
    /\ caller = [state |-> "ACTIVE", trusted |-> TRUE]
    /\ ops = [o \in OpIds |-> [state |-> "UNPLACED", tag |-> "unowned"]]
    /\ conf = [state |-> "NONE", kids |-> {}]
    /\ stranger = "NONE"
    /\ asked = NothingAsked
    /\ merged = FALSE
    /\ sessions = 0 /\ crashes = 0 /\ glitches = 0

Handlers ==
    \/ PublishAck \/ HoldUnavailable \/ (\E ok \in BOOLEAN : Hold(ok))
    \/ ReconcileFailure \/ (\E can \in BOOLEAN : Reconcile(can)) \/ PublishProgress \/ AnswerAtOnce
    \/ (\E ok \in BOOLEAN : PlaceCall(ok)) \/ (\E ok \in BOOLEAN : Conference(ok))
    \/ Cleanup \/ Recover \/ RecoverUnowned \/ (\E ok \in BOOLEAN : RecoverHold(ok)) \/ Republish

Requests ==
    \/ \E emergency, canHold \in BOOLEAN : Begin(emergency, canHold)
    \/ RecorderReady
    \/ \E reason \in {"ANSWER_TIMEOUT", "HELPER_CANCELLED"} : Cancel(reason)
    \/ ProtocolFailure

Next == Handlers \/ Requests \/ Crash \/ Telecom \/ Tick

Spec == Init /\ [][Next]_vars

\* Telecom carries out a disconnection it was asked for and removes ended legs.
LegsLeave ==
    \E o \in OpIds :
        /\ ops[o].state \in {"DISCONNECTING", "DISCONNECTED"} \/ asked["disconnect"] > 0
        /\ OpMoves(o)
        /\ ops'[o].state \in {"DISCONNECTED", "GONE"}

\* A conference that lost a side ends.
ConferenceEnds ==
    /\ CallerEnded \/ \A o \in OpIds : ~Connected(o)
    /\ ConfMoves
    /\ conf'.state \in {"DISCONNECTED", "GONE"}

\* Handlers run to completion, polls keep coming (the service polls every
\* 250 ms), a dead process is rebound and time passes.
Fairness == WF_vars(Handlers) /\ SF_vars(Tick) /\ SF_vars(LegsLeave) /\ SF_vars(ConferenceEnds)
FairSpec == Spec /\ Fairness

-----------------------------------------------------------------------------
(* Properties.                                                             *)

Labels == {"idle", "reconcile", "ack", "ack_no_hold", "hold", "hold_unavailable", "rehold",
           "unowned", "held", "place", "dialing", "answer", "answered", "merging", "conference",
           "conferenced", "cleanup", "disconnect", "unhold", "aborted", "terminal"}

\* Every variable has the type the code gives it.
TypeOK ==
    /\ up \in BOOLEAN /\ recovering \in BOOLEAN /\ merged \in BOOLEAN
    /\ pc \in Labels
    /\ session \in Session \cup {None} /\ journal \in Session \cup {None}
    /\ published \in [status : Statuses, reason : Reasons] \cup {None}
    /\ caller \in [state : CallerStates, trusted : BOOLEAN]
    /\ ops \in [OpIds -> [state : OpStates, tag : Tags]]
    /\ conf \in [state : ConfStates, kids : SUBSET Legs]
    /\ stranger \in {"NONE", "LIVE", "DISCONNECTING"}
    /\ asked \in [Commands -> Nat]
    /\ sessions \in 0 .. MaxSessions /\ crashes \in 0 .. MaxCrashes
    /\ glitches \in 0 .. MaxGlitches

\* A command whose outcome is uncertain is never given twice, whatever the
\* process deaths: the operator is dialled once, merged once, disconnected once
\* and the caller is unheld once per session ("a callback or process recovery
\* therefore cannot replay an uncertain command", ExternalCallEngine.kt).
SingleFlight == \A c \in {"place", "merge", "disconnect", "unhold"} : asked[c] <= 1

\* COMPLETED with OPERATOR_HANGUP, which resumes the Completed branch, is only
\* published for a session whose conference of both legs was verified.
CompletedWasConferenced ==
    published # None /\ published.status = "COMPLETED" /\ published.reason = "OPERATOR_HANGUP"
        => merged

\* A session that is over leaves no leg it owned connected.
ReleasedLegs ==
    session # None /\ Terminal(session)
        => \A o \in OpIds : Connected(o) => ops[o].tag = "unowned"

Rank(status) ==
    CASE status = "ACK" -> 0 [] status = "CALLER_HELD" -> 1 [] status = "DIALING" -> 2
      [] status = "OPERATOR_ANSWERED" -> 3 [] status = "MERGING" -> 4
      [] status = "CONFERENCED" -> 5 [] OTHER -> 6

\* The journalled session, read as the promise made to the helper.
PromiseStage ==
    IF journal = None THEN "none"
    ELSE IF Terminal(journal) THEN "over"
    ELSE IF journal.phase = "CLEANUP_ABORTED" THEN "aborted"
    ELSE IF InCleanup(journal) THEN "cleaning" ELSE "live"

PromiseLevel ==
    IF journal = None THEN 1
    ELSE IF journal.heartbeat # None THEN Rank(journal.heartbeat) + 1
    ELSE IF Terminal(journal) THEN 1 ELSE Rank(StatusFor(journal)) + 1

PromiseOutcome ==
    IF PromiseStage \in {"none", "live"} THEN None
    ELSE [status |-> IF Terminal(journal) THEN journal.phase
                     ELSE IF journal.phase \in {"RETURNING_CALLER", "CLEANING_CALLER_HANGUP"}
                     THEN "COMPLETED"
                     ELSE IF journal.phase = "CLEANUP_NOT_CONNECTED" THEN "NOT_CONNECTED"
                     ELSE "SYSTEM_FAILURE",
          reason |-> journal.reason]

Promise == INSTANCE ExternalCallPromise
           WITH stage <- PromiseStage, level <- PromiseLevel,
                outcome <- PromiseOutcome, shown <- published

\* The engine keeps the promise the helper relies on: whatever the deaths of
\* the process and the moves of Telecom, the statuses it publishes climb the
\* ladder without going back, and an outcome is published only once it is the
\* journalled outcome of this session.
KeepsPromise == Promise!PSpec

\* An external call never hangs in its setup or its cleanup: a session that is
\* not in conversation ends up conferenced or with an outcome the helper sees.
SetupResolves ==
    (session # None /\ session.phase # "CONFERENCED")
        ~> (published # None /\ Rank(published.status) >= 5)
=============================================================================
