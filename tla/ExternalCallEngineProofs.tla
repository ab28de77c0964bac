----------------------- MODULE ExternalCallEngineProofs -----------------------
(***************************************************************************)
(* Theorems about ExternalCallEngine, for every set of leg identities and  *)
(* every value of the timeouts and bounds.                                 *)
(***************************************************************************)
EXTENDS ExternalCallEngine, TLAPS

\* Every status and reason the engine can still publish is one the helper
\* knows: a cleanup remembers the status it started from.
HeartbeatKept(s) == s # None /\ InCleanup(s) => s.heartbeat # None

\* A handler that is in the middle of its work has a session, and one that is
\* about to publish an outcome has reached it.
HandlerHasSession ==
    /\ ~up => session = None /\ pc = "idle" /\ ~recovering
    /\ pc # "idle" \/ recovering => session # None
    /\ pc = "aborted" => session.phase = "CLEANUP_ABORTED"
    /\ pc = "terminal" => Terminal(session)
    /\ pc = "cleanup" => InCleanup(session)

TypeInv == TypeOK /\ HeartbeatKept(session) /\ HeartbeatKept(journal) /\ HandlerHasSession

-----------------------------------------------------------------------------
(* A command that was given is recorded in the journal, whose markers are  *)
(* never taken back.                                                       *)

Journalled == up => session = journal

Placed == Phases \ {"HOLDING_CALLER"}
MergeAsked == {"MERGING", "CONFERENCED"} \cup CleanupPhases \cup TerminalPhases

\* What the journal says once a command was given.
GivenIsJournalled ==
    /\ asked["place"] > 0 => journal # None /\ journal.phase \in Placed
    /\ asked["merge"] > 0 => journal # None /\ journal.phase \in MergeAsked
    /\ asked["disconnect"] > 0 => journal # None /\ journal.disconnectAsked
    /\ asked["unhold"] > 0 => journal # None /\ journal.unholdAsked

\* What a handler that is about to give a command has already journalled.
AboutToGive ==
    /\ pc \in {"held", "place"} => asked["place"] = 0 /\ journal.phase \in Placed
    /\ pc \in {"dialing", "answer"} => journal.phase = "DIALING"
    /\ pc \in {"merging", "conference"} => asked["merge"] = 0 /\ journal.phase = "MERGING"
    /\ pc = "disconnect" => asked["disconnect"] = 0 /\ journal.disconnectAsked
    /\ pc = "unhold" => asked["unhold"] = 0 /\ journal.unholdAsked

FlightInv == Journalled /\ GivenIsJournalled /\ AboutToGive /\ SingleFlight

-----------------------------------------------------------------------------
\* A session that talks, returns from a talk or completed with the operator's
\* hangup has verified its conference.
TalkWasMerged ==
    journal # None /\ \/ journal.phase \in {"CONFERENCED", "RETURNING_CALLER"}
                      \/ journal.phase = "COMPLETED" /\ journal.reason = "OPERATOR_HANGUP"
        => merged

MergedInv == TalkWasMerged /\ CompletedWasConferenced

-----------------------------------------------------------------------------
\* Without a session that may own it, no connected leg is owned; a leg that
\* has not surfaced is nobody's yet.
NothingOwned ==
    /\ (journal = None \/ Terminal(journal))
         => \A o \in OpIds : Connected(o) => ops[o].tag = "unowned"
    /\ \A o \in OpIds : ops[o].state \in {"UNPLACED", "PENDING"} => ops[o].tag = "unowned"


-----------------------------------------------------------------------------
(* Lemmas about the operators.                                             *)

\* A session shows a status the helper knows.
LEMMA StatusForType ==
    ASSUME NEW s \in Session, HeartbeatKept(s)
    PROVE  StatusFor(s) \in Statuses
  <1>1. s # None
    BY NoneAssumption
  <1> QED
    BY <1>1 DEF StatusFor, Session, Statuses, LiveStatuses, TerminalPhases, CleanupPhases,
       SetupPhases, Phases, HeartbeatKept, InCleanup

\* Entering a cleanup keeps a session well formed.
LEMMA CleaningType ==
    ASSUME NEW s \in Session, HeartbeatKept(s),
           NEW ph \in CleanupPhases, NEW r \in Reasons, NEW u \in BOOLEAN
    PROVE  /\ Cleaning(s, ph, r, u) \in Session
           /\ HeartbeatKept(Cleaning(s, ph, r, u))
           /\ Cleaning(s, ph, r, u).phase = ph
           /\ Cleaning(s, ph, r, u).reason = r
  <1>1. StatusFor(s) \in Statuses
    BY StatusForType
  <1>2. CleanupTimeout \in Nat
    BY EngineAssumption
  <1>3. None \notin Statuses
    BY NoneAssumption
  <1>4. ph \in Phases
    BY DEF Phases
  <1> DEFINE d == IF InCleanup(s) THEN s.deadline ELSE CleanupTimeout
             h == IF s.heartbeat = None THEN StatusFor(s) ELSE s.heartbeat
             n == Cleaning(s, ph, r, u)
  <1>5. d \in Nat /\ h \in Statuses
    BY <1>1, <1>2 DEF Session
  <1> HIDE DEF d, h
  <1>6. n = [s EXCEPT !.phase = ph, !.deadline = d, !.reason = r, !.heartbeat = h,
                      !.unholdAllowed = @ /\ u]
    BY DEF Cleaning, Session, d, h
  <1>7. n \in Session
    BY ONLY <1>4, <1>5, <1>6, s \in Session, r \in Reasons, u \in BOOLEAN DEF Session
  <1>8. n.phase = ph /\ n.reason = r /\ n.heartbeat = h
    BY ONLY <1>6, s \in Session DEF Session
  <1> QED
    BY <1>3, <1>5, <1>7, <1>8 DEF HeartbeatKept

\* The same for the cleanup of a session that is given up.
LEMMA FailedType ==
    ASSUME NEW s \in Session, HeartbeatKept(s)
    PROVE  /\ Cleaning(s, "CLEANUP_SYSTEM_FAILURE", "FAILED", TRUE) \in Session
           /\ HeartbeatKept(Cleaning(s, "CLEANUP_SYSTEM_FAILURE", "FAILED", TRUE))
           /\ Cleaning(s, "CLEANUP_SYSTEM_FAILURE", "FAILED", TRUE).phase = "CLEANUP_SYSTEM_FAILURE"
  <1>1. /\ StatusFor(s) \in Statuses /\ CleanupTimeout \in Nat /\ None \notin Statuses
        /\ "CLEANUP_SYSTEM_FAILURE" \in Phases /\ "FAILED" \in Reasons
    BY StatusForType, EngineAssumption, NoneAssumption DEF Phases, CleanupPhases, Reasons
  <1> DEFINE d == IF InCleanup(s) THEN s.deadline ELSE CleanupTimeout
             h == IF s.heartbeat = None THEN StatusFor(s) ELSE s.heartbeat
             n == Cleaning(s, "CLEANUP_SYSTEM_FAILURE", "FAILED", TRUE)
  <1>2. d \in Nat /\ h \in Statuses
    BY <1>1 DEF Session
  <1> HIDE DEF d, h
  <1>3. n = [s EXCEPT !.phase = "CLEANUP_SYSTEM_FAILURE", !.deadline = d, !.reason = "FAILED",
                      !.heartbeat = h]
    BY DEF Cleaning, Session, d, h
  <1>4. n \in Session
    BY ONLY <1>1, <1>2, <1>3, s \in Session DEF Session
  <1>5. n.phase = "CLEANUP_SYSTEM_FAILURE" /\ n.heartbeat = h
    BY ONLY <1>3, s \in Session DEF Session
  <1> QED
    BY <1>1, <1>2, <1>4, <1>5 DEF HeartbeatKept

\* The leg a pass discovers is one of the legs.
LEMMA AdoptedType ==
    ASSUME NEW s \in Session
    PROVE  /\ Adopted(s) \in Session
           /\ \A f \in DOMAIN s \ {"op"} : Adopted(s)[f] = s[f]
           /\ DOMAIN Adopted(s) = DOMAIN s
  <1>1. Tagged # {} => (CHOOSE o \in Tagged : TRUE) \in OpIds
    BY DEF Tagged
  <1> QED
    BY <1>1 DEF Adopted, Session

\* Saving a well-formed session keeps both copies well formed.
LEMMA SaveType ==
    ASSUME journal \in Session \cup {None}, HeartbeatKept(journal),
           NEW s \in Session, HeartbeatKept(s), Save(s)
    PROVE  /\ session' = s /\ session' \in Session /\ HeartbeatKept(session')
           /\ journal' \in Session \cup {None} /\ HeartbeatKept(journal')
  BY DEF Save

\* Ending a session, however it ends.
LEMMA EndedType ==
    ASSUME NEW s \in Session, NEW ph \in TerminalPhases, NEW r \in Reasons
    PROVE  /\ Ended(s, ph, r) \in Session
           /\ HeartbeatKept(Ended(s, ph, r))
           /\ Ended(s, ph, r).phase = ph
           /\ Ended(s, ph, r).reason = r
           /\ Ended(s, ph, r).disconnectAsked = s.disconnectAsked
           /\ Ended(s, ph, r).unholdAsked = s.unholdAsked
  <1>1. ph \in Phases /\ ph \notin CleanupPhases
    BY DEF Phases, TerminalPhases, CleanupPhases
  <1>2. /\ Ended(s, ph, r) \in Session
        /\ Ended(s, ph, r).phase = ph
        /\ Ended(s, ph, r).reason = r
        /\ Ended(s, ph, r).disconnectAsked = s.disconnectAsked
        /\ Ended(s, ph, r).unholdAsked = s.unholdAsked
    BY <1>1 DEF Ended, Session
  <1> QED
    BY <1>1, <1>2 DEF HeartbeatKept, InCleanup

LEMMA AbortedType ==
    ASSUME NEW s \in Session, HeartbeatKept(s), InCleanup(s)
    PROVE  /\ Aborted(s) \in Session
           /\ HeartbeatKept(Aborted(s))
           /\ Aborted(s).phase = "CLEANUP_ABORTED"
           /\ Aborted(s).reason = "CLEANUP_TIMEOUT"
           /\ Aborted(s).disconnectAsked = s.disconnectAsked
           /\ Aborted(s).unholdAsked = s.unholdAsked
  <1>1. s # None
    BY NoneAssumption
  <1> QED
    BY <1>1 DEF Aborted, Session, HeartbeatKept, InCleanup, CleanupPhases, Phases, Reasons

\* The part of the state that only Telecom, the history and the bounds touch.
SurroundingsOK ==
    /\ merged \in BOOLEAN
    /\ caller \in [state : CallerStates, trusted : BOOLEAN]
    /\ ops \in [OpIds -> [state : OpStates, tag : Tags]]
    /\ conf \in [state : ConfStates, kids : SUBSET Legs]
    /\ stranger \in {"NONE", "LIVE", "DISCONNECTING"}
    /\ asked \in [Commands -> Nat]
    /\ sessions \in 0 .. MaxSessions /\ crashes \in 0 .. MaxCrashes
    /\ glitches \in 0 .. MaxGlitches

\* The part of the state the engine's handlers touch.
EngineOK ==
    /\ up \in BOOLEAN /\ recovering \in BOOLEAN /\ pc \in Labels
    /\ session \in Session \cup {None} /\ journal \in Session \cup {None}
    /\ published \in [status : Statuses, reason : Reasons] \cup {None}
    /\ HeartbeatKept(session) /\ HeartbeatKept(journal) /\ HandlerHasSession

LEMMA TypeInvSplits == TypeInv <=> SurroundingsOK /\ EngineOK
  BY DEF TypeInv, TypeOK, SurroundingsOK, EngineOK

\* startCleanup() keeps the engine well formed, whatever session it is given.
LEMMA StartCleanupType ==
    ASSUME EngineOK, session # None, up,
           NEW s \in Session, HeartbeatKept(s), s.phase = session.phase,
           NEW ph \in CleanupPhases, NEW r \in Reasons, NEW u \in BOOLEAN,
           StartCleanup(s, ph, r, u)
    PROVE  EngineOK'
  <1>1. /\ Cleaning(s, ph, r, u) \in Session
        /\ HeartbeatKept(Cleaning(s, ph, r, u))
        /\ InCleanup(Cleaning(s, ph, r, u))
    BY CleaningType DEF InCleanup
  <1>2. /\ session' \in Session /\ HeartbeatKept(session') /\ InCleanup(session')
        /\ journal' \in Session \cup {None} /\ HeartbeatKept(journal')
    <2>1. CASE s.phase = "CLEANUP_ABORTED"
      BY <2>1 DEF StartCleanup, EngineOK, InCleanup, CleanupPhases
    <2>2. CASE s.phase # "CLEANUP_ABORTED"
      <3>1. Save(Cleaning(s, ph, r, u))
        BY <2>2 DEF StartCleanup
      <3> QED
        BY <1>1, <3>1, SaveType DEF EngineOK
    <2> QED
      BY <2>1, <2>2
  <1>3. pc' = "cleanup" /\ up' = up /\ recovering' = recovering /\ published' = published
    BY DEF StartCleanup, Goto
  <1> QED
    BY <1>2, <1>3, NoneAssumption DEF EngineOK, HandlerHasSession, Labels, InCleanup

-----------------------------------------------------------------------------
(* Type correctness.                                                       *)

LEMMA TypeInvInit == Init => TypeInv
  <1> SUFFICES ASSUME Init PROVE TypeInv
    OBVIOUS
  <1>1. {MaxSessions, MaxCrashes, MaxGlitches} \subseteq Nat
    BY EngineAssumption
  <1>2. sessions \in 0 .. MaxSessions /\ crashes \in 0 .. MaxCrashes /\ glitches \in 0 .. MaxGlitches
    BY <1>1 DEF Init
  <1>3. asked \in [Commands -> Nat] /\ merged \in BOOLEAN
    BY DEF Init, NothingAsked
  <1>4. /\ caller \in [state : CallerStates, trusted : BOOLEAN]
        /\ ops \in [OpIds -> [state : OpStates, tag : Tags]]
        /\ conf \in [state : ConfStates, kids : SUBSET Legs]
        /\ stranger \in {"NONE", "LIVE", "DISCONNECTING"}
    BY DEF Init, CallerStates, OpStates, Tags, ConfStates
  <1>5. SurroundingsOK
    BY <1>2, <1>3, <1>4 DEF SurroundingsOK
  <1>6. EngineOK
    BY DEF Init, EngineOK, HeartbeatKept, HandlerHasSession, Labels
  <1> QED
    BY <1>5, <1>6, TypeInvSplits

\* Handlers leave Telecom alone but for the leg they place and the legs that are
\* tagged on recovery.
LEMMA SurroundingsNext ==
    ASSUME SurroundingsOK, EngineOK, [Next]_vars
    PROVE  SurroundingsOK'
  <1> USE DEF SurroundingsOK
  <1>1. CASE UNCHANGED <<telecomVars, historyVars, sessions, crashes, glitches>>
    BY <1>1 DEF telecomVars, historyVars
  <1>2. ASSUME NEW e \in BOOLEAN, NEW h \in BOOLEAN, Begin(e, h) PROVE SurroundingsOK'
    <2>1. MaxSessions \in Nat
      BY EngineAssumption
    <2>2. sessions' \in 0 .. MaxSessions
      BY <1>2, <2>1 DEF Begin
    <2>3. asked' \in [Commands -> Nat] /\ merged' \in BOOLEAN
      BY <1>2 DEF Begin, NothingAsked
    <2>4. UNCHANGED <<crashes, glitches, caller, ops, conf, stranger>>
      BY <1>2 DEF Begin, telecomVars
    <2> QED
      BY <2>2, <2>3, <2>4
  <1>3. ASSUME NEW c \in Commands, Ask(c),
               UNCHANGED <<merged, caller, conf, stranger, sessions, crashes, glitches>>,
               ops' \in [OpIds -> [state : OpStates, tag : Tags]]
        PROVE  SurroundingsOK'
    BY <1>3 DEF Ask
  <1>4. ASSUME NEW ok \in BOOLEAN, PlaceCall(ok) PROVE SurroundingsOK'
    <2>1. ops' \in [OpIds -> [state : OpStates, tag : Tags]]
      BY <1>4 DEF PlaceCall, OpStates
    <2>2. UNCHANGED <<merged, caller, conf, stranger, sessions, crashes, glitches>>
      BY <1>4 DEF PlaceCall, Goto, FailSystem, StartCleanup
    <2> QED
      BY <1>3, <1>4, <2>1, <2>2 DEF PlaceCall, Commands
  <1>5. ASSUME NEW ok \in BOOLEAN, Hold(ok) \/ Conference(ok) \/ RecoverHold(ok)
        PROVE  SurroundingsOK'
    <2>1. UNCHANGED <<merged, caller, ops, conf, stranger, sessions, crashes, glitches>>
      BY <1>5 DEF Hold, Conference, RecoverHold, Goto, FailSystem, StartCleanup, telecomVars
    <2> QED
      BY <1>3, <1>5, <2>1 DEF Hold, Conference, RecoverHold, Commands
  <1>6. CASE Disconnect \/ Unhold
    <2>1. UNCHANGED <<merged, caller, ops, conf, stranger, sessions, crashes, glitches>>
      BY <1>6 DEF Disconnect, Unhold, Goto, telecomVars
    <2> QED
      BY <1>3, <1>6, <2>1 DEF Disconnect, Unhold, Commands
  <1>7. ASSUME NEW can \in BOOLEAN, Reconcile(can) PROVE SurroundingsOK'
    <2>1. UNCHANGED <<sessions, crashes, glitches>>
      BY <1>7 DEF Reconcile, StepHoldingCaller, StepWaitingDialing, StepDialing, StepWaitingRecorder,
         StepWaitingConferenceable, StepMerging, StepConferenced, FailSystem, FailNotConnected,
         StartCleanup, Stay, Goto
    <2> QED
      BY <1>7, <2>1 DEF Reconcile, telecomVars
  <1>8. CASE Recover
    BY <1>8 DEF Recover, historyVars, Tags
  <1>9. CASE Crash
    BY <1>9, EngineAssumption DEF Crash, telecomVars, historyVars
  <1>10. CASE Telecom
    <2> USE DEF NotEngine, historyVars
    <2>1. CASE CallerMoves \/ CallerRemoved
      BY <2>1 DEF CallerMoves, CallerRemoved, CallerStates
    <2>2. ASSUME NEW o \in OpIds, OpMoves(o) PROVE SurroundingsOK'
      BY <2>2 DEF OpMoves, OpSteps, OpStates, Tags
    <2>3. CASE ConfMoves
      BY <2>3 DEF ConfMoves, ConfStates, Legs
    <2>4. CASE Glitch
      <3>1. glitches' \in 0 .. MaxGlitches /\ UNCHANGED <<merged, asked, sessions, crashes>>
        BY <2>4, EngineAssumption DEF Glitch
      <3>2. ops' \in [OpIds -> [state : OpStates, tag : Tags]]
        BY <2>4 DEF Glitch, Tags
      <3>3. /\ caller' \in [state : CallerStates, trusted : BOOLEAN]
            /\ conf' \in [state : ConfStates, kids : SUBSET Legs]
            /\ stranger' \in {"NONE", "LIVE", "DISCONNECTING"}
        BY <2>4 DEF Glitch, ConfStates
      <3> QED
        BY <3>1, <3>2, <3>3
    <2>5. CASE StrangerEnds
      BY <2>5 DEF StrangerEnds
    <2> QED
      BY <1>10, <2>1, <2>2, <2>3, <2>4, <2>5 DEF Telecom
  <1>11. CASE \/ PublishAck \/ HoldUnavailable \/ ReconcileFailure \/ PublishProgress \/ AnswerAtOnce
             \/ RecoverUnowned \/ Republish \/ RecorderReady \/ ProtocolFailure \/ Tick
             \/ AdoptLate \/ MarkDisconnect \/ MarkSafe \/ FinishCallerEnded \/ OpenActiveWindow
             \/ FinishSafe \/ MarkUnhold \/ CloseActiveWindow \/ CleanupWaiting \/ PublishOutcome
             \/ \E r \in {"ANSWER_TIMEOUT", "HELPER_CANCELLED"} : Cancel(r)
    <2>1. UNCHANGED <<telecomVars, historyVars, sessions, crashes, glitches>>
      BY <1>11 DEF PublishAck, HoldUnavailable, ReconcileFailure, PublishProgress, AnswerAtOnce,
         RecoverUnowned, Republish, RecorderReady, ProtocolFailure, Tick, AdoptLate, MarkDisconnect,
         MarkSafe, FinishCallerEnded, OpenActiveWindow, FinishSafe, MarkUnhold, CloseActiveWindow,
         CleanupWaiting, PublishOutcome, Cancel, FailSystem, FailSystemNoUnhold, FailNotConnected,
         StartCleanup, Goto
    <2> QED
      BY <1>1, <2>1
  <1> QED
    BY <1>1, <1>2, <1>4, <1>5, <1>6, <1>7, <1>8, <1>9, <1>10, <1>11
       DEF Next, Handlers, Requests, Cleanup, vars

\* A handler that saves a well-formed session and goes on.
LEMMA SavedType ==
    ASSUME EngineOK, up,
           NEW s \in Session, HeartbeatKept(s), Save(s),
           NEW l \in Labels, Goto(l), UNCHANGED published,
           l = "aborted" => s.phase = "CLEANUP_ABORTED", l = "terminal" => Terminal(s),
           l = "cleanup" => InCleanup(s)
    PROVE  EngineOK'
  <1>1. /\ session' = s /\ session' \in Session /\ HeartbeatKept(session')
        /\ journal' \in Session \cup {None} /\ HeartbeatKept(journal')
    BY SaveType DEF EngineOK
  <1>2. pc' = l /\ up' = up /\ recovering' = recovering /\ published' = published
    BY DEF Goto
  <1> QED
    BY <1>1, <1>2, NoneAssumption DEF EngineOK, HandlerHasSession, Terminal, InCleanup

\* A handler that publishes and goes on.
LEMMA PublishedType ==
    ASSUME EngineOK, up, session # None,
           NEW st \in Statuses, NEW r \in Reasons, Publish(st, r),
           NEW l \in Labels \ {"aborted", "terminal", "cleanup"}, Goto(l), UNCHANGED <<session, journal>>
    PROVE  EngineOK'
  BY DEF EngineOK, HandlerHasSession, Publish, Goto, HeartbeatKept, InCleanup

\* Only telecom and the history move.
LEMMA EngineUnchanged ==
    ASSUME EngineOK, UNCHANGED engineVars PROVE EngineOK'
  BY DEF EngineOK, engineVars, HandlerHasSession, HeartbeatKept, InCleanup, Terminal

LEMMA GotoType ==
    ASSUME EngineOK, up, session # None, UNCHANGED <<session, journal, published>>,
           NEW l \in Labels \ {"aborted", "terminal", "cleanup"}, Goto(l)
    PROVE  EngineOK'
  BY DEF EngineOK, HandlerHasSession, Goto, HeartbeatKept, InCleanup

\* What failSystem() and failNotConnected() are given, in one fact.
LEMMA FailType ==
    ASSUME EngineOK, session # None, up,
           NEW s \in Session, HeartbeatKept(s), s.phase = session.phase,
           \/ FailSystem(s) \/ FailSystemNoUnhold(s)
           \/ FailNotConnected(s, "UNANSWERED") \/ FailNotConnected(s, "ANSWER_TIMEOUT")
           \/ StartCleanup(s, "CLEANUP_SYSTEM_FAILURE", "HELPER_CANCELLED", TRUE)
           \/ StartCleanup(s, "CLEANING_CALLER_HANGUP", "CALLER_HANGUP", TRUE)
           \/ StartCleanup(s, "RETURNING_CALLER", "OPERATOR_HANGUP", TRUE)
    PROVE  EngineOK'
  BY StartCleanupType DEF FailSystem, FailSystemNoUnhold, FailNotConnected, CleanupPhases, Reasons

LEMMA ReconcileType ==
    ASSUME EngineOK, NEW can \in BOOLEAN, Reconcile(can)
    PROVE  EngineOK'
  <1> DEFINE s == Adopted(session)
  <1>1. up /\ session \in Session /\ session # None /\ HeartbeatKept(session)
    BY DEF EngineOK, Reconcile, Reconciling
  <1>2. s \in Session /\ s.phase = session.phase /\ s.heartbeat = session.heartbeat
    BY <1>1, AdoptedType DEF Session
  <1>3. HeartbeatKept(s)
    BY <1>1, <1>2 DEF HeartbeatKept, InCleanup
  <1>4. ~InCleanup(s)
    BY <1>2 DEF Reconcile, InCleanup
  <1>5. {SetupTimeout, AnswerTimeout, RecorderTimeout, MergeTimeout} \subseteq Nat
    BY EngineAssumption
  <1> HIDE DEF s
  <1> USE DEF Labels, Terminal
  <1>6. ASSUME NEW n \in Session, NEW l \in {"held", "dialing", "answered", "merging", "conferenced"},
               ~InCleanup(n), Save(n), Goto(l), UNCHANGED published
        PROVE  EngineOK'
    <2>1. HeartbeatKept(n)
      BY <1>6 DEF HeartbeatKept
    <2> QED
      BY <1>1, <1>6, <2>1, SavedType
  <1>7. ASSUME Stay(s) PROVE EngineOK'
    BY <1>1, <1>2, <1>3, <1>7, SavedType DEF Stay
  <1>8. ASSUME \/ FailSystem(s) \/ FailNotConnected(s, "UNANSWERED")
               \/ FailNotConnected(s, "ANSWER_TIMEOUT")
               \/ StartCleanup(s, "RETURNING_CALLER", "OPERATOR_HANGUP", TRUE)
        PROVE  EngineOK'
    BY <1>1, <1>2, <1>3, <1>8, FailType
  <1>9. ASSUME NEW ph \in SetupPhases
        PROVE  /\ [s EXCEPT !.phase = ph] \in Session
               /\ ~InCleanup([s EXCEPT !.phase = ph])
    BY <1>2 DEF Session, Phases, InCleanup, SetupPhases, CleanupPhases
  <1>10. ASSUME NEW ph \in SetupPhases, NEW d \in Nat
         PROVE  /\ [s EXCEPT !.phase = ph, !.deadline = d] \in Session
                /\ ~InCleanup([s EXCEPT !.phase = ph, !.deadline = d])
    <2>1. ph \in Phases /\ ph \notin CleanupPhases
      BY DEF Phases, SetupPhases, CleanupPhases
    <2>2. /\ [s EXCEPT !.phase = ph, !.deadline = d] \in Session
          /\ [s EXCEPT !.phase = ph, !.deadline = d].phase = ph
      BY ONLY <1>2, <2>1, d \in Nat DEF Session
    <2> QED
      BY <2>1, <2>2 DEF InCleanup
  <1>11. CASE StepHoldingCaller(s)
    BY <1>6, <1>7, <1>8, <1>9, <1>11 DEF StepHoldingCaller, SetupPhases
  <1>12. CASE StepWaitingDialing(s)
    BY <1>5, <1>6, <1>7, <1>8, <1>10, <1>12 DEF StepWaitingDialing, SetupPhases
  <1>13. CASE StepDialing(s)
    BY <1>5, <1>6, <1>7, <1>8, <1>10, <1>13 DEF StepDialing, Answered, SetupPhases
  <1>14. CASE StepWaitingRecorder(s) \/ StepWaitingConferenceable(s, can)
    BY <1>6, <1>7, <1>8, <1>9, <1>14 DEF StepWaitingRecorder, StepWaitingConferenceable, SetupPhases
  <1>15. CASE StepMerging(s) \/ StepConferenced(s)
    <2> DEFINE n == [s EXCEPT !.phase = "CONFERENCED", !.conf = TRUE, !.deadline = 0]
    <2>1. n \in Session /\ ~InCleanup(n)
      BY <1>2 DEF Session, Phases, InCleanup, CleanupPhases
    <2> HIDE DEF n
    <2> QED
      BY <1>6, <1>7, <1>8, <1>15, <2>1 DEF StepMerging, StepConferenced, n
  <1> QED
    BY <1>11, <1>12, <1>13, <1>14, <1>15 DEF Reconcile, s

LEMMA CleanupType ==
    ASSUME EngineOK, Cleanup
    PROVE  EngineOK'
  <1> USE DEF Labels
  <1>1. ASSUME NEW n \in Session, HeartbeatKept(n), up, Save(n),
               NEW l \in {"cleanup", "disconnect", "unhold"}, Goto(l), UNCHANGED published,
               InCleanup(n)
        PROVE  EngineOK'
    BY <1>1, SavedType
  <1>2. CleanupRunning => /\ up /\ session \in Session /\ session # None
                          /\ HeartbeatKept(session) /\ InCleanup(session)
    BY DEF CleanupRunning, EngineOK, HandlerHasSession
  <1>3. CASE AdoptLate
    <2>1. PICK o \in Owned : Save([session EXCEPT !.op = o, !.safeFor = None, !.activeFor = None])
      BY <1>3 DEF AdoptLate
    <2> DEFINE n == [session EXCEPT !.op = o, !.safeFor = None, !.activeFor = None]
    <2>2. n \in Session /\ HeartbeatKept(n) /\ InCleanup(n)
      BY <1>2, <1>3 DEF AdoptLate, Session, HeartbeatKept, InCleanup, Owned
    <2> HIDE DEF n
    <2> QED
      BY <1>1, <1>2, <1>3, <2>1, <2>2 DEF AdoptLate, n
  <1>4. CASE MarkDisconnect
    <2> DEFINE n == [session EXCEPT !.disconnectAsked = TRUE, !.safeFor = None, !.activeFor = None]
    <2>1. n \in Session /\ HeartbeatKept(n) /\ InCleanup(n)
      BY <1>2, <1>4 DEF MarkDisconnect, CleanupReady, Session, HeartbeatKept, InCleanup
    <2> HIDE DEF n
    <2> QED
      BY <1>1, <1>2, <1>4, <2>1 DEF MarkDisconnect, CleanupReady, n
  <1>5. CASE MarkSafe \/ OpenActiveWindow \/ MarkUnhold \/ CloseActiveWindow
    <2>1. CleanupRunning
      BY <1>5 DEF MarkSafe, OpenActiveWindow, MarkUnhold, MayUnhold, CloseActiveWindow, WindowBroken,
         Settled, CleanupReady
    <2>2. /\ [session EXCEPT !.safeFor = 0] \in Session
          /\ HeartbeatKept([session EXCEPT !.safeFor = 0])
          /\ InCleanup([session EXCEPT !.safeFor = 0])
      BY <1>2, <2>1 DEF Session, HeartbeatKept, InCleanup
    <2>3. /\ [session EXCEPT !.activeFor = 0, !.activeSeen = TRUE] \in Session
          /\ HeartbeatKept([session EXCEPT !.activeFor = 0, !.activeSeen = TRUE])
          /\ InCleanup([session EXCEPT !.activeFor = 0, !.activeSeen = TRUE])
      BY <1>2, <2>1 DEF Session, HeartbeatKept, InCleanup
    <2>4. /\ [session EXCEPT !.unholdAsked = TRUE] \in Session
          /\ HeartbeatKept([session EXCEPT !.unholdAsked = TRUE])
          /\ InCleanup([session EXCEPT !.unholdAsked = TRUE])
      BY <1>2, <2>1 DEF Session, HeartbeatKept, InCleanup
    <2>5. /\ [session EXCEPT !.activeFor = None] \in Session
          /\ HeartbeatKept([session EXCEPT !.activeFor = None])
          /\ InCleanup([session EXCEPT !.activeFor = None])
      BY <1>2, <2>1 DEF Session, HeartbeatKept, InCleanup
    <2> QED
      BY <1>1, <1>2, <1>5, <2>1, <2>2, <2>3, <2>4, <2>5
         DEF MarkSafe, OpenActiveWindow, MarkUnhold, CloseActiveWindow
  <1>6. CASE Disconnect \/ Unhold
    <2>1. up /\ session # None
      BY <1>6 DEF Disconnect, Unhold, Running, EngineOK, HandlerHasSession
    <2> QED
      BY <1>6, <2>1, GotoType DEF Disconnect, Unhold
  <1>7. ASSUME NEW n \in Session, HeartbeatKept(n), up, Save(n), Terminal(n),
               Goto("terminal"), UNCHANGED published
        PROVE  EngineOK'
    BY <1>7, SavedType
  <1>8. CASE FinishCallerEnded
    <2>1. /\ Ended(session, "SYSTEM_FAILURE", "CLEANUP_TIMEOUT") \in Session
          /\ HeartbeatKept(Ended(session, "SYSTEM_FAILURE", "CLEANUP_TIMEOUT"))
          /\ Terminal(Ended(session, "SYSTEM_FAILURE", "CLEANUP_TIMEOUT"))
          /\ Ended(session, "COMPLETED", "CALLER_HANGUP") \in Session
          /\ HeartbeatKept(Ended(session, "COMPLETED", "CALLER_HANGUP"))
          /\ Terminal(Ended(session, "COMPLETED", "CALLER_HANGUP"))
      BY <1>2, <1>8, EndedType
         DEF FinishCallerEnded, Settled, CleanupReady, TerminalPhases, Reasons, Terminal
    <2> QED
      BY <1>2, <1>7, <1>8, <2>1 DEF FinishCallerEnded, Settled, CleanupReady
  <1>9. ASSUME CleanupRunning, Save(Aborted(session)), Goto("aborted"), UNCHANGED published,
               InCleanup(session)
        PROVE  EngineOK'
    BY <1>2, <1>9, AbortedType, SavedType
  <1>10. CASE FinishSafe
    <2>1. CleanupRunning /\ session.reason \in Reasons
      BY <1>2, <1>10 DEF FinishSafe, CallerStable, Settled, CleanupReady, Session
    <2>2. ASSUME NEW ph \in TerminalPhases, NEW r \in Reasons
          PROVE  /\ Ended(session, ph, r) \in Session
                 /\ HeartbeatKept(Ended(session, ph, r))
                 /\ Terminal(Ended(session, ph, r))
      BY <1>2, <2>1, EndedType DEF Terminal
    <2>3. CASE session.phase # "CLEANING_CALLER_HANGUP"
      <3>1. \E ph \in TerminalPhases, r \in Reasons : Save(Ended(session, ph, r))
        BY <1>10, <2>1, <2>3 DEF FinishSafe, TerminalPhases, Reasons
      <3> QED
        BY <1>2, <1>7, <1>10, <2>1, <2>2, <2>3, <3>1 DEF FinishSafe
    <2>4. CASE session.phase = "CLEANING_CALLER_HANGUP"
      BY <1>9, <1>10, <2>1, <2>4 DEF FinishSafe, InCleanup, CleanupPhases
    <2> QED
      BY <2>3, <2>4
  <1>11. CASE CleanupWaiting
    <2>1. CleanupRunning
      BY <1>11 DEF CleanupWaiting, CleanupWaits, WindowBroken, Settled, CleanupReady
    <2> QED
      BY <1>2, <1>9, <1>11, <2>1, GotoType DEF CleanupWaiting
  <1>12. CASE PublishOutcome
    <2>1. up /\ session \in Session /\ session # None /\ HeartbeatKept(session)
      BY <1>12 DEF PublishOutcome, EngineOK, HandlerHasSession
    <2>2. StatusFor(session) \in Statuses /\ session.reason \in Reasons
      BY <2>1, StatusForType DEF Session
    <2> QED
      BY <1>12, <2>1, <2>2, PublishedType DEF PublishOutcome
  <1> QED
    BY <1>3, <1>4, <1>5, <1>6, <1>8, <1>10, <1>11, <1>12 DEF Cleanup

LEMMA BeginType ==
    ASSUME EngineOK, NEW e \in BOOLEAN, NEW h \in BOOLEAN, Begin(e, h)
    PROVE  EngineOK'
  <1>1. ASSUME NEW ph \in {"HOLDING_CALLER", "SYSTEM_FAILURE"}, NEW d \in Nat, NEW r \in {"-", "FAILED"}
        PROVE  /\ NewSession(ph, d, r) \in Session
               /\ HeartbeatKept(NewSession(ph, d, r))
               /\ NewSession(ph, d, r).phase = ph
    BY DEF NewSession, Session, Phases, SetupPhases, TerminalPhases, CleanupPhases, Reasons,
       HeartbeatKept, InCleanup
  <1>2. SetupTimeout \in Nat
    BY EngineAssumption
  <1>3. up /\ up' = up /\ recovering' = recovering /\ published' = None /\ ~recovering
    BY DEF Begin, Running
  <1>4. CASE BeginValid(e)
    <2>1. PICK d \in Nat : Save(NewSession("HOLDING_CALLER", d, "-"))
      BY <1>2, <1>4 DEF Begin
    <2>2. /\ session' \in Session /\ HeartbeatKept(session')
          /\ journal' \in Session \cup {None} /\ HeartbeatKept(journal')
      BY <1>1, <2>1, SaveType DEF EngineOK
    <2>3. pc' \in {"ack", "ack_no_hold"}
      BY <1>4 DEF Begin
    <2> QED
      BY <1>3, <2>2, <2>3, NoneAssumption DEF EngineOK, HandlerHasSession, Labels
  <1>5. CASE ~BeginValid(e)
    <2>1. Save(NewSession("SYSTEM_FAILURE", 0, "FAILED")) /\ pc' = "terminal"
      BY <1>5 DEF Begin
    <2>2. /\ session' \in Session /\ HeartbeatKept(session') /\ Terminal(session')
          /\ journal' \in Session \cup {None} /\ HeartbeatKept(journal')
      BY <1>1, <2>1, SaveType DEF EngineOK, Terminal, TerminalPhases
    <2> QED
      BY <1>3, <2>1, <2>2, NoneAssumption DEF EngineOK, HandlerHasSession, Labels, Terminal
  <1> QED
    BY <1>4, <1>5

LEMMA RecoverType ==
    ASSUME EngineOK, Recover \/ Crash \/ RecoverUnowned \/ Republish
                     \/ \E ok \in BOOLEAN : RecoverHold(ok)
    PROVE  EngineOK'
  <1> USE DEF Labels
  <1>1. CASE Recover
    <2>1. /\ session' = journal /\ journal' = journal /\ published' = published
          /\ up' = TRUE
      BY <1>1 DEF Recover
    <2>2. /\ pc' \in {"idle", "terminal", "reconcile", "unowned", "rehold"}
          /\ recovering' \in BOOLEAN
          /\ pc' # "idle" \/ recovering' => journal # None
          /\ pc' = "terminal" => Terminal(journal)
      BY <1>1 DEF Recover
    <2> QED
      BY <2>1, <2>2 DEF EngineOK, HandlerHasSession, HeartbeatKept, InCleanup, Terminal
  <1>2. CASE Crash
    BY <1>2 DEF Crash, EngineOK, HandlerHasSession, HeartbeatKept, InCleanup
  <1>3. CASE RecoverUnowned
    BY <1>3, FailType DEF RecoverUnowned, Running, EngineOK, HandlerHasSession
  <1>4. ASSUME NEW ok \in BOOLEAN, RecoverHold(ok) PROVE EngineOK'
    <2>1. up /\ session \in Session /\ session # None /\ HeartbeatKept(session) /\ up' = up
          /\ published' = published
      BY <1>4 DEF RecoverHold, Running, EngineOK, HandlerHasSession
    <2>2. CASE ok
      BY <1>4, <2>1, <2>2 DEF RecoverHold, EngineOK, HandlerHasSession, HeartbeatKept, InCleanup
    <2>3. CASE ~ok
      <3> DEFINE n == Cleaning(session, "CLEANUP_SYSTEM_FAILURE", "FAILED", TRUE)
      <3>1. n \in Session /\ HeartbeatKept(n) /\ n.phase = "CLEANUP_SYSTEM_FAILURE"
        <4>1. session \in Session /\ HeartbeatKept(session)
          BY <2>1
        <4> QED
          BY ONLY <4>1, FailedType
      <3>2. Save(n) /\ pc' = "cleanup" /\ recovering' = FALSE
        BY <1>4, <2>3 DEF RecoverHold
      <3> HIDE DEF n
      <3>3. /\ session' = n
            /\ journal' \in Session \cup {None} /\ HeartbeatKept(journal')
        BY <3>1, <3>2, SaveType DEF EngineOK
      <3> QED
        BY <2>1, <3>1, <3>2, <3>3, NoneAssumption
           DEF EngineOK, HandlerHasSession, HeartbeatKept, InCleanup, CleanupPhases
    <2> QED
      BY <2>2, <2>3
  <1>5. CASE Republish
    <2>1. session \in Session /\ session # None /\ HeartbeatKept(session)
      BY <1>5 DEF Republish, EngineOK, HandlerHasSession
    <2>2. StatusFor(session) \in Statuses
      BY <2>1, StatusForType
    <2>3. published' \in [status : Statuses, reason : Reasons] \cup {None}
      BY <1>5, <2>2 DEF Republish, Publish, EngineOK, Reasons
    <2> QED
      BY <1>5, <2>3 DEF Republish, Running, EngineOK, HandlerHasSession, HeartbeatKept, InCleanup
  <1> QED
    BY <1>1, <1>2, <1>3, <1>4, <1>5

\* Time only changes the three clocks of a session.
LEMMA AgedType ==
    ASSUME NEW s \in Session
    PROVE  /\ Aged(s) \in Session
           /\ Aged(s).phase = s.phase /\ Aged(s).reason = s.reason
           /\ Aged(s).heartbeat = s.heartbeat
           /\ Aged(s).disconnectAsked = s.disconnectAsked
           /\ Aged(s).unholdAsked = s.unholdAsked
  <1>1. s # None /\ GraceTime \in Nat /\ StableTime \in Nat
    BY EngineAssumption, NoneAssumption
  <1>2. \A age \in Nat \cup {None}, lim \in Nat : Older(age, lim) \in Nat \cup {None}
    BY DEF Older
  <1>3. \A d \in Nat : (IF d > 0 THEN d - 1 ELSE 0) \in Nat
    OBVIOUS
  <1> QED
    BY <1>1, <1>2, <1>3 DEF Aged, Session

LEMMA TickType ==
    ASSUME EngineOK, Tick
    PROVE  EngineOK'
  <1>1. ASSUME NEW s \in Session \cup {None}, HeartbeatKept(s)
        PROVE  Aged(s) \in Session \cup {None} /\ HeartbeatKept(Aged(s))
               /\ (s = None <=> Aged(s) = None)
    BY <1>1, AgedType, NoneAssumption DEF HeartbeatKept, InCleanup, Aged
  <1> QED
    BY <1>1 DEF Tick, Quiet, EngineOK, HandlerHasSession

LEMMA EngineNext ==
    ASSUME EngineOK, [Next]_vars
    PROVE  EngineOK'
  <1> USE DEF Labels
  <1>1. ASSUME up, pc # "idle" PROVE session \in Session /\ session # None /\ HeartbeatKept(session)
    BY <1>1 DEF EngineOK, HandlerHasSession
  <1>2. CASE PublishAck \/ PublishProgress
    <2>1. PICK st \in {"ACK", "CALLER_HELD", "DIALING", "OPERATOR_ANSWERED", "MERGING", "CONFERENCED"},
               l \in {"hold", "hold_unavailable", "place", "answer", "idle", "conference"} :
             Publish(st, "-") /\ Goto(l)
      BY <1>2 DEF PublishAck, PublishProgress
    <2>2. up /\ session # None /\ UNCHANGED <<session, journal>>
      BY <1>1, <1>2 DEF PublishAck, PublishProgress
    <2>3. st \in Statuses /\ "-" \in Reasons /\ l \in Labels \ {"aborted", "terminal", "cleanup"}
      BY DEF Statuses, LiveStatuses, Reasons
    <2> QED
      BY <2>1, <2>2, <2>3, PublishedType
  <1>3. CASE HoldUnavailable
    BY <1>1, <1>3, FailType DEF HoldUnavailable, Running
  <1>4. ASSUME NEW ok \in BOOLEAN, Hold(ok) \/ PlaceCall(ok) \/ Conference(ok)
        PROVE  EngineOK'
    <2>1. up /\ session \in Session /\ session # None /\ HeartbeatKept(session)
      BY <1>1, <1>4 DEF Hold, PlaceCall, Conference, Running
    <2>2. \/ Goto("idle") /\ UNCHANGED <<session, journal, published>>
          \/ FailSystem(session)
      BY <1>4 DEF Hold, PlaceCall, Conference
    <2> QED
      BY <2>1, <2>2, GotoType, FailType
  <1>5. CASE ReconcileFailure
    <2>1. up /\ session \in Session /\ session # None /\ HeartbeatKept(session)
      BY <1>5 DEF ReconcileFailure, Reconciling, EngineOK
    <2>2. /\ Adopted(session) \in Session
          /\ Adopted(session).phase = session.phase /\ HeartbeatKept(Adopted(session))
      BY <2>1, AdoptedType DEF Session, HeartbeatKept, InCleanup
    <2> QED
      BY <1>5, <2>1, <2>2, FailType DEF ReconcileFailure
  <1>6. CASE \E can \in BOOLEAN : Reconcile(can)
    BY <1>6, ReconcileType
  <1>7. CASE AnswerAtOnce
    <2>1. up /\ session \in Session /\ RecorderTimeout \in Nat
      BY <1>1, <1>7, EngineAssumption DEF AnswerAtOnce, Running
    <2>2. Answered(session) \in Session /\ HeartbeatKept(Answered(session))
      BY <2>1 DEF Answered, Session, Phases, SetupPhases, CleanupPhases, HeartbeatKept, InCleanup
    <2> QED
      BY <1>7, <2>1, <2>2, SavedType DEF AnswerAtOnce
  <1>8. ASSUME RecorderReady \/ ProtocolFailure
               \/ \E r \in {"ANSWER_TIMEOUT", "HELPER_CANCELLED"} : Cancel(r)
        PROVE  EngineOK'
    <2>1. up /\ session \in Session /\ session # None /\ HeartbeatKept(session)
      BY <1>8 DEF RecorderReady, ProtocolFailure, Cancel, Running, EngineOK
    <2> DEFINE n == [session EXCEPT !.phase = "WAITING_CONFERENCEABLE", !.deadline = MergeTimeout]
    <2>2. n \in Session /\ HeartbeatKept(n)
      BY <2>1, EngineAssumption DEF Session, Phases, SetupPhases, CleanupPhases, HeartbeatKept, InCleanup
    <2> HIDE DEF n
    <2>3. ASSUME Save(n) /\ Goto("reconcile") /\ UNCHANGED published PROVE EngineOK'
      BY <2>1, <2>2, <2>3, SavedType
    <2>4. CASE RecorderReady
      BY <2>1, <2>3, <2>4, FailType DEF RecorderReady, n
    <2>5. CASE ProtocolFailure
      BY <2>1, <2>5, FailType DEF ProtocolFailure
    <2>6. ASSUME NEW r \in {"ANSWER_TIMEOUT", "HELPER_CANCELLED"}, Cancel(r) PROVE EngineOK'
      <3>1. ASSUME Goto("cleanup"), UNCHANGED <<session, journal, published>>,
                   session.phase = "CLEANUP_NOT_CONNECTED"
            PROVE  EngineOK'
        BY <2>1, <3>1 DEF EngineOK, HandlerHasSession, Goto, HeartbeatKept, InCleanup, CleanupPhases
      <3> QED
        BY <2>1, <2>6, <3>1, FailType DEF Cancel
    <2> QED
      BY <1>8, <2>4, <2>5, <2>6
  <1>9. CASE Telecom
    BY <1>9, EngineUnchanged DEF Telecom, CallerMoves, CallerRemoved, OpMoves, ConfMoves, Glitch,
       StrangerEnds, NotEngine
  <1>10. CASE UNCHANGED vars
    BY <1>10, EngineUnchanged DEF vars
  <1> QED
    BY <1>2, <1>3, <1>4, <1>5, <1>6, <1>7, <1>8, <1>9, <1>10, BeginType, CleanupType, RecoverType,
       TickType DEF Next, Handlers, Requests

LEMMA TypeInvNext == ASSUME TypeInv, [Next]_vars PROVE TypeInv'
  <1>1. SurroundingsOK' /\ EngineOK'
    BY TypeInvSplits, SurroundingsNext, EngineNext
  <1> QED
    BY <1>1 DEF SurroundingsOK, EngineOK, TypeInv, TypeOK

\* Every variable keeps the type the code gives it, for every value of the
\* timeouts, however often the process dies, and even if journal writes fail.
THEOREM TypeCorrect == Spec => []TypeOK
  <1>1. Init => TypeInv
    BY TypeInvInit
  <1>2. TypeInv /\ [Next]_vars => TypeInv'
    BY TypeInvNext
  <1>3. TypeInv => TypeOK
    BY DEF TypeInv
  <1> QED
    BY <1>1, <1>2, <1>3, PTL DEF Spec

-----------------------------------------------------------------------------
(* Commands are given once.                                                *)

\* The markers of a session and how far it came are never taken back.
Keeps(j, n) ==
    /\ j.phase \in Placed => n.phase \in Placed
    /\ j.phase \in MergeAsked => n.phase \in MergeAsked
    /\ j.disconnectAsked => n.disconnectAsked
    /\ j.unholdAsked => n.unholdAsked

\* The labels of handlers that are not about to give a command.
PlainLabels == Labels \ {"held", "place", "dialing", "answer", "merging", "conference",
                         "disconnect", "unhold"}

\* A handler saves a session that keeps the markers.
LEMMA FlightSave ==
    ASSUME ~JournalMayFail, TypeInv, FlightInv, up, session # None,
           NEW n, Save(n), Keeps(session, n), n # None,
           UNCHANGED asked, AboutToGive'
    PROVE  FlightInv'
  <1>1. session' = n /\ journal' = n /\ session = journal
    BY DEF Save, FlightInv, Journalled
  <1>2. GivenIsJournalled'
    BY <1>1 DEF FlightInv, GivenIsJournalled, Keeps
  <1> QED
    BY <1>1, <1>2 DEF FlightInv, Journalled, SingleFlight

LEMMA PlainAbout == ASSUME pc' \in PlainLabels PROVE AboutToGive'
  BY DEF AboutToGive, PlainLabels

\* Entering a cleanup keeps the markers and is past every command of the setup.
LEMMA CleaningKeeps ==
    ASSUME NEW s \in Session, NEW j \in Session,
           s.disconnectAsked = j.disconnectAsked, s.unholdAsked = j.unholdAsked,
           NEW ph \in CleanupPhases, NEW r, NEW u
    PROVE  /\ Keeps(j, Cleaning(s, ph, r, u))
           /\ Cleaning(s, ph, r, u).phase = ph
           /\ Cleaning(s, ph, r, u).reason = r
           /\ Cleaning(s, ph, r, u).disconnectAsked = s.disconnectAsked
           /\ Cleaning(s, ph, r, u).unholdAsked = s.unholdAsked
  BY DEF Cleaning, Session, Keeps, Placed, MergeAsked, CleanupPhases, Phases

\* What startCleanup() does to both copies of the session.
LEMMA StartCleanupKeeps ==
    ASSUME ~JournalMayFail, TypeInv, Journalled, up, session # None,
           NEW s \in Session, HeartbeatKept(s), s.phase = session.phase,
           s.disconnectAsked = session.disconnectAsked, s.unholdAsked = session.unholdAsked,
           NEW ph \in CleanupPhases, NEW r \in Reasons, NEW u \in BOOLEAN,
           StartCleanup(s, ph, r, u)
    PROVE  /\ session' = journal' /\ journal' \in Session /\ journal' # None
           /\ journal'.phase \in CleanupPhases
           /\ journal'.phase = "RETURNING_CALLER" => ph = "RETURNING_CALLER"
           /\ Keeps(journal, journal') /\ pc' = "cleanup" /\ UNCHANGED <<up, published>>
  <1>1. session \in Session /\ session = journal
    BY DEF TypeInv, TypeOK, Journalled
  <1>2. pc' = "cleanup" /\ UNCHANGED <<up, published>>
    BY DEF StartCleanup, Goto
  <1>3. CASE s.phase = "CLEANUP_ABORTED"
    BY <1>1, <1>2, <1>3 DEF StartCleanup, Keeps, CleanupPhases
  <1>4. CASE s.phase # "CLEANUP_ABORTED"
    <2> DEFINE n == Cleaning(s, ph, r, u)
    <2>1. session' = n /\ journal' = n
      BY <1>4 DEF StartCleanup, Save
    <2>2. n \in Session /\ n.phase = ph
      BY CleaningType
    <2>3. Keeps(journal, n)
      BY <1>1, CleaningKeeps
    <2> HIDE DEF n
    <2> QED
      BY <1>2, <2>1, <2>2, <2>3, NoneAssumption
  <1> QED
    BY <1>3, <1>4

\* The ways a handler gives the call up.
GivesUp(s) ==
    \/ FailSystem(s) \/ FailSystemNoUnhold(s)
    \/ FailNotConnected(s, "UNANSWERED") \/ FailNotConnected(s, "ANSWER_TIMEOUT")
    \/ StartCleanup(s, "CLEANUP_SYSTEM_FAILURE", "HELPER_CANCELLED", TRUE)
    \/ StartCleanup(s, "CLEANING_CALLER_HANGUP", "CALLER_HANGUP", TRUE)

LEMMA GivesUpKeeps ==
    ASSUME ~JournalMayFail, TypeInv, Journalled, up, session # None,
           NEW s \in Session, HeartbeatKept(s), s.phase = session.phase,
           s.disconnectAsked = session.disconnectAsked, s.unholdAsked = session.unholdAsked,
           GivesUp(s) \/ StartCleanup(s, "RETURNING_CALLER", "OPERATOR_HANGUP", TRUE)
    PROVE  /\ session' = journal' /\ journal' \in Session /\ journal' # None
           /\ journal'.phase \in CleanupPhases
           /\ GivesUp(s) => journal'.phase # "RETURNING_CALLER"
           /\ Keeps(journal, journal') /\ pc' = "cleanup" /\ UNCHANGED <<up, published>>
  <1> USE DEF CleanupPhases, Reasons, FailSystem, FailSystemNoUnhold, FailNotConnected
  <1>1. CASE StartCleanup(s, "RETURNING_CALLER", "OPERATOR_HANGUP", TRUE) /\ ~GivesUp(s)
    BY <1>1, StartCleanupKeeps
  <1>2. CASE GivesUp(s)
    BY <1>2, StartCleanupKeeps DEF GivesUp
  <1> QED
    BY <1>1, <1>2

\* A pass hands on the session it adopted a leg in.
LEMMA AdoptedKeeps ==
    ASSUME TypeInv, session # None
    PROVE  /\ session \in Session /\ Adopted(session) \in Session
           /\ HeartbeatKept(session) /\ HeartbeatKept(Adopted(session))
           /\ Adopted(session).phase = session.phase
           /\ Adopted(session).reason = session.reason
           /\ Adopted(session).disconnectAsked = session.disconnectAsked
           /\ Adopted(session).unholdAsked = session.unholdAsked
  <1>1. session \in Session /\ HeartbeatKept(session)
    BY DEF TypeInv, TypeOK
  <1>2. /\ Adopted(session) \in Session
        /\ Adopted(session).phase = session.phase
        /\ Adopted(session).reason = session.reason
        /\ Adopted(session).heartbeat = session.heartbeat
        /\ Adopted(session).disconnectAsked = session.disconnectAsked
        /\ Adopted(session).unholdAsked = session.unholdAsked
    BY <1>1, AdoptedType DEF Session
  <1> QED
    BY <1>1, <1>2 DEF HeartbeatKept, InCleanup

LEMMA FailFlight ==
    ASSUME ~JournalMayFail, TypeInv, FlightInv, up, session # None, UNCHANGED asked,
           NEW s \in {session, Adopted(session)},
           GivesUp(s) \/ StartCleanup(s, "RETURNING_CALLER", "OPERATOR_HANGUP", TRUE)
    PROVE  FlightInv'
  <1>1. /\ session' = journal' /\ journal' # None /\ Keeps(journal, journal')
        /\ pc' = "cleanup" /\ up' = up
    BY AdoptedKeeps, GivesUpKeeps DEF FlightInv
  <1>2. AboutToGive'
    BY <1>1, PlainAbout DEF PlainLabels, Labels
  <1>3. GivenIsJournalled'
    BY <1>1 DEF FlightInv, GivenIsJournalled, Keeps
  <1> QED
    BY <1>1, <1>2, <1>3 DEF FlightInv, Journalled, SingleFlight

\* One pass of reconcile() over the phases of the setup.
LEMMA ReconcileFlight ==
    ASSUME ~JournalMayFail, TypeInv, FlightInv, NEW can \in BOOLEAN, Reconcile(can)
    PROVE  FlightInv'
  <1> DEFINE s == Adopted(session)
  <1>1. up /\ session # None /\ UNCHANGED asked /\ session = journal
    BY DEF Reconcile, Reconciling, FlightInv, Journalled
  <1>2. /\ session \in Session /\ s \in Session /\ s.phase = session.phase
        /\ s.disconnectAsked = session.disconnectAsked
        /\ s.unholdAsked = session.unholdAsked
    BY <1>1, AdoptedKeeps
  <1>3. s # None /\ s \in {session, Adopted(session)}
    BY <1>2, NoneAssumption
  <1> HIDE DEF s
  <1>4. ASSUME GivesUp(s) \/ StartCleanup(s, "RETURNING_CALLER", "OPERATOR_HANGUP", TRUE)
        PROVE  FlightInv'
    BY <1>1, <1>3, <1>4, FailFlight
  <1>5. ASSUME Stay(s) PROVE FlightInv'
    <2>1. AboutToGive'
      BY <1>5, PlainAbout DEF Stay, Goto, PlainLabels, Labels
    <2>2. Keeps(session, s)
      BY <1>2 DEF Keeps
    <2> QED
      BY <1>1, <1>3, <1>5, <2>1, <2>2, FlightSave DEF Stay
  <1>6. ASSUME NEW n \in Session, Save(n), Keeps(session, n), AboutToGive'
        PROVE  FlightInv'
    BY <1>1, <1>6, FlightSave, NoneAssumption
  <1> USE DEF SetupPhases, CleanupPhases, TerminalPhases
  <1>7. CASE StepHoldingCaller(s)
    <2>1. CASE caller.state = "HOLDING"
      <3> DEFINE n == [s EXCEPT !.phase = "WAITING_DIALING"]
      <3>1. /\ n \in Session /\ n.phase = "WAITING_DIALING"
            /\ n.disconnectAsked = s.disconnectAsked /\ n.unholdAsked = s.unholdAsked
        BY <1>2 DEF Session, Phases
      <3>2. Save(n) /\ pc' = "held" /\ session.phase = "HOLDING_CALLER"
        BY <1>2, <1>7, <2>1 DEF StepHoldingCaller, Goto
      <3> HIDE DEF n
      <3>3. Keeps(session, n)
        BY <1>2, <3>1, <3>2 DEF Keeps, Placed, MergeAsked, Phases
      <3>4. journal' = n
        BY <3>2 DEF Save
      <3>5. asked["place"] = 0
        BY <1>1, <3>2 DEF FlightInv, GivenIsJournalled, Placed, TypeInv, TypeOK, Commands
      <3>6. AboutToGive'
        BY <1>1, <3>1, <3>2, <3>4, <3>5 DEF AboutToGive, Placed, Phases
      <3> QED
        BY <1>6, <3>1, <3>2, <3>3, <3>6
    <2>2. CASE caller.state # "HOLDING"
      BY <1>4, <1>5, <1>7, <2>2 DEF StepHoldingCaller, GivesUp
    <2> QED
      BY <2>1, <2>2
  <1>8. CASE StepWaitingDialing(s)
    <2>1. CASE OpState(s) \in {"DIALING", "ACTIVE"}
      <3> DEFINE n == [s EXCEPT !.phase = "DIALING", !.deadline = AnswerTimeout]
      <3>1. /\ n \in Session /\ n.phase = "DIALING"
            /\ n.disconnectAsked = s.disconnectAsked /\ n.unholdAsked = s.unholdAsked
        BY <1>2, EngineAssumption DEF Session, Phases
      <3>2. Save(n) /\ pc' = "dialing" /\ session.phase = "WAITING_DIALING"
        BY <1>2, <1>8, <2>1 DEF StepWaitingDialing, Goto
      <3> HIDE DEF n
      <3>3. Keeps(session, n)
        BY <1>2, <3>1, <3>2 DEF Keeps, Placed, MergeAsked, Phases
      <3>4. AboutToGive'
        BY <3>1, <3>2 DEF AboutToGive, Save
      <3> QED
        BY <1>6, <3>1, <3>2, <3>3, <3>4
    <2>2. CASE OpState(s) \notin {"DIALING", "ACTIVE"}
      BY <1>4, <1>5, <1>8, <2>2 DEF StepWaitingDialing, GivesUp
    <2> QED
      BY <2>1, <2>2
  <1>9. CASE StepDialing(s)
    <2>1. CASE OpState(s) = "ACTIVE"
      <3>1. /\ Answered(s) \in Session /\ Answered(s).phase = "WAITING_RECORDER"
            /\ Answered(s).disconnectAsked = s.disconnectAsked
            /\ Answered(s).unholdAsked = s.unholdAsked
        BY <1>2, EngineAssumption DEF Answered, Session, Phases
      <3>2. Save(Answered(s)) /\ pc' = "answered" /\ session.phase = "DIALING"
        BY <1>2, <1>9, <2>1 DEF StepDialing, Goto
      <3>3. Keeps(session, Answered(s))
        BY <1>2, <3>1, <3>2 DEF Keeps, Placed, MergeAsked, Phases
      <3>4. AboutToGive'
        BY <3>2, PlainAbout DEF PlainLabels, Labels
      <3> QED
        BY <1>6, <3>1, <3>2, <3>3, <3>4
    <2>2. CASE OpState(s) # "ACTIVE"
      BY <1>4, <1>5, <1>9, <2>2 DEF StepDialing, GivesUp
    <2> QED
      BY <2>1, <2>2
  <1>10. CASE StepWaitingRecorder(s)
    BY <1>4, <1>5, <1>10 DEF StepWaitingRecorder, GivesUp
  <1>11. CASE StepWaitingConferenceable(s, can)
    <2> DEFINE n == [s EXCEPT !.phase = "MERGING"]
    <2>1. CASE Save(n) /\ Goto("merging")
      <3>1. /\ n \in Session /\ n.phase = "MERGING"
            /\ n.disconnectAsked = s.disconnectAsked /\ n.unholdAsked = s.unholdAsked
        BY <1>2 DEF Session, Phases
      <3>2. pc' = "merging" /\ session.phase = "WAITING_CONFERENCEABLE"
        BY <1>2, <1>11, <2>1 DEF StepWaitingConferenceable, Goto
      <3> HIDE DEF n
      <3>3. Keeps(session, n)
        BY <1>2, <3>1, <3>2 DEF Keeps, Placed, MergeAsked, Phases
      <3>4. asked["merge"] = 0
        BY <1>1, <3>2 DEF FlightInv, GivenIsJournalled, MergeAsked, TypeInv, TypeOK, Commands
      <3>5. AboutToGive'
        BY <1>1, <2>1, <3>1, <3>2, <3>4 DEF AboutToGive, Save
      <3> QED
        BY <1>6, <2>1, <3>1, <3>3, <3>5
    <2>2. CASE ~(Save(n) /\ Goto("merging"))
      BY <1>4, <1>5, <1>11, <2>2 DEF StepWaitingConferenceable, GivesUp
    <2> QED
      BY <2>1, <2>2
  <1>12. CASE StepMerging(s)
    <2> DEFINE n == [s EXCEPT !.phase = "CONFERENCED", !.conf = TRUE, !.deadline = 0]
    <2>1. CASE Save(n) /\ Goto("conferenced")
      <3>1. /\ n \in Session /\ n.phase = "CONFERENCED"
            /\ n.disconnectAsked = s.disconnectAsked /\ n.unholdAsked = s.unholdAsked
        BY <1>2 DEF Session, Phases
      <3> HIDE DEF n
      <3>2. Keeps(session, n)
        BY <1>2, <3>1 DEF Keeps, Placed, MergeAsked, Phases
      <3>3. AboutToGive'
        BY <2>1, PlainAbout DEF PlainLabels, Labels, Goto
      <3> QED
        BY <1>6, <2>1, <3>1, <3>2, <3>3
    <2>2. CASE ~(Save(n) /\ Goto("conferenced"))
      BY <1>4, <1>5, <1>12, <2>2 DEF StepMerging, GivesUp
    <2> QED
      BY <2>1, <2>2
  <1>13. CASE StepConferenced(s)
    BY <1>4, <1>5, <1>13 DEF StepConferenced
  <1> QED
    BY <1>7, <1>8, <1>9, <1>10, <1>11, <1>12, <1>13 DEF Reconcile, s

\* The cleanup marks a command in the journal before it gives it.
LEMMA CleanupFlight ==
    ASSUME ~JournalMayFail, TypeInv, FlightInv, Cleanup
    PROVE  FlightInv'
  <1>1. CleanupRunning => /\ up /\ session \in Session /\ session # None /\ session = journal
                          /\ InCleanup(session)
    BY DEF CleanupRunning, TypeInv, TypeOK, HandlerHasSession, FlightInv, Journalled
  <1>2. ASSUME NEW n \in Session, CleanupRunning, Save(n), UNCHANGED asked, AboutToGive',
               n.phase \in Placed, n.phase \in MergeAsked,
               session.disconnectAsked => n.disconnectAsked, session.unholdAsked => n.unholdAsked
        PROVE  FlightInv'
    BY <1>1, <1>2, FlightSave, NoneAssumption DEF Keeps
  <1>3. ASSUME NEW ph \in CleanupPhases \cup TerminalPhases PROVE ph \in Placed /\ ph \in MergeAsked
    BY DEF CleanupPhases, TerminalPhases, Placed, MergeAsked, Phases
  <1>4. CleanupRunning => session.phase \in Placed /\ session.phase \in MergeAsked
    BY <1>1, <1>3 DEF InCleanup
  <1>5. CASE AdoptLate
    <2>1. PICK o \in Owned : Save([session EXCEPT !.op = o, !.safeFor = None, !.activeFor = None])
      BY <1>5 DEF AdoptLate
    <2> DEFINE n == [session EXCEPT !.op = o, !.safeFor = None, !.activeFor = None]
    <2>2. /\ n \in Session /\ n.phase = session.phase
          /\ n.disconnectAsked = session.disconnectAsked /\ n.unholdAsked = session.unholdAsked
      BY <1>1, <1>5 DEF AdoptLate, Session, Owned
    <2> HIDE DEF n
    <2>3. CleanupRunning /\ UNCHANGED asked /\ AboutToGive'
      BY <1>5, PlainAbout DEF AdoptLate, Goto, PlainLabels, Labels, historyVars
    <2> QED
      BY <1>2, <1>4, <2>1, <2>2, <2>3 DEF n
  <1>6. CASE MarkDisconnect
    <2> DEFINE n == [session EXCEPT !.disconnectAsked = TRUE, !.safeFor = None, !.activeFor = None]
    <2>1. CleanupRunning /\ Save(n) /\ UNCHANGED asked /\ pc' = "disconnect"
      BY <1>6 DEF MarkDisconnect, CleanupReady, Goto, historyVars
    <2>2. /\ n \in Session /\ n.phase = session.phase
          /\ n.disconnectAsked /\ n.unholdAsked = session.unholdAsked
      BY <1>1, <2>1 DEF Session
    <2> HIDE DEF n
    <2>3. asked["disconnect"] = 0
      BY <1>1, <1>6, <2>1 DEF MarkDisconnect, MayDisconnect, FlightInv, GivenIsJournalled,
         TypeInv, TypeOK, Commands
    <2>4. AboutToGive'
      BY <2>1, <2>2, <2>3 DEF AboutToGive, Save
    <2> QED
      BY <1>2, <1>4, <2>1, <2>2, <2>4
  <1>7. CASE MarkUnhold
    <2> DEFINE n == [session EXCEPT !.unholdAsked = TRUE]
    <2>1. CleanupRunning /\ Save(n) /\ UNCHANGED asked /\ pc' = "unhold"
      BY <1>7 DEF MarkUnhold, MayUnhold, Settled, CleanupReady, Goto, historyVars
    <2>2. /\ n \in Session /\ n.phase = session.phase
          /\ n.unholdAsked /\ n.disconnectAsked = session.disconnectAsked
      BY <1>1, <2>1 DEF Session
    <2> HIDE DEF n
    <2>3. asked["unhold"] = 0
      BY <1>1, <1>7, <2>1 DEF MarkUnhold, MayUnhold, FlightInv, GivenIsJournalled,
         TypeInv, TypeOK, Commands
    <2>4. AboutToGive'
      BY <2>1, <2>2, <2>3 DEF AboutToGive, Save
    <2> QED
      BY <1>2, <1>4, <2>1, <2>2, <2>4
  <1>8. ASSUME NEW c \in {"disconnect", "unhold"}, up, pc = c, Ask(c), Goto("idle"),
               UNCHANGED <<session, journal>>
        PROVE  FlightInv'
    <2>1. asked'[c] = 1 /\ \A d \in Commands \ {c} : asked'[d] = asked[d]
      BY <1>8 DEF Ask, FlightInv, AboutToGive, TypeInv, TypeOK, Commands
    <2>2. journal # None
      BY <1>8 DEF TypeInv, HandlerHasSession, FlightInv, Journalled
    <2>3. GivenIsJournalled'
      BY <1>8, <2>1, <2>2 DEF FlightInv, GivenIsJournalled, AboutToGive, Commands
    <2>4. SingleFlight'
      BY <2>1 DEF FlightInv, SingleFlight, Commands
    <2>5. AboutToGive' /\ Journalled'
      BY <1>8, PlainAbout DEF Goto, PlainLabels, Labels, Journalled, FlightInv
    <2> QED
      BY <2>3, <2>4, <2>5 DEF FlightInv
  <1>9. CASE Disconnect \/ Unhold
    BY <1>8, <1>9 DEF Disconnect, Unhold, Running
  <1>10. CASE MarkSafe \/ OpenActiveWindow \/ CloseActiveWindow
    <2>1. CleanupRunning /\ UNCHANGED asked /\ AboutToGive'
      BY <1>10, PlainAbout DEF MarkSafe, OpenActiveWindow, CloseActiveWindow, WindowBroken, Settled,
         CleanupReady, Goto, PlainLabels, Labels, historyVars
    <2>2. PICK n \in {[session EXCEPT !.safeFor = 0],
                      [session EXCEPT !.activeFor = 0, !.activeSeen = TRUE],
                      [session EXCEPT !.activeFor = None]} : Save(n)
      BY <1>10 DEF MarkSafe, OpenActiveWindow, CloseActiveWindow
    <2>3. /\ n \in Session /\ n.phase = session.phase
          /\ n.disconnectAsked = session.disconnectAsked /\ n.unholdAsked = session.unholdAsked
      <3>1. CASE n = [session EXCEPT !.safeFor = 0]
        BY <1>1, <2>1, <3>1 DEF Session
      <3>2. CASE n = [session EXCEPT !.activeFor = 0, !.activeSeen = TRUE]
        BY <1>1, <2>1, <3>2 DEF Session
      <3>3. CASE n = [session EXCEPT !.activeFor = None]
        BY <1>1, <2>1, <3>3 DEF Session
      <3> QED
        BY <3>1, <3>2, <3>3
    <2> QED
      BY <1>2, <1>4, <2>1, <2>2, <2>3
  <1>11. ASSUME CleanupRunning, UNCHANGED asked, AboutToGive',
                NEW n \in {Aborted(session)} \cup
                           {Ended(session, ph, r) : ph \in TerminalPhases, r \in Reasons},
                Save(n)
         PROVE  FlightInv'
    <2>1. /\ n \in Session /\ n.phase \in CleanupPhases \cup TerminalPhases
          /\ n.disconnectAsked = session.disconnectAsked /\ n.unholdAsked = session.unholdAsked
      <3>1. CASE n = Aborted(session)
        BY <1>1, <1>11, <3>1, AbortedType DEF TypeInv, CleanupPhases
      <3>2. ASSUME NEW ph \in TerminalPhases, NEW r \in Reasons, n = Ended(session, ph, r)
            PROVE  /\ n \in Session /\ n.phase \in CleanupPhases \cup TerminalPhases
                   /\ n.disconnectAsked = session.disconnectAsked
                   /\ n.unholdAsked = session.unholdAsked
        BY <1>1, <1>11, <3>2, EndedType
      <3> QED
        BY <1>11, <3>1, <3>2
    <2> QED
      BY <1>2, <1>3, <1>11, <2>1
  <1>12. CASE FinishCallerEnded \/ FinishSafe
    <2>1. CleanupRunning /\ UNCHANGED asked /\ AboutToGive'
      BY <1>12, PlainAbout DEF FinishCallerEnded, FinishSafe, CallerStable, Settled, CleanupReady,
         Goto, PlainLabels, Labels, historyVars
    <2>2. session.reason \in Reasons
      BY <1>1, <2>1 DEF Session
    <2>3. \E n \in {Aborted(session)} \cup
                    {Ended(session, ph, r) : ph \in TerminalPhases, r \in Reasons} : Save(n)
      BY <1>12, <2>2 DEF FinishCallerEnded, FinishSafe, TerminalPhases, Reasons
    <2> QED
      BY <1>11, <2>1, <2>3
  <1>13. ASSUME UNCHANGED <<session, journal, asked, up>>, pc' \in PlainLabels PROVE FlightInv'
    BY <1>13, PlainAbout DEF FlightInv, Journalled, GivenIsJournalled, SingleFlight
  <1>14. CASE CleanupWaiting
    <2>1. CleanupRunning /\ UNCHANGED <<asked, up>> /\ pc' \in PlainLabels
      BY <1>14 DEF CleanupWaiting, CleanupWaits, WindowBroken, Settled, CleanupReady, Goto,
         PlainLabels, Labels, historyVars
    <2> QED
      BY <1>11, <1>13, <1>14, <2>1, PlainAbout DEF CleanupWaiting
  <1>15. CASE PublishOutcome
    BY <1>13, <1>15 DEF PublishOutcome, Goto, PlainLabels, Labels, historyVars
  <1> QED
    BY <1>5, <1>6, <1>7, <1>9, <1>10, <1>12, <1>14, <1>15 DEF Cleanup

LEMMA FlightNext ==
    ASSUME ~JournalMayFail, TypeInv, FlightInv, [Next]_vars
    PROVE  FlightInv'
  <1> USE DEF Labels
  <1>1. asked \in [Commands -> Nat] /\ (up => session = journal)
    BY DEF TypeInv, TypeOK, FlightInv, Journalled
  <1>2. ASSUME up, session # None
        PROVE  /\ session \in Session /\ journal = session /\ session \in {session, Adopted(session)}
    BY <1>1, <1>2 DEF TypeInv, TypeOK
  <1>3. ASSUME UNCHANGED <<session, journal, asked, up>>, pc' \in PlainLabels \/ pc' = pc
        PROVE  FlightInv'
    BY <1>3, PlainAbout DEF FlightInv, Journalled, GivenIsJournalled, SingleFlight, AboutToGive
  <1>4. ASSUME NEW e \in BOOLEAN, NEW h \in BOOLEAN, Begin(e, h) PROVE FlightInv'
    <2>1. \A c \in Commands : asked'[c] = 0
      BY <1>4 DEF Begin, NothingAsked
    <2>2. session' = journal' /\ pc' \in {"ack", "ack_no_hold", "terminal"}
      BY <1>4 DEF Begin, Save
    <2>3. AboutToGive'
      BY <2>2, PlainAbout DEF PlainLabels
    <2> QED
      BY <2>1, <2>2, <2>3 DEF FlightInv, Journalled, GivenIsJournalled, SingleFlight, Commands
  <1>5. CASE PublishAck
    BY <1>3, <1>5 DEF PublishAck, Goto, PlainLabels, historyVars
  <1>6. CASE PublishProgress
    <2>1. UNCHANGED <<session, journal, asked, up>>
      BY <1>6 DEF PublishProgress, Goto, historyVars
    <2>2. /\ pc' \in {"place", "answer", "conference", "idle"}
          /\ pc' = "place" => pc = "held"
          /\ pc' = "answer" => pc = "dialing"
          /\ pc' = "conference" => pc = "merging"
      BY <1>6 DEF PublishProgress, Goto
    <2> QED
      BY <2>1, <2>2 DEF FlightInv, Journalled, GivenIsJournalled, SingleFlight, AboutToGive
  <1>7. ASSUME NEW c \in Commands, NEW ok \in BOOLEAN, up, session # None, Ask(c),
               \/ Goto("idle") /\ UNCHANGED <<session, journal>>
               \/ FailSystem(session),
               c # "hold" => /\ asked[c] = 0
                             /\ c = "place" => journal.phase \in Placed
                             /\ c = "merge" => journal.phase \in MergeAsked,
               c \in {"hold", "place", "merge"}
        PROVE  FlightInv'
    <2>1. asked'[c] = asked[c] + 1 /\ \A d \in Commands \ {c} : asked'[d] = asked[d]
      BY <1>1, <1>7 DEF Ask
    <2>2. /\ session' = journal' /\ journal' # None /\ Keeps(journal, journal')
          /\ pc' \in {"idle", "cleanup"} /\ up' = up
      <3>1. CASE Goto("idle") /\ UNCHANGED <<session, journal>>
        BY <1>2, <1>7, <3>1 DEF Goto, Keeps
      <3>2. CASE FailSystem(session)
        BY <1>2, <1>7, <3>2, AdoptedKeeps, GivesUpKeeps DEF GivesUp, FlightInv
      <3> QED
        BY <1>7, <3>1, <3>2
    <2>3. AboutToGive'
      BY <2>2, PlainAbout DEF PlainLabels
    <2>4. GivenIsJournalled'
      BY <1>1, <1>7, <2>1, <2>2 DEF FlightInv, GivenIsJournalled, Keeps, Commands
    <2>5. SingleFlight'
      BY <1>1, <1>7, <2>1 DEF FlightInv, SingleFlight, Commands
    <2> QED
      BY <2>2, <2>3, <2>4, <2>5 DEF FlightInv, Journalled
  <1>8. ASSUME NEW ok \in BOOLEAN, Hold(ok) PROVE FlightInv'
    BY <1>7, <1>8 DEF Hold, Running, Commands, TypeInv, HandlerHasSession
  <1>9. ASSUME NEW ok \in BOOLEAN, PlaceCall(ok) PROVE FlightInv'
    BY <1>7, <1>9 DEF PlaceCall, Running, Commands, TypeInv, HandlerHasSession, FlightInv, AboutToGive
  <1>10. ASSUME NEW ok \in BOOLEAN, Conference(ok) PROVE FlightInv'
    BY <1>7, <1>10 DEF Conference, Running, Commands, TypeInv, HandlerHasSession, FlightInv,
       AboutToGive, MergeAsked
  <1>11. CASE HoldUnavailable \/ RecoverUnowned \/ ProtocolFailure
    BY <1>2, <1>11, FailFlight DEF HoldUnavailable, RecoverUnowned, ProtocolFailure, Running, GivesUp,
       TypeInv, HandlerHasSession, historyVars
  <1>12. CASE ReconcileFailure
    BY <1>2, <1>12, FailFlight DEF ReconcileFailure, Reconciling, GivesUp, historyVars
  <1>13. CASE \E can \in BOOLEAN : Reconcile(can)
    BY <1>13, ReconcileFlight
  <1>14. CASE AnswerAtOnce
    <2>1. up /\ session # None /\ session \in Session /\ session.phase = "DIALING"
          /\ UNCHANGED asked /\ Save(Answered(session)) /\ pc' = "answered"
      BY <1>2, <1>14 DEF AnswerAtOnce, Running, TypeInv, HandlerHasSession, FlightInv, AboutToGive,
         Goto, historyVars
    <2>2. /\ Answered(session) \in Session /\ Answered(session).phase = "WAITING_RECORDER"
          /\ Answered(session).disconnectAsked = session.disconnectAsked
          /\ Answered(session).unholdAsked = session.unholdAsked
      BY <2>1, EngineAssumption DEF Answered, Session, Phases, SetupPhases
    <2>3. Keeps(session, Answered(session))
      BY <2>1, <2>2 DEF Keeps, Placed, MergeAsked, Phases, SetupPhases, CleanupPhases, TerminalPhases
    <2>4. AboutToGive'
      BY <2>1, PlainAbout DEF PlainLabels
    <2> QED
      BY <2>1, <2>2, <2>3, <2>4, FlightSave, NoneAssumption
  <1>15. CASE RecorderReady
    <2>1. up /\ session # None /\ session \in Session /\ UNCHANGED asked
      BY <1>2, <1>15 DEF RecorderReady, Running, historyVars
    <2> DEFINE n == [session EXCEPT !.phase = "WAITING_CONFERENCEABLE", !.deadline = MergeTimeout]
    <2>2. /\ n \in Session /\ n.phase = "WAITING_CONFERENCEABLE"
          /\ n.disconnectAsked = session.disconnectAsked /\ n.unholdAsked = session.unholdAsked
      BY <2>1, EngineAssumption DEF Session, Phases, SetupPhases
    <2> HIDE DEF n
    <2>3. ASSUME Save(n), Goto("reconcile"), session.phase = "WAITING_RECORDER" PROVE FlightInv'
      <3>1. Keeps(session, n)
        BY <2>2, <2>3 DEF Keeps, Placed, MergeAsked, Phases, SetupPhases, CleanupPhases, TerminalPhases
      <3>2. AboutToGive'
        BY <2>3, PlainAbout DEF PlainLabels, Goto
      <3> QED
        BY <2>1, <2>2, <2>3, <3>1, <3>2, FlightSave, NoneAssumption
    <2> QED
      BY <1>2, <1>15, <2>1, <2>3, FailFlight DEF RecorderReady, GivesUp, n
  <1>16. ASSUME NEW r \in {"ANSWER_TIMEOUT", "HELPER_CANCELLED"}, Cancel(r) PROVE FlightInv'
    <2>1. up /\ session # None /\ UNCHANGED asked
      BY <1>16 DEF Cancel, Running, historyVars
    <2>2. ASSUME Goto("cleanup"), UNCHANGED <<session, journal, published>> PROVE FlightInv'
      BY <1>3, <2>1, <2>2 DEF Goto, PlainLabels
    <2> QED
      BY <1>2, <1>16, <2>1, <2>2, FailFlight DEF Cancel, GivesUp
  <1>17. CASE Crash
    BY <1>17, PlainAbout DEF Crash, FlightInv, Journalled, GivenIsJournalled, SingleFlight,
       PlainLabels, historyVars
  <1>18. CASE Recover
    <2>1. session' = journal' /\ UNCHANGED <<journal, asked>>
      BY <1>18 DEF Recover, historyVars
    <2>2. pc' \in PlainLabels
      BY <1>18 DEF Recover, PlainLabels
    <2> QED
      BY <2>1, <2>2, PlainAbout DEF FlightInv, Journalled, GivenIsJournalled, SingleFlight
  <1>19. ASSUME NEW ok \in BOOLEAN, RecoverHold(ok) PROVE FlightInv'
    <2>1. /\ \A d \in Commands \ {"hold"} : asked'[d] = asked[d]
          /\ up /\ session # None /\ session \in Session /\ journal = session
      BY <1>1, <1>2, <1>19 DEF RecoverHold, Ask, Running, TypeInv, HandlerHasSession
    <2>2. session' = journal' /\ journal' # None /\ Keeps(journal, journal')
      <3>1. CASE ok
        BY <1>19, <2>1, <3>1 DEF RecoverHold, Keeps
      <3>2. CASE ~ok
        <4> DEFINE n == Cleaning(session, "CLEANUP_SYSTEM_FAILURE", "FAILED", TRUE)
        <4>1. "CLEANUP_SYSTEM_FAILURE" \in CleanupPhases /\ "FAILED" \in Reasons /\ TRUE \in BOOLEAN
          BY DEF CleanupPhases, Reasons
        <4>2. n \in Session /\ Keeps(journal, n)
          BY <2>1, <4>1, CleaningType, CleaningKeeps DEF TypeInv
        <4>3. Save(n)
          BY <1>19, <3>2 DEF RecoverHold
        <4> HIDE DEF n
        <4> QED
          BY <4>2, <4>3, NoneAssumption DEF Save
      <3> QED
        BY <3>1, <3>2
    <2>3. AboutToGive' /\ up' = up
      BY <1>19, PlainAbout DEF RecoverHold, PlainLabels
    <2>4. GivenIsJournalled' /\ SingleFlight'
      BY <2>1, <2>2 DEF FlightInv, GivenIsJournalled, SingleFlight, Keeps, Commands
    <2> QED
      BY <2>2, <2>3, <2>4 DEF FlightInv, Journalled
  <1>20. CASE Republish
    BY <1>3, <1>20 DEF Republish, historyVars
  <1>21. CASE Telecom
    BY <1>3, <1>21 DEF Telecom, CallerMoves, CallerRemoved, OpMoves, ConfMoves, Glitch,
       StrangerEnds, NotEngine, engineVars, historyVars
  <1>22. CASE Tick
    <2>1. /\ session' = Aged(session) /\ journal' = Aged(journal) /\ pc' = "idle"
          /\ UNCHANGED <<up, asked>>
      BY <1>22 DEF Tick, Quiet, historyVars
    <2>2. journal # None => /\ journal' # None /\ journal'.phase = journal.phase
                            /\ journal'.disconnectAsked = journal.disconnectAsked
                            /\ journal'.unholdAsked = journal.unholdAsked
      BY <2>1, AgedType, NoneAssumption DEF TypeInv, TypeOK
    <2>3. AboutToGive'
      BY <2>1, PlainAbout DEF PlainLabels
    <2> QED
      BY <2>1, <2>2, <2>3 DEF FlightInv, Journalled, GivenIsJournalled, SingleFlight
  <1>23. CASE UNCHANGED vars
    BY <1>3, <1>23 DEF vars, engineVars, historyVars
  <1> QED
    BY <1>4, <1>5, <1>6, <1>8, <1>9, <1>10, <1>11, <1>12, <1>13, <1>14, <1>15, <1>16, <1>17, <1>18,
       <1>19, <1>20, <1>21, <1>22, <1>23, CleanupFlight DEF Next, Handlers, Requests

LEMMA FlightInit == Init => FlightInv
  <1> SUFFICES ASSUME Init PROVE FlightInv
    OBVIOUS
  <1>1. \A c \in Commands : asked[c] = 0
    BY DEF Init, NothingAsked
  <1> QED
    BY <1>1 DEF Init, FlightInv, Journalled, GivenIsJournalled, AboutToGive, SingleFlight, Commands

\* ExternalCallEngine.kt journals every marker before it commands Telecom, so no
\* process death makes it dial, merge, disconnect or unhold twice in a session,
\* provided that journal writes succeed.
THEOREM CommandsOnce == ASSUME ~JournalMayFail PROVE Spec => []SingleFlight
  <1>1. Init => TypeInv /\ FlightInv
    BY TypeInvInit, FlightInit
  <1>2. TypeInv /\ FlightInv /\ [Next]_vars => TypeInv' /\ FlightInv'
    BY TypeInvNext, FlightNext
  <1>3. FlightInv => SingleFlight
    BY DEF FlightInv
  <1> QED
    BY <1>1, <1>2, <1>3, PTL DEF Spec

-----------------------------------------------------------------------------
(* What a step may do to the journalled session, seen from the outcomes.   *)

Talked(j) == \/ j.phase \in {"CONFERENCED", "RETURNING_CALLER"}
             \/ j.phase = "COMPLETED" /\ j.reason = "OPERATOR_HANGUP"

\* A step of a handler other than begin(): it ends a session only where nothing
\* of it is left, and a talk is only claimed after a verified conference.
HandlerStep ==
    /\ journal' # None /\ journal # None
    /\ Talked(journal') => Talked(journal) \/ merged'
    /\ merged => merged'
    /\ Terminal(journal') => Terminal(journal) \/ (CleanupReady /\ AllClear /\ UNCHANGED ops)

\* Nothing that matters to the outcome changes.
QuietStep ==
    /\ journal' = None <=> journal = None
    /\ journal # None => journal'.phase = journal.phase /\ journal'.reason = journal.reason
    /\ merged' = merged

LEMMA GivesUpStep ==
    ASSUME ~JournalMayFail, TypeInv, Journalled, up, session # None,
           NEW s \in {session, Adopted(session)}, GivesUp(s), merged' = merged
    PROVE  HandlerStep
  <1>1. /\ journal' # None /\ journal'.phase \in CleanupPhases
        /\ journal'.phase # "RETURNING_CALLER" /\ journal # None
    BY AdoptedKeeps, GivesUpKeeps DEF Journalled
  <1> QED
    BY <1>1 DEF HandlerStep, Talked, Terminal, CleanupPhases, TerminalPhases

LEMMA ReconcileStep ==
    ASSUME ~JournalMayFail, TypeInv, Journalled, NEW can \in BOOLEAN, Reconcile(can)
    PROVE  HandlerStep
  <1> DEFINE s == Adopted(session)
  <1>1. /\ up /\ session # None /\ journal = session
        /\ merged' = (merged \/ session'.phase = "CONFERENCED")
    BY DEF Reconcile, Reconciling, Journalled
  <1>2. s \in Session /\ s.phase = session.phase /\ s.reason = session.reason
    BY <1>1, AdoptedKeeps
  <1> HIDE DEF s
  <1>3. ASSUME NEW ph \in SetupPhases \cup {"CONFERENCED"}, NEW n, Save(n), n \in Session, n.phase = ph
        PROVE  HandlerStep
    <2>1. session' = n /\ journal' = n
      BY <1>3 DEF Save
    <2> QED
      BY <1>1, <1>3, <2>1, NoneAssumption
         DEF HandlerStep, Talked, Terminal, SetupPhases, TerminalPhases
  <1>4. ASSUME GivesUp(s) PROVE HandlerStep
    <2>1. /\ journal' # None /\ journal'.phase \in CleanupPhases
          /\ journal'.phase # "RETURNING_CALLER" /\ session' = journal'
      BY <1>1, <1>4, AdoptedKeeps, GivesUpKeeps DEF s
    <2> QED
      BY <1>1, <2>1 DEF HandlerStep, Talked, Terminal, CleanupPhases, TerminalPhases
  <1>5. ASSUME Stay(s) PROVE HandlerStep
    <2>1. session' = s /\ journal' = s
      BY <1>5 DEF Stay, Save
    <2> QED
      BY <1>1, <1>2, <2>1, NoneAssumption DEF HandlerStep, Talked, Terminal
  <1> USE DEF SetupPhases
  <1>6. ASSUME NEW ph \in SetupPhases, NEW d \in Nat
        PROVE  /\ [s EXCEPT !.phase = ph] \in Session
               /\ [s EXCEPT !.phase = ph].phase = ph
               /\ [s EXCEPT !.phase = ph, !.deadline = d] \in Session
               /\ [s EXCEPT !.phase = ph, !.deadline = d].phase = ph
    <2>1. ph \in Phases
      BY DEF Phases
    <2> QED
      BY ONLY <1>2, <2>1, d \in Nat DEF Session
  <1>7. {AnswerTimeout, RecorderTimeout} \subseteq Nat
    BY EngineAssumption
  <1>8. CASE StepHoldingCaller(s) \/ StepWaitingDialing(s)
    BY <1>3, <1>4, <1>5, <1>6, <1>7, <1>8 DEF StepHoldingCaller, StepWaitingDialing, GivesUp
  <1>9. CASE StepDialing(s) \/ StepWaitingRecorder(s)
    BY <1>3, <1>4, <1>5, <1>6, <1>7, <1>9 DEF StepDialing, StepWaitingRecorder, Answered, GivesUp
  <1>10. CASE StepWaitingConferenceable(s, can)
    BY <1>3, <1>4, <1>5, <1>6, <1>7, <1>10 DEF StepWaitingConferenceable, GivesUp
  <1>11. CASE StepMerging(s)
    <2> DEFINE n == [s EXCEPT !.phase = "CONFERENCED", !.conf = TRUE, !.deadline = 0]
    <2>1. n \in Session /\ n.phase = "CONFERENCED"
      BY <1>2 DEF Session, Phases
    <2> HIDE DEF n
    <2> QED
      BY <1>3, <1>4, <1>5, <1>11, <2>1 DEF StepMerging, GivesUp, n
  <1>12. CASE StepConferenced(s)
    <2>1. CASE StartCleanup(s, "RETURNING_CALLER", "OPERATOR_HANGUP", TRUE)
      <3>1. journal' # None /\ journal'.phase \in CleanupPhases /\ session.phase = "CONFERENCED"
        BY <1>1, <1>2, <1>12, <2>1, AdoptedKeeps, GivesUpKeeps DEF s, StepConferenced
      <3> QED
        BY <1>1, <3>1 DEF HandlerStep, Talked, Terminal, CleanupPhases, TerminalPhases
    <2> QED
      BY <1>5, <1>12, <2>1 DEF StepConferenced
  <1> QED
    BY <1>8, <1>9, <1>10, <1>11, <1>12 DEF Reconcile, s

LEMMA CleanupStep ==
    ASSUME ~JournalMayFail, TypeInv, Journalled, Cleanup
    PROVE  HandlerStep \/ QuietStep
  <1>1. CleanupRunning => up /\ session \in Session /\ session # None /\ session = journal
    BY DEF CleanupRunning, TypeInv, TypeOK, Journalled
  <1>2. CASE UNCHANGED <<journal, merged>>
    BY <1>2 DEF QuietStep
  <1>3. ASSUME CleanupRunning, UNCHANGED merged, NEW n \in Session, Save(n),
               n.phase = session.phase, n.reason = session.reason
        PROVE  QuietStep
    BY <1>1, <1>3, NoneAssumption DEF QuietStep, Save
  <1>4. CASE AdoptLate
    <2>1. PICK o \in Owned : Save([session EXCEPT !.op = o, !.safeFor = None, !.activeFor = None])
      BY <1>4 DEF AdoptLate
    <2> DEFINE n == [session EXCEPT !.op = o, !.safeFor = None, !.activeFor = None]
    <2>2. n \in Session /\ n.phase = session.phase /\ n.reason = session.reason
      BY <1>1, <1>4 DEF AdoptLate, Session, Owned
    <2> HIDE DEF n
    <2> QED
      BY <1>3, <1>4, <2>1, <2>2 DEF AdoptLate, historyVars, n
  <1>5. CASE MarkDisconnect \/ MarkSafe \/ OpenActiveWindow \/ MarkUnhold \/ CloseActiveWindow
    <2>1. CleanupRunning /\ UNCHANGED merged
      BY <1>5 DEF MarkDisconnect, MarkSafe, OpenActiveWindow, MarkUnhold, MayUnhold, CloseActiveWindow,
         WindowBroken, Settled, CleanupReady, historyVars
    <2>2. PICK n : /\ Save(n)
                   /\ \/ n = [session EXCEPT !.disconnectAsked = TRUE, !.safeFor = None,
                                             !.activeFor = None]
                      \/ n = [session EXCEPT !.safeFor = 0]
                      \/ n = [session EXCEPT !.activeFor = 0, !.activeSeen = TRUE]
                      \/ n = [session EXCEPT !.unholdAsked = TRUE]
                      \/ n = [session EXCEPT !.activeFor = None]
      BY <1>5 DEF MarkDisconnect, MarkSafe, OpenActiveWindow, MarkUnhold, CloseActiveWindow
    <2>3. n \in Session /\ n.phase = session.phase /\ n.reason = session.reason
      <3>1. CASE n = [session EXCEPT !.disconnectAsked = TRUE, !.safeFor = None, !.activeFor = None]
        BY <1>1, <2>1, <3>1 DEF Session
      <3>2. CASE n = [session EXCEPT !.safeFor = 0]
        BY <1>1, <2>1, <3>2 DEF Session
      <3>3. CASE n = [session EXCEPT !.activeFor = 0, !.activeSeen = TRUE]
        BY <1>1, <2>1, <3>3 DEF Session
      <3>4. CASE n = [session EXCEPT !.unholdAsked = TRUE]
        BY <1>1, <2>1, <3>4 DEF Session
      <3>5. CASE n = [session EXCEPT !.activeFor = None]
        BY <1>1, <2>1, <3>5 DEF Session
      <3> QED
        BY <2>2, <3>1, <3>2, <3>3, <3>4, <3>5
    <2> QED
      BY <1>3, <2>1, <2>2, <2>3
  <1>6. ASSUME CleanupReady, AllClear, UNCHANGED <<merged, ops>>,
               NEW ph \in TerminalPhases, NEW r \in Reasons, Save(Ended(session, ph, r)),
               ph = "COMPLETED" /\ r = "OPERATOR_HANGUP" => session.phase = "RETURNING_CALLER"
        PROVE  HandlerStep
    <2>1. session \in Session /\ session # None /\ session = journal
      BY <1>1, <1>6 DEF CleanupReady
    <2>2. /\ Ended(session, ph, r) \in Session
          /\ Ended(session, ph, r).phase = ph /\ Ended(session, ph, r).reason = r
      BY <2>1, EndedType
    <2> QED
      BY <1>6, <2>1, <2>2, NoneAssumption
         DEF HandlerStep, Save, Talked, Terminal, TerminalPhases
  <1>7. ASSUME CleanupRunning, UNCHANGED merged, Save(Aborted(session)) PROVE HandlerStep
    <2>1. /\ session \in Session /\ session # None /\ session = journal
          /\ InCleanup(session) /\ HeartbeatKept(session)
      BY <1>1, <1>7 DEF CleanupRunning, TypeInv, HandlerHasSession
    <2>2. Aborted(session) \in Session /\ Aborted(session).phase = "CLEANUP_ABORTED"
      BY <2>1, AbortedType
    <2> QED
      BY <1>7, <2>1, <2>2, NoneAssumption DEF HandlerStep, Save, Talked, Terminal, TerminalPhases
  <1>8. CASE FinishCallerEnded
    BY <1>6, <1>8 DEF FinishCallerEnded, Settled, TerminalPhases, Reasons, historyVars, telecomVars
  <1>9. CASE FinishSafe
    <2>1. /\ CleanupReady /\ AllClear /\ CleanupRunning /\ UNCHANGED <<merged, ops>>
          /\ session.reason \in Reasons
      BY <1>1, <1>9 DEF FinishSafe, CallerStable, Settled, CleanupReady, historyVars, telecomVars, Session
    <2> QED
      BY <1>6, <1>7, <1>9, <2>1 DEF FinishSafe, TerminalPhases, Reasons
  <1>10. CASE CleanupWaiting
    <2>1. CleanupRunning /\ UNCHANGED merged
      BY <1>10 DEF CleanupWaiting, CleanupWaits, WindowBroken, Settled, CleanupReady, historyVars
    <2> QED
      BY <1>2, <1>7, <1>10, <2>1 DEF CleanupWaiting
  <1>11. CASE Disconnect \/ Unhold \/ PublishOutcome
    BY <1>2, <1>11 DEF Disconnect, Unhold, PublishOutcome, historyVars
  <1> QED
    BY <1>4, <1>5, <1>8, <1>9, <1>10, <1>11 DEF Cleanup

\* Every step begins a session, is a step of a handler, or leaves the outcome.
LEMMA OutcomeStep ==
    ASSUME ~JournalMayFail, TypeInv, FlightInv, [Next]_vars
    PROVE  HandlerStep \/ QuietStep \/ \E e, h \in BOOLEAN : Begin(e, h)
  <1>1. Journalled /\ (up /\ session # None => session \in {session, Adopted(session)})
    BY DEF FlightInv
  <1>2. ASSUME UNCHANGED <<journal, merged>> PROVE QuietStep
    BY <1>2 DEF QuietStep
  <1>3. ASSUME up, pc # "idle" PROVE session \in Session /\ session # None /\ journal = session
    BY <1>1, <1>3 DEF TypeInv, TypeOK, HandlerHasSession, Journalled
  <1>4. CASE PublishAck \/ PublishProgress \/ Republish \/ Crash \/ Recover
    BY <1>2, <1>4 DEF PublishAck, PublishProgress, Republish, Crash, Recover, historyVars
  <1>5. CASE HoldUnavailable \/ RecoverUnowned
    BY <1>1, <1>3, <1>5, GivesUpStep DEF HoldUnavailable, RecoverUnowned, Running, GivesUp, historyVars
  <1>6. ASSUME NEW ok \in BOOLEAN, Hold(ok) \/ PlaceCall(ok) \/ Conference(ok)
        PROVE  HandlerStep \/ QuietStep
    <2>1. up /\ session # None /\ merged' = merged
      BY <1>3, <1>6 DEF Hold, PlaceCall, Conference, Running
    <2>2. UNCHANGED journal \/ FailSystem(session)
      BY <1>6 DEF Hold, PlaceCall, Conference
    <2> QED
      BY <1>1, <1>2, <2>1, <2>2, GivesUpStep DEF GivesUp
  <1>7. CASE ReconcileFailure
    BY <1>1, <1>7, GivesUpStep DEF ReconcileFailure, Reconciling, GivesUp, historyVars
  <1>8. CASE \E can \in BOOLEAN : Reconcile(can)
    BY <1>1, <1>8, ReconcileStep
  <1>9. CASE AnswerAtOnce
    <2>1. session \in Session /\ session # None /\ journal = session
          /\ RecorderTimeout \in Nat /\ Save(Answered(session)) /\ merged' = merged
      BY <1>3, <1>9, EngineAssumption DEF AnswerAtOnce, Running, historyVars
    <2>2. Answered(session) \in Session /\ Answered(session).phase = "WAITING_RECORDER"
      BY <2>1 DEF Answered, Session, Phases, SetupPhases
    <2> QED
      BY <2>1, <2>2, NoneAssumption DEF Save, HandlerStep, Talked, Terminal, TerminalPhases
  <1>10. CASE RecorderReady
    <2>1. up /\ session # None /\ session \in Session /\ journal = session /\ merged' = merged
      BY <1>1, <1>10 DEF RecorderReady, Running, TypeInv, TypeOK, Journalled, historyVars
    <2> DEFINE n == [session EXCEPT !.phase = "WAITING_CONFERENCEABLE", !.deadline = MergeTimeout]
    <2>2. n \in Session /\ n.phase = "WAITING_CONFERENCEABLE"
      BY <2>1, EngineAssumption DEF Session, Phases, SetupPhases
    <2> HIDE DEF n
    <2>3. Save(n) => HandlerStep
      BY <2>1, <2>2, NoneAssumption DEF Save, HandlerStep, Talked, Terminal, TerminalPhases
    <2> QED
      BY <1>1, <1>10, <2>1, <2>3, GivesUpStep DEF RecorderReady, GivesUp, n
  <1>11. ASSUME NEW r \in {"ANSWER_TIMEOUT", "HELPER_CANCELLED"}, Cancel(r)
         PROVE  HandlerStep \/ QuietStep
    BY <1>1, <1>2, <1>11, GivesUpStep DEF Cancel, Running, GivesUp, historyVars
  <1>12. CASE ProtocolFailure
    BY <1>1, <1>12, GivesUpStep DEF ProtocolFailure, Running, GivesUp, historyVars
  <1>13. ASSUME NEW ok \in BOOLEAN, RecoverHold(ok) PROVE HandlerStep \/ QuietStep
    <2>1. session \in Session /\ session # None /\ journal = session /\ merged' = merged
      BY <1>3, <1>13 DEF RecoverHold, Running
    <2>2. CASE ok
      BY <1>2, <1>13, <2>1, <2>2 DEF RecoverHold
    <2>3. CASE ~ok
      <3> DEFINE n == Cleaning(session, "CLEANUP_SYSTEM_FAILURE", "FAILED", TRUE)
      <3>2. n \in Session /\ n.phase = "CLEANUP_SYSTEM_FAILURE"
        <4>1. session \in Session /\ HeartbeatKept(session)
          BY <2>1 DEF TypeInv
        <4> QED
          BY ONLY <4>1, FailedType
      <3>3. Save(n)
        BY <1>13, <2>3 DEF RecoverHold
      <3> HIDE DEF n
      <3> QED
        BY <2>1, <3>2, <3>3, NoneAssumption DEF Save, HandlerStep, Talked, Terminal, TerminalPhases
    <2> QED
      BY <2>2, <2>3
  <1>14. CASE Telecom
    BY <1>2, <1>14 DEF Telecom, CallerMoves, CallerRemoved, OpMoves, ConfMoves, Glitch,
       StrangerEnds, NotEngine, engineVars, historyVars
  <1>15. CASE Tick
    <2>1. journal' = Aged(journal) /\ merged' = merged
      BY <1>15 DEF Tick, historyVars
    <2> QED
      BY <2>1, AgedType, NoneAssumption DEF QuietStep, Aged, TypeInv, TypeOK
  <1>16. CASE UNCHANGED vars
    BY <1>2, <1>16 DEF vars, engineVars, historyVars
  <1> QED
    BY <1>1, <1>4, <1>5, <1>6, <1>7, <1>8, <1>9, <1>10, <1>11, <1>12, <1>13, <1>14, <1>15, <1>16,
       CleanupStep DEF Next, Handlers, Requests

LEMMA MergedNext ==
    ASSUME ~JournalMayFail, TypeInv, FlightInv, MergedInv, [Next]_vars
    PROVE  MergedInv'
  <1>1. ASSUME NEW e \in BOOLEAN, NEW h \in BOOLEAN, Begin(e, h) PROVE MergedInv'
    <2>1. PICK n : Save(n) /\ \E ph \in {"HOLDING_CALLER", "SYSTEM_FAILURE"} :
                             \E d, r : n = NewSession(ph, d, r)
      BY <1>1 DEF Begin
    <2>2. journal'.phase \in {"HOLDING_CALLER", "SYSTEM_FAILURE"}
      BY <2>1 DEF Save, NewSession
    <2>3. published' = None
      BY <1>1 DEF Begin
    <2> QED
      BY <2>2, <2>3 DEF MergedInv, TalkWasMerged, CompletedWasConferenced
  <1>2. ASSUME HandlerStep \/ QuietStep PROVE TalkWasMerged' /\ (merged => merged')
    <2>1. TalkWasMerged <=> (journal # None /\ Talked(journal) => merged)
      BY DEF TalkWasMerged, Talked
    <2>2. TalkWasMerged' <=> (journal' # None /\ Talked(journal') => merged')
      BY DEF TalkWasMerged, Talked
    <2>3. CASE HandlerStep
      BY <2>1, <2>2, <2>3 DEF HandlerStep, MergedInv
    <2>4. CASE QuietStep
      <3>1. journal # None => (Talked(journal') <=> Talked(journal))
        BY <2>4 DEF QuietStep, Talked
      <3> QED
        BY <2>1, <2>2, <2>4, <3>1 DEF QuietStep, MergedInv
    <2> QED
      BY <1>2, <2>3, <2>4
  <1>3. \/ published' = published \/ published' = None \/ published'.reason = "-"
        \/ PublishOutcome
    <2>1. CASE Cleanup
      BY <2>1 DEF Cleanup, AdoptLate, MarkDisconnect, Disconnect, MarkSafe, FinishCallerEnded,
         OpenActiveWindow, FinishSafe, MarkUnhold, Unhold, CloseActiveWindow, CleanupWaiting
    <2>2. CASE PublishAck \/ PublishProgress \/ Republish
      BY <2>2 DEF PublishAck, PublishProgress, Republish, Publish
    <2>3. CASE \E ok \in BOOLEAN : Hold(ok) \/ PlaceCall(ok) \/ Conference(ok) \/ RecoverHold(ok)
      BY <2>3 DEF Hold, PlaceCall, Conference, RecoverHold, FailSystem, StartCleanup
    <2>4. CASE HoldUnavailable \/ ReconcileFailure \/ AnswerAtOnce \/ Recover \/ RecoverUnowned
      BY <2>4 DEF HoldUnavailable, ReconcileFailure, AnswerAtOnce, Recover, RecoverUnowned,
         FailSystem, FailSystemNoUnhold, StartCleanup
    <2>5. CASE \E can \in BOOLEAN : Reconcile(can)
      BY <2>5 DEF Reconcile, StepHoldingCaller, StepWaitingDialing, StepDialing, StepWaitingRecorder,
         StepWaitingConferenceable, StepMerging, StepConferenced, FailSystem, FailNotConnected,
         StartCleanup, Stay
    <2>6. CASE Requests
      BY <2>6 DEF Requests, Begin, RecorderReady, Cancel, ProtocolFailure, FailSystem,
         FailNotConnected, StartCleanup
    <2>7. CASE Crash \/ Telecom \/ Tick \/ UNCHANGED vars
      BY <2>7 DEF Crash, Telecom, CallerMoves, CallerRemoved, OpMoves, ConfMoves, Glitch,
         StrangerEnds, NotEngine, engineVars, Tick, vars
    <2> QED
      BY <2>1, <2>2, <2>3, <2>4, <2>5, <2>6, <2>7 DEF Next, Handlers
  <1>4. CASE PublishOutcome
    <2>1. session # None /\ session = journal /\ merged' = merged /\ journal' = journal
      BY <1>4 DEF PublishOutcome, TypeInv, HandlerHasSession, FlightInv, Journalled, historyVars
    <2>2. /\ session.phase \in TerminalPhases \cup {"CLEANUP_ABORTED"}
          /\ published'.status = StatusFor(session) /\ published'.reason = session.reason
      BY <1>4 DEF PublishOutcome, Publish, TypeInv, HandlerHasSession, Terminal
    <2>3. StatusFor(session) = "COMPLETED" => session.phase = "COMPLETED"
      BY <2>2 DEF StatusFor, TerminalPhases
    <2> QED
      BY <2>1, <2>2, <2>3 DEF MergedInv, TalkWasMerged, CompletedWasConferenced
  <1>5. ASSUME HandlerStep \/ QuietStep, ~PublishOutcome PROVE MergedInv'
    BY <1>2, <1>3, <1>5 DEF MergedInv, CompletedWasConferenced
  <1> QED
    BY <1>1, <1>4, <1>5, OutcomeStep

\* No operator-hangup completion, which resumes the flow's Completed branch, is
\* published for a session whose two legs were never verified in one conference.
THEOREM CompletionAfterConference ==
    ASSUME ~JournalMayFail PROVE Spec => []CompletedWasConferenced
  <1>1. Init => TypeInv /\ FlightInv /\ MergedInv
    <2> SUFFICES ASSUME Init PROVE MergedInv
      BY TypeInvInit, FlightInit
    <2> QED
      BY DEF Init, MergedInv, TalkWasMerged, CompletedWasConferenced
  <1>2. TypeInv /\ FlightInv /\ MergedInv /\ [Next]_vars => TypeInv' /\ FlightInv' /\ MergedInv'
    BY TypeInvNext, FlightNext, MergedNext
  <1>3. MergedInv => CompletedWasConferenced
    BY DEF MergedInv
  <1> QED
    BY <1>1, <1>2, <1>3, PTL DEF Spec

-----------------------------------------------------------------------------
(* Nothing owned stays connected.                                          *)

\* The legs a step leaves as they are, or moves without making an unowned
\* connected leg an owned one.
LegsStep ==
    \A o \in OpIds :
        /\ ops'[o].state \in {"UNPLACED", "PENDING"} /\ ops[o].tag = "unowned"
              => ops'[o].tag = "unowned"
        /\ ops'[o].state \in {"UNPLACED", "PENDING"} => ops[o].state \in {"UNPLACED", "PENDING"}
        /\ Connected(o)' => Connected(o) \/ ops[o].state \in {"UNPLACED", "PENDING"}
        /\ ~TagAllowed /\ ops[o].tag = "unowned" => ops'[o].tag = "unowned"

LEMMA LegsMove ==
    ASSUME TypeInv, [Next]_vars
    PROVE  LegsStep
  <1> USE DEF LegsStep, Connected, Visible
  <1>1. ops \in [OpIds -> [state : OpStates, tag : Tags]]
    BY DEF TypeInv, TypeOK
  <1>2. ASSUME UNCHANGED ops PROVE LegsStep
    BY <1>2
  <1>3. ASSUME NEW ok \in BOOLEAN, PlaceCall(ok) PROVE LegsStep
    BY <1>1, <1>2, <1>3 DEF PlaceCall
  <1>4. CASE Recover
    BY <1>1, <1>4 DEF Recover
  <1>5. ASSUME NEW o \in OpIds, OpMoves(o) PROVE LegsStep
    <2>1. PICK st \in OpSteps(ops[o].state) :
             ops' = [ops EXCEPT ![o] =
                       [state |-> st,
                        tag |-> IF up /\ @.tag = "unowned" /\ st # "GONE" /\ TagAllowed
                                THEN "owned" ELSE @.tag]]
      BY <1>5 DEF OpMoves
    <2>2. /\ st \notin {"UNPLACED", "PENDING"}
          /\ st \in {"DISCONNECTING", "DISCONNECTED", "GONE"}
             \/ ops[o].state \in {"PENDING", "NEW", "DIALING", "ACTIVE", "HOLDING"}
      BY <1>1, <2>1 DEF OpSteps, OpStates
    <2>3. /\ ops'[o].state = st
          /\ ~TagAllowed => ops'[o].tag = ops[o].tag
          /\ \A p \in OpIds \ {o} : ops'[p] = ops[p]
      BY <1>1, <2>1
    <2> QED
      BY <2>2, <2>3
  <1>6. CASE Glitch
    <2>1. UNCHANGED ops \/ \E o \in OpIds : /\ ops[o].tag \in {"owned", "emergency"}
                                           /\ ops' = [ops EXCEPT ![o].tag =
                                                        IF @ = "owned" THEN "emergency" ELSE "owned"]
      BY <1>6 DEF Glitch
    <2> QED
      BY <1>1, <1>2, <2>1
  <1>7. CASE Handlers /\ ~Recover /\ ~(\E ok \in BOOLEAN : PlaceCall(ok))
    BY <1>2, <1>7 DEF Handlers, PublishAck, HoldUnavailable, Hold, ReconcileFailure, Reconcile,
       PublishProgress, AnswerAtOnce, Conference, RecoverUnowned, RecoverHold, Republish, Cleanup,
       AdoptLate, MarkDisconnect, Disconnect, MarkSafe, FinishCallerEnded, OpenActiveWindow,
       FinishSafe, MarkUnhold, Unhold, CloseActiveWindow, CleanupWaiting, PublishOutcome, telecomVars
  <1>8. CASE Requests \/ Crash \/ Tick \/ UNCHANGED vars
    BY <1>2, <1>8 DEF Requests, Begin, RecorderReady, Cancel, ProtocolFailure, Crash, Tick, vars,
       telecomVars
  <1>9. CASE CallerMoves \/ CallerRemoved \/ ConfMoves \/ StrangerEnds
    BY <1>2, <1>9 DEF CallerMoves, CallerRemoved, ConfMoves, StrangerEnds
  <1> QED
    BY <1>3, <1>4, <1>5, <1>6, <1>7, <1>8, <1>9 DEF Next, Telecom

\* A cleanup that found all clear has no connected leg left.
LEMMA AllClearLegs ==
    ASSUME TypeInv, CleanupReady, AllClear
    PROVE  \A o \in OpIds : ~Connected(o)
  <1> SUFFICES ASSUME NEW o \in OpIds PROVE ~Connected(o)
    OBVIOUS
  <1>1. CASE o = session.op
    BY <1>1, EngineAssumption DEF AllClear, OperatorSafe, Connected
  <1>2. CASE o # session.op
    BY <1>2 DEF AllClear, UnexpectedInCleanup, Connected
  <1> QED
    BY <1>1, <1>2

LEMMA OwnedNext ==
    ASSUME ~JournalMayFail, TypeInv, FlightInv, NothingOwned, [Next]_vars
    PROVE  NothingOwned'
  <1> DEFINE Over(j) == j = None \/ Terminal(j)
  <1>1. LegsStep
    BY LegsMove
  <1>2. (\A o \in OpIds : ops[o].state \in {"UNPLACED", "PENDING"} => ops[o].tag = "unowned")'
    BY <1>1 DEF LegsStep, NothingOwned
  <1>3. ASSUME Over(journal), ~TagAllowed
        PROVE  (\A o \in OpIds : Connected(o) => ops[o].tag = "unowned")'
    BY <1>1, <1>3 DEF LegsStep, NothingOwned
  <1>4. Over(journal) => ~TagAllowed
    BY DEF TagAllowed
  <1>5. ASSUME Over(journal'), ~Over(journal)
        PROVE  (\A o \in OpIds : Connected(o) => ops[o].tag = "unowned")'
    <2>1. ~QuietStep
      BY <1>5 DEF QuietStep, Terminal
    <2>2. ~\E e, h \in BOOLEAN : Begin(e, h)
      BY <1>5 DEF Begin, Running, FlightInv, Journalled
    <2>3. HandlerStep
      BY <2>1, <2>2, OutcomeStep
    <2>4. CleanupReady /\ AllClear /\ UNCHANGED ops
      BY <1>5, <2>3 DEF HandlerStep
    <2>5. \A o \in OpIds : ~Connected(o)
      BY <2>4, AllClearLegs
    <2> QED
      BY <2>4, <2>5 DEF Connected, Visible
  <1>6. Over(journal') => (\A o \in OpIds : Connected(o) => ops[o].tag = "unowned")'
    BY <1>3, <1>4, <1>5
  <1> QED
    BY <1>2, <1>6 DEF NothingOwned

\* The cleanup of ExternalCallEngine.kt ends a session only when no leg it owns
\* is connected, and no later callback makes one of its legs owned again.
THEOREM LegsReleased == ASSUME ~JournalMayFail PROVE Spec => []ReleasedLegs
  <1>1. Init => TypeInv /\ FlightInv /\ NothingOwned
    <2> SUFFICES ASSUME Init PROVE NothingOwned
      BY TypeInvInit, FlightInit
    <2> QED
      BY DEF Init, NothingOwned
  <1>2. TypeInv /\ FlightInv /\ NothingOwned /\ [Next]_vars
            => TypeInv' /\ FlightInv' /\ NothingOwned'
    BY TypeInvNext, FlightNext, OwnedNext
  <1>3. TypeInv /\ FlightInv /\ NothingOwned => ReleasedLegs
    BY DEF TypeInv, HandlerHasSession, FlightInv, Journalled, NothingOwned, ReleasedLegs
  <1> QED
    BY <1>1, <1>2, <1>3, PTL DEF Spec
=============================================================================
