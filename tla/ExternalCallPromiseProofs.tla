---------------------- MODULE ExternalCallPromiseProofs ----------------------
(***************************************************************************)
(* ExternalCallEngine implements ExternalCallPromise, for every set of leg *)
(* identities and every value of the timeouts and bounds: the journalled   *)
(* session is the promise, and every step of a handler, a death, Telecom   *)
(* or time is a step of the promise or leaves it alone.                    *)
(***************************************************************************)
EXTENDS ExternalCallEngineProofs

Live == SetupPhases \cup {"CONFERENCED"}

\* A session remembers a status exactly from the start of its cleanup on, and
\* only a talk is returned from.
Fits(j) ==
    j # None =>
       /\ j.phase \in Live => j.heartbeat = None
       /\ j.phase \in CleanupPhases => j.heartbeat \in LiveStatuses
       /\ j.phase = "RETURNING_CALLER" =>
             j.heartbeat = "CONFERENCED" /\ j.reason = "OPERATOR_HANGUP"

\* How far the session is that a handler is working on.
AtHandler ==
    /\ pc \in {"ack", "ack_no_hold", "rehold"} => journal.phase = "HOLDING_CALLER"
    /\ pc = "held" => journal.phase = "WAITING_DIALING"
    /\ pc = "answered" => journal.phase = "WAITING_RECORDER"
    /\ pc = "conferenced" => journal.phase = "CONFERENCED"
    /\ pc \in {"hold", "hold_unavailable", "place", "conference", "unowned"} => ~Terminal(journal)

PromiseInv == Fits(journal) /\ AtHandler

-----------------------------------------------------------------------------
(* What a handler may do to the journalled session.                        *)

\* Nothing that the promise tells apart.
SameView(j, k) == k.phase = j.phase /\ k.heartbeat = j.heartbeat /\ k.reason = j.reason

\* The next phase of the set-up.
Climbs(j, k) ==
    /\ <<j.phase, k.phase>> \in {<<"HOLDING_CALLER", "WAITING_DIALING">>,
                                 <<"WAITING_DIALING", "DIALING">>,
                                 <<"DIALING", "WAITING_RECORDER">>,
                                 <<"WAITING_RECORDER", "WAITING_CONFERENCEABLE">>,
                                 <<"WAITING_CONFERENCEABLE", "MERGING">>,
                                 <<"MERGING", "CONFERENCED">>}
    /\ k.heartbeat = j.heartbeat

\* What a cleanup in phase ph for reason r may be started from.
MayClean(j, ph, r) ==
    /\ j.phase \in Live \cup (CleanupPhases \ {"CLEANUP_ABORTED"})
    /\ <<ph, r>> \in {<<"RETURNING_CALLER", "OPERATOR_HANGUP">>,
                      <<"CLEANING_CALLER_HANGUP", "CALLER_HANGUP">>,
                      <<"CLEANUP_NOT_CONNECTED", "UNANSWERED">>,
                      <<"CLEANUP_NOT_CONNECTED", "ANSWER_TIMEOUT">>,
                      <<"CLEANUP_SYSTEM_FAILURE", "FAILED">>,
                      <<"CLEANUP_SYSTEM_FAILURE", "HELPER_CANCELLED">>}
    /\ ph = "RETURNING_CALLER" => j.phase = "CONFERENCED"
    /\ ph = "CLEANUP_NOT_CONNECTED" => j.phase \in SetupPhases
    /\ r = "ANSWER_TIMEOUT" => j.phase = "DIALING"

Cleans(j, k) ==
    /\ MayClean(j, k.phase, k.reason)
    /\ k.heartbeat = IF j.heartbeat = None THEN StatusFor(j) ELSE j.heartbeat

\* The outcome that a cleanup leads to.
Due(j) ==
    [status |-> IF j.phase \in {"RETURNING_CALLER", "CLEANING_CALLER_HANGUP"} THEN "COMPLETED"
                ELSE IF j.phase = "CLEANUP_NOT_CONNECTED" THEN "NOT_CONNECTED"
                ELSE "SYSTEM_FAILURE",
     reason |-> j.reason]

Ends(j, k) ==
    /\ j.phase \in CleanupPhases /\ k.phase \in TerminalPhases /\ k.heartbeat = j.heartbeat
    /\ IF j.phase = "CLEANUP_ABORTED"
       THEN k.phase = "SYSTEM_FAILURE" /\ k.reason = "CLEANUP_TIMEOUT"
       ELSE \/ k.phase = "COMPLETED" /\ k.reason = "CALLER_HANGUP"
            \/ k.phase = Due(j).status /\ k.reason = j.reason

Aborts(j, k) ==
    /\ j.phase \in CleanupPhases \ {"CLEANUP_ABORTED"}
    /\ k.phase = "CLEANUP_ABORTED" /\ k.reason = "CLEANUP_TIMEOUT" /\ k.heartbeat = j.heartbeat

Moves(j, k) == SameView(j, k) \/ Climbs(j, k) \/ Cleans(j, k) \/ Ends(j, k) \/ Aborts(j, k)

\* What one step is to the helper.
PromiseStep == [Promise!PNext]_(Promise!pvars)
-----------------------------------------------------------------------------
(* The refinement mapping, as a function of the journalled session.        *)

StageOf(j) ==
    IF j = None THEN "none"
    ELSE IF Terminal(j) THEN "over"
    ELSE IF j.phase = "CLEANUP_ABORTED" THEN "aborted"
    ELSE IF InCleanup(j) THEN "cleaning" ELSE "live"

LevelOf(j) ==
    IF j = None THEN 1
    ELSE IF j.heartbeat # None THEN Rank(j.heartbeat) + 1
    ELSE IF Terminal(j) THEN 1 ELSE Rank(StatusFor(j)) + 1

OutcomeOf(j) ==
    IF StageOf(j) \in {"none", "live"} THEN None
    ELSE IF Terminal(j) THEN [status |-> j.phase, reason |-> j.reason] ELSE Due(j)

\* The mapping reads nothing but the journal.
LEMMA Mapping ==
    /\ PromiseStage = StageOf(journal) /\ PromiseStage' = StageOf(journal')
    /\ PromiseLevel = LevelOf(journal) /\ PromiseLevel' = LevelOf(journal')
    /\ PromiseOutcome = OutcomeOf(journal) /\ PromiseOutcome' = OutcomeOf(journal')
  <1>1. PromiseStage = StageOf(journal) /\ PromiseStage' = StageOf(journal')
    BY DEF PromiseStage, StageOf, Terminal, InCleanup
  <1>2. PromiseLevel = LevelOf(journal) /\ PromiseLevel' = LevelOf(journal')
    BY DEF PromiseLevel, LevelOf, Terminal, Rank, StatusFor
  <1>3. PromiseOutcome = OutcomeOf(journal)
    BY <1>1 DEF PromiseOutcome, OutcomeOf, Due, Terminal
  <1>4. PromiseOutcome' = OutcomeOf(journal')
    BY <1>1 DEF PromiseOutcome, OutcomeOf, Due, Terminal
  <1> QED
    BY <1>1, <1>2, <1>3, <1>4

\* The rank of a status is its rung on the ladder.
LEMMA Rungs ==
    /\ Rank("ACK") = 0 /\ Rank("CALLER_HELD") = 1 /\ Rank("DIALING") = 2
    /\ Rank("OPERATOR_ANSWERED") = 3 /\ Rank("MERGING") = 4 /\ Rank("CONFERENCED") = 5
  BY DEF Rank

LEMMA Showings ==
    ASSUME NEW st \in LiveStatuses
    PROVE  Promise!Showing(Rank(st) + 1) = [status |-> st, reason |-> "-"]
  <1>1. /\ Promise!Ladder[1] = "ACK" /\ Promise!Ladder[2] = "CALLER_HELD"
        /\ Promise!Ladder[3] = "DIALING" /\ Promise!Ladder[4] = "OPERATOR_ANSWERED"
        /\ Promise!Ladder[5] = "MERGING" /\ Promise!Ladder[6] = "CONFERENCED"
    BY DEF Promise!Ladder
  <1>2. Promise!Ladder[Rank(st) + 1] = st
    BY <1>1, Rungs DEF LiveStatuses
  <1> QED
    BY <1>2 DEF Promise!Showing

\* The phase of a live session is a rung.
LEMMA LevelOfPhase ==
    ASSUME NEW j \in Session, Fits(j), j.phase \in Live
    PROVE  /\ LevelOf(j) = CASE j.phase = "HOLDING_CALLER" -> 1
                             [] j.phase = "WAITING_DIALING" -> 2
                             [] j.phase = "DIALING" -> 3
                             [] j.phase \in {"WAITING_RECORDER", "WAITING_CONFERENCEABLE"} -> 4
                             [] j.phase = "MERGING" -> 5
                             [] j.phase = "CONFERENCED" -> 6
           /\ StatusFor(j) \in LiveStatuses /\ LevelOf(j) = Rank(StatusFor(j)) + 1
           /\ StageOf(j) = "live" /\ OutcomeOf(j) = None
  <1>1. j # None
    BY NoneAssumption
  <1>2. j.heartbeat = None /\ ~Terminal(j) /\ ~InCleanup(j)
    BY <1>1 DEF Fits, Terminal, InCleanup, Live, SetupPhases, TerminalPhases, CleanupPhases
  <1>3. LevelOf(j) = Rank(StatusFor(j)) + 1
    BY <1>1, <1>2 DEF LevelOf
  <1>4. StageOf(j) = "live" /\ OutcomeOf(j) = None
    BY <1>1, <1>2 DEF StageOf, OutcomeOf, InCleanup, CleanupPhases
  <1>5. StatusFor(j) = CASE j.phase = "HOLDING_CALLER" -> "ACK"
                         [] j.phase = "WAITING_DIALING" -> "CALLER_HELD"
                         [] j.phase = "DIALING" -> "DIALING"
                         [] j.phase \in {"WAITING_RECORDER", "WAITING_CONFERENCEABLE"} ->
                               "OPERATOR_ANSWERED"
                         [] j.phase = "MERGING" -> "MERGING"
                         [] j.phase = "CONFERENCED" -> "CONFERENCED"
    BY DEF StatusFor, Live, SetupPhases
  <1> QED
    BY <1>3, <1>4, <1>5, Rungs DEF Live, SetupPhases, LiveStatuses

\* A cleanup keeps the rung it started from.
LEMMA LevelOfCleanup ==
    ASSUME NEW j \in Session, Fits(j), j.phase \in CleanupPhases
    PROVE  /\ j.heartbeat \in LiveStatuses /\ LevelOf(j) = Rank(j.heartbeat) + 1
           /\ j.phase # "CLEANUP_ABORTED" => StageOf(j) = "cleaning" /\ StatusFor(j) = j.heartbeat
           /\ j.phase = "CLEANUP_ABORTED" => StageOf(j) = "aborted"
           /\ OutcomeOf(j) = Due(j)
  <1>1. j # None /\ None \notin Statuses
    BY NoneAssumption
  <1>2. j.heartbeat \in LiveStatuses /\ j.heartbeat # None /\ ~Terminal(j) /\ InCleanup(j)
    BY <1>1 DEF Fits, Terminal, InCleanup, TerminalPhases, CleanupPhases, Statuses
  <1>3. LevelOf(j) = Rank(j.heartbeat) + 1
    BY <1>1, <1>2 DEF LevelOf
  <1>4. /\ j.phase # "CLEANUP_ABORTED" => StageOf(j) = "cleaning"
        /\ j.phase = "CLEANUP_ABORTED" => StageOf(j) = "aborted"
    BY <1>1, <1>2 DEF StageOf
  <1>5. OutcomeOf(j) = Due(j)
    BY <1>2, <1>4 DEF OutcomeOf
  <1>6. j.phase # "CLEANUP_ABORTED" => StatusFor(j) = j.heartbeat
    BY <1>1 DEF StatusFor, Fits, CleanupPhases
  <1> QED
    BY <1>2, <1>3, <1>4, <1>5, <1>6


\* A session that a handler may leave behind remembers what it should.
LEMMA MoveFits ==
    ASSUME NEW j \in Session, NEW k \in Session, Fits(j), Moves(j, k)
    PROVE  Fits(k)
  <1>1. j # None /\ k # None
    BY NoneAssumption
  <1> USE DEF Live, SetupPhases, CleanupPhases, TerminalPhases
  <1>2. CASE SameView(j, k)
    BY <1>1, <1>2 DEF SameView, Fits
  <1>3. CASE Climbs(j, k)
    BY <1>1, <1>3 DEF Climbs, Fits
  <1>4. CASE Cleans(j, k)
    <2>1. CASE j.phase \in Live
      <3>1. /\ StatusFor(j) \in LiveStatuses /\ j.heartbeat = None
            /\ j.phase = "CONFERENCED" => StatusFor(j) = "CONFERENCED"
        BY <1>1, <2>1, LevelOfPhase DEF Fits, StatusFor
      <3> QED
        BY <1>1, <1>4, <3>1 DEF Cleans, MayClean, Fits
    <2>2. CASE j.phase \in CleanupPhases
      <3>1. j.heartbeat \in LiveStatuses /\ j.heartbeat # None
        BY <2>2, LevelOfCleanup, NoneAssumption DEF Statuses
      <3> QED
        BY <1>1, <1>4, <2>2, <3>1 DEF Cleans, MayClean, Fits
    <2> QED
      BY <1>4, <2>1, <2>2 DEF Cleans, MayClean
  <1>5. CASE Ends(j, k)
    BY <1>1, <1>5 DEF Ends, Fits
  <1>6. CASE Aborts(j, k)
    BY <1>1, <1>6 DEF Aborts, Fits
  <1> QED
    BY <1>2, <1>3, <1>4, <1>5, <1>6 DEF Moves

\* The promise of a session whose view is the same is the same.
LEMMA SamePromise ==
    ASSUME NEW j \in Session, NEW k \in Session, SameView(j, k)
    PROVE  StageOf(k) = StageOf(j) /\ LevelOf(k) = LevelOf(j) /\ OutcomeOf(k) = OutcomeOf(j)
  <1>1. j # None /\ k # None
    BY NoneAssumption
  <1>2. StageOf(k) = StageOf(j)
    BY <1>1 DEF SameView, StageOf, Terminal, InCleanup
  <1>3. StatusFor(k) = StatusFor(j)
    BY DEF SameView, StatusFor
  <1>4. LevelOf(k) = LevelOf(j)
    BY <1>1, <1>3 DEF SameView, LevelOf, Terminal
  <1>5. OutcomeOf(k) = OutcomeOf(j)
    BY <1>2 DEF SameView, OutcomeOf, Due, Terminal
  <1> QED
    BY <1>2, <1>4, <1>5

\* The set-up climbs the ladder rung by rung.
LEMMA ClimbStep ==
    ASSUME journal \in Session, journal' \in Session, Fits(journal), Climbs(journal, journal'),
           published' = published
    PROVE  PromiseStep
  <1>1. PICK j \in Session, k \in Session : j = journal /\ k = journal'
    OBVIOUS
  <1>2. j.phase \in Live /\ k.phase \in Live /\ Fits(j) /\ Fits(k)
    BY <1>1, MoveFits DEF Climbs, Moves, Live, SetupPhases
  <1>3. /\ StageOf(j) = "live" /\ StageOf(k) = "live" /\ OutcomeOf(j) = None /\ OutcomeOf(k) = None
    BY <1>2, LevelOfPhase
  <1>4. LevelOf(k) = LevelOf(j) \/ (LevelOf(k) = LevelOf(j) + 1 /\ LevelOf(j) < 6)
    BY <1>1, <1>2, LevelOfPhase DEF Climbs
  <1>5. /\ PromiseStage = "live" /\ PromiseStage' = "live"
        /\ PromiseOutcome = None /\ PromiseOutcome' = None
        /\ \/ PromiseLevel' = PromiseLevel
           \/ PromiseLevel' = PromiseLevel + 1 /\ PromiseLevel < 6
    BY <1>1, <1>3, <1>4, Mapping
  <1> QED
    BY <1>5 DEF PromiseStep, Promise!PNext, Promise!PAdvance, Promise!pvars

\* Entering a cleanup, or changing what it is for.
LEMMA CleanStep ==
    ASSUME journal \in Session, journal' \in Session, Fits(journal), Cleans(journal, journal'),
           published' = published
    PROVE  PromiseStep
  <1>1. PICK j \in Session, k \in Session : j = journal /\ k = journal'
    OBVIOUS
  <1> USE DEF Live, SetupPhases, CleanupPhases
  <1>2. /\ j.phase \in Live \cup CleanupPhases /\ j.phase # "CLEANUP_ABORTED" /\ Fits(j) /\ Fits(k)
        /\ k.phase \in CleanupPhases /\ k.phase # "CLEANUP_ABORTED"
    BY <1>1, MoveFits DEF Cleans, MayClean, Moves
  <1>3. StageOf(j) \in {"live", "cleaning"} /\ StageOf(k) = "cleaning" /\ OutcomeOf(k) = Due(k)
    BY <1>2, LevelOfPhase, LevelOfCleanup
  <1>4. LevelOf(k) = LevelOf(j)
    <2>1. CASE j.phase \in Live
      <3>1. k.heartbeat = StatusFor(j)
        BY <1>1, <1>2, <2>1, NoneAssumption DEF Cleans, Fits
      <3> QED
        BY <1>2, <2>1, <3>1, LevelOfPhase, LevelOfCleanup
    <2>2. CASE j.phase \in CleanupPhases
      <3>1. j.heartbeat # None
        BY <1>2, <2>2, LevelOfCleanup, NoneAssumption DEF Statuses
      <3>2. k.heartbeat = j.heartbeat
        BY <1>1, <3>1 DEF Cleans
      <3> QED
        BY <1>2, <2>2, <3>2, LevelOfCleanup
    <2> QED
      BY <1>2, <2>1, <2>2
  <1>5. /\ Due(k) \in Promise!Outcomes
        /\ Due(k).reason = "OPERATOR_HANGUP" => j.phase = "CONFERENCED"
        /\ Due(k).reason = "ANSWER_TIMEOUT" => j.phase = "DIALING"
        /\ Due(k).status = "NOT_CONNECTED" => j.phase \in SetupPhases
    <2>1. MayClean(j, k.phase, k.reason)
      BY <1>1 DEF Cleans
    <2> QED
      BY <2>1 DEF MayClean, Due, Promise!Outcomes
  <1>6. /\ Due(k).reason = "OPERATOR_HANGUP" => LevelOf(j) = 6
        /\ Due(k).reason = "ANSWER_TIMEOUT" => LevelOf(j) = 3
        /\ Due(k).status = "NOT_CONNECTED" => LevelOf(j) < 6
    BY <1>2, <1>5, LevelOfPhase
  <1>7. /\ PromiseStage \in {"live", "cleaning"} /\ PromiseStage' = "cleaning"
        /\ PromiseOutcome' = Due(k) /\ PromiseLevel' = PromiseLevel /\ PromiseLevel = LevelOf(j)
    BY <1>1, <1>3, <1>4, Mapping
  <1> QED
    BY <1>5, <1>6, <1>7 DEF PromiseStep, Promise!PNext, Promise!PClean, Promise!pvars

\* A cleanup ends, or is given up.
LEMMA EndStep ==
    ASSUME journal \in Session, journal' \in Session, Fits(journal),
           Ends(journal, journal') \/ Aborts(journal, journal'), published' = published
    PROVE  PromiseStep
  <1>1. PICK j \in Session, k \in Session : j = journal /\ k = journal'
    OBVIOUS
  <1>2. /\ j.phase \in CleanupPhases /\ Fits(j) /\ k.heartbeat = j.heartbeat
        /\ k.phase \in TerminalPhases \/ k.phase = "CLEANUP_ABORTED"
    BY <1>1 DEF Ends, Aborts
  <1>3. j.heartbeat # None /\ j # None /\ k # None
    BY <1>2, LevelOfCleanup, NoneAssumption DEF Statuses
  <1>4. LevelOf(k) = LevelOf(j)
    BY <1>2, <1>3 DEF LevelOf
  <1>5. CASE Ends(j, k)
    <2>1. StageOf(k) = "over" /\ OutcomeOf(k) = [status |-> k.phase, reason |-> k.reason]
      BY <1>3, <1>5 DEF Ends, StageOf, OutcomeOf, Terminal
    <2>2. CASE j.phase = "CLEANUP_ABORTED"
      <3>1. StageOf(j) = "aborted" /\ OutcomeOf(k) = Promise!TimedOut
        BY <1>2, <1>5, <2>1, <2>2, LevelOfCleanup DEF Ends, Promise!TimedOut
      <3> QED
        BY <1>1, <1>4, <2>1, <3>1, Mapping DEF PromiseStep, Promise!PNext, Promise!PFinish
    <2>3. CASE j.phase # "CLEANUP_ABORTED"
      <3>1. StageOf(j) = "cleaning" /\ OutcomeOf(j) = Due(j)
        BY <1>2, <2>3, LevelOfCleanup
      <3>2. OutcomeOf(k) \in {Due(j), Promise!CallerLeft}
        BY <1>5, <2>1, <2>3 DEF Ends, Due, Promise!CallerLeft
      <3> QED
        BY <1>1, <1>4, <2>1, <3>1, <3>2, Mapping DEF PromiseStep, Promise!PNext, Promise!PFinish
    <2> QED
      BY <2>2, <2>3
  <1>6. CASE Aborts(j, k)
    <2>1. StageOf(j) = "cleaning"
      BY <1>2, <1>6, LevelOfCleanup DEF Aborts
    <2>2. StageOf(k) = "aborted" /\ OutcomeOf(k) = Promise!TimedOut
      BY <1>3, <1>6 DEF Aborts, StageOf, OutcomeOf, Due, Terminal, TerminalPhases, Promise!TimedOut
    <2> QED
      BY <1>1, <1>4, <2>1, <2>2, Mapping DEF PromiseStep, Promise!PNext, Promise!PAbort
  <1> QED
    BY <1>1, <1>5, <1>6

\* Whatever a handler does to the journalled session is a step of the promise.
LEMMA MoveStep ==
    ASSUME journal \in Session, journal' \in Session, Fits(journal), Moves(journal, journal'),
           published' = published
    PROVE  PromiseStep
  <1>1. CASE SameView(journal, journal')
    BY <1>1, SamePromise, Mapping DEF PromiseStep, Promise!pvars
  <1> QED
    BY <1>1, ClimbStep, CleanStep, EndStep DEF Moves

\* Nothing happens to the promise.
LEMMA QuietPromise ==
    ASSUME journal' = journal, published' = published
    PROVE  PromiseStep
  BY Mapping DEF PromiseStep, Promise!pvars

-----------------------------------------------------------------------------
(* The steps of the engine.                                                *)

\* Labels that say nothing of the session beyond what the other invariants say.
FreeLabels == Labels \ {"ack", "ack_no_hold", "rehold", "held", "answered", "conferenced", "hold",
                        "hold_unavailable", "place", "conference", "unowned"}

LEMMA FreeHandler == ASSUME pc' \in FreeLabels PROVE AtHandler'
  BY DEF AtHandler, FreeLabels

\* A handler saves a session.
LEMMA SavePromise ==
    ASSUME ~JournalMayFail, TypeInv, FlightInv, PromiseInv, up, session # None,
           NEW n \in Session, Save(n), Moves(session, n), published' = published, AtHandler'
    PROVE  PromiseInv' /\ PromiseStep
  <1>1. session = journal /\ session \in Session /\ journal' = n
    BY DEF Save, FlightInv, Journalled, TypeInv, TypeOK
  <1>2. Fits(n)
    BY <1>1, MoveFits DEF PromiseInv
  <1>3. PromiseStep
    BY <1>1, MoveStep DEF PromiseInv
  <1>4. Fits(journal)'
    BY <1>1, <1>2 DEF Fits
  <1> QED
    BY <1>3, <1>4 DEF PromiseInv

\* A handler goes on without touching the session.
LEMMA PassPromise ==
    ASSUME PromiseInv, journal' = journal, published' = published, AtHandler'
    PROVE  PromiseInv' /\ PromiseStep
  <1>1. Fits(journal)'
    BY DEF PromiseInv, Fits
  <1> QED
    BY <1>1, QuietPromise DEF PromiseInv

\* A handler publishes.
LEMMA ShowPromise ==
    ASSUME PromiseInv, journal' = journal, AtHandler',
           Promise!PShow \/ Promise!PShowAgain
    PROVE  PromiseInv' /\ PromiseStep
  <1>1. Fits(journal)'
    BY DEF PromiseInv, Fits
  <1> QED
    BY <1>1 DEF PromiseInv, PromiseStep, Promise!PNext

\* startCleanup() of a session that may be cleaned up.
LEMMA StartPromise ==
    ASSUME ~JournalMayFail, TypeInv, FlightInv, PromiseInv, up, session # None, ~Terminal(session),
           NEW s \in {session, Adopted(session)}, NEW ph, NEW r, NEW u \in BOOLEAN,
           session.phase # "CLEANUP_ABORTED" => MayClean(session, ph, r),
           StartCleanup(s, ph, r, u)
    PROVE  PromiseInv' /\ PromiseStep
  <1>1. /\ session \in Session /\ s \in Session /\ HeartbeatKept(s) /\ s.phase = session.phase
        /\ s.heartbeat = session.heartbeat
    <2>1. session \in Session
      BY DEF TypeInv, TypeOK
    <2>2. Adopted(session).heartbeat = session.heartbeat
      BY <2>1, AdoptedType DEF Session
    <2> QED
      BY <2>1, <2>2, AdoptedKeeps
  <1>2. pc' = "cleanup" /\ published' = published
    BY DEF StartCleanup, Goto
  <1>3. AtHandler'
    BY <1>2, FreeHandler DEF FreeLabels, Labels
  <1>4. CASE s.phase = "CLEANUP_ABORTED"
    BY <1>2, <1>3, <1>4, PassPromise DEF StartCleanup
  <1>5. CASE s.phase # "CLEANUP_ABORTED"
    <2> DEFINE n == Cleaning(s, ph, r, u)
    <2>1. Save(n)
      BY <1>5 DEF StartCleanup
    <2>2. MayClean(session, ph, r)
      BY <1>1, <1>5
    <2>3. ph \in CleanupPhases /\ r \in Reasons
      BY <2>2 DEF MayClean, CleanupPhases, Reasons
    <2>4. n \in Session /\ n.phase = ph /\ n.reason = r
      BY <1>1, <2>3, CleaningType
    <2>5. n.heartbeat = IF s.heartbeat = None THEN StatusFor(s) ELSE s.heartbeat
      BY <1>1 DEF Cleaning, Session
    <2>6. StatusFor(s) = StatusFor(session)
      BY <1>1 DEF StatusFor
    <2> HIDE DEF n
    <2>7. Cleans(session, n)
      BY <1>1, <2>2, <2>4, <2>5, <2>6 DEF Cleans
    <2> QED
      BY <1>2, <1>3, <2>1, <2>4, <2>7, SavePromise DEF Moves
  <1> QED
    BY <1>4, <1>5

\* Failing the system, which every session that is not over may do.
LEMMA FailPromise ==
    ASSUME ~JournalMayFail, TypeInv, FlightInv, PromiseInv, up, session # None, ~Terminal(session),
           NEW s \in {session, Adopted(session)},
           \/ FailSystem(s) \/ FailSystemNoUnhold(s)
           \/ StartCleanup(s, "CLEANUP_SYSTEM_FAILURE", "HELPER_CANCELLED", TRUE)
           \/ StartCleanup(s, "CLEANING_CALLER_HANGUP", "CALLER_HANGUP", TRUE)
    PROVE  PromiseInv' /\ PromiseStep
  <1>1. session.phase \in Live \cup CleanupPhases
    BY DEF TypeInv, TypeOK, Session, Phases, Terminal, Live
  <1>2. session.phase # "CLEANUP_ABORTED" =>
           /\ MayClean(session, "CLEANUP_SYSTEM_FAILURE", "FAILED")
           /\ MayClean(session, "CLEANUP_SYSTEM_FAILURE", "HELPER_CANCELLED")
           /\ MayClean(session, "CLEANING_CALLER_HANGUP", "CALLER_HANGUP")
    BY <1>1 DEF MayClean
  <1> QED
    BY <1>2, StartPromise DEF FailSystem, FailSystemNoUnhold

\* An operator who was not reached, in the set-up only.
LEMMA LostPromise ==
    ASSUME ~JournalMayFail, TypeInv, FlightInv, PromiseInv, up, session # None,
           NEW s \in {session, Adopted(session)}, session.phase \in SetupPhases,
           \/ FailNotConnected(s, "UNANSWERED")
           \/ FailNotConnected(s, "ANSWER_TIMEOUT") /\ session.phase = "DIALING"
    PROVE  PromiseInv' /\ PromiseStep
  <1>1. /\ MayClean(session, "CLEANUP_NOT_CONNECTED", "UNANSWERED")
        /\ session.phase = "DIALING" => MayClean(session, "CLEANUP_NOT_CONNECTED", "ANSWER_TIMEOUT")
        /\ ~Terminal(session)
    BY DEF MayClean, Live, SetupPhases, Terminal, TerminalPhases
  <1>2. CASE FailNotConnected(s, "UNANSWERED")
    BY <1>1, <1>2, StartPromise DEF FailNotConnected
  <1>3. CASE FailNotConnected(s, "ANSWER_TIMEOUT") /\ session.phase = "DIALING"
    BY <1>1, <1>3, StartPromise DEF FailNotConnected
  <1> QED
    BY <1>2, <1>3


\* One pass of reconcile() over the phases of the set-up.
LEMMA ReconcilePromise ==
    ASSUME ~JournalMayFail, TypeInv, FlightInv, PromiseInv, NEW can \in BOOLEAN, Reconcile(can)
    PROVE  PromiseInv' /\ PromiseStep
  <1> DEFINE s == Adopted(session)
  <1>1. up /\ session # None /\ session = journal /\ ~Terminal(session)
    BY DEF Reconcile, Reconciling, FlightInv, Journalled
  <1>2. /\ session \in Session /\ s \in Session /\ s.phase = session.phase
        /\ s.reason = session.reason /\ s.heartbeat = session.heartbeat
        /\ s \in {session, Adopted(session)}
    BY <1>1, AdoptedKeeps, AdoptedType DEF Session
  <1> HIDE DEF s
  <1>3. ASSUME FailSystem(s) PROVE PromiseInv' /\ PromiseStep
    BY <1>1, <1>2, <1>3, FailPromise
  <1>4. ASSUME Stay(s) PROVE PromiseInv' /\ PromiseStep
    <2>1. Save(s) /\ published' = published /\ AtHandler'
      BY <1>4, FreeHandler DEF Stay, Goto, FreeLabels, Labels
    <2>2. Moves(session, s)
      BY <1>2 DEF Moves, SameView
    <2> QED
      BY <1>1, <1>2, <2>1, <2>2, SavePromise
  <1>5. ASSUME NEW n \in Session, NEW l, Save(n), Goto(l), published' = published,
               n.heartbeat = s.heartbeat,
               <<session.phase, n.phase, l>> \in {<<"HOLDING_CALLER", "WAITING_DIALING", "held">>,
                                                  <<"WAITING_DIALING", "DIALING", "dialing">>,
                                                  <<"DIALING", "WAITING_RECORDER", "answered">>,
                                                  <<"WAITING_CONFERENCEABLE", "MERGING", "merging">>,
                                                  <<"MERGING", "CONFERENCED", "conferenced">>}
        PROVE  PromiseInv' /\ PromiseStep
    <2>1. Climbs(session, n)
      BY <1>2, <1>5 DEF Climbs
    <2>2. journal' = n /\ pc' = l
      BY <1>5 DEF Save, Goto
    <2>3. AtHandler'
      BY <1>5, <2>2 DEF AtHandler
    <2> QED
      BY <1>1, <1>5, <2>1, <2>3, SavePromise DEF Moves
  <1>6. ASSUME NEW ph \in Live, NEW d \in Nat
        PROVE  /\ [s EXCEPT !.phase = ph] \in Session /\ [s EXCEPT !.phase = ph].phase = ph
               /\ [s EXCEPT !.phase = ph].heartbeat = s.heartbeat
               /\ [s EXCEPT !.phase = ph, !.deadline = d] \in Session
               /\ [s EXCEPT !.phase = ph, !.deadline = d].phase = ph
               /\ [s EXCEPT !.phase = ph, !.deadline = d].heartbeat = s.heartbeat
    <2>1. ph \in Phases
      BY DEF Phases, Live
    <2> QED
      BY ONLY <1>2, <2>1, d \in Nat DEF Session
  <1>7. {AnswerTimeout, RecorderTimeout} \subseteq Nat /\ 0 \in Nat
    BY EngineAssumption
  <1>8. ASSUME session.phase \in SetupPhases,
               \/ FailNotConnected(s, "UNANSWERED")
               \/ FailNotConnected(s, "ANSWER_TIMEOUT") /\ session.phase = "DIALING"
        PROVE  PromiseInv' /\ PromiseStep
    BY <1>1, <1>2, <1>8, LostPromise
  <1> USE DEF Live, SetupPhases
  <1>9. CASE StepHoldingCaller(s)
    <2>1. CASE caller.state = "HOLDING"
      <3> DEFINE n == [s EXCEPT !.phase = "WAITING_DIALING"]
      <3>1. n \in Session /\ n.phase = "WAITING_DIALING" /\ n.heartbeat = s.heartbeat
        BY <1>6, <1>7
      <3>2. /\ Save(n) /\ Goto("held") /\ published' = published
            /\ session.phase = "HOLDING_CALLER"
        BY <1>2, <1>9, <2>1 DEF StepHoldingCaller
      <3> HIDE DEF n
      <3> QED
        BY <1>5, <3>1, <3>2
    <2> QED
      BY <1>3, <1>4, <1>9, <2>1 DEF StepHoldingCaller
  <1>10. CASE StepWaitingDialing(s)
    <2>1. CASE OpState(s) \in {"DIALING", "ACTIVE"}
      <3> DEFINE n == [s EXCEPT !.phase = "DIALING", !.deadline = AnswerTimeout]
      <3>1. n \in Session /\ n.phase = "DIALING" /\ n.heartbeat = s.heartbeat
        BY <1>6, <1>7
      <3>2. /\ Save(n) /\ Goto("dialing") /\ published' = published
            /\ session.phase = "WAITING_DIALING"
        BY <1>2, <1>10, <2>1 DEF StepWaitingDialing
      <3> HIDE DEF n
      <3> QED
        BY <1>5, <3>1, <3>2
    <2>2. CASE OpState(s) \notin {"DIALING", "ACTIVE"}
      BY <1>2, <1>3, <1>4, <1>8, <1>10, <2>2 DEF StepWaitingDialing
    <2> QED
      BY <2>1, <2>2
  <1>11. CASE StepDialing(s)
    <2>1. CASE OpState(s) = "ACTIVE"
      <3>1. /\ Answered(s) \in Session /\ Answered(s).phase = "WAITING_RECORDER"
            /\ Answered(s).heartbeat = s.heartbeat
        BY <1>6, <1>7 DEF Answered
      <3>2. /\ Save(Answered(s)) /\ Goto("answered") /\ published' = published
            /\ session.phase = "DIALING"
        BY <1>2, <1>11, <2>1 DEF StepDialing
      <3> QED
        BY <1>5, <3>1, <3>2
    <2>2. CASE OpState(s) # "ACTIVE"
      BY <1>2, <1>4, <1>8, <1>11, <2>2 DEF StepDialing
    <2> QED
      BY <2>1, <2>2
  <1>12. CASE StepWaitingRecorder(s)
    BY <1>2, <1>3, <1>4, <1>8, <1>12 DEF StepWaitingRecorder
  <1>13. CASE StepWaitingConferenceable(s, can)
    <2> DEFINE n == [s EXCEPT !.phase = "MERGING"]
    <2>1. CASE Save(n) /\ Goto("merging") /\ published' = published
      <3>1. n \in Session /\ n.phase = "MERGING" /\ n.heartbeat = s.heartbeat
        BY <1>6, <1>7
      <3>2. session.phase = "WAITING_CONFERENCEABLE"
        BY <1>2, <1>13 DEF StepWaitingConferenceable
      <3> HIDE DEF n
      <3> QED
        BY <1>5, <2>1, <3>1, <3>2
    <2>2. CASE ~(Save(n) /\ Goto("merging") /\ published' = published)
      BY <1>2, <1>3, <1>4, <1>8, <1>13, <2>2 DEF StepWaitingConferenceable
    <2> QED
      BY <2>1, <2>2
  <1>14. CASE StepMerging(s)
    <2> DEFINE n == [s EXCEPT !.phase = "CONFERENCED", !.conf = TRUE, !.deadline = 0]
    <2>1. CASE Save(n) /\ Goto("conferenced") /\ published' = published
      <3>1. n \in Session /\ n.phase = "CONFERENCED" /\ n.heartbeat = s.heartbeat
        BY <1>2 DEF Session, Phases
      <3>2. session.phase = "MERGING"
        BY <1>2, <1>14 DEF StepMerging
      <3> HIDE DEF n
      <3> QED
        BY <1>5, <2>1, <3>1, <3>2
    <2>2. CASE ~(Save(n) /\ Goto("conferenced") /\ published' = published)
      BY <1>2, <1>3, <1>4, <1>8, <1>14, <2>2 DEF StepMerging
    <2> QED
      BY <2>1, <2>2
  <1>15. CASE StepConferenced(s)
    <2>1. CASE StartCleanup(s, "RETURNING_CALLER", "OPERATOR_HANGUP", TRUE)
      <3>1. MayClean(session, "RETURNING_CALLER", "OPERATOR_HANGUP")
        BY <1>2, <1>15 DEF StepConferenced, MayClean
      <3> QED
        BY <1>1, <1>2, <2>1, <3>1, StartPromise
    <2> QED
      BY <1>4, <1>15, <2>1 DEF StepConferenced
  <1> QED
    BY <1>9, <1>10, <1>11, <1>12, <1>13, <1>14, <1>15 DEF Reconcile, s

\* reconcileCleanup() moves towards the outcome, or gives it up.
LEMMA CleanupPromise ==
    ASSUME ~JournalMayFail, TypeInv, FlightInv, PromiseInv, Cleanup
    PROVE  PromiseInv' /\ PromiseStep
  <1>1. CleanupRunning => /\ up /\ session \in Session /\ session # None /\ session = journal
                          /\ InCleanup(session) /\ HeartbeatKept(session)
    BY DEF CleanupRunning, TypeInv, TypeOK, HandlerHasSession, FlightInv, Journalled
  <1>2. ASSUME CleanupRunning, NEW n \in Session, Save(n), Moves(session, n),
               published' = published, pc' \in FreeLabels
        PROVE  PromiseInv' /\ PromiseStep
    BY <1>1, <1>2, FreeHandler, SavePromise
  <1> USE DEF FreeLabels, Labels
  <1>3. ASSUME UNCHANGED <<journal, published>>, pc' \in FreeLabels
        PROVE  PromiseInv' /\ PromiseStep
    BY <1>3, FreeHandler, PassPromise
  <1>4. CASE AdoptLate
    <2>1. PICK o \in Owned : Save([session EXCEPT !.op = o, !.safeFor = None, !.activeFor = None])
      BY <1>4 DEF AdoptLate
    <2> DEFINE n == [session EXCEPT !.op = o, !.safeFor = None, !.activeFor = None]
    <2>2. n \in Session /\ SameView(session, n)
      BY <1>1, <1>4 DEF AdoptLate, Session, Owned, SameView
    <2> HIDE DEF n
    <2> QED
      BY <1>2, <1>4, <2>1, <2>2 DEF AdoptLate, Goto, Moves, n
  <1>5. CASE MarkDisconnect \/ MarkSafe \/ OpenActiveWindow \/ MarkUnhold \/ CloseActiveWindow
    <2>1. CleanupRunning /\ published' = published /\ pc' \in {"disconnect", "cleanup", "unhold"}
      BY <1>5 DEF MarkDisconnect, MarkSafe, OpenActiveWindow, MarkUnhold, MayUnhold,
         CloseActiveWindow, WindowBroken, Settled, CleanupReady, Goto
    <2>2. PICK n : /\ Save(n)
                   /\ \/ n = [session EXCEPT !.disconnectAsked = TRUE, !.safeFor = None,
                                             !.activeFor = None]
                      \/ n = [session EXCEPT !.safeFor = 0]
                      \/ n = [session EXCEPT !.activeFor = 0, !.activeSeen = TRUE]
                      \/ n = [session EXCEPT !.unholdAsked = TRUE]
                      \/ n = [session EXCEPT !.activeFor = None]
      BY <1>5 DEF MarkDisconnect, MarkSafe, OpenActiveWindow, MarkUnhold, CloseActiveWindow
    <2>3. n \in Session /\ SameView(session, n)
      <3> USE DEF Session, SameView
      <3>1. CASE n = [session EXCEPT !.disconnectAsked = TRUE, !.safeFor = None, !.activeFor = None]
        BY <1>1, <2>1, <3>1
      <3>2. CASE n = [session EXCEPT !.safeFor = 0]
        BY <1>1, <2>1, <3>2
      <3>3. CASE n = [session EXCEPT !.activeFor = 0, !.activeSeen = TRUE]
        BY <1>1, <2>1, <3>3
      <3>4. CASE n = [session EXCEPT !.unholdAsked = TRUE]
        BY <1>1, <2>1, <3>4
      <3>5. CASE n = [session EXCEPT !.activeFor = None]
        BY <1>1, <2>1, <3>5
      <3> QED
        BY <2>2, <3>1, <3>2, <3>3, <3>4, <3>5
    <2> QED
      BY <1>2, <2>1, <2>2, <2>3 DEF Moves
  <1>6. ASSUME CleanupRunning, NEW ph \in TerminalPhases, NEW r \in Reasons,
               Save(Ended(session, ph, r)), published' = published, pc' = "terminal",
               IF session.phase = "CLEANUP_ABORTED"
               THEN ph = "SYSTEM_FAILURE" /\ r = "CLEANUP_TIMEOUT"
               ELSE \/ ph = "COMPLETED" /\ r = "CALLER_HANGUP"
                    \/ ph = Due(session).status /\ r = session.reason
        PROVE  PromiseInv' /\ PromiseStep
    <2>1. PICK n : n = Ended(session, ph, r)
      OBVIOUS
    <2>2. n \in Session /\ n.phase = ph /\ n.reason = r
      BY <1>1, <1>6, <2>1, EndedType
    <2>3. n.heartbeat = session.heartbeat
      BY <1>1, <1>6, <2>1 DEF Ended, Session
    <2>4. Ends(session, n)
      BY <1>1, <1>6, <2>2, <2>3 DEF Ends, InCleanup
    <2> QED
      BY <1>2, <1>6, <2>1, <2>2, <2>4 DEF Moves
  <1>7. ASSUME CleanupRunning, session.phase # "CLEANUP_ABORTED", Save(Aborted(session)),
               published' = published, pc' = "aborted"
        PROVE  PromiseInv' /\ PromiseStep
    <2>1. PICK n : n = Aborted(session)
      OBVIOUS
    <2>2. n \in Session /\ n.phase = "CLEANUP_ABORTED" /\ n.reason = "CLEANUP_TIMEOUT"
      BY <1>1, <1>7, <2>1, AbortedType
    <2>3. n.heartbeat = session.heartbeat
      BY <1>1, <1>7, <2>1 DEF Aborted, Session
    <2>4. Aborts(session, n)
      BY <1>1, <1>7, <2>2, <2>3 DEF Aborts, InCleanup
    <2> QED
      BY <1>2, <1>7, <2>1, <2>2, <2>4 DEF Moves
  <1>8. CASE FinishCallerEnded
    BY <1>6, <1>8 DEF FinishCallerEnded, Settled, CleanupReady, Goto, TerminalPhases, Reasons
  <1>9. CASE FinishSafe
    <2>1. /\ CleanupRunning /\ session \in Session /\ session.reason \in Reasons
          /\ published' = published /\ InCleanup(session)
      BY <1>1, <1>9 DEF FinishSafe, CallerStable, Settled, CleanupReady, Session
    <2>2. CASE session.phase = "CLEANING_CALLER_HANGUP"
      BY <1>7, <1>9, <2>1, <2>2 DEF FinishSafe, Goto
    <2>3. CASE session.phase # "CLEANING_CALLER_HANGUP"
      <3>1. pc' = "terminal"
        BY <1>9, <2>3 DEF FinishSafe, Goto
      <3>2. CASE session.phase = "RETURNING_CALLER"
        <4>1. session.reason = "OPERATOR_HANGUP" /\ Due(session).status = "COMPLETED"
          BY <1>1, <2>1, <3>2 DEF PromiseInv, Fits, Due
        <4>2. Save(Ended(session, "COMPLETED", "OPERATOR_HANGUP"))
          BY <1>9, <2>3, <3>2 DEF FinishSafe
        <4> QED
          BY <1>6, <2>1, <3>1, <3>2, <4>1, <4>2 DEF TerminalPhases, Reasons
      <3>3. CASE session.phase = "CLEANUP_NOT_CONNECTED"
        <4>1. Save(Ended(session, "NOT_CONNECTED", session.reason))
          BY <1>9, <2>3, <3>3 DEF FinishSafe
        <4> QED
          BY <1>6, <2>1, <3>1, <3>3, <4>1 DEF TerminalPhases, Due
      <3>4. CASE session.phase = "CLEANUP_SYSTEM_FAILURE"
        <4>1. Save(Ended(session, "SYSTEM_FAILURE", session.reason))
          BY <1>9, <2>3, <3>4 DEF FinishSafe
        <4> QED
          BY <1>6, <2>1, <3>1, <3>4, <4>1 DEF TerminalPhases, Due
      <3>5. CASE session.phase = "CLEANUP_ABORTED"
        <4>1. Save(Ended(session, "SYSTEM_FAILURE", "CLEANUP_TIMEOUT"))
          BY <1>9, <2>3, <3>5 DEF FinishSafe
        <4> QED
          BY <1>6, <2>1, <3>1, <3>5, <4>1 DEF TerminalPhases, Reasons
      <3> QED
        BY <2>1, <2>3, <3>2, <3>3, <3>4, <3>5 DEF InCleanup, CleanupPhases
    <2> QED
      BY <2>2, <2>3
  <1>10. CASE CleanupWaiting
    <2>1. CleanupRunning /\ published' = published /\ pc' \in {"aborted", "idle"}
      BY <1>10 DEF CleanupWaiting, CleanupWaits, WindowBroken, Settled, CleanupReady, Goto
    <2> QED
      BY <1>3, <1>7, <1>10, <2>1 DEF CleanupWaiting, Goto
  <1>11. CASE Disconnect \/ Unhold
    BY <1>3, <1>11 DEF Disconnect, Unhold, Goto
  <1>12. CASE PublishOutcome
    <2>1. /\ up /\ pc \in {"aborted", "terminal"} /\ session \in Session /\ session = journal
          /\ journal' = journal /\ pc' = "idle" /\ session # None
          /\ published' = [status |-> StatusFor(session), reason |-> session.reason]
      BY <1>12 DEF PublishOutcome, Publish, Goto, TypeInv, TypeOK, HandlerHasSession, FlightInv,
         Journalled
    <2>2. AtHandler'
      BY <2>1, FreeHandler
    <2>3. CASE pc = "aborted"
      <3>1. session.phase = "CLEANUP_ABORTED" /\ StatusFor(session) = "SYSTEM_FAILURE"
        BY <2>1, <2>3 DEF TypeInv, HandlerHasSession, StatusFor
      <3>2. StageOf(session) = "aborted" /\ OutcomeOf(session) = Due(session)
        BY <2>1, <3>1, LevelOfCleanup DEF PromiseInv, CleanupPhases
      <3>3. Due(session) = published'
        BY <2>1, <3>1 DEF Due
      <3>4. Promise!PShow
        BY <2>1, <3>2, <3>3, Mapping DEF Promise!PShow
      <3> QED
        BY <2>1, <2>2, <3>4, ShowPromise
    <2>4. CASE pc = "terminal"
      <3>1. Terminal(session)
        BY <2>1, <2>4 DEF TypeInv, HandlerHasSession
      <3>2. StatusFor(session) = session.phase
        BY <3>1 DEF Terminal, TerminalPhases, StatusFor
      <3>3. /\ StageOf(session) = "over"
            /\ OutcomeOf(session) = [status |-> session.phase, reason |-> session.reason]
        BY <2>1, <3>1 DEF StageOf, OutcomeOf
      <3>4. Promise!PShow
        BY <2>1, <3>2, <3>3, Mapping DEF Promise!PShow
      <3> QED
        BY <2>1, <2>2, <3>4, ShowPromise
    <2> QED
      BY <2>1, <2>3, <2>4
  <1> QED
    BY <1>4, <1>5, <1>8, <1>9, <1>10, <1>11, <1>12 DEF Cleanup


\* The status of a live session, or of one that is being cleaned up, is its rung.
LEMMA LiveShown ==
    ASSUME PromiseInv, journal \in Session, journal' = journal,
           journal.phase \in Live \cup (CleanupPhases \ {"CLEANUP_ABORTED"}),
           published' = [status |-> StatusFor(journal), reason |-> "-"]
    PROVE  Promise!PShow
  <1>1. PICK j \in Session : j = journal
    OBVIOUS
  <1>2. /\ StageOf(j) \in {"live", "cleaning"} /\ StatusFor(j) \in LiveStatuses
        /\ LevelOf(j) = Rank(StatusFor(j)) + 1
    BY <1>1, LevelOfPhase, LevelOfCleanup DEF PromiseInv
  <1>3. Promise!Showing(LevelOf(j)) = published'
    BY <1>1, <1>2, Showings
  <1> QED
    BY <1>1, <1>2, <1>3, Mapping DEF Promise!PShow

\* The statuses that the handlers publish on the way to the conference.
LEMMA ProgressPromise ==
    ASSUME TypeInv, FlightInv, PromiseInv, PublishAck \/ PublishProgress
    PROVE  PromiseInv' /\ PromiseStep
  <1>1. /\ up /\ pc \in {"ack", "ack_no_hold", "held", "dialing", "answered", "merging", "conferenced"}
        /\ journal' = journal
    BY DEF PublishAck, PublishProgress
  <1>2. journal \in Session
    BY <1>1 DEF TypeInv, TypeOK, HandlerHasSession, FlightInv, Journalled
  <1> USE DEF Live, SetupPhases
  <1>3. CASE PublishAck
    <2>1. journal.phase = "HOLDING_CALLER" /\ StatusFor(journal) = "ACK"
      BY <1>3 DEF PublishAck, PromiseInv, AtHandler, StatusFor
    <2>2. AtHandler'
      BY <1>1, <1>3, <2>1 DEF PublishAck, Goto, AtHandler, Terminal, TerminalPhases
    <2>3. Promise!PShow
      BY <1>1, <1>2, <1>3, <2>1, LiveShown DEF PublishAck, Publish
    <2> QED
      BY <1>1, <2>2, <2>3, ShowPromise
  <1>4. CASE PublishProgress
    <2>1. /\ pc = "held" => journal.phase = "WAITING_DIALING"
          /\ pc = "dialing" => journal.phase = "DIALING"
          /\ pc = "answered" => journal.phase = "WAITING_RECORDER"
          /\ pc = "merging" => journal.phase = "MERGING"
          /\ pc = "conferenced" => journal.phase = "CONFERENCED"
      BY DEF PromiseInv, AtHandler, FlightInv, AboutToGive
    <2>2. /\ journal.phase \in Live
          /\ published' = [status |-> StatusFor(journal), reason |-> "-"]
      BY <1>4, <2>1 DEF PublishProgress, Publish, StatusFor
    <2>3. Promise!PShow
      BY <1>1, <1>2, <2>2, LiveShown
    <2>4. AtHandler'
      BY <1>1, <1>4, <2>2 DEF PublishProgress, Goto, AtHandler, Terminal, TerminalPhases
    <2> QED
      BY <1>1, <2>3, <2>4, ShowPromise
  <1> QED
    BY <1>3, <1>4

\* A new session, or a request that is refused at once.
LEMMA BeginPromise ==
    ASSUME ~JournalMayFail, TypeInv, FlightInv, NEW e \in BOOLEAN, NEW h \in BOOLEAN, Begin(e, h)
    PROVE  PromiseInv' /\ PromiseStep
  <1>1. up /\ session = journal /\ (session # None => Terminal(session)) /\ published' = None
    BY DEF Begin, Running, FlightInv, Journalled
  <1>2. PromiseStage \in {"none", "over"}
    BY <1>1, Mapping DEF StageOf
  <1>3. PICK ph \in {"HOLDING_CALLER", "SYSTEM_FAILURE"}, d \in Nat, r \in {"-", "FAILED"} :
           /\ journal' = NewSession(ph, d, r)
           /\ \/ ph = "HOLDING_CALLER" /\ pc' \in {"ack", "ack_no_hold"}
              \/ ph = "SYSTEM_FAILURE" /\ r = "FAILED" /\ pc' = "terminal"
    BY EngineAssumption DEF Begin, Save
  <1>4. PICK k : k = NewSession(ph, d, r)
    OBVIOUS
  <1>5. k \in Session /\ k.phase = ph /\ k.reason = r /\ k.heartbeat = None
    BY <1>4 DEF NewSession, Session, Phases, SetupPhases, TerminalPhases, Reasons
  <1>6. k # None
    BY <1>5, NoneAssumption
  <1>7. Fits(k)
    BY <1>5 DEF Fits, CleanupPhases, Live, SetupPhases
  <1>8. PromiseInv'
    BY <1>3, <1>4, <1>5, <1>7 DEF PromiseInv, AtHandler, Fits
  <1>9. CASE ph = "HOLDING_CALLER"
    <2>1. StageOf(k) = "live" /\ LevelOf(k) = 1 /\ OutcomeOf(k) = None
      BY <1>5, <1>7, <1>9, LevelOfPhase DEF Live, SetupPhases
    <2> QED
      BY <1>1, <1>2, <1>3, <1>4, <1>8, <2>1, Mapping DEF PromiseStep, Promise!PNext, Promise!PBegin
  <1>10. CASE ph = "SYSTEM_FAILURE"
    <2>1. StageOf(k) = "over" /\ LevelOf(k) = 1
      BY <1>5, <1>6, <1>10 DEF StageOf, LevelOf, Terminal, TerminalPhases
    <2>2. OutcomeOf(k) = [status |-> "SYSTEM_FAILURE", reason |-> "FAILED"]
      BY <1>3, <1>5, <1>10, <2>1 DEF OutcomeOf, Terminal, TerminalPhases
    <2> QED
      BY <1>1, <1>2, <1>3, <1>4, <1>8, <2>1, <2>2, Mapping
         DEF PromiseStep, Promise!PNext, Promise!PBegin
  <1> QED
    BY <1>9, <1>10

\* A death forgets the session and keeps the journal; recover() goes on from it.
LEMMA RecoverPromise ==
    ASSUME ~JournalMayFail, TypeInv, FlightInv, PromiseInv,
           \/ Crash \/ Recover \/ RecoverUnowned \/ Republish
           \/ \E ok \in BOOLEAN : RecoverHold(ok)
    PROVE  PromiseInv' /\ PromiseStep
  <1> USE DEF FreeLabels, Labels
  <1>1. ASSUME up, pc # "idle" \/ recovering
        PROVE  session \in Session /\ session # None /\ journal = session /\ HeartbeatKept(session)
    BY <1>1 DEF TypeInv, TypeOK, HandlerHasSession, FlightInv, Journalled
  <1>2. CASE Crash
    BY <1>2, FreeHandler, PassPromise DEF Crash
  <1>3. CASE Recover
    <2>1. journal' = journal /\ published' = published
      BY <1>3 DEF Recover
    <2>2. AtHandler'
      BY <1>3, <2>1 DEF Recover, AtHandler
    <2> QED
      BY <2>1, <2>2, PassPromise
  <1>4. CASE RecoverUnowned
    <2>1. up /\ session # None /\ ~Terminal(session) /\ FailSystemNoUnhold(session)
      BY <1>1, <1>4 DEF RecoverUnowned, Running, PromiseInv, AtHandler
    <2> QED
      BY <2>1, FailPromise
  <1>5. CASE Republish
    <2>1. up /\ recovering /\ pc = "idle" /\ pc' = "idle" /\ journal' = journal
      BY <1>5 DEF Republish, Running
    <2>2. session \in Session /\ session # None /\ journal = session /\ AtHandler'
      BY <1>1, <2>1, FreeHandler
    <2>3. CASE Terminal(session)
      BY <1>5, <2>1, <2>2, <2>3, PassPromise DEF Republish
    <2>4. CASE ~Terminal(session)
      <3>1. published' = [status |-> StatusFor(journal), reason |-> "-"]
        BY <1>5, <2>2, <2>4 DEF Republish, Publish
      <3>2. CASE journal.phase = "CLEANUP_ABORTED"
        <4>1. StatusFor(journal) = "SYSTEM_FAILURE"
          BY <3>2 DEF StatusFor
        <4>2. StageOf(journal) = "aborted"
          BY <2>2, <3>2, LevelOfCleanup DEF PromiseInv, CleanupPhases
        <4>3. Promise!PShowAgain
          BY <2>1, <3>1, <4>1, <4>2, Mapping DEF Promise!PShowAgain
        <4> QED
          BY <2>1, <2>2, <4>3, ShowPromise
      <3>3. CASE journal.phase # "CLEANUP_ABORTED"
        <4>1. journal.phase \in Live \cup (CleanupPhases \ {"CLEANUP_ABORTED"})
          BY <2>2, <2>4, <3>3 DEF Session, Phases, Terminal, Live
        <4> QED
          BY <2>1, <2>2, <3>1, <4>1, LiveShown, ShowPromise
      <3> QED
        BY <3>2, <3>3
    <2> QED
      BY <2>3, <2>4
  <1>6. ASSUME NEW ok \in BOOLEAN, RecoverHold(ok) PROVE PromiseInv' /\ PromiseStep
    <2>1. /\ up /\ session \in Session /\ session # None /\ journal = session
          /\ HeartbeatKept(session) /\ session.phase = "HOLDING_CALLER" /\ published' = published
      BY <1>1, <1>6 DEF RecoverHold, Running, PromiseInv, AtHandler
    <2>2. CASE ok
      BY <1>6, <2>2, FreeHandler, PassPromise DEF RecoverHold
    <2>3. CASE ~ok
      <3> DEFINE n == Cleaning(session, "CLEANUP_SYSTEM_FAILURE", "FAILED", TRUE)
      <3>1. Save(n) /\ pc' = "cleanup"
        BY <1>6, <2>3 DEF RecoverHold
      <3>2. n \in Session /\ n.phase = "CLEANUP_SYSTEM_FAILURE"
        BY ONLY <2>1, FailedType
      <3>3. /\ n.reason = "FAILED"
            /\ n.heartbeat = IF session.heartbeat = None THEN StatusFor(session) ELSE session.heartbeat
        BY <2>1 DEF Cleaning, Session
      <3> HIDE DEF n
      <3>4. Cleans(session, n)
        BY <2>1, <3>2, <3>3 DEF Cleans, MayClean, Live, SetupPhases
      <3> QED
        BY <2>1, <3>1, <3>2, <3>4, FreeHandler, SavePromise DEF Moves
    <2> QED
      BY <2>2, <2>3
  <1> QED
    BY <1>2, <1>3, <1>4, <1>5, <1>6

\* What the helper asks for while a session is live.
LEMMA RequestPromise ==
    ASSUME ~JournalMayFail, TypeInv, FlightInv, PromiseInv,
           \/ RecorderReady \/ ProtocolFailure
           \/ \E reason \in {"ANSWER_TIMEOUT", "HELPER_CANCELLED"} : Cancel(reason)
    PROVE  PromiseInv' /\ PromiseStep
  <1>1. up /\ session \in Session /\ session # None /\ ~Terminal(session) /\ session = journal
    BY DEF RecorderReady, ProtocolFailure, Cancel, Running, TypeInv, TypeOK, FlightInv, Journalled
  <1>2. ASSUME \/ FailSystem(session)
               \/ StartCleanup(session, "CLEANUP_SYSTEM_FAILURE", "HELPER_CANCELLED", TRUE)
        PROVE  PromiseInv' /\ PromiseStep
    BY <1>1, <1>2, FailPromise
  <1>3. CASE RecorderReady
    <2> DEFINE n == [session EXCEPT !.phase = "WAITING_CONFERENCEABLE", !.deadline = MergeTimeout]
    <2>1. CASE /\ Save(n) /\ Goto("reconcile") /\ published' = published
               /\ session.phase = "WAITING_RECORDER"
      <3>1. /\ n \in Session /\ n.phase = "WAITING_CONFERENCEABLE"
            /\ n.heartbeat = session.heartbeat
        BY <1>1, EngineAssumption DEF Session, Phases, SetupPhases
      <3> HIDE DEF n
      <3>2. Climbs(session, n)
        BY <2>1, <3>1 DEF Climbs
      <3>3. AtHandler'
        BY <2>1, FreeHandler DEF Goto, FreeLabels, Labels
      <3> QED
        BY <1>1, <2>1, <3>1, <3>2, <3>3, SavePromise DEF Moves
    <2>2. CASE FailNotConnected(session, "UNANSWERED") /\ session.phase = "WAITING_RECORDER"
      BY <1>1, <2>2, LostPromise DEF SetupPhases
    <2> QED
      BY <1>2, <1>3, <2>1, <2>2 DEF RecorderReady
  <1>4. CASE ProtocolFailure
    BY <1>2, <1>4 DEF ProtocolFailure
  <1>5. ASSUME NEW reason \in {"ANSWER_TIMEOUT", "HELPER_CANCELLED"}, Cancel(reason)
        PROVE  PromiseInv' /\ PromiseStep
    <2>1. CASE FailNotConnected(session, "ANSWER_TIMEOUT") /\ session.phase = "DIALING"
      BY <1>1, <2>1, LostPromise DEF SetupPhases
    <2>2. CASE Goto("cleanup") /\ UNCHANGED <<session, journal, published>>
      BY <2>2, FreeHandler, PassPromise DEF Goto, FreeLabels, Labels
    <2> QED
      BY <1>2, <1>5, <2>1, <2>2 DEF Cancel
  <1> QED
    BY <1>3, <1>4, <1>5


\* Every step keeps the invariant and is a step of the promise, or none.
LEMMA NextPromise ==
    ASSUME ~JournalMayFail, TypeInv, FlightInv, PromiseInv, [Next]_vars
    PROVE  PromiseInv' /\ PromiseStep
  <1> USE DEF FreeLabels, Labels
  <1>1. ASSUME up, pc # "idle"
        PROVE  session \in Session /\ session # None /\ journal = session
    BY <1>1 DEF TypeInv, TypeOK, HandlerHasSession, FlightInv, Journalled
  <1>2. ASSUME UNCHANGED <<journal, published, pc>> PROVE PromiseInv' /\ PromiseStep
    <2>1. AtHandler'
      BY <1>2 DEF PromiseInv, AtHandler, Terminal
    <2> QED
      BY <1>2, <2>1, PassPromise
  <1>3. CASE HoldUnavailable
    <2>1. up /\ session # None /\ ~Terminal(session) /\ FailSystem(session)
      BY <1>1, <1>3 DEF HoldUnavailable, Running, PromiseInv, AtHandler
    <2> QED
      BY <2>1, FailPromise
  <1>4. ASSUME NEW ok \in BOOLEAN, Hold(ok) \/ PlaceCall(ok) \/ Conference(ok)
        PROVE  PromiseInv' /\ PromiseStep
    <2>1. up /\ session # None /\ ~Terminal(session)
      BY <1>1, <1>4 DEF Hold, PlaceCall, Conference, Running, PromiseInv, AtHandler
    <2>2. CASE FailSystem(session)
      BY <2>1, <2>2, FailPromise
    <2>3. CASE UNCHANGED <<journal, published>> /\ pc' = "idle"
      BY <2>3, FreeHandler, PassPromise
    <2> QED
      BY <1>4, <2>2, <2>3 DEF Hold, PlaceCall, Conference, Goto
  <1>5. CASE ReconcileFailure
    <2>1. up /\ session # None /\ ~Terminal(session)
      BY <1>5 DEF ReconcileFailure, Reconciling
    <2>2. PICK s \in {session, Adopted(session)} :
             \/ FailSystem(s) \/ FailSystemNoUnhold(s)
             \/ StartCleanup(s, "CLEANING_CALLER_HANGUP", "CALLER_HANGUP", TRUE)
      BY <1>5 DEF ReconcileFailure
    <2> QED
      BY <2>1, <2>2, FailPromise
  <1>6. CASE AnswerAtOnce
    <2>1. /\ up /\ session \in Session /\ session # None /\ journal = session
          /\ Save(Answered(session)) /\ Goto("answered") /\ published' = published
          /\ session.phase = "DIALING" /\ RecorderTimeout \in Nat
      BY <1>1, <1>6, EngineAssumption DEF AnswerAtOnce, Running, FlightInv, AboutToGive
    <2>2. PICK n : n = Answered(session)
      OBVIOUS
    <2>3. n \in Session /\ n.phase = "WAITING_RECORDER" /\ n.heartbeat = session.heartbeat
      BY <2>1, <2>2 DEF Answered, Session, Phases, SetupPhases
    <2>4. Climbs(session, n)
      BY <2>1, <2>3 DEF Climbs
    <2>5. AtHandler'
      BY <2>1, <2>2, <2>3 DEF Goto, Save, AtHandler
    <2> QED
      BY <2>1, <2>2, <2>3, <2>4, <2>5, SavePromise DEF Moves
  <1>7. CASE Telecom
    BY <1>2, <1>7 DEF Telecom, CallerMoves, CallerRemoved, OpMoves, ConfMoves, Glitch,
       StrangerEnds, NotEngine, engineVars
  <1>8. CASE Tick
    <2>1. journal' = Aged(journal) /\ published' = published /\ pc' = "idle"
      BY <1>8 DEF Tick, Quiet
    <2>2. AtHandler'
      BY <2>1, FreeHandler
    <2>3. CASE journal = None
      BY <2>1, <2>2, <2>3, PassPromise DEF Aged
    <2>4. CASE journal # None
      <3>1. PICK k : k = Aged(journal)
        OBVIOUS
      <3>2. journal \in Session /\ k \in Session /\ SameView(journal, k)
        BY <2>4, <3>1, AgedType DEF TypeInv, TypeOK, SameView
      <3>3. Fits(k) /\ PromiseStep
        BY <2>1, <3>1, <3>2, MoveFits, MoveStep DEF Moves, PromiseInv
      <3> QED
        BY <2>1, <2>2, <3>1, <3>3 DEF PromiseInv, Fits
    <2> QED
      BY <2>3, <2>4
  <1>9. CASE UNCHANGED vars
    BY <1>2, <1>9 DEF vars, engineVars
  <1> QED
    BY <1>3, <1>4, <1>5, <1>6, <1>7, <1>8, <1>9, ProgressPromise, BeginPromise, RecoverPromise,
       RequestPromise, ReconcilePromise, CleanupPromise DEF Next, Handlers, Requests

\* The engine implements the promise: whatever dies and whatever Telecom shows,
\* the published statuses climb the ladder without going back, a cleanup is silent,
\* and an outcome is published only as the journalled outcome of this session
\* (publish() after update() in every handler, recover() from recovery.json).
THEOREM PromiseKept == ASSUME ~JournalMayFail PROVE Spec => KeepsPromise
  <1>1. Init => TypeInv /\ FlightInv /\ PromiseInv /\ Promise!PInit
    <2> SUFFICES ASSUME Init PROVE PromiseInv /\ Promise!PInit
      BY TypeInvInit, FlightInit
    <2>1. PromiseInv
      BY DEF Init, PromiseInv, Fits, AtHandler
    <2>2. journal = None /\ published = None
      BY DEF Init
    <2> QED
      BY <2>1, <2>2, Mapping DEF Promise!PInit, StageOf, LevelOf, OutcomeOf
  <1>2. TypeInv /\ FlightInv /\ PromiseInv /\ [Next]_vars => (TypeInv /\ FlightInv /\ PromiseInv)'
    BY TypeInvNext, FlightNext, NextPromise
  <1>3. TypeInv /\ FlightInv /\ PromiseInv /\ [Next]_vars => [Promise!PNext]_(Promise!pvars)
    BY NextPromise DEF PromiseStep
  <1> QED
    BY <1>1, <1>2, <1>3, PTL DEF Spec, KeepsPromise, Promise!PSpec

=============================================================================
