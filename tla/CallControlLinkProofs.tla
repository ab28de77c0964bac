----------------------- MODULE CallControlLinkProofs -----------------------
(***************************************************************************)
(* Theorems about the call-control link, for every number of blocks,       *)
(* attempts, heartbeats, crashes and write failures.                       *)
(*                                                                         *)
(* Two processes poll each other's file, so each invariant says what a     *)
(* request or a status that is still unread, or read and forgotten in a    *)
(* crash, can mean to the other side.                                      *)
(***************************************************************************)
EXTENDS CallControlLink, TLAPS

----------------------------------------------------------------------------
(* The inductive invariants *)

RequestKinds == {"DIAL", "RECORDER_READY", "CANCEL"}

Reasons == {"-", "CALLER_HANGUP", "OPERATOR_HANGUP", "UNANSWERED", "ANSWER_TIMEOUT", "FAILED",
            "HELPER_CANCELLED", "CLEANUP_TIMEOUT"}

Reported == [kind : Kinds, reason : Reasons, block : Blocks, at : Moments, seq : Nat \ {0},
             attempt : Stamps]

PolicyStages == {"AwaitingApp", "Dialing", "OperatorAnswered", "RecorderReady", "Merging",
                 "Conferenced", "Terminal"}

Policy == [stage : PolicyStages, rank : 0 .. 6, seq : Nat, at : Moments, kind : Kinds \cup {None},
           reason : Reasons]

Ended == Outcomes \cup {TimedOut}

\* A request names an attempt that was made; the app keeps the last it read.
RequestType ==
    /\ request \in Requested \cup {None} /\ lastReq \in Requested \cup {None}
    /\ attempt \in Stamps
    /\ request # None => request.stamp \in 1 .. attempt

StatusType ==
    /\ status \in Reported \cup {None}
    /\ last \in [kind : Kinds, reason : Reasons] \cup {None}

\* A session that is not "none" has an identity, and one that is being cleaned
\* up, was aborted or is over has an outcome.
SessionType ==
    /\ stage \in {"none", "live", "cleaning", "aborted", "over"} /\ level \in Level
    /\ outcome \in Ended \cup {None}
    /\ jrn \in SessionId \cup {None} /\ mem \in SessionId \cup {None}
    /\ gate \in BOOLEAN /\ late \in BOOLEAN /\ updated \in Moments /\ beats \in Moments
    /\ stage # "none" => jrn \in SessionId
    /\ stage \in {"cleaning", "aborted", "over"} => outcome \in Ended

ProcessType ==
    /\ up \in BOOLEAN /\ recovering \in BOOLEAN /\ healthy \in BOOLEAN
    /\ callerLeft \in BOOLEAN /\ signed \in BOOLEAN
    /\ apc \in {"idle", "show", "RECORDER_READY", "CANCEL"}
    /\ apc = "show" => stage # "none"
    /\ dialled \in [1 .. MaxAttempts -> Nat]

\* A helper that waits for the app has published a request for its block.
HelperType ==
    /\ hpc \in {"idle", "loop", "recorder", "cancel", "teardown", "confirm", "done"}
    /\ block \in Blocks \cup {None} /\ used \subseteq Blocks
    /\ pol \in Policy /\ nextSeq \in Nat /\ result \in Results
    /\ hpc \in {"loop", "recorder", "cancel", "teardown"} =>
          request \in Requested /\ request.block = block /\ request.stamp = attempt

TypeInv == RequestType /\ StatusType /\ SessionType /\ ProcessType /\ HelperType

\* No session is begun for an attempt that was not made.
OnlyMade == \A a \in 1 .. MaxAttempts : a > attempt => dialled[a] = 0

\* A dial that began a session is known to the app: it is the last request it
\* read, or the session it has, or had journalled before it died, is for its
\* block, or the app begins no session any more.
DialTaken ==
    request # None /\ request.kind = "DIAL" /\ dialled[request.stamp] # 0 =>
       /\ jrn \in SessionId /\ jrn.block = request.block
       /\ up => \/ lastReq = request
                \/ mem \in SessionId /\ mem.block = request.block
                \/ ~signed

OnceInv == OnlyMade /\ DialTaken /\ OneSessionPerAttempt

RecorderStages == {"RecorderReady", "Merging", "Conferenced"}

Following == hpc \in {"loop", "recorder"}

\* The policy's stage and the rank of the statuses it took in.
RankFollows ==
    /\ Following => /\ pol.stage \in {"OperatorAnswered", "RecorderReady"} => pol.rank = 4
                    /\ pol.stage = "Merging" => pol.rank = 5
                    /\ pol.stage = "Conferenced" => pol.rank = 6
    /\ hpc = "recorder" => pol.stage = "OperatorAnswered"

\* The gate is requested, recorded and open only when the helper opened it.
GateRequested == Following /\ request.kind # "DIAL" => pol.stage \in RecorderStages

SessionPast == jrn \in SessionId => jrn.attempt <= attempt

GateRecorded ==
    apc = "RECORDER_READY" /\ jrn \in SessionId /\ jrn.attempt = attempt /\ Following
        => pol.stage \in RecorderStages

GateOpen ==
    stage = "live" /\ (gate \/ level >= 5) /\ jrn.attempt = attempt /\ Following
        => pol.stage \in RecorderStages

GateInv == RankFollows /\ GateRequested /\ SessionPast /\ GateRecorded /\ GateOpen

\* The blocks that anything written names were run before.
UsedBlocks ==
    /\ request # None => request.block \in used
    /\ status # None => status.block \in used
    /\ jrn # None => jrn.block \in used

\* The session answers the last request that was published, or an earlier one.
SessionFollows ==
    request # None =>
       /\ status # None /\ status.block = request.block =>
             jrn \in SessionId /\ jrn.block = request.block
       /\ jrn \in SessionId /\ jrn.block = request.block => jrn.attempt = request.stamp

\* A dial that has a session already begins no other.
DialKnown ==
    /\ request # None /\ request.kind = "DIAL"
    /\ jrn \in SessionId /\ jrn.block = request.block /\ up /\ signed
    => lastReq = request \/ (mem \in SessionId /\ mem.block = request.block)

\* A terminal status, on the wire or remembered for the heartbeat, tells that
\* the session it is about does not control a call any more.
StatusTells ==
    /\ status # None /\ jrn \in SessionId /\ status.block = jrn.block
       /\ status.kind \in TerminalKinds => stage \in {"aborted", "over"}
    /\ last # None /\ mem \in SessionId /\ mem = jrn
       /\ last.kind \in TerminalKinds => stage \in {"aborted", "over"}

\* While the flow runs, or is about to run, no session controls a call and
\* no request is left that could begin one.
FlowRuns == hpc \in {"idle", "confirm"} \/ (hpc = "done" /\ result \in Branching)

Settled ==
    FlowRuns =>
       /\ stage \notin {"live", "cleaning"}
       /\ request # None /\ request.kind = "DIAL" =>
             jrn \in SessionId /\ jrn.block = request.block

BranchInv == UsedBlocks /\ SessionFollows /\ DialKnown /\ StatusTells /\ Settled

Failed == [status |-> "SYSTEM_FAILURE", reason |-> "FAILED"]

\* The manifest vouches for the instruction, and the engine in memory has the
\* journalled session unless that one failed before the engine saw it.
EngineHolds ==
    /\ signed = TRUE /\ faults = 0
    /\ up /\ jrn \in SessionId => mem = jrn \/ (stage = "over" /\ outcome = Failed)

\* Only a session that failed at once was not begun.
SessionBegun ==
    jrn \in SessionId => dialled[jrn.attempt] # 0 \/ (stage = "over" /\ outcome = Failed)

AbortedTimedOut == stage = "aborted" => outcome = TimedOut

\* NOT_CONNECTED tells that the session it is about ended so.
EndedNotConnected == stage = "over" /\ outcome.status = "NOT_CONNECTED"

NotConnectedTells ==
    /\ status # None /\ jrn \in SessionId /\ status.block = jrn.block
       /\ status.kind = "NOT_CONNECTED" => EndedNotConnected
    /\ last # None /\ mem \in SessionId /\ mem = jrn
       /\ last.kind = "NOT_CONNECTED" => EndedNotConnected

NotConnectedHeld ==
    hpc \in {"confirm", "done"} /\ result = "NotConnected" =>
       /\ EndedNotConnected /\ dialled[attempt] # 0
       /\ request # None /\ jrn \in SessionId /\ jrn.block = request.block

ConnectInv ==
    EngineHolds /\ SessionBegun /\ AbortedTimedOut /\ NotConnectedTells /\ NotConnectedHeld
----------------------------------------------------------------------------
(* Operators *)

\* The six live statuses, in the order of the wire protocol.
LEMMA LadderKinds ==
    /\ LiveKinds = {"ACK", "CALLER_HELD", "DIALING", "OPERATOR_ANSWERED", "MERGING", "CONFERENCED"}
    /\ \A l \in Level : Ladder[l] \in LiveKinds
  <1>1. /\ Ladder[1] = "ACK" /\ Ladder[2] = "CALLER_HELD" /\ Ladder[3] = "DIALING"
        /\ Ladder[4] = "OPERATOR_ANSWERED" /\ Ladder[5] = "MERGING" /\ Ladder[6] = "CONFERENCED"
    BY DEF Ladder
  <1>2. \A l \in Level : l = 1 \/ l = 2 \/ l = 3 \/ l = 4 \/ l = 5 \/ l = 6
    BY DEF Level
  <1>3. 1 \in Level /\ 2 \in Level /\ 3 \in Level /\ 4 \in Level /\ 5 \in Level /\ 6 \in Level
    BY DEF Level
  <1> QED
    BY <1>1, <1>2, <1>3 DEF LiveKinds

\* PhaseRank(): the place of a live status on the ladder, 0 for any other.
LEMMA Ranks ==
    /\ PhaseRank("ACK") = 1 /\ PhaseRank("CALLER_HELD") = 2 /\ PhaseRank("DIALING") = 3
    /\ PhaseRank("OPERATOR_ANSWERED") = 4 /\ PhaseRank("MERGING") = 5
    /\ PhaseRank("CONFERENCED") = 6
    /\ \A k : k \notin LiveKinds => PhaseRank(k) = 0
  <1>1. /\ Ladder[1] = "ACK" /\ Ladder[2] = "CALLER_HELD" /\ Ladder[3] = "DIALING"
        /\ Ladder[4] = "OPERATOR_ANSWERED" /\ Ladder[5] = "MERGING" /\ Ladder[6] = "CONFERENCED"
    BY DEF Ladder
  <1>2. \A l \in Level : l = 1 \/ l = 2 \/ l = 3 \/ l = 4 \/ l = 5 \/ l = 6
    BY DEF Level
  <1>3. 1 \in Level /\ 2 \in Level /\ 3 \in Level /\ 4 \in Level /\ 5 \in Level /\ 6 \in Level
    BY DEF Level
  <1>4. ASSUME NEW n \in Level
        PROVE  (CHOOSE l \in Level : Ladder[l] = Ladder[n]) = n
    BY <1>1, <1>2, <1>4
  <1>5. \A k : k \notin LiveKinds => PhaseRank(k) = 0
    BY DEF PhaseRank
  <1>6. \A n \in Level : PhaseRank(Ladder[n]) = n
    BY <1>4, LadderKinds DEF PhaseRank
  <1> QED
    BY <1>1, <1>3, <1>5, <1>6

\* Whatever is taken in is a status of the protocol, and leaves a policy.
LEMMA PolicyTyped ==
    ASSUME NEW p \in Policy, NEW st \in Reported
    PROVE  Taken(p, st) \in Policy /\ Taken(p, st).stage = StageAfter(p, st.kind)
  <1>1. StageAfter(p, st.kind) \in PolicyStages
    BY DEF StageAfter, PolicyStages
  <1>2. PhaseRank(st.kind) \in 0 .. 6
    BY Ranks, LadderKinds DEF Reported, Kinds, TerminalKinds
  <1>3. /\ st.seq \in Nat /\ st.at \in Moments /\ st.kind \in Kinds \cup {None}
        /\ st.reason \in Reasons
    BY DEF Reported
  <1>4. (IF st.kind \in LiveKinds THEN PhaseRank(st.kind) ELSE p.rank) \in 0 .. 6
    BY <1>2 DEF Policy
  <1> QED
    BY <1>1, <1>3, <1>4 DEF Taken, Policy

\* Every outcome is a terminal status with a reason.
LEMMA OutcomeKinds ==
    /\ \A o \in Ended : o.status \in TerminalKinds /\ o.reason \in Reasons
    /\ CallerLeft \in Ended
    /\ [status |-> "SYSTEM_FAILURE", reason |-> "FAILED"] \in Ended
    /\ [status |-> "SYSTEM_FAILURE", reason |-> "HELPER_CANCELLED"] \in Ended
  BY DEF Ended, Outcomes, TimedOut, CallerLeft, TerminalKinds, Reasons

----------------------------------------------------------------------------
(* Type correctness *)

\* The initial state has the types.
LEMMA InitType == Init => TypeInv
  <1> SUFFICES ASSUME Init PROVE TypeInv
    OBVIOUS
  <1>0. MaxAttempts \in Nat /\ MaxBeats \in Nat
    BY LinkAssumption
  <1>1. 0 \in Stamps /\ 0 \in Moments /\ 1 \in Level
    BY <1>0 DEF Stamps, Moments, Level
  <1>2. NewPolicy \in Policy
    BY <1>1 DEF NewPolicy, Policy, PolicyStages, Reasons
  <1>3. RequestType /\ StatusType
    BY <1>1 DEF Init, RequestType, StatusType, Requested
  <1>4. SessionType /\ ProcessType
    BY <1>1 DEF Init, PInit, SessionType, ProcessType
  <1>5. HelperType
    BY <1>2 DEF Init, HelperType, Results
  <1> QED
    BY <1>3, <1>4, <1>5 DEF TypeInv

\* A step of the helper leaves the app's side alone.
LEMMA AppFrame ==
    ASSUME TypeInv, UNCHANGED <<status, appVars, countVars>>
    PROVE  StatusType' /\ SessionType' /\ ProcessType' /\ lastReq' = lastReq
  BY DEF TypeInv, StatusType, SessionType, ProcessType, appVars, countVars, promiseVars,
         journalVars, processVars

\* And a step of the app the helper's.
LEMMA HelperFrame ==
    ASSUME TypeInv, UNCHANGED <<request, helperVars>>
    PROVE  /\ HelperType' /\ attempt' = attempt
           /\ lastReq' \in Requested \cup {None} => RequestType'
  BY DEF TypeInv, HelperType, RequestType, helperVars

\* The helper's block runs on, or ends, without a new request.
LEMMA HelperMoves ==
    ASSUME TypeInv, HelperOnly, UNCHANGED request, nextSeq' \in {nextSeq, nextSeq + 1}, pol' \in Policy,
           result' \in Results,
           hpc' \in {"loop", "recorder", "cancel", "teardown", "confirm", "done"},
           hpc \in {"loop", "recorder", "cancel", "teardown"} \/ hpc' \in {"confirm", "done"}
    PROVE  TypeInv'
  <1>1. StatusType' /\ SessionType' /\ ProcessType' /\ lastReq' = lastReq
    BY AppFrame DEF HelperOnly
  <1>2. UNCHANGED <<request, block, attempt, used>> /\ nextSeq' \in Nat
    BY DEF HelperOnly, TypeInv, HelperType
  <1>3. RequestType'
    BY <1>1, <1>2 DEF TypeInv, RequestType
  <1>4. HelperType'
    BY <1>2 DEF TypeInv, HelperType
  <1> QED
    BY <1>1, <1>3, <1>4 DEF TypeInv

\* The helper publishes another request for the block it runs.
LEMMA HelperAsks ==
    ASSUME TypeInv, HelperOnly, hpc \in {"recorder", "cancel"}, nextSeq' = nextSeq + 1,
           pol' \in Policy, result' \in Results, hpc' \in {"loop", "teardown"},
           NEW k \in RequestKinds, NEW r \in {"-", "ANSWER_TIMEOUT", "HELPER_CANCELLED"},
           \/ request' = [request EXCEPT !.kind = k, !.seq = nextSeq, !.reason = r]
           \/ request' = [request EXCEPT !.kind = k, !.seq = nextSeq]
    PROVE  TypeInv' /\ request'.kind = k /\ request'.stamp = attempt
  <1>1. StatusType' /\ SessionType' /\ ProcessType' /\ lastReq' = lastReq
    BY AppFrame DEF HelperOnly
  <1>2. UNCHANGED <<block, attempt, used>> /\ nextSeq \in Nat
    BY DEF HelperOnly, TypeInv, HelperType
  <1>3. request \in Requested /\ request.block = block /\ request.stamp = attempt
    BY DEF TypeInv, HelperType
  <1>4. /\ request' \in Requested /\ request'.kind = k
        /\ request'.block = block /\ request'.stamp = attempt
    BY <1>2, <1>3 DEF Requested, RequestKinds
  <1>5. RequestType'
    <2>1. request # None /\ request.stamp \in 1 .. attempt
      BY <1>3, NoneAssumption DEF TypeInv, RequestType
    <2> QED
      BY <1>1, <1>2, <1>3, <1>4, <2>1 DEF TypeInv, RequestType
  <1>6. HelperType'
    BY <1>2, <1>4 DEF TypeInv, HelperType
  <1> QED
    BY <1>1, <1>4, <1>5, <1>6 DEF TypeInv

\* A block starts.
LEMMA StartType ==
    ASSUME TypeInv, NEW b \in Blocks, StartBlock(b)
    PROVE  /\ TypeInv' /\ attempt' = attempt + 1 /\ attempt' \in Stamps
           /\ hpc' = "loop" => request'.kind = "DIAL"
           /\ request' # request => request' \in Requested /\ request'.stamp = attempt'
  <1>0. MaxAttempts \in Nat /\ MaxBeats \in Nat
    BY LinkAssumption
  <1>1. StatusType' /\ SessionType' /\ ProcessType' /\ lastReq' = lastReq
    BY AppFrame DEF StartBlock
  <1>2. attempt \in Stamps /\ attempt' = attempt + 1 /\ attempt < MaxAttempts
    BY DEF StartBlock, TypeInv, RequestType
  <1>3. attempt' \in Stamps /\ attempt' \in 1 .. attempt' /\ 1 .. attempt \subseteq 1 .. attempt'
    BY <1>0, <1>2 DEF Stamps
  <1>4. block' = b /\ used' \subseteq Blocks /\ nextSeq' = 2 /\ pol' = NewPolicy
    BY DEF StartBlock, TypeInv, HelperType
  <1>5. NewPolicy \in Policy
    BY <1>0 DEF NewPolicy, Policy, PolicyStages, Reasons, Moments
  <1>6. CASE hpc' = "loop" /\ result' = "Failed" /\ request' = Request("DIAL", 1, "-")
    <2>1. /\ request' \in Requested /\ request'.block = block' /\ request'.stamp = attempt'
          /\ request'.kind = "DIAL"
      BY <1>3, <1>4, <1>6 DEF Request, Requested, RequestKinds
    <2>2. RequestType'
      BY <1>1, <1>3, <2>1 DEF TypeInv, RequestType
    <2>3. HelperType'
      BY <1>4, <1>5, <1>6, <2>1 DEF HelperType, Results
    <2> QED
      BY <1>1, <1>2, <1>3, <2>1, <2>2, <2>3 DEF TypeInv
  <1>7. CASE hpc' \in {"confirm", "done"} /\ result' \in {"SystemFailure", "Failed"}
                /\ UNCHANGED request
    <2>1. RequestType'
      BY <1>1, <1>3, <1>7 DEF TypeInv, RequestType
    <2>2. HelperType'
      BY <1>4, <1>5, <1>7 DEF HelperType, Results
    <2> QED
      BY <1>1, <1>2, <1>3, <1>7, <2>1, <2>2 DEF TypeInv
  <1> QED
    BY <1>6, <1>7 DEF StartBlock

\* The helper's steps keep the types.
LEMMA HelperStepType ==
    ASSUME TypeInv, Helper
    PROVE  TypeInv'
  <1>0. pol \in Policy /\ result \in Results /\ status \in Reported \cup {None}
    BY DEF TypeInv, HelperType, StatusType
  <1>r. Results = {"Completed", "NotConnected", "SystemFailure", "CallerHangup", "CleanupTimeout",
                   "Failed"}
    BY DEF Results
  <1>1. ASSUME NEW b \in Blocks, StartBlock(b)
        PROVE  TypeInv'
    BY <1>1, StartType
  <1>2. CASE Poll
    <2>1. status \in Reported
      BY <1>0, <1>2 DEF Poll, Correlates
    <2>2. pol' \in Policy
      <3>1. [pol EXCEPT !.stage = "Terminal"] \in Policy
        BY <1>0 DEF Policy, PolicyStages
      <3> QED
        BY <1>0, <1>2, <2>1, <3>1, PolicyTyped DEF Poll
    <2>3. result' \in Results /\ hpc' \in {"loop", "recorder", "cancel", "confirm", "done"}
      BY <1>0, <1>r, <1>2 DEF Poll, ResultOf
    <2> QED
      BY <1>2, <2>2, <2>3, HelperMoves DEF Poll
  <1>3. ASSUME NEW ok \in BOOLEAN, StartRecorder(ok)
        PROVE  TypeInv'
    <2>1. CASE ok
      <3>1. [pol EXCEPT !.stage = "RecorderReady"] \in Policy /\ "RECORDER_READY" \in RequestKinds
        BY <1>0 DEF Policy, PolicyStages, RequestKinds
      <3> QED
        BY <1>0, <1>3, <2>1, <3>1, HelperAsks DEF StartRecorder
    <2>2. CASE ~ok
      BY <1>0, <1>r, <1>3, <2>2, HelperMoves DEF StartRecorder
    <2> QED
      BY <2>1, <2>2
  <1>4. CASE Deadline \/ AnswerTimeout \/ GuardianHangup \/ HelperFails \/ TeardownTimeout
    <2>1. HelperOnly /\ UNCHANGED <<request, pol, nextSeq>> /\ hpc \in {"loop", "teardown"}
      BY <1>4 DEF Deadline, AnswerTimeout, GuardianHangup, HelperFails, TeardownTimeout
    <2>2. result' \in Results /\ hpc' \in {"cancel", "teardown", "done"}
      BY <1>r, <1>4 DEF Deadline, AnswerTimeout, GuardianHangup, HelperFails, TeardownTimeout
    <2> QED
      BY <1>0, <2>1, <2>2, HelperMoves
  <1>5. ASSUME NEW ok \in BOOLEAN, PublishCancel(ok)
        PROVE  TypeInv'
    <2>1. CASE ok
      <3> DEFINE r == IF result = "NotConnected" THEN "ANSWER_TIMEOUT" ELSE "HELPER_CANCELLED"
      <3>1. r \in {"-", "ANSWER_TIMEOUT", "HELPER_CANCELLED"} /\ "CANCEL" \in RequestKinds
        BY DEF RequestKinds
      <3>2. /\ request' = [request EXCEPT !.kind = "CANCEL", !.seq = nextSeq, !.reason = r]
            /\ nextSeq' = nextSeq + 1 /\ hpc' = "teardown" /\ UNCHANGED <<result, pol>>
            /\ HelperOnly /\ hpc = "cancel"
        BY <1>5, <2>1 DEF PublishCancel
      <3> HIDE DEF r
      <3> QED
        BY <1>0, <3>1, <3>2, HelperAsks
    <2>2. CASE ~ok
      BY <1>0, <1>r, <1>5, <2>2, HelperMoves DEF PublishCancel
    <2> QED
      BY <2>1, <2>2
  <1>6. CASE TeardownPoll
    <2>1. status \in Reported
      BY <1>0, <1>6 DEF TeardownPoll, Correlates
    <2>2. pol' \in Policy
      <3>1. [pol EXCEPT !.seq = status.seq, !.at = status.at, !.kind = status.kind,
                        !.reason = status.reason] \in Policy
        BY <1>0, <2>1 DEF Policy, Reported
      <3> QED
        BY <1>0, <1>6, <3>1 DEF TeardownPoll
    <2>3. result' \in Results /\ hpc' \in {"teardown", "confirm", "done"}
      BY <1>0, <1>r, <1>6 DEF TeardownPoll, MatchedTerminal
    <2> QED
      BY <1>6, <2>2, <2>3, HelperMoves DEF TeardownPoll
  <1>7. ASSUME NEW stable \in BOOLEAN, NEW idle \in BOOLEAN, Confirm(stable, idle)
        PROVE  TypeInv'
    BY <1>0, <1>r, <1>7, HelperMoves DEF Confirm
  <1> QED
    BY <1>1, <1>2, <1>3, <1>4, <1>5, <1>6, <1>7 DEF Helper


\* What the engine's steps leave of a session that the app controls.
LEMMA EngineMoves ==
    ASSUME TypeInv, jrn \in SessionId, updated' = beats, UNCHANGED <<jrn, mem, late, beats>>,
           gate' \in BOOLEAN,
           \/ PAdvance \/ PClean \/ PFinish \/ PAbort \/ UNCHANGED promiseVars
    PROVE  SessionType' /\ (stage # "none" => stage' # "none")
  <1>0. SessionType
    BY DEF TypeInv
  <1>1. /\ stage' \in {"none", "live", "cleaning", "aborted", "over"} /\ level' \in Level
        /\ outcome' \in Ended \cup {None}
        /\ stage' \in {"cleaning", "aborted", "over"} => outcome' \in Ended
        /\ stage # "none" => stage' # "none"
    <2>1. CASE PAdvance
      BY <1>0, <2>1 DEF PAdvance, SessionType, Level
    <2>2. CASE PClean
      BY <1>0, <2>2 DEF PClean, SessionType, Ended
    <2>3. CASE PFinish \/ PAbort
      BY <1>0, <2>3, OutcomeKinds DEF PFinish, PAbort, SessionType, Ended
    <2>4. CASE UNCHANGED promiseVars
      BY <1>0, <2>4 DEF promiseVars, SessionType
    <2> QED
      BY <2>1, <2>2, <2>3, <2>4
  <1> QED
    BY <1>0, <1>1 DEF SessionType

\* A step that publishes nothing.
LEMMA StatusFrame == StatusType /\ UNCHANGED <<status, last>> => StatusType'
  BY DEF StatusType

\* failSystem() cleans up, or leaves an aborted session as it is.
LEMMA FailsMoves ==
    ASSUME NEW reason, Fails(reason)
    PROVE  updated' = beats /\ (PClean \/ UNCHANGED promiseVars)
  BY DEF Fails

\* The engine's handlers keep the types.
LEMMA EngineType ==
    ASSUME TypeInv, Engine \/ UnhealthyCancel \/ RecorderReady \/ Cancel
    PROVE  TypeInv'
  <1>0. /\ SessionType /\ StatusType /\ ProcessType /\ RequestType
    BY DEF TypeInv
  <1>1. stage # "none"
    <2>1. Engine \/ UnhealthyCancel => stage # "none"
      BY DEF Engine, EngineAdvances, EngineCleans, EngineFinishes, EngineAborts, UnhealthyCancel,
             Controls
    <2>2. RecorderReady \/ Cancel => stage \in {"live", "cleaning", "aborted"}
      BY DEF RecorderReady, Cancel, Fails, PClean
    <2> QED
      BY <2>1, <2>2
  <1>2. /\ \/ PAdvance \/ PClean \/ PFinish \/ PAbort \/ UNCHANGED promiseVars
        /\ \/ updated' = beats
           \/ updated' = updated /\ UNCHANGED promiseVars
    <2>1. CASE Engine
      BY <2>1 DEF Engine, EngineAdvances, EngineCleans, EngineFinishes, EngineAborts
    <2>2. CASE UnhealthyCancel
      BY <2>2, FailsMoves DEF UnhealthyCancel
    <2>3. CASE RecorderReady
      BY <2>3, FailsMoves DEF RecorderReady
    <2>4. CASE Cancel
      BY <2>4, FailsMoves DEF Cancel
    <2> QED
      BY <2>1, <2>2, <2>3, <2>4
  <1>3. /\ UNCHANGED <<status, jrn, late, up, recovering, mem, lastReq, last, healthy, signed,
                       beats, dialled, request, helperVars, callerLeft>>
        /\ gate' \in BOOLEAN
        /\ apc' \in {"idle", "show"} \/ apc' = apc
    BY <1>0 DEF Engine, EngineAdvances, EngineCleans, EngineFinishes, EngineAborts,
                UnhealthyCancel, RecorderReady, Cancel, SessionStep, AppOnly, SessionType
  <1>4. jrn \in SessionId
    BY <1>0, <1>1 DEF SessionType
  <1>5. SessionType' /\ stage' # "none"
    <2>1. CASE updated' = beats
      BY <1>1, <1>2, <1>3, <1>4, <2>1, EngineMoves
    <2>2. CASE updated' = updated /\ UNCHANGED promiseVars
      BY <1>0, <1>1, <1>3, <2>2 DEF SessionType, promiseVars
    <2> QED
      BY <1>2, <2>1, <2>2
  <1>6. ProcessType'
    BY <1>0, <1>3, <1>5 DEF ProcessType
  <1>7. StatusType'
    BY <1>0, <1>3, StatusFrame
  <1>8. HelperType' /\ RequestType'
    BY <1>0, <1>3, HelperFrame DEF RequestType
  <1> QED
    BY <1>5, <1>6, <1>7, <1>8 DEF TypeInv

\* A status that is written is one of the protocol.
LEMMA WrittenStatus ==
    ASSUME TypeInv, jrn \in SessionId, NEW kind \in Kinds, NEW reason \in Reasons,
           NEW at \in Moments, WriteStatus(kind, reason, at)
    PROVE  status' \in Reported
  <1>1. (IF status = None THEN 0 ELSE status.seq) + 1 \in Nat \ {0}
    BY DEF TypeInv, StatusType, Reported
  <1>2. jrn.block \in Blocks /\ jrn.attempt \in Stamps
    BY DEF SessionId
  <1> QED
    BY <1>1, <1>2 DEF WriteStatus, Reported

\* What is shown of a session is a status of the protocol.
LEMMA ShownStatus ==
    ASSUME TypeInv, PShow \/ PShowAgain
    PROVE  /\ shown'.status \in Kinds /\ shown'.reason \in Reasons
           /\ stage # "none" /\ jrn \in SessionId /\ UNCHANGED <<stage, level, outcome>>
  <1>0. SessionType
    BY DEF TypeInv
  <1>1. CASE stage \in {"live", "cleaning"} /\ shown' = Showing(level)
    BY <1>0, <1>1, LadderKinds DEF Showing, Kinds, Reasons, SessionType, PShow, PShowAgain
  <1>2. CASE stage \in {"aborted", "over"} /\ shown' = outcome
    BY <1>0, <1>2, OutcomeKinds DEF Kinds, SessionType, PShow, PShowAgain
  <1>3. CASE stage = "aborted" /\ shown' = [status |-> "SYSTEM_FAILURE", reason |-> "-"]
    BY <1>0, <1>3 DEF Kinds, TerminalKinds, Reasons, SessionType, PShow, PShowAgain
  <1> QED
    BY <1>1, <1>2, <1>3 DEF PShow, PShowAgain

\* Publishing a status keeps the types.
LEMMA PublishType ==
    ASSUME TypeInv, (\E ok \in BOOLEAN : Show(ok)) \/ Heartbeat \/ Republish
    PROVE  TypeInv'
  <1>0. /\ SessionType /\ StatusType /\ ProcessType /\ RequestType
    BY DEF TypeInv
  <1>1. CASE \E ok \in BOOLEAN : Show(ok)
    <2> PICK ok \in BOOLEAN : Show(ok)
      BY <1>1
    <2>1. /\ shown'.status \in Kinds /\ shown'.reason \in Reasons /\ jrn \in SessionId
          /\ stage # "none" /\ UNCHANGED <<stage, level, outcome>>
      BY ShownStatus DEF Show
    <2>2. status' \in Reported \cup {None}
      <3>1. CASE WriteStatus(shown'.status, shown'.reason, updated)
        BY <1>0, <2>1, <3>1, WrittenStatus DEF SessionType
      <3> QED
        BY <1>0, <3>1 DEF Show, StatusType
    <2>3. StatusType'
      BY <2>1, <2>2 DEF Show, StatusType
    <2>4. SessionType' /\ ProcessType'
      <3>1. /\ UNCHANGED <<jrn, gate, late, updated, up, recovering, mem, signed, beats, dialled>>
            /\ callerLeft' = callerLeft /\ apc' = "idle"
            /\ healthy' \in {healthy, FALSE}
        BY DEF Show, journalVars, AppOnly
      <3>2. SessionType'
        BY <1>0, <2>1, <3>1 DEF SessionType
      <3>3. ProcessType'
        BY <1>0, <2>1, <3>1 DEF ProcessType
      <3> QED
        BY <3>2, <3>3
    <2>5. HelperType' /\ RequestType'
      BY <1>0, HelperFrame DEF Show, AppOnly, RequestType
    <2> QED
      BY <2>3, <2>4, <2>5 DEF TypeInv
  <1>2. CASE Heartbeat
    <2>1. beats' \in Moments
      BY <1>0, <1>2, LinkAssumption DEF Heartbeat, SessionType, Moments
    <2>2. jrn \in SessionId
      BY <1>0, <1>2 DEF Heartbeat, Controls, SessionType
    <2>3. last.kind \in Kinds /\ last.reason \in Reasons
      BY <1>0, <1>2 DEF Heartbeat, StatusType
    <2>4. status' \in Reported
      BY <1>2, <2>1, <2>2, <2>3, WrittenStatus DEF Heartbeat
    <2>5. StatusType' /\ SessionType' /\ ProcessType'
      BY <1>0, <1>2, <2>1, <2>4 DEF Heartbeat, appVars, promiseVars, journalVars, processVars,
            AppOnly, StatusType, SessionType, ProcessType
    <2>6. HelperType' /\ RequestType'
      BY <1>0, <1>2, HelperFrame DEF Heartbeat, AppOnly, RequestType, appVars, processVars
    <2> QED
      BY <2>5, <2>6 DEF TypeInv
  <1>3. CASE Republish
    <2>0. /\ UNCHANGED <<jrn, gate, late, updated, up, mem, signed, beats, dialled, callerLeft>>
          /\ UNCHANGED <<apc, healthy>> /\ recovering' = FALSE
      BY <1>3 DEF Republish, journalVars, AppOnly
    <2>1. CASE stage = "over"
      <3>0. UNCHANGED <<stage, level, outcome, shown, last, status>>
        BY <1>3, <2>1 DEF Republish, promiseVars
      <3>1. StatusType' /\ SessionType' /\ ProcessType'
        <4>1. StatusType'
          BY <1>0, <3>0 DEF StatusType
        <4>2. SessionType'
          BY <1>0, <2>0, <3>0 DEF SessionType
        <4>3. ProcessType'
          BY <1>0, <2>0, <3>0 DEF ProcessType
        <4> QED
          BY <4>1, <4>2, <4>3
      <3> QED
        BY <1>0, <1>3, <3>1, HelperFrame DEF TypeInv, Republish, AppOnly, RequestType
    <2>2. CASE stage # "over"
      <3>1. /\ PShow \/ PShowAgain
            /\ last' = [kind |-> shown'.status, reason |-> shown'.reason]
            /\ WriteStatus(shown'.status, shown'.reason, updated)
        BY <1>3, <2>2 DEF Republish
      <3>2. /\ shown'.status \in Kinds /\ shown'.reason \in Reasons /\ jrn \in SessionId
            /\ stage # "none" /\ UNCHANGED <<stage, level, outcome>>
        BY <3>1, ShownStatus
      <3>3. status' \in Reported
        BY <1>0, <3>1, <3>2, WrittenStatus DEF SessionType
      <3>4. StatusType'
        BY <3>1, <3>2, <3>3 DEF StatusType
      <3>5. SessionType'
        BY <1>0, <2>0, <3>2 DEF SessionType
      <3>6. ProcessType'
        BY <1>0, <2>0, <3>2 DEF ProcessType
      <3> QED
        BY <1>0, <1>3, <3>4, <3>5, <3>6, HelperFrame DEF TypeInv, Republish, AppOnly, RequestType
    <2> QED
      BY <2>1, <2>2
  <1> QED
    BY <1>1, <1>2, <1>3


\* protocolFailure() keeps the session's types.
LEMMA ProtocolFailureType ==
    ASSUME TypeInv, ProtocolFailure, UNCHANGED <<mem, beats>>
    PROVE  SessionType' /\ (stage # "none" => stage' # "none")
  <1>0. SessionType
    BY DEF TypeInv
  <1>1. CASE Controls
    <2>1. Fails("FAILED") /\ UNCHANGED <<jrn, gate, late>>
      BY <1>1 DEF ProtocolFailure
    <2>2. jrn \in SessionId /\ gate' \in BOOLEAN
      BY <1>0, <1>1, <2>1 DEF Controls, SessionType
    <2> QED
      BY <2>1, <2>2, FailsMoves, EngineMoves
  <1>2. CASE ~Controls
    <2>1. UNCHANGED <<promiseVars, journalVars>>
      BY <1>2 DEF ProtocolFailure
    <2> QED
      BY <1>0, <2>1 DEF promiseVars, journalVars, SessionType
  <1> QED
    BY <1>1, <1>2

\* The identity a request gives to a session.
LEMMA SessionOfRequest == request \in Requested => Session \in SessionId
  BY DEF Session, SessionId, Requested

\* A session that failed before the engine saw it has the types.
LEMMA StandaloneType ==
    ASSUME TypeInv, StandaloneFailure, request \in Requested, UNCHANGED <<mem, beats>>
    PROVE  SessionType' /\ stage' # "none"
  <1>0. SessionType
    BY DEF TypeInv
  <1>1. jrn' \in SessionId /\ stage' = "over"
    BY SessionOfRequest DEF StandaloneFailure
  <1>2. outcome' \in Ended /\ level' \in Level
    BY OutcomeKinds DEF StandaloneFailure, Level
  <1> QED
    BY <1>0, <1>1, <1>2 DEF StandaloneFailure, SessionType

\* A handled request leaves the rest of the app and the helper alone.
LEMMA HandledFrame ==
    ASSUME TypeInv, Handled, request \in Requested, SessionType', UNCHANGED last,
           healthy' \in BOOLEAN, apc' \in {"idle", "show", "RECORDER_READY", "CANCEL"},
           apc' = "show" => stage' # "none", dialled' \in [1 .. MaxAttempts -> Nat]
    PROVE  TypeInv'
  <1>1. StatusType'
    BY StatusFrame DEF Handled, TypeInv
  <1>2. ProcessType'
    BY DEF Handled, AppOnly, TypeInv, ProcessType
  <1>3. HelperType' /\ RequestType'
    BY HelperFrame DEF Handled, AppOnly
  <1> QED
    BY <1>1, <1>2, <1>3 DEF TypeInv

\* The app's requests keep the types.
LEMMA RequestsType ==
    ASSUME TypeInv, Requests
    PROVE  TypeInv'
  <1>0. SessionType /\ StatusType /\ ProcessType /\ RequestType
    BY DEF TypeInv
  <1>a. /\ healthy \in BOOLEAN /\ apc \in {"idle", "show", "RECORDER_READY", "CANCEL"}
        /\ dialled \in [1 .. MaxAttempts -> Nat] /\ (apc = "show" => stage # "none")
    BY <1>0 DEF ProcessType
  <1>u. \A kind : Unread(kind) => request \in Requested /\ request.stamp \in 1 .. attempt
                                  /\ apc = "idle" /\ request.kind = kind
    BY <1>0 DEF RequestType, Unread, Idle
  <1>1. CASE DropDial
    <2>1. SessionType' /\ stage' = stage
      BY <1>0, <1>1 DEF DropDial, promiseVars, journalVars, Handled, SessionType
    <2> QED
      BY <1>a, <1>u, <1>1, <2>1, HandledFrame DEF DropDial
  <1>2. CASE RepeatedDial
    <2>1. UNCHANGED <<mem, beats>>
      BY <1>2 DEF RepeatedDial, Handled
    <2>2. SessionType' /\ (stage # "none" => stage' # "none")
      <3>1. CASE UNCHANGED <<promiseVars, journalVars>>
        BY <1>0, <2>1, <3>1 DEF promiseVars, journalVars, SessionType
      <3>2. CASE ProtocolFailure
        BY <2>1, <3>2, ProtocolFailureType
      <3> QED
        BY <1>2, <3>1, <3>2 DEF RepeatedDial
    <2>3. apc' = apc \/ (apc' = "show" /\ stage = "over")
      BY <1>2 DEF RepeatedDial
    <2>4. Unread("DIAL") /\ Handled /\ UNCHANGED <<last, healthy, dialled>>
      BY <1>2 DEF RepeatedDial
    <2> QED
      BY <1>a, <1>u, <2>2, <2>3, <2>4, HandledFrame
  <1>3. CASE CollidingDial
    <2>1. Unread("DIAL") /\ Handled /\ UNCHANGED <<apc, mem, last, healthy, dialled, beats>>
      BY <1>3 DEF CollidingDial, Handled
    <2>2. SessionType'
      BY <1>3, <2>1, ProtocolFailureType DEF CollidingDial
    <2> QED
      BY <1>a, <1>u, <2>1, <2>2, HandledFrame
  <1>4. CASE RefusedDial
    <2>1. /\ Unread("DIAL") /\ Handled /\ UNCHANGED <<mem, last, healthy, dialled, beats>>
          /\ apc' = "show"
      BY <1>4 DEF RefusedDial, Handled
    <2>2. SessionType' /\ stage' # "none"
      BY <1>u, <1>4, <2>1, StandaloneType DEF RefusedDial
    <2> QED
      BY <1>a, <1>u, <2>1, <2>2, HandledFrame
  <1>5. CASE BeginDial
    <2>1. /\ Unread("DIAL") /\ Handled /\ UNCHANGED <<beats, status>> /\ apc' = "show"
          /\ last' = None /\ healthy' = TRUE
          /\ dialled' = [dialled EXCEPT ![request.stamp] = @ + 1]
      BY <1>5 DEF BeginDial, Handled
    <2>2. /\ jrn' \in SessionId /\ mem' \in SessionId /\ gate' = FALSE /\ late' = FALSE
          /\ updated' = beats
      BY <1>u, <1>5, SessionOfRequest DEF BeginDial
    <2>3. /\ stage' \in {"live", "over"} /\ level' \in Level
          /\ outcome' \in Ended \cup {None} /\ (stage' = "over" => outcome' \in Ended)
      BY <1>5, OutcomeKinds DEF BeginDial, PBegin, Level
    <2>4. SessionType' /\ stage' # "none"
      BY <1>0, <2>1, <2>2, <2>3 DEF SessionType
    <2>5. StatusType'
      BY <1>0, <2>1 DEF StatusType
    <2>6. dialled' \in [1 .. MaxAttempts -> Nat]
      <3>1. request.stamp \in 1 .. MaxAttempts
        BY <1>0, <1>u, <2>1, LinkAssumption DEF RequestType, Stamps
      <3>2. dialled[request.stamp] + 1 \in Nat
        BY <1>a, <3>1
      <3> QED
        BY <1>a, <2>1, <3>2
    <2>7. ProcessType'
      BY <1>0, <2>1, <2>4, <2>6 DEF Handled, AppOnly, ProcessType
    <2>8. HelperType' /\ RequestType'
      BY <1>u, <2>1, HelperFrame DEF Handled, AppOnly
    <2> QED
      BY <2>4, <2>5, <2>7, <2>8 DEF TypeInv
  <1>6. ASSUME NEW kind \in {"RECORDER_READY", "CANCEL"}, StrayRequest(kind)
        PROVE  TypeInv'
    <2>1. Unread(kind) /\ Handled /\ UNCHANGED <<mem, last, healthy, dialled, beats>>
      BY <1>6 DEF StrayRequest, Handled
    <2>2. CASE Controls
      <3>1. ProtocolFailure /\ UNCHANGED apc
        BY <1>6, <2>2 DEF StrayRequest
      <3>2. SessionType'
        BY <2>1, <3>1, ProtocolFailureType
      <3> QED
        BY <1>a, <1>u, <2>1, <3>1, <3>2, HandledFrame
    <2>3. CASE ~Controls
      <3>1. StandaloneFailure /\ apc' = "show"
        BY <1>6, <2>3 DEF StrayRequest
      <3>2. SessionType' /\ stage' # "none"
        BY <1>u, <2>1, <3>1, StandaloneType
      <3> QED
        BY <1>a, <1>u, <2>1, <3>1, <3>2, HandledFrame
    <2> QED
      BY <2>2, <2>3
  <1>7. ASSUME NEW kind \in {"RECORDER_READY", "CANCEL"}, RecordRequest(kind)
        PROVE  TypeInv'
    <2>1. Unread(kind) /\ SameIdentity /\ Handled /\ UNCHANGED <<last, healthy, dialled, beats>>
      BY <1>7 DEF RecordRequest, Handled
    <2>2. CASE UNCHANGED <<promiseVars, journalVars, mem, apc>>
      <3>1. SessionType'
        BY <1>0, <2>1, <2>2 DEF promiseVars, journalVars, SessionType
      <3> QED
        BY <1>a, <1>u, <2>1, <2>2, <3>1, HandledFrame
    <2>3. CASE /\ mem' = [mem EXCEPT !.seq = request.seq, !.stamp = request.stamp, !.kind = kind]
               /\ jrn' = mem' /\ updated' = beats
               /\ apc' = kind
               /\ UNCHANGED <<promiseVars, gate, late>>
      <3>1. mem \in SessionId /\ request \in Requested
        BY <1>0, <1>u, <2>1 DEF SameIdentity, SessionType
      <3>2. mem' \in SessionId
        BY <2>3, <3>1 DEF SessionId, Requested
      <3>3. SessionType'
        BY <1>0, <2>1, <2>3, <3>2 DEF promiseVars, SessionType
      <3> QED
        BY <1>a, <2>1, <2>3, <3>1, <3>3, HandledFrame
    <2>4. CASE ProtocolFailure /\ UNCHANGED <<mem, apc>>
      <3>1. SessionType'
        BY <2>1, <2>4, ProtocolFailureType
      <3> QED
        BY <1>a, <1>u, <2>1, <2>4, <3>1, HandledFrame
    <2> QED
      BY <1>7, <2>2, <2>3, <2>4 DEF RecordRequest
  <1>8. CASE RecorderReady \/ Cancel
    BY <1>8, EngineType
  <1> QED
    BY <1>1, <1>2, <1>3, <1>4, <1>5, <1>6, <1>7, <1>8 DEF Requests

\* A death and a recovery of the app keep the types.
LEMMA RecoveryType ==
    ASSUME TypeInv, Crash \/ Recover \/ RecoverUnsigned
    PROVE  TypeInv'
  <1>0. SessionType /\ StatusType /\ ProcessType /\ RequestType
    BY DEF TypeInv
  <1>1. CASE Crash
    <2>1. SessionType'
      BY <1>0, <1>1 DEF Crash, promiseVars, journalVars, SessionType
    <2>2. StatusType' /\ ProcessType'
      BY <1>0, <1>1 DEF Crash, StatusType, ProcessType
    <2>3. HelperType' /\ RequestType'
      BY <1>1, HelperFrame DEF Crash
    <2> QED
      BY <2>1, <2>2, <2>3 DEF TypeInv
  <1>2. CASE Recover
    <2>1. SessionType' /\ UNCHANGED stage
      BY <1>0, <1>2 DEF Recover, promiseVars, journalVars, SessionType
    <2>2. StatusType'
      <3>1. last' \in [kind : Kinds, reason : Reasons] \cup {None}
        BY <1>0, <1>2 DEF Recover, StatusType, Reported
      <3> QED
        BY <1>0, <1>2, <3>1 DEF Recover, StatusType
    <2>3. ProcessType'
      <3>1. apc' \in {"idle", "show"} /\ (apc' = "show" => stage' # "none")
        BY <1>2, <2>1 DEF Recover
      <3>2. recovering' \in BOOLEAN /\ up' = TRUE
        BY <1>2 DEF Recover
      <3>3. UNCHANGED <<healthy, callerLeft, signed, dialled>>
        BY <1>2 DEF Recover, AppOnly
      <3> QED
        BY <1>0, <3>1, <3>2, <3>3 DEF ProcessType
    <2>4. HelperType' /\ RequestType'
      BY <1>0, <1>2, HelperFrame DEF Recover, AppOnly, RequestType
    <2> QED
      BY <2>1, <2>2, <2>3, <2>4 DEF TypeInv
  <1>3. CASE RecoverUnsigned
    <2>1. SessionType' /\ stage' # "none"
      BY <1>0, <1>3, OutcomeKinds DEF RecoverUnsigned, SessionType
    <2>2. StatusType'
      BY <1>0, <1>3 DEF RecoverUnsigned, StatusType
    <2>3. ProcessType'
      BY <1>0, <1>3, <2>1 DEF RecoverUnsigned, AppOnly, ProcessType
    <2>4. HelperType' /\ RequestType'
      BY <1>0, <1>3, HelperFrame DEF RecoverUnsigned, AppOnly, RequestType
    <2> QED
      BY <2>1, <2>2, <2>3, <2>4 DEF TypeInv
  <1> QED
    BY <1>1, <1>2, <1>3

\* The surroundings, and a step that changes nothing.
LEMMA OutsideType ==
    ASSUME TypeInv, CallerLeaves \/ AnswerDeadlinePasses \/ UNCHANGED vars
    PROVE  TypeInv'
  <1>0. SessionType /\ StatusType /\ ProcessType /\ RequestType
    BY DEF TypeInv
  <1>1. /\ UNCHANGED <<request, status, promiseVars, jrn, gate, updated, processVars, helperVars,
                       signed, beats, dialled>>
        /\ late' \in BOOLEAN /\ callerLeft' \in BOOLEAN
    BY <1>0 DEF CallerLeaves, AnswerDeadlinePasses, vars, appVars, journalVars, countVars,
                SessionType, ProcessType
  <1>2. SessionType'
    BY <1>0, <1>1 DEF promiseVars, processVars, SessionType
  <1>3. StatusType' /\ ProcessType'
    BY <1>0, <1>1 DEF promiseVars, processVars, StatusType, ProcessType
  <1>4. HelperType' /\ RequestType'
    BY <1>0, <1>1, HelperFrame DEF processVars, RequestType
  <1> QED
    BY <1>2, <1>3, <1>4 DEF TypeInv

\* Every step keeps the types.
LEMMA NextType == TypeInv /\ [Next]_vars => TypeInv'
  BY HelperStepType, EngineType, PublishType, RequestsType, RecoveryType, OutsideType DEF Next

\* The type invariant holds whatever the bounds, the flow and the faults.
THEOREM TypeCorrect == Spec => []TypeOK
  <1>1. TypeInv => TypeOK
    <2> SUFFICES ASSUME TypeInv PROVE TypeOK
      OBVIOUS
    <2>1. request \in Requested \cup {None} /\ (lastReq = None \/ lastReq.kind \in RequestKinds)
      BY DEF TypeInv, RequestType, Requested, RequestKinds
    <2>2. /\ \/ status = None
             \/ /\ status.kind \in Kinds /\ status.seq \in Nat \ {0} /\ status.at \in Moments
                /\ status.attempt \in Stamps
          /\ last = None \/ last.kind \in Kinds
      BY DEF TypeInv, StatusType, Reported
    <2>3. /\ stage \in {"none", "live", "cleaning", "aborted", "over"} /\ level \in Level
          /\ jrn \in SessionId \cup {None} /\ mem \in SessionId \cup {None}
          /\ updated \in Moments /\ outcome \in Outcomes \cup {TimedOut, None}
      BY DEF TypeInv, SessionType, Ended
    <2>4. {gate, late, up, recovering, healthy, callerLeft, signed} \subseteq BOOLEAN
      BY DEF TypeInv, SessionType, ProcessType
    <2>5. /\ apc \in {"idle", "show", "RECORDER_READY", "CANCEL"}
          /\ dialled \in [1 .. MaxAttempts -> Nat]
      BY DEF TypeInv, ProcessType
    <2>6. /\ hpc \in {"idle", "loop", "recorder", "cancel", "teardown", "confirm", "done"}
          /\ result \in Results /\ nextSeq \in Nat
          /\ pol.stage \in PolicyStages /\ pol.rank \in 0 .. 6 /\ pol.kind \in Kinds \cup {None}
          /\ pol.at \in Moments
      BY DEF TypeInv, HelperType, Policy
    <2> QED
      BY <2>1, <2>2, <2>3, <2>4, <2>5, <2>6 DEF TypeOK, RequestKinds, PolicyStages
  <1> QED
    BY <1>1, InitType, NextType, PTL DEF Spec


----------------------------------------------------------------------------
(* A request is carried out once *)

\* Nothing was dialled yet.
LEMMA InitOnce == Init => OnceInv
  BY NoneAssumption DEF Init, OnceInv, OnlyMade, DialTaken, OneSessionPerAttempt

\* Most steps touch neither the dial, nor what the app knows of it.
LEMMA OnceFrame ==
    ASSUME OnceInv, UNCHANGED <<attempt, dialled, request, jrn, up, lastReq, mem, signed>>
    PROVE  OnceInv'
  BY DEF OnceInv, OnlyMade, DialTaken, OneSessionPerAttempt

\* What the helper's steps leave alone, and how a request changes.
LEMMA HelperEffects ==
    ASSUME TypeInv, Helper
    PROVE  /\ UNCHANGED <<status, appVars, countVars>>
           /\ \/ attempt' = attempt
              \/ \E b \in Blocks : StartBlock(b)
           /\ \/ request' = request
              \/ request'.kind # "DIAL"
              \/ request'.stamp = attempt + 1 /\ attempt' = attempt + 1
  <1>1. ASSUME NEW b \in Blocks, StartBlock(b)
        PROVE  /\ UNCHANGED <<status, appVars, countVars>>
               /\ \/ request' = request
                  \/ request'.stamp = attempt + 1 /\ attempt' = attempt + 1
    BY <1>1, StartType DEF StartBlock
  <1>2. CASE Poll \/ Deadline \/ AnswerTimeout \/ GuardianHangup \/ HelperFails \/ TeardownPoll
               \/ TeardownTimeout \/ \E stable, idle \in BOOLEAN : Confirm(stable, idle)
    BY <1>2 DEF Poll, Deadline, AnswerTimeout, GuardianHangup, HelperFails, TeardownPoll,
          TeardownTimeout, Confirm, HelperOnly
  <1>3. ASSUME NEW ok \in BOOLEAN, StartRecorder(ok) \/ PublishCancel(ok)
        PROVE  /\ UNCHANGED <<status, appVars, countVars, attempt>>
               /\ request' = request \/ request'.kind # "DIAL"
    <2>1. UNCHANGED <<status, appVars, countVars, attempt>>
      BY <1>3 DEF StartRecorder, PublishCancel, HelperOnly
    <2>2. request \in Requested
      BY <1>3 DEF StartRecorder, PublishCancel, TypeInv, HelperType
    <2>3. CASE StartRecorder(ok)
      <3>1. \/ request' = request
            \/ request' = [request EXCEPT !.kind = "RECORDER_READY", !.seq = nextSeq]
        BY <2>3 DEF StartRecorder
      <3> QED
        BY <2>1, <2>2, <3>1 DEF Requested
    <2>4. CASE PublishCancel(ok)
      <3> DEFINE r == IF result = "NotConnected" THEN "ANSWER_TIMEOUT" ELSE "HELPER_CANCELLED"
      <3>1. \/ request' = request
            \/ request' = [request EXCEPT !.kind = "CANCEL", !.seq = nextSeq, !.reason = r]
        BY <2>4 DEF PublishCancel
      <3> HIDE DEF r
      <3> QED
        BY <2>1, <2>2, <3>1 DEF Requested
    <2> QED
      BY <1>3, <2>1, <2>3, <2>4
  <1> QED
    BY <1>1, <1>2, <1>3 DEF Helper

\* The helper makes a new attempt, for which no session was begun yet.
LEMMA HelperOnce ==
    ASSUME TypeInv, OnceInv, Helper
    PROVE  OnceInv'
  <1>1. UNCHANGED <<dialled, jrn, up, lastReq, mem, signed>>
    BY HelperEffects DEF appVars, countVars, journalVars, processVars
  <1>2. attempt' \in {attempt, attempt + 1} /\ attempt \in Nat
    <2>1. attempt \in Nat
      BY LinkAssumption DEF TypeInv, RequestType, Stamps
    <2> QED
      BY <2>1, HelperEffects DEF StartBlock
  <1>3. OnlyMade'
    BY <1>1, <1>2 DEF OnceInv, OnlyMade
  <1>4. DialTaken'
    <2>1. CASE request' = request
      BY <1>1, <2>1 DEF OnceInv, DialTaken
    <2>2. CASE request'.kind # "DIAL"
      BY <2>2 DEF DialTaken
    <2>3. CASE request'.stamp = attempt + 1 /\ attempt' = attempt + 1
      <3>1. attempt + 1 \in 1 .. MaxAttempts
        <4>1. TypeInv'
          BY HelperStepType
        <4> QED
          BY <1>2, <2>3, <4>1, LinkAssumption DEF TypeInv, RequestType, Stamps
      <3>2. dialled'[request'.stamp] = 0
        BY <1>1, <1>2, <2>3, <3>1 DEF OnceInv, OnlyMade
      <3> QED
        BY <3>2 DEF DialTaken
    <2> QED
      BY <2>1, <2>2, <2>3, HelperEffects
  <1> QED
    BY <1>1, <1>3, <1>4 DEF OnceInv, OneSessionPerAttempt

\* A request that is handled is the last one that was read; what is left to say
\* is which session is journalled.
LEMMA HandledOnce ==
    ASSUME TypeInv, OnceInv, Handled, request \in Requested, UNCHANGED dialled,
           jrn' = jrn \/ jrn' = Session \/ request.kind # "DIAL"
    PROVE  OnceInv'
  <1>1. UNCHANGED <<attempt, request>> /\ lastReq' = request
    BY DEF Handled, AppOnly, helperVars
  <1>2. Session \in SessionId /\ Session.block = request.block
    BY SessionOfRequest DEF Session
  <1>3. DialTaken'
    BY <1>1, <1>2 DEF OnceInv, DialTaken
  <1> QED
    BY <1>1, <1>3 DEF OnceInv, OnlyMade, OneSessionPerAttempt

\* A dial that the app does not know yet began no session.
LEMMA BeginOnce ==
    ASSUME TypeInv, OnceInv, BeginDial
    PROVE  OnceInv'
  <1>1. /\ request \in Requested /\ request.kind = "DIAL" /\ request # None /\ up
        /\ request # lastReq
    BY DEF BeginDial, Unread, Idle, TypeInv, RequestType
  <1>2. request.stamp \in 1 .. MaxAttempts /\ request.stamp <= attempt /\ attempt \in Nat
    BY <1>1, LinkAssumption DEF TypeInv, RequestType, Stamps
  <1>3. dialled[request.stamp] = 0
    <2>1. ~(mem \in SessionId /\ mem.block = request.block) /\ signed
      BY NoneAssumption DEF BeginDial, SameIdentity
    <2> QED
      BY <1>1, <2>1 DEF OnceInv, DialTaken
  <1>4. /\ dialled' = [dialled EXCEPT ![request.stamp] = 1]
        /\ dialled \in [1 .. MaxAttempts -> Nat]
    BY <1>3 DEF BeginDial, TypeInv, ProcessType
  <1>5. UNCHANGED <<attempt, request>> /\ lastReq' = request /\ jrn' = Session
    BY DEF BeginDial, Handled, AppOnly, helperVars
  <1>6. OnlyMade'
    BY <1>2, <1>4, <1>5 DEF OnceInv, OnlyMade
  <1>7. OneSessionPerAttempt'
    BY <1>2, <1>4 DEF OnceInv, OneSessionPerAttempt
  <1>8. DialTaken'
    BY <1>1, <1>5, SessionOfRequest DEF DialTaken, Session
  <1> QED
    BY <1>6, <1>7, <1>8 DEF OnceInv

\* Reading a request begins a session at most once per attempt.
LEMMA RequestsOnce ==
    ASSUME TypeInv, OnceInv, Requests
    PROVE  OnceInv'
  <1>u. \A kind : Unread(kind) => request \in Requested /\ request.kind = kind
    BY DEF TypeInv, RequestType, Unread
  <1>p. ProtocolFailure => jrn' = jrn
    BY DEF ProtocolFailure, journalVars
  <1>1. CASE DropDial \/ RepeatedDial \/ CollidingDial
    <2>1. jrn' = jrn
      BY <1>1, <1>p DEF DropDial, RepeatedDial, CollidingDial, journalVars
    <2>2. Unread("DIAL") /\ Handled /\ UNCHANGED dialled
      BY <1>1 DEF DropDial, RepeatedDial, CollidingDial
    <2> QED
      BY <1>u, <2>1, <2>2, HandledOnce
  <1>2. CASE RefusedDial
    BY <1>u, <1>2, HandledOnce DEF RefusedDial, StandaloneFailure
  <1>3. CASE BeginDial
    BY <1>3, BeginOnce
  <1>4. ASSUME NEW kind \in {"RECORDER_READY", "CANCEL"}, StrayRequest(kind) \/ RecordRequest(kind)
        PROVE  OnceInv'
    <2>1. Unread(kind) /\ Handled /\ UNCHANGED dialled
      BY <1>4 DEF StrayRequest, RecordRequest
    <2> QED
      BY <1>u, <2>1, HandledOnce
  <1>5. CASE RecorderReady \/ Cancel
    <2>1. UNCHANGED <<attempt, dialled, request, jrn, up, lastReq, mem, signed>>
      BY <1>5 DEF RecorderReady, Cancel, SessionStep, AppOnly, helperVars
    <2> QED
      BY <2>1, OnceFrame
  <1> QED
    BY <1>1, <1>2, <1>3, <1>4, <1>5 DEF Requests

\* A death forgets the dial, the journal does not.
LEMMA RecoveryOnce ==
    ASSUME OnceInv, Crash \/ Recover \/ RecoverUnsigned
    PROVE  OnceInv'
  <1>1. UNCHANGED <<attempt, dialled, request, jrn>>
    BY DEF Crash, Recover, RecoverUnsigned, AppOnly, helperVars, journalVars
  <1>2. ~up' \/ mem' = jrn \/ ~signed'
    BY DEF Crash, Recover, RecoverUnsigned
  <1>3. DialTaken'
    BY <1>1, <1>2 DEF OnceInv, DialTaken
  <1> QED
    BY <1>1, <1>3 DEF OnceInv, OnlyMade, OneSessionPerAttempt

\* Every step carries a dial out at most once.
LEMMA NextOnce == TypeInv /\ OnceInv /\ [Next]_vars => OnceInv'
  <1> SUFFICES ASSUME TypeInv, OnceInv, [Next]_vars PROVE OnceInv'
    OBVIOUS
  <1>1. CASE Engine \/ UnhealthyCancel
    <2>1. UNCHANGED <<attempt, dialled, request, jrn, up, lastReq, mem, signed>>
      BY <1>1 DEF Engine, EngineAdvances, EngineCleans, EngineFinishes, EngineAborts,
            UnhealthyCancel, SessionStep, AppOnly, helperVars
    <2> QED
      BY <2>1, OnceFrame
  <1>2. CASE (\E ok \in BOOLEAN : Show(ok)) \/ Heartbeat \/ Republish
    <2>1. UNCHANGED <<attempt, dialled, request, jrn, up, lastReq, mem, signed>>
      BY <1>2 DEF Show, Heartbeat, Republish, AppOnly, helperVars, appVars, journalVars, processVars
    <2> QED
      BY <2>1, OnceFrame
  <1>3. CASE CallerLeaves \/ AnswerDeadlinePasses \/ UNCHANGED vars
    <2>1. UNCHANGED <<attempt, dialled, request, jrn, up, lastReq, mem, signed>>
      BY <1>3 DEF CallerLeaves, AnswerDeadlinePasses, vars, helperVars, appVars, journalVars,
            processVars, countVars
    <2> QED
      BY <2>1, OnceFrame
  <1> QED
    BY <1>1, <1>2, <1>3, HelperOnce, RequestsOnce, RecoveryOnce DEF Next

\* A request is carried out once, however often the app dies between reading
\* it, journalling its session and answering it.
THEOREM CarriedOutOnce == Spec => []OneSessionPerAttempt
  <1>1. OnceInv => OneSessionPerAttempt
    BY DEF OnceInv
  <1>2. Init => TypeInv /\ OnceInv
    BY InitType, InitOnce
  <1>3. (TypeInv /\ OnceInv) /\ [Next]_vars => (TypeInv /\ OnceInv)'
    BY NextType, NextOnce
  <1> QED
    BY <1>1, <1>2, <1>3, PTL DEF Spec


----------------------------------------------------------------------------
(* No merge before the recorder *)

\* The gate starts closed.
LEMMA InitGate == Init => GateInv
  BY NoneAssumption DEF Init, PInit, GateInv, RankFollows, GateRequested, SessionPast,
        GateRecorded, GateOpen, Following

\* A helper that follows a status it took in stays past the recorder gate once
\* it is past it: the ladder is not climbed down, and its rungs are not skipped.
LEMMA PollFollows ==
    ASSUME TypeInv, RankFollows, Poll
    PROVE  /\ RankFollows'
           /\ Following' /\ pol.stage \in RecorderStages => pol'.stage \in RecorderStages
  <1>0. pol \in Policy /\ status \in Reported /\ hpc = "loop"
    BY DEF Poll, Correlates, TypeInv, HelperType, StatusType
  <1> SUFFICES ASSUME Following'
               PROVE  /\ RankFollows'
                      /\ pol.stage \in RecorderStages => pol'.stage \in RecorderStages
    BY DEF RankFollows, Following
  <1>1. /\ ~Refused(pol, status) /\ pol' = Taken(pol, status) /\ status.kind \notin TerminalKinds
        /\ hpc' = IF pol'.stage = "OperatorAnswered" /\ pol.stage # "OperatorAnswered"
                  THEN "recorder" ELSE "loop"
    BY DEF Poll, Following, Branching
  <1>2. /\ status.kind \in LiveKinds
        /\ status.kind \in {"ACK", "CALLER_HELD", "DIALING", "OPERATOR_ANSWERED", "MERGING",
                            "CONFERENCED"}
    BY <1>0, <1>1, LadderKinds DEF Reported, Kinds
  <1>3. pol'.stage = StageAfter(pol, status.kind) /\ pol'.rank = PhaseRank(status.kind)
    BY <1>0, <1>1, <1>2, PolicyTyped DEF Taken, Policy
  <1>4. PhaseRank(status.kind) >= pol.rank
    BY <1>0, <1>1, <1>2, Ranks DEF Refused, Policy
  <1>5. RankFollows'
    BY <1>1, <1>2, <1>3, Ranks DEF RankFollows, StageAfter, Following
  <1>6. ASSUME pol.stage \in RecorderStages
        PROVE  pol'.stage \in RecorderStages
    <2>1. pol.rank >= 4
      BY <1>0, <1>6 DEF RankFollows, Following, RecorderStages
    <2>2. PhaseRank(status.kind) >= 4
      BY <1>0, <1>2, <1>4, <2>1, Ranks DEF Policy
    <2>3. status.kind \in {"OPERATOR_ANSWERED", "MERGING", "CONFERENCED"}
      BY <1>2, <2>2, Ranks
    <2>4. status.kind = "OPERATOR_ANSWERED" => pol.stage = "RecorderReady"
      BY <1>0, <1>4, <1>6, Ranks DEF RankFollows, Following, RecorderStages
    <2> QED
      BY <1>3, <2>3, <2>4 DEF StageAfter, RecorderStages
  <1> QED
    BY <1>5, <1>6

\* The helper opens the gate before it asks for the merge; a new block has no
\* session yet.
LEMMA HelperGate ==
    ASSUME TypeInv, GateInv, Helper
    PROVE  GateInv'
  <1>0. UNCHANGED <<stage, level, jrn, gate, apc>>
    BY HelperEffects DEF appVars, promiseVars, journalVars, processVars
  <1>t. /\ jrn \in SessionId => jrn.attempt <= attempt /\ jrn.attempt \in Nat
        /\ attempt \in Nat /\ (stage = "live" => jrn \in SessionId)
    <2>1. MaxAttempts \in Nat
      BY LinkAssumption
    <2> QED
      BY <2>1 DEF GateInv, SessionPast, TypeInv, RequestType, SessionType, SessionId, Stamps
  <1>1. ASSUME NEW b \in Blocks, StartBlock(b)
        PROVE  GateInv'
    <2>1. /\ attempt' = attempt + 1 /\ pol' = NewPolicy /\ hpc' \in {"loop", "confirm", "done"}
          /\ hpc' = "loop" => request'.kind = "DIAL"
      BY <1>1, StartType DEF StartBlock
    <2>2. RankFollows' /\ GateRequested'
      BY <2>1 DEF RankFollows, GateRequested, Following, NewPolicy
    <2>3. SessionPast' /\ GateRecorded' /\ GateOpen'
      BY <1>0, <1>t, <2>1 DEF SessionPast, GateRecorded, GateOpen
    <2> QED
      BY <2>2, <2>3 DEF GateInv
  <1>2. CASE Poll
    <2>1. UNCHANGED <<request, attempt>> /\ hpc = "loop"
      BY <1>2 DEF Poll, HelperOnly
    <2>2. /\ RankFollows'
          /\ Following' /\ pol.stage \in RecorderStages => pol'.stage \in RecorderStages
      BY <1>2, PollFollows DEF GateInv
    <2> QED
      BY <1>0, <2>1, <2>2 DEF GateInv, GateRequested, SessionPast, GateRecorded, GateOpen,
            Following
  <1>3. ASSUME NEW ok \in BOOLEAN, StartRecorder(ok)
        PROVE  GateInv'
    <2>0. attempt' = attempt /\ hpc = "recorder"
      BY <1>3 DEF StartRecorder, HelperOnly
    <2>1. CASE ok
      <3>1. pol'.stage = "RecorderReady" /\ pol'.rank = pol.rank /\ hpc' = "loop"
        BY <1>3, <2>1 DEF StartRecorder, TypeInv, HelperType, Policy
      <3>2. pol.rank = 4
        BY <2>0 DEF GateInv, RankFollows, Following
      <3> QED
        BY <1>0, <2>0, <3>1, <3>2 DEF GateInv, RankFollows, GateRequested, SessionPast,
              GateRecorded, GateOpen, Following, RecorderStages
    <2>2. CASE ~ok
      <3>1. hpc' = "cancel"
        BY <1>3, <2>2 DEF StartRecorder
      <3> QED
        BY <1>0, <2>0, <3>1 DEF GateInv, RankFollows, GateRequested, SessionPast, GateRecorded,
              GateOpen, Following
    <2> QED
      BY <2>1, <2>2
  <1>4. CASE Deadline \/ AnswerTimeout \/ GuardianHangup \/ HelperFails \/ TeardownTimeout
             \/ (\E ok \in BOOLEAN : PublishCancel(ok)) \/ TeardownPoll
             \/ \E stable, idle \in BOOLEAN : Confirm(stable, idle)
    <2>1. attempt' = attempt /\ hpc' \notin {"loop", "recorder"}
      BY <1>4 DEF Deadline, AnswerTimeout, GuardianHangup, HelperFails, TeardownTimeout,
            PublishCancel, TeardownPoll, MatchedTerminal, Confirm, HelperOnly
    <2> QED
      BY <1>0, <2>1 DEF GateInv, RankFollows, GateRequested, SessionPast, GateRecorded, GateOpen,
            Following
  <1> QED
    BY <1>1, <1>2, <1>3, <1>4 DEF Helper

\* A step of the app that leaves the gate, the rung and the session's identity
\* as they are, or ends the session.
LEMMA AppGateFrame ==
    ASSUME GateInv, UNCHANGED <<request, helperVars, jrn>>,
           apc' = apc \/ apc' \in {"idle", "show"},
           stage' # "live" \/ (stage = "live" /\ gate' = gate /\ level' = level)
    PROVE  GateInv'
  BY DEF GateInv, RankFollows, GateRequested, SessionPast, GateRecorded, GateOpen, Following,
         helperVars

\* failSystem() ends a live session.
LEMMA FailsEnds ==
    ASSUME NEW reason, Fails(reason)
    PROVE  stage' # "live"
  BY DEF Fails, PClean, promiseVars

\* The engine advances past an answer only through the gate.
LEMMA EngineGate ==
    ASSUME TypeInv, GateInv, Engine \/ UnhealthyCancel \/ RecorderReady \/ Cancel
    PROVE  GateInv'
  <1>0. /\ UNCHANGED <<request, helperVars, jrn>>
        /\ apc' = apc \/ apc' \in {"idle", "show"}
    BY DEF Engine, EngineAdvances, EngineCleans, EngineFinishes, EngineAborts, UnhealthyCancel,
           RecorderReady, Cancel, SessionStep, AppOnly
  <1>1. CASE EngineAdvances
    <2>1. /\ stage = "live" /\ stage' = "live" /\ level' = level + 1 /\ gate' = gate
          /\ level = 4 => gate
      BY <1>1 DEF EngineAdvances, PAdvance, SessionStep
    <2>2. level \in 1 .. 6
      BY DEF TypeInv, SessionType, Level
    <2>3. level' >= 5 => gate \/ level >= 5
      BY <2>1, <2>2
    <2>4. GateOpen'
      BY <1>0, <2>1, <2>3 DEF GateInv, GateOpen, Following, helperVars
    <2> QED
      BY <1>0, <2>4 DEF GateInv, RankFollows, GateRequested, SessionPast, GateRecorded, Following,
            helperVars
  <1>2. CASE EngineCleans \/ EngineFinishes \/ EngineAborts
    <2>1. stage' # "live"
      BY <1>2 DEF EngineCleans, EngineFinishes, EngineAborts, PClean, PFinish, PAbort
    <2> QED
      BY <1>0, <2>1, AppGateFrame
  <1>3. CASE UnhealthyCancel
    BY <1>0, <1>3, FailsEnds, AppGateFrame DEF UnhealthyCancel
  <1>4. CASE RecorderReady
    <2>1. CASE stage = "live" /\ level = 4 /\ gate' = TRUE /\ UNCHANGED promiseVars
      <3>1. jrn \in SessionId /\ apc = "RECORDER_READY"
        BY <1>4, <2>1 DEF RecorderReady, TypeInv, SessionType
      <3>2. GateOpen' /\ apc' = "idle"
        BY <1>0, <1>4, <3>1 DEF RecorderReady, GateInv, GateRecorded, GateOpen, Following,
              helperVars
      <3> QED
        BY <1>0, <3>2 DEF GateInv, RankFollows, GateRequested, SessionPast, GateRecorded,
              Following, helperVars
    <2>2. CASE stage' # "live"
      BY <1>0, <2>2, AppGateFrame
    <2> QED
      BY <1>4, <2>1, <2>2, FailsEnds DEF RecorderReady, PClean
  <1>5. CASE Cancel
    <2>1. stage' # "live"
      BY <1>5, FailsEnds DEF Cancel, PClean, promiseVars
    <2> QED
      BY <1>0, <2>1, AppGateFrame
  <1> QED
    BY <1>1, <1>2, <1>3, <1>4, <1>5 DEF Engine

\* A session that is over, or new, has not merged anything.
LEMMA NewSessionGate ==
    ASSUME TypeInv, GateInv, UNCHANGED <<request, helperVars>>, jrn' = Session, apc' = "show",
           request \in Requested, stage' # "live" \/ (gate' = FALSE /\ level' = 1)
    PROVE  GateInv'
  <1>1. request.stamp \in 1 .. attempt /\ attempt' = attempt /\ attempt \in Nat
    <2>1. MaxAttempts \in Nat
      BY LinkAssumption
    <2> QED
      BY <2>1, NoneAssumption DEF TypeInv, RequestType, Stamps, helperVars
  <1>2. SessionPast'
    BY <1>1 DEF SessionPast, Session
  <1> QED
    BY <1>2 DEF GateInv, RankFollows, GateRequested, GateRecorded, GateOpen, Following, helperVars

\* protocolFailure() merges nothing.
LEMMA ProtocolFailureGate ==
    ASSUME ProtocolFailure
    PROVE  jrn' = jrn /\ (stage' # "live" \/ (stage = "live" /\ gate' = gate /\ level' = level))
  BY FailsEnds DEF ProtocolFailure, promiseVars, journalVars

\* RECORDER_READY is recorded only when the helper asked for it, and by then
\* its gate is open.
LEMMA RequestsGate ==
    ASSUME TypeInv, GateInv, Requests
    PROVE  GateInv'
  <1>u. \A kind : Unread(kind) => request \in Requested /\ apc = "idle" /\ request.kind = kind
    BY DEF TypeInv, RequestType, Unread, Idle
  <1>h. Handled => UNCHANGED <<request, helperVars>>
    BY DEF Handled, AppOnly
  <1>1. CASE DropDial \/ RepeatedDial \/ CollidingDial
    <2>1. jrn' = jrn /\ (stage' # "live" \/ (stage = "live" /\ gate' = gate /\ level' = level))
      BY <1>1, ProtocolFailureGate DEF DropDial, RepeatedDial, CollidingDial, promiseVars,
            journalVars
    <2>2. Handled /\ (apc' = apc \/ apc' \in {"idle", "show"})
      BY <1>1 DEF DropDial, RepeatedDial, CollidingDial
    <2> QED
      BY <1>h, <2>1, <2>2, AppGateFrame
  <1>2. CASE RefusedDial
    BY <1>u, <1>h, <1>2, NewSessionGate DEF RefusedDial, StandaloneFailure
  <1>3. CASE BeginDial
    BY <1>u, <1>h, <1>3, NewSessionGate DEF BeginDial, PBegin
  <1>4. ASSUME NEW kind \in {"RECORDER_READY", "CANCEL"}, StrayRequest(kind)
        PROVE  GateInv'
    <2>1. Unread(kind) /\ Handled
      BY <1>4 DEF StrayRequest
    <2>2. CASE ProtocolFailure /\ UNCHANGED apc
      BY <1>h, <2>1, <2>2, ProtocolFailureGate, AppGateFrame
    <2>3. CASE StandaloneFailure /\ apc' = "show"
      BY <1>u, <1>h, <2>1, <2>3, NewSessionGate DEF StandaloneFailure
    <2> QED
      BY <1>4, <2>2, <2>3 DEF StrayRequest
  <1>5. ASSUME NEW kind \in {"RECORDER_READY", "CANCEL"}, RecordRequest(kind)
        PROVE  GateInv'
    <2>1. Unread(kind) /\ Handled /\ SameIdentity
      BY <1>5 DEF RecordRequest
    <2>2. CASE UNCHANGED <<promiseVars, journalVars, mem, apc>>
      BY <1>h, <2>1, <2>2, AppGateFrame DEF promiseVars, journalVars
    <2>3. CASE /\ Controls
               /\ mem' = [mem EXCEPT !.seq = request.seq, !.stamp = request.stamp, !.kind = kind]
               /\ jrn' = mem' /\ apc' = kind /\ UNCHANGED <<promiseVars, gate, late>>
      <3>1. jrn \in SessionId /\ mem = jrn
        BY <2>3 DEF Controls, TypeInv, SessionType
      <3>2. jrn'.attempt = jrn.attempt
        BY <2>3, <3>1 DEF SessionId
      <3>3. UNCHANGED <<request, attempt, pol, hpc, stage, level, gate>>
        BY <1>h, <2>1, <2>3 DEF helperVars, promiseVars
      <3>4. SessionPast' /\ GateOpen'
        BY <3>1, <3>2, <3>3 DEF GateInv, SessionPast, GateOpen, Following
      <3>5. GateRecorded'
        BY <1>u, <2>1, <3>3 DEF GateInv, GateRequested, GateRecorded, Following
      <3> QED
        BY <3>3, <3>4, <3>5 DEF GateInv, RankFollows, GateRequested, Following
    <2>4. CASE ProtocolFailure /\ UNCHANGED <<mem, apc>>
      BY <1>h, <2>1, <2>4, ProtocolFailureGate, AppGateFrame
    <2> QED
      BY <1>5, <2>2, <2>3, <2>4 DEF RecordRequest
  <1>6. CASE RecorderReady \/ Cancel
    BY <1>6, EngineGate
  <1> QED
    BY <1>1, <1>2, <1>3, <1>4, <1>5, <1>6 DEF Requests

\* Every step keeps the gate before the merge.
LEMMA NextGate == TypeInv /\ GateInv /\ [Next]_vars => GateInv'
  <1> SUFFICES ASSUME TypeInv, GateInv, [Next]_vars PROVE GateInv'
    OBVIOUS
  <1>1. CASE (\E ok \in BOOLEAN : Show(ok)) \/ Heartbeat \/ Republish
    <2>1. /\ UNCHANGED <<request, helperVars, jrn, stage, gate, level>>
          /\ apc' = apc \/ apc' = "idle"
      BY <1>1 DEF Show, Heartbeat, Republish, PShow, PShowAgain, AppOnly, appVars, promiseVars,
            journalVars, processVars
    <2> QED
      BY <2>1, AppGateFrame
  <1>2. CASE Crash \/ Recover \/ RecoverUnsigned
    <2>1. /\ UNCHANGED <<request, helperVars, jrn, gate, level>>
          /\ apc' \in {"idle", "show"} /\ (stage' = "over" \/ stage' = stage)
      BY <1>2 DEF Crash, Recover, RecoverUnsigned, AppOnly, promiseVars, journalVars
    <2> QED
      BY <2>1, AppGateFrame
  <1>3. CASE CallerLeaves \/ AnswerDeadlinePasses \/ UNCHANGED vars
    <2>1. UNCHANGED <<request, helperVars, jrn, stage, gate, level, apc>>
      BY <1>3 DEF CallerLeaves, AnswerDeadlinePasses, vars, appVars, promiseVars, journalVars,
            processVars
    <2> QED
      BY <2>1, AppGateFrame
  <1> QED
    BY <1>1, <1>2, <1>3, HelperGate, EngineGate, RequestsGate DEF Next

\* The legs are merged only after the helper of this very attempt opened the
\* recorder gate, whatever the app forgot and read again in between.
THEOREM RecorderBeforeMerge == Spec => []MergeAfterRecorder
  <1>1. TypeInv /\ GateInv => MergeAfterRecorder
    BY DEF TypeInv, SessionType, GateInv, GateOpen, MergeAfterRecorder, Following, RecorderStages
  <1>2. Init => TypeInv /\ GateInv
    BY InitType, InitGate
  <1>3. (TypeInv /\ GateInv) /\ [Next]_vars => (TypeInv /\ GateInv)'
    BY NextType, NextGate
  <1> QED
    BY <1>1, <1>2, <1>3, PTL DEF Spec


----------------------------------------------------------------------------
(* The flow runs on only after the session *)

\* Nothing was published yet.
LEMMA InitBranch == Init => BranchInv
  BY NoneAssumption DEF Init, PInit, BranchInv, UsedBlocks, SessionFollows, DialKnown, StatusTells,
        Settled

\* A session that is over or aborted is not revived, and none comes from nothing.
StageKeeps ==
    /\ stage \in {"aborted", "over"} => stage' \in {"aborted", "over"}
    /\ stage \notin {"live", "cleaning"} => stage' \notin {"live", "cleaning"}

\* A step of the app that neither publishes nor reads anything.
LEMMA BranchFrame ==
    ASSUME BranchInv, StageKeeps,
           UNCHANGED <<request, helperVars, status, last, jrn, mem, up, lastReq, signed>>
    PROVE  BranchInv'
  BY DEF BranchInv, UsedBlocks, SessionFollows, DialKnown, StatusTells, Settled, FlowRuns,
         StageKeeps, helperVars

\* The engine revives no session.
LEMMA EngineBranch ==
    ASSUME BranchInv, Engine \/ UnhealthyCancel \/ RecorderReady \/ Cancel
    PROVE  BranchInv'
  <1>1. UNCHANGED <<request, helperVars, status, last, jrn, mem, up, lastReq, signed>>
    BY DEF Engine, EngineAdvances, EngineCleans, EngineFinishes, EngineAborts, UnhealthyCancel,
           RecorderReady, Cancel, SessionStep, AppOnly
  <1>2. PAdvance \/ PClean \/ PFinish \/ PAbort \/ UNCHANGED promiseVars => StageKeeps
    BY DEF PAdvance, PClean, PFinish, PAbort, promiseVars, StageKeeps
  <1>3. PAdvance \/ PClean \/ PFinish \/ PAbort \/ UNCHANGED promiseVars
    <2>1. CASE Engine
      BY <2>1 DEF Engine, EngineAdvances, EngineCleans, EngineFinishes, EngineAborts
    <2>2. CASE UnhealthyCancel
      BY <2>2, FailsMoves DEF UnhealthyCancel
    <2>3. CASE RecorderReady
      BY <2>3, FailsMoves DEF RecorderReady
    <2>4. CASE Cancel
      BY <2>4, FailsMoves DEF Cancel
    <2> QED
      BY <2>1, <2>2, <2>3, <2>4
  <1> QED
    BY <1>1, <1>2, <1>3, BranchFrame

\* What is published of a live session is not terminal.
LEMMA ShownTells ==
    ASSUME TypeInv, PShow \/ PShowAgain, shown'.status \in TerminalKinds
    PROVE  stage \in {"aborted", "over"}
  <1>1. CASE stage \in {"live", "cleaning"} /\ shown' = Showing(level)
    <2>1. shown'.status \in LiveKinds
      BY <1>1, LadderKinds DEF TypeInv, SessionType, Showing
    <2> QED
      BY <2>1, LadderKinds DEF TerminalKinds
  <1> QED
    BY <1>1 DEF PShow, PShowAgain

\* A terminal status is published of an ended session only.
LEMMA PublishBranch ==
    ASSUME TypeInv, BranchInv, (\E ok \in BOOLEAN : Show(ok)) \/ Heartbeat \/ Republish
    PROVE  BranchInv'
  <1>1. UNCHANGED <<request, helperVars, jrn, mem, up, lastReq, signed, stage>>
    BY DEF Show, Heartbeat, Republish, PShow, PShowAgain, AppOnly, appVars, promiseVars,
           journalVars, processVars
  <1>2. CASE status' = status /\ last' = last
    BY <1>1, <1>2, BranchFrame DEF StageKeeps
  <1>3. ASSUME NEW k, NEW r, jrn \in SessionId,
               \/ status' = status
               \/ \E t : WriteStatus(k, r, t),
               \/ last' = [kind |-> k, reason |-> r]
               \/ last' = last,
               k \in TerminalKinds => stage \in {"aborted", "over"}
        PROVE  BranchInv'
    <2>1. status' = status \/ (status'.kind = k /\ status'.block = jrn.block)
      BY <1>3 DEF WriteStatus
    <2>2. UsedBlocks'
      BY <1>1, <1>3, <2>1, NoneAssumption DEF BranchInv, UsedBlocks, helperVars
    <2>3. SessionFollows' /\ DialKnown' /\ Settled'
      BY <1>1, <1>3, <2>1 DEF BranchInv, SessionFollows, DialKnown, Settled, FlowRuns, helperVars
    <2>4. StatusTells'
      BY <1>1, <1>3, <2>1 DEF BranchInv, StatusTells
    <2> QED
      BY <2>2, <2>3, <2>4 DEF BranchInv
  <1>4. ASSUME NEW ok \in BOOLEAN, Show(ok)
        PROVE  BranchInv'
    <2>1. jrn \in SessionId
      BY <1>4, ShownStatus DEF Show
    <2>2. shown'.status \in TerminalKinds => stage \in {"aborted", "over"}
      BY <1>4, ShownTells DEF Show
    <2>3. /\ last' = [kind |-> shown'.status, reason |-> shown'.reason]
          /\ status' = status \/ WriteStatus(shown'.status, shown'.reason, updated)
      BY <1>4 DEF Show
    <2> QED
      BY <1>3, <2>1, <2>2, <2>3
  <1>5. CASE Heartbeat
    <2>1. /\ WriteStatus(last.kind, last.reason, beats') /\ last' = last /\ last # None
          /\ mem = jrn /\ mem # None /\ stage \in {"live", "cleaning", "aborted"}
      BY <1>5 DEF Heartbeat, Controls, appVars, processVars
    <2>2. jrn \in SessionId
      BY <2>1 DEF TypeInv, SessionType
    <2>3. last.kind \in TerminalKinds => stage \in {"aborted", "over"}
      BY <2>1, <2>2 DEF BranchInv, StatusTells
    <2> QED
      BY <1>3, <2>1, <2>2, <2>3
  <1>6. CASE Republish
    <2>1. CASE stage = "over"
      BY <1>2, <1>6, <2>1 DEF Republish
    <2>2. CASE stage # "over"
      <3>1. /\ PShow \/ PShowAgain
            /\ last' = [kind |-> shown'.status, reason |-> shown'.reason]
            /\ WriteStatus(shown'.status, shown'.reason, updated)
        BY <1>6, <2>2 DEF Republish
      <3>2. jrn \in SessionId
        BY <3>1, ShownStatus
      <3>3. shown'.status \in TerminalKinds => stage \in {"aborted", "over"}
        BY <3>1, ShownTells
      <3> QED
        BY <1>3, <3>1, <3>2, <3>3
    <2> QED
      BY <2>1, <2>2
  <1> QED
    BY <1>4, <1>5, <1>6

\* A dial is begun only when no session of its block is known, which is not so
\* while the flow runs.
LEMMA BeginIsNew ==
    ASSUME TypeInv, BranchInv, BeginDial
    PROVE  ~(jrn \in SessionId /\ jrn.block = request.block)
  <1>1. request # None /\ request.kind = "DIAL" /\ up /\ request # lastReq /\ signed
    BY DEF BeginDial, Unread, Idle
  <1>2. ~(mem \in SessionId /\ mem.block = request.block)
    BY NoneAssumption DEF BeginDial, SameIdentity
  <1> QED
    BY <1>1, <1>2 DEF BranchInv, DialKnown

\* The rest of a handled request, with the session as it was.
LEMMA HandledBranch ==
    ASSUME BranchInv, Handled, StageKeeps, UNCHANGED <<jrn, mem, last>>
    PROVE  BranchInv'
  <1>1. UNCHANGED <<request, helperVars, status, up, signed>> /\ lastReq' = request
    BY DEF Handled, AppOnly
  <1>2. DialKnown'
    BY <1>1 DEF DialKnown
  <1> QED
    BY <1>1, <1>2 DEF BranchInv, UsedBlocks, SessionFollows, StatusTells, Settled, FlowRuns,
          StageKeeps, helperVars

\* A session that failed at once is over.
LEMMA StandaloneBranch ==
    ASSUME TypeInv, BranchInv, Handled, StandaloneFailure, UNCHANGED <<mem, last>>,
           request \in Requested
    PROVE  BranchInv'
  <1>1. UNCHANGED <<request, helperVars, status, up, signed>> /\ lastReq' = request
    BY DEF Handled, AppOnly
  <1>2. /\ jrn' = Session /\ stage' = "over" /\ Session \in SessionId
        /\ Session.block = request.block /\ Session.attempt = request.stamp
    BY SessionOfRequest DEF StandaloneFailure, Session
  <1>3. UsedBlocks' /\ DialKnown' /\ SessionFollows'
    BY <1>1, <1>2, NoneAssumption DEF BranchInv, UsedBlocks, DialKnown, SessionFollows, helperVars
  <1>4. StatusTells' /\ Settled'
    BY <1>1, <1>2 DEF StatusTells, Settled
  <1> QED
    BY <1>3, <1>4 DEF BranchInv

\* A session begins only for a dial that nobody answered.
LEMMA BeginBranch ==
    ASSUME TypeInv, BranchInv, BeginDial
    PROVE  BranchInv'
  <1>1. UNCHANGED <<request, helperVars, status, up, signed>> /\ lastReq' = request
    BY DEF BeginDial, Handled, AppOnly
  <1>2. request \in Requested /\ request # None /\ request.kind = "DIAL"
    BY DEF BeginDial, Unread, TypeInv, RequestType
  <1>3. /\ jrn' = Session /\ last' = None /\ Session \in SessionId
        /\ Session.block = request.block /\ Session.attempt = request.stamp
    BY <1>2, SessionOfRequest DEF BeginDial, Session
  <1>4. ~(jrn \in SessionId /\ jrn.block = request.block)
    BY BeginIsNew
  <1>5. UsedBlocks' /\ DialKnown' /\ SessionFollows'
    BY <1>1, <1>2, <1>3 DEF BranchInv, UsedBlocks, DialKnown, SessionFollows, helperVars
  <1>6. StatusTells'
    BY <1>1, <1>2, <1>3, <1>4 DEF BranchInv, StatusTells, SessionFollows
  <1>7. Settled'
    BY <1>1, <1>2, <1>4 DEF BranchInv, Settled, FlowRuns, helperVars
  <1> QED
    BY <1>5, <1>6, <1>7 DEF BranchInv

\* A recorded request leaves the session where it is.
LEMMA RecordBranch ==
    ASSUME TypeInv, BranchInv, NEW kind \in {"RECORDER_READY", "CANCEL"}, Unread(kind), Handled,
           Controls,
           mem' = [mem EXCEPT !.seq = request.seq, !.stamp = request.stamp, !.kind = kind],
           jrn' = mem', UNCHANGED <<promiseVars, last>>
    PROVE  BranchInv'
  <1>1. UNCHANGED <<request, helperVars, status, up, signed, stage, last>> /\ lastReq' = request
    BY DEF Handled, AppOnly, promiseVars
  <1>2. jrn \in SessionId /\ mem = jrn /\ request # None /\ request.kind # "DIAL"
    BY DEF Controls, TypeInv, SessionType, Unread
  <1>3. /\ jrn' \in SessionId /\ jrn'.block = jrn.block /\ jrn'.attempt = jrn.attempt
        /\ mem' = jrn'
    <2>1. request.seq \in Nat /\ request.stamp \in Stamps
      BY <1>2 DEF TypeInv, RequestType, Requested
    <2> QED
      BY <1>2, <2>1 DEF SessionId
  <1>4. UsedBlocks' /\ DialKnown' /\ SessionFollows'
    BY <1>1, <1>2, <1>3, NoneAssumption DEF BranchInv, UsedBlocks, DialKnown, SessionFollows,
          helperVars
  <1>5. StatusTells' /\ Settled'
    BY <1>1, <1>2, <1>3 DEF BranchInv, StatusTells, Settled, FlowRuns, helperVars
  <1> QED
    BY <1>4, <1>5 DEF BranchInv

\* protocolFailure() revives no session.
LEMMA ProtocolFailureKeeps ==
    ASSUME ProtocolFailure
    PROVE  StageKeeps /\ jrn' = jrn
  <1>1. PClean \/ UNCHANGED promiseVars => StageKeeps
    BY DEF PClean, promiseVars, StageKeeps
  <1> QED
    BY <1>1, FailsMoves DEF ProtocolFailure, journalVars

\* Reading a request revives no session.
LEMMA RequestsBranch ==
    ASSUME TypeInv, BranchInv, Requests
    PROVE  BranchInv'
  <1>u. \A kind : Unread(kind) => request \in Requested
    BY DEF TypeInv, RequestType, Unread
  <1>s. UNCHANGED <<promiseVars, journalVars>> => StageKeeps /\ jrn' = jrn
    BY DEF promiseVars, journalVars, StageKeeps
  <1>1. CASE DropDial \/ RepeatedDial \/ CollidingDial
    <2>1. StageKeeps /\ jrn' = jrn
      BY <1>s, <1>1, ProtocolFailureKeeps DEF DropDial, RepeatedDial, CollidingDial
    <2>2. Handled /\ UNCHANGED <<mem, last>>
      BY <1>1 DEF DropDial, RepeatedDial, CollidingDial
    <2> QED
      BY <2>1, <2>2, HandledBranch
  <1>2. CASE RefusedDial
    BY <1>u, <1>2, StandaloneBranch DEF RefusedDial
  <1>3. CASE BeginDial
    BY <1>3, BeginBranch
  <1>4. ASSUME NEW kind \in {"RECORDER_READY", "CANCEL"}, StrayRequest(kind)
        PROVE  BranchInv'
    <2>1. Unread(kind) /\ Handled /\ UNCHANGED <<mem, last>>
      BY <1>4 DEF StrayRequest
    <2>2. CASE ProtocolFailure
      BY <2>1, <2>2, ProtocolFailureKeeps, HandledBranch
    <2>3. CASE StandaloneFailure
      BY <1>u, <2>1, <2>3, StandaloneBranch
    <2> QED
      BY <1>4, <2>2, <2>3 DEF StrayRequest
  <1>5. ASSUME NEW kind \in {"RECORDER_READY", "CANCEL"}, RecordRequest(kind)
        PROVE  BranchInv'
    <2>1. Unread(kind) /\ Handled /\ UNCHANGED last
      BY <1>5 DEF RecordRequest
    <2>2. CASE UNCHANGED <<promiseVars, journalVars, mem, apc>>
      BY <1>s, <2>1, <2>2, HandledBranch
    <2>3. CASE /\ Controls
               /\ mem' = [mem EXCEPT !.seq = request.seq, !.stamp = request.stamp, !.kind = kind]
               /\ jrn' = mem' /\ UNCHANGED <<promiseVars, gate, late>>
      BY <2>1, <2>3, RecordBranch
    <2>4. CASE ProtocolFailure /\ UNCHANGED <<mem, apc>>
      BY <2>1, <2>4, ProtocolFailureKeeps, HandledBranch
    <2> QED
      BY <1>5, <2>2, <2>3, <2>4 DEF RecordRequest
  <1>6. CASE RecorderReady \/ Cancel
    BY <1>6, EngineBranch
  <1> QED
    BY <1>1, <1>2, <1>3, <1>4, <1>5, <1>6 DEF Requests

\* What a restart remembers of the last status is what is on the wire.
LEMMA RecoveryBranch ==
    ASSUME TypeInv, BranchInv, Crash \/ Recover \/ RecoverUnsigned
    PROVE  BranchInv'
  <1>1. UNCHANGED <<request, helperVars, status, jrn>> /\ (stage' = stage \/ stage' = "over")
    BY DEF Crash, Recover, RecoverUnsigned, AppOnly, promiseVars, journalVars
  <1>2. UsedBlocks' /\ SessionFollows' /\ Settled'
    BY <1>1 DEF BranchInv, UsedBlocks, SessionFollows, Settled, FlowRuns, helperVars
  <1>3. ~up' \/ mem' = jrn \/ ~signed'
    BY DEF Crash, Recover, RecoverUnsigned
  <1>4. DialKnown'
    BY <1>1, <1>3 DEF DialKnown
  <1>5. StatusTells'
    <2>1. last' = None \/ stage' = "over"
             \/ (/\ status # None /\ jrn # None /\ status.block = jrn.block
                 /\ last' = [kind |-> status.kind, reason |-> status.reason])
      BY DEF Crash, Recover, RecoverUnsigned
    <2>2. jrn # None => jrn \in SessionId
      BY DEF TypeInv, SessionType
    <2> QED
      BY <1>1, <2>1, <2>2 DEF BranchInv, StatusTells
  <1> QED
    BY <1>2, <1>4, <1>5 DEF BranchInv

\* The helper goes on only with a terminal status of the block it runs.
LEMMA HelperBranch ==
    ASSUME ~RepeatBlocks, TypeInv, BranchInv, Helper
    PROVE  BranchInv'
  <1>0. UNCHANGED <<status, stage, jrn, mem, last, up, lastReq, signed>>
    BY HelperEffects DEF appVars, promiseVars, journalVars, processVars, countVars
  <1>1. ASSUME NEW b \in Blocks, StartBlock(b)
        PROVE  BranchInv'
    <2>1. /\ b \notin used /\ used' = used \cup {b} /\ FlowRuns
      BY <1>1 DEF StartBlock, FlowRuns
    <2>2. CASE hpc' = "loop" /\ request' = Request("DIAL", 1, "-")
      <3>1. request'.block = b
        BY <1>1, <2>2 DEF Request, StartBlock
      <3>2. UsedBlocks'
        BY <1>0, <2>1, <3>1 DEF BranchInv, UsedBlocks
      <3>3. SessionFollows' /\ DialKnown'
        BY <1>0, <2>1, <3>1, NoneAssumption DEF BranchInv, UsedBlocks, SessionFollows, DialKnown
      <3>4. StatusTells' /\ Settled'
        BY <1>0, <2>2 DEF BranchInv, StatusTells, Settled, FlowRuns
      <3> QED
        BY <3>2, <3>3, <3>4 DEF BranchInv
    <2>3. CASE UNCHANGED request
      BY <1>0, <2>1, <2>3 DEF BranchInv, UsedBlocks, SessionFollows, DialKnown, StatusTells,
            Settled
    <2> QED
      BY <1>1, <2>2, <2>3 DEF StartBlock
  <1>t. ASSUME hpc \in {"loop", "teardown"}, Correlates, status.kind \in TerminalKinds
        PROVE  /\ stage \in {"aborted", "over"} /\ request # None
               /\ jrn \in SessionId /\ jrn.block = request.block
    <2>1. request \in Requested /\ request.block = block /\ request # None
      BY <1>t, NoneAssumption DEF TypeInv, HelperType
    <2>2. status # None /\ status.block = request.block
      BY <1>t, <2>1 DEF Correlates
    <2> QED
      BY <1>t, <2>1, <2>2 DEF BranchInv, SessionFollows, StatusTells
  <1>2. ASSUME HelperOnly, UNCHANGED request, Settled'
        PROVE  BranchInv'
    BY <1>0, <1>2 DEF HelperOnly, BranchInv, UsedBlocks, SessionFollows, DialKnown, StatusTells
  <1>3. CASE Poll
    <2>1. HelperOnly /\ UNCHANGED request /\ hpc = "loop" /\ Correlates
      BY <1>3 DEF Poll
    <2>2. FlowRuns' => status.kind \in TerminalKinds
      BY <1>3 DEF Poll, FlowRuns, Branching
    <2>3. Settled'
      BY <1>0, <1>t, <2>1, <2>2 DEF Settled
    <2> QED
      BY <1>2, <2>1, <2>3
  <1>4. CASE TeardownPoll
    <2>1. HelperOnly /\ UNCHANGED request /\ hpc = "teardown" /\ Correlates
      BY <1>4 DEF TeardownPoll
    <2>2. FlowRuns' => status.kind \in TerminalKinds
      <3>1. hpc' = "done" => result' \notin Branching
        BY <1>4 DEF TeardownPoll, MatchedTerminal, Branching
      <3>2. hpc' = "confirm" => Expected(status)
        BY <1>4, <2>1 DEF TeardownPoll
      <3> QED
        BY <1>4, <2>1, <3>1, <3>2 DEF TeardownPoll, MatchedTerminal, FlowRuns, Expected,
              TerminalKinds
    <2>3. Settled'
      BY <1>0, <1>t, <2>1, <2>2 DEF Settled
    <2> QED
      BY <1>2, <2>1, <2>3
  <1>5. CASE Deadline \/ AnswerTimeout \/ GuardianHangup \/ HelperFails \/ TeardownTimeout
    <2>1. HelperOnly /\ UNCHANGED request /\ ~FlowRuns'
      BY <1>5 DEF Deadline, AnswerTimeout, GuardianHangup, HelperFails, TeardownTimeout, FlowRuns,
            Branching
    <2> QED
      BY <1>2, <2>1 DEF Settled
  <1>6. ASSUME NEW stable \in BOOLEAN, NEW idle \in BOOLEAN, Confirm(stable, idle)
        PROVE  BranchInv'
    <2>1. HelperOnly /\ UNCHANGED request /\ FlowRuns
      BY <1>6 DEF Confirm, FlowRuns
    <2> QED
      BY <1>0, <1>2, <2>1 DEF BranchInv, Settled
  <1>7. ASSUME NEW ok \in BOOLEAN, StartRecorder(ok) \/ PublishCancel(ok)
        PROVE  BranchInv'
    <2>1. /\ HelperOnly /\ ~FlowRuns' /\ hpc \in {"recorder", "cancel"}
          /\ request' = request \/ hpc' \in {"loop", "teardown"}
      BY <1>7 DEF StartRecorder, PublishCancel, FlowRuns, Branching
    <2>2. CASE request' = request
      BY <1>2, <2>1, <2>2 DEF Settled
    <2>3. CASE hpc' \in {"loop", "teardown"}
      <3>1. TypeInv'
        BY HelperStepType
      <3>2. /\ request \in Requested /\ request.block = block /\ request.stamp = attempt
            /\ request' \in Requested /\ request'.block = block' /\ request'.stamp = attempt'
            /\ request # None
        BY <2>1, <2>3, <3>1, NoneAssumption DEF TypeInv, HelperType
      <3>3. UNCHANGED <<block, attempt, used>>
        BY <2>1 DEF HelperOnly
      <3>4. request' = request \/ request'.kind # "DIAL"
        <4>1. attempt' # attempt + 1
          BY <3>2, <3>3, LinkAssumption DEF Requested, Stamps
        <4> QED
          BY <4>1, HelperEffects
      <3>5. UsedBlocks' /\ SessionFollows' /\ DialKnown'
        BY <1>0, <3>2, <3>3, <3>4 DEF BranchInv, UsedBlocks, SessionFollows, DialKnown
      <3> QED
        BY <1>0, <2>1, <3>5 DEF BranchInv, StatusTells, Settled
    <2> QED
      BY <2>1, <2>2, <2>3
  <1> QED
    BY <1>1, <1>3, <1>4, <1>5, <1>6, <1>7 DEF Helper

\* Every step keeps the flow apart from the session.
LEMMA NextBranch ==
    ASSUME ~RepeatBlocks
    PROVE  TypeInv /\ BranchInv /\ [Next]_vars => BranchInv'
  <1> SUFFICES ASSUME TypeInv, BranchInv, [Next]_vars PROVE BranchInv'
    OBVIOUS
  <1>1. CASE CallerLeaves \/ AnswerDeadlinePasses \/ UNCHANGED vars
    <2>1. UNCHANGED <<request, helperVars, status, last, jrn, mem, up, lastReq, signed, stage>>
      BY <1>1 DEF CallerLeaves, AnswerDeadlinePasses, vars, appVars, promiseVars, journalVars,
            processVars, countVars
    <2> QED
      BY <2>1, BranchFrame DEF StageKeeps
  <1> QED
    BY <1>1, HelperBranch, EngineBranch, PublishBranch, RequestsBranch, RecoveryBranch DEF Next

\* In a flow that does not come back to a block, the flow never runs on while
\* the app still controls a call for it.
THEOREM FlowResumesAfterSession ==
    ASSUME ~RepeatBlocks
    PROVE  Spec => []BranchAfterSession
  <1>1. BranchInv => BranchAfterSession
    BY DEF BranchInv, Settled, FlowRuns, BranchAfterSession
  <1>2. Init => TypeInv /\ BranchInv
    BY InitType, InitBranch
  <1>3. (TypeInv /\ BranchInv) /\ [Next]_vars => (TypeInv /\ BranchInv)'
    BY NextType, NextBranch
  <1> QED
    BY <1>1, <1>2, <1>3, PTL DEF Spec


----------------------------------------------------------------------------
(* The not-connected branch *)

\* Nothing was begun yet.
LEMMA InitConnect == Init => ConnectInv
  BY NoneAssumption DEF Init, PInit, ConnectInv, EngineHolds, SessionBegun, AbortedTimedOut,
        NotConnectedTells, NotConnectedHeld

\* What is over stays as it ended, and what is aborted timed out.
EndKeeps == (stage = "over" => UNCHANGED <<stage, outcome>>) /\ AbortedTimedOut'

\* A step of the app that neither publishes, nor begins a session.
LEMMA ConnectFrame ==
    ASSUME ConnectInv, EndKeeps,
           UNCHANGED <<request, helperVars, status, last, jrn, mem, up, signed, faults, dialled>>
    PROVE  ConnectInv'
  BY DEF ConnectInv, EngineHolds, SessionBegun, NotConnectedTells, NotConnectedHeld,
         EndedNotConnected, EndKeeps, helperVars

\* The engine leaves an outcome alone once the session is over.
LEMMA EngineConnect ==
    ASSUME ConnectInv, Engine \/ UnhealthyCancel \/ RecorderReady \/ Cancel
    PROVE  ConnectInv'
  <1>1. UNCHANGED <<request, helperVars, status, last, jrn, mem, up, signed, faults, dialled>>
    BY DEF Engine, EngineAdvances, EngineCleans, EngineFinishes, EngineAborts, UnhealthyCancel,
           RecorderReady, Cancel, SessionStep, AppOnly
  <1>2. PAdvance \/ PClean \/ PFinish \/ PAbort \/ UNCHANGED promiseVars => EndKeeps
    BY DEF PAdvance, PClean, PFinish, PAbort, promiseVars, EndKeeps, ConnectInv, AbortedTimedOut
  <1>3. PAdvance \/ PClean \/ PFinish \/ PAbort \/ UNCHANGED promiseVars
    <2>1. CASE Engine
      BY <2>1 DEF Engine, EngineAdvances, EngineCleans, EngineFinishes, EngineAborts
    <2>2. CASE UnhealthyCancel
      BY <2>2, FailsMoves DEF UnhealthyCancel
    <2>3. CASE RecorderReady
      BY <2>3, FailsMoves DEF RecorderReady
    <2>4. CASE Cancel
      BY <2>4, FailsMoves DEF Cancel
    <2> QED
      BY <2>1, <2>2, <2>3, <2>4
  <1> QED
    BY <1>1, <1>2, <1>3, ConnectFrame

\* NOT_CONNECTED is shown only of a session that ended so.
LEMMA ShownNotConnected ==
    ASSUME TypeInv, AbortedTimedOut, PShow \/ PShowAgain, shown'.status = "NOT_CONNECTED"
    PROVE  EndedNotConnected
  <1>1. stage \in {"aborted", "over"}
    BY ShownTells DEF TerminalKinds
  <1> QED
    BY <1>1 DEF PShow, PShowAgain, AbortedTimedOut, TimedOut, EndedNotConnected

\* NOT_CONNECTED is published of a session that ended so.
LEMMA PublishConnect ==
    ASSUME MaxFaults = 0, TypeInv, ConnectInv,
           (\E ok \in BOOLEAN : Show(ok)) \/ Heartbeat \/ Republish
    PROVE  ConnectInv'
  <1>1. /\ UNCHANGED <<request, helperVars, jrn, mem, up, signed, stage, outcome, dialled>>
        /\ faults' = faults
    <2>1. ~(faults < MaxFaults)
      BY DEF ConnectInv, EngineHolds
    <2> QED
      BY <2>1 DEF Show, Heartbeat, Republish, PShow, PShowAgain, AppOnly, appVars, promiseVars,
            journalVars, processVars
  <1>2. CASE status' = status /\ last' = last
    BY <1>1, <1>2, ConnectFrame DEF EndKeeps, ConnectInv, AbortedTimedOut
  <1>3. ASSUME NEW k, NEW r,
               \/ status' = status
               \/ \E t : WriteStatus(k, r, t),
               \/ last' = [kind |-> k, reason |-> r]
               \/ last' = last,
               k = "NOT_CONNECTED" => EndedNotConnected
        PROVE  ConnectInv'
    <2>1. status' = status \/ (status'.kind = k /\ status'.block = jrn.block)
      BY <1>3 DEF WriteStatus
    <2>2. NotConnectedTells'
      BY <1>1, <1>3, <2>1 DEF ConnectInv, NotConnectedTells, EndedNotConnected
    <2> QED
      BY <1>1, <2>2 DEF ConnectInv, EngineHolds, SessionBegun, AbortedTimedOut, NotConnectedHeld,
            EndedNotConnected, helperVars
  <1>4. ASSUME NEW ok \in BOOLEAN, Show(ok)
        PROVE  ConnectInv'
    <2>1. shown'.status = "NOT_CONNECTED" => EndedNotConnected
      BY <1>4, ShownNotConnected DEF Show, ConnectInv
    <2>2. /\ last' = [kind |-> shown'.status, reason |-> shown'.reason]
          /\ status' = status \/ WriteStatus(shown'.status, shown'.reason, updated)
      BY <1>4 DEF Show
    <2> QED
      BY <1>3, <2>1, <2>2
  <1>5. CASE Heartbeat
    <2>1. /\ WriteStatus(last.kind, last.reason, beats') /\ last' = last /\ last # None
          /\ mem = jrn /\ mem # None
      BY <1>5 DEF Heartbeat, Controls, appVars, processVars
    <2>2. mem \in SessionId
      BY <2>1 DEF TypeInv, SessionType
    <2>3. last.kind = "NOT_CONNECTED" => EndedNotConnected
      BY <2>1, <2>2 DEF ConnectInv, NotConnectedTells
    <2> QED
      BY <1>3, <2>1, <2>3
  <1>6. CASE Republish
    <2>1. CASE stage = "over"
      BY <1>2, <1>6, <2>1 DEF Republish
    <2>2. CASE stage # "over"
      <3>1. /\ PShow \/ PShowAgain
            /\ last' = [kind |-> shown'.status, reason |-> shown'.reason]
            /\ WriteStatus(shown'.status, shown'.reason, updated)
        BY <1>6, <2>2 DEF Republish
      <3>2. shown'.status = "NOT_CONNECTED" => EndedNotConnected
        BY <3>1, ShownNotConnected DEF ConnectInv
      <3> QED
        BY <1>3, <3>1, <3>2
    <2> QED
      BY <2>1, <2>2
  <1> QED
    BY <1>4, <1>5, <1>6

\* While the engine has no session of the request's block, none ended there.
LEMMA NoneEndedThere ==
    ASSUME TypeInv, BranchInv, ConnectInv, NEW kind, Unread(kind), ~SameIdentity
    PROVE  /\ ~(hpc \in {"confirm", "done"} /\ result = "NotConnected")
           /\ status # None /\ status.block = request.block => status.kind # "NOT_CONNECTED"
  <1>1. request # None /\ up /\ (mem # None => mem.block # request.block)
    BY DEF Unread, Idle, SameIdentity
  <1>2. ~(jrn \in SessionId /\ jrn.block = request.block /\ EndedNotConnected)
    <2>1. EndedNotConnected => outcome # Failed
      BY DEF EndedNotConnected, Failed
    <2>2. mem = jrn /\ jrn \in SessionId => jrn.block # request.block
      BY <1>1, NoneAssumption
    <2> QED
      BY <1>1, <2>1, <2>2 DEF ConnectInv, EngineHolds
  <1>3. ~(hpc \in {"confirm", "done"} /\ result = "NotConnected")
    BY <1>2 DEF ConnectInv, NotConnectedHeld
  <1>4. status # None /\ status.block = request.block => status.kind # "NOT_CONNECTED"
    BY <1>1, <1>2 DEF BranchInv, SessionFollows, ConnectInv, NotConnectedTells
  <1> QED
    BY <1>3, <1>4

\* A failure at once replaces no session of the same block.
LEMMA StandaloneConnect ==
    ASSUME TypeInv, BranchInv, ConnectInv, NEW kind, Unread(kind), ~SameIdentity, Handled,
           StandaloneFailure, UNCHANGED <<mem, last, dialled>>
    PROVE  ConnectInv'
  <1>1. UNCHANGED <<request, helperVars, status, up, signed, faults>>
    BY DEF Handled, AppOnly
  <1>2. jrn' = Session /\ Session.block = request.block /\ stage' = "over" /\ outcome' = Failed
    BY DEF StandaloneFailure, Session, Failed
  <1>3. /\ ~(hpc \in {"confirm", "done"} /\ result = "NotConnected")
        /\ status # None /\ status.block = request.block => status.kind # "NOT_CONNECTED"
    BY NoneEndedThere
  <1>4. EngineHolds' /\ SessionBegun' /\ AbortedTimedOut'
    BY <1>1, <1>2 DEF ConnectInv, EngineHolds, SessionBegun, AbortedTimedOut, Failed
  <1>5. NotConnectedTells'
    <2>1. mem # None => mem.block # request.block
      BY DEF SameIdentity
    <2> QED
      BY <1>1, <1>2, <1>3, <2>1, NoneAssumption DEF NotConnectedTells
  <1>6. NotConnectedHeld'
    BY <1>1, <1>3 DEF NotConnectedHeld, helperVars
  <1> QED
    BY <1>4, <1>5, <1>6 DEF ConnectInv

\* A new session replaces no session of the same block.
LEMMA BeginConnect ==
    ASSUME TypeInv, BranchInv, ConnectInv, BeginDial
    PROVE  ConnectInv'
  <1>1. UNCHANGED <<request, helperVars, status, up, signed, faults>>
    BY DEF BeginDial, Handled, AppOnly
  <1>2. /\ jrn' = Session /\ mem' = Session /\ Session.block = request.block
        /\ Session.attempt = request.stamp /\ last' = None
    BY DEF BeginDial, Session
  <1>3. /\ ~(hpc \in {"confirm", "done"} /\ result = "NotConnected")
        /\ status # None /\ status.block = request.block => status.kind # "NOT_CONNECTED"
    BY NoneEndedThere DEF BeginDial
  <1>4. request.stamp \in 1 .. MaxAttempts
    BY LinkAssumption DEF BeginDial, Unread, TypeInv, RequestType, Stamps
  <1>5. dialled'[request.stamp] # 0
    <2>1. /\ dialled \in [1 .. MaxAttempts -> Nat]
          /\ dialled' = [dialled EXCEPT ![request.stamp] = dialled[request.stamp] + 1]
      BY DEF TypeInv, ProcessType, BeginDial
    <2> QED
      BY <1>4, <2>1
  <1>6. EngineHolds' /\ SessionBegun'
    BY <1>1, <1>2, <1>5 DEF ConnectInv, EngineHolds, SessionBegun
  <1>7. AbortedTimedOut'
    BY DEF BeginDial, PBegin, AbortedTimedOut
  <1>8. NotConnectedTells' /\ NotConnectedHeld'
    BY <1>1, <1>2, <1>3 DEF NotConnectedTells, NotConnectedHeld, helperVars
  <1> QED
    BY <1>6, <1>7, <1>8 DEF ConnectInv

\* A recorded request leaves the outcome alone.
LEMMA RecordConnect ==
    ASSUME TypeInv, ConnectInv, NEW kind \in {"RECORDER_READY", "CANCEL"}, Unread(kind), Handled,
           Controls,
           mem' = [mem EXCEPT !.seq = request.seq, !.stamp = request.stamp, !.kind = kind],
           jrn' = mem', UNCHANGED <<promiseVars, last, dialled>>
    PROVE  ConnectInv'
  <1>1. UNCHANGED <<request, helperVars, status, up, signed, faults, stage, outcome, last, dialled>>
    BY DEF Handled, AppOnly, promiseVars
  <1>2. jrn \in SessionId /\ mem = jrn /\ stage # "over"
    BY DEF Controls, TypeInv, SessionType
  <1>3. /\ jrn' \in SessionId /\ jrn'.block = jrn.block /\ jrn'.attempt = jrn.attempt
        /\ mem' = jrn'
    <2>1. request.seq \in Nat /\ request.stamp \in Stamps
      BY DEF Unread, TypeInv, RequestType, Requested
    <2> QED
      BY <1>2, <2>1 DEF SessionId
  <1>4. EngineHolds' /\ SessionBegun' /\ AbortedTimedOut'
    BY <1>1, <1>2, <1>3 DEF ConnectInv, EngineHolds, SessionBegun, AbortedTimedOut
  <1>5. NotConnectedTells' /\ NotConnectedHeld'
    BY <1>1, <1>2, <1>3 DEF ConnectInv, NotConnectedTells, NotConnectedHeld, EndedNotConnected,
          helperVars
  <1> QED
    BY <1>4, <1>5 DEF ConnectInv

\* Reading a request leaves an outcome alone.
LEMMA RequestsConnect ==
    ASSUME TypeInv, BranchInv, ConnectInv, Requests
    PROVE  ConnectInv'
  <1>h. Handled => UNCHANGED <<request, helperVars, status, up, signed, faults>>
    BY DEF Handled, AppOnly
  <1>s. UNCHANGED <<promiseVars, journalVars>> => EndKeeps /\ jrn' = jrn
    BY DEF promiseVars, journalVars, EndKeeps, ConnectInv, AbortedTimedOut
  <1>p. ProtocolFailure => EndKeeps /\ jrn' = jrn
    <2>1. PClean => EndKeeps
      BY DEF PClean, EndKeeps, AbortedTimedOut
    <2>2. UNCHANGED promiseVars => EndKeeps
      BY DEF promiseVars, EndKeeps, ConnectInv, AbortedTimedOut
    <2> QED
      BY <2>1, <2>2, <1>s, FailsMoves DEF ProtocolFailure
  <1>1. CASE DropDial \/ RepeatedDial \/ CollidingDial
    <2>1. EndKeeps /\ jrn' = jrn
      BY <1>s, <1>p, <1>1 DEF DropDial, RepeatedDial, CollidingDial
    <2>2. Handled /\ UNCHANGED <<mem, last, dialled>>
      BY <1>1 DEF DropDial, RepeatedDial, CollidingDial
    <2> QED
      BY <1>h, <2>1, <2>2, ConnectFrame
  <1>2. CASE RefusedDial
    BY <1>2, StandaloneConnect DEF RefusedDial
  <1>3. CASE BeginDial
    BY <1>3, BeginConnect
  <1>4. ASSUME NEW kind \in {"RECORDER_READY", "CANCEL"}, StrayRequest(kind)
        PROVE  ConnectInv'
    <2>1. Unread(kind) /\ ~SameIdentity /\ Handled /\ UNCHANGED <<mem, last, dialled>>
      BY <1>4 DEF StrayRequest
    <2>2. CASE ProtocolFailure
      BY <1>h, <1>p, <2>1, <2>2, ConnectFrame
    <2>3. CASE StandaloneFailure
      BY <2>1, <2>3, StandaloneConnect
    <2> QED
      BY <1>4, <2>2, <2>3 DEF StrayRequest
  <1>5. ASSUME NEW kind \in {"RECORDER_READY", "CANCEL"}, RecordRequest(kind)
        PROVE  ConnectInv'
    <2>1. Unread(kind) /\ Handled /\ UNCHANGED <<last, dialled>>
      BY <1>5 DEF RecordRequest
    <2>2. CASE UNCHANGED <<promiseVars, journalVars, mem, apc>>
      BY <1>h, <1>s, <2>1, <2>2, ConnectFrame
    <2>3. CASE /\ Controls
               /\ mem' = [mem EXCEPT !.seq = request.seq, !.stamp = request.stamp, !.kind = kind]
               /\ jrn' = mem' /\ UNCHANGED <<promiseVars, gate, late>>
      BY <2>1, <2>3, RecordConnect
    <2>4. CASE ProtocolFailure /\ UNCHANGED <<mem, apc>>
      BY <1>h, <1>p, <2>1, <2>4, ConnectFrame
    <2> QED
      BY <1>5, <2>2, <2>3, <2>4 DEF RecordRequest
  <1>6. CASE RecorderReady \/ Cancel
    BY <1>6, EngineConnect
  <1> QED
    BY <1>1, <1>2, <1>3, <1>4, <1>5, <1>6 DEF Requests

\* A restart takes the session up as it ended.
LEMMA RecoveryConnect ==
    ASSUME MaxFaults = 0, TypeInv, ConnectInv, Crash \/ Recover \/ RecoverUnsigned
    PROVE  ConnectInv'
  <1>0. ~RecoverUnsigned
    BY DEF RecoverUnsigned, ConnectInv, EngineHolds
  <1>1. UNCHANGED <<request, helperVars, status, jrn, stage, outcome, signed, faults, dialled>>
    BY <1>0 DEF Crash, Recover, AppOnly, promiseVars, journalVars
  <1>2. ~up' \/ mem' = jrn
    BY <1>0 DEF Crash, Recover
  <1>3. EngineHolds' /\ SessionBegun' /\ AbortedTimedOut'
    BY <1>1, <1>2 DEF ConnectInv, EngineHolds, SessionBegun, AbortedTimedOut
  <1>4. NotConnectedTells'
    <2>1. \/ last' = None
          \/ /\ status # None /\ jrn # None /\ status.block = jrn.block
             /\ last' = [kind |-> status.kind, reason |-> status.reason]
      BY <1>0 DEF Crash, Recover
    <2>2. jrn # None => jrn \in SessionId
      BY DEF TypeInv, SessionType
    <2> QED
      BY <1>1, <2>1, <2>2 DEF ConnectInv, NotConnectedTells, EndedNotConnected
  <1>5. NotConnectedHeld'
    BY <1>1 DEF ConnectInv, NotConnectedHeld, EndedNotConnected, helperVars
  <1> QED
    BY <1>3, <1>4, <1>5 DEF ConnectInv

\* The helper takes an attempt for not connected only when the status of its
\* own session says so.
LEMMA HelperConnect ==
    ASSUME TypeInv, BranchInv, ConnectInv, Helper
    PROVE  ConnectInv'
  <1>0. UNCHANGED <<status, stage, outcome, jrn, mem, last, up, signed, faults, dialled>>
    BY HelperEffects DEF appVars, promiseVars, journalVars, processVars, countVars
  <1>n. ASSUME NotConnectedHeld'
        PROVE  ConnectInv'
    BY <1>0, <1>n DEF ConnectInv, EngineHolds, SessionBegun, AbortedTimedOut, NotConnectedTells,
          EndedNotConnected
  <1>t. ASSUME hpc \in {"loop", "teardown"}, Correlates, status.kind = "NOT_CONNECTED"
        PROVE  /\ EndedNotConnected /\ dialled[attempt] # 0
               /\ request # None /\ jrn \in SessionId /\ jrn.block = request.block
    <2>1. request.block = block /\ request # None /\ request.stamp = attempt
      BY <1>t, NoneAssumption DEF TypeInv, HelperType
    <2>2. jrn \in SessionId /\ jrn.block = request.block /\ jrn.attempt = attempt
      BY <1>t, <2>1 DEF Correlates, BranchInv, SessionFollows
    <2>3. EndedNotConnected
      BY <1>t, <2>1, <2>2 DEF Correlates, ConnectInv, NotConnectedTells
    <2>4. outcome # Failed
      BY <2>3 DEF EndedNotConnected, Failed
    <2> QED
      BY <2>1, <2>2, <2>3, <2>4 DEF ConnectInv, SessionBegun
  <1>1. ASSUME NEW b \in Blocks, StartBlock(b)
        PROVE  ConnectInv'
    BY <1>n, <1>1 DEF StartBlock, NotConnectedHeld
  <1>2. CASE Poll
    <2>1. UNCHANGED <<request, attempt>> /\ hpc = "loop" /\ Correlates
      BY <1>2 DEF Poll, HelperOnly
    <2>2. hpc' \in {"confirm", "done"} /\ result' = "NotConnected" => status.kind = "NOT_CONNECTED"
      BY <1>2 DEF Poll, ResultOf
    <2> QED
      BY <1>0, <1>n, <1>t, <2>1, <2>2 DEF NotConnectedHeld, EndedNotConnected
  <1>3. CASE TeardownPoll
    <2>1. UNCHANGED <<request, attempt>> /\ hpc = "teardown" /\ Correlates
      BY <1>3 DEF TeardownPoll, HelperOnly
    <2>2. hpc' = "done" => result' # "NotConnected"
      BY <1>3 DEF TeardownPoll, MatchedTerminal
    <2>3. hpc' = "confirm" => Expected(status) /\ MatchedTerminal
      BY <1>3, <2>1 DEF TeardownPoll
    <2>4. hpc' = "confirm" /\ result' = "NotConnected" => status.kind = "NOT_CONNECTED"
      BY <2>3 DEF MatchedTerminal, Expected
    <2> QED
      BY <1>0, <1>n, <1>t, <2>1, <2>2, <2>4 DEF NotConnectedHeld, EndedNotConnected
  <1>4. ASSUME NEW ok \in BOOLEAN,
               \/ Deadline \/ AnswerTimeout \/ GuardianHangup \/ HelperFails \/ TeardownTimeout
               \/ StartRecorder(ok) \/ PublishCancel(ok)
        PROVE  ConnectInv'
    <2>1. hpc' \notin {"confirm", "done"} \/ result' # "NotConnected"
      BY <1>4 DEF Deadline, AnswerTimeout, GuardianHangup, HelperFails, TeardownTimeout,
            StartRecorder, PublishCancel
    <2> QED
      BY <1>n, <2>1 DEF NotConnectedHeld
  <1>5. ASSUME NEW stable \in BOOLEAN, NEW idle \in BOOLEAN, Confirm(stable, idle)
        PROVE  ConnectInv'
    <2>1. UNCHANGED <<request, attempt>> /\ hpc = "confirm"
      BY <1>5 DEF Confirm, HelperOnly
    <2>2. result' = "NotConnected" => result = "NotConnected"
      BY <1>5 DEF Confirm
    <2> QED
      BY <1>0, <1>n, <2>1, <2>2 DEF ConnectInv, NotConnectedHeld, EndedNotConnected
  <1> QED
    BY <1>1, <1>2, <1>3, <1>4, <1>5 DEF Helper

\* Every step keeps NOT_CONNECTED true.
LEMMA NextConnect ==
    ASSUME MaxFaults = 0
    PROVE  TypeInv /\ BranchInv /\ ConnectInv /\ [Next]_vars => ConnectInv'
  <1> SUFFICES ASSUME TypeInv, BranchInv, ConnectInv, [Next]_vars PROVE ConnectInv'
    OBVIOUS
  <1>1. CASE CallerLeaves \/ AnswerDeadlinePasses \/ UNCHANGED vars
    <2>1. UNCHANGED <<request, helperVars, status, last, jrn, mem, up, signed, faults, dialled,
                      stage, outcome>>
      BY <1>1 DEF CallerLeaves, AnswerDeadlinePasses, vars, appVars, promiseVars, journalVars,
            processVars, countVars
    <2> QED
      BY <2>1, ConnectFrame DEF EndKeeps, ConnectInv, AbortedTimedOut
  <1> QED
    BY <1>1, HelperConnect, EngineConnect, PublishConnect, RequestsConnect, RecoveryConnect DEF Next

\* In a flow that does not come back to a block, and while the app can write its
\* status and the manifest vouches for the instruction, the not-connected branch
\* is only taken for an attempt whose own session ended NOT_CONNECTED.
THEOREM NotConnectedIsTrue ==
    ASSUME ~RepeatBlocks, MaxFaults = 0
    PROVE  Spec => []NotConnectedWasDialled
  <1>1. TypeInv /\ OnceInv /\ ConnectInv => NotConnectedWasDialled
    <2> SUFFICES ASSUME TypeInv, OnceInv, ConnectInv, hpc = "done", result = "NotConnected"
                 PROVE  dialled[attempt] = 1 /\ EndedNotConnected
      BY DEF NotConnectedWasDialled, EndedNotConnected
    <2>1. EndedNotConnected /\ dialled[attempt] # 0 /\ request # None
      BY DEF ConnectInv, NotConnectedHeld
    <2>2. attempt \in 1 .. MaxAttempts
      BY <2>1, LinkAssumption DEF TypeInv, RequestType, Stamps
    <2>3. dialled[attempt] \in Nat /\ dialled[attempt] <= 1
      BY <2>2 DEF TypeInv, ProcessType, OnceInv, OneSessionPerAttempt
    <2> QED
      BY <2>1, <2>3
  <1>2. Init => TypeInv /\ OnceInv /\ BranchInv /\ ConnectInv
    BY InitType, InitOnce, InitBranch, InitConnect
  <1>3. (TypeInv /\ OnceInv /\ BranchInv /\ ConnectInv) /\ [Next]_vars
          => (TypeInv /\ OnceInv /\ BranchInv /\ ConnectInv)'
    BY NextType, NextOnce, NextBranch, NextConnect
  <1> QED
    BY <1>1, <1>2, <1>3, PTL DEF Spec

=============================================================================
