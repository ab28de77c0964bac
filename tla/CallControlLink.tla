--------------------------- MODULE CallControlLink ---------------------------
(***************************************************************************)
(* The call-control link between the native helper, which runs the flow,   *)
(* and the app, which controls Telecom: two files, each overwritten in     *)
(* place, that the other side polls.                                       *)
(*                                                                         *)
(* The helper runs external_call blocks one after the other                *)
(* (helper/src/main.cpp ExecuteExternalCall and the policies of            *)
(* external_call_policy.cpp).  The app handles its requests                *)
(* (ExternalCallCoordinator.kt) with an engine that is modelled here by    *)
(* what it promises: the steps of ExternalCallPromise, which               *)
(* ExternalCallEngine implements.                                          *)
(*                                                                         *)
(* Elapsed time is counted in heartbeats: what matters about a timestamp   *)
(* is which heartbeats it comes after.                                     *)
(***************************************************************************)
EXTENDS ExternalCallPromise

CONSTANTS
    Blocks,        \* external_call blocks of the signed flow
    RepeatBlocks,  \* whether the flow may come back to a block (return_to_menu)
    MaxAttempts,   \* bound: blocks run in this call
    MaxBeats,      \* bound: heartbeats of the app
    MaxCrashes,    \* bound: deaths of the app process
    MaxFaults      \* bound: bridge files that cannot be written, unsigned recoveries

ASSUME LinkAssumption ==
    /\ {MaxAttempts, MaxBeats, MaxCrashes, MaxFaults} \subseteq Nat
    /\ RepeatBlocks \in BOOLEAN
    /\ None \notin Blocks

VARIABLES
    request,     \* bridge/call_control.request
    status,      \* bridge/call_control.status
    \* the app: the engine's journalled session is stage, level, outcome and these
    jrn,         \* its identity and the last request it recorded
    gate,        \* RECORDER_READY was accepted
    late,        \* the answer deadline has passed
    updated,     \* updatedElapsedMs
    \* the app process
    up, apc,     \* alive; what the running handler does next
    recovering,  \* recover() still has to publish the status again
    mem,         \* the session of the engine in memory
    lastReq, last, healthy,   \* lastRequest, lastStatus and lastReason, bridgeHealthy
    \* the helper
    hpc,         \* where ExecuteExternalCall is
    block,       \* the block it runs
    pol,         \* ExternalCallPolicy
    nextSeq,     \* nextRequestSequence
    result,      \* what the block ended with
    \* surroundings and history
    callerLeft,  \* the inbound call is over
    signed,      \* the active manifest vouches for the instruction
    beats, attempt, used, crashes, faults,
    dialled      \* sessions the app began, per attempt

promiseVars == <<stage, level, outcome, shown>>
journalVars == <<jrn, gate, late, updated>>
processVars == <<up, apc, recovering, mem, lastReq, last, healthy>>
helperVars == <<hpc, block, pol, nextSeq, result, attempt, used>>
countVars == <<callerLeft, signed, beats, crashes, faults, dialled>>
appVars == <<promiseVars, journalVars, processVars>>
vars == <<request, status, appVars, helperVars, countVars>>

LiveKinds == {Ladder[l] : l \in Level}
TerminalKinds == {"COMPLETED", "NOT_CONNECTED", "SYSTEM_FAILURE"}
PhaseRank(kind) == IF kind \in LiveKinds THEN CHOOSE l \in Level : Ladder[l] = kind ELSE 0

Results == {"Completed", "NotConnected", "SystemFailure", "CallerHangup", "CleanupTimeout", "Failed"}
\* RouteExternalCallResult(): the results that resume the flow at a branch, after
\* RequiresOriginalCallerSafeConfirmation(); the others end the session.
Branching == {"Completed", "NotConnected", "SystemFailure"}

-----------------------------------------------------------------------------
(* The helper: ExternalCallPolicy.                                         *)

NewPolicy == [stage |-> "AwaitingApp", rank |-> 0, seq |-> 0, at |-> 0, kind |-> None, reason |-> "-"]

\* Mutant: the status of another block is taken for this one's.
CorrelatesAny == status # None

Correlates == status # None /\ status.block = block

ExactDuplicate(p, st) ==
    st.seq = p.seq /\ st.at = p.at /\ st.kind = p.kind /\ st.reason = p.reason

\* Observe() fails the protocol without taking the status in.
Refused(p, st) ==
    \/ st.seq <= p.seq
    \/ p.seq # 0 /\ st.at < p.at
    \/ PhaseRank(st.kind) # 0 /\ PhaseRank(st.kind) < p.rank
    \/ st.kind = "MERGING" /\ p.stage \notin {"RecorderReady", "Merging"}
    \/ st.kind = "CONFERENCED" /\ p.stage \notin {"Merging", "Conferenced"}

\* Observe() takes the status in and then fails the protocol.
Misplaced(p, st) ==
    \/ st.kind = "COMPLETED" /\ st.reason # "CALLER_HANGUP"
       /\ ~(p.stage = "Conferenced" /\ st.reason = "OPERATOR_HANGUP")
    \/ st.kind = "NOT_CONNECTED" /\ p.stage = "Conferenced"

StageAfter(p, kind) ==
    CASE kind \in {"ACK", "CALLER_HELD", "DIALING"} -> "Dialing"
      [] kind = "OPERATOR_ANSWERED" ->
            IF p.stage = "RecorderReady" THEN "RecorderReady" ELSE "OperatorAnswered"
      [] kind = "MERGING" -> "Merging"
      [] kind = "CONFERENCED" -> "Conferenced"
      [] OTHER -> "Terminal"

Taken(p, st) ==
    [p EXCEPT !.stage = StageAfter(p, st.kind),
              !.rank = IF st.kind \in LiveKinds THEN PhaseRank(st.kind) ELSE @,
              !.seq = st.seq, !.at = st.at, !.kind = st.kind, !.reason = st.reason]

\* Where the loop of ExecuteExternalCall goes after a status that it took in.
ResultOf(st) ==
    CASE st.kind = "COMPLETED" /\ st.reason = "CALLER_HANGUP" -> "CallerHangup"
      [] st.kind = "COMPLETED" -> "Completed"
      [] st.kind = "NOT_CONNECTED" -> "NotConnected"
      [] st.kind = "SYSTEM_FAILURE" /\ st.reason = "CLEANUP_TIMEOUT" -> "CleanupTimeout"
      [] OTHER -> "SystemFailure"

-----------------------------------------------------------------------------
(* The helper: ExecuteExternalCall.                                        *)

Request(kind, seq, reason) ==
    [kind |-> kind, block |-> block', seq |-> seq, stamp |-> attempt', reason |-> reason]

\* The flow reaches an external_call block and publishes DIAL; before that, or
\* when the request cannot be written, the block ends at once.
StartBlock(b) ==
    /\ hpc = "idle" \/ (hpc = "done" /\ result \in Branching)
    /\ attempt < MaxAttempts /\ (RepeatBlocks \/ b \notin used)
    /\ attempt' = attempt + 1 /\ used' = used \cup {b} /\ block' = b
    /\ pol' = NewPolicy /\ nextSeq' = 2
    /\ \/ /\ hpc' = "loop" /\ result' = "Failed"
          /\ request' = Request("DIAL", 1, "-")
       \/ hpc' = "done" /\ result' \in {"SystemFailure", "Failed"} /\ UNCHANGED request
    /\ UNCHANGED <<status, appVars, countVars>>

HelperOnly == UNCHANGED <<status, appVars, countVars, block, attempt, used>>

\* One iteration of the loop that finds a status it has not seen.
Poll ==
    /\ hpc = "loop" /\ Correlates /\ ~(pol.seq # 0 /\ ExactDuplicate(pol, status))
    /\ IF Refused(pol, status)
       THEN pol' = [pol EXCEPT !.stage = "Terminal"] /\ hpc' = "cancel" /\ result' = "SystemFailure"
       ELSE /\ pol' = Taken(pol, status)
            /\ IF Misplaced(pol, status)
               THEN hpc' = "cancel" /\ result' = "SystemFailure"
               ELSE IF status.kind \in TerminalKinds
               THEN /\ result' = ResultOf(status)
                    /\ hpc' = IF ResultOf(status) \in Branching THEN "confirm" ELSE "done"
               ELSE /\ hpc' = IF pol'.stage = "OperatorAnswered" /\ pol.stage # "OperatorAnswered"
                              THEN "recorder" ELSE "loop"
                    /\ UNCHANGED result
    /\ UNCHANGED <<request, nextSeq>> /\ HelperOnly

\* startRecorder(): the gate opens whether or not audio can be captured.  It
\* fails when the heartbeat has run out or the request cannot be written.
StartRecorder(ok) ==
    /\ hpc = "recorder"
    /\ IF ok
       THEN /\ pol' = [pol EXCEPT !.stage = "RecorderReady"] /\ nextSeq' = nextSeq + 1
            /\ request' = [request EXCEPT !.kind = "RECORDER_READY", !.seq = nextSeq]
            /\ hpc' = "loop" /\ UNCHANGED result
       ELSE /\ hpc' = "cancel" /\ result' = "SystemFailure" /\ UNCHANGED <<pol, request>>
            /\ nextSeq' \in {nextSeq, nextSeq + 1}
    /\ HelperOnly

\* The heartbeat, setup or merge deadline passes, or the capture fails before
\* the conference.
Deadline ==
    /\ hpc = "loop"
    /\ hpc' = "cancel" /\ result' = "SystemFailure"
    /\ UNCHANGED <<request, pol, nextSeq>> /\ HelperOnly

\* The answer deadline started when the helper saw DIALING, after the app's.
AnswerTimeout ==
    /\ hpc = "loop" /\ pol.stage = "Dialing" /\ pol.rank = 3
    /\ late \/ level # 3 \/ stage # "live"
    /\ hpc' = "cancel" /\ result' = "NotConnected"
    /\ UNCHANGED <<request, pol, nextSeq>> /\ HelperOnly

\* The guardian reports the caller's hangup, or fails; gStopRequested also
\* leaves the loop with Failed.
GuardianHangup ==
    /\ hpc = "loop" /\ callerLeft
    /\ hpc' = "teardown" /\ result' = "CallerHangup"
    /\ UNCHANGED <<request, pol, nextSeq>> /\ HelperOnly

HelperFails ==
    /\ hpc \in {"loop", "teardown"}
    /\ hpc' = "done" /\ result' = "Failed"
    /\ UNCHANGED <<request, pol, nextSeq>> /\ HelperOnly

\* Mutants: a cancel that could not be written is taken for an answered one, and
\* the helper's own result name is written where the wire has a reason.
PublishCancelOrNot(ok) ==
    /\ hpc = "cancel"
    /\ IF ok
       THEN /\ request' = [request EXCEPT !.kind = "CANCEL", !.seq = nextSeq,
                             !.reason = IF result = "NotConnected" THEN "ANSWER_TIMEOUT"
                                                                   ELSE "HELPER_CANCELLED"]
            /\ nextSeq' = nextSeq + 1 /\ hpc' = "teardown" /\ UNCHANGED result
       ELSE hpc' = "confirm" /\ UNCHANGED <<request, nextSeq, result>>
    /\ UNCHANGED pol /\ HelperOnly

PublishCancelResult(ok) ==
    /\ hpc = "cancel"
    /\ IF ok
       THEN /\ request' = [request EXCEPT !.kind = "CANCEL", !.seq = nextSeq, !.reason = result]
            /\ nextSeq' = nextSeq + 1 /\ hpc' = "teardown" /\ UNCHANGED result
       ELSE hpc' = "done" /\ result' = "Failed" /\ UNCHANGED <<request, nextSeq>>
    /\ UNCHANGED pol /\ HelperOnly

PublishCancel(ok) ==
    /\ hpc = "cancel"
    /\ IF ok
       THEN /\ request' = [request EXCEPT !.kind = "CANCEL", !.seq = nextSeq,
                             !.reason = IF result = "NotConnected" THEN "ANSWER_TIMEOUT"
                                                                   ELSE "HELPER_CANCELLED"]
            /\ nextSeq' = nextSeq + 1 /\ hpc' = "teardown" /\ UNCHANGED result
       ELSE hpc' = "done" /\ result' = "Failed" /\ UNCHANGED <<request, nextSeq>>
    /\ UNCHANGED pol /\ HelperOnly

-----------------------------------------------------------------------------
(* The helper: ExternalCallTeardownPolicy and the confirmation.            *)

Expected(st) ==
    \/ st.kind = "COMPLETED" /\ st.reason = "CALLER_HANGUP"
    \/ result = "NotConnected" /\ st.kind = "NOT_CONNECTED" /\ st.reason = "ANSWER_TIMEOUT"
    \/ result = "SystemFailure" /\ st.kind = "SYSTEM_FAILURE" /\ st.reason = "HELPER_CANCELLED"

MatchedTerminal ==
    IF status.reason = "CALLER_HANGUP" THEN hpc' = "done" /\ result' = "CallerHangup"
                                       ELSE hpc' = "confirm" /\ UNCHANGED result

TeardownPoll ==
    /\ hpc = "teardown" /\ Correlates
    /\ \/ /\ pol.seq # 0 /\ ExactDuplicate(pol, status) /\ Expected(status)
          /\ MatchedTerminal /\ UNCHANGED pol
       \/ /\ ~(pol.seq # 0 /\ ExactDuplicate(pol, status))
          /\ IF status.seq <= pol.seq \/ status.at < pol.at
             THEN hpc' = "done" /\ result' = "Failed" /\ UNCHANGED pol
             ELSE /\ pol' = [pol EXCEPT !.seq = status.seq, !.at = status.at,
                                        !.kind = status.kind, !.reason = status.reason]
                  /\ CASE status.kind = "SYSTEM_FAILURE" /\ status.reason = "CLEANUP_TIMEOUT" ->
                            hpc' = "done" /\ result' = "CleanupTimeout"
                       [] Expected(status) -> MatchedTerminal
                       [] status.kind \in LiveKinds /\ status.reason = "-" -> UNCHANGED <<hpc, result>>
                       [] OTHER -> hpc' = "done" /\ result' = "Failed"
    /\ UNCHANGED <<request, nextSeq>> /\ HelperOnly

\* Mutant: the teardown has no deadline.
TeardownForever == FALSE

TeardownTimeout ==
    /\ hpc = "teardown"
    /\ hpc' = "done" /\ result' = "Failed"
    /\ UNCHANGED <<request, pol, nextSeq>> /\ HelperOnly

\* ConfirmOriginalCallerSafe(): the caller alone, stable; a caller that left
\* meanwhile is a hangup when no call is left.
Confirm(stable, idle) ==
    /\ hpc = "confirm"
    /\ stable => ~callerLeft
    /\ idle => callerLeft /\ ~stable
    /\ hpc' = "done"
    /\ result' = IF stable THEN result ELSE IF idle THEN "CallerHangup" ELSE "Failed"
    /\ UNCHANGED <<request, pol, nextSeq>> /\ HelperOnly

Helper ==
    \/ \E b \in Blocks : StartBlock(b)
    \/ Poll \/ (\E ok \in BOOLEAN : StartRecorder(ok)) \/ Deadline \/ AnswerTimeout
    \/ GuardianHangup \/ HelperFails \/ (\E ok \in BOOLEAN : PublishCancel(ok))
    \/ TeardownPoll \/ TeardownTimeout \/ (\E stable, idle \in BOOLEAN : Confirm(stable, idle))

-----------------------------------------------------------------------------
(* The app: ExternalCallCoordinator.                                       *)

AppOnly == UNCHANGED <<request, helperVars, callerLeft, crashes>>

\* publishStatus(): the next sequence number of this call's stream.
WriteStatus(kind, reason, at) ==
    status' = [kind |-> kind, reason |-> reason, block |-> jrn.block, at |-> at,
               seq |-> (IF status = None THEN 0 ELSE status.seq) + 1, attempt |-> jrn.attempt]

\* The engine in memory has a session that is not over.
Controls == mem # None /\ mem = jrn /\ stage \in {"live", "cleaning", "aborted"}
Idle == up /\ apc = "idle"

\* A handler of the engine starts: on a poll, or as the last part of recover().
SessionStep == UNCHANGED <<status, jrn, gate, late, up, recovering, mem, lastReq, last, healthy,
                           signed, beats, faults, dialled>> /\ AppOnly

\* Mutant: the merge does not wait for the recorder.
EngineAdvancesUngated ==
    /\ Idle /\ Controls /\ ~callerLeft
    /\ PAdvance
    /\ updated' = beats /\ apc' = "show" /\ SessionStep

EngineAdvances ==
    /\ Idle /\ Controls /\ ~callerLeft
    /\ level = 4 => gate
    /\ PAdvance
    /\ updated' = beats /\ apc' = "show" /\ SessionStep

\* reconcile() gives the session up, or sees its conversation end.
EngineCleans ==
    /\ Idle /\ Controls /\ stage = "live"
    /\ PClean
    /\ (outcome' = CallerLeft) = callerLeft
    /\ CASE outcome'.reason = "UNANSWERED" -> level >= 2
         [] outcome'.reason = "ANSWER_TIMEOUT" -> late
         [] OTHER -> outcome'.reason # "HELPER_CANCELLED"
    /\ updated' = beats /\ UNCHANGED apc /\ SessionStep

\* A caller that is gone ends any cleanup; one that is back ends it with the
\* outcome it was started for, unless that was the caller's own hangup.
EngineFinishes ==
    /\ Idle /\ Controls
    /\ PFinish
    /\ stage = "cleaning" => /\ outcome' = IF callerLeft THEN CallerLeft ELSE outcome
                             /\ outcome = CallerLeft => callerLeft
    /\ updated' = beats /\ apc' = "show" /\ SessionStep

EngineAborts ==
    /\ Idle /\ Controls
    /\ PAbort
    /\ updated' = beats /\ apc' = "show" /\ SessionStep

\* onStatus(): a status that cannot be written is only noted.
Show(ok) ==
    /\ up /\ apc = "show"
    /\ PShow
    /\ last' = [kind |-> shown'.status, reason |-> shown'.reason]
    /\ \/ ok /\ WriteStatus(shown'.status, shown'.reason, updated) /\ UNCHANGED <<healthy, faults>>
       \/ /\ ~ok /\ faults < MaxFaults
          /\ faults' = faults + 1 /\ healthy' = FALSE /\ UNCHANGED status
    /\ apc' = "idle"
    /\ UNCHANGED <<journalVars, up, recovering, mem, lastReq, signed, beats, dialled>> /\ AppOnly

\* The heartbeat of tick(), which stamps the last status with the present time.
Heartbeat ==
    /\ Idle /\ ~recovering /\ Controls /\ last # None
    /\ beats < MaxBeats /\ beats' = beats + 1
    /\ WriteStatus(last.kind, last.reason, beats')
    /\ UNCHANGED <<appVars, signed, faults, dialled>> /\ AppOnly

\* failSystem(reason) of a session that is not over; an aborted one stays so.
Fails(reason) ==
    /\ IF stage = "aborted" THEN UNCHANGED promiseVars
       ELSE PClean /\ outcome' = [status |-> "SYSTEM_FAILURE", reason |-> reason]
    /\ updated' = beats

\* A bridge that lost a status gives up the call unless people are talking.
UnhealthyCancel ==
    /\ Idle /\ ~recovering /\ Controls /\ ~healthy
    /\ ~(level = 6 /\ (stage = "live" \/ (stage = "cleaning" /\ outcome.reason = "OPERATOR_HANGUP")))
    /\ Fails("HELPER_CANCELLED")
    /\ UNCHANGED apc /\ SessionStep

-----------------------------------------------------------------------------
(* The app: requests.                                                      *)

Unread(kind) == Idle /\ ~recovering /\ request # None /\ request # lastReq /\ request.kind = kind
SameIdentity == mem # None /\ mem.block = request.block
Recorded(kind) == mem.seq = request.seq /\ mem.stamp = request.stamp /\ mem.kind = kind

Session == [block |-> request.block, seq |-> request.seq, stamp |-> request.stamp,
            kind |-> request.kind, attempt |-> request.stamp]

\* protocolFailure(): nothing happens to a session that is over.
ProtocolFailure ==
    IF Controls THEN Fails("FAILED") /\ UNCHANGED <<jrn, gate, late>>
                ELSE UNCHANGED <<promiseVars, journalVars>>

\* publishStandaloneFailure(): the journal, not the engine, gets a failed session.
StandaloneFailure ==
    /\ stage' = "over" /\ level' = 1 /\ shown' = None
    /\ outcome' = [status |-> "SYSTEM_FAILURE", reason |-> "FAILED"]
    /\ jrn' = Session /\ gate' = FALSE /\ late' = FALSE /\ updated' = beats

Handled == lastReq' = request /\ UNCHANGED <<status, up, recovering, signed, beats, faults>> /\ AppOnly

\* A dial for a call this app no longer owns is dropped.
DropDial ==
    /\ Unread("DIAL") /\ callerLeft
    /\ Handled /\ UNCHANGED <<promiseVars, journalVars, apc, mem, last, healthy, dialled>>

\* The same request after a restart, or another one for the same block.
RepeatedDial ==
    /\ Unread("DIAL") /\ SameIdentity
    /\ IF Recorded("DIAL")
       THEN /\ apc' = IF stage = "over" /\ mem = jrn /\ last = None THEN "show" ELSE apc
            /\ UNCHANGED <<promiseVars, journalVars>>
       ELSE ProtocolFailure /\ UNCHANGED apc
    /\ Handled /\ UNCHANGED <<mem, last, healthy, dialled>>

CollidingDial ==
    /\ Unread("DIAL") /\ ~SameIdentity /\ Controls
    /\ ProtocolFailure
    /\ Handled /\ UNCHANGED <<apc, mem, last, healthy, dialled>>

\* STALE_BOOT, CAPABILITY_UNAVAILABLE, UNSIGNED_REQUEST or the caller's claim.
RefusedDial ==
    /\ Unread("DIAL") /\ ~SameIdentity /\ ~Controls
    /\ StandaloneFailure /\ apc' = "show"
    /\ Handled /\ UNCHANGED <<mem, last, healthy, dialled>>

\* begin() itself may refuse: the session is then over at once.
BeginDial ==
    /\ Unread("DIAL") /\ ~SameIdentity /\ ~Controls /\ signed
    /\ PBegin
    /\ jrn' = Session /\ mem' = Session /\ gate' = FALSE /\ late' = FALSE /\ updated' = beats
    /\ last' = None /\ healthy' = TRUE /\ apc' = "show"
    /\ dialled' = [dialled EXCEPT ![request.stamp] = @ + 1]
    /\ Handled

\* RECORDER_READY or CANCEL for no session, or for another one.
StrayRequest(kind) ==
    /\ Unread(kind) /\ ~SameIdentity
    /\ IF Controls THEN ProtocolFailure /\ UNCHANGED apc
                   ELSE StandaloneFailure /\ apc' = "show"
    /\ Handled /\ UNCHANGED <<mem, last, healthy, dialled>>

\* recordRequest() comes before the request takes effect; one that is already
\* recorded is skipped.
RecordRequest(kind) ==
    /\ Unread(kind) /\ SameIdentity
    /\ CASE Recorded(kind) ->
              UNCHANGED <<promiseVars, journalVars, mem, apc>>
         [] ~Recorded(kind) /\ Controls /\ request.seq > mem.seq /\ request.stamp >= mem.stamp ->
              /\ mem' = [mem EXCEPT !.seq = request.seq, !.stamp = request.stamp, !.kind = kind]
              /\ jrn' = mem' /\ updated' = beats
              /\ apc' = kind
              /\ UNCHANGED <<promiseVars, gate, late>>
         [] OTHER -> ProtocolFailure /\ UNCHANGED <<mem, apc>>
    /\ Handled /\ UNCHANGED <<last, healthy, dialled>>

\* recorderReady(): only an answered call waits for the gate.
RecorderReady ==
    /\ up /\ apc = "RECORDER_READY"
    /\ \/ stage = "live" /\ level = 4 /\ gate' = TRUE /\ updated' = beats /\ UNCHANGED promiseVars
       \/ Fails("FAILED") /\ UNCHANGED gate
       \/ /\ stage = "live" /\ level = 4
          /\ PClean /\ outcome'.reason = "UNANSWERED"
          /\ updated' = beats /\ UNCHANGED gate
    /\ apc' = "idle"
    /\ UNCHANGED <<status, jrn, late, up, recovering, mem, lastReq, last, healthy, signed,
                   beats, faults, dialled>>
    /\ AppOnly

\* cancel(): a helper that gave up waiting for the answer is checked against
\* the outcome.
Cancel ==
    /\ up /\ apc = "CANCEL"
    /\ CASE lastReq.reason = "HELPER_CANCELLED" -> Fails("HELPER_CANCELLED")
         [] lastReq.reason = "ANSWER_TIMEOUT" /\ stage = "live" /\ level = 3 /\ late ->
               PClean /\ outcome'.reason = "ANSWER_TIMEOUT" /\ updated' = beats
         [] lastReq.reason = "ANSWER_TIMEOUT" /\ stage = "cleaning" /\ outcome.reason = "ANSWER_TIMEOUT" ->
               UNCHANGED <<promiseVars, updated>>
         [] OTHER -> Fails("FAILED")
    /\ apc' = "idle" /\ SessionStep

-----------------------------------------------------------------------------
(* The app: process death and recover().                                   *)

Crash ==
    /\ up /\ crashes < MaxCrashes /\ crashes' = crashes + 1
    /\ up' = FALSE /\ apc' = "idle" /\ recovering' = FALSE
    /\ mem' = None /\ lastReq' = None /\ last' = None /\ healthy' = TRUE
    /\ UNCHANGED <<request, status, promiseVars, journalVars, helperVars, callerLeft, signed, beats, faults, dialled>>

\* Mutant: the journalled session is not taken up.
RecoverBlank ==
    /\ ~up /\ up' = TRUE
    /\ signed
    /\ mem' = None /\ last' = None /\ recovering' = FALSE /\ apc' = "idle"
    /\ UNCHANGED <<status, promiseVars, journalVars, lastReq, healthy, signed, beats, faults, dialled>> /\ AppOnly

\* The journalled session is taken up again once the recovery barrier is READY
\* and the helper is attached; one that is over is published again.
Recover ==
    /\ ~up /\ up' = TRUE
    /\ signed
    /\ mem' = jrn
    /\ last' = IF jrn # None /\ status # None /\ status.block = jrn.block
               THEN [kind |-> status.kind, reason |-> status.reason] ELSE None
    /\ recovering' = (stage \in {"live", "cleaning", "aborted"} /\ ~callerLeft)
    /\ apc' = IF stage = "over" THEN "show" ELSE "idle"
    /\ UNCHANGED <<status, promiseVars, journalVars, lastReq, healthy, signed, beats, faults, dialled>> /\ AppOnly

\* The active manifest cannot vouch for the journalled instruction any more.
RecoverUnsigned ==
    /\ ~up /\ up' = TRUE
    /\ jrn # None /\ (~signed \/ faults < MaxFaults) /\ signed' = FALSE
    /\ faults' = IF signed THEN faults + 1 ELSE faults
    /\ stage' = "over" /\ outcome' = [status |-> "SYSTEM_FAILURE", reason |-> "FAILED"]
    /\ updated' = beats /\ apc' = "show"
    /\ UNCHANGED <<status, level, shown, jrn, gate, late, mem, recovering, lastReq, last, healthy, beats, dialled>>
    /\ AppOnly

\* The tail of recover(): the status of the phase, stamped with the time of the
\* session's last update.
Republish ==
    /\ Idle /\ recovering
    /\ recovering' = FALSE
    /\ IF stage = "over" THEN UNCHANGED <<promiseVars, last, status>>
       ELSE /\ IF stage = "aborted" THEN PShowAgain ELSE PShow
            /\ last' = [kind |-> shown'.status, reason |-> shown'.reason]
            /\ WriteStatus(shown'.status, shown'.reason, updated)
    /\ UNCHANGED <<journalVars, up, apc, mem, lastReq, healthy, signed, beats, faults, dialled>> /\ AppOnly

Requests ==
    \/ DropDial \/ RepeatedDial \/ CollidingDial \/ RefusedDial \/ BeginDial
    \/ (\E kind \in {"RECORDER_READY", "CANCEL"} : StrayRequest(kind) \/ RecordRequest(kind))
    \/ RecorderReady \/ Cancel

Engine == EngineAdvances \/ EngineCleans \/ EngineFinishes \/ EngineAborts

-----------------------------------------------------------------------------
(* Surroundings.                                                           *)

CallerLeaves ==
    /\ ~callerLeft /\ callerLeft' = TRUE
    /\ UNCHANGED <<request, status, appVars, helperVars, signed, beats, crashes, faults, dialled>>

AnswerDeadlinePasses ==
    /\ stage = "live" /\ level = 3 /\ ~late
    /\ late' = TRUE
    /\ UNCHANGED <<request, status, promiseVars, jrn, gate, updated, processVars, helperVars, countVars>>

Init ==
    /\ PInit
    /\ request = None /\ status = None
    /\ jrn = None /\ gate = FALSE /\ late = FALSE /\ updated = 0
    /\ up = TRUE /\ apc = "idle" /\ recovering = FALSE /\ mem = None
    /\ lastReq = None /\ last = None /\ healthy = TRUE
    /\ hpc = "idle" /\ block = None /\ pol = NewPolicy /\ nextSeq = 2 /\ result = "Failed"
    /\ callerLeft = FALSE /\ signed = TRUE /\ beats = 0 /\ attempt = 0 /\ used = {} /\ crashes = 0 /\ faults = 0
    /\ dialled = [a \in 1 .. MaxAttempts |-> 0]

Next ==
    \/ Helper \/ Engine \/ Requests
    \/ (\E ok \in BOOLEAN : Show(ok)) \/ Heartbeat \/ UnhealthyCancel
    \/ Crash \/ Recover \/ RecoverUnsigned \/ Republish
    \/ CallerLeaves \/ AnswerDeadlinePasses

Spec == Init /\ [][Next]_vars

\* A helper that hears nothing from a session of its own gives up.
Silence == Deadline /\ ~(Controls /\ jrn.attempt = attempt)

\* Both sides keep polling, the engine's deadlines fire unless people talk
\* (ExternalCallEngine!SetupResolves), a dead app is bound again, and the
\* helper's cleanup and silence deadlines pass.
Fairness ==
    /\ WF_vars(Poll) /\ WF_vars(StartRecorder(TRUE)) /\ WF_vars(PublishCancel(TRUE))
    /\ WF_vars(TeardownPoll) /\ WF_vars(TeardownTimeout) /\ WF_vars(Silence)
    /\ WF_vars(\E stable, idle \in BOOLEAN : Confirm(stable, idle))
    /\ WF_vars(Requests) /\ WF_vars(Show(TRUE)) /\ WF_vars(Republish) /\ WF_vars(Recover \/ RecoverUnsigned)
    /\ WF_vars(Engine)

FairSpec == Spec /\ Fairness

-----------------------------------------------------------------------------
(* Properties.                                                             *)

Stamps == 0 .. MaxAttempts
Moments == 0 .. MaxBeats
Kinds == LiveKinds \cup TerminalKinds
SessionId == [block : Blocks, seq : Nat, stamp : Stamps,
              kind : {"DIAL", "RECORDER_READY", "CANCEL"}, attempt : Stamps]

Requested == [kind : {"DIAL", "RECORDER_READY", "CANCEL"}, block : Blocks, seq : Nat, stamp : Stamps,
              reason : {"-", "ANSWER_TIMEOUT", "HELPER_CANCELLED"}]

ASSUME NoneAssumption == None \notin SessionId /\ None \notin Requested

\* Every variable has the type the code gives it.
TypeOK ==
    /\ request \in Requested \cup {None}
    /\ status = None \/ /\ status.kind \in Kinds /\ status.seq \in Nat \ {0} /\ status.at \in Moments
                        /\ status.attempt \in Stamps
    /\ stage \in {"none", "live", "cleaning", "aborted", "over"} /\ level \in Level
    /\ jrn \in SessionId \cup {None} /\ mem \in SessionId \cup {None}
    /\ {gate, late, up, recovering, healthy, callerLeft, signed} \subseteq BOOLEAN
    /\ updated \in Moments
    /\ apc \in {"idle", "show", "RECORDER_READY", "CANCEL"}
    /\ hpc \in {"idle", "loop", "recorder", "cancel", "teardown", "confirm", "done"}
    /\ result \in Results /\ nextSeq \in Nat
    /\ pol.stage \in {"AwaitingApp", "Dialing", "OperatorAnswered", "RecorderReady", "Merging",
                      "Conferenced", "Terminal"}
    /\ pol.rank \in 0 .. 6 /\ pol.kind \in Kinds \cup {None} /\ pol.at \in Moments
    /\ outcome \in Outcomes \cup {TimedOut, None}
    /\ lastReq = None \/ lastReq.kind \in {"DIAL", "RECORDER_READY", "CANCEL"}
    /\ last = None \/ last.kind \in Kinds
    /\ dialled \in [1 .. MaxAttempts -> Nat]

\* The not-connected branch is only taken for an attempt whose own session
\* ended NOT_CONNECTED: "on_not_connected handles timeout, busy, rejection, or
\* pre-merge operator disconnect" (docs/EXTERNAL_CALL_V4.md:35).
NotConnectedWasDialled ==
    hpc = "done" /\ result = "NotConnected"
        => dialled[attempt] = 1 /\ stage = "over" /\ outcome.status = "NOT_CONNECTED"

\* The flow never runs on while the app still controls a call for it: when the
\* helper resumes at a branch, the attempt's session is over or was aborted.
BranchAfterSession ==
    hpc = "done" /\ result \in Branching => stage \notin {"live", "cleaning"}

\* The two legs are never merged before the helper of this very attempt opened
\* the recorder gate.
MergeAfterRecorder ==
    stage = "live" /\ level >= 5 /\ hpc \in {"loop", "recorder"} /\ jrn.attempt = attempt
        => pol.stage \in {"RecorderReady", "Merging", "Conferenced"}

\* A request is carried out once: a restart of the app in the middle of an
\* attempt never begins a second session for it.
OneSessionPerAttempt == \A a \in 1 .. MaxAttempts : dialled[a] <= 1

\* An external_call block comes to an end unless people are talking.
AttemptResolves == hpc = "loop" ~> (hpc = "done" \/ level = 6)
=============================================================================
