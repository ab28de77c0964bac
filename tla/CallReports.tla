----------------------------- MODULE CallReports -----------------------------
(***************************************************************************)
(* How one call gets into the server's history.  The app keeps a snapshot  *)
(* of the call in an outbox, the call's sub-events in a journal of their   *)
(* own and the audit recording's report in the audit spool; synchronize    *)
(* uploads all three.  The server merges what it gets, keeps the first     *)
(* proven outcome and claims each notification once.                       *)
(*                                                                         *)
(* Three threads of the app touch the outbox: the session finalizer        *)
(* (LocalCallSession), the hand-off worker of the audit spool, and the     *)
(* sync.  A request whose answer was lost may still be handled later, in   *)
(* any order with the ones after it.                                       *)
(***************************************************************************)
EXTENDS Naturals, Sequences, FiniteSets

CONSTANTS
    Events,       \* sub-events the call logs
    Failures,     \* those that are an operator step that failed
    Scenarios,    \* what a run lets happen together, see Scenario
    MaxPolicies,  \* bound on audit policy versions
    None

ASSUME CallAssumption == Failures \subseteq Events /\ "ended" \notin Failures /\ MaxPolicies \in Nat

VARIABLES
    scene,     \* the scenario of this behaviour
    phase,     \* the call: none, active, released (journal moved to the
               \* finalizer), unknown (reported without details), final
    bound,     \* audit policy version the call is recorded under, 0 for none
    outbox,    \* the call's entry among the pending calls, or None; its
               \* "sent" says that the last request carried this generation
    journal,   \* sub-events pending
    logged,    \* sub-events logged so far
    spool,     \* the call's folder of the audit spool and its inbox
    spooler,   \* the thread inside SessionAuditSpool.reconcile, or None
    policy,    \* [verified, prior, wish, state]: the app's policy files, the
               \* file the helper reads, and the one it answers with
    sync,      \* the sync: its position, the request it waits for, its answer
    late,      \* requests given up on that the server has not handled yet
    policies,  \* SessionAuditPolicy rows: enabled, by version
    acked,     \* versions the device acknowledged
    row,       \* the CallRecord, or None
    seen,      \* identities with a CallEventReceipt
    due,       \* receipts whose notification is not scheduled yet
    pushes,    \* [alert -> background tasks scheduled and not run]
    alerts,    \* [alert -> how often it was sent]
    faults     \* lost answers, crashes and repeated logging so far

appVars == <<phase, bound, outbox, journal, logged, spool, spooler, policy>>
serverVars == <<policies, acked, row, seen, due, pushes, alerts>>
vars == <<scene, appVars, sync, late, serverVars, faults>>

(* audited: the first policy records calls; captured: the recorder leaves  *)
(* a report; races: a call may be finalized while its hand-off or upload   *)
(* runs, its audio stored before its outcome is known, and the helper be   *)
(* slower to read a policy than the app waits for it.                      *)
Scenario == [audited : BOOLEAN, captured : BOOLEAN, races : BOOLEAN, events : SUBSET Events,
             policies : Nat, faults : Nat]

\* The bound holds the policy a scenario starts with and those it may add.
ASSUME ScenarioAssumption ==
    \A s \in Scenarios : /\ s \in Scenario /\ s.policies <= MaxPolicies
                         /\ s.audited => 1 <= MaxPolicies

Results == {"IN_PROGRESS", "END_DETAILS_UNAVAILABLE", "REMOTE_HANGUP"}
Unproven == {"IN_PROGRESS", "END_DETAILS_UNAVAILABLE"}
Reports == {"pending_upload", "unavailable"}
CallRow == [result : Results, audit : Reports \cup {None}, told : BOOLEAN]

ASSUME NoneAssumption == None \notin CallRow

Alerts == {"ended"} \cup Failures
Versions == 0 .. MaxPolicies
Busy == phase = "active"                       \* CallRuntimeState.isBusy
Fault == faults < scene.faults /\ faults' = faults + 1

----------------------------------------------------------------------------
(* The outbox and the journal of sub-events *)

(* enqueueCall: the new snapshot replaces the pending one, which passes on *)
(* its audit report.  Its generation is new: no request has carried it.    *)
Enqueued(result, report) ==
    [result |-> result, sent |-> FALSE,
     audit |-> IF report = None /\ outbox # None THEN outbox.audit ELSE report]

AppendCallEvent(e) ==
    /\ phase # "none" /\ e \in scene.events
    /\ IF e \in logged THEN Fault ELSE UNCHANGED faults
    /\ journal' = journal \cup {e}
    /\ logged' = logged \cup {e}
    /\ UNCHANGED <<scene, phase, bound, outbox, spool, spooler, policy, sync, late, serverVars>>

----------------------------------------------------------------------------
(* The call *)

Applied ==
    IF policy.state \in {policy.verified, policy.prior} THEN policy.state ELSE 0

Enabled(v) == v # 0 /\ policies[v]

(* LocalCallSession.begin and the first snapshot.                          *)
CallStarts ==
    /\ phase = "none"
    /\ phase' = "active"
    /\ bound' = IF Enabled(Applied) THEN Applied ELSE 0
    /\ outbox' = Enqueued("IN_PROGRESS", None)
    /\ spool' = [spool EXCEPT !.inbox = IF bound' # 0 /\ scene.captured THEN "context" ELSE "none"]
    /\ UNCHANGED <<scene, journal, logged, spooler, policy, sync, late, serverVars, faults>>

(* reconcile: the caller is gone; the session's journal moves to the       *)
(* finalizer and the app is free for the next call.                        *)
CallReleased ==
    /\ Busy
    /\ phase' = "released"
    /\ UNCHANGED <<scene, bound, outbox, journal, logged, spool, spooler, policy, sync, late,
                   serverVars, faults>>

ReportWritten ==
    /\ ~Busy /\ spool.inbox = "context"
    /\ spool' = [spool EXCEPT !.inbox = "report"]
    /\ UNCHANGED <<scene, phase, bound, outbox, journal, logged, spooler, policy, sync, late,
                   serverVars, faults>>

(* finalizeFile.  Ten seconds without an outcome report the call without   *)
(* details, once; the outcome completes it whenever it comes.              *)
Finalize(result, next) ==
    /\ scene.races \/ (spooler = None /\ sync.pc # "calls")
    /\ outbox' = Enqueued(result, None)
    /\ phase' = next
    /\ UNCHANGED <<scene, bound, journal, logged, spool, spooler, policy, sync, late, serverVars,
                   faults>>

FinalizeUnknown == phase = "released" /\ Finalize("END_DETAILS_UNAVAILABLE", "unknown")
FinalizeKnown == phase \in {"released", "unknown"} /\ Finalize("REMOTE_HANGUP", "final")

----------------------------------------------------------------------------
(* SessionAuditSpool.reconcile, by the hand-off worker or by the sync      *)

BindCall(t) ==
    /\ spooler = None
    /\ t = "sync" => sync.pc = "handoff"
    /\ spooler' = t
    /\ spool' = IF outbox = None \/ bound = 0 THEN spool
                ELSE [spool EXCEPT !.meta = outbox.result]
    /\ UNCHANGED <<scene, phase, bound, outbox, journal, logged, policy, sync, late, serverVars,
                   faults>>

(* The report of a recorder that left one, or of one that left nothing;    *)
(* nothing is made up while the recorder may still write.                  *)
HandedOff ==
    IF spool.inbox = "report" THEN [spool EXCEPT !.report = "pending_upload", !.inbox = "none"]
    ELSE IF spool.report = None /\ spool.inbox = "none" THEN [spool EXCEPT !.report = "unavailable"]
    ELSE spool

(* The outcome enqueued with the report is the one call.meta was bound to. *)
PublishedResult == spool.meta

PublishReport ==
    /\ spooler # None
    /\ spooler' = None
    /\ sync' = IF spooler = "sync" THEN [sync EXCEPT !.pc = "calls"] ELSE sync
    /\ IF Busy \/ spool.meta = None \/ spool.ack THEN UNCHANGED <<spool, outbox>>
       ELSE /\ spool' = HandedOff
            /\ outbox' = IF HandedOff.report = None \/ spool.meta = "IN_PROGRESS" THEN outbox
                         ELSE Enqueued(PublishedResult, HandedOff.report)
    /\ UNCHANGED <<scene, phase, bound, journal, logged, policy, late, serverVars, faults>>

----------------------------------------------------------------------------
(* SyncCoordinator.synchronize *)

Idle == [pc |-> "idle", req |-> None, answer |-> "none", offer |-> 0]
To(pc) == sync' = [Idle EXCEPT !.pc = pc]

(* SessionAuditSettings.restore *)
StartSync ==
    /\ sync.pc = "idle" /\ ~Busy
    /\ To("report")
    /\ policy' = [policy EXCEPT !.wish = policy.verified]
    /\ UNCHANGED <<scene, phase, bound, outbox, journal, logged, spool, spooler, late, serverVars,
                   faults>>

CaughtUp == scene.races \/ Busy \/ policy.state = policy.wish

(* sync_device and acknowledge_policy: the version the status names as     *)
(* applied; the answer offers the latest one.                              *)
Acknowledge == acked' = IF Applied = 0 THEN acked ELSE acked \cup {Applied}

SyncDevice ==
    /\ sync.pc = "report" /\ CaughtUp
    /\ Acknowledge
    /\ sync' = [Idle EXCEPT !.pc = "apply", !.offer = Len(policies)]
    /\ UNCHANGED <<scene, appVars, late, policies, row, seen, due, pushes, alerts, faults>>

(* SessionAuditSettings.apply with the policy that the answer carried; its *)
(* wait for the helper is bounded, so the sync goes on without it.         *)
ApplyPolicy ==
    /\ sync.pc = "apply"
    /\ policy' = IF Busy THEN policy
                 ELSE [policy EXCEPT !.prior = IF Applied = policy.verified THEN policy.verified ELSE @,
                                     !.verified = sync.offer, !.wish = sync.offer]
    /\ To("applied")
    /\ UNCHANGED <<scene, phase, bound, outbox, journal, logged, spool, spooler, late, serverVars,
                   faults>>

(* The policy in force is reported again before any call is sent.          *)
ConfirmApplied ==
    /\ sync.pc = "applied" /\ CaughtUp
    /\ Acknowledge
    /\ To("handoff")
    /\ UNCHANGED <<scene, appVars, late, policies, row, seen, due, pushes, alerts, faults>>

HasBinding == bound = 0 \/ spool.meta # None

(* uploadPendingEvents: the pending call as it is now, ...                 *)
SendCalls ==
    /\ sync.pc = "calls"
    /\ IF outbox # None /\ HasBinding
       THEN /\ outbox' = [outbox EXCEPT !.sent = TRUE]
            /\ sync' = [Idle EXCEPT !.pc = "calls_sent", !.req = [kind |-> "calls", call |-> outbox']]
       ELSE To("events") /\ UNCHANGED outbox
    /\ UNCHANGED <<scene, phase, bound, journal, logged, spool, spooler, policy, late, serverVars,
                   faults>>

(* ... the two acknowledgements, first the spool's, ...                    *)
AcknowledgeSpool ==
    LET sent == sync.req.call IN
    /\ sync.pc = "calls_sent" /\ sync.answer = "ok" /\ spooler = None
    /\ spool' = IF sent.audit = None \/ spool.report # sent.audit THEN spool
                ELSE IF sent.audit = "unavailable"
                THEN [spool EXCEPT !.meta = None, !.report = None, !.ack = FALSE]
                ELSE [spool EXCEPT !.ack = TRUE]
    /\ sync' = [sync EXCEPT !.pc = "calls_acked"]
    /\ UNCHANGED <<scene, phase, bound, outbox, journal, logged, spooler, policy, late, serverVars,
                   faults>>

(* Slip: whatever is pending now counts as sent.                           *)
AfterAcknowledgementAny(sent) ==
    IF outbox = None \/ outbox.result = "IN_PROGRESS" THEN outbox ELSE None

(* CallOutboxPolicy.afterAcknowledgement: an answer owns the snapshot that *)
(* was sent and nothing newer.                                             *)
AfterAcknowledgement(sent) ==
    IF outbox = None \/ outbox.result = "IN_PROGRESS" \/ outbox # sent THEN outbox ELSE None

AcknowledgeCalls ==
    /\ sync.pc = "calls_acked"
    /\ outbox' = AfterAcknowledgement(sync.req.call)
    /\ To("events")
    /\ UNCHANGED <<scene, phase, bound, journal, logged, spool, spooler, policy, late, serverVars,
                   faults>>

(* ... and the sub-events, even when the calls were refused.               *)
CallsRefused ==
    /\ sync.pc = "calls_sent" /\ sync.answer = "refused"
    /\ To("events")
    /\ UNCHANGED <<scene, appVars, late, serverVars, faults>>

SendEvents ==
    /\ sync.pc = "events"
    /\ sync' = IF journal = {} THEN Idle
               ELSE [Idle EXCEPT !.pc = "events_sent", !.req = [kind |-> "events", events |-> journal]]
    /\ UNCHANGED <<scene, appVars, late, serverVars, faults>>

AcknowledgeCallEvents ==
    /\ sync.pc = "events_sent" /\ sync.answer = "ok"
    /\ journal' = journal \ sync.req.events
    /\ sync' = Idle
    /\ UNCHANGED <<scene, phase, bound, outbox, logged, spool, spooler, policy, late, serverVars,
                   faults>>

(* SessionAuditSpool.uploadPending: the audio is stored on the server and  *)
(* its folder removed.                                                     *)
AudioUploaded ==
    /\ spool.ack /\ spooler = None /\ ~Busy
    /\ scene.races \/ (phase = "final" /\ outbox = None)
    /\ spool' = [spool EXCEPT !.meta = None, !.report = None, !.ack = FALSE]
    /\ UNCHANGED <<scene, phase, bound, outbox, journal, logged, spooler, policy, sync, late,
                   serverVars, faults>>

(* No answer in time, or the app dies: a request that is still on its way  *)
(* may be handled later.                                                   *)
Abandoned == IF sync.req # None /\ sync.answer = "none" THEN late \cup {sync.req} ELSE late

AnswerLost ==
    /\ sync.pc \in {"report", "applied", "calls_sent", "events_sent"}
    /\ Fault
    /\ late' = Abandoned
    /\ To(IF sync.pc = "calls_sent" THEN "events" ELSE "idle")
    /\ (sync.pc \in {"report", "applied"} /\ Acknowledge) \/ UNCHANGED acked
    /\ UNCHANGED <<scene, appVars, policies, row, seen, due, pushes, alerts>>

AppDies ==
    /\ sync.pc # "idle" \/ spooler # None
    /\ Fault
    /\ late' = Abandoned
    /\ sync' = Idle /\ spooler' = None
    /\ UNCHANGED <<scene, phase, bound, outbox, journal, logged, spool, policy, serverVars>>

(* RefreshAuditPolicy, by the helper's idle loop.                          *)
RefreshAuditPolicy ==
    /\ ~Busy /\ policy.state # policy.wish
    /\ policy' = [policy EXCEPT !.state = policy.wish]
    /\ UNCHANGED <<scene, phase, bound, outbox, journal, logged, spool, spooler, sync, late,
                   serverVars, faults>>

----------------------------------------------------------------------------
(* The server.  Both handlers hold the device's row from start to commit.  *)

(* save_settings *)
SavePolicy(enabled) ==
    /\ Len(policies) < scene.policies
    /\ policies' = Append(policies, enabled)
    /\ UNCHANGED <<scene, appVars, sync, late, acked, row, seen, due, pushes, alerts, faults>>

(* The request the sync waits for, or one it has given up on.              *)
Serve(m, answer) ==
    \/ /\ m = sync.req /\ sync.answer = "none"
       /\ sync' = [sync EXCEPT !.answer = answer]
       /\ UNCHANGED late
    \/ /\ m \in late
       /\ late' = late \ {m}
       /\ UNCHANGED sync

(* Slip: the terminal notification is not marked as scheduled.             *)
ClaimNotificationsAgain(r, fresh) ==
    IF r.result \in Unproven THEN [row |-> r, due |-> fresh, alerts |-> {}]
    ELSE [row |-> r, due |-> {}, alerts |-> {"ended"} \cup (fresh \cap Failures)]

(* claim_notifications: nothing before the outcome is proven, then the     *)
(* call's own alert and one for each failed step, each claimed once.       *)
ClaimNotifications(r, fresh) ==
    IF r.result \in Unproven THEN [row |-> r, due |-> fresh, alerts |-> {}]
    ELSE [row |-> [r EXCEPT !.told = TRUE], due |-> {},
          alerts |-> (IF r.told THEN {} ELSE {"ended"}) \cup (fresh \cap Failures)]

Commit(r, fresh) ==
    LET claim == ClaimNotifications(r, fresh) IN
    /\ row' = claim.row /\ due' = claim.due
    /\ pushes' = [a \in Alerts |-> pushes[a] + IF a \in claim.alerts THEN 1 ELSE 0]

(* validate_call_report *)
ValidReport(call) == call.audit = None \/ (Enabled(bound) /\ bound \in acked)

Accepted(call) ==
    /\ ValidReport(call)
    /\ row = None \/ call.audit = None \/ row.audit \in {None, call.audit}

(* Slip: a later snapshot replaces the outcome, whatever is known.         *)
MergedResultLatest(call) == IF call.result = "IN_PROGRESS" THEN row.result ELSE call.result

(* The first proven outcome stays.                                         *)
MergedResult(call) ==
    IF row.result \in Unproven /\ call.result # "IN_PROGRESS" THEN call.result ELSE row.result

Merged(call) ==
    IF row = None THEN [result |-> call.result, audit |-> call.audit, told |-> FALSE]
    ELSE [row EXCEPT !.result = MergedResult(call),
                     !.audit = IF row.audit = None THEN call.audit ELSE row.audit]

UploadEvents(m) ==
    /\ m # None /\ m.kind = "calls"
    /\ Serve(m, IF Accepted(m.call) THEN "ok" ELSE "refused")
    /\ IF Accepted(m.call) THEN Commit(Merged(m.call), due) ELSE UNCHANGED <<row, due, pushes>>
    /\ UNCHANGED <<scene, appVars, policies, acked, seen, alerts, faults>>

(* Slip: receipts are kept only beside their call.                         *)
ReceivedWithCall(events) == IF row = None THEN seen ELSE seen \cup events

(* merge_events: a receipt for every identity not seen before, even when   *)
(* the call itself has not arrived.                                        *)
Received(events) == seen \cup events

UploadCallEvents(m) ==
    LET fresh == due \cup (m.events \ seen) IN
    /\ m # None /\ m.kind = "events"
    /\ Serve(m, "ok")
    /\ seen' = Received(m.events)
    /\ IF row = None THEN due' = fresh /\ UNCHANGED <<row, pushes>> ELSE Commit(row, fresh)
    /\ UNCHANGED <<scene, appVars, policies, acked, alerts, faults>>

(* dispatch_ntfy, a background task of the server process.                 *)
DispatchNtfy(a) ==
    /\ pushes[a] > 0
    /\ pushes' = [pushes EXCEPT ![a] = @ - 1]
    /\ alerts' = [alerts EXCEPT ![a] = @ + 1]
    /\ UNCHANGED <<scene, appVars, sync, late, policies, acked, row, seen, due, faults>>

ServerDies ==
    /\ \E a \in Alerts : pushes[a] > 0
    /\ Fault
    /\ pushes' = [a \in Alerts |-> 0]
    /\ UNCHANGED <<scene, appVars, sync, late, policies, acked, row, seen, due, alerts>>

----------------------------------------------------------------------------
Init ==
    /\ scene \in Scenarios
    /\ phase = "none" /\ bound = 0
    /\ outbox = None /\ journal = {} /\ logged = {}
    /\ spool = [meta |-> None, report |-> None, ack |-> FALSE, inbox |-> "none"]
    /\ spooler = None
    /\ policy = [verified |-> 0, prior |-> 0, wish |-> 0, state |-> 0]
    /\ sync = Idle /\ late = {}
    /\ policies = IF scene.audited THEN <<TRUE>> ELSE <<>>
    /\ acked = {} /\ row = None /\ seen = {} /\ due = {}
    /\ pushes = [a \in Alerts |-> 0] /\ alerts = [a \in Alerts |-> 0]
    /\ faults = 0

Next ==
    \/ CallStarts \/ CallReleased \/ ReportWritten \/ FinalizeUnknown \/ FinalizeKnown
    \/ \E e \in Events : AppendCallEvent(e)
    \/ \E t \in {"worker", "sync"} : BindCall(t)
    \/ PublishReport \/ AudioUploaded
    \/ StartSync \/ SyncDevice \/ ApplyPolicy \/ ConfirmApplied
    \/ SendCalls \/ AcknowledgeSpool \/ AcknowledgeCalls \/ CallsRefused
    \/ SendEvents \/ AcknowledgeCallEvents
    \/ AnswerLost \/ AppDies \/ RefreshAuditPolicy
    \/ \E enabled \in BOOLEAN : SavePolicy(enabled)
    \/ \E m \in late \cup {sync.req} : UploadEvents(m) \/ UploadCallEvents(m)
    \/ \E a \in Alerts : DispatchNtfy(a)
    \/ ServerDies

Spec == Init /\ [][Next]_vars

(* The sync runs every few minutes and its steps end; the server answers;  *)
(* whoever is inside the spool leaves it; a recorder that was started      *)
(* leaves its report.  The spool's monitor and the hand-off worker may     *)
(* keep the sync out for a while but not for ever.                         *)
Fairness ==
    /\ WF_vars(StartSync \/ SyncDevice \/ ApplyPolicy \/ ConfirmApplied)
    /\ WF_vars(SendCalls \/ AcknowledgeCalls \/ CallsRefused \/ SendEvents \/ AcknowledgeCallEvents)
    /\ WF_vars(UploadEvents(sync.req) \/ UploadCallEvents(sync.req))
    /\ WF_vars(PublishReport) /\ WF_vars(ReportWritten) /\ WF_vars(RefreshAuditPolicy)
    /\ SF_vars(BindCall("sync")) /\ SF_vars(AcknowledgeSpool)

FairSpec == Spec /\ Fairness

----------------------------------------------------------------------------
(* The rows keep their shape: an alert is due only for an event that has a *)
(* receipt, and an unproven call has claimed nothing (call_history.py).    *)
TypeOK ==
    /\ scene \in Scenario /\ faults \in 0 .. scene.faults
    /\ phase \in {"none", "active", "released", "unknown", "final"}
    /\ bound \in Versions /\ bound <= Len(policies)
    /\ outbox # None => outbox.result \in Results /\ outbox.audit \in Reports \cup {None}
    /\ journal \subseteq logged /\ logged \subseteq Events
    /\ spool.meta \in Results \cup {None} /\ spool.report \in Reports \cup {None}
    /\ spooler \in {"worker", "sync", None}
    /\ acked \subseteq 1 .. Len(policies)
    /\ seen \subseteq logged /\ due \subseteq seen
    /\ row # None => row.result \in Results /\ (row.told => row.result \notin Unproven)

(* However requests are retried, delayed or reordered and whoever dies, an *)
(* alert is scheduled or sent at most once, and never before the call's    *)
(* outcome is known (claim_notifications).                                 *)
AlertedOnce ==
    \A a \in Alerts :
        /\ pushes[a] + alerts[a] <= 1
        /\ pushes[a] + alerts[a] = 1 => row # None /\ row.result \notin Unproven

(* History never goes back: a proven outcome, an audit report and a        *)
(* receipt stay as they are, even when an older snapshot is handled after  *)
(* a newer one (upload_events).                                            *)
OutcomeKept ==
    [][/\ row # None => row' # None
       /\ row # None /\ row.result \notin Unproven => row'.result = row.result
       /\ row # None /\ row.result # "IN_PROGRESS" => row'.result # "IN_PROGRESS"
       /\ row # None /\ row.audit # None => row'.audit = row.audit
       /\ seen \subseteq seen']_vars

(* A finished call reaches the server whole: its outcome, every logged     *)
(* sub-event and, under an audit policy, its audit report; and the app     *)
(* stops sending it (SyncCoordinator.uploadPendingEvents).  A call whose   *)
(* recorder left nothing may be sent again for as long as the hand-off     *)
(* worker writes its report anew during every request.                     *)
ReportsArrive ==
    (phase = "final" /\ ~scene.races) ~>
        /\ row # None /\ row.result = "REMOTE_HANGUP"
        /\ logged \subseteq seen
        /\ bound # 0 => row.audit # None
        /\ journal = {} /\ (bound = 0 \/ scene.captured => outbox = None)
=============================================================================
