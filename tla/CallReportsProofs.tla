--------------------------- MODULE CallReportsProofs ---------------------------
(***************************************************************************)
(* Theorems about CallReports, for every set of sub-events, every set of   *)
(* scenarios and every bound on policies and faults.                       *)
(***************************************************************************)
EXTENDS CallReports, TLAPS

Pending == [result : Results, sent : BOOLEAN, audit : Reports \cup {None}]
Folder == [meta : Results \cup {None}, report : Reports \cup {None}, ack : BOOLEAN,
           inbox : {"none", "context", "report"}]
Positions == {"idle", "report", "apply", "applied", "handoff", "calls", "calls_sent",
              "calls_acked", "events", "events_sent"}

\* A request carries a snapshot of the call or sub-events that were logged.
CallsRequest == [kind : {"calls"}, call : Pending]
EventsRequest(some) == [kind : {"events"}, events : SUBSET some]
Requests(some) == CallsRequest \cup EventsRequest(some)

SceneType ==
    /\ scene \in Scenario /\ scene.policies <= MaxPolicies
    /\ faults \in 0 .. scene.faults

AppType ==
    /\ phase \in {"none", "active", "released", "unknown", "final"}
    /\ outbox \in Pending \cup {None}
    /\ spool \in Folder
    /\ spooler \in {"worker", "sync", None}

\* Every version that the app, the helper, the sync or the device's
\* acknowledgements name is one the server issued.
PolicyType ==
    /\ policies \in Seq(BOOLEAN) /\ Len(policies) <= MaxPolicies
    /\ bound \in 0 .. Len(policies)
    /\ policy \in [verified : 0 .. Len(policies), prior : 0 .. Len(policies),
                   wish : 0 .. Len(policies), state : 0 .. Len(policies)]
    /\ sync.offer \in 0 .. Len(policies)
    /\ acked \subseteq 1 .. Len(policies)

SyncType ==
    /\ sync \in [pc : Positions, req : Requests(logged) \cup {None},
                 answer : {"none", "ok", "refused"}, offer : Nat]
    /\ late \subseteq Requests(logged)

HistoryType ==
    /\ journal \subseteq logged /\ logged \subseteq Events
    /\ seen \subseteq logged /\ due \subseteq seen
    /\ row \in CallRow \cup {None}
    /\ row # None => (row.told <=> row.result \notin Unproven)

PushType == pushes \in [Alerts -> Nat] /\ alerts \in [Alerts -> Nat]

TypeInv == SceneType /\ AppType /\ PolicyType /\ SyncType /\ HistoryType /\ PushType

-----------------------------------------------------------------------------
\* An alert is claimed by the receipt or the row that schedules it: nothing
\* was claimed for a receipt that is missing or due, nor for the call before
\* it was told, nor at all before the outcome is proven.
Claimed(a) == pushes[a] + alerts[a]

Unclaimed ==
    /\ (row = None \/ row.result \in Unproven) => \A a \in Alerts : Claimed(a) = 0
    /\ \A f \in Failures : f \notin seen \/ f \in due => Claimed(f) = 0

ClaimInv == Unclaimed /\ \A a \in Alerts : Claimed(a) <= 1

-----------------------------------------------------------------------------
(* Lemmas about the operators.                                             *)

\* A snapshot that replaces the pending one is a snapshot (enqueueCall).
LEMMA EnqueuedType ==
    ASSUME outbox \in Pending \cup {None}, NEW r \in Results, NEW a \in Reports \cup {None}
    PROVE  Enqueued(r, a) \in Pending
  BY DEF Enqueued, Pending

\* A sync that leaves its position holds no request and no offer.
LEMMA ToType ==
    ASSUME NEW p \in Positions, NEW some
    PROVE  /\ [Idle EXCEPT !.pc = p] \in [pc : Positions, req : Requests(some) \cup {None},
                                          answer : {"none", "ok", "refused"}, offer : Nat]
           /\ [Idle EXCEPT !.pc = p].offer = 0
  BY DEF Idle, Positions

\* The policy the helper applied is one the server issued, or none.
LEMMA AppliedType ==
    ASSUME PolicyType
    PROVE  Applied \in 0 .. Len(policies)
  BY DEF PolicyType, Applied

\* More logged sub-events leave every request well formed.
LEMMA RequestsGrow ==
    ASSUME NEW some, NEW more, some \subseteq more
    PROVE  Requests(some) \subseteq Requests(more)
  BY DEF Requests, EventsRequest

\* The spool's folder after a hand-off.
LEMMA HandedOffType ==
    ASSUME spool \in Folder
    PROVE  HandedOff \in Folder
  BY DEF HandedOff, Folder, Reports

-----------------------------------------------------------------------------
(* The type invariant.                                                     *)

\* The service starts with no call, no request and no history.
LEMMA TypeInit == Init => TypeInv
  <1> SUFFICES ASSUME Init PROVE TypeInv
    OBVIOUS
  <1>1. SceneType
    BY ScenarioAssumption DEF Init, SceneType, Scenario
  <1>2. AppType
    BY DEF Init, AppType, Folder
  <1>3. PolicyType
    <2>1. scene.audited \in BOOLEAN /\ (scene.audited => 1 <= MaxPolicies) /\ MaxPolicies \in Nat
      BY ScenarioAssumption, CallAssumption DEF Init, Scenario
    <2>2. CASE scene.audited
      <3>1. policies = <<TRUE>> /\ Len(policies) = 1
        BY <2>2 DEF Init
      <3> QED
        BY <2>1, <2>2, <3>1 DEF Init, PolicyType, Idle
    <2>3. CASE ~scene.audited
      <3>1. policies = <<>> /\ Len(policies) = 0
        BY <2>3 DEF Init
      <3> QED
        BY <2>1, <2>3, <3>1 DEF Init, PolicyType, Idle
    <2> QED
      BY <2>2, <2>3
  <1>4. SyncType
    BY DEF Init, SyncType, Idle, Positions
  <1>5. HistoryType
    BY NoneAssumption DEF Init, HistoryType
  <1>6. PushType
    BY DEF Init, PushType
  <1> QED
    BY <1>1, <1>2, <1>3, <1>4, <1>5, <1>6 DEF TypeInv

-----------------------------------------------------------------------------
(* Which actions touch which part of the state.                            *)

\* Only what loses an answer or kills a process counts a fault.
LEMMA SceneFrame ==
    ASSUME Next
    PROVE  scene' = scene /\ (faults' = faults \/ Fault)
  BY DEF Next, appVars, serverVars, CallStarts, CallReleased, ReportWritten, Finalize,
     FinalizeUnknown, FinalizeKnown, AppendCallEvent, BindCall, PublishReport, AudioUploaded,
     StartSync, SyncDevice, ApplyPolicy, ConfirmApplied, SendCalls, AcknowledgeSpool,
     AcknowledgeCalls, CallsRefused, SendEvents, AcknowledgeCallEvents, AnswerLost, AppDies,
     RefreshAuditPolicy, SavePolicy, UploadEvents, UploadCallEvents, DispatchNtfy, ServerDies

\* Three threads of the app touch the call, its outbox entry and its folder.
LEMMA AppFrame ==
    ASSUME Next
    PROVE  \/ UNCHANGED <<phase, outbox, spool, spooler>>
           \/ CallStarts \/ CallReleased \/ ReportWritten \/ FinalizeUnknown \/ FinalizeKnown
           \/ \E t \in {"worker", "sync"} : BindCall(t)
           \/ PublishReport \/ AudioUploaded \/ SendCalls \/ AcknowledgeSpool \/ AcknowledgeCalls
           \/ AppDies
  BY DEF Next, appVars, serverVars, StartSync, SyncDevice, AppendCallEvent, ApplyPolicy,
     ConfirmApplied, CallsRefused, SendEvents, AcknowledgeCallEvents, AnswerLost,
     RefreshAuditPolicy, SavePolicy, UploadEvents, UploadCallEvents, DispatchNtfy, ServerDies

\* The sync, the logging of sub-events and whoever answers touch the requests.
LEMMA SyncFrame ==
    ASSUME Next
    PROVE  \/ UNCHANGED <<sync, late, logged>>
           \/ \E e \in Events : AppendCallEvent(e)
           \/ PublishReport \/ StartSync \/ SyncDevice \/ ApplyPolicy \/ ConfirmApplied
           \/ SendCalls \/ AcknowledgeSpool \/ AcknowledgeCalls \/ CallsRefused
           \/ SendEvents \/ AcknowledgeCallEvents \/ AnswerLost \/ AppDies
           \/ \E m \in late \cup {sync.req} : UploadEvents(m) \/ UploadCallEvents(m)
  BY DEF Next, appVars, serverVars, CallStarts, CallReleased, ReportWritten, Finalize,
     FinalizeUnknown, FinalizeKnown, BindCall, AudioUploaded, RefreshAuditPolicy, SavePolicy,
     DispatchNtfy, ServerDies

\* Versions change where a policy is saved, offered, applied or acknowledged.
LEMMA PolicyFrame ==
    ASSUME Next
    PROVE  \/ UNCHANGED <<policies, bound, policy, acked>>
           \/ CallStarts \/ StartSync \/ SyncDevice \/ ApplyPolicy \/ ConfirmApplied
           \/ AnswerLost \/ RefreshAuditPolicy
           \/ \E enabled \in BOOLEAN : SavePolicy(enabled)
  BY DEF Next, appVars, serverVars, CallReleased, ReportWritten, Finalize, FinalizeUnknown,
     FinalizeKnown, AppendCallEvent, BindCall, PublishReport, AudioUploaded, SendCalls,
     AcknowledgeSpool, AcknowledgeCalls, CallsRefused, SendEvents, AcknowledgeCallEvents, AppDies,
     UploadEvents, UploadCallEvents, DispatchNtfy, ServerDies

\* The call's history on the server changes in the two upload handlers only.
LEMMA HistoryFrame ==
    ASSUME Next
    PROVE  \/ UNCHANGED <<journal, logged, seen, due, row, pushes, alerts>>
           \/ UNCHANGED <<seen, due, row, pushes, alerts>>
                /\ (AcknowledgeCallEvents \/ \E e \in Events : AppendCallEvent(e))
           \/ \E m \in late \cup {sync.req} : UploadEvents(m) \/ UploadCallEvents(m)
           \/ \E a \in Alerts : DispatchNtfy(a)
           \/ ServerDies
  BY DEF Next, appVars, serverVars, CallStarts, CallReleased, ReportWritten, Finalize,
     FinalizeUnknown, FinalizeKnown, AppendCallEvent, BindCall, PublishReport, AudioUploaded,
     StartSync, SyncDevice, ApplyPolicy, ConfirmApplied, SendCalls, AcknowledgeSpool,
     AcknowledgeCalls, CallsRefused, SendEvents, AcknowledgeCallEvents, AnswerLost, AppDies,
     RefreshAuditPolicy, SavePolicy

-----------------------------------------------------------------------------
(* The parts of the type invariant, one after the other.                   *)

\* No step takes more faults than the scenario allows.
LEMMA SceneNext ==
    ASSUME SceneType, Next
    PROVE  SceneType'
  BY SceneFrame DEF SceneType, Scenario, Fault

\* Every step of the app leaves a snapshot and a folder well formed.
LEMMA AppNext ==
    ASSUME AppType, Next
    PROVE  AppType'
  <1> USE DEF AppType
  <1>1. CASE UNCHANGED <<phase, outbox, spool, spooler>>
    BY <1>1
  <1>2. CASE CallStarts
    BY <1>2, EnqueuedType DEF CallStarts, Folder, Results
  <1>3. CASE CallReleased
    BY <1>3 DEF CallReleased
  <1>4. CASE ReportWritten
    BY <1>4 DEF ReportWritten, Folder
  <1>5. CASE FinalizeUnknown \/ FinalizeKnown
    BY <1>5, EnqueuedType DEF FinalizeUnknown, FinalizeKnown, Finalize, Results
  <1>6. ASSUME NEW t \in {"worker", "sync"}, BindCall(t) PROVE AppType'
    BY <1>6 DEF BindCall, Folder, Pending
  <1>7. CASE PublishReport
    <2>1. spool' \in Folder /\ phase' = phase /\ spooler' = None
      BY <1>7, HandedOffType DEF PublishReport
    <2>2. outbox' \in Pending \cup {None}
      <3>1. CASE outbox' = outbox
        BY <3>1
      <3>2. CASE outbox' = Enqueued(PublishedResult, HandedOff.report) /\ spool.meta # None
        <4>1. PublishedResult \in Results /\ HandedOff.report \in Reports \cup {None}
          BY <3>2, HandedOffType DEF PublishedResult, Folder
        <4> QED
          BY <3>2, <4>1, EnqueuedType
      <3> QED
        BY <1>7, <3>1, <3>2 DEF PublishReport
    <2> QED
      BY <2>1, <2>2
  <1>8. CASE AudioUploaded
    BY <1>8 DEF AudioUploaded, Folder
  <1>9. CASE SendCalls
    BY <1>9 DEF SendCalls, To, Pending
  <1>10. CASE AcknowledgeSpool
    BY <1>10 DEF AcknowledgeSpool, Folder
  <1>11. CASE AcknowledgeCalls
    BY <1>11 DEF AcknowledgeCalls, AfterAcknowledgement
  <1>12. CASE AppDies
    BY <1>12 DEF AppDies
  <1> QED
    BY <1>1, <1>2, <1>3, <1>4, <1>5, <1>6, <1>7, <1>8, <1>9, <1>10, <1>11, <1>12, AppFrame

\* Whatever the sync waits for, and whatever it gave up on, is a request that
\* the server can read; an offer is the newest policy.
LEMMA SyncNext ==
    ASSUME AppType, HistoryType, SyncType, policies \in Seq(BOOLEAN), Next
    PROVE  SyncType' /\ sync'.offer \in {sync.offer, 0, Len(policies)}
  <1> DEFINE Waits(some) == [pc : Positions, req : Requests(some) \cup {None},
                             answer : {"none", "ok", "refused"}, offer : Nat]
             Goal == SyncType' /\ sync'.offer \in {sync.offer, 0, Len(policies)}
  <1>0. sync \in Waits(logged) /\ late \subseteq Requests(logged)
    BY DEF SyncType
  <1>a. ASSUME logged' = logged, late' \subseteq Requests(logged),
               NEW p \in Positions, sync' = [Idle EXCEPT !.pc = p]
        PROVE  Goal
    BY <1>a, ToType DEF SyncType
  <1>b. ASSUME logged' = logged, late' \subseteq Requests(logged),
               sync' \in Waits(logged), sync'.offer \in {sync.offer, 0, Len(policies)}
        PROVE  Goal
    BY <1>b DEF SyncType
  <1>c. Abandoned \subseteq Requests(logged)
    BY <1>0 DEF Abandoned
  <1>1. CASE UNCHANGED <<sync, late, logged>>
    BY <1>0, <1>1, <1>b
  <1>2. ASSUME NEW e \in Events, AppendCallEvent(e) PROVE Goal
    <2>1. sync' = sync /\ late' = late /\ logged \subseteq logged'
      BY <1>2 DEF AppendCallEvent
    <2>2. Requests(logged) \subseteq Requests(logged')
      BY <2>1, RequestsGrow
    <2>3. sync' \in Waits(logged') /\ late' \subseteq Requests(logged')
      BY <1>0, <2>1, <2>2
    <2> QED
      BY <2>1, <2>3 DEF SyncType
  <1>3. CASE PublishReport
    <2>1. logged' = logged /\ late' = late /\ sync' \in {sync, [sync EXCEPT !.pc = "calls"]}
      BY <1>3 DEF PublishReport
    <2> QED
      BY <1>0, <1>b, <2>1 DEF Positions
  <1>4. CASE StartSync \/ ApplyPolicy \/ ConfirmApplied \/ AcknowledgeCalls \/ CallsRefused
    <2>1. \E p \in Positions : sync' = [Idle EXCEPT !.pc = p]
      BY <1>4 DEF StartSync, ApplyPolicy, ConfirmApplied, AcknowledgeCalls, CallsRefused, To, Positions
    <2>2. late' = late /\ logged' = logged
      BY <1>4 DEF StartSync, ApplyPolicy, ConfirmApplied, AcknowledgeCalls, CallsRefused, appVars
    <2> QED
      BY <1>0, <1>a, <2>1, <2>2
  <1>5. CASE SyncDevice
    <2>1. sync' = [Idle EXCEPT !.pc = "apply", !.offer = Len(policies)] /\ late' = late /\ logged' = logged
      BY <1>5 DEF SyncDevice, appVars
    <2>2. Len(policies) \in Nat
      OBVIOUS
    <2>3. sync' \in Waits(logged) /\ sync'.offer = Len(policies)
      BY <2>1, <2>2 DEF Idle, Positions
    <2> QED
      BY <1>0, <1>b, <2>1, <2>3
  <1>6. CASE SendCalls
    <2>0. late' = late /\ logged' = logged
      BY <1>6 DEF SendCalls
    <2>1. CASE outbox # None /\ HasBinding
      <3>1. /\ outbox' = [outbox EXCEPT !.sent = TRUE]
            /\ sync' = [Idle EXCEPT !.pc = "calls_sent", !.req = [kind |-> "calls", call |-> outbox']]
        BY <1>6, <2>1 DEF SendCalls
      <3>2. outbox' \in Pending
        BY <2>1, <3>1 DEF AppType, Pending
      <3>3. [kind |-> "calls", call |-> outbox'] \in Requests(logged)
        BY <3>2 DEF Requests, CallsRequest
      <3> HIDE DEF Waits
      <3>4. sync' \in Waits(logged) /\ sync'.offer = 0
        BY <3>1, <3>3 DEF Idle, Positions, Waits
      <3> QED
        BY <1>0, <1>b, <2>0, <3>4
    <2>2. CASE ~(outbox # None /\ HasBinding)
      BY <1>0, <1>6, <1>a, <2>0, <2>2 DEF SendCalls, To, Positions
    <2> QED
      BY <2>1, <2>2
  <1>7. CASE AcknowledgeSpool
    <2>1. sync' = [sync EXCEPT !.pc = "calls_acked"] /\ late' = late /\ logged' = logged
      BY <1>7 DEF AcknowledgeSpool
    <2> QED
      BY <1>0, <1>b, <2>1 DEF Positions
  <1>8. CASE SendEvents
    <2>0. late' = late /\ logged' = logged
      BY <1>8 DEF SendEvents, appVars
    <2>1. CASE journal = {}
      <3>1. sync' = [Idle EXCEPT !.pc = "idle"]
        BY <1>8, <2>1 DEF SendEvents, Idle
      <3> QED
        BY <1>0, <1>a, <2>0, <3>1 DEF Positions
    <2>2. CASE journal # {}
      <3>1. sync' = [Idle EXCEPT !.pc = "events_sent", !.req = [kind |-> "events", events |-> journal]]
        BY <1>8, <2>2 DEF SendEvents
      <3>2. [kind |-> "events", events |-> journal] \in Requests(logged)
        BY DEF Requests, EventsRequest, HistoryType
      <3>3. sync' \in Waits(logged) /\ sync'.offer = 0
        BY <3>1, <3>2 DEF Idle, Positions
      <3> QED
        BY <1>0, <1>b, <2>0, <3>3
    <2> QED
      BY <2>1, <2>2
  <1>9. CASE AcknowledgeCallEvents
    <2>1. sync' = [Idle EXCEPT !.pc = "idle"] /\ late' = late /\ logged' = logged
      BY <1>9 DEF AcknowledgeCallEvents, Idle
    <2> QED
      BY <1>0, <1>a, <2>1 DEF Positions
  <1>10. CASE AnswerLost
    <2>1. /\ logged' = logged /\ late' = Abandoned
          /\ \E p \in Positions : sync' = [Idle EXCEPT !.pc = p]
      BY <1>10 DEF AnswerLost, appVars, To, Positions
    <2> QED
      BY <1>a, <1>c, <2>1
  <1>11. CASE AppDies
    <2>1. logged' = logged /\ late' = Abandoned /\ sync' = [Idle EXCEPT !.pc = "idle"]
      BY <1>11 DEF AppDies, Idle
    <2> QED
      BY <1>a, <1>c, <2>1 DEF Positions
  <1>12. ASSUME NEW m \in late \cup {sync.req}, UploadEvents(m) \/ UploadCallEvents(m) PROVE Goal
    <2>1. /\ logged' = logged
          /\ \/ late' \subseteq late /\ sync' = sync
             \/ late' = late /\ \E a \in {"none", "ok", "refused"} : sync' = [sync EXCEPT !.answer = a]
      BY <1>12 DEF UploadEvents, UploadCallEvents, Serve, appVars
    <2> QED
      BY <1>0, <1>b, <2>1
  <1> QED
    BY <1>1, <1>2, <1>3, <1>4, <1>5, <1>6, <1>7, <1>8, <1>9, <1>10, <1>11, <1>12, SyncFrame

\* Every version that is named was issued, also after the next one is.
LEMMA PolicyNext ==
    ASSUME SceneType, PolicyType, SyncType, Next, sync'.offer \in {sync.offer, 0, Len(policies)}
    PROVE  PolicyType'
  <1> USE DEF PolicyType
  <1>0. Len(policies) \in Nat /\ Applied \in 0 .. Len(policies)
    BY AppliedType
  <1>a. ASSUME UNCHANGED policies,
               bound' \in 0 .. Len(policies),
               policy' \in [verified : 0 .. Len(policies), prior : 0 .. Len(policies),
                            wish : 0 .. Len(policies), state : 0 .. Len(policies)],
               acked' \subseteq 1 .. Len(policies)
        PROVE  PolicyType'
    <2>1. sync'.offer \in 0 .. Len(policies)
      BY <1>0
    <2>2. Len(policies') = Len(policies)
      BY <1>a
    <2>3. policies' \in Seq(BOOLEAN) /\ Len(policies') <= MaxPolicies
      BY <1>a
    <2> QED
      BY ONLY <1>a, <2>1, <2>2, <2>3 DEF PolicyType
  <1>1. CASE UNCHANGED <<policies, bound, policy, acked>>
    BY <1>1, <1>a
  <1>2. CASE CallStarts
    BY <1>0, <1>2, <1>a DEF CallStarts, serverVars
  <1>3. CASE StartSync
    <2>1. /\ policies' = policies /\ bound' = bound /\ acked' = acked
          /\ policy' = [policy EXCEPT !.wish = policy.verified]
      BY <1>3 DEF StartSync, serverVars
    <2> QED
      BY <1>a, <2>1
  <1>b. ASSUME Acknowledge PROVE acked' \subseteq 1 .. Len(policies)
    BY <1>0, <1>b DEF Acknowledge
  <1>4. CASE SyncDevice \/ ConfirmApplied \/ AnswerLost
    <2>1. /\ policies' = policies /\ bound' = bound /\ policy' = policy
          /\ acked' = acked \/ Acknowledge
      BY <1>4 DEF SyncDevice, ConfirmApplied, AnswerLost, appVars
    <2> QED
      BY <1>a, <1>b, <2>1
  <1>5. CASE ApplyPolicy
    <2>1. policies' = policies /\ bound' = bound /\ acked' = acked
      BY <1>5 DEF ApplyPolicy, serverVars
    <2>2. \/ policy' = policy
          \/ \E p \in {policy.verified, policy.prior} :
                policy' = [policy EXCEPT !.prior = p, !.verified = sync.offer, !.wish = sync.offer]
      BY <1>5 DEF ApplyPolicy
    <2> QED
      BY <1>a, <2>1, <2>2
  <1>6. CASE RefreshAuditPolicy
    <2>1. /\ policies' = policies /\ bound' = bound /\ acked' = acked
          /\ policy' = [policy EXCEPT !.state = policy.wish]
      BY <1>6 DEF RefreshAuditPolicy, serverVars
    <2> QED
      BY <1>a, <2>1
  <1>7. ASSUME NEW enabled \in BOOLEAN, SavePolicy(enabled) PROVE PolicyType'
    <2>1. /\ policies' = Append(policies, enabled) /\ Len(policies) < scene.policies
          /\ bound' = bound /\ policy' = policy /\ acked' = acked /\ sync' = sync
      BY <1>7 DEF SavePolicy, appVars
    <2>2. policies' \in Seq(BOOLEAN) /\ Len(policies') = Len(policies) + 1
      BY <2>1
    <2>3. Len(policies') <= MaxPolicies
      BY <1>0, <2>1, <2>2, CallAssumption DEF SceneType, Scenario
    <2>4. \A v \in 0 .. Len(policies) : v \in 0 .. Len(policies')
      BY <1>0, <2>2
    <2>5. \A v \in 1 .. Len(policies) : v \in 1 .. Len(policies')
      BY <1>0, <2>2
    <2>6. acked' \subseteq 1 .. Len(policies')
      BY <2>1, <2>5
    <2> QED
      BY <2>1, <2>2, <2>3, <2>4, <2>6
  <1> HIDE DEF PolicyType
  <1> QED
    BY <1>1, <1>2, <1>3, <1>4, <1>5, <1>6, <1>7, PolicyFrame

-----------------------------------------------------------------------------
(* The call's history and its alerts.                                      *)

\* What the two upload handlers do with a request: nothing, or the merged row
\* is committed with the receipts that are due (upload_events,
\* upload_call_events).
LEMMA UploadedCall ==
    ASSUME SyncType, HistoryType, NEW m \in late \cup {sync.req}, UploadEvents(m)
    PROVE  /\ UNCHANGED <<journal, logged, seen, alerts>>
           /\ \/ UNCHANGED <<row, due, pushes>>
              \/ m.call \in Pending /\ Commit(Merged(m.call), due)
  <1>1. m \in CallsRequest
    BY DEF SyncType, UploadEvents, Requests, EventsRequest
  <1>2. m.call \in Pending
    BY <1>1 DEF CallsRequest
  <1> QED
    BY <1>2 DEF UploadEvents, appVars

\* A batch of sub-events: receipts for the new ones, and a commit beside a row.
LEMMA UploadedEvents ==
    ASSUME SyncType, NEW m \in late \cup {sync.req}, UploadCallEvents(m)
    PROVE  /\ UNCHANGED <<journal, logged, alerts>>
           /\ m.events \subseteq logged
           /\ seen' = seen \cup m.events
           /\ \/ row = None /\ UNCHANGED <<row, pushes>> /\ due' = due \cup (m.events \ seen)
              \/ row # None /\ Commit(row, due \cup (m.events \ seen))
  <1>1. m \in EventsRequest(logged)
    BY DEF SyncType, UploadCallEvents, Requests, CallsRequest
  <1>2. m.events \subseteq logged
    BY <1>1 DEF EventsRequest
  <1> QED
    BY <1>2 DEF UploadCallEvents, Received, appVars

\* A merge keeps a proven outcome and an audit report, and never returns to a
\* call in progress.
LEMMA MergedKeeps ==
    ASSUME HistoryType, NEW call \in Pending
    PROVE  /\ Merged(call) \in CallRow
           /\ row = None => ~Merged(call).told
           /\ row # None =>
                /\ Merged(call).told = row.told
                /\ row.told => Merged(call).result = row.result
                /\ row.result # "IN_PROGRESS" => Merged(call).result # "IN_PROGRESS"
                /\ row.audit # None => Merged(call).audit = row.audit
  <1>1. CASE row = None
    BY <1>1 DEF Merged, CallRow, Pending
  <1>2. CASE row # None
    <2>1. row \in CallRow /\ row.told \in BOOLEAN
      BY <1>2 DEF HistoryType, CallRow
    <2>2. MergedResult(call) \in Results
      BY <2>1 DEF MergedResult, CallRow, Pending
    <2> DEFINE aud == IF row.audit = None THEN call.audit ELSE row.audit
               res == MergedResult(call)
    <2>3. aud \in Reports \cup {None}
      BY <2>1 DEF CallRow, Pending
    <2>4. row.audit # None => aud = row.audit
      OBVIOUS
    <2>5. /\ row.told => res = row.result
          /\ row.result # "IN_PROGRESS" => res # "IN_PROGRESS"
      BY <1>2 DEF HistoryType, MergedResult, Unproven
    <2> HIDE DEF aud, res
    <2>6. Merged(call) = [row EXCEPT !.result = res, !.audit = aud]
      BY <1>2 DEF Merged, res, aud
    <2>7. res \in Results
      BY <2>2 DEF res
    <2>8. /\ Merged(call) \in CallRow /\ Merged(call).result = res /\ Merged(call).audit = aud
          /\ Merged(call).told = row.told
      BY <2>1, <2>3, <2>6, <2>7 DEF CallRow
    <2> QED
      BY <1>2, <2>4, <2>5, <2>8
  <1> QED
    BY <1>1, <1>2

\* A commit claims nothing for an unproven call; for a proven one it claims
\* the call's alert unless it was told, and what is due, and then nothing is.
LEMMA Commits ==
    ASSUME NEW r \in CallRow, r.told => r.result \notin Unproven, NEW fresh, Commit(r, fresh)
    PROVE  /\ row' \in CallRow /\ row'.result = r.result /\ row'.audit = r.audit
           /\ row'.told <=> row'.result \notin Unproven
           /\ \/ /\ r.result \in Unproven /\ due' = fresh
                 /\ pushes' = [a \in Alerts |-> pushes[a] + 0]
              \/ /\ r.result \notin Unproven /\ due' = {}
                 /\ pushes' = [a \in Alerts |->
                       pushes[a] + IF (a = "ended" /\ ~r.told) \/ a \in fresh \cap Failures THEN 1 ELSE 0]
  <1>1. CASE r.result \in Unproven
    <2>1. ClaimNotifications(r, fresh) = [row |-> r, due |-> fresh, alerts |-> {}]
      BY <1>1 DEF ClaimNotifications
    <2>2. row' = r /\ due' = fresh /\ pushes' = [a \in Alerts |-> pushes[a] + IF a \in {} THEN 1 ELSE 0]
      BY <2>1 DEF Commit
    <2>3. pushes' = [a \in Alerts |-> pushes[a] + 0]
      BY <2>2
    <2> QED
      BY <1>1, <2>2, <2>3
  <1>2. CASE r.result \notin Unproven
    <2> DEFINE claims == (IF r.told THEN {} ELSE {"ended"}) \cup (fresh \cap Failures)
    <2>1. ClaimNotifications(r, fresh) = [row |-> [r EXCEPT !.told = TRUE], due |-> {}, alerts |-> claims]
      BY <1>2 DEF ClaimNotifications
    <2>2. \A a : a \in claims <=> (a = "ended" /\ ~r.told) \/ a \in fresh \cap Failures
      OBVIOUS
    <2> HIDE DEF claims
    <2>3. /\ row' = [r EXCEPT !.told = TRUE] /\ due' = {}
          /\ pushes' = [a \in Alerts |-> pushes[a] + IF a \in claims THEN 1 ELSE 0]
      BY <2>1 DEF Commit
    <2>4. pushes' = [a \in Alerts |->
                       pushes[a] + IF (a = "ended" /\ ~r.told) \/ a \in fresh \cap Failures THEN 1 ELSE 0]
      BY <2>2, <2>3
    <2>5. /\ row' \in CallRow /\ row'.result = r.result /\ row'.audit = r.audit /\ row'.told
      BY <2>3 DEF CallRow
    <2> QED
      BY <1>2, <2>3, <2>4, <2>5
  <1> QED
    BY <1>1, <1>2

\* The rows on the server keep their shape; an alert is due only for an event
\* that was received.
LEMMA HistoryNext ==
    ASSUME SyncType, HistoryType, Next
    PROVE  HistoryType'
  <1> USE DEF HistoryType
  <1>1. CASE UNCHANGED <<journal, logged, seen, due, row, pushes, alerts>>
    BY <1>1
  <1>2. CASE UNCHANGED <<seen, due, row, pushes, alerts>> /\ AcknowledgeCallEvents
    BY <1>2 DEF AcknowledgeCallEvents
  <1>3. ASSUME NEW e \in Events, AppendCallEvent(e), UNCHANGED <<seen, due, row, pushes, alerts>>
        PROVE  HistoryType'
    BY <1>3 DEF AppendCallEvent
  <1>4. ASSUME NEW m \in late \cup {sync.req}, UploadEvents(m) PROVE HistoryType'
    <2>1. CASE UNCHANGED <<row, due, pushes>>
      BY <1>4, <2>1, UploadedCall
    <2>2. CASE m.call \in Pending /\ Commit(Merged(m.call), due)
      <3>1. /\ Merged(m.call) \in CallRow
            /\ Merged(m.call).told => Merged(m.call).result \notin Unproven
        BY <2>2, MergedKeeps
      <3>2. /\ row' \in CallRow /\ (row'.told <=> row'.result \notin Unproven)
            /\ due' \subseteq due
        BY <2>2, <3>1, Commits
      <3> QED
        BY <1>4, <3>2, UploadedCall
    <2> QED
      BY <1>4, <2>1, <2>2, UploadedCall
  <1>5. ASSUME NEW m \in late \cup {sync.req}, UploadCallEvents(m) PROVE HistoryType'
    <2> DEFINE fresh == due \cup (m.events \ seen)
    <2>1. /\ UNCHANGED <<journal, logged>> /\ m.events \subseteq logged /\ seen' = seen \cup m.events
      BY <1>5, UploadedEvents
    <2>2. CASE row = None /\ UNCHANGED <<row, pushes>> /\ due' = fresh
      BY <2>1, <2>2
    <2>3. CASE row # None /\ Commit(row, fresh)
      <3>1. /\ row' \in CallRow /\ (row'.told <=> row'.result \notin Unproven)
            /\ due' \subseteq fresh
        BY <2>3, Commits
      <3> QED
        BY <2>1, <3>1
    <2> QED
      BY <1>5, <2>2, <2>3, UploadedEvents
  <1>6. ASSUME NEW a \in Alerts, DispatchNtfy(a) PROVE HistoryType'
    BY <1>6 DEF DispatchNtfy, appVars
  <1>7. CASE ServerDies
    BY <1>7 DEF ServerDies, appVars
  <1> QED
    BY <1>1, <1>2, <1>3, <1>4, <1>5, <1>6, <1>7, HistoryFrame

\* Scheduled and sent alerts stay counts.
LEMMA PushNext ==
    ASSUME SyncType, HistoryType, PushType, Next
    PROVE  PushType'
  <1> USE DEF PushType
  <1>1. CASE UNCHANGED <<pushes, alerts>>
    BY <1>1
  <1>2. ASSUME NEW m \in late \cup {sync.req}, UploadEvents(m) \/ UploadCallEvents(m) PROVE PushType'
    <2>1. alerts' = alerts
      BY <1>2, UploadedCall, UploadedEvents
    <2>2. CASE pushes' = pushes
      BY <2>1, <2>2
    <2>3. ASSUME NEW r, NEW fresh, Commit(r, fresh) PROVE pushes' \in [Alerts -> Nat]
      BY <2>3 DEF Commit
    <2> QED
      BY <1>2, <2>1, <2>2, <2>3, UploadedCall, UploadedEvents
  <1>3. ASSUME NEW a \in Alerts, DispatchNtfy(a) PROVE PushType'
    BY <1>3 DEF DispatchNtfy
  <1>4. CASE ServerDies
    BY <1>4 DEF ServerDies
  <1> QED
    BY <1>1, <1>2, <1>3, <1>4, HistoryFrame

\* Every step keeps the type invariant.
LEMMA TypeNext == TypeInv /\ [Next]_vars => TypeInv'
  <1> SUFFICES ASSUME TypeInv, [Next]_vars PROVE TypeInv'
    OBVIOUS
  <1> USE DEF TypeInv
  <1>1. CASE Next
    <2>1. SyncType' /\ sync'.offer \in {sync.offer, 0, Len(policies)}
      BY <1>1, SyncNext DEF PolicyType
    <2> QED
      BY <1>1, <2>1, SceneNext, AppNext, PolicyNext, HistoryNext, PushNext
  <1>2. CASE UNCHANGED vars
    BY <1>2 DEF vars, appVars, serverVars, SceneType, AppType, PolicyType, SyncType, HistoryType,
       PushType
  <1> QED
    BY <1>1, <1>2

\* The type invariant of the run follows.
LEMMA TypeImplied == TypeInv => TypeOK
  BY CallAssumption DEF TypeInv, TypeOK, SceneType, AppType, PolicyType, HistoryType, Pending,
     Folder, CallRow, Versions

\* TypeOK holds in every reachable state: the versions the app and the device
\* name were issued, an alert is due only for an event with a receipt, and an
\* unproven call has claimed nothing (call_history.py, SyncCoordinator).
THEOREM TypeCorrect == Spec => []TypeOK
  <1>1. Spec => []TypeInv
    BY TypeInit, TypeNext, PTL DEF Spec
  <1> QED
    BY <1>1, TypeImplied, PTL

-----------------------------------------------------------------------------
(* Alerts are claimed once.                                                *)

\* Nothing is claimed when the service starts.
LEMMA ClaimInit == Init => ClaimInv
  BY DEF Init, ClaimInv, Unclaimed, Claimed, Alerts

\* A commit claims an alert only if nobody did.
LEMMA CommitClaims ==
    ASSUME PushType, HistoryType, ClaimInv,
           NEW r \in CallRow, NEW fresh, Commit(r, fresh), alerts' = alerts,
           r.told => r.result \notin Unproven,
           row # None => r.told = row.told, row = None => ~r.told,
           fresh \subseteq seen',
           \A f \in Failures : f \in fresh \/ f \notin seen' => Claimed(f) = 0
    PROVE  ClaimInv'
  <1>0. Failures \subseteq Alerts
    BY DEF Alerts
  <1>1. /\ row' \in CallRow /\ row'.result = r.result
        /\ \/ /\ r.result \in Unproven /\ due' = fresh
              /\ pushes' = [a \in Alerts |-> pushes[a] + 0]
           \/ /\ r.result \notin Unproven /\ due' = {}
              /\ pushes' = [a \in Alerts |->
                    pushes[a] + IF (a = "ended" /\ ~r.told) \/ a \in fresh \cap Failures THEN 1 ELSE 0]
    BY Commits
  <1>2. row' # None
    BY <1>1, NoneAssumption
  <1>3. \A a \in Alerts : pushes[a] \in Nat /\ alerts[a] \in Nat
    BY DEF PushType
  <1>4. ~r.told => Claimed("ended") = 0
    BY DEF ClaimInv, Unclaimed, HistoryType, Alerts
  <1>5. CASE r.result \in Unproven
    <2>1. ~r.told /\ (row = None \/ row.result \in Unproven)
      BY <1>5 DEF HistoryType
    <2>2. \A a \in Alerts : Claimed(a) = 0
      BY <2>1 DEF ClaimInv, Unclaimed
    <2>3. \A a \in Alerts : pushes'[a] + alerts'[a] = 0
      BY <1>1, <1>3, <1>5, <2>2 DEF Claimed
    <2> QED
      BY <1>0, <2>3 DEF ClaimInv, Unclaimed, Claimed
  <1>6. CASE r.result \notin Unproven
    <2>1. due' = {} /\ \A a \in Alerts : pushes'[a] =
                    pushes[a] + IF (a = "ended" /\ ~r.told) \/ a \in fresh \cap Failures THEN 1 ELSE 0
      BY <1>1, <1>6
    <2>2. \A a \in Alerts : Claimed(a) <= 1
      BY DEF ClaimInv
    <2>3. \A a \in Alerts : (a = "ended" /\ ~r.told) \/ a \in fresh \cap Failures => Claimed(a) = 0
      BY <1>4
    <2>4. \A a \in Alerts : pushes'[a] + alerts'[a] <= 1
      BY <1>3, <2>1, <2>2, <2>3 DEF Claimed
    <2>5. \A f \in Failures : f \notin seen' \/ f \in due' => pushes'[f] + alerts'[f] = 0
      <3> SUFFICES ASSUME NEW f \in Failures, f \notin seen' PROVE pushes'[f] + alerts'[f] = 0
        BY <2>1
      <3>1. f \in Alerts /\ f # "ended" /\ f \notin fresh /\ Claimed(f) = 0
        BY CallAssumption DEF Alerts
      <3> QED
        BY <1>3, <2>1, <3>1 DEF Claimed
    <2> QED
      BY <1>1, <1>2, <1>6, <2>4, <2>5 DEF ClaimInv, Unclaimed, Claimed
  <1> QED
    BY <1>5, <1>6

\* Every step keeps the claims.
LEMMA ClaimNext == TypeInv /\ ClaimInv /\ [Next]_vars => ClaimInv'
  <1> SUFFICES ASSUME TypeInv, ClaimInv, [Next]_vars PROVE ClaimInv'
    OBVIOUS
  <1>0. SyncType /\ HistoryType /\ PushType
    BY DEF TypeInv
  <1>1. CASE UNCHANGED <<seen, due, row, pushes, alerts>>
    BY <1>1 DEF ClaimInv, Unclaimed, Claimed
  <1>2. ASSUME NEW m \in late \cup {sync.req}, UploadEvents(m) PROVE ClaimInv'
    <2>1. CASE UNCHANGED <<row, due, pushes>>
      BY <1>0, <1>1, <1>2, <2>1, UploadedCall
    <2>2. CASE m.call \in Pending /\ Commit(Merged(m.call), due)
      <3>1. seen' = seen /\ alerts' = alerts
        BY <1>0, <1>2, UploadedCall
      <3>2. /\ Merged(m.call) \in CallRow
            /\ Merged(m.call).told => Merged(m.call).result \notin Unproven
            /\ row # None => Merged(m.call).told = row.told
            /\ row = None => ~Merged(m.call).told
        BY <1>0, <2>2, MergedKeeps DEF HistoryType
      <3>3. due' \subseteq due
        BY <2>2, <3>2, Commits
      <3>4. \A f \in Failures : f \notin seen \/ f \in due => Claimed(f) = 0
        BY DEF ClaimInv, Unclaimed
      <3>5. due \subseteq seen
        BY <1>0 DEF HistoryType
      <3> QED
        BY <1>0, <2>2, <3>1, <3>2, <3>3, <3>4, <3>5, CommitClaims
    <2> QED
      BY <1>0, <1>2, <2>1, <2>2, UploadedCall
  <1>3. ASSUME NEW m \in late \cup {sync.req}, UploadCallEvents(m) PROVE ClaimInv'
    <2> DEFINE fresh == due \cup (m.events \ seen)
    <2>1. alerts' = alerts /\ seen' = seen \cup m.events
      BY <1>0, <1>3, UploadedEvents
    <2>2. \A f \in Failures : f \notin seen \/ f \in due => Claimed(f) = 0
      BY DEF ClaimInv, Unclaimed
    <2>3. \A f \in Failures : f \in fresh => Claimed(f) = 0
      BY <2>2
    <2>4. CASE row = None /\ UNCHANGED <<row, pushes>> /\ due' = fresh
      BY <2>1, <2>2, <2>4 DEF ClaimInv, Unclaimed, Claimed
    <2>5. CASE row # None /\ Commit(row, fresh)
      <3>1. /\ row \in CallRow /\ (row.told => row.result \notin Unproven)
            /\ due \subseteq seen
        BY <1>0, <2>5 DEF HistoryType
      <3>2. due' \subseteq fresh /\ fresh \subseteq seen'
        BY <2>1, <2>5, <3>1, Commits
      <3> QED
        BY <1>0, <2>1, <2>2, <2>3, <2>5, <3>1, <3>2, CommitClaims
    <2> QED
      BY <1>0, <1>3, <2>4, <2>5, UploadedEvents
  <1>4. ASSUME NEW a \in Alerts, DispatchNtfy(a) PROVE ClaimInv'
    <2>1. /\ UNCHANGED <<row, seen, due>> /\ pushes[a] > 0
          /\ pushes' = [pushes EXCEPT ![a] = @ - 1] /\ alerts' = [alerts EXCEPT ![a] = @ + 1]
      BY <1>4 DEF DispatchNtfy
    <2>2. \A b \in Alerts : pushes'[b] + alerts'[b] = pushes[b] + alerts[b]
      BY <1>0, <2>1 DEF PushType
    <2>3. Failures \subseteq Alerts
      BY DEF Alerts
    <2> QED
      BY <2>1, <2>2, <2>3 DEF ClaimInv, Unclaimed, Claimed
  <1>5. CASE ServerDies
    <2>1. UNCHANGED <<row, seen, due, alerts>> /\ pushes' = [a \in Alerts |-> 0]
      BY <1>5 DEF ServerDies
    <2>2. \A b \in Alerts : pushes'[b] + alerts'[b] <= pushes[b] + alerts[b] /\ pushes'[b] + alerts'[b] \in Nat
                              /\ pushes[b] + alerts[b] \in Nat
      BY <1>0, <2>1 DEF PushType
    <2>3. Failures \subseteq Alerts
      BY DEF Alerts
    <2> QED
      BY <2>1, <2>2, <2>3 DEF ClaimInv, Unclaimed, Claimed
  <1>6. CASE UNCHANGED vars
    BY <1>1, <1>6 DEF vars, serverVars
  <1> QED
    BY <1>1, <1>2, <1>3, <1>4, <1>5, <1>6, HistoryFrame

\* However requests are retried, delayed, duplicated or reordered and whoever
\* dies, an alert is scheduled or sent at most once and never before the
\* outcome is known (claim_notifications).
THEOREM AlertsOnce == Spec => []AlertedOnce
  <1>1. TypeInv /\ ClaimInv => AlertedOnce
    BY DEF TypeInv, PushType, ClaimInv, Unclaimed, Claimed, AlertedOnce
  <1> QED
    BY <1>1, TypeInit, TypeNext, ClaimInit, ClaimNext, PTL DEF Spec

-----------------------------------------------------------------------------
(* History never goes back.                                                *)

\* What a step may not do to the row and the receipts.
HistoryKept ==
    /\ row # None => row' # None
    /\ row # None /\ row.result \notin Unproven => row'.result = row.result
    /\ row # None /\ row.result # "IN_PROGRESS" => row'.result # "IN_PROGRESS"
    /\ row # None /\ row.audit # None => row'.audit = row.audit
    /\ seen \subseteq seen'

\* Every step keeps a proven outcome, an audit report and every receipt.
LEMMA KeptNext == TypeInv /\ [Next]_vars => HistoryKept
  <1> SUFFICES ASSUME TypeInv, [Next]_vars PROVE HistoryKept
    OBVIOUS
  <1>0. SyncType /\ HistoryType
    BY DEF TypeInv
  <1>1. CASE UNCHANGED <<row, seen>>
    BY <1>1 DEF HistoryKept
  <1>2. ASSUME NEW m \in late \cup {sync.req}, UploadEvents(m) PROVE HistoryKept
    <2>1. CASE UNCHANGED <<row, due, pushes>>
      BY <1>0, <1>1, <1>2, <2>1, UploadedCall
    <2>2. CASE m.call \in Pending /\ Commit(Merged(m.call), due)
      <3>1. seen' = seen
        BY <1>0, <1>2, UploadedCall
      <3>2. /\ Merged(m.call) \in CallRow
            /\ Merged(m.call).told => Merged(m.call).result \notin Unproven
        BY <1>0, <2>2, MergedKeeps DEF HistoryType
      <3>3. /\ row' \in CallRow /\ row'.result = Merged(m.call).result
            /\ row'.audit = Merged(m.call).audit
        BY <2>2, <3>2, Commits
      <3>4. row' # None
        BY <3>3, NoneAssumption
      <3> QED
        BY <1>0, <2>2, <3>1, <3>3, <3>4, MergedKeeps DEF HistoryKept, HistoryType
    <2> QED
      BY <1>0, <1>2, <2>1, <2>2, UploadedCall
  <1>3. ASSUME NEW m \in late \cup {sync.req}, UploadCallEvents(m) PROVE HistoryKept
    <2>1. seen \subseteq seen'
      BY <1>0, <1>3, UploadedEvents
    <2>2. CASE row = None
      BY <2>1, <2>2 DEF HistoryKept
    <2>3. CASE row # None /\ Commit(row, due \cup (m.events \ seen))
      <3>1. row \in CallRow /\ (row.told => row.result \notin Unproven)
        BY <1>0, <2>3 DEF HistoryType
      <3>2. row' \in CallRow /\ row'.result = row.result /\ row'.audit = row.audit
        BY <2>3, <3>1, Commits
      <3>3. row' # None
        BY <3>2, NoneAssumption
      <3> QED
        BY <2>1, <3>2, <3>3 DEF HistoryKept
    <2> QED
      BY <1>0, <1>3, <2>2, <2>3, UploadedEvents
  <1>4. CASE ServerDies \/ \E a \in Alerts : DispatchNtfy(a)
    BY <1>1, <1>4 DEF ServerDies, DispatchNtfy
  <1>5. CASE UNCHANGED vars
    BY <1>1, <1>5 DEF vars, serverVars
  <1> QED
    BY <1>1, <1>2, <1>3, <1>4, <1>5, HistoryFrame

\* A proven outcome, an audit report and a receipt stay as they are, also when
\* an older snapshot is handled after a newer one (upload_events).
THEOREM OutcomeStays == Spec => OutcomeKept
  <1>1. TypeInv /\ [Next]_vars => [HistoryKept]_vars
    BY KeptNext
  <1>2. Spec => [][HistoryKept]_vars
    BY <1>1, TypeInit, TypeNext, PTL DEF Spec
  <1> QED
    BY <1>2, PTL DEF OutcomeKept, HistoryKept
=============================================================================
