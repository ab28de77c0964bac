-------------------------- MODULE RevisionRollout --------------------------
(***************************************************************************)
(* A configuration rollout end to end: the server of RevisionAuthoring,    *)
(* the app's SyncCoordinator, which fetches the desired revision and asks  *)
(* the root helper to stage and then activate it, and the helper, which    *)
(* keeps the active, staged and previous revision in one file each.        *)
(*                                                                         *)
(* synchronize runs alone (it is @Synchronized); every network call and    *)
(* every command to the helper is a step, and calls, publishes, crashes of *)
(* the app or the helper and lost answers come between them.               *)
(***************************************************************************)
EXTENDS RevisionAuthoring

vars == <<serverVars, tabletVars>>

Steps == {"idle", "sync", "prepare", "stage", "staging", "staged", "activate", "activating",
          "activated", "saved", "failed"}
App == [dev : Devices \cup {None}, pc : Steps, seen : 0 .. MaxRevisions,
        desired : 0 .. MaxRevisions, manifest : 0 .. MaxRevisions, dirs : SUBSET Ids]
Command == [op : {"stage", "activate"}, rev : Ids]
Helper == [dirs : SUBSET Ids, broken : SUBSET Ids, active : 0 .. MaxRevisions,
           previous : 0 .. MaxRevisions, staged : 0 .. MaxRevisions,
           shownActive : 0 .. MaxRevisions, shownStaged : 0 .. MaxRevisions, queue : Command \cup {None},
           pc : {"idle", "stage", "rename", "select", "activate", "swap", "clear", "show"},
           rev : 0 .. MaxRevisions, rejected : BOOLEAN]

ASSUME CommandAssumption == None \notin Command

HelperIdle == helper.pc = "idle"
Trusted == app.dev # None /\ device[app.dev].active    \* require_device
AssignedRevision == device[app.dev].desired

Goto(pc) == app' = [app EXCEPT !.pc = pc]
EndSync == app' = [app EXCEPT !.pc = "idle", !.seen = 0, !.desired = 0]   \* its locals are gone
Fault == faults < scene.faults /\ faults' = faults + 1

----------------------------------------------------------------------------
(* Enrolment reaches the tablet, or its answer is lost: then the row       *)
(* stays, with a credential nobody holds.                                  *)
SaveEnrollment(a) ==
    /\ request[a].op = "enrolled"
    /\ app' = [app EXCEPT !.dev = request[a].device]
    /\ request' = [request EXCEPT ![a] = Idle]
    /\ UNCHANGED <<draft, prompt, revs, nextId, device, code, scene, helper, call, calls, faults>>

LoseEnrollment(a) ==
    /\ request[a].op = "enrolled"
    /\ Fault
    /\ request' = [request EXCEPT ![a] = Idle]
    /\ UNCHANGED <<draft, prompt, revs, nextId, device, code, scene, app, helper, call, calls>>

----------------------------------------------------------------------------
(* SyncCoordinator.synchronize *)

(* The helper's active revision is read once, at the start.                *)
StartSync ==
    /\ app.pc = "idle" /\ Trusted
    /\ ~call /\ HelperIdle
    /\ app' = [app EXCEPT !.pc = "sync", !.seen = helper.shownActive]
    /\ UNCHANGED <<serverVars, helper, call, calls, faults>>

(* During a call only the status is reported.                              *)
Heartbeat ==
    /\ app.pc = "idle" /\ Trusted
    /\ call \/ ~HelperIdle
    /\ device' = [device EXCEPT ![app.dev].reported = TRUE]
    /\ UNCHANGED <<draft, prompt, revs, nextId, request, code, scene, tabletVars>>

(* sync_device stores the status and answers with the desired revision.    *)
SyncDevice ==
    /\ app.pc = "sync" /\ Trusted
    /\ device' = [device EXCEPT ![app.dev].reported = TRUE]
    /\ IF AssignedRevision \in {0, app.seen} THEN EndSync
       ELSE app' = [app EXCEPT !.desired = AssignedRevision, !.pc = "prepare"]
    /\ UNCHANGED <<draft, prompt, revs, nextId, request, code, scene, helper, call, calls, faults>>

(* device_prompt serves the prompts of the assigned and the reported       *)
(* revision, if row and file are there.                                    *)
Served(p) ==
    /\ \E r \in {AssignedRevision, device[app.dev].running} \cap Ids : p \in revs[r].cfg
    /\ prompt[p].row /\ prompt[p].file

Fetched(rev) == rev \in app.dirs \/ \A p \in revs[rev].cfg : Served(p)

(* device_manifest, RevisionVerifier, RevisionFiles.prepare.               *)
PrepareRevision ==
    /\ app.pc = "prepare" /\ Trusted
    /\ Fetched(app.desired)
    /\ app' = [app EXCEPT !.pc = "stage", !.dirs = @ \cup {app.desired}]
    /\ UNCHANGED <<serverVars, helper, call, calls, faults>>

(* A command replaces one the helper has not taken yet.                    *)
Queue(op) ==
    helper' = [helper EXCEPT !.queue = [op |-> op, rev |-> app.desired], !.rejected = FALSE]

RequestStage ==
    /\ app.pc = "stage" /\ HelperIdle
    /\ Queue("stage")
    /\ Goto("staging")
    /\ UNCHANGED <<serverVars, call, calls, faults>>

(* waitForHelper looks for a call first.                                   *)
Reached ==
    /\ HelperIdle
    /\ \/ app.pc = "staging" /\ helper.shownStaged = app.desired
       \/ app.pc = "activating" /\ helper.shownActive = app.desired

AwaitStaged ==
    /\ app.pc = "staging" /\ ~call /\ Reached
    /\ Goto("staged")
    /\ UNCHANGED <<serverVars, helper, call, calls, faults>>

(* acknowledge_revision refuses a revision that is no longer assigned.     *)
AckStaged ==
    /\ app.pc = "staged" /\ Trusted
    /\ AssignedRevision = app.desired
    /\ Goto("activate")
    /\ UNCHANGED <<serverVars, helper, call, calls, faults>>

RequestActivate ==
    /\ app.pc = "activate" /\ HelperIdle
    /\ Queue("activate")
    /\ Goto("activating")
    /\ UNCHANGED <<serverVars, call, calls, faults>>

AwaitActive ==
    /\ app.pc = "activating" /\ ~call /\ Reached
    /\ Goto("activated")
    /\ UNCHANGED <<serverVars, helper, call, calls, faults>>

SaveActiveManifest ==
    /\ app.pc = "activated"
    /\ app' = [app EXCEPT !.pc = "saved", !.manifest = app.desired]
    /\ UNCHANGED <<serverVars, helper, call, calls, faults>>

AckActivated ==
    /\ app.pc = "saved" /\ Trusted
    /\ AssignedRevision = app.desired
    /\ device' = [device EXCEPT ![app.dev].running = app.desired]
    /\ EndSync
    /\ UNCHANGED <<draft, prompt, revs, nextId, request, code, scene, helper, call, calls, faults>>

(* Every exception ends in one handler.                                    *)
SyncFails ==
    /\ \/ app.pc \in {"sync", "prepare", "staged", "saved"} /\ ~Trusted
       \/ app.pc = "prepare" /\ Trusted /\ ~Fetched(app.desired)
       \/ app.pc \in {"stage", "activate"} /\ ~HelperIdle
       \/ app.pc \in {"staging", "activating"} /\ (call \/ helper.rejected)
       \/ /\ app.pc \in {"staging", "activating"}          \* the command is gone: 45 s pass
          /\ HelperIdle /\ helper.queue = None /\ ~Reached
       \/ app.pc \in {"staged", "saved"} /\ Trusted /\ AssignedRevision # app.desired
    /\ Goto("failed")
    /\ UNCHANGED <<serverVars, helper, call, calls, faults>>

(* The 45 s limit while the helper is still at work, a lost request or a   *)
(* lost answer: what the app takes for a failure may have succeeded.       *)
SyncTimesOut(seen) ==
    /\ app.pc \in {"sync", "prepare", "staging", "staged", "activating", "saved"}
    /\ Fault
    /\ Goto("failed")
    /\ device' = IF seen /\ app.pc = "saved" /\ Trusted /\ AssignedRevision = app.desired
                 THEN [device EXCEPT ![app.dev].running = app.desired] ELSE device
    /\ UNCHANGED <<draft, prompt, revs, nextId, request, code, scene, helper, call, calls>>

(* acknowledge "failed" is best effort and only changes what is displayed. *)
ReportFailure ==
    /\ app.pc = "failed"
    /\ EndSync
    /\ UNCHANGED <<serverVars, helper, call, calls, faults>>

AppDies ==
    /\ app.pc # "idle"
    /\ Fault
    /\ EndSync
    /\ UNCHANGED <<serverVars, helper, call, calls>>

----------------------------------------------------------------------------
(* The helper.  ProcessOneCommand refuses revision work during a call.     *)

TakeCommand ==
    /\ HelperIdle /\ helper.queue # None
    /\ helper' = [helper EXCEPT !.queue = None, !.rev = IF call THEN 0 ELSE helper.queue.rev,
                                !.pc = IF call THEN "idle" ELSE helper.queue.op]
    /\ UNCHANGED <<serverVars, app, call, calls, faults>>

(* Slip: the copy goes straight into the revision's own directory.         *)
CopyFilesInPlace(rev) == helper.broken \cup {rev}

(* Files are copied into a .tmp directory that a later attempt removes:    *)
(* the revision's own directory stays away until it is whole.              *)
CopyFiles(rev) == helper.broken

(* StageRevision uses a revision that is there and valid as it is, and     *)
(* never replaces a directory that is there and is not.                    *)
StageRevision ==
    /\ helper.pc = "stage"
    /\ helper' = CASE helper.rev \in helper.dirs -> [helper EXCEPT !.pc = "select"]
                   [] helper.rev \in helper.broken \/ helper.rev \notin app.dirs ->
                         [helper EXCEPT !.rejected = TRUE, !.pc = "idle", !.rev = 0]
                   [] OTHER -> [helper EXCEPT !.broken = CopyFiles(helper.rev), !.pc = "rename"]
    /\ UNCHANGED <<serverVars, app, call, calls, faults>>

RenameRevision ==
    /\ helper.pc = "rename"
    /\ helper' = [helper EXCEPT !.dirs = @ \cup {helper.rev}, !.broken = @ \ {helper.rev},
                                !.pc = "select"]
    /\ UNCHANGED <<serverVars, app, call, calls, faults>>

SelectStaged ==
    /\ helper.pc = "select"
    /\ helper' = [helper EXCEPT !.staged = helper.rev, !.shownStaged = helper.rev,
                                !.pc = "idle", !.rev = 0]
    /\ UNCHANGED <<serverVars, app, call, calls, faults>>

(* ActivateStagedRevision: previous, active, staged, one file at a time.   *)
MayActivate == helper.staged = helper.rev /\ helper.rev \in helper.dirs

ActivateStaged ==
    /\ helper.pc = "activate"
    /\ helper' = IF ~MayActivate
                 THEN [helper EXCEPT !.rejected = TRUE, !.pc = "idle", !.rev = 0]
                 ELSE [helper EXCEPT !.pc = "swap",
                          !.previous = IF helper.active \in {0, helper.rev} THEN @
                                       ELSE helper.active]
    /\ UNCHANGED <<serverVars, app, call, calls, faults>>

SwapActive ==
    /\ helper.pc = "swap"
    /\ helper' = [helper EXCEPT !.active = helper.rev, !.pc = "clear"]
    /\ UNCHANGED <<serverVars, app, call, calls, faults>>

ClearStaged ==
    /\ helper.pc = "clear"
    /\ helper' = [helper EXCEPT !.staged = 0, !.pc = "show"]
    /\ UNCHANGED <<serverVars, app, call, calls, faults>>

ShowActive ==
    /\ helper.pc = "show"
    /\ helper' = [helper EXCEPT !.shownActive = helper.rev, !.shownStaged = 0,
                                !.pc = "idle", !.rev = 0]
    /\ UNCHANGED <<serverVars, app, call, calls, faults>>

(* A restarted helper publishes what its root files say.                   *)
HelperRestarts ==
    /\ ~HelperIdle
    /\ Fault
    /\ helper' = [helper EXCEPT !.pc = "idle", !.rev = 0, !.shownActive = helper.active,
                                !.shownStaged = helper.staged]
    /\ UNCHANGED <<serverVars, app, call, calls>>

(* A call's START_MENU takes the place of a command still in the queue.    *)
CallArrives(replaces) ==
    /\ ~call /\ calls < scene.calls
    /\ call' = TRUE /\ calls' = calls + 1
    /\ helper' = IF replaces THEN [helper EXCEPT !.queue = None] ELSE helper
    /\ UNCHANGED <<serverVars, app, faults>>

CallEnds ==
    /\ call
    /\ call' = FALSE
    /\ UNCHANGED <<serverVars, app, helper, calls, faults>>

(* Slip: the fallback is tried first.                                      *)
RuntimeRevisionFallback ==
    IF helper.previous \in helper.dirs THEN helper.previous
    ELSE IF helper.active \in helper.dirs THEN helper.active ELSE 0

(* LoadRuntimeRevision: what the next call would run; 0 is the built-in.   *)
RuntimeRevision ==
    IF helper.active \in helper.dirs THEN helper.active
    ELSE IF helper.previous \in helper.dirs THEN helper.previous ELSE 0

----------------------------------------------------------------------------
Init ==
    /\ ServerInit
    /\ app = [dev |-> None, pc |-> "idle", seen |-> 0, desired |-> 0, manifest |-> 0, dirs |-> {}]
    /\ helper = [dirs |-> {}, broken |-> {}, active |-> 0, previous |-> 0, staged |-> 0,
                 shownActive |-> 0, shownStaged |-> 0, queue |-> None, pc |-> "idle", rev |-> 0,
                 rejected |-> FALSE]
    /\ call = FALSE /\ calls = 0 /\ faults = 0

Server ==
    \/ \E a \in Clients :
          \/ \E l \in Lanes, ver \in 1 .. MaxEdits, cfg \in Configs : PutDraft(a, l, ver, cfg)
          \/ \E reviewed \in 0 .. MaxEdits : PublishDraftV4(a, reviewed)
          \/ PublishDraftV3(a)
          \/ \E r \in Ids : \/ RollbackV3(a, r) \/ RollbackV4(a, r)
                            \/ ActivateLegacy(a, r) \/ ActivateImmutable(a, r)
          \/ CommitPublish(a) \/ CommitRollback(a) \/ ConflictRollback(a)
          \/ \E p \in Prompts : UploadPrompt(a, p) \/ DeletePrompt(a, p)
          \/ CommitUpload(a) \/ CommitDelete(a) \/ UnlinkPrompt(a)
          \/ \E d \in Devices : EnrollDevice(a, d) \/ RevokeDevice(a, d)
          \/ CommitEnrollment(a)
    \/ CreatePairingCode \/ ExpirePairingCode

Coordinator ==
    \/ StartSync \/ Heartbeat \/ SyncDevice \/ PrepareRevision \/ RequestStage \/ AwaitStaged
    \/ AckStaged \/ RequestActivate \/ AwaitActive \/ SaveActiveManifest \/ AckActivated
    \/ SyncFails \/ ReportFailure

HelperSteps ==
    TakeCommand \/ StageRevision \/ RenameRevision \/ SelectStaged \/ ActivateStaged
        \/ SwapActive \/ ClearStaged \/ ShowActive

Next ==
    \/ Server
    \/ \E a \in Clients : SaveEnrollment(a) \/ LoseEnrollment(a)
    \/ Coordinator \/ HelperSteps
    \/ \E b \in BOOLEAN : SyncTimesOut(b) \/ CallArrives(b)
    \/ AppDies \/ HelperRestarts \/ CallEnds

Spec == Init /\ [][Next]_vars

(* Requests end, the sync job is retried for ever, the helper's loop runs, *)
(* calls end.  Nothing obliges an operator or a fault.  A revision that is *)
(* staged already satisfies the wait at once, and the activation is then   *)
(* refused if the helper is busy with the repeated staging: app and helper *)
(* run on unrelated clocks, so this race is not lost every time (SF).      *)
FairSpec ==
    /\ Spec
    /\ WF_vars(\E a \in Clients : Commits(a))
    /\ WF_vars(\E a \in Clients : SaveEnrollment(a))
    /\ WF_vars(Coordinator) /\ WF_vars(HelperSteps) /\ WF_vars(CallEnds)
    /\ SF_vars(AckStaged /\ HelperIdle) /\ SF_vars(RequestActivate)

----------------------------------------------------------------------------
(* Properties *)

(* Every variable keeps the shape its table, file or object has.           *)
TypeOK ==
    /\ draft \in [Lanes -> Seq(Configs)] /\ \A l \in Lanes : Version(l) \in 1 .. scene.edits
    /\ prompt \in [Prompts -> [row : BOOLEAN, file : BOOLEAN]]
    /\ revs \in [Ids -> Revision \cup {None}]
    /\ nextId \in 1 .. MaxRevisions + 1
    /\ request \in [Clients -> Request]
    /\ device \in [Devices -> Row \cup {None}]
    /\ code \in BOOLEAN
    /\ app \in App /\ helper \in Helper
    /\ call \in BOOLEAN /\ calls \in 0 .. scene.calls /\ faults \in 0 .. scene.faults
    /\ scene \in Scenarios

(* publish_draft_v4 with a review publishes exactly what the operator      *)
(* reviewed, though another operator may save the draft while the publish  *)
(* validates, compiles and signs.                                          *)
PublishedAsReviewed ==
    \A r \in Published : revs[r].reviewed # 0 => revs[r].cfg = draft[4][revs[r].reviewed]

(* delete_prompt keeps what a published revision plays: its row and its    *)
(* media file are there for as long as the revision can be assigned.       *)
RevisionsKeepPrompts ==
    \A r \in Published : \A p \in revs[r].cfg : prompt[p].row /\ prompt[p].file

(* StageRevision, ActivateStagedRevision: whatever file was written last   *)
(* before a crash, the active revision is complete on the helper's disk,   *)
(* was published, and is what the next call runs.                          *)
ActiveIsPlayable ==
    helper.active # 0 => helper.active \in Published /\ RuntimeRevision = helper.active

Assigned(r) == Trusted /\ AssignedRevision = r

(* synchronize: when an assignment settles, the enrolled tablet ends up    *)
(* running it, whatever was lost, refused or interrupted on the way.       *)
DesiredRuns == \A r \in Ids : <>[]Assigned(r) => <>[](helper.active = r)

(* acknowledge_revision: and the server learns of it, so that the revision *)
(* the dashboard shows as applied is the one the tablet runs.              *)
ServerLearns == \A r \in Ids : <>[]Assigned(r) => <>[](Trusted /\ device[app.dev].running = r)
=============================================================================
