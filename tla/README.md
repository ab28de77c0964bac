# IVRDroid: TLA+ models, model checking and proofs

IVRDroid answers phone calls on a rooted Android phone and runs a call flow
(prompts, menus, messages, calls to a human operator) that an operator edits on
a server. A native helper with root rights owns the audio path and interprets
the flow; an Android app owns Telecom; a server owns revisions, recordings and
history. This directory holds TLA+ models of the parts where the difficulty is
in the order of events, the TLC runs over them, and TLAPS proofs.

Contents: [inventory](#inventory) · [modules](#modules-and-code) ·
[runs](#runs) · [fairness](#fairness) · [proofs](#proofs) ·
[findings](#findings) · [known counterexamples](#known-counterexamples) ·
[not modelled](#what-is-not-modelled) · [plan](#plan).

## Inventory

| Part | State | Operations | Talks to |
|---|---|---|---|
| External-call engine (`telecom/external/ExternalCallEngine.kt`, `AndroidTelecomControl.kt`) | one session (phase, owned legs, deadlines, command markers) in memory and in `external-call/recovery.json` | begin, recorderReady, cancel, reconcile, recover | Telecom (commands and callbacks), coordinator (statuses) |
| Call-control link (`ExternalCallCoordinator.kt`, `CallControlBridge.kt`, `external_call_policy.cpp`, `ExecuteExternalCall` in `main.cpp`) | one request file, one status file, a policy per attempt, last request and last status of the app | DIAL, RECORDER_READY, CANCEL; statuses, heartbeats, teardown | helper and app, each polling the other's file |
| Session guardian and call monitor (`main.cpp` 4217-5460, `call_safety_policy.cpp`, `privacy_policy.cpp`, `session_snapshot.cpp`, `service.sh`) | phases on a socket pair, mixer route, durable snapshot, Telecom evidence | begin private session, enforce privacy, recover, end the call, release, preempt, restart | worker, Telecom, mixer, supervisor |
| Telecom recovery barrier, call recovery bridge | native call snapshots, readiness | observe, decide who may end which call | app, helper |
| Flow compilers, validation and simulation (`compiler_v2..v4.py`, `validation.py`, `simulation_v2..v4.py`) | none: functions of a drawn flow | validate, compile, bound, simulate | authoring, tablet |
| Flow runtime (`RunConfiguredProgramV2`, `revision_config.cpp`) | program counter, attempts, menu returns, automated time, transition budget | prompt, collect digit, schedule branch, return to menu, record, external call, end | guardian, recordings, link |
| Revision authoring (`services.py`, `v3_api.py`, `v4_api.py`, `prompt_service.py`, `main.py`) | V3 and V4 drafts, prompt rows and files, immutable revisions, device rows, pairing codes | save, publish, roll back, activate an older revision, upload and delete prompts, pair, revoke | browser, tablet |
| Revision rollout (`SyncCoordinator.kt`, `RevisionFiles.kt`, `StageRevision`, `ActivateStagedRevision`) | desired, staged, active and previous revision, active manifest | pull, verify, stage, activate, acknowledge, fall back | server, app, helper |
| Recording ingest and retention (`recording_service.py`, `recording_api.py`, conversation, continuous and session-audit variants) | recording, upload, segment and receipt rows; media, quarantine and upload files; row locks | open, chunk, complete, assemble, convert, delete, purge, clean up, maintain, restart | tablet, administrator, worker thread |
| Recording spools (app, helper) | inbox pairs, encrypted spool pairs, upload offset | hand off, send, acknowledge | helper, server |
| Call outbox and history (`LocalCallSession.kt`, `CallOutboxPolicy.kt`, `SecureControlStore.kt`, `call_history.py`, `main.py`) | finalizing journal, pending calls with generations, pending events; call rows, receipts | finalize, enqueue, upload, acknowledge, merge, claim alerts | app, server |
| Session audit (`SessionAuditSpool.kt`, `SessionAuditSettings.kt`, `audit_settings.py`, `session_audit_api.py`) | audit spool, policy versions and their acknowledgement | bind, hand off, report, apply a policy, upload | helper, app, server |
| Notifications (`ntfy.py`, `email_notify.py`) | claimed alerts, background tasks | claim, dispatch, presence and storage watches | call history |
| Incoming admission (`GatedCallScreeningService.kt`, `IncomingCallAdmission.kt`, `LocalCallSession.kt`) | one reservation, one local session journal | screen, register, tick, answer, finish, reconcile, recover the answer | Telecom, helper |
| Authentication, settings, release tooling | database rows, keys | HTTP handlers, command line | browser |
| Boot and Wi-Fi recovery | attempt counters | boot, retry | Android |
| Dashboard | none of its own | edit, publish, listen | server |

### What is hard here

- The app process may die between any two statements and is bound again by
  Telecom; what it was doing must be read from a journal.
- Helper and app talk through one-slot files that each overwrites in place and
  the other polls: statuses are skipped, read twice, or read by the wrong
  attempt.
- Telecom callbacks come in any order, late, or never; commands have no receipt;
  `endCall` names no call.
- The helper's worker and its guardian are two processes with one socket; either
  may die, the guardian kills the worker, a supervisor starts a new helper, and
  all three may be recovering the same snapshot.
- Deadlines race answers at every stage.
- Deliveries to the server are repeated after lost responses, and hand-offs are
  pairs of file operations. A request whose client gave up may still be running
  in the server beside its repetition.
- On the server a file changes at once and a row at the commit, and a death or
  another handler comes in between; PostgreSQL runs at READ COMMITTED, and only
  some rows are locked.
- Background maintenance judges files by rows that are not committed yet.
- One flow is read by four pieces of code in three languages: compiler,
  simulator, the app's check and the helper's interpreter.

### What makes each part correct

| Part | Properties (checked here in **bold**) |
|---|---|
| External-call engine | **an uncertain command is never given twice**; **no completion without a verified conference**; **no owned leg survives the session**; **statuses only climb, an outcome is shown only once it is journalled**; **a set-up ends** |
| Call-control link | **a branch is taken only for this attempt's own, finished session**; **the recorder gate is never bypassed**; **one request, one session**; **a block ends** |
| Guardian | **the snapshot and the closed microphone outlive every failure while the caller is on the line**; **a hangup spares calls that were there when it was decided**; **worker and guardian never wait for each other for good** |
| Flow compilers and runtime | **the device takes the path the simulator shows**; **no call outlasts the compiled bound in time or turns, but for the two allowances the compiler does not make**; **the tablet accepts what the server publishes**; a call that the interpreter ends, ends where the simulation does (**refuted**) |
| Revision authoring | **what is published is what was reviewed**; **a revision keeps its prompts** |
| Revision rollout | **the active revision is complete and is what a call runs, after a death at any write**; **the assigned revision runs in the end**; the server learns of it (**refuted**) |
| Recording ingest | **acknowledged audio is kept until it is deleted**; **a ready recording plays**; **a deleted one is gone**; **the quota is never overcommitted, but by an MP3 of the continuous worker that outgrew its source**; **ready and deleted are final**; **a server that died serves again** |
| Call outbox, history, alerts | **a proven outcome is never replaced**; **one alert per call and failure, after the outcome**; **every report arrives and stops being sent** |
| Incoming admission | a caller is answered at most once, only with privacy armed; a missed caller is reported once |

What is checked holds in the instances of the [runs](#runs); the cases in which the
code breaks one of these rules are in [findings](#findings) and
[known counterexamples](#known-counterexamples).

`PROJECT.json` lists every hazard at its line, with the properties about it or
the reason why there is none.

## Modules and code

| Module | What it is |
|---|---|
| `ExternalCallEngine` | the app's controller of one external call |
| `ExternalCallPromise` | what that controller promises the helper: the abstract specification |
| `CallControlLink` | helper and app over the two bridge files; the engine appears as the steps of `ExternalCallPromise` |
| `GuardedSession` | one answered call: worker, guardian, mixer, snapshot, Telecom, supervisor |
| `RecordingStore` | rows, files and locks of the server's recordings; deletion, retention, maintenance, restart |
| `RecordingUploads` | the four upload protocols and the conversion worker, on `RecordingStore` |
| `RecordingServer` | both composed: the specification and its properties |
| `RevisionAuthoring` | drafts, prompts, revisions, pairing on the server |
| `RevisionRollout` | the server of `RevisionAuthoring` with app and helper: pull, stage, activate, acknowledge |
| `CallReports` | one call from the tablet's journal to the server's history and alerts, with its audit report |
| `FlowPrograms` | validation, compilation, simulation and the tablet's check of a drawn flow, as operators |
| `FlowRuntime` | publication, then one call on the compiled program beside the simulator |
| `ExternalCallEngineProofs` | the theorems about `ExternalCallEngine` |
| `ExternalCallPromiseProofs` | that the engine implements `ExternalCallPromise` |
| `CallControlLinkProofs`, `GuardedSessionProofs`, `RevisionRolloutProofs`, `CallReportsProofs`, `RecordingServerProofs`, `FlowRuntimeProofs` | the theorems about these modules |
| `MC...` | the instances that TLC checks |

Composition: `ExternalCallEngine` is shown to implement `ExternalCallPromise`
(`KeepsPromise`), and `CallControlLink` extends `ExternalCallPromise` and uses
its steps for the engine, adding only guards (a merge needs the gate, an answer
time-out needs the deadline). What the link relies on is therefore what the
engine was checked, and is proved (`PromiseKept`), to provide.

### ExternalCallEngine

A handler of the engine runs on the app's main thread, so Telecom does not move
while it runs; but the process may die inside it. `pc` names the next statement
and every handler is split where the code journals, publishes or commands
Telecom: `session` is `current`, `journal` is `recovery.json`, `published` is
the last status the observer was given. `Begin`, `RecorderReady`, `Cancel`,
`Reconcile` (with one `Step...` operator per phase), `Cleanup` (the parts of
`reconcileCleanup`), `Crash` and `Recover` are the entry points. Telecom is the
environment: `caller`, `ops`, `conf` and `stranger` are the calls it shows, and
`CallerMoves`, `OpMoves`, `ConfMoves`, `Glitch` move them in any order.
`asked` and `merged` are history variables. Times are what is left of a
deadline or how long a window has been open, both saturating.

### CallControlLink

`request` and `status` are the two files. The helper side is
`ExecuteExternalCall`: `StartBlock`, `Poll` (with the policy's refusal,
duplicate and ladder rules in `Refused`, `Misplaced`, `Taken`), `StartRecorder`,
`AnswerTimeout`, `PublishCancel`, `TeardownPoll`, `Confirm`. The app side is
`ExternalCallCoordinator`: one action per outcome of handling a request
(`BeginDial`, `RepeatedDial`, `CollidingDial`, `RefusedDial`, `RecorderReady`,
`Cancel`, ...), `Show`, `Heartbeat`, `Crash`, `Recover`, `RecoverUnsigned`,
`Republish`. Elapsed time is counted in heartbeats.

### GuardedSession

`pc` has one entry per process. The recovery code (`EndSingleCallAndWait`,
`ForcePrivateRouteForRecovery`, `RecoverMixerSnapshot`,
`ReleaseSessionForPreemption`) is used by the guardian and by a restarted
helper, possibly at once, so it is one set of actions with the process as a
parameter, split at every read and write of Telecom, the mixer and the snapshot.
`toGuardian` and `toWorker` are the two directions of the socket. `watch` holds
the guardian's flags. `mine`, `given`, `freed`, `late` and `victims` are
history: the call the session adopted, whether and why it gave the call up, the
acknowledged release, the calls that appeared while a hangup was on its way, and
the calls a hangup ended without being the session's. Deadlines are
nondeterministic: a wait may expire at any time before it is over.

### RecordingStore, RecordingUploads, RecordingServer

`row`, `up` and `rcpt` are the tables, `media`, `quar`, `dirs` and `temps` the
files of the recording volume, `thr` what each request or background thread has
read, locked and done so far. Files change at once and rows at the commit, one
step each; a lock is what `FOR UPDATE` holds until the commit, the policy row
that serializes quota reservations included. `RecordingUploads` has one pair of
actions per request, up to its last file operation and its commit
(`CreateRecording`/`CommitUpload`, `UploadContent`/`CommitChunk`,
`CompleteRecording`/`PlaceMedia`/`CommitReady`, ...), for voicemail,
conversation and session-audit segments, and continuous recordings with their
worker (`ProcessNext`, `ReserveMedia`, `PlaceReserved`, `Accept`).
`RecordingStore` has deletion, retention and the abandoned-upload cleanup, and
`maintain_recordings` with its two reconciliations entry by entry. The tablet is
a client that may send any request of the protocol at any time; it gives up its
copy (`spool`) when an answer acknowledges the audio. A `Scenario` says which
kind is uploaded and which dangers the behaviour has: `sweep` (maintenance beside
requests), `late` (a request that outlives its client), `stale` (an upload left
for a day), and how many faults (deaths, failed commits, bad files).

### RevisionAuthoring, RevisionRollout

A configuration is the set of prompts it plays. `request` is what a handler has
read and not yet committed; the two drafts, the prompt rows and files, the
revisions, the device row and the pairing code are the server. `app` is the
position in `synchronize` with its locals and the stored manifest; `helper` has
one field per root file (`active`, `previous`, `staged`), the two bridge copies
and the position inside a command, so a death falls between any two writes.
Saving, publishing and rolling back overlap freely in scenario `Operators`; in
the others requests to the server come one after the other.

### CallReports

`outbox`, `journal` and `spool` are the tablet's three files about the call;
the session finalizer, the audit hand-off worker and the sync work on them as
three threads. `late` holds requests given up on, which the server may handle
later and in any order. `row`, `seen`, `due`, `pushes` are the call row, the
event receipts, the unclaimed ones and the scheduled background tasks.

### FlowPrograms, FlowRuntime

A flow is a tree of blocks, a function from positions (sequences of edges) to
blocks. `ValidV2..V4` are the validators, `Tape` the instruction order and
targets of the compilers, `MaximumCost` the worst case, `Simulate` one step of
the simulator, `ProgramAccepted` the check of `RevisionCompiler.kt` and
`ValidateProgramV2`. `FlowRuntime` publishes any draft of a set in any schema
version and runs one call on it, the simulator beside it on the same events.
Time is the automated time; instructions themselves take none, which favours the
code. An external call takes any time up to the sum of the limits that the
engine and the helper put on its waits (`LongestMs`), whatever the compiler
allows for it (`AllowedMs`); `overtime` counts what a session was granted beyond
the compiled bound in that way and by recordings that were spoiled.

## Runs

| Run | Shows |
|---|---|
| `engine` | `TypeOK`, `KeepsPromise` (the status stream implements `ExternalCallPromise`), `SetupResolves`, with one death of the app at any step |
| `intruder` | `SingleFlight`, `CompletedWasConferenced`, `ReleasedLegs`, with a foreign call, an unasked conference or a failing identity read and one death |
| `link` | `NotConnectedWasDialled`, `BranchAfterSession` for two blocks in a row and one restart of the app |
| `faults` | `TypeOK`, `MergeAfterRecorder`, `OneSessionPerAttempt`, `AttemptResolves` with a lost status write or an unsigned recovery, and a restart |
| `guarded` | `TypeOK`, `Custody`, `ForeignSpared`, `PrivacyKept` with the caller, another and an emergency call, and one fault (2.5 million states) |
| `guarded_live` | `SessionResolves` with two faults and both audited mixer baselines |
| `recordings` | `TypeOK`, `AudioKept`, `ReadyPlays`, `ErasedIsGone`, `QuotaKept`, `ReadyIsFinal`, `WholeServesAgain` over eleven scenarios (561 thousand states) |
| `rollout` | `TypeOK`, `PublishedAsReviewed`, `RevisionsKeepPrompts`, `ActiveIsPlayable`, `DesiredRuns` over five scenarios (407 thousand states) |
| `calls` | `TypeOK`, `AlertedOnce`, `OutcomeKept`, `ReportsArrive` over five scenarios (241 thousand states) |
| `flow` | `TypeOK`, `SamePath`, `BoundHolds`, `AcceptedByTablet` for 310 drafts in three schema versions, 260 of which become programs (160 thousand states) |
| `rollout_ack`, `flow_expiry` | violations: see [findings](#findings) |

Every property of a passing run has a mutant in `PROJECT.json`: a small change of
the model of the kind a bug in the code would make, which TLC rejects.

### Bounds

- Engine: one session, one leg identity, one death, one glitch; every timeout is
  1 and the cleanup timeout 2. The code compares a deadline only with now, so a
  deadline that has or has not passed is all a longer one could show; the cleanup
  has to outlast the stability window, hence 2. A second leg identity adds only
  the case of two owned legs, which the code rejects at once. The theorems of
  this and the other modules have none of these bounds. `SetupResolves` is
  checked without glitches and needs that: an app that dies between journalling
  and showing an aborted cleanup, and cannot read the caller's identity when it
  comes back, never shows the abort. The helper's own deadlines then end the block.
- Link: two blocks are enough for one attempt to read what another left behind;
  a third attempt sees a status file and a request file like the second. One
  heartbeat separates the two clocks; `faults` has one block and no heartbeat.
- Guardian: three calls, because Telecom is only classified as none, mine,
  another, several or emergency; a second foreign call changes no
  classification. `MaxFaults` counts lost hangups, unreadable dumps and deaths;
  two in the liveness run allow a lost hangup followed by a death, or the death
  of both processes. `MaxHangups` (2) and `MaxOwnedHangups` (4) are the code's.
- Recordings: two recordings, two chunks, two segments: one recording under
  upload and one that is there already, or a second upload that competes for the
  quota. Two faults let a death follow a failed commit. The scenarios leave out
  the combinations of the [known counterexamples](#known-counterexamples); that
  is why `sweep` occurs with continuous recordings only and `stale` not with
  `late`. `MaxNames` (4) is enough for a name per recording, segment and retry.
  The MP3 takes 1 or 3 chunks where the source takes 2 (a segment 1), so that it
  fits in the room reserved for its source or does not, and with two new
  recordings and a quota of 4 the exact size is refused at the end.
- Rollout: three revisions are a previous, an active and a staged one; two
  requests in flight; one call, death, lost answer or time-out.
- Calls: one call, since rows and files are kept per call; one ordinary event
  and one failure; a policy that changes twice; two faults without an audit, one
  with.
- Flow: menus two deep, up to two attempts and two returns, one prompt, two
  digits and a third that no branch has; durations are small numbers that keep
  apart the sums the bound is made of. Three watchdogs against five waits of 1
  (some ten seconds of the code each) let a connected external call take 1 more than
  its allowance and one that was torn down 2 more; a session that spends exactly
  its budget and its overtime occurs. `MaximumSessionMs`, `MaximumBlocks` and
  `MaximumDepth` are scaled so that some drafts pass and some fail each;
  `MaximumTransitions` (71) is scaled with them, to the least number that
  `TurnsAssumption` allows, as the code's 512 is above its 424.
- `CHECK_DEADLOCK FALSE` except in `calls`: a call ends, and with the bounded
  number of sessions, attempts, requests or faults the models then really stop.

## Fairness

- `ExternalCallEngine`: handlers run on (the service polls every 250 ms and
  Telecom binds a dead service again), time passes, Telecom carries out a
  disconnection it was asked for, and a conference that lost a side ends.
  Strong fairness on time and on Telecom's removals, because a poll or a death
  may interrupt them. Nothing says that an operator answers or hangs up.
- `CallControlLink`: both sides poll, the engine's deadlines fire (which
  `SetupResolves` establishes for the engine), a dead app is bound again, and the
  helper's silence and teardown deadlines pass. `AttemptResolves` has the escape
  "people are talking": nothing ends a conversation but its parties.
- `GuardedSession`: both processes are scheduled, waits and the guardian's phase
  deadlines expire, and a recovery that keeps looking at Telecom decides, because
  every wait of `CallRecoveryPolicy` is bounded (strong fairness: a look may be
  disturbed by a call that comes and goes). No fairness for callers, Telecom or
  the call limit. `SessionResolves` assumes `[]ReleaseProved`: see the
  known counterexample about the release byte, after which a live call may be
  left with nobody in charge.
- `RecordingServer`: maintenance and the removals that started run on. Nothing
  obliges the tablet, an administrator or the worker.
- `RevisionRollout`: requests end, the sync job is retried for ever, the helper's
  loop runs, calls end. Strong fairness for acknowledging a staged revision while
  the helper is idle and for requesting its activation: the wait for a revision
  that is already staged is over at once, and the activation is refused while the
  helper still repeats the staging; the two run on unrelated clocks, so the race
  is not lost every time. Nothing obliges an operator or a fault.
- `CallReports`: the sync is repeated and its steps end, the server answers, who
  is inside the spool leaves it, a recorder that was started leaves its report.
  Strong fairness for the sync's turn in the spool, which the hand-off worker
  takes every 500 ms.
- `FlowRuntime`: safety only; `BoundHolds` bounds every call in turns.

## Proofs

Every model has its theorems, in a module of its own, and every invariant and
action property that a passing run checks is one of them.
The bounds of the models (sessions, attempts, deaths, faults, names, versions)
are constants there, so a theorem holds for any number of them, and for any set
of calls, blocks, prompts, clients, devices or events. `RecordingServer` has two
recordings and a fixed set of threads by construction; its theorems are about
any quota, any scenario and any number of names and faults. The theorems about
`FlowRuntime` hold for every set of drafts, of any size and shape, in every schema
version, and for every behaviour of the caller.

| Module | Theorem | States | Under |
|---|---|---|---|
| `ExternalCallEngineProofs` | `TypeCorrect` | `Spec => []TypeOK` | |
| | `CommandsOnce` | `Spec => []SingleFlight` | `~JournalMayFail` |
| | `CompletionAfterConference` | `Spec => []CompletedWasConferenced` | `~JournalMayFail` |
| | `LegsReleased` | `Spec => []ReleasedLegs` | `~JournalMayFail` |
| `ExternalCallPromiseProofs` | `PromiseKept` | `Spec => KeepsPromise`, the refinement of `ExternalCallPromise` | `~JournalMayFail` |
| `CallControlLinkProofs` | `TypeCorrect` | `Spec => []TypeOK` | |
| | `CarriedOutOnce` | `Spec => []OneSessionPerAttempt` | |
| | `RecorderBeforeMerge` | `Spec => []MergeAfterRecorder` | |
| | `FlowResumesAfterSession` | `Spec => []BranchAfterSession` | `~RepeatBlocks` |
| | `NotConnectedIsTrue` | `Spec => []NotConnectedWasDialled` | `~RepeatBlocks`, `MaxFaults = 0` |
| `GuardedSessionProofs` | `TypeCorrect` | `Spec => []TypeOK` | |
| | `CallInCustody` | `Spec => []Custody` | |
| | `MicrophoneStaysMuted` | `Spec => PrivacyKept`, an action property | |
| | `ForeignCallsSpared` | `Spec => []ForeignSpared` | |
| `RevisionRolloutProofs` | `TypeCorrect` | `Spec => []TypeOK` | |
| | `ReviewedIsPublished` | `Spec => []PublishedAsReviewed` | |
| | `ActiveRevisionPlays` | `Spec => []ActiveIsPlayable` | |
| | `RevisionPromptsKept` | `Spec => [](LibraryAlone => RevisionsKeepPrompts)` | `LibraryAlone` in the statement |
| `CallReportsProofs` | `TypeCorrect` | `Spec => []TypeOK` | |
| | `AlertsOnce` | `Spec => []AlertedOnce` | |
| | `OutcomeStays` | `Spec => OutcomeKept`, an action property | |
| `RecordingServerProofs` | `TypeCorrect` | `Spec => []TypeOK` | |
| | `QuotaNeverOvercommitted` | `Spec => []QuotaKept` | |
| | `ReadyStaysFinal` | `Spec /\ OneDanger => ReadyIsFinal`, an action property | `OneDanger` in the statement |
| | `ReadyCanBePlayed` | `Spec /\ OneDanger /\ NoSweep => []ReadyPlays` | `OneDanger`, `NoSweep` in the statement |
| | `NothingOutlivesDeletion` | `Spec /\ OneDanger /\ scene.kind # "continuous" => []ErasedIsGone` | `OneDanger` and the kind in the statement |
| | `AudioIsKept` | `Spec /\ OneDanger /\ NoSweep /\ Fresh => []AudioKept` | `OneDanger`, `NoSweep`, `Fresh` in the statement |
| `FlowRuntimeProofs` | `InterpreterIsTyped` | `Spec => []TypeOK` | |
| | `DeviceFollowsDrawing` | `Spec => []SamePath` | |
| | `BoundIsABound` | `Spec => []BoundHolds` | |
| | `TabletTakesWhatIsPublished` | `Spec => []AcceptedByTablet` | |

### Assumptions and hypotheses

The named assumptions of the modules say that bounds are natural numbers, that
`None` is none of the values it stands beside, and that a scenario is a
scenario. A few say more: `EngineAssumption` has a stability window of more than
no time (the code's is one second); `CallsAssumption` has finitely many calls, the
caller among them and not an emergency; `CallAssumption` keeps the end of a call
apart from its failures; `ScenarioAssumption` of `RecordingStore` lets the
media of a recording that is there already fit in the quota, and says nothing of
the size of an MP3 compared with its source; `FlowsAssumption` says that a
draft is a tree of blocks with the fields of their kinds (`IsDraft`, what the
request schemas let through), whether or not it passes the validators; and
`TurnsAssumption` relates the interpreter's limit on turns to the limits on blocks
and depth (with 64 blocks and a depth of 8 it asks for more than 424 turns; the
code has 512). TLC evaluates all of them in the runs.

A theorem has a further hypothesis only where the code breaks the property
without it; TLC gives the counterexamples.

- `~JournalMayFail`: `update()` goes on when the journal write fails. A death
  after a lost write gives a command again, ends a session that still owns a
  leg, and a status is shown that the journal does not back, in the instance of
  run `engine` with `JournalMayFail = TRUE`. `CompletedWasConferenced` survives that instance;
  a session whose last write is lost and a next session whose first write is lost
  would have to be told apart to do without the hypothesis.
- `~RepeatBlocks`: an attempt at a block that was run before reads the status
  that its predecessor left (see [known counterexamples](#known-counterexamples)),
  leaves the block by it, and the app then takes up the dial request.
- `MaxFaults = 0` (only `NotConnectedIsTrue`): a death after NOT_CONNECTED was
  shown, and a recovery that finds the instruction unsigned, replace the outcome
  of the session by SYSTEM_FAILURE behind the branch that the helper has taken.
- `LibraryAlone`: uploads and deletions of prompts do not overlap other requests.
  Saves, publishes, rollbacks and enrolments still overlap each other.
- `OneDanger`: `late` (a request outlives its client's patience) and `stale` (an
  upload is abandoned long enough to be cleaned up) do not both occur. Either
  alone, with every other danger, is covered.
- `NoSweep`: no hourly pass runs beside requests; the passes of a start are
  there. The pass unlinks media whose row is not committed yet (`AudioKept`) and
  puts back media that a deletion has just moved aside. `ErasedIsGone` has the
  same condition in its own statement.
- `scene.kind # "continuous"` (only `NothingOutlivesDeletion`): a worker that
  fails twice leaves a file that no row names.
- `Fresh` (only `AudioIsKept`): no segment of a conversation is found abandoned,
  because the cleanup also removes verified segments, which the tablet has
  already given up. For the other kinds `stale` is covered.

### The arguments

Each invariant was checked with TLC before it was proved, and is proved with one
step per action. Type correctness is never inductive as it stands: a process in
the middle of its work uses values that an earlier step left (a session, a
request, a lock), so every `TypeInv` also says what a process has at each of its
positions.

`ExternalCallEngine`:

- `TypeInv` adds `HeartbeatKept` (a cleanup publishes the status it started from)
  and `HandlerHasSession`.
- `SingleFlight` needs to know that a command is journalled before it is given
  and that no marker is ever taken back. `FlightInv` adds `Journalled` (memory
  and journal agree while the process is up), `GivenIsJournalled` (a command that
  was given shows in the journal: by its phase for place and merge, by its marker
  for disconnect and unhold) and `AboutToGive` (a handler that is about to give a
  command has journalled it and has not given it yet). A death loses only memory,
  and recovery starts from the journal.
- `CompletedWasConferenced` follows from `TalkWasMerged`: the phases that lead to
  an operator hangup are entered only from a verified conference.
- `ReleasedLegs` rests on `NothingOwned`: without a live journalled session no
  connected leg carries its tag, and a tag is given only while there is one.
- `KeepsPromise` is a refinement, and the promise reads only the journal and the
  last publication. Whatever a step does to the journal is one of five moves:
  nothing that the promise tells apart, a climb to the next phase, the start of a
  cleanup, an end, or an aborted cleanup. Each is a stutter or one step of
  `ExternalCallPromise`; a publication is `PShow` or `PShowAgain`. `PromiseInv`
  adds that a journalled session remembers a status exactly from its cleanup on
  (`Fits`) and how far it is when a handler publishes (`AtHandler`).

`CallControlLink`:

- `OneSessionPerAttempt`: a dial that began a session is known to the app from
  its last request, its memory or its journal (`DialTaken`), and a death leaves
  the journal. The engine never begins a session for a request it knows.
- `MergeAfterRecorder`: what opens the gate can be traced back through the
  engine, the coordinator's handler and the request file to the policy's stage
  (`GateOpen`, `GateRecorded`, `GateRequested`), for the attempt the helper is
  following; a request of an older attempt is about an older session
  (`SessionPast`).
- `BranchAfterSession`: a terminal status in the file or in the app's memory says
  that the session it names is over (`StatusTells`), and when the helper leaves
  the block no dial is left that could begin another (`Settled`). Blocks that
  were not used are named nowhere (`UsedBlocks`): this is where a flow that
  returns breaks the argument.
- `NotConnectedWasDialled`: also that NOT_CONNECTED is only told of a session
  that ended so (`NotConnectedTells`, `NotConnectedHeld`).

`GuardedSession`:

- `Custody` and `PrivacyKept`: whoever is about to restore the normal route or to
  delete the snapshot has seen the adopted call end, or gave the call up
  (`CallIsOver`); this includes the worker's report on the socket, on which the
  guardian acts later, and both processes that may be recovering at once. Before
  a call is adopted nobody has anything to recover (`NotAdopted`).
- `ForeignSpared`: from the look at Telecom to the hangup, whatever is on the
  line is the call the hangup is for, or came after the look (`HangupAimed`).

`RevisionRollout`:

- `PublishedAsReviewed`: a publish in flight carries the content of the version
  that was reviewed (`CarriesReviewed`), and versions only accumulate.
- `ActiveIsPlayable`: the server assigns only published revisions, the app has
  only those, the helper copies only what the app has, and names in its active
  file only what is whole on its disk, at each write of the staging and of the
  activation (`RolloutInv`).
- `RevisionsKeepPrompts`: a row has its file, contents in flight and published
  have rows, and a deletion in flight is of a prompt no revision uses
  (`LibraryInv`).

`CallReports`:

- `AlertedOnce`: scheduled and sent alerts are counted together. Nothing is
  counted for a failure without a receipt or with one that is due, nor for
  anything before the outcome is proven (`Unclaimed`); a claim takes the receipt
  or the row with it, in one transaction.
- `OutcomeKept` is proved of each step from type correctness alone: the merge
  rules are in the handler.

`RecordingServer`:

- `QuotaKept`: what is proved not to pass the quota is `Total`, the bytes in use
  less the overdraft, for MP3s of any size. The room that a handler has found is
  still there when it commits: it holds the policy lock from the look to the
  commit (`LocksHeld`, `RoomReserved`), for an upload's reservation as well as
  for the exact size that takes its place, when the uploads that give up their
  room are locked and still count (`SourceHeld`, `SpareParts`). The worker of
  continuous recordings has no lock by then; its MP3 takes the room of its
  source, which the receipt still holds (`ReceiptHeld`), and what it needs beyond
  that is the overdraft. A removal leaves a continuous recording alone until it is
  ready (`RemovalSpares`), and no two rows share a storage name (`NamesApart`), so
  that a removal takes the bytes of one row. This holds for every combination of
  dangers.
- `ReadyIsFinal`: what a thread is about to write over is still as it was when
  the thread looked (`Stands`): under a lock, or because no other client works on
  that recording (`Apart`, without `late`), or because no upload is ever found
  abandoned (`NeverStale`, without `stale`).
- `ReadyPlays`: the media of a ready recording is in its place or aside
  (`ReadyMedia`), and while the server serves only the administrator's removal has
  anything aside (`AsideInv`). A start works alone (`Serving`) and puts back
  whatever a crash left aside before it serves: `Settling` says what it has still
  to go through and that what it removes is nobody's. New media is in place before
  its row is committed (`Placed`). Together they are `FilesInv`.
- `ErasedIsGone`: every file of the volume is one that a row names, or that a
  thread has just placed, moved aside or listed for removal (`Accounted`); when no
  thread works only the rows are left.
- `AudioKept`: what the tablet gave up was acknowledged (`AckInv`): its recording
  is complete, which `ReadyMedia` covers, or it is a verified segment. A segment
  that counts has a directory of its own, with the chunks that its row claims
  (`SegmentRows`); each thread knows of the segment it works on, and the
  directories it is about to remove belong to none that counts (`SegmentHeld`,
  `PruneSpares`). A segment stays verified until its recording is ready
  (`VerifiedKept`).

`FlowRuntime`:

- `TypeOK` and `SamePath`: `PathInv` says that the interpreter's address is the
  address of the simulator's block, that both have the same attempts, and that a
  menu's counter on the device is its counter in the drawing. The address of a
  block is the number of blocks before it in the compilers' depth-first order
  (`Before`), so the order is shown to be total on the positions of a draft, and
  addresses to be one-to-one and onto the tape; then each instruction is the image
  of its block, and each of its targets the image of the block at that edge. A
  return to a menu is an edge to an address of the path that led to it.
- `BoundHolds`, turns: every turn goes one edge down, except that a return starts
  again above. `Paid` counts the turns against the returns made, of which a menu
  has at most three, and against the depth. A menu has four edges, which bounds
  the number of menus by that of blocks, and `TurnsAssumption` does the rest.
- `BoundHolds`, time: `maximum_cost` recurs over address, return counters and the
  set of states on the current path. That its recursive function exists is proved
  through a state with the fewest states left to visit among those where the
  equation fails. What is left of the budget and the overtime (`Granted`) then pays for
  the block ahead, for some set of states already met that does not hold the
  present one, and what lies ahead costs no more than the longest session
  (`Ahead`): a state met twice costs more than that, so there is none, however
  much overtime has been granted. An external call that takes longer than
  `AllowedMs` is granted the whole difference to its limits. The attempts at a menu, each with its prompt and its time-out, are counted
  apart, because the interpreter spends them before it leaves the menu. `Within`
  adds that the budget is the compiler's.
- `AcceptedByTablet`: the tablet walks the program from its entry. The walks of a
  length are proved to be exactly the positions of that depth, one walk each, so
  what the tablet asks of walks (depth, reachability, one owner of every return, a
  notice before a recording) is what the validators have asked of positions.

### Only model-checked

Liveness (`SetupResolves`, `AttemptResolves`, `SessionResolves`, `DesiredRuns`,
`WholeServesAgain`, `ReportsArrive`): fairness is out of the proof system's
reach. Induction over data is too, as a rule that takes a predicate; the two
recursions of the flow modules are reasoned about through a least counterexample
of a natural number or a finite set instead.

## Findings

Each is a run that TLC ends with a counterexample against a sentence of the
repository; `PROJECT.json` quotes the sentence.

- `rollout_ack`: a call arrives while the app waits for the activation; the wait
  gives up, the helper activates. The next sync compares the desired revision
  with the helper's (`SyncCoordinator.kt:48`), finds them equal and skips
  everything: the new manifest is never saved and `activated` never sent. The
  dashboard stays at pending, and the app goes on with the old manifest: operator
  calls of the new revision are refused as unsigned
  (`ExternalCallCoordinator.kt:202`), its voicemail hand-off too
  (`RecordingSpool.kt:449`), and the old caller policy stays in force. A tablet
  that pairs anew while it already runs the latest revision is in the same state.
- `flow_expiry`: the compiled bound is the exact worst case, and the interpreter
  gives up at equality before every instruction, the closing one included
  (`main.cpp:5754`). A prompt followed by *end call* is its own longest path, so
  the call is recorded as an audio failure where the simulator shows a normal end.
  `SamePath` and `BoundHolds` hold all the same: the two agree until then, and
  what passes the bound is in `overtime`, which this path does not need.

### Known counterexamples

Found with the same models and outside the runs, because a run checks one
question and the two findings above are the ones with the widest effect. Each can be
reproduced with the constants given.

Engine, link and guardian:

- A caller who hangs up after `placeCall` and before the leg surfaces ends the
  session with COMPLETED (`ExternalCallEngine.kt:675`); the leg then rings on,
  owned by nobody, against `external_call_policy.cpp:170` ("only after removing
  the owned operator/conference"). `MCExternalCallEngine` without crash and
  glitch; `published.status = "COMPLETED"` with a connected leg.
- After a restart an aborted cleanup is published without CLEANUP_TIMEOUT
  (`ExternalCallEngine.kt:331`) and the helper takes the system-failure branch,
  against `helper/README.md:98`. `MCCallControlLink` with `MaxCrashes = 1`,
  `MaxAttempts = 1`.
- A flow that returns to the same `external_call` block reads the status of its
  first attempt (`external_call_policy.cpp:66`) and branches without dialling:
  `NotConnectedWasDialled` with `Blocks = {b1}`, `RepeatBlocks = TRUE`,
  `MaxAttempts = 2`. Run `link` is about flows that do not return.
- The privacy-ready byte and the release acknowledgement are both `R`
  (`main.cpp:5445`); a worker that gave up before reading the first takes it for
  the second: `ReleaseProved` with `Calls = {c}`, `MaxFaults = 0`.
- When the maximum duration is reached and Telecom does not end the call, the
  guardian opens the microphone route and deletes the snapshot
  (`main.cpp:4820`), against `ARCHITECTURE.md:311`. `Custody` and `PrivacyKept`
  excuse this case through `given`.

Recordings:

- The hourly sweep may unlink a voicemail's media between its placing and the
  commit of its row (`recording_service.py:944`): the recording is ready and
  silent. `AudioKept` with `Scenarios <- VoicemailSwept`. A fresh upload
  directory can be swept the same way, which the client repairs by starting anew.
- A death during the verification or assembly of a conversation leaves a
  `.verify-segment-*` or `.conversation-*` entry, on which the start-up
  reconciliation fails for ever as an unknown entry (`recording_service.py:954`):
  `server # "up" ~> server = "up"` with `Scenarios <- ConversationRestarted`.
  `WholeServesAgain` is about recordings of one piece.
- A late request of an upload that was abandoned and cleaned up reopens a ready
  voicemail (`ReadyIsFinal` with dangers `late` and `stale`), and the cleanup
  removes a conversation whose verified segments the tablet has already deleted
  (`AudioKept` with `stale`).
- A worker that fails after it has put the media of a continuous recording in
  place reserves another name on its retry; if it fails again before that one is
  in place, no row names the first file until the next maintenance
  (`continuous_recording_worker.py`, `_process`): `ErasedIsGone` for a continuous
  recording without dangers, two faults. The same file is left by a late creation
  that reopens a ready voicemail, whose next completion names other media
  (`late` with `stale`, `MaxNames = 6`). The next start removes both.
- The worker of continuous recordings compares the exact size of its MP3 with the
  quota under the policy lock (`continuous_recording_worker.py:117`), gives up the
  lock with the commit at line 130 and makes the media count at 135-140 without
  looking again, against `recording_service.py:555` ("Finalization replaces the
  current reservation with the exact encrypted MP3 size under the retention-policy
  lock"). If the MP3 is larger than its source
  and another upload reserves in between, the quota is overcommitted by the
  difference: `RecordingUsedBytes({}) <= Quota` in the scenario of a continuous
  and a new recording, quota 4, MP3 of 3. `QuotaKept` allows that difference
  (`Overdraft`) and nothing else; the other handlers hold the lock until they
  commit.
- Retention and an upload take the policy row and the upload rows in opposite
  orders; PostgreSQL aborts one of them (`Deadlocked`), and it is repeated.

Revisions, with the kinds added to a scenario's `overlapping`:

- Two uploads of the same audio: the loser's error branch unlinks the file of the
  committed prompt (`prompt_service.py:80`). Deleting a prompt while another
  operator saves and publishes a draft with it (`main.py:758`), or uploads the
  same audio between the commit and the unlink, ends with a revision whose prompt
  is gone. Two enrolments with one code both succeed (`main.py:1003`).

Calls, scenario `Raced` unless said otherwise:

- The audit worker's copy of the bound call overwrites a proven outcome in the
  outbox with an unproven one (`SessionAuditSpool.kt:161`, against the comment at
  line 157). The server keeps a proven outcome that it has received, which is
  `OutcomeKept`.
- A call finalized between the worker's bind and its read never sends its audit
  report; audio that is uploaded before the outcome is known leaves the late
  outcome refused for ever.
- A policy that the helper read only between a sync's first report and the apply
  of the next policy is never acknowledged, and calls under it are refused (422),
  with the whole batch of 100 they are in. Events kept across a re-pairing
  (`SecureControlStore.kt:52`) are refused (409) in the same way.
- Alerts that are claimed and not yet dispatched are lost when the server dies:
  at most once, not exactly once.

Flow:

- A recording that fails after it was made (`main.cpp:4193`, `4206`) takes the
  unavailable path with the recording time already spent, which `maximum_cost`
  does not count: the call is cut short on that path.
- An external call may spend 10 s until the leg surfaces, the answer timeout,
  10 s for the recorder, 10 s for the merge, 12 s of teardown (unless the
  conversation took place) and 2.5 s until the caller is safe: the answer timeout
  and 44.5 s (32.5 s after a conversation). The compiler allows the answer timeout and 30 s
  (`compiler_v4.py:25`, `218-221`), although its docstring says that "The answer
  deadline and every continuation are bounded here" (`compiler_v4.py:40`), and
  the helper cuts the call short when it comes back (`main.cpp:5935`).

  `elapsed <= program.budget` fails for both in the instance of run `flow`.
  `BoundHolds` grants them as `overtime` and nothing else.

## What is not modelled

- Guardian: the owned-conference phases (the external-call block seen from the
  guardian), snapshots of an earlier boot, SIGTERM of the service, the
  supervisor's crash-loop limit, the next session after a release, and a death of
  the guardian while it holds the worker stopped (nobody would wake the worker:
  listed as a hazard). Phase bytes that only re-arm a deadline are not queued. A
  monitor event and the guardian's reading of it are one step. Mixer controls
  are abstracted to a path and open or muted endpoints: a recovery or a release
  that fails at the mixer or its files (`main.cpp:1478`, `2220`, `4503`, `4554`,
  `4718`, `4778`), and a route the helper does not own, are left out, the snapshot
  is written in the step that looks at Telecom, and forcing the private route
  fails only together with that look. The caller may be answered at any time,
  which is more than the app's admission allows.
- Link: the byte layout of the bridge files, and the recorder process beyond
  "started" and "stable". Of the recovery after a restart the branches for a
  retired journal and for one of another boot (`ExternalCallCoordinator.kt:99-120`),
  which end without a session; a journal that cannot be saved; a status that cannot be
  published is lost in `Show` only, not in a heartbeat, whose loss another follows.
- Engine: phone numbers, subscription checks, audit text. A journal of an earlier
  boot (`ExternalCallEngine.kt:295-308`) is not recovered, because the coordinator
  has cleared it before; the journal write of `adopt` is the one of the step that
  calls it.
- Recordings: the tablet's spool files and the helper's writer (only their use of
  the protocol), playback, the worker's branch for a recording that was deleted
  meanwhile, the recovery of a recording without any segment, and the loop of
  `uploadPendingRecordings`, which one refused recording ends. The free space of
  the disk (its checks only refuse more), the audit quota of continuous
  recordings and the time of a worker's retry are left out. One step each: the
  locks that a completed session and a recovery take one after the other, the
  writing of media under a temporary name and its rename, the removal of a
  directory with its files.
- Authoring: the retired V1 and V2 endpoints, the pairing rate limit, the
  call-safety settings and their own acknowledgement, and the check that no
  revision was published since the review (`v4_api.py:287-292`), which only refuses.
- Rollout: failing copies, writes and directory syncs of a staging
  (`main.cpp:1913-1975`) other than a death between them. A call is busy for app and
  helper at once. `Queue` clears `rejected`: `waitForHelper` ignores a rejection
  that was there before its command (`SyncCoordinator.kt:277-285`), so a second
  one in a row may be seen by the app only as a time-out (`SyncTimesOut`). The second
  `api.sync` of a sync is part of the step that uses its answer.
- Calls: seeding of legacy rows, manual corrections, presence and storage
  watches, the content of messages. Events travel on their own and not inside a
  call's snapshot; the outbox holds fewer events than its cap of 128 and sends one
  in a batch; a heartbeat during a call acknowledges no policy. Writing a final
  call and deleting its journal, and writing an audit acknowledgement and removing
  the spool entry, are one step each.
- Flow: the V1 menu executor, calendars of schedules (any branch may be taken),
  the limit on asset bytes, the revision diff. Digits are the two that drafts
  bind and one they do not; the others behave as one of these. The tablet's check
  of field ranges, of the compiler's version, of barge-in and of the existence of prompts and
  schedules, and the validator's of duplicate branch names, schedules and time
  zones are left out: a draft is well-formed in these respects.
- Incoming admission and the Telecom recovery barrier: they decide from native
  snapshots whether and when to answer. `GuardedSession` starts with an answered
  or ringing caller and lets the app cancel at any time; `CallReports` starts
  with the journalled call.
- Boot and Wi-Fi recovery is a bounded retry of Android services. Signal
  processing (DTMF, WAV), cryptography, HTTP and SQL plumbing, the dashboard and
  release tooling have no state machine of their own to check.

## Plan

The models are complete in the sense above, and every safety property that a run
checks is proved. What could follow, in the order of what it would say most:

1. The hazards without a property (`PROJECT.json`): the guardian's
   owned-conference phases and a death of the guardian while it holds the worker
   stopped; the tablet's recording spool as files, where a hand-off is several
   renames.
2. The hypotheses that stand for code that breaks a property. A change to the
   code (the sweep under the policy lock, a status file that names its attempt, a
   check of `journal.write`) should end with the hypothesis dropped from its
   theorem.
