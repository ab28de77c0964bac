--------------------------- MODULE GuardedSession ---------------------------
(***************************************************************************)
(* One answered call of the privileged helper (src/helper/src/main.cpp):   *)
(* the worker that runs the menu, the guardian process that watches it,    *)
(* the mixer route and its durable snapshot, Telecom, and the supervisor   *)
(* (service.sh) that starts the helper again.                              *)
(*                                                                         *)
(* Worker and guardian are two processes.  Both may end up in the same     *)
(* recovery code (EndSingleCallAndWait and what follows it), also at the   *)
(* same time: the guardian kills the worker and recovers, the supervisor   *)
(* starts a new helper that finds the same snapshot.  That code is         *)
(* therefore one set of actions with the process as a parameter, split     *)
(* wherever it reads or writes Telecom, the mixer or the snapshot file.    *)
(*                                                                         *)
(* Deadlines are nondeterministic: a wait may expire whenever it is not    *)
(* over.  The bytes of the phase protocol are abstracted to what the       *)
(* guardian does with them; phases that only re-arm a deadline             *)
(* ('P', 'I', 'L', 'V') are not queued.                                    *)
(***************************************************************************)
EXTENDS Integers, FiniteSets, Sequences

CONSTANTS
    Calls,          \* every call Telecom may show
    Caller,         \* the ringing caller START_MENU is about
    Emergencies,    \* the calls Telecom marks as emergency calls
    Baselines,      \* the audited paths the mixer may have before the answer
    MaxFaults,      \* bound on lost hangups, unreadable dumps and deaths
    None

ASSUME CallsAssumption ==
    /\ IsFiniteSet(Calls)
    /\ Caller \in Calls
    /\ Emergencies \subseteq Calls \ {Caller}
    /\ None \notin Calls
    /\ Baselines \subseteq {"normal", "prompt"} /\ Baselines # {}
    /\ MaxFaults \in Nat

\* kRecoveryMaximumHangupAttempts, and the four attempts of
\* EndOwnedCallsAndWait.
MaxHangups == 2
MaxOwnedHangups == 4

VARIABLES
    line,       \* the live calls of the Telecom dump
    seen,       \* calls that have appeared: Telecom never reuses an identity
    answered,   \* somebody, usually the app, answered the caller
    cancelled,  \* the app revoked the admission (<uuid>.cancelled)
    mode,       \* MODE_NORMAL or MODE_IN_CALL
    route,      \* the four mixer controls: path and physical endpoints
    snapshot,   \* the durable session snapshot, or None
    mine,       \* history: the call BeginPrivateSession adopted, or None
    pc,         \* where each process is
    ending,     \* the locals of EndSingleCallAndWait in each process
    connected,  \* the worker's end of the control socket is open
    toGuardian, toWorker, \* the two directions of the control socket
    result,     \* the outcome the worker is about to report
    watch,      \* the guardian's flags
    freed,      \* history: the guardian acknowledged the release
    given,      \* history: why the session gave the call up, if it did
    late,       \* history: calls that appeared while a hangup was on its way
    victims,    \* history: calls a hangup ended that were not the session's
    faults

telecom == <<line, seen, answered, cancelled>>
audio == <<mode, route>>
socket == <<connected, toGuardian, toWorker>>
history == <<mine, freed, given, late, victims>>
vars == <<telecom, audio, snapshot, pc, ending, socket, result, watch,
          history, faults>>

Processes == {"helper", "guardian"}
Paths == {"normal", "call", "prompt"}
Routes == [path : Paths, ends : {"open", "muted"}]
Snapshots == [call : Calls, path : {"normal", "prompt"}]
Messages == {"arm", "ending", "done", "recover", "preempt"}

ASSUME NoneAssumption == None \notin Snapshots /\ None \notin Messages
Replies == {"Q", "R", "J", "E"}

RecoveryPcs ==
    {"load", "look", "hold", "apply", "final", "send", "restore", "wipe",
     "unroute", "clear", "lasthold", "lastapply"}
HelperPcs == RecoveryPcs \cup
    {"idle", "begin", "mute", "arm", "waitArmed", "waitRoute", "waitInCall",
     "check", "waitReady", "menu", "prompt", "finish", "waitAck", "unproven",
     "frozen", "down", "ready", "released"}
GuardianPcs == RecoveryPcs \cup
    {"off", "unarmed", "watch", "ownedLook", "ownedSend", "gone"}

TypeOK ==
    /\ line \subseteq Calls /\ seen \subseteq Calls
    /\ answered \in BOOLEAN /\ cancelled \in BOOLEAN
    /\ mode \in {"normal", "incall"} /\ route \in Routes
    /\ snapshot \in Snapshots \cup {None}
    /\ mine \in Calls \cup {None}
    /\ pc["helper"] \in HelperPcs /\ pc["guardian"] \in GuardianPcs
    /\ DOMAIN pc = Processes
    /\ ending \in [Processes -> [own : Calls \cup {None},
                                tries : 0..MaxOwnedHangups, hangup : BOOLEAN]]
    /\ connected \in BOOLEAN
    /\ toGuardian \in Seq(Messages) /\ toWorker \in Seq(Replies)
    /\ result \in Messages \cup {None}
    /\ watch \in [armed : BOOLEAN, ready : BOOLEAN, told : BOOLEAN,
                  ending : BOOLEAN]
    /\ freed \in BOOLEAN
    /\ given \in {"no", "preempted", "limit"}
    /\ late \subseteq Calls /\ victims \subseteq Calls
    /\ faults \in 0..MaxFaults

\* Locals of a process that does not use them are reset.
NotEnding == [own |-> None, tries |-> 0, hangup |-> FALSE]
NotWatching == [armed |-> FALSE, ready |-> FALSE, told |-> FALSE,
                ending |-> FALSE]

Init ==
    /\ line = {Caller} /\ seen = {Caller}
    /\ answered = FALSE /\ cancelled = FALSE
    /\ mode = "normal"
    /\ route \in [path : Baselines, ends : {"open"}]
    /\ snapshot = None /\ mine = None
    /\ pc = [helper |-> "idle", guardian |-> "off"]
    /\ ending = [a \in Processes |-> NotEnding]
    /\ connected = FALSE /\ toGuardian = <<>> /\ toWorker = <<>>
    /\ result = None
    /\ watch = NotWatching
    /\ freed = FALSE /\ given = "no" /\ late = {} /\ victims = {}
    /\ faults = 0

(***************************************************************************)
(* Telecom, people, the vendor audio HAL and the app: the environment.     *)
(***************************************************************************)

\* ReadLiveCallObservation compared with the identity `own`.  Unreadable
\* dumps (Unknown) are a separate alternative of each reader.
View(own) ==
    IF line \cap Emergencies # {} THEN "emergency"
    ELSE IF Cardinality(line) > 1 THEN "multiple"
    ELSE IF line = {} THEN "idle"
    ELSE IF line = {own} THEN "mine" ELSE "other"

Fault == /\ faults < MaxFaults
         /\ faults' = faults + 1

CallArrives(c) ==
    /\ c \notin seen
    /\ line' = line \cup {c} /\ seen' = seen \cup {c}
    /\ late' = IF \E a \in Processes : pc[a] \in {"send", "ownedSend"}
               THEN late \cup {c} ELSE late
    /\ UNCHANGED <<answered, cancelled, audio, snapshot, pc, ending, socket,
                   result, watch, mine, freed, given, victims, faults>>

CallEnds(c) ==
    /\ c \in line
    /\ line' = line \ {c}
    /\ UNCHANGED <<seen, answered, cancelled, audio, snapshot, pc, ending,
                   socket, result, watch, history, faults>>

\* The app answers once the helper publishes WaitingForCall; a person may
\* answer in the stock dialer at any time.
CallerAnswered ==
    /\ Caller \in line /\ ~answered
    /\ answered' = TRUE
    /\ UNCHANGED <<line, seen, cancelled, audio, snapshot, pc, ending, socket,
                   result, watch, history, faults>>

AppCancels ==
    /\ ~answered /\ ~cancelled
    /\ cancelled' = TRUE
    /\ UNCHANGED <<line, seen, answered, audio, snapshot, pc, ending, socket,
                   result, watch, history, faults>>

\* Android changes the audio mode after the call list; the HAL routes the
\* call when it starts and may route it again while it lasts.
CallRouted == [path |-> "call", ends |-> "open"]

ModeEntersCall ==
    /\ mode = "normal"
    /\ line \ (IF answered THEN {} ELSE {Caller}) # {}
    /\ mode' = "incall" /\ route' = CallRouted
    /\ UNCHANGED <<telecom, snapshot, pc, ending, socket, result, watch,
                   history, faults>>

ModeLeavesCall ==
    /\ mode = "incall" /\ line = {}
    /\ mode' = "normal"
    /\ UNCHANGED <<route, telecom, snapshot, pc, ending, socket, result,
                   watch, history, faults>>

VendorRewrites ==
    /\ \/ mode = "incall" /\ route' = CallRouted
       \/ /\ mode = "normal" /\ route.path = "call"
          /\ route' = [path |-> "normal", ends |-> "open"]
    /\ UNCHANGED <<mode, telecom, snapshot, pc, ending, socket, result, watch,
                   history, faults>>

-----------------------------------------------------------------------------
(***************************************************************************)
(* The recovery code that worker, restarted helper and guardian share.     *)
(***************************************************************************)

Goto(a, l) == pc' = [pc EXCEPT ![a] = l]

Muted == [route EXCEPT !.ends = "muted"]

\* Mutant: a failed hangup is treated as a yielded call.
RecoveryAfterReleases(verdict) ==
    IF verdict = "ended" THEN "restore" ELSE "unroute"

\* RecoverAndEndFailedSession and RecoverStaleSnapshot restore the normal
\* route, release the session to Android or keep the private route.
RecoveryAfter(verdict) ==
    CASE verdict = "ended" -> "restore"
      [] verdict = "preempted" -> "unroute"
      [] verdict = "failed" -> "lasthold"

\* FinishSuccessfulMenu turns the verdict into the outcome it reports.
OutcomeAfter(verdict) ==
    CASE verdict = "ended" -> "done"
      [] verdict = "preempted" -> "preempt"
      [] verdict = "failed" -> "recover"

\* What follows EndSingleCallAndWait: only the worker of an open session
\* reports, everybody else recovers.
Conclude(a, verdict) ==
    /\ ending' = [ending EXCEPT ![a] = NotEnding]
    /\ IF a = "helper" /\ connected
       THEN /\ Goto(a, "finish") /\ result' = OutcomeAfter(verdict)
            /\ UNCHANGED given
       ELSE /\ Goto(a, RecoveryAfter(verdict))
            /\ given' = IF verdict = "preempted" /\ given = "no"
                        THEN "preempted" ELSE given
            /\ UNCHANGED result

\* EndSingleCallAndWait loads the snapshot once and keeps the identity.
Load(a) ==
    /\ pc[a] = "load"
    /\ IF snapshot = None
       THEN Conclude(a, "preempted")
       ELSE /\ Goto(a, "look")
            /\ ending' = [ending EXCEPT ![a] =
                            [NotEnding EXCEPT !.own = snapshot.call]]
            /\ UNCHANGED <<result, given>>
    /\ UNCHANGED <<telecom, audio, snapshot, socket, watch, mine, freed, late,
                   victims, faults>>

\* One poll that decides.  A Telecom dump that stays unreadable yields; one
\* that is slow runs into the total bound.
LookDecides(a) ==
    /\ pc[a] = "look"
    /\ LET view == View(ending[a].own) IN
       \/ /\ view \in {"emergency", "multiple", "other"}
          /\ Conclude(a, "preempted") /\ UNCHANGED faults
       \/ /\ view = "idle"
          /\ Conclude(a, "ended") /\ UNCHANGED faults
       \/ /\ view = "mine" /\ ending[a].tries < MaxHangups
          /\ Goto(a, "hold") /\ ending' = [ending EXCEPT ![a].hangup = TRUE]
          /\ UNCHANGED <<result, given, faults>>
       \/ /\ view = "mine" /\ ending[a].tries = MaxHangups
          /\ Conclude(a, "failed") /\ UNCHANGED faults
    /\ UNCHANGED <<telecom, audio, snapshot, socket, watch, mine, freed, late,
                   victims>>

LookFails(a) ==
    /\ pc[a] = "look" /\ Fault
    /\ \/ Conclude(a, "preempted")
       \/ View(ending[a].own) \in {"idle", "mine"} /\ Conclude(a, "failed")
    /\ UNCHANGED <<telecom, audio, snapshot, socket, watch, mine, freed, late,
                   victims>>

\* A poll that confirms what it saw only later still holds the route.
LookWaits(a) ==
    /\ pc[a] = "look" /\ View(ending[a].own) \in {"idle", "mine"}
    /\ Goto(a, "hold") /\ ending' = [ending EXCEPT ![a].hangup = FALSE]
    /\ UNCHANGED <<telecom, audio, snapshot, socket, result, watch, history,
                   faults>>

\* ForcePrivateRouteForRecovery: the snapshot file is tested, then the
\* endpoints are muted.
AfterHold(a) == IF ending[a].hangup THEN "final" ELSE "look"

Hold(a) ==
    /\ pc[a] = "hold"
    /\ Goto(a, IF snapshot = None THEN AfterHold(a) ELSE "apply")
    /\ UNCHANGED <<telecom, audio, snapshot, ending, socket, result, watch,
                   history, faults>>

Apply(a) ==
    /\ pc[a] = "apply"
    /\ Goto(a, AfterHold(a)) /\ route' = Muted
    /\ UNCHANGED <<mode, telecom, snapshot, ending, socket, result, watch,
                   history, faults>>

\* Mutant: the second look before the hangup is dropped.
FinalUnchecked(a) ==
    /\ pc[a] = "final"
    /\ Goto(a, "send")
    /\ UNCHANGED <<telecom, audio, snapshot, ending, socket, result, watch,
                   history, faults>>

\* The second look; anything but the session's own call forbids the hangup.
Final(a) ==
    /\ pc[a] = "final"
    /\ \/ /\ View(ending[a].own) = "mine"
          /\ Goto(a, "send") /\ UNCHANGED <<ending, result, given, faults>>
       \/ /\ View(ending[a].own) # "mine"
          /\ Conclude(a, "preempted") /\ UNCHANGED faults
       \/ /\ Fault /\ Conclude(a, "preempted")
    /\ UNCHANGED <<telecom, audio, snapshot, socket, watch, mine, freed, late,
                   victims>>

\* SendFixedTelecomEndCall names no call: Telecom ends the one it has.
EndSomeCall(own) ==
    IF line = {} THEN UNCHANGED <<line, victims>>
    ELSE \E c \in line : /\ line' = line \ {c}
                         /\ victims' = victims \cup ({c} \ {own})

Send(a) ==
    /\ pc[a] = "send"
    /\ \/ EndSomeCall(ending[a].own) /\ UNCHANGED faults
       \/ Fault /\ UNCHANGED <<line, victims>>
    /\ Goto(a, "look")
    /\ ending' = [ending EXCEPT ![a].tries = @ + 1]
    /\ UNCHANGED <<seen, answered, cancelled, audio, snapshot, socket, result,
                   watch, mine, freed, given, late>>

\* The process is through: the guardian acknowledges and leaves, the
\* restarted helper is ready or exits for the supervisor to start again.
Through(a, safe) ==
    IF a = "helper"
    THEN /\ Goto(a, IF safe THEN "ready" ELSE "down")
         /\ UNCHANGED <<toWorker, freed>>
    ELSE /\ Goto(a, "gone")
         /\ freed' = safe
         /\ toWorker' = IF connected
                        THEN Append(toWorker, IF safe THEN "R" ELSE "E")
                        ELSE toWorker

\* RecoverMixerSnapshot(AuditedPostCall): audited path, captured endpoints.
RestoreRoute(a) ==
    /\ pc[a] = "restore"
    /\ IF snapshot = None
       THEN Through(a, TRUE) /\ UNCHANGED route
       ELSE /\ route' = [path |-> "normal", ends |-> "open"]
            /\ Goto(a, "wipe") /\ UNCHANGED <<toWorker, freed>>
    /\ UNCHANGED <<mode, telecom, snapshot, ending, connected, toGuardian,
                   result, watch, mine, given, late, victims, faults>>

WipeSnapshot(a) ==
    /\ pc[a] = "wipe"
    /\ snapshot' = None /\ Through(a, TRUE)
    /\ UNCHANGED <<telecom, audio, ending, connected, toGuardian, result,
                   watch, mine, given, late, victims, faults>>

\* RestoreRouteForPreemption: give Android the route its mode asks for.
ReleaseRoute(a) ==
    /\ pc[a] = "unroute"
    /\ IF snapshot = None
       THEN Through(a, TRUE) /\ UNCHANGED route
       ELSE /\ route' =
                 IF mode = "incall" THEN CallRouted
                 ELSE IF route.path \in {"normal", snapshot.path}
                 THEN [path |-> snapshot.path, ends |-> "open"]
                 ELSE route
            /\ Goto(a, "clear") /\ UNCHANGED <<toWorker, freed>>
    /\ UNCHANGED <<mode, telecom, snapshot, ending, connected, toGuardian,
                   result, watch, mine, given, late, victims, faults>>

ReleaseSnapshot(a) ==
    /\ pc[a] = "clear"
    /\ snapshot' = None /\ Through(a, TRUE)
    /\ UNCHANGED <<telecom, audio, ending, connected, toGuardian, result,
                   watch, mine, given, late, victims, faults>>

\* Mutant: the failed hangup drops the snapshot, as a release does.
KeepPrivateForgets(a) ==
    /\ pc[a] = "lasthold"
    /\ snapshot' = None /\ Through(a, FALSE)
    /\ UNCHANGED <<telecom, audio, ending, connected, toGuardian, result,
                   watch, mine, given, late, victims, faults>>

\* A hangup that failed: hold the route once more and keep the snapshot.
KeepPrivate(a) ==
    /\ \/ /\ pc[a] = "lasthold" /\ UNCHANGED route
          /\ IF snapshot = None
             THEN Through(a, FALSE)
             ELSE Goto(a, "lastapply") /\ UNCHANGED <<toWorker, freed>>
       \/ /\ pc[a] = "lastapply"
          /\ route' = Muted /\ Through(a, FALSE)
    /\ UNCHANGED <<mode, telecom, snapshot, ending, connected, toGuardian,
                   result, watch, mine, given, late, victims, faults>>

RecoveryStep(a) ==
    \/ Load(a) \/ Hold(a) \/ Apply(a) \/ Final(a) \/ Send(a)
    \/ RestoreRoute(a) \/ WipeSnapshot(a)
    \/ ReleaseRoute(a) \/ ReleaseSnapshot(a) \/ KeepPrivate(a)

-----------------------------------------------------------------------------
(***************************************************************************)
(* The worker: ProcessOneCommand and the session it runs.                  *)
(***************************************************************************)

GuardianThere == pc["guardian"] # "gone"
Leave(m) == Goto("helper", "finish") /\ result' = m

\* PrivacyResultForCallDisposition and its siblings: what the session ends
\* as, by one more look at Telecom.
LeaveByLook ==
    \/ /\ Leave(IF View(mine) \in {"emergency", "multiple"}
                THEN "preempt" ELSE "recover")
       /\ UNCHANGED faults
    \/ Fault /\ Leave("recover")

\* START_MENU is accepted for the only ringing caller, and rejected if
\* Telecom shows anything else.
StartMenu ==
    /\ pc["helper"] = "idle"
    /\ IF line = {Caller} /\ ~answered
       THEN /\ pc' = [helper |-> "begin", guardian |-> "unarmed"]
            /\ connected' = TRUE
       ELSE Goto("helper", "ready") /\ UNCHANGED connected
    /\ UNCHANGED <<telecom, audio, snapshot, ending, toGuardian, toWorker,
                   result, watch, history, faults>>

\* The first half of BeginPrivateSession, up to the durable snapshot.  It
\* adopts whichever single call it finds.
BeginPrivateSession ==
    /\ pc["helper"] = "begin"
    /\ IF cancelled
       THEN Leave("preempt") /\ UNCHANGED <<snapshot, mine, faults>>
       ELSE IF /\ mode = "normal" /\ Cardinality(line) = 1
               /\ line \cap Emergencies = {}
       THEN IF route.path = "call"
            THEN Leave("recover") /\ UNCHANGED <<snapshot, mine, faults>>
            ELSE \E c \in line :
                    /\ snapshot' = [call |-> c, path |-> route.path]
                    /\ mine' = c
                    /\ Goto("helper", "mute") /\ UNCHANGED <<result, faults>>
       ELSE LeaveByLook /\ UNCHANGED <<snapshot, mine>>
    /\ UNCHANGED <<telecom, audio, ending, socket, watch, freed, given, late,
                   victims>>

EstablishInitialPrivacy ==
    /\ pc["helper"] = "mute"
    /\ \/ /\ route' = [path |-> "normal", ends |-> "muted"]
          /\ Goto("helper", "arm") /\ UNCHANGED <<result, faults>>
       \/ Fault /\ Leave("recover") /\ UNCHANGED route
    /\ UNCHANGED <<mode, telecom, snapshot, ending, socket, watch, history>>

\* NotifyGuardian fails once the guardian has closed its end.
Notify(m, next) ==
    IF GuardianThere
    THEN /\ toGuardian' = Append(toGuardian, m)
         /\ Goto("helper", next) /\ UNCHANGED result
    ELSE Leave("recover") /\ UNCHANGED toGuardian

ArmPrivacy ==
    /\ pc["helper"] = "arm"
    /\ Notify("arm", "waitArmed")
    /\ UNCHANGED <<telecom, audio, snapshot, ending, connected, toWorker,
                   watch, history, faults>>

\* WaitForGuardianMessage takes the next message, whatever it is.
AwaitMessage(at, expected, next) ==
    /\ pc["helper"] = at
    /\ \/ /\ toWorker # <<>>
          /\ toWorker' = Tail(toWorker)
          /\ IF Head(toWorker) = expected
             THEN Goto("helper", next) /\ UNCHANGED result
             ELSE Leave("recover")
       \/ /\ toWorker = <<>> /\ ~GuardianThere
          /\ Leave("recover") /\ UNCHANGED toWorker
    /\ UNCHANGED <<telecom, audio, snapshot, ending, connected, toGuardian,
                   watch, history, faults>>

\* After 'Q' the helper publishes WaitingForCall and holds the endpoints
\* muted until the call route is there.
AwaitCallRoute ==
    /\ pc["helper"] = "waitRoute"
    /\ IF cancelled
       THEN Leave("preempt") /\ UNCHANGED route
       ELSE /\ route' = Muted
            /\ Goto("helper", IF route.path = "call"
                              THEN "waitInCall" ELSE "waitRoute")
            /\ UNCHANGED result
    /\ UNCHANGED <<mode, telecom, snapshot, ending, socket, watch, history,
                   faults>>

WaitForInCall ==
    /\ pc["helper"] = "waitInCall"
    /\ \/ cancelled /\ LeaveByLook
       \/ /\ ~cancelled /\ mode = "incall"
          /\ Goto("helper", "check") /\ UNCHANGED <<result, faults>>
    /\ UNCHANGED <<telecom, audio, snapshot, ending, socket, watch, history>>

CheckActiveCall ==
    /\ pc["helper"] = "check"
    /\ CASE View(mine) = "mine" ->
              /\ IF GuardianThere
                 THEN Goto("helper", "waitReady") /\ UNCHANGED result
                 ELSE Leave("recover")
              /\ UNCHANGED faults
         [] View(mine) = "other" -> Leave("preempt") /\ UNCHANGED faults
         [] OTHER -> LeaveByLook
    /\ UNCHANGED <<telecom, audio, snapshot, ending, socket, watch, history>>

PrivateRoute == [path |-> "call", ends |-> "muted"]

\* ProcessPrompt: the route must still be private before it is injected, and
\* is private again after the prompt.
PlayPrompt ==
    /\ pc["helper"] = "menu"
    /\ IF mode # "incall"
       THEN LeaveByLook /\ UNCHANGED route
       ELSE IF GuardianThere /\ route = PrivateRoute
       THEN /\ route' = [path |-> "prompt", ends |-> "muted"]
            /\ Goto("helper", "prompt") /\ UNCHANGED <<result, faults>>
       ELSE Leave("recover") /\ UNCHANGED <<route, faults>>
    /\ UNCHANGED <<mode, telecom, snapshot, ending, socket, watch, history>>

PromptEnds ==
    /\ pc["helper"] = "prompt"
    /\ route' = PrivateRoute
    /\ \/ /\ IF GuardianThere
             THEN Goto("helper", "menu") /\ UNCHANGED result
             ELSE Leave("recover")
          /\ UNCHANGED faults
       \/ GuardianThere /\ mode # "incall" /\ LeaveByLook
    /\ UNCHANGED <<mode, telecom, snapshot, ending, socket, watch, history>>

\* A recording or an external call reads the guardian's hangup notice.
HearHangup ==
    /\ pc["helper"] = "menu"
    /\ toWorker # <<>> /\ Head(toWorker) = "J"
    /\ toWorker' = Tail(toWorker) /\ Leave("recover")
    /\ UNCHANGED <<telecom, audio, snapshot, ending, connected, toGuardian,
                   watch, history, faults>>

FinishSuccessfulMenu ==
    /\ pc["helper"] = "menu"
    /\ Notify("ending", "load")
    /\ UNCHANGED <<telecom, audio, snapshot, ending, connected, toWorker,
                   watch, history, faults>>

Disconnect == connected' = FALSE /\ toWorker' = <<>>

\* FinishSessionGuardian: report, then wait for the acknowledgement.
ReportResult ==
    /\ pc["helper"] = "finish"
    /\ IF GuardianThere
       THEN /\ toGuardian' = Append(toGuardian, result)
            /\ Goto("helper", "waitAck") /\ UNCHANGED <<connected, toWorker>>
       ELSE Goto("helper", "unproven") /\ Disconnect /\ UNCHANGED toGuardian
    /\ result' = None
    /\ UNCHANGED <<telecom, audio, snapshot, ending, watch, history, faults>>

AwaitAck ==
    /\ pc["helper"] = "waitAck"
    /\ IF toWorker = <<>>
       THEN ~GuardianThere /\ Goto("helper", "unproven") /\ Disconnect
       ELSE IF Head(toWorker) = "J"
       THEN toWorker' = Tail(toWorker) /\ UNCHANGED <<pc, connected>>
       ELSE /\ Goto("helper", IF Head(toWorker) = "R"
                              THEN "released" ELSE "unproven")
            /\ Disconnect
    /\ UNCHANGED <<telecom, audio, snapshot, ending, toGuardian, result,
                   watch, history, faults>>

\* No release proof: wait two seconds, kill a guardian that is still there,
\* and stop; the supervisor starts the helper again.
StopUnproven ==
    /\ pc["helper"] = "unproven"
    /\ pc' = [helper |-> "down", guardian |-> "gone"]
    /\ ending' = [a \in Processes |-> NotEnding]
    /\ toGuardian' = <<>> /\ watch' = NotWatching
    /\ UNCHANGED <<telecom, audio, snapshot, connected, toWorker, result,
                   history, faults>>

WaitExpires ==
    /\ \/ /\ pc["helper"] \in {"waitArmed", "waitReady"}
          /\ Leave("recover") /\ UNCHANGED <<connected, toWorker, faults>>
       \/ /\ pc["helper"] \in {"waitRoute", "waitInCall"}
          /\ LeaveByLook /\ UNCHANGED <<connected, toWorker>>
       \/ /\ pc["helper"] = "waitAck"
          /\ Goto("helper", "unproven") /\ Disconnect
          /\ UNCHANGED <<result, faults>>
    /\ UNCHANGED <<telecom, audio, snapshot, ending, toGuardian, watch,
                   history>>

\* Mutant: the restarted helper does not look for an unfinished session.
RestartBlind ==
    /\ pc["helper"] = "down"
    /\ Goto("helper", "ready")
    /\ UNCHANGED <<telecom, audio, snapshot, ending, socket, result, watch,
                   history, faults>>

\* service.sh starts the helper; RecoverStaleSnapshot is the first it does.
Restart ==
    /\ pc["helper"] = "down"
    /\ Goto("helper", IF snapshot = None THEN "ready" ELSE "load")
    /\ UNCHANGED <<telecom, audio, snapshot, ending, socket, result, watch,
                   history, faults>>

WorkerStep ==
    \/ BeginPrivateSession \/ EstablishInitialPrivacy \/ ArmPrivacy
    \/ AwaitMessage("waitArmed", "Q", "waitRoute")
    \/ AwaitCallRoute \/ WaitForInCall \/ CheckActiveCall
    \/ AwaitMessage("waitReady", "R", "menu")
    \/ PlayPrompt \/ PromptEnds \/ HearHangup \/ FinishSuccessfulMenu
    \/ ReportResult \/ AwaitAck \/ StopUnproven \/ Restart

-----------------------------------------------------------------------------
(***************************************************************************)
(* The guardian.                                                           *)
(***************************************************************************)

\* The process the guardian was forked for still exists.
WorkerThere == connected \/ pc["helper"] \in {"unproven", "released"}

\* The guardian stops watching and goes on at l; kill says that it sends the
\* worker SIGKILL.
GuardianGoes(l, kill) ==
    /\ toGuardian' = <<>> /\ watch' = NotWatching
    /\ IF kill /\ WorkerThere
       THEN /\ pc' = [helper |-> "down", guardian |-> l]
            /\ ending' = [a \in Processes |-> NotEnding]
            /\ Disconnect /\ result' = None
       ELSE /\ Goto("guardian", l)
            /\ ending' = [ending EXCEPT !["guardian"] = NotEnding]
            /\ UNCHANGED <<connected, toWorker, result>>

Surrender(why) == given' = IF given = "no" THEN why ELSE given

PreemptAndExitGuardian(kill) ==
    GuardianGoes("unroute", kill) /\ Surrender("preempted")

\* RecoverAndEndFailedSession gives a cancelled admission back to Android.
RecoverAndExitGuardian(kill) ==
    IF cancelled THEN PreemptAndExitGuardian(kill)
    ELSE GuardianGoes("load", kill) /\ UNCHANGED given

Watching == pc["guardian"] \in {"unarmed", "watch"}

\* 'B' starts the watch, with the identity the snapshot holds.
GuardianArms ==
    /\ Watching /\ toGuardian # <<>> /\ Head(toGuardian) = "arm"
    /\ IF snapshot # None
       THEN /\ Goto("guardian", "watch")
            /\ toGuardian' = Tail(toGuardian)
            /\ ending' = [ending EXCEPT !["guardian"].own = snapshot.call]
            /\ UNCHANGED <<connected, toWorker, result, watch, given>>
       ELSE PreemptAndExitGuardian(TRUE)
    /\ UNCHANGED <<telecom, audio, snapshot, mine, freed, late, victims, faults>>

\* 'E': from now on an idle line is what the worker is working for.
GuardianSeesEnding ==
    /\ Watching /\ toGuardian # <<>> /\ Head(toGuardian) = "ending"
    /\ toGuardian' = Tail(toGuardian)
    /\ watch' = [watch EXCEPT !.ending = TRUE]
    /\ UNCHANGED <<telecom, audio, snapshot, pc, ending, connected, toWorker,
                   result, history, faults>>

\* The outcome the worker reports decides how the guardian leaves.
GuardianReads ==
    /\ Watching /\ toGuardian # <<>>
    /\ LET m == Head(toGuardian) IN
       \/ m = "done" /\ GuardianGoes("restore", FALSE) /\ UNCHANGED given
       \/ m = "recover" /\ RecoverAndExitGuardian(FALSE)
       \/ m = "preempt" /\ PreemptAndExitGuardian(FALSE)
    /\ UNCHANGED <<telecom, audio, snapshot, mine, freed, late, victims, faults>>

\* enforcePrivacy: arm the pre-answer route, hold the endpoints muted, and
\* acknowledge a call route that stayed private.
EnforcePrivacy ==
    /\ pc["guardian"] = "watch" /\ connected
    /\ \/ /\ ~watch.armed
          /\ route' = [path |-> "normal", ends |-> "muted"]
          /\ watch' = [watch EXCEPT !.armed = TRUE]
          /\ toWorker' = Append(toWorker, "Q")
       \/ /\ watch.armed /\ route.ends = "open"
          /\ route' = Muted /\ UNCHANGED <<watch, toWorker>>
       \/ /\ watch.armed /\ ~watch.ready /\ route = PrivateRoute
          /\ watch' = [watch EXCEPT !.ready = TRUE]
          /\ toWorker' = Append(toWorker, "R") /\ UNCHANGED route
    /\ UNCHANGED <<mode, telecom, snapshot, pc, ending, connected, toGuardian,
                   result, history, faults>>

\* The call monitor's observation, read by the guardian.
MonitorSees ==
    /\ pc["guardian"] = "watch"
    /\ LET view == View(ending["guardian"].own) IN
       \/ /\ view \in {"emergency", "multiple", "other"}
          /\ PreemptAndExitGuardian(TRUE) /\ UNCHANGED faults
       \/ /\ view = "idle" /\ ~watch.ending /\ ~watch.told /\ connected
          /\ watch' = [watch EXCEPT !.told = TRUE]
          /\ toWorker' = Append(toWorker, "J")
          /\ UNCHANGED <<pc, ending, connected, toGuardian, result, given,
                         faults>>
       \/ Fault /\ PreemptAndExitGuardian(TRUE)
    /\ UNCHANGED <<telecom, audio, snapshot, mine, freed, late, victims>>

\* A phase, the session or 250 ms of contested privacy overruns.
GuardianDeadline ==
    /\ Watching
    /\ RecoverAndExitGuardian(TRUE)
    /\ UNCHANGED <<telecom, audio, snapshot, mine, freed, late, victims, faults>>

ControlClosed ==
    /\ Watching /\ ~connected /\ toGuardian = <<>>
    /\ RecoverAndExitGuardian(FALSE)
    /\ UNCHANGED <<telecom, audio, snapshot, mine, freed, late, victims, faults>>

\* The call lasted as long as it may: EndOwnedSessionGuardian stops the
\* worker where it is and ends the owned call without a snapshot.
CallLimitExpires ==
    /\ pc["guardian"] = "watch" /\ answered
    /\ pc' = [helper |-> IF WorkerThere THEN "frozen" ELSE pc["helper"],
              guardian |-> "ownedLook"]
    /\ ending' = [a \in Processes |-> IF a = "guardian" \/ WorkerThere
                                     THEN NotEnding ELSE ending[a]]
    /\ toGuardian' = <<>> /\ watch' = NotWatching
    /\ UNCHANGED <<telecom, audio, snapshot, connected, toWorker, result,
                   history, faults>>

\* Afterwards the stopped worker is killed and the session restored or,
\* whatever else happened, released.
OwnedConclude(l, why) ==
    /\ ending' = [ending EXCEPT !["guardian"] = NotEnding]
    /\ IF pc["helper"] = "frozen"
       THEN /\ pc' = [helper |-> "down", guardian |-> l]
            /\ Disconnect /\ result' = None
       ELSE /\ Goto("guardian", l)
            /\ UNCHANGED <<connected, toWorker, result>>
    /\ IF why = "no" THEN UNCHANGED given ELSE Surrender(why)

\* Mutant: one attempt too many.
MayHangUpOnceMore(attempts) == attempts <= MaxOwnedHangups

MayHangUpAgain(attempts) == attempts < MaxOwnedHangups

\* EndOwnedCallsAndWait: one poll.
OwnedLook ==
    /\ pc["guardian"] = "ownedLook"
    /\ LET attempts == ending["guardian"].tries IN
       \/ /\ View(Caller) \in {"emergency", "multiple", "other"}
          /\ OwnedConclude("unroute", "preempted") /\ UNCHANGED faults
       \/ Fault /\ OwnedConclude("unroute", "preempted")
       \/ /\ View(Caller) = "idle"
          /\ OwnedConclude("restore", "no") /\ UNCHANGED faults
       \/ /\ View(Caller) = "mine" /\ MayHangUpAgain(attempts)
          /\ Goto("guardian", "ownedSend")
          /\ UNCHANGED <<ending, connected, toWorker, result, given, faults>>
       \/ /\ View(Caller) = "mine" /\ ~MayHangUpAgain(attempts)
          /\ OwnedConclude("unroute", "limit") /\ UNCHANGED faults
    /\ UNCHANGED <<telecom, audio, snapshot, toGuardian, watch, mine, freed, late,
                   victims>>

\* A refused hangup fails at once; an accepted one may have no effect.
OwnedSend ==
    /\ pc["guardian"] = "ownedSend"
    /\ \/ /\ (EndSomeCall(Caller) \/ UNCHANGED <<line, victims>>)
          /\ Goto("guardian", "ownedLook")
          /\ ending' = [ending EXCEPT !["guardian"].tries = @ + 1]
          /\ UNCHANGED <<connected, toWorker, result, given, faults>>
       \/ /\ Fault /\ OwnedConclude("unroute", "limit")
          /\ UNCHANGED <<line, victims>>
    /\ UNCHANGED <<seen, answered, cancelled, audio, snapshot, toGuardian, watch,
                   mine, freed, late>>

GuardianStep ==
    \/ GuardianArms \/ GuardianSeesEnding \/ GuardianReads
    \/ EnforcePrivacy \/ ControlClosed \/ OwnedLook \/ OwnedSend

-----------------------------------------------------------------------------
\* The helper process dies (a crash, SIGKILL from the system).
HelperDies ==
    /\ pc["helper"] \notin {"idle", "down", "ready", "released", "frozen"}
    /\ Fault
    /\ Goto("helper", "down") /\ Disconnect /\ result' = None
    /\ ending' = [ending EXCEPT !["helper"] = NotEnding]
    /\ UNCHANGED <<telecom, audio, snapshot, toGuardian, watch, history>>

\* The guardian dies; not while it holds the worker stopped, which nobody
\* would wake up.
GuardianDies ==
    /\ pc["guardian"] \notin {"off", "gone"} /\ pc["helper"] # "frozen"
    /\ Fault
    /\ GuardianGoes("gone", FALSE)
    /\ UNCHANGED <<telecom, audio, snapshot, history>>

Environment ==
    \/ \E c \in Calls : CallArrives(c) \/ CallEnds(c)
    \/ CallerAnswered \/ AppCancels
    \/ ModeEntersCall \/ ModeLeavesCall \/ VendorRewrites
    \/ HelperDies \/ GuardianDies

Next ==
    \/ Environment
    \/ StartMenu \/ WorkerStep \/ WaitExpires
    \/ GuardianStep \/ MonitorSees \/ GuardianDeadline \/ CallLimitExpires
    \/ \E a \in Processes :
          RecoveryStep(a) \/ LookDecides(a) \/ LookFails(a) \/ LookWaits(a)

Spec == Init /\ [][Next]_vars

\* Both processes are scheduled, their waits and the guardian's deadlines
\* expire, and a poll that keeps looking decides in the end (every wait of
\* CallRecoveryPolicy is bounded).
Fairness ==
    /\ WF_vars(WorkerStep) /\ WF_vars(WaitExpires)
    /\ WF_vars(GuardianStep) /\ WF_vars(GuardianDeadline)
    /\ \A a \in Processes : WF_vars(RecoveryStep(a)) /\ SF_vars(LookDecides(a))

FairSpec == Spec /\ Fairness

-----------------------------------------------------------------------------
\* While the adopted call is up, the durable snapshot exists, through deaths
\* of either process and failed hangups, unless the session gave the call up
\* to Android: src/docs/ARCHITECTURE.md "keep the durable snapshot if hangup
\* fails".
Custody ==
    mine \in line /\ snapshot = None => given # "no"

\* A global hangup hits a foreign call only if that call appeared after the
\* last look, while the hangup was on its way (EndSingleCallAndWait's two
\* live checks).
ForeignSpared == victims \subseteq late

\* Neither process opens the microphone and the speaker while the adopted
\* call is up, unless it gave the call up: "Restoring the call microphone
\* before a failed hangup would expose background audio to the caller."
PrivacyKept ==
    [][ /\ route.ends = "muted" /\ route'.ends = "open"
        /\ pc' # pc /\ mine \in line
        => given # "no" ]_vars

\* The helper takes another caller after an acknowledgement only when the
\* guardian has released the session: "Do not admit another caller when the
\* resource-release proof is absent." (main.cpp:5451).
ReleaseProved == pc["helper"] = "released" => freed

\* An adopted call is over or given up in the end, the guardian has left and
\* a helper is there for the next caller, whatever died on the way, as long
\* as the helper takes no other message for the release proof.
SessionResolves ==
    []ReleaseProved =>
       (mine # None ~>
          /\ pc["guardian"] = "gone" /\ pc["helper"] \in {"ready", "released"}
          /\ mine \notin line \/ given # "no")
=============================================================================
