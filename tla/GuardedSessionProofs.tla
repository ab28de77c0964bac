------------------------- MODULE GuardedSessionProofs -------------------------
(***************************************************************************)
(* Theorems about GuardedSession, for every set of calls, every bound on   *)
(* faults and every baseline route.                                        *)
(***************************************************************************)
EXTENDS GuardedSession, TLAPS

Locals == [own : Calls \cup {None}, tries : 0..MaxOwnedHangups, hangup : BOOLEAN]
Flags == [armed : BOOLEAN, ready : BOOLEAN, told : BOOLEAN, ending : BOOLEAN]

\* Telecom never shows a call again, and the adopted call is one it showed.
TelecomType ==
    /\ line \subseteq seen /\ seen \subseteq Calls
    /\ answered \in BOOLEAN /\ cancelled \in BOOLEAN
    /\ mine \in Calls \cup {None}
    /\ mine # None => mine \in seen
    /\ late \subseteq Calls /\ victims \subseteq Calls

RouteType ==
    /\ mode \in {"normal", "incall"} /\ route \in Routes
    /\ snapshot \in Snapshots \cup {None}

\* A worker that is about to report has something to report.
ProcessType ==
    /\ pc \in [Processes -> HelperPcs \cup GuardianPcs]
    /\ pc["helper"] \in HelperPcs /\ pc["guardian"] \in GuardianPcs
    /\ result \in Messages \cup {None}
    /\ pc["helper"] = "finish" => result \in Messages

SocketType ==
    /\ connected \in BOOLEAN
    /\ toGuardian \in Seq(Messages) /\ toWorker \in Seq(Replies)

\* Who is about to hang up has an attempt left.
EndingType ==
    /\ ending \in [Processes -> Locals]
    /\ \A a \in Processes :
          \/ pc[a] \in {"hold", "apply"} /\ ending[a].hangup
          \/ pc[a] \in {"final", "send"}
          => ending[a].tries < MaxHangups
    /\ pc["guardian"] = "ownedSend" => ending["guardian"].tries < MaxOwnedHangups

FlagType ==
    /\ watch \in Flags
    /\ freed \in BOOLEAN /\ given \in {"no", "preempted", "limit"}
    /\ faults \in 0..MaxFaults

TypeInv == TelecomType /\ RouteType /\ ProcessType /\ SocketType /\ EndingType /\ FlagType

-----------------------------------------------------------------------------
\* The worker says that the call ended, or has said so.
DoneReported == result = "done" \/ \E i \in 1..Len(toGuardian) : toGuardian[i] = "done"

\* Until the worker adopts a call, nobody has anything to recover.
NotAdopted ==
    /\ pc["helper"] \in {"idle", "begin"} =>
          mine = None /\ result = None /\ toGuardian = <<>>
    /\ pc["helper"] = "idle" => pc["guardian"] = "off"
    /\ pc["helper"] = "begin" => connected /\ pc["guardian"] \in {"unarmed", "gone"}

\* The normal route is restored only when the adopted call has ended, and the
\* session released only when the call was given up.
CallIsOver ==
    /\ DoneReported => mine \notin line
    /\ \A a \in Processes : pc[a] \in {"restore", "wipe"} => mine \notin line
    /\ \A a \in Processes : pc[a] \in {"unroute", "clear"} => given # "no"

CustodyInv == NotAdopted /\ CallIsOver /\ Custody

-----------------------------------------------------------------------------
\* What a hangup on its way may hit: the call it is for, and calls that
\* appeared after the last look.
HangupAimed ==
    /\ \A a \in Processes : pc[a] = "send" => line \subseteq {ending[a].own} \cup late
    /\ pc["guardian"] = "ownedSend" => line \subseteq {Caller} \cup late

SparedInv == HangupAimed /\ ForeignSpared

-----------------------------------------------------------------------------
(* What the steps have in common.                                          *)

\* The guardian left the worker alone, or killed it.
HelperKept ==
    /\ pc'["helper"] = pc["helper"] /\ ending'["helper"] = ending["helper"]
    /\ UNCHANGED <<connected, toWorker, result>>
HelperKilled ==
    /\ pc'["helper"] = "down"
    /\ connected' = FALSE /\ toWorker' = <<>> /\ result' = None

\* The guardian stops watching and goes on at l.
GuardianLeaves(l) ==
    /\ pc' \in [Processes -> HelperPcs \cup GuardianPcs] /\ pc'["guardian"] = l
    /\ ending' \in [Processes -> Locals] /\ ending'["guardian"] = NotEnding
    /\ HelperKept \/ HelperKilled
    /\ toGuardian' \in {toGuardian, <<>>} /\ watch' \in {watch, NotWatching}

\* It leaves for the restoring of the route only when the call is over, and
\* for the release of the session only when it gives the call up.
GuardianRecovers ==
    /\ \E l \in {"load", "restore", "unroute", "gone"} :
          /\ GuardianLeaves(l)
          /\ l = "restore" => DoneReported \/ line = {}
          /\ l = "unroute" => given' # "no"
    /\ given' = given \/ given' \in {"preempted", "limit"}
    /\ UNCHANGED <<telecom, audio, snapshot, mine, freed, late, victims>>
    /\ faults' = faults \/ Fault

\* The places where a process is about to hang up, restore or release.
Critical == {"hold", "apply", "final", "send", "restore", "wipe", "unroute", "clear", "ownedSend"}

\* A step of the worker outside the recovery code: the worker is not about to
\* touch what it does not own, and the guardian stays, starts or is stopped.
WorkerMoves ==
    /\ pc' \in [Processes -> HelperPcs \cup GuardianPcs]
    /\ pc'["helper"] \in HelperPcs \ Critical
    /\ ending' \in [Processes -> Locals]
    /\ \/ pc'["guardian"] = pc["guardian"] /\ ending'["guardian"] = ending["guardian"]
       \/ pc'["guardian"] \in {"unarmed", "gone"}
    /\ UNCHANGED <<telecom, freed, given, late, victims>>

\* Locals and flags that are reset are well formed.
LEMMA ResetType == NotEnding \in Locals /\ NotEnding.tries = 0 /\ NotWatching \in Flags
  BY DEF NotEnding, Locals, NotWatching, Flags, MaxOwnedHangups

\* A guardian that stops watching leaves (PreemptAndExitGuardian,
\* RecoverAndExitGuardian).
LEMMA GoesLeaves ==
    ASSUME ProcessType, EndingType, NEW l \in GuardianPcs, NEW kill \in BOOLEAN,
           GuardianGoes(l, kill)
    PROVE  GuardianLeaves(l)
  <1>1. CASE kill /\ WorkerThere
    <2>1. pc' = [helper |-> "down", guardian |-> l] /\ ending' = [a \in Processes |-> NotEnding]
      BY <1>1 DEF GuardianGoes
    <2>2. "down" \in HelperPcs
      BY DEF HelperPcs
    <2> QED
      BY <1>1, <2>1, <2>2, ResetType
         DEF GuardianGoes, GuardianLeaves, HelperKilled, Disconnect, Processes
  <1>2. CASE ~(kill /\ WorkerThere)
    <2>1. /\ pc' = [pc EXCEPT !["guardian"] = l]
          /\ ending' = [ending EXCEPT !["guardian"] = NotEnding]
          /\ UNCHANGED <<connected, toWorker, result>>
          /\ toGuardian' = <<>> /\ watch' = NotWatching
      BY <1>2 DEF GuardianGoes, Goto
    <2> QED
      BY <2>1, ResetType DEF GuardianLeaves, HelperKept, ProcessType, EndingType, Processes
  <1> QED
    BY <1>1, <1>2

\* So does the guardian whose call limit is over (EndOwnedSessionGuardian).
LEMMA OwnedLeaves ==
    ASSUME ProcessType, EndingType, NEW l \in GuardianPcs,
           NEW why \in {"no", "preempted", "limit"}, OwnedConclude(l, why),
           UNCHANGED <<toGuardian, watch>>
    PROVE  /\ GuardianLeaves(l)
           /\ given' = given \/ given' \in {"preempted", "limit"}
           /\ why # "no" => given' # "no"
  <1>1. CASE pc["helper"] = "frozen"
    <2>1. /\ pc' = [helper |-> "down", guardian |-> l] /\ Disconnect /\ result' = None
          /\ ending' = [ending EXCEPT !["guardian"] = NotEnding]
      BY <1>1 DEF OwnedConclude
    <2>2. "down" \in HelperPcs
      BY DEF HelperPcs
    <2> QED
      BY <1>1, <2>1, <2>2, ResetType
         DEF OwnedConclude, GuardianLeaves, HelperKilled, Disconnect, Processes, EndingType, Surrender
  <1>2. CASE pc["helper"] # "frozen"
    <2>1. /\ pc' = [pc EXCEPT !["guardian"] = l]
          /\ ending' = [ending EXCEPT !["guardian"] = NotEnding]
          /\ UNCHANGED <<connected, toWorker, result>>
      BY <1>2 DEF OwnedConclude, Goto
    <2> QED
      BY <2>1, ResetType
         DEF OwnedConclude, GuardianLeaves, HelperKept, ProcessType, EndingType, Processes, Surrender
  <1> QED
    BY <1>1, <1>2

\* Every way in which a guardian that watches, owns the call or dies leaves.
LEMMA Recovers ==
    ASSUME TypeInv,
           GuardianReads \/ ControlClosed \/ GuardianDeadline \/ GuardianDies
    PROVE  GuardianRecovers
  <1>0. ProcessType /\ EndingType /\ FlagType
    BY DEF TypeInv
  <1>1. {"load", "restore", "unroute", "gone"} \subseteq GuardianPcs
    BY DEF GuardianPcs, RecoveryPcs
  <1>2. ASSUME NEW l \in {"load", "restore", "unroute", "gone"}, NEW kill \in BOOLEAN,
               GuardianGoes(l, kill)
        PROVE  GuardianLeaves(l)
    BY <1>0, <1>1, <1>2, GoesLeaves
  <1>3. ASSUME NEW kill \in BOOLEAN, PreemptAndExitGuardian(kill)
        PROVE  GuardianLeaves("unroute") /\ given' # "no" /\ (given' = given \/ given' = "preempted")
    BY <1>2, <1>3 DEF PreemptAndExitGuardian, Surrender
  <1>4. ASSUME NEW kill \in BOOLEAN, RecoverAndExitGuardian(kill)
        PROVE  \/ GuardianLeaves("load") /\ given' = given
               \/ /\ GuardianLeaves("unroute") /\ given' # "no"
                  /\ given' = given \/ given' = "preempted"
    BY <1>2, <1>3, <1>4 DEF RecoverAndExitGuardian
  <1>5. CASE GuardianReads
    <2>1. Head(toGuardian) = "done" /\ toGuardian # <<>> => DoneReported
      BY DEF DoneReported, TypeInv, SocketType
    <2>2. UNCHANGED <<telecom, audio, snapshot, mine, freed, late, victims, faults>>
      BY <1>5 DEF GuardianReads
    <2>3. CASE /\ toGuardian # <<>> /\ Head(toGuardian) = "done"
               /\ GuardianGoes("restore", FALSE) /\ UNCHANGED given
      BY <1>2, <2>1, <2>2, <2>3 DEF GuardianRecovers
    <2>4. CASE RecoverAndExitGuardian(FALSE)
      BY <1>4, <2>2, <2>4 DEF GuardianRecovers
    <2>5. CASE PreemptAndExitGuardian(FALSE)
      BY <1>3, <2>2, <2>5 DEF GuardianRecovers
    <2> QED
      BY <1>5, <2>3, <2>4, <2>5 DEF GuardianReads
  <1>6. CASE ControlClosed \/ GuardianDeadline
    <2>1. UNCHANGED <<telecom, audio, snapshot, mine, freed, late, victims, faults>>
      BY <1>6 DEF ControlClosed, GuardianDeadline
    <2>2. \E kill \in BOOLEAN : RecoverAndExitGuardian(kill)
      BY <1>6 DEF ControlClosed, GuardianDeadline
    <2> QED
      BY <1>4, <2>1, <2>2 DEF GuardianRecovers
  <1>7. CASE GuardianDies
    BY <1>2, <1>7 DEF GuardianDies, GuardianRecovers, history
  <1> QED
    BY <1>5, <1>6, <1>7

\* The guardian arms its watch, or finds no snapshot and leaves.
LEMMA Arms ==
    ASSUME TypeInv, GuardianArms
    PROVE  \/ GuardianRecovers
           \/ /\ pc' = [pc EXCEPT !["guardian"] = "watch"] /\ toGuardian' = Tail(toGuardian)
              /\ toGuardian # <<>> /\ snapshot \in Snapshots /\ pc["guardian"] \in {"unarmed", "watch"}
              /\ ending' = [ending EXCEPT !["guardian"].own = snapshot.call]
              /\ UNCHANGED <<telecom, audio, snapshot, connected, toWorker, result, watch, given,
                             mine, freed, late, victims, faults>>
  <1>1. CASE snapshot # None
    BY <1>1 DEF GuardianArms, Goto, TypeInv, RouteType, Watching
  <1>2. CASE snapshot = None
    <2>1. /\ GuardianGoes("unroute", TRUE) /\ Surrender("preempted")
          /\ UNCHANGED <<telecom, audio, snapshot, mine, freed, late, victims, faults>>
      BY <1>2 DEF GuardianArms, PreemptAndExitGuardian
    <2>2. "unroute" \in GuardianPcs
      BY DEF GuardianPcs, RecoveryPcs
    <2>3. GuardianLeaves("unroute")
      BY <2>1, <2>2, GoesLeaves DEF TypeInv
    <2> QED
      BY <2>1, <2>3 DEF GuardianRecovers, Surrender
  <1> QED
    BY <1>1, <1>2

\* The monitor's observation ends the watch, or the guardian notes the hangup.
LEMMA Sees ==
    ASSUME TypeInv, MonitorSees
    PROVE  \/ GuardianRecovers
           \/ /\ watch' = [watch EXCEPT !.told = TRUE] /\ toWorker' = Append(toWorker, "J")
              /\ UNCHANGED <<pc, ending, connected, toGuardian, result, given, faults>>
              /\ UNCHANGED <<telecom, audio, snapshot, mine, freed, late, victims>>
  <1>1. CASE PreemptAndExitGuardian(TRUE) /\ (faults' = faults \/ Fault)
    <2>1. GuardianGoes("unroute", TRUE) /\ Surrender("preempted")
      BY <1>1 DEF PreemptAndExitGuardian
    <2>2. "unroute" \in GuardianPcs
      BY DEF GuardianPcs, RecoveryPcs
    <2>3. GuardianLeaves("unroute")
      BY <2>1, <2>2, GoesLeaves DEF TypeInv
    <2> QED
      BY <1>1, <2>1, <2>3 DEF GuardianRecovers, Surrender, MonitorSees
  <1>2. CASE ~(PreemptAndExitGuardian(TRUE) /\ (faults' = faults \/ Fault))
    BY <1>2 DEF MonitorSees
  <1> QED
    BY <1>1, <1>2

\* The guardian that ends the owned call concludes, or hangs up once more.
LEMMA OwnedLooks ==
    ASSUME TypeInv, OwnedLook
    PROVE  \/ GuardianRecovers
           \/ /\ View(Caller) = "mine" /\ ending["guardian"].tries < MaxOwnedHangups
              /\ pc["guardian"] = "ownedLook" /\ pc' = [pc EXCEPT !["guardian"] = "ownedSend"]
              /\ UNCHANGED <<ending, connected, toWorker, result, given, faults>>
              /\ UNCHANGED <<telecom, audio, snapshot, toGuardian, watch, mine, freed, late, victims>>
  <1>0. UNCHANGED <<telecom, audio, snapshot, toGuardian, watch, mine, freed, late, victims>>
    BY DEF OwnedLook
  <1>1. {"restore", "unroute"} \subseteq GuardianPcs
    BY DEF GuardianPcs, RecoveryPcs
  <1>2. ASSUME NEW why \in {"preempted", "limit"}, OwnedConclude("unroute", why),
               faults' = faults \/ Fault
        PROVE  GuardianRecovers
    <2>1. /\ GuardianLeaves("unroute") /\ given' # "no"
          /\ given' = given \/ given' \in {"preempted", "limit"}
      BY <1>0, <1>1, <1>2, OwnedLeaves DEF TypeInv
    <2> QED
      BY <1>0, <1>2, <2>1 DEF GuardianRecovers
  <1>3. ASSUME OwnedConclude("restore", "no"), View(Caller) = "idle", UNCHANGED faults
        PROVE  GuardianRecovers
    <2>1. GuardianLeaves("restore") /\ (given' = given \/ given' \in {"preempted", "limit"})
      BY <1>0, <1>1, <1>3, OwnedLeaves DEF TypeInv
    <2>2. line = {}
      BY <1>3 DEF View
    <2> QED
      BY <1>0, <1>3, <2>1, <2>2 DEF GuardianRecovers
  <1> QED
    BY <1>0, <1>2, <1>3 DEF OwnedLook, MayHangUpAgain, Goto

\* The owned hangup is sent, or refused and the session released.
LEMMA OwnedSends ==
    ASSUME TypeInv, OwnedSend
    PROVE  \/ GuardianRecovers
           \/ /\ pc["guardian"] = "ownedSend" /\ pc' = [pc EXCEPT !["guardian"] = "ownedLook"]
              /\ EndSomeCall(Caller) \/ UNCHANGED <<line, victims>>
              /\ ending' = [ending EXCEPT !["guardian"].tries = @ + 1]
              /\ UNCHANGED <<connected, toWorker, result, given, faults>>
              /\ UNCHANGED <<seen, answered, cancelled, audio, snapshot, toGuardian, watch,
                             mine, freed, late>>
  <1>1. CASE /\ Fault /\ OwnedConclude("unroute", "limit") /\ UNCHANGED <<line, victims>>
             /\ UNCHANGED <<seen, answered, cancelled, audio, snapshot, toGuardian, watch,
                            mine, freed, late>>
    <2>1. "unroute" \in GuardianPcs
      BY DEF GuardianPcs, RecoveryPcs
    <2>2. /\ GuardianLeaves("unroute") /\ given' # "no"
          /\ given' = given \/ given' \in {"preempted", "limit"}
      BY <1>1, <2>1, OwnedLeaves DEF TypeInv
    <2> QED
      BY <1>1, <2>2 DEF GuardianRecovers, telecom
  <1> QED
    BY <1>1 DEF OwnedSend, Goto

\* The worker's own steps, its start and its death move it outside the
\* recovery code.
LEMMA WorkerMove ==
    ASSUME TypeInv, StartMenu \/ WorkerStep \/ WaitExpires \/ HelperDies
    PROVE  WorkerMoves
  <1> USE DEF TypeInv, ProcessType, EndingType, WorkerMoves, Critical, HelperPcs, GuardianPcs,
              RecoveryPcs, Processes, Goto, history
  <1>1. CASE StartMenu
    BY <1>1 DEF StartMenu
  <1>2. CASE BeginPrivateSession
    BY <1>2 DEF BeginPrivateSession, Leave, LeaveByLook
  <1>3. CASE EstablishInitialPrivacy \/ ArmPrivacy \/ HearHangup \/ FinishSuccessfulMenu
    BY <1>3 DEF EstablishInitialPrivacy, ArmPrivacy, HearHangup, FinishSuccessfulMenu, Notify, Leave
  <1>4. CASE \/ AwaitMessage("waitArmed", "Q", "waitRoute")
             \/ AwaitMessage("waitReady", "R", "menu")
    BY <1>4 DEF AwaitMessage, Leave
  <1>5. CASE AwaitCallRoute \/ WaitForInCall
    BY <1>5 DEF AwaitCallRoute, WaitForInCall, Leave, LeaveByLook
  <1>6. CASE CheckActiveCall
    BY <1>6 DEF CheckActiveCall, Leave, LeaveByLook
  <1>7. CASE PlayPrompt \/ PromptEnds
    BY <1>7 DEF PlayPrompt, PromptEnds, Leave, LeaveByLook
  <1>8. CASE ReportResult \/ AwaitAck
    BY <1>8 DEF ReportResult, AwaitAck
  <1>9. CASE StopUnproven \/ HelperDies
    BY <1>9, ResetType DEF StopUnproven, HelperDies
  <1>10. CASE Restart \/ WaitExpires
    BY <1>10 DEF Restart, WaitExpires, Leave, LeaveByLook
  <1> QED
    BY <1>1, <1>2, <1>3, <1>4, <1>5, <1>6, <1>7, <1>8, <1>9, <1>10 DEF WorkerStep

\* What follows the end of a hangup (Conclude): the worker of an open session
\* reports, everybody else recovers.
LEMMA Concludes ==
    ASSUME TypeInv, NEW a \in Processes, NEW v \in {"ended", "preempted", "failed"}, Conclude(a, v)
    PROVE  /\ ending' = [ending EXCEPT ![a] = NotEnding]
           /\ \/ /\ a = "helper" /\ pc' = [pc EXCEPT ![a] = "finish"] /\ given' = given
                 /\ result' \in Messages /\ (result' = "done" => v = "ended")
              \/ /\ \E l \in {"restore", "unroute", "lasthold"} :
                       /\ pc' = [pc EXCEPT ![a] = l]
                       /\ l = "restore" => v = "ended"
                       /\ l = "unroute" => given' # "no"
                 /\ result' = result /\ (given' = given \/ given' = "preempted")
  BY DEF Conclude, Goto, OutcomeAfter, RecoveryAfter, Messages

-----------------------------------------------------------------------------
(* The parts of the type invariant, one after the other.                   *)

\* Calls come and go; Telecom never shows one again.
LEMMA TelecomNext ==
    ASSUME TelecomType, Next
    PROVE  TelecomType'
  <1> USE DEF TelecomType
  <1>1. CASE UNCHANGED <<line, seen, answered, cancelled, mine, late, victims>>
    BY <1>1
  <1>2. ASSUME NEW c \in Calls, CallArrives(c) \/ CallEnds(c) PROVE TelecomType'
    BY <1>2 DEF CallArrives, CallEnds, history
  <1>3. CASE CallerAnswered \/ AppCancels
    BY <1>3 DEF CallerAnswered, AppCancels, history
  <1>4. CASE BeginPrivateSession
    BY <1>4 DEF BeginPrivateSession, telecom
  <1>5. ASSUME NEW a \in Processes, Send(a) PROVE TelecomType'
    BY <1>5 DEF Send, EndSomeCall
  <1>6. CASE OwnedSend
    BY <1>6 DEF OwnedSend, EndSomeCall
  <1> HIDE DEF TelecomType
  <1> QED
    BY <1>1, <1>2, <1>3, <1>4, <1>5, <1>6
       DEF Next, Environment, WorkerStep, GuardianStep, RecoveryStep, telecom, history,
       ModeEntersCall, ModeLeavesCall, VendorRewrites, HelperDies, GuardianDies, StartMenu,
       EstablishInitialPrivacy, ArmPrivacy, AwaitMessage, AwaitCallRoute, WaitForInCall,
       CheckActiveCall, PlayPrompt, PromptEnds, HearHangup, FinishSuccessfulMenu, ReportResult,
       AwaitAck, StopUnproven, Restart, WaitExpires, GuardianArms, GuardianSeesEnding,
       GuardianReads, EnforcePrivacy, ControlClosed, OwnedLook, MonitorSees, GuardianDeadline,
       CallLimitExpires, Load, Hold, Apply, Final, RestoreRoute, WipeSnapshot, ReleaseRoute,
       ReleaseSnapshot, KeepPrivate, LookDecides, LookFails, LookWaits

\* Every route the two processes, Android and the vendor set is one of the
\* audited ones, and a snapshot names a call and an audited path.
LEMMA RouteNext ==
    ASSUME TelecomType, RouteType, Next
    PROVE  RouteType'
  <1> USE DEF RouteType, Routes, Paths
  <1>1. CASE UNCHANGED <<mode, route, snapshot>>
    BY <1>1
  <1>2. CASE ModeEntersCall \/ ModeLeavesCall \/ VendorRewrites
    BY <1>2 DEF ModeEntersCall, ModeLeavesCall, VendorRewrites, CallRouted
  <1>3. CASE BeginPrivateSession
    <2>1. \/ snapshot' = snapshot
          \/ \E c \in line : route.path # "call" /\ snapshot' = [call |-> c, path |-> route.path]
      BY <1>3 DEF BeginPrivateSession
    <2>2. mode' = mode /\ route' = route
      BY <1>3 DEF BeginPrivateSession, audio
    <2>3. snapshot' \in Snapshots \cup {None}
      BY <2>1 DEF TelecomType, Snapshots
    <2> QED
      BY <2>2, <2>3
  <1>4. CASE EstablishInitialPrivacy \/ AwaitCallRoute \/ PlayPrompt \/ PromptEnds \/ EnforcePrivacy
    BY <1>4 DEF EstablishInitialPrivacy, AwaitCallRoute, PlayPrompt, PromptEnds, EnforcePrivacy,
       Muted, PrivateRoute
  <1>5. ASSUME NEW a \in Processes, Apply(a) \/ RestoreRoute(a) \/ KeepPrivate(a) PROVE RouteType'
    <2>1. /\ mode' = mode /\ snapshot' = snapshot
          /\ route' \in {route, Muted, [path |-> "normal", ends |-> "open"]}
      BY <1>5 DEF Apply, RestoreRoute, KeepPrivate
    <2> QED
      BY <2>1 DEF Muted
  <1>6. ASSUME NEW a \in Processes, ReleaseRoute(a) PROVE RouteType'
    <2>1. mode' = mode /\ snapshot' = snapshot
      BY <1>6 DEF ReleaseRoute
    <2>2. \/ route' \in {route, CallRouted}
          \/ snapshot # None /\ route' = [path |-> snapshot.path, ends |-> "open"]
      BY <1>6 DEF ReleaseRoute
    <2> QED
      BY <2>1, <2>2 DEF CallRouted, Snapshots
  <1>7. ASSUME NEW a \in Processes, WipeSnapshot(a) \/ ReleaseSnapshot(a) PROVE RouteType'
    BY <1>7 DEF WipeSnapshot, ReleaseSnapshot, audio
  <1> HIDE DEF RouteType
  <1> QED
    BY <1>1, <1>2, <1>3, <1>4, <1>5, <1>6, <1>7
       DEF Next, Environment, WorkerStep, GuardianStep, RecoveryStep, audio,
       CallArrives, CallEnds, CallerAnswered, AppCancels, HelperDies, GuardianDies, StartMenu,
       ArmPrivacy, AwaitMessage, WaitForInCall, CheckActiveCall, HearHangup,
       FinishSuccessfulMenu, ReportResult, AwaitAck, StopUnproven, Restart, WaitExpires,
       GuardianArms, GuardianSeesEnding, GuardianReads, ControlClosed, OwnedLook, OwnedSend,
       MonitorSees, GuardianDeadline, CallLimitExpires, Load, Hold, Final, Send, LookDecides,
       LookFails, LookWaits

\* The processes are where the code has a place for them, and a worker that
\* reports has an outcome.
LEMMA ProcessNext ==
    ASSUME TypeInv, Next
    PROVE  ProcessType'
  <1> USE DEF ProcessType, HelperPcs, GuardianPcs, RecoveryPcs, Messages, Processes
  <1>0. ProcessType
    BY DEF TypeInv
  <1>1. CASE UNCHANGED <<pc, result>>
    BY <1>0, <1>1
  <1>2. CASE StartMenu \/ BeginPrivateSession \/ EstablishInitialPrivacy \/ ArmPrivacy
    BY <1>0, <1>2 DEF StartMenu, BeginPrivateSession, EstablishInitialPrivacy, ArmPrivacy, Notify,
       Goto, Leave, LeaveByLook
  <1>3. CASE \/ AwaitMessage("waitArmed", "Q", "waitRoute")
             \/ AwaitMessage("waitReady", "R", "menu")
    BY <1>0, <1>3 DEF AwaitMessage, Goto, Leave
  <1>4. CASE AwaitCallRoute \/ WaitForInCall \/ CheckActiveCall
    BY <1>0, <1>4 DEF AwaitCallRoute, WaitForInCall, CheckActiveCall, Goto, Leave, LeaveByLook
  <1>5. CASE PlayPrompt \/ PromptEnds \/ HearHangup \/ FinishSuccessfulMenu
    BY <1>0, <1>5 DEF PlayPrompt, PromptEnds, HearHangup, FinishSuccessfulMenu, Notify, Goto, Leave,
       LeaveByLook
  <1>6. CASE ReportResult \/ AwaitAck \/ StopUnproven \/ Restart \/ WaitExpires \/ HelperDies
    BY <1>0, <1>6 DEF ReportResult, AwaitAck, StopUnproven, Restart, WaitExpires, HelperDies, Goto,
       Leave, LeaveByLook
  <1>7. CASE GuardianRecovers
    BY <1>0, <1>7 DEF GuardianRecovers, GuardianLeaves, HelperKept, HelperKilled
  <1>8. CASE GuardianArms
    BY <1>0, <1>7, <1>8, Arms
  <1>9. CASE OwnedLook \/ OwnedSend
    BY <1>0, <1>7, <1>9, OwnedLooks, OwnedSends
  <1>10. CASE CallLimitExpires
    BY <1>0, <1>10 DEF CallLimitExpires
  <1>11. ASSUME NEW a \in Processes, Load(a) \/ Final(a) \/ LookDecides(a) \/ LookFails(a)
         PROVE  ProcessType'
    <2>1. CASE \E v \in {"ended", "preempted", "failed"} : Conclude(a, v)
      <3>1. \/ a = "helper" /\ pc' = [pc EXCEPT ![a] = "finish"] /\ result' \in Messages
            \/ /\ \E l \in {"restore", "unroute", "lasthold"} : pc' = [pc EXCEPT ![a] = l]
               /\ result' = result
        BY <2>1, Concludes
      <3> QED
        BY <1>0, <3>1
    <2>2. CASE result' = result /\ \E l \in {"look", "hold", "send"} : pc' = [pc EXCEPT ![a] = l]
      BY <1>0, <2>2
    <2> QED
      BY <1>11, <2>1, <2>2 DEF Load, Final, LookDecides, LookFails, Goto
  <1>12. ASSUME NEW a \in Processes,
                \/ Hold(a) \/ Apply(a) \/ Send(a) \/ LookWaits(a) \/ RestoreRoute(a) \/ WipeSnapshot(a)
                \/ ReleaseRoute(a) \/ ReleaseSnapshot(a) \/ KeepPrivate(a)
         PROVE  ProcessType'
    BY <1>0, <1>12 DEF Hold, Apply, Send, LookWaits, RestoreRoute, WipeSnapshot, ReleaseRoute,
       ReleaseSnapshot, KeepPrivate, Through, Goto, AfterHold
  <1>13. CASE MonitorSees
    BY <1>1, <1>7, <1>13, Sees
  <1>14. CASE Environment
    BY <1>1, <1>6, <1>7, <1>14, Recovers
       DEF Environment, CallArrives, CallEnds, CallerAnswered, AppCancels, ModeEntersCall,
       ModeLeavesCall, VendorRewrites
  <1>15. CASE GuardianSeesEnding \/ EnforcePrivacy
    BY <1>1, <1>15 DEF GuardianSeesEnding, EnforcePrivacy
  <1>16. CASE GuardianReads \/ ControlClosed \/ GuardianDeadline
    BY <1>7, <1>16, Recovers
  <1> HIDE DEF ProcessType
  <1> QED
    BY <1>2, <1>3, <1>4, <1>5, <1>6, <1>8, <1>9, <1>10, <1>11, <1>12, <1>13, <1>14, <1>15, <1>16
       DEF Next, WorkerStep, GuardianStep, RecoveryStep

\* Both directions of the control socket carry the protocol's messages.
LEMMA SocketNext ==
    ASSUME TypeInv, Next
    PROVE  SocketType'
  <1> USE DEF SocketType, Replies
  <1>0. SocketType /\ ProcessType
    BY DEF TypeInv
  <1>e. <<>> \in Seq(Messages) /\ <<>> \in Seq(Replies)
    OBVIOUS
  <1>t. /\ toGuardian # <<>> => Tail(toGuardian) \in Seq(Messages)
        /\ toWorker # <<>> => Tail(toWorker) \in Seq(Replies)
    BY <1>0
  <1>a. /\ \A m \in Messages : Append(toGuardian, m) \in Seq(Messages)
        /\ \A r \in Replies : Append(toWorker, r) \in Seq(Replies)
    BY <1>0
  <1>1. CASE UNCHANGED <<connected, toGuardian, toWorker>>
    BY <1>0, <1>1
  <1>2. CASE StartMenu
    BY <1>0, <1>2 DEF StartMenu
  <1>3. CASE ArmPrivacy \/ FinishSuccessfulMenu
    <2>1. toGuardian' = toGuardian \/ \E m \in Messages : toGuardian' = Append(toGuardian, m)
      BY <1>3 DEF ArmPrivacy, FinishSuccessfulMenu, Notify, Messages
    <2>2. UNCHANGED <<connected, toWorker>>
      BY <1>3 DEF ArmPrivacy, FinishSuccessfulMenu
    <2> QED
      BY <1>0, <1>a, <2>1, <2>2
  <1>4. CASE \/ AwaitMessage("waitArmed", "Q", "waitRoute")
             \/ AwaitMessage("waitReady", "R", "menu") \/ HearHangup
    BY <1>0, <1>4, <1>t DEF AwaitMessage, HearHangup
  <1>5. CASE ReportResult
    <2>1. result \in Messages
      BY <1>0, <1>5 DEF ReportResult, ProcessType
    <2> QED
      BY <1>0, <1>5, <1>a, <1>e, <2>1 DEF ReportResult, Disconnect
  <1>6. CASE AwaitAck
    BY <1>0, <1>6, <1>e, <1>t DEF AwaitAck, Disconnect
  <1>7. CASE StopUnproven \/ WaitExpires \/ HelperDies
    BY <1>0, <1>7, <1>e DEF StopUnproven, WaitExpires, HelperDies, Disconnect
  <1>8. CASE GuardianRecovers
    BY <1>0, <1>8, <1>e DEF GuardianRecovers, GuardianLeaves, HelperKept, HelperKilled
  <1>9. CASE GuardianArms
    BY <1>0, <1>8, <1>9, <1>t, Arms
  <1>10. CASE GuardianSeesEnding
    BY <1>0, <1>10, <1>t DEF GuardianSeesEnding
  <1>11. CASE EnforcePrivacy
    <2>1. /\ UNCHANGED <<connected, toGuardian>>
          /\ toWorker' = toWorker \/ \E r \in Replies : toWorker' = Append(toWorker, r)
      BY <1>11 DEF EnforcePrivacy
    <2> QED
      BY <1>0, <1>a, <2>1
  <1>12. CASE MonitorSees
    BY <1>0, <1>8, <1>12, <1>a, Sees
  <1>13. CASE OwnedLook \/ OwnedSend
    BY <1>0, <1>8, <1>13, OwnedLooks, OwnedSends
  <1>14. CASE CallLimitExpires
    BY <1>0, <1>14, <1>e DEF CallLimitExpires
  <1>15. CASE GuardianReads \/ ControlClosed \/ GuardianDeadline \/ GuardianDies
    BY <1>8, <1>15, Recovers
  <1>16. ASSUME NEW a \in Processes,
                \/ RestoreRoute(a) \/ WipeSnapshot(a) \/ ReleaseRoute(a)
                \/ ReleaseSnapshot(a) \/ KeepPrivate(a)
         PROVE  SocketType'
    <2>1. /\ UNCHANGED <<connected, toGuardian>>
          /\ toWorker' = toWorker \/ \E r \in Replies : toWorker' = Append(toWorker, r)
      BY <1>16 DEF RestoreRoute, WipeSnapshot, ReleaseRoute, ReleaseSnapshot, KeepPrivate, Through
    <2> QED
      BY <1>0, <1>a, <2>1
  <1> HIDE DEF SocketType
  <1> QED
    BY <1>1, <1>2, <1>3, <1>4, <1>5, <1>6, <1>7, <1>9, <1>10, <1>11, <1>12, <1>13, <1>14, <1>15,
       <1>16
       DEF Next, Environment, WorkerStep, GuardianStep, RecoveryStep, socket, CallArrives, CallEnds,
       CallerAnswered, AppCancels, ModeEntersCall, ModeLeavesCall, VendorRewrites,
       BeginPrivateSession, EstablishInitialPrivacy, AwaitCallRoute, WaitForInCall,
       CheckActiveCall, PlayPrompt, PromptEnds, Restart, Load, Hold, Apply, Final, Send,
       LookDecides, LookFails, LookWaits

\* Nobody starts a hangup without an attempt left.
LEMMA EndingNext ==
    ASSUME TypeInv, Next
    PROVE  EndingType'
  <1> USE DEF Processes
  <1>0. /\ EndingType /\ ProcessType /\ ending \in [Processes -> Locals]
        /\ NotEnding \in Locals /\ NotEnding.tries = 0
        /\ MaxHangups = 2 /\ MaxOwnedHangups = 4
    BY ResetType DEF TypeInv, EndingType, MaxHangups, MaxOwnedHangups
  <1>1. CASE UNCHANGED <<pc, ending>>
    BY <1>0, <1>1 DEF EndingType
  <1>2. CASE WorkerMoves
    BY <1>0, <1>2 DEF EndingType, WorkerMoves, Critical
  <1>3. CASE GuardianRecovers
    <2>1. PICK l \in {"load", "restore", "unroute", "gone"} : GuardianLeaves(l)
      BY <1>3 DEF GuardianRecovers
    <2> QED
      BY <1>0, <2>1 DEF EndingType, GuardianLeaves, HelperKept, HelperKilled
  <1>4. CASE GuardianArms
    <2>1. ASSUME pc' = [pc EXCEPT !["guardian"] = "watch"], snapshot \in Snapshots,
                 ending' = [ending EXCEPT !["guardian"].own = snapshot.call]
          PROVE  EndingType'
      <3>1. /\ ending' \in [Processes -> Locals] /\ ending'["helper"] = ending["helper"]
            /\ pc'["helper"] = pc["helper"] /\ pc'["guardian"] = "watch"
        BY <1>0, <2>1 DEF Locals, Snapshots, ProcessType
      <3> QED
        BY <1>0, <3>1 DEF EndingType
    <2> QED
      BY <1>3, <1>4, <2>1, Arms
  <1>5. CASE MonitorSees
    BY <1>1, <1>3, <1>5, Sees
  <1>6. CASE OwnedLook
    <2>1. ASSUME pc' = [pc EXCEPT !["guardian"] = "ownedSend"], ending' = ending,
                 ending["guardian"].tries < MaxOwnedHangups
          PROVE  EndingType'
      BY <1>0, <2>1 DEF EndingType, ProcessType
    <2> QED
      BY <1>3, <1>6, <2>1, OwnedLooks
  <1>7. CASE OwnedSend
    <2>1. ASSUME pc["guardian"] = "ownedSend", pc' = [pc EXCEPT !["guardian"] = "ownedLook"],
                 ending' = [ending EXCEPT !["guardian"].tries = @ + 1]
          PROVE  EndingType'
      <3>1. ending["guardian"].tries < MaxOwnedHangups
        BY <1>0, <2>1 DEF EndingType
      <3>2. /\ ending' \in [Processes -> Locals] /\ ending'["helper"] = ending["helper"]
            /\ pc'["helper"] = pc["helper"] /\ pc'["guardian"] = "ownedLook"
        BY <1>0, <2>1, <3>1 DEF Locals, ProcessType
      <3> QED
        BY <1>0, <3>2 DEF EndingType
    <2> QED
      BY <1>3, <1>7, <2>1, OwnedSends
  <1>8. CASE CallLimitExpires
    BY <1>0, <1>8 DEF CallLimitExpires, EndingType
  <1>9. ASSUME NEW a \in Processes, NEW l, NEW e \in Locals,
               pc' = [pc EXCEPT ![a] = l], ending' = [ending EXCEPT ![a] = e],
               l # "ownedSend",
               l \in {"hold", "apply"} /\ e.hangup => e.tries < MaxHangups,
               l \in {"final", "send"} => e.tries < MaxHangups
        PROVE  EndingType'
    BY <1>0, <1>9 DEF EndingType, ProcessType
  <1>10. ASSUME NEW a \in Processes, Load(a) \/ Final(a) \/ LookDecides(a) \/ LookFails(a)
         PROVE  EndingType'
    <2>1. CASE \E v \in {"ended", "preempted", "failed"} : Conclude(a, v)
      <3>1. /\ ending' = [ending EXCEPT ![a] = NotEnding]
            /\ \E l \in {"finish", "restore", "unroute", "lasthold"} : pc' = [pc EXCEPT ![a] = l]
        BY <2>1, Concludes
      <3> QED
        BY <1>0, <1>9, <3>1
    <2>2. CASE Load(a) /\ snapshot # None
      <3>1. /\ pc' = [pc EXCEPT ![a] = "look"]
            /\ ending' = [ending EXCEPT ![a] = [NotEnding EXCEPT !.own = snapshot.call]]
        BY <2>2 DEF Load, Goto
      <3>2. [NotEnding EXCEPT !.own = snapshot.call] \in Locals
        BY <1>0, <2>2 DEF TypeInv, RouteType, Snapshots, Locals
      <3> QED
        BY <1>9, <3>1, <3>2
    <2>3. CASE Final(a) /\ pc' = [pc EXCEPT ![a] = "send"] /\ ending' = ending
      <3>1. ending[a].tries < MaxHangups /\ ending[a] \in Locals
        BY <1>0, <2>3 DEF Final, EndingType
      <3>2. ending' = [ending EXCEPT ![a] = ending[a]]
        BY <1>0, <2>3
      <3> QED
        BY <1>9, <2>3, <3>1, <3>2
    <2>4. CASE /\ LookDecides(a) /\ ending[a].tries < MaxHangups /\ pc' = [pc EXCEPT ![a] = "hold"]
               /\ ending' = [ending EXCEPT ![a].hangup = TRUE]
      <3>1. [ending[a] EXCEPT !.hangup = TRUE] \in Locals
        BY <1>0 DEF Locals
      <3>2. [ending[a] EXCEPT !.hangup = TRUE].tries < MaxHangups
        BY <1>0, <2>4 DEF Locals
      <3>3. ending' = [ending EXCEPT ![a] = [ending[a] EXCEPT !.hangup = TRUE]]
        BY <1>0, <2>4
      <3> QED
        BY <1>9, <2>4, <3>1, <3>2, <3>3
    <2> QED
      BY <1>10, <2>1, <2>2, <2>3, <2>4 DEF Load, Final, LookDecides, LookFails, Goto
  <1>11. ASSUME NEW a \in Processes, LookWaits(a) PROVE EndingType'
    <2>1. [ending[a] EXCEPT !.hangup = FALSE] \in Locals /\ ~[ending[a] EXCEPT !.hangup = FALSE].hangup
      BY <1>0 DEF Locals
    <2>2. /\ pc' = [pc EXCEPT ![a] = "hold"]
          /\ ending' = [ending EXCEPT ![a] = [ending[a] EXCEPT !.hangup = FALSE]]
      BY <1>0, <1>11 DEF LookWaits, Goto
    <2> QED
      BY <1>9, <2>1, <2>2
  <1>12. ASSUME NEW a \in Processes, Hold(a) \/ Apply(a) PROVE EndingType'
    <2>1. /\ ending' = [ending EXCEPT ![a] = ending[a]] /\ ending[a] \in Locals
          /\ ending[a].hangup => ending[a].tries < MaxHangups
      BY <1>0, <1>12 DEF Hold, Apply, EndingType
    <2>2. \/ pc' = [pc EXCEPT ![a] = "apply"]
          \/ pc' = [pc EXCEPT ![a] = "look"]
          \/ ending[a].hangup /\ pc' = [pc EXCEPT ![a] = "final"]
      BY <1>12 DEF Hold, Apply, AfterHold, Goto
    <2> QED
      BY <1>9, <2>1, <2>2
  <1>13. ASSUME NEW a \in Processes, Send(a) PROVE EndingType'
    <2>1. ending[a].tries < MaxHangups /\ ending[a] \in Locals
      BY <1>0, <1>13 DEF Send, EndingType
    <2>2. [ending[a] EXCEPT !.tries = @ + 1] \in Locals
      BY <1>0, <2>1 DEF Locals
    <2>3. /\ pc' = [pc EXCEPT ![a] = "look"]
          /\ ending' = [ending EXCEPT ![a] = [ending[a] EXCEPT !.tries = @ + 1]]
      BY <1>0, <1>13 DEF Send, Goto
    <2> QED
      BY <1>9, <2>2, <2>3
  <1>14. ASSUME NEW a \in Processes,
                \/ RestoreRoute(a) \/ WipeSnapshot(a) \/ ReleaseRoute(a)
                \/ ReleaseSnapshot(a) \/ KeepPrivate(a)
         PROVE  EndingType'
    <2>1. ending' = [ending EXCEPT ![a] = ending[a]] /\ ending[a] \in Locals
      BY <1>0, <1>14 DEF RestoreRoute, WipeSnapshot, ReleaseRoute, ReleaseSnapshot, KeepPrivate
    <2>2. \E l \in {"wipe", "clear", "lastapply", "ready", "down", "gone"} : pc' = [pc EXCEPT ![a] = l]
      BY <1>14 DEF RestoreRoute, WipeSnapshot, ReleaseRoute, ReleaseSnapshot, KeepPrivate, Through,
         Goto
    <2> QED
      BY <1>9, <2>1, <2>2
  <1>15. CASE StartMenu \/ WorkerStep \/ WaitExpires \/ HelperDies
    BY <1>2, <1>15, WorkerMove
  <1>16. CASE GuardianReads \/ ControlClosed \/ GuardianDeadline \/ GuardianDies
    BY <1>3, <1>16, Recovers
  <1> QED
    BY <1>1, <1>4, <1>5, <1>6, <1>7, <1>8, <1>10, <1>11, <1>12, <1>13, <1>14, <1>15, <1>16
       DEF Next, Environment, GuardianStep, RecoveryStep, CallArrives, CallEnds, CallerAnswered,
       AppCancels, ModeEntersCall, ModeLeavesCall, VendorRewrites, GuardianSeesEnding,
       EnforcePrivacy

\* The guardian's flags, the history and the number of faults.
LEMMA FlagNext ==
    ASSUME TypeInv, Next
    PROVE  FlagType'
  <1> USE DEF FlagType, Flags
  <1>0. FlagType /\ ProcessType /\ EndingType /\ NotWatching \in Flags
    BY ResetType DEF TypeInv
  <1>f. ASSUME faults' = faults \/ Fault PROVE faults' \in 0..MaxFaults
    BY <1>0, <1>f, CallsAssumption DEF Fault
  <1>1. CASE UNCHANGED <<watch, freed, given>> /\ (faults' = faults \/ Fault)
    BY <1>0, <1>1, <1>f
  <1>2. CASE StopUnproven \/ CallLimitExpires
    BY <1>0, <1>2 DEF StopUnproven, CallLimitExpires, history
  <1>3. CASE GuardianSeesEnding \/ EnforcePrivacy
    BY <1>0, <1>3 DEF GuardianSeesEnding, EnforcePrivacy, history
  <1>4. CASE GuardianRecovers
    BY <1>0, <1>4, <1>f DEF GuardianRecovers, GuardianLeaves
  <1>5. CASE GuardianArms \/ MonitorSees
    BY <1>0, <1>4, <1>5, Arms, Sees
  <1>6. CASE OwnedLook \/ OwnedSend
    BY <1>0, <1>4, <1>6, OwnedLooks, OwnedSends
  <1>7. CASE GuardianReads \/ ControlClosed \/ GuardianDeadline \/ GuardianDies
    BY <1>4, <1>7, Recovers
  <1>8. ASSUME NEW a \in Processes, Load(a) \/ Final(a) \/ LookDecides(a) \/ LookFails(a)
        PROVE  FlagType'
    <2>1. UNCHANGED <<watch, freed>> /\ (faults' = faults \/ Fault)
      BY <1>8 DEF Load, Final, LookDecides, LookFails
    <2>2. given' = given \/ given' = "preempted"
      BY <1>8 DEF Load, Final, LookDecides, LookFails, Conclude
    <2> QED
      BY <1>0, <1>f, <2>1, <2>2
  <1>9. ASSUME NEW a \in Processes,
               \/ RestoreRoute(a) \/ WipeSnapshot(a) \/ ReleaseRoute(a)
               \/ ReleaseSnapshot(a) \/ KeepPrivate(a)
        PROVE  FlagType'
    <2>1. UNCHANGED <<watch, given, faults>> /\ freed' \in {freed, TRUE, FALSE}
      BY <1>9 DEF RestoreRoute, WipeSnapshot, ReleaseRoute, ReleaseSnapshot, KeepPrivate, Through
    <2> QED
      BY <1>0, <2>1
  <1> HIDE DEF FlagType
  <1> QED
    BY <1>1, <1>2, <1>3, <1>5, <1>6, <1>7, <1>8, <1>9
       DEF Next, Environment, WorkerStep, GuardianStep, RecoveryStep, history, CallArrives,
       CallEnds, CallerAnswered, AppCancels, ModeEntersCall, ModeLeavesCall, VendorRewrites,
       HelperDies, StartMenu, BeginPrivateSession, EstablishInitialPrivacy, ArmPrivacy,
       AwaitMessage, AwaitCallRoute, WaitForInCall, CheckActiveCall, PlayPrompt, PromptEnds,
       HearHangup, FinishSuccessfulMenu, ReportResult, AwaitAck, Restart, WaitExpires, Leave,
       LeaveByLook, Hold, Apply, Send, LookWaits

\* The helper starts with a ringing caller and no session.
LEMMA TypeInit == Init => TypeInv
  <1> SUFFICES ASSUME Init PROVE TypeInv
    OBVIOUS
  <1>1. TelecomType
    BY CallsAssumption DEF Init, TelecomType
  <1>5. RouteType
    BY CallsAssumption DEF Init, RouteType, Routes, Paths
  <1>6. SocketType
    <2>1. connected = FALSE /\ toGuardian = <<>> /\ toWorker = <<>>
      BY DEF Init
    <2>2. <<>> \in Seq(Messages) /\ <<>> \in Seq(Replies)
      OBVIOUS
    <2> QED
      BY <2>1, <2>2 DEF SocketType
  <1>2. ProcessType
    BY DEF Init, ProcessType, HelperPcs, GuardianPcs, Processes
  <1>3. EndingType
    BY <1>2, ResetType DEF Init, EndingType, Processes
  <1>4. FlagType
    <2>1. watch \in Flags
      BY ResetType DEF Init
    <2>2. faults \in 0..MaxFaults
      BY CallsAssumption DEF Init
    <2> QED
      BY <2>1, <2>2 DEF Init, FlagType
  <1> QED
    BY <1>1, <1>2, <1>3, <1>4, <1>5, <1>6 DEF TypeInv

\* Every step keeps the type invariant.
LEMMA TypeNext == TypeInv /\ [Next]_vars => TypeInv'
  <1> SUFFICES ASSUME TypeInv, [Next]_vars PROVE TypeInv'
    OBVIOUS
  <1>1. CASE Next
    <2>1. TelecomType' /\ RouteType'
      BY <1>1, TelecomNext, RouteNext DEF TypeInv
    <2>2. ProcessType' /\ SocketType' /\ EndingType' /\ FlagType'
      BY <1>1, ProcessNext, SocketNext, EndingNext, FlagNext
    <2> QED
      BY <2>1, <2>2 DEF TypeInv
  <1>2. CASE UNCHANGED vars
    BY <1>2 DEF vars, telecom, audio, socket, history, TypeInv, TelecomType, RouteType, ProcessType,
       SocketType, EndingType, FlagType
  <1> QED
    BY <1>1, <1>2

\* TypeOK holds in every reachable state: both processes stay inside the code,
\* nobody hangs up more often than CallRecoveryPolicy allows, and only the
\* protocol's messages are on the control socket.
THEOREM TypeCorrect == Spec => []TypeOK
  <1>1. TypeInv => TypeOK
    BY DEF TypeInv, TypeOK, TelecomType, RouteType, ProcessType, SocketType, EndingType, FlagType,
       Locals, Flags
  <1> QED
    BY <1>1, TypeInit, TypeNext, PTL DEF Spec

-----------------------------------------------------------------------------
(* The snapshot outlives everything but the call.                          *)

\* A call that has ended does not come back, whatever the step: while nobody
\* adopts a call, an adopted call that is over stays over.
LEMMA OverStays ==
    ASSUME TypeInv, Next, mine \notin line, mine' = mine
    PROVE  mine' \notin line'
  <1>0. None \notin Calls /\ TelecomType /\ TelecomType'
    BY CallsAssumption, TelecomNext DEF TypeInv
  <1>1. CASE line' \subseteq line
    BY <1>1
  <1>2. ASSUME NEW c \in Calls, CallArrives(c) PROVE mine' \notin line'
    BY <1>0, <1>2 DEF CallArrives, TelecomType
  <1> QED
    BY <1>1, <1>2
       DEF Next, Environment, WorkerStep, GuardianStep, RecoveryStep, telecom, history,
       CallEnds, CallerAnswered, AppCancels, BeginPrivateSession, Send, OwnedSend, EndSomeCall,
       ModeEntersCall, ModeLeavesCall, VendorRewrites, HelperDies, GuardianDies, StartMenu,
       EstablishInitialPrivacy, ArmPrivacy, AwaitMessage, AwaitCallRoute, WaitForInCall,
       CheckActiveCall, PlayPrompt, PromptEnds, HearHangup, FinishSuccessfulMenu, ReportResult,
       AwaitAck, StopUnproven, Restart, WaitExpires, GuardianArms, GuardianSeesEnding,
       GuardianReads, EnforcePrivacy, ControlClosed, OwnedLook, MonitorSees, GuardianDeadline,
       CallLimitExpires, Load, Hold, Apply, Final, RestoreRoute, WipeSnapshot, ReleaseRoute,
       ReleaseSnapshot, KeepPrivate, LookDecides, LookFails, LookWaits

\* A report of "done" that is on its way was on its way before, or is new.
LEMMA DoneStays ==
    ASSUME TypeInv, DoneReported',
           \/ toGuardian' \in {toGuardian, <<>>}
           \/ toGuardian # <<>> /\ toGuardian' = Tail(toGuardian)
           \/ \E m \in Messages : toGuardian' = Append(toGuardian, m) /\ (m = "done" => result = "done"),
           result' = "done" => result = "done"
    PROVE  DoneReported
  <1>0. toGuardian \in Seq(Messages)
    BY DEF TypeInv, SocketType
  <1>1. CASE result' = "done"
    BY <1>1 DEF DoneReported
  <1>2. CASE \E i \in 1..Len(toGuardian') : toGuardian'[i] = "done"
    <2>1. PICK i \in 1..Len(toGuardian') : toGuardian'[i] = "done"
      BY <1>2
    <2>2. CASE toGuardian' \in {toGuardian, <<>>}
      BY <2>1, <2>2 DEF DoneReported
    <2>3. CASE toGuardian # <<>> /\ toGuardian' = Tail(toGuardian)
      <3>1. i + 1 \in 1..Len(toGuardian) /\ toGuardian[i + 1] = "done"
        BY <1>0, <2>1, <2>3
      <3> QED
        BY <3>1 DEF DoneReported
    <2>4. ASSUME NEW m \in Messages, toGuardian' = Append(toGuardian, m), m = "done" => result = "done"
          PROVE  DoneReported
      <3>1. Len(toGuardian') = Len(toGuardian) + 1
        BY <1>0, <2>4
      <3>2. CASE i \in 1..Len(toGuardian)
        BY <1>0, <2>1, <2>4, <3>2 DEF DoneReported
      <3>3. CASE i = Len(toGuardian) + 1
        BY <1>0, <2>1, <2>4, <3>3 DEF DoneReported
      <3> QED
        BY <1>0, <2>1, <3>1, <3>2, <3>3
    <2> QED
      BY <2>2, <2>3, <2>4
  <1> QED
    BY <1>1, <1>2 DEF DoneReported

\* What the worker tells the guardian outside the recovery code: never "done",
\* unless that is the outcome it holds.
LEMMA WorkerTells ==
    ASSUME TypeInv, (WorkerStep /\ ~BeginPrivateSession) \/ WaitExpires \/ HelperDies
    PROVE  /\ mine' = mine /\ snapshot' = snapshot
           /\ pc'["helper"] \notin {"idle", "begin"}
           /\ result' = "done" => result = "done"
           /\ \/ toGuardian' \in {toGuardian, <<>>}
              \/ \E m \in Messages :
                    toGuardian' = Append(toGuardian, m) /\ (m = "done" => result = "done")
  <1> USE DEF TypeInv, ProcessType, Processes, Goto, history
  <1>1. CASE EstablishInitialPrivacy \/ AwaitCallRoute \/ WaitForInCall \/ CheckActiveCall
    BY <1>1 DEF EstablishInitialPrivacy, AwaitCallRoute, WaitForInCall, CheckActiveCall, Leave,
       LeaveByLook, socket
  <1>2. CASE ArmPrivacy \/ FinishSuccessfulMenu
    BY <1>2 DEF ArmPrivacy, FinishSuccessfulMenu, Notify, Leave, Messages
  <1>3. CASE \/ AwaitMessage("waitArmed", "Q", "waitRoute")
             \/ AwaitMessage("waitReady", "R", "menu") \/ HearHangup
    BY <1>3 DEF AwaitMessage, HearHangup, Leave
  <1>4. CASE PlayPrompt \/ PromptEnds
    BY <1>4 DEF PlayPrompt, PromptEnds, Leave, LeaveByLook, socket
  <1>5. CASE ReportResult
    BY <1>5, NoneAssumption DEF ReportResult, Messages
  <1>6. CASE AwaitAck \/ StopUnproven \/ Restart
    BY <1>6 DEF AwaitAck, StopUnproven, Restart, socket
  <1>7. CASE WaitExpires
    BY <1>7 DEF WaitExpires, Leave, LeaveByLook
  <1>8. CASE HelperDies
    BY <1>8, NoneAssumption DEF HelperDies, Messages
  <1> QED
    BY <1>1, <1>2, <1>3, <1>4, <1>5, <1>6, <1>7, <1>8 DEF WorkerStep

\* A step after which both processes are where the invariant says nothing, or
\* where it is known to hold.
LEMMA CustodyKept ==
    ASSUME TypeInv, CustodyInv, Next, mine' = mine, snapshot' = snapshot,
           NotAdopted',
           given # "no" => given' # "no",
           DoneReported' => DoneReported \/ line = {},
           \A a \in Processes : pc'[a] \in {"restore", "wipe"} =>
               pc[a] \in {"restore", "wipe"} \/ DoneReported \/ line = {},
           \A a \in Processes : pc'[a] \in {"unroute", "clear"} =>
               pc[a] \in {"unroute", "clear"} \/ given' # "no"
    PROVE  CustodyInv'
  <1>1. mine \notin line => mine' \notin line'
    BY OverStays
  <1>2. CallIsOver'
    BY <1>1 DEF CustodyInv, CallIsOver
  <1>3. Custody'
    BY <1>1 DEF CustodyInv, Custody
  <1> QED
    BY <1>2, <1>3 DEF CustodyInv

\* The caller rings and nobody has adopted the call.
LEMMA CustodyInit == Init => CustodyInv
  BY CallsAssumption, NoneAssumption
     DEF Init, CustodyInv, NotAdopted, CallIsOver, DoneReported, Custody, Processes, Messages

\* Every step keeps the adopted call in custody.
LEMMA CustodyNext == TypeInv /\ CustodyInv /\ [Next]_vars => CustodyInv'
  <1> SUFFICES ASSUME TypeInv, CustodyInv, [Next]_vars PROVE CustodyInv'
    OBVIOUS
  <1> USE DEF Processes
  <1>0. /\ ProcessType /\ NotAdopted /\ pc \in [Processes -> HelperPcs \cup GuardianPcs]
        /\ pc["helper"] \in HelperPcs /\ pc["guardian"] \in GuardianPcs
    BY DEF TypeInv, CustodyInv, ProcessType
  <1>1. ASSUME Next, mine' = mine, snapshot' = snapshot,
               UNCHANGED <<pc, result, toGuardian, given, connected>>
        PROVE  CustodyInv'
    BY <1>0, <1>1, CustodyKept DEF NotAdopted, DoneReported
  <1>2. CASE StartMenu
    <2>1. Next /\ mine' = mine /\ snapshot' = snapshot /\ UNCHANGED <<given, result, toGuardian>>
      BY <1>2 DEF Next, StartMenu, history
    <2>2. \/ pc' = [helper |-> "begin", guardian |-> "unarmed"] /\ connected'
          \/ pc' = [pc EXCEPT !["helper"] = "ready"]
      BY <1>2 DEF StartMenu, Goto
    <2>3. NotAdopted'
      BY <1>0, <1>2, <2>1, <2>2 DEF NotAdopted, StartMenu
    <2> QED
      BY <1>0, <2>1, <2>2, <2>3, CustodyKept DEF DoneReported
  <1>3. CASE BeginPrivateSession
    <2>1. /\ pc["helper"] = "begin" /\ mine = None /\ result = None /\ toGuardian = <<>>
          /\ pc["guardian"] \in {"unarmed", "gone"} /\ Next
      BY <1>0, <1>3 DEF BeginPrivateSession, NotAdopted, Next, WorkerStep
    <2>2. UNCHANGED <<line, toGuardian, given>> /\ line \subseteq Calls
      BY <1>3 DEF BeginPrivateSession, telecom, socket, TypeInv, TelecomType
    <2>3. CASE \E c \in line : /\ snapshot' = [call |-> c, path |-> route.path] /\ route.path # "call"
                               /\ pc' = [pc EXCEPT !["helper"] = "mute"] /\ result' = result
      <3>1. ~DoneReported'
        BY <2>1, <2>2, <2>3, NoneAssumption DEF DoneReported, Messages
      <3>2. snapshot' # None
        BY <2>2, <2>3, NoneAssumption DEF Snapshots, TypeInv, RouteType, Routes, Paths
      <3>3. pc'["helper"] = "mute" /\ pc'["guardian"] \in {"unarmed", "gone"}
        BY <1>0, <2>1, <2>3
      <3> QED
        BY <3>1, <3>2, <3>3 DEF CustodyInv, NotAdopted, CallIsOver, Custody
    <2>4. CASE /\ mine' = mine /\ snapshot' = snapshot /\ pc' = [pc EXCEPT !["helper"] = "finish"]
               /\ result' \in {"preempt", "recover"}
      <3>1. ~DoneReported'
        BY <2>1, <2>2, <2>4 DEF DoneReported
      <3>2. pc'["helper"] = "finish" /\ pc'["guardian"] = pc["guardian"]
        BY <1>0, <2>4
      <3>3. NotAdopted'
        BY <3>2 DEF NotAdopted
      <3> QED
        BY <2>1, <2>2, <2>4, <3>1, <3>2, <3>3, CustodyKept
    <2> QED
      BY <1>3, <2>3, <2>4 DEF BeginPrivateSession, Leave, LeaveByLook, Goto
  <1>4. CASE (WorkerStep /\ ~BeginPrivateSession) \/ WaitExpires \/ HelperDies
    <2>1. WorkerMoves /\ Next
      BY <1>4, WorkerMove DEF Next, Environment
    <2>2. /\ mine' = mine /\ snapshot' = snapshot /\ pc'["helper"] \notin {"idle", "begin"}
          /\ DoneReported' => DoneReported
      BY <1>4, WorkerTells, DoneStays
    <2>3. NotAdopted' /\ given' = given
      BY <2>1, <2>2 DEF NotAdopted, WorkerMoves
    <2>4. \A a \in Processes : pc'[a] \in {"restore", "wipe", "unroute", "clear"} => pc'[a] = pc[a]
      BY <2>1 DEF WorkerMoves, Critical
    <2> QED
      BY <2>1, <2>2, <2>3, <2>4, CustodyKept
  <1>5. ASSUME GuardianRecovers, Next, pc["helper"] \notin {"idle", "begin"} PROVE CustodyInv'
    <2>1. PICK l \in {"load", "restore", "unroute", "gone"} :
             /\ GuardianLeaves(l)
             /\ l = "restore" => DoneReported \/ line = {}
             /\ l = "unroute" => given' # "no"
      BY <1>5 DEF GuardianRecovers
    <2>2. /\ mine' = mine /\ snapshot' = snapshot
          /\ given # "no" => given' # "no"
      BY <1>5 DEF GuardianRecovers
    <2>3. result' = "done" => result = "done"
      BY <2>1, NoneAssumption DEF GuardianLeaves, HelperKept, HelperKilled, Messages
    <2>4. DoneReported' => DoneReported
      BY <2>1, <2>3, DoneStays DEF GuardianLeaves
    <2>5. pc'["guardian"] = l /\ pc'["helper"] \in {pc["helper"], "down"}
      BY <2>1 DEF GuardianLeaves, HelperKept, HelperKilled
    <2>6. NotAdopted'
      BY <1>5, <2>5 DEF NotAdopted
    <2> QED
      BY <1>5, <2>1, <2>2, <2>4, <2>5, <2>6, CustodyKept
  <1>6. CASE GuardianReads \/ ControlClosed
    <2>1. pc["helper"] \notin {"idle", "begin"}
      BY <1>0, <1>6 DEF NotAdopted, GuardianReads, ControlClosed, Watching
    <2> QED
      BY <1>5, <1>6, <2>1, Recovers DEF Next, GuardianStep
  <1>7. CASE GuardianDeadline
    <2>1. CASE pc["helper"] \notin {"idle", "begin"}
      BY <1>5, <1>7, <2>1, Recovers DEF Next
    <2>2. CASE pc["helper"] \in {"idle", "begin"}
      <3>1. WorkerThere /\ pc["guardian"] = "unarmed" /\ toGuardian = <<>>
        BY <1>0, <1>7, <2>2 DEF NotAdopted, GuardianDeadline, Watching, WorkerThere
      <3>2. \E l \in {"load", "unroute"} :
               /\ pc' = [helper |-> "down", guardian |-> l] /\ result' = None
               /\ l = "unroute" => given' # "no"
        BY <1>7, <3>1 DEF GuardianDeadline, RecoverAndExitGuardian, PreemptAndExitGuardian,
           GuardianGoes, Surrender
      <3>3. /\ toGuardian' = <<>> /\ (given # "no" => given' # "no")
            /\ mine' = mine /\ snapshot' = snapshot
        BY <1>7 DEF GuardianDeadline, RecoverAndExitGuardian, PreemptAndExitGuardian, GuardianGoes,
           Surrender
      <3>4. NotAdopted' /\ ~DoneReported'
        BY <3>2, <3>3, NoneAssumption DEF NotAdopted, DoneReported, Messages
      <3> QED
        BY <1>7, <3>2, <3>3, <3>4, CustodyKept DEF Next
    <2> QED
      BY <2>1, <2>2
  <1>8. CASE GuardianDies
    <2>1. CASE pc["helper"] \notin {"idle", "begin"}
      BY <1>5, <1>8, <2>1, Recovers DEF Next, Environment
    <2>2. CASE pc["helper"] \in {"idle", "begin"}
      <3>1. /\ pc["helper"] = "begin" /\ pc' = [pc EXCEPT !["guardian"] = "gone"]
            /\ UNCHANGED <<connected, result, mine, snapshot, given>> /\ toGuardian' = <<>>
        BY <1>0, <1>8, <2>2 DEF NotAdopted, GuardianDies, GuardianGoes, Goto, history
      <3>2. NotAdopted' /\ pc'["helper"] = "begin" /\ pc'["guardian"] = "gone"
        BY <1>0, <3>1 DEF NotAdopted
      <3>3. DoneReported' => DoneReported
        BY <3>1, DoneStays
      <3> QED
        BY <1>8, <3>1, <3>2, <3>3, CustodyKept DEF Next, Environment
    <2> QED
      BY <2>1, <2>2
  <1>9. ASSUME Next, mine' = mine, snapshot' = snapshot, result' = result, given' = given,
               toGuardian' \in {toGuardian, <<>>} \/ (toGuardian # <<>> /\ toGuardian' = Tail(toGuardian)),
               pc["helper"] \notin {"idle", "begin"},
               pc'["helper"] \in {pc["helper"], "frozen"},
               pc'["guardian"] \in {pc["guardian"], "watch", "ownedSend", "ownedLook"}
        PROVE  CustodyInv'
    <2>1. DoneReported' => DoneReported
      BY <1>9, DoneStays
    <2>2. NotAdopted'
      BY <1>9 DEF NotAdopted
    <2> QED
      BY <1>9, <2>1, <2>2, CustodyKept
  <1>10. CASE GuardianArms \/ GuardianSeesEnding
    <2>1. pc["helper"] \notin {"idle", "begin"}
      BY <1>0, <1>10 DEF NotAdopted, GuardianArms, GuardianSeesEnding
    <2>2. Next
      BY <1>10 DEF Next, GuardianStep
    <2>3. CASE GuardianArms /\ GuardianRecovers
      BY <1>5, <2>1, <2>2, <2>3
    <2>4. CASE GuardianArms /\ ~GuardianRecovers
      BY <1>0, <1>9, <2>1, <2>2, <2>4, Arms
    <2>5. CASE GuardianSeesEnding
      BY <1>0, <1>9, <2>1, <2>2, <2>5 DEF GuardianSeesEnding, history
    <2> QED
      BY <1>10, <2>3, <2>4, <2>5
  <1>11. CASE OwnedLook \/ OwnedSend
    <2>1. pc["helper"] \notin {"idle", "begin"}
      BY <1>0, <1>11 DEF NotAdopted, OwnedLook, OwnedSend
    <2>2. Next
      BY <1>11 DEF Next, GuardianStep
    <2>3. CASE GuardianRecovers
      BY <1>5, <2>1, <2>2, <2>3
    <2>4. CASE OwnedLook /\ ~GuardianRecovers
      BY <1>0, <1>9, <2>1, <2>2, <2>4, OwnedLooks
    <2>5. CASE OwnedSend /\ ~GuardianRecovers
      BY <1>0, <1>9, <2>1, <2>2, <2>5, OwnedSends
    <2> QED
      BY <1>11, <2>3, <2>4, <2>5
  <1>12. CASE MonitorSees
    <2>1. pc["helper"] \notin {"idle", "begin"}
      BY <1>0, <1>12 DEF NotAdopted, MonitorSees
    <2>2. Next
      BY <1>12 DEF Next
    <2> QED
      BY <1>1, <1>5, <1>12, <2>1, <2>2, Sees
  <1>13. CASE CallLimitExpires
    <2>1. pc["helper"] \notin {"idle", "begin"} /\ Next
      BY <1>0, <1>13 DEF NotAdopted, CallLimitExpires, Next
    <2>2. pc'["helper"] \in {pc["helper"], "frozen"} /\ pc'["guardian"] = "ownedLook"
      BY <1>0, <1>13 DEF CallLimitExpires
    <2> QED
      BY <1>9, <1>13, <2>1, <2>2 DEF CallLimitExpires, history
  <1>14. ASSUME Next, NEW a \in Processes, pc[a] \in RecoveryPcs, NEW l,
                pc' = [pc EXCEPT ![a] = l], l \notin {"idle", "begin"},
                mine' = mine, snapshot' = snapshot, toGuardian' = toGuardian, connected' = connected,
                given' = given \/ given' # "no",
                result' = "done" => result = "done" \/ line = {},
                pc["helper"] \in {"idle", "begin"} => result' = result,
                l \in {"restore", "wipe"} => pc[a] \in {"restore", "wipe"} \/ line = {},
                l \in {"unroute", "clear"} => pc[a] \in {"unroute", "clear"} \/ given' # "no"
         PROVE  CustodyInv'
    <2>1. pc["helper"] \notin {"idle", "begin"}
      BY <1>0, <1>14 DEF NotAdopted, RecoveryPcs
    <2>2. NotAdopted'
      BY <1>0, <1>14, <2>1 DEF NotAdopted
    <2>3. DoneReported' => DoneReported \/ line = {}
      BY <1>14 DEF DoneReported
    <2> QED
      BY <1>0, <1>14, <2>2, <2>3, CustodyKept
  <1>15. ASSUME NEW a \in Processes, Load(a) \/ Final(a) \/ LookDecides(a) \/ LookFails(a)
         PROVE  CustodyInv'
    <2>1. /\ Next /\ pc[a] \in RecoveryPcs
          /\ mine' = mine /\ snapshot' = snapshot /\ toGuardian' = toGuardian /\ connected' = connected
      BY <1>15 DEF Next, RecoveryStep, Load, Final, LookDecides, LookFails, RecoveryPcs, socket
    <2>2. CASE \E l \in {"look", "hold", "send"} :
                  pc' = [pc EXCEPT ![a] = l] /\ UNCHANGED <<result, given>>
      BY <1>14, <2>1, <2>2
    <2>3. ASSUME NEW v \in {"ended", "preempted", "failed"}, Conclude(a, v), v = "ended" => line = {}
          PROVE  CustodyInv'
      <3>1. pc["helper"] \notin {"idle", "begin"}
        BY <1>0, <2>1 DEF NotAdopted, RecoveryPcs
      <3> QED
        BY <1>14, <2>1, <2>3, <3>1, Concludes
    <2>4. \/ \E l \in {"look", "hold", "send"} :
                pc' = [pc EXCEPT ![a] = l] /\ UNCHANGED <<result, given>>
          \/ \E v \in {"ended", "preempted", "failed"} : Conclude(a, v) /\ (v = "ended" => line = {})
      BY <1>15 DEF Load, Final, LookDecides, LookFails, Goto, View
    <2> QED
      BY <2>2, <2>3, <2>4
  <1>16. ASSUME NEW a \in Processes,
                Hold(a) \/ Apply(a) \/ Send(a) \/ LookWaits(a)
         PROVE  CustodyInv'
    <2>1. /\ Next /\ pc[a] \in RecoveryPcs /\ UNCHANGED <<mine, snapshot, toGuardian, connected, given, result>>
          /\ \E l \in {"look", "hold", "apply", "final"} : pc' = [pc EXCEPT ![a] = l]
      BY <1>16 DEF Next, RecoveryStep, RecoveryPcs, Hold, Apply, Send, LookWaits, AfterHold, Goto,
         socket, history
    <2> QED
      BY <1>14, <2>1
  <1>17. ASSUME NEW a \in Processes, RestoreRoute(a) \/ ReleaseRoute(a) \/ KeepPrivate(a)
         PROVE  CustodyInv'
    <2>1. /\ Next /\ pc[a] \in RecoveryPcs /\ UNCHANGED <<mine, snapshot, toGuardian, connected, given, result>>
          /\ \/ pc[a] = "restore" /\ pc' = [pc EXCEPT ![a] = "wipe"]
             \/ pc[a] = "unroute" /\ pc' = [pc EXCEPT ![a] = "clear"]
             \/ \E l \in {"ready", "down", "gone", "lastapply"} : pc' = [pc EXCEPT ![a] = l]
      BY <1>17 DEF Next, RecoveryStep, RecoveryPcs, RestoreRoute, ReleaseRoute, KeepPrivate, Through,
         Goto
    <2> QED
      BY <1>14, <2>1
  <1>18. ASSUME NEW a \in Processes, WipeSnapshot(a) \/ ReleaseSnapshot(a)
         PROVE  CustodyInv'
    <2>1. /\ pc[a] \in {"wipe", "clear"} /\ UNCHANGED <<line, mine, toGuardian, given, result>>
          /\ \E l \in {"ready", "gone"} : pc' = [pc EXCEPT ![a] = l]
      BY <1>18 DEF WipeSnapshot, ReleaseSnapshot, Through, Goto, telecom
    <2>2. pc["helper"] \notin {"idle", "begin"}
      BY <1>0, <2>1 DEF NotAdopted
    <2>3. mine \notin line \/ given # "no"
      BY <2>1 DEF CustodyInv, CallIsOver
    <2>4. Custody'
      BY <2>1, <2>3 DEF Custody
    <2>5. NotAdopted' /\ CallIsOver'
      BY <1>0, <2>1, <2>2 DEF CustodyInv, NotAdopted, CallIsOver, DoneReported
    <2> QED
      BY <2>4, <2>5 DEF CustodyInv
  <1>19. CASE Environment
    <2>1. CASE HelperDies \/ GuardianDies
      BY <1>4, <1>8, <2>1
    <2>2. CASE ~(HelperDies \/ GuardianDies)
      <3>1. UNCHANGED <<mine, snapshot, pc, result, toGuardian, given, connected>> /\ Next
        BY <1>19, <2>2 DEF Environment, Next, CallArrives, CallEnds, CallerAnswered, AppCancels,
           ModeEntersCall, ModeLeavesCall, VendorRewrites, history, socket
      <3> QED
        BY <1>1, <3>1
    <2> QED
      BY <2>1, <2>2
  <1>20. CASE EnforcePrivacy
    BY <1>1, <1>20 DEF EnforcePrivacy, Next, GuardianStep, history
  <1>21. CASE UNCHANGED vars
    BY <1>21 DEF vars, telecom, socket, history, CustodyInv, NotAdopted, CallIsOver, DoneReported, Custody
  <1> QED
    BY <1>2, <1>3, <1>4, <1>6, <1>7, <1>10, <1>11, <1>12, <1>13, <1>15, <1>16, <1>17, <1>18,
       <1>19, <1>20, <1>21
       DEF Next, GuardianStep, RecoveryStep, WorkerStep

\* While the adopted call is up its durable snapshot exists, through deaths of
\* either process and failed hangups, unless the session gave the call up.
THEOREM CallInCustody == Spec => []Custody
  <1>1. CustodyInv => Custody
    BY DEF CustodyInv
  <1> QED
    BY <1>1, TypeInit, TypeNext, CustodyInit, CustodyNext, PTL DEF Spec

-----------------------------------------------------------------------------
(* Nobody opens the microphone of a call that is still the session's.      *)

\* What a step of one of the processes may not do to the route.
MicrophoneKept ==
    /\ route.ends = "muted" /\ route'.ends = "open"
    /\ pc' # pc /\ mine \in line
    => given # "no"

\* Only the restoring of the route and its release open the endpoints.
LEMMA MicrophoneNext == TypeInv /\ CustodyInv /\ [Next]_vars => MicrophoneKept
  <1> SUFFICES ASSUME TypeInv, CustodyInv, [Next]_vars PROVE MicrophoneKept
    OBVIOUS
  <1>1. CASE route' = route
    BY <1>1 DEF MicrophoneKept
  <1>2. CASE ModeEntersCall \/ VendorRewrites \/ EnforcePrivacy
    BY <1>2 DEF MicrophoneKept, ModeEntersCall, VendorRewrites, EnforcePrivacy
  <1>3. CASE EstablishInitialPrivacy \/ AwaitCallRoute \/ PlayPrompt \/ PromptEnds
    <2>1. route' = route \/ route'.ends = "muted"
      BY <1>3 DEF EstablishInitialPrivacy, AwaitCallRoute, PlayPrompt, PromptEnds, Muted, PrivateRoute,
         TypeInv, RouteType, Routes
    <2> QED
      BY <2>1 DEF MicrophoneKept
  <1>4. ASSUME NEW a \in Processes, Apply(a) \/ KeepPrivate(a) PROVE MicrophoneKept
    <2>1. route' = route \/ route'.ends = "muted"
      BY <1>4 DEF Apply, KeepPrivate, Muted, TypeInv, RouteType, Routes
    <2> QED
      BY <2>1 DEF MicrophoneKept
  <1>5. ASSUME NEW a \in Processes, RestoreRoute(a) \/ ReleaseRoute(a) PROVE MicrophoneKept
    <2>1. mine \notin line \/ given # "no"
      BY <1>5 DEF RestoreRoute, ReleaseRoute, CustodyInv, CallIsOver
    <2> QED
      BY <2>1 DEF MicrophoneKept
  <1> QED
    BY <1>1, <1>2, <1>3, <1>4, <1>5
       DEF vars, Next, Environment, WorkerStep, GuardianStep, RecoveryStep, audio, CallArrives,
       CallEnds, CallerAnswered, AppCancels, ModeLeavesCall, HelperDies, GuardianDies, StartMenu,
       BeginPrivateSession, ArmPrivacy, AwaitMessage, WaitForInCall, CheckActiveCall, HearHangup,
       FinishSuccessfulMenu, ReportResult, AwaitAck, StopUnproven, Restart, WaitExpires,
       GuardianArms, GuardianSeesEnding, GuardianReads, ControlClosed, OwnedLook, OwnedSend,
       MonitorSees, GuardianDeadline, CallLimitExpires, Load, Hold, Final, Send, WipeSnapshot,
       ReleaseSnapshot, LookDecides, LookFails, LookWaits

\* Neither process opens the microphone and the speaker while the adopted call
\* is up, unless the session gave the call up.
THEOREM MicrophoneStaysMuted == Spec => PrivacyKept
  <1>1. TypeInv /\ CustodyInv /\ [Next]_vars => [MicrophoneKept]_vars
    BY MicrophoneNext
  <1>2. Spec => [][MicrophoneKept]_vars
    BY <1>1, TypeInit, TypeNext, CustodyInit, CustodyNext, PTL DEF Spec
  <1> QED
    BY <1>2, PTL DEF PrivacyKept, MicrophoneKept

-----------------------------------------------------------------------------
(* A hangup spares the calls it is not for.                                *)

\* A step that sends no hangup and starts none leaves every hangup aimed.
LEMMA SparedKept ==
    ASSUME SparedInv, line' \subseteq line, late \subseteq late', victims' = victims,
           \A a \in Processes : pc'[a] = "send" =>
               pc[a] = "send" /\ ending'[a].own = ending[a].own,
           pc'["guardian"] = "ownedSend" => pc["guardian"] = "ownedSend"
    PROVE  SparedInv'
  BY DEF SparedInv, HangupAimed, ForeignSpared, Processes

\* No hangup is on its way in the beginning.
LEMMA SparedInit == Init => SparedInv
  BY DEF Init, SparedInv, HangupAimed, ForeignSpared, Processes

\* Every step keeps the hangups aimed.
LEMMA SparedNext == TypeInv /\ SparedInv /\ [Next]_vars => SparedInv'
  <1> SUFFICES ASSUME TypeInv, SparedInv, [Next]_vars PROVE SparedInv'
    OBVIOUS
  <1> USE DEF Processes
  <1>0. pc \in [Processes -> HelperPcs \cup GuardianPcs] /\ ending \in [Processes -> Locals]
    BY DEF TypeInv, ProcessType, EndingType
  <1>1. ASSUME line' \subseteq line, UNCHANGED <<pc, ending, late, victims>> PROVE SparedInv'
    BY <1>1, SparedKept
  <1>2. ASSUME NEW c \in Calls, CallArrives(c) PROVE SparedInv'
    <2>1. /\ line' = line \cup {c} /\ UNCHANGED <<pc, ending, victims>> /\ late \subseteq late'
          /\ (\E a \in Processes : pc[a] \in {"send", "ownedSend"}) => c \in late'
      BY <1>2 DEF CallArrives
    <2> QED
      BY <2>1 DEF SparedInv, HangupAimed, ForeignSpared
  <1>3. CASE WorkerMoves
    BY <1>3, SparedKept DEF WorkerMoves, Critical, telecom
  <1>4. CASE GuardianRecovers
    <2>1. PICK l \in {"load", "restore", "unroute", "gone"} : GuardianLeaves(l)
      BY <1>4 DEF GuardianRecovers
    <2>2. UNCHANGED <<line, late, victims>>
      BY <1>4 DEF GuardianRecovers, telecom
    <2> QED
      BY <2>1, <2>2, SparedKept DEF GuardianLeaves, HelperKept, HelperKilled
  <1>5. CASE GuardianArms
    BY <1>0, <1>4, <1>5, Arms, SparedKept DEF telecom
  <1>6. CASE MonitorSees
    BY <1>1, <1>4, <1>6, Sees DEF telecom
  <1>7. CASE OwnedLook
    <2>1. ASSUME View(Caller) = "mine", pc' = [pc EXCEPT !["guardian"] = "ownedSend"],
                 UNCHANGED <<ending, line, late, victims>>
          PROVE  SparedInv'
      <3>1. line = {Caller}
        BY <2>1 DEF View
      <3> QED
        BY <1>0, <2>1, <3>1 DEF SparedInv, HangupAimed, ForeignSpared
    <2> QED
      BY <1>4, <1>7, <2>1, OwnedLooks DEF telecom
  <1>8. ASSUME NEW own, line \subseteq {own} \cup late, EndSomeCall(own) \/ UNCHANGED <<line, victims>>,
               late' = late
        PROVE  line' \subseteq line /\ victims' \subseteq late'
    BY <1>8 DEF EndSomeCall, SparedInv, ForeignSpared
  <1>9. CASE OwnedSend
    <2>1. ASSUME pc["guardian"] = "ownedSend", pc' = [pc EXCEPT !["guardian"] = "ownedLook"],
                 EndSomeCall(Caller) \/ UNCHANGED <<line, victims>>, late' = late,
                 ending' = [ending EXCEPT !["guardian"].tries = @ + 1]
          PROVE  SparedInv'
      <3>1. line' \subseteq line /\ victims' \subseteq late'
        BY <1>8, <2>1 DEF SparedInv, HangupAimed
      <3> QED
        BY <1>0, <2>1, <3>1 DEF SparedInv, HangupAimed, ForeignSpared
    <2> QED
      BY <1>4, <1>9, <2>1, OwnedSends
  <1>10. ASSUME NEW a \in Processes, Send(a) PROVE SparedInv'
    <2>1. /\ pc[a] = "send" /\ pc' = [pc EXCEPT ![a] = "look"] /\ late' = late
          /\ EndSomeCall(ending[a].own) \/ UNCHANGED <<line, victims>>
          /\ ending' = [ending EXCEPT ![a].tries = @ + 1]
      BY <1>10 DEF Send, Goto
    <2>2. line' \subseteq line /\ victims' \subseteq late'
      BY <1>8, <2>1 DEF SparedInv, HangupAimed
    <2> QED
      BY <1>0, <2>1, <2>2 DEF SparedInv, HangupAimed, ForeignSpared
  <1>11. ASSUME NEW a \in Processes, NEW l, NEW e, pc' = [pc EXCEPT ![a] = l], l # "ownedSend",
                ending' = [ending EXCEPT ![a] = e], UNCHANGED <<line, late, victims>>,
                l = "send" => line \subseteq {e.own}
         PROVE  SparedInv'
    BY <1>0, <1>11 DEF SparedInv, HangupAimed, ForeignSpared
  <1>12. ASSUME NEW a \in Processes, Load(a) \/ Final(a) \/ LookDecides(a) \/ LookFails(a)
         PROVE  SparedInv'
    <2>1. UNCHANGED <<line, late, victims>>
      BY <1>12 DEF Load, Final, LookDecides, LookFails, telecom
    <2>2. CASE \E v \in {"ended", "preempted", "failed"} : Conclude(a, v)
      <3>1. /\ ending' = [ending EXCEPT ![a] = NotEnding]
            /\ \E l \in {"finish", "restore", "unroute", "lasthold"} : pc' = [pc EXCEPT ![a] = l]
        BY <2>2, Concludes
      <3> QED
        BY <1>11, <2>1, <3>1
    <2>3. CASE \E l \in {"look", "hold"} : \E e : /\ pc' = [pc EXCEPT ![a] = l]
                                                /\ ending' = [ending EXCEPT ![a] = e]
      BY <1>11, <2>1, <2>3
    <2>4. CASE /\ View(ending[a].own) = "mine" /\ pc' = [pc EXCEPT ![a] = "send"] /\ ending' = ending
      <3>1. ending' = [ending EXCEPT ![a] = ending[a]] /\ line = {ending[a].own}
        BY <1>0, <2>4 DEF View
      <3> QED
        BY <1>11, <2>1, <2>4, <3>1
    <2>5. LookDecides(a) => \/ \E v \in {"ended", "preempted", "failed"} : Conclude(a, v)
                            \/ /\ pc' = [pc EXCEPT ![a] = "hold"]
                               /\ ending' = [ending EXCEPT ![a] = [ending[a] EXCEPT !.hangup = TRUE]]
      BY <1>0 DEF LookDecides, Goto
    <2> QED
      BY <1>12, <2>2, <2>3, <2>4, <2>5 DEF Load, Final, LookFails, Goto
  <1>13. ASSUME NEW a \in Processes,
                \/ Hold(a) \/ Apply(a) \/ LookWaits(a) \/ RestoreRoute(a) \/ WipeSnapshot(a)
                \/ ReleaseRoute(a) \/ ReleaseSnapshot(a) \/ KeepPrivate(a)
         PROVE  SparedInv'
    <2>1. /\ UNCHANGED <<line, late, victims>>
          /\ \E l \in {"look", "hold", "apply", "final", "wipe", "clear", "lastapply", "ready", "down", "gone"} :
                pc' = [pc EXCEPT ![a] = l]
      BY <1>13 DEF Hold, Apply, LookWaits, RestoreRoute, WipeSnapshot, ReleaseRoute, ReleaseSnapshot,
         KeepPrivate, Through, AfterHold, Goto, telecom, history
    <2>2. \A b \in Processes : ending'[b].own = ending[b].own
      <3>1. CASE LookWaits(a)
        <4>1. ending' = [ending EXCEPT ![a] = [ending[a] EXCEPT !.hangup = FALSE]]
          BY <1>0, <3>1 DEF LookWaits
        <4>2. [ending[a] EXCEPT !.hangup = FALSE].own = ending[a].own
          BY <1>0 DEF Locals
        <4> QED
          BY <1>0, <4>1, <4>2
      <3>2. CASE ending' = ending
        BY <3>2
      <3> QED
        BY <1>13, <3>1, <3>2 DEF Hold, Apply, RestoreRoute, WipeSnapshot, ReleaseRoute,
           ReleaseSnapshot, KeepPrivate
    <2> QED
      BY <1>0, <2>1, <2>2, SparedKept
  <1>14. CASE CallLimitExpires
    <2>1. /\ UNCHANGED <<line, late, victims>> /\ pc'["guardian"] = "ownedLook"
          /\ \/ pc'["helper"] = "frozen"
             \/ pc'["helper"] = pc["helper"] /\ ending'["helper"] = ending["helper"]
      BY <1>0, <1>14 DEF CallLimitExpires, telecom, history
    <2> QED
      BY <2>1, SparedKept
  <1>15. CASE StartMenu \/ WorkerStep \/ WaitExpires \/ HelperDies
    BY <1>3, <1>15, WorkerMove
  <1>16. CASE GuardianReads \/ ControlClosed \/ GuardianDeadline \/ GuardianDies
    BY <1>4, <1>16, Recovers
  <1>17. CASE UNCHANGED vars
    BY <1>1, <1>17 DEF vars, telecom, history
  <1> QED
    BY <1>1, <1>2, <1>5, <1>6, <1>7, <1>9, <1>10, <1>12, <1>13, <1>14, <1>15, <1>16, <1>17
       DEF Next, Environment, GuardianStep, RecoveryStep, CallEnds, CallerAnswered, AppCancels,
       ModeEntersCall, ModeLeavesCall, VendorRewrites, GuardianSeesEnding, EnforcePrivacy, telecom,
       history

\* A global hangup hits a foreign call only if that call appeared after the
\* last look, while the hangup was on its way (EndSingleCallAndWait).
THEOREM ForeignCallsSpared == Spec => []ForeignSpared
  <1>1. SparedInv => ForeignSpared
    BY DEF SparedInv
  <1> QED
    BY <1>1, TypeInit, TypeNext, SparedInit, SparedNext, PTL DEF Spec
=============================================================================
