----------------------------- MODULE FlowRuntime -----------------------------
(***************************************************************************)
(* A flow is drawn, published and checked by the tablet; then one call     *)
(* runs it.  The helper interprets the compiled tape                       *)
(* (RunConfiguredProgramV2) while the server's simulator is given the same *)
(* events on the drawn tree.                                               *)
(*                                                                         *)
(* Time is the automated time of the session: prompts, waits, beeps,       *)
(* recordings and what an external call takes before and after its         *)
(* conversation, which is not part of it.  The steps themselves take none, *)
(* which is the best case.                                                 *)
(***************************************************************************)
EXTENDS FlowPrograms

CONSTANTS
    Flows,                \* drafts that may be published
    MaximumTransitions,   \* kMaximumTransitions, 512
    SetupMs,              \* SETUP_TIMEOUT_MS: the leg must surface, 10 s
    RecorderMs,           \* RECORDER_TIMEOUT_MS, 10 s
    MergeMs,              \* MERGE_TIMEOUT_MS, 10 s
    CleanupMs,            \* CLEANUP_TIMEOUT_MS, kExternalCleanupMaximumMs, 12 s
    SafeMs                \* kExternalCallerSafeMaximumMs, 2.5 s

ASSUME RuntimeAssumption ==
    {MaximumTransitions, SetupMs, RecorderMs, MergeMs, CleanupMs, SafeMs} \subseteq Nat
ASSUME FlowsAssumption == \A d \in Flows : IsDraft(d)

(* A tree of n blocks has at most (n - 1) \div 4 menus, for a menu has four *)
(* edges at least, and three returns to each; between two of them a call   *)
(* goes no further than the greatest depth.  424 < 512 in the code.        *)
ASSUME TurnsAssumption ==
    \A menus \in 0 .. MaximumBlocks :
        4 * menus + 1 <= MaximumBlocks
            => MaximumDepth * (3 * menus + MaximumDepth) < MaximumTransitions

VARIABLES
    flow,         \* the published draft, or None
    program,      \* [version, tape, budget], or None
    pc,           \* current
    attempt,      \* attempts used at the current menu
    returns,      \* menuReturns
    transitions,  \* turns of the interpreter's loop
    elapsed,      \* automated time spent
    overtime,     \* automated time that maximum_cost makes no allowance for
    outcome,      \* authoring, refused (by the tablet), running, or the end
    sim           \* the simulator on the same events

vars == <<flow, program, pc, attempt, returns, transitions, elapsed, overtime, outcome, sim>>

(* SessionOutcome: complete; remote_hangup; broken_off, when audio, capture *)
(* or another call stops a step; cut_short, when the interpreter gives up.  *)
Outcomes == {"authoring", "refused", "running", "complete", "remote_hangup", "broken_off",
             "cut_short"}

Running == outcome = "running"
Here == program.tape[pc]
MenuPcs == {n \in DOMAIN program.tape : program.tape[n].op = "collect_digit"}

----------------------------------------------------------------------------
Init ==
    /\ flow = None /\ program = None
    /\ pc = 0 /\ attempt = 0 /\ returns = <<>> /\ transitions = 0 /\ elapsed = 0
    /\ overtime = 0 /\ outcome = "authoring" /\ sim = None

(* The draft passes the server's rules; the tablet takes the program or    *)
(* refuses it; the next call starts at its entry.                          *)
Publish(v, d) ==
    /\ outcome = "authoring"
    /\ \E p \in Programs(v, d) :
        /\ flow' = d /\ program' = p
        /\ outcome' = IF ProgramAccepted(p) THEN "running" ELSE "refused"
        /\ returns' = [n \in {m \in DOMAIN p.tape : p.tape[m].op = "collect_digit"} |-> 0]
    /\ sim' = StartAt(d)
    /\ UNCHANGED <<pc, attempt, transitions, elapsed, overtime>>

(* automatedSessionExpired *)
Expired(spent) == program.version >= 3 /\ program.budget # 0 /\ spent >= program.budget

(* The head of the loop: another turn is allowed.                          *)
MayTurn == attempt = 0 => transitions < MaximumTransitions /\ ~Expired(elapsed)

Turn(op) ==
    /\ Running /\ Here.op = op /\ MayTurn
    /\ transitions' = IF attempt = 0 THEN transitions + 1 ELSE transitions

CutShort ==
    /\ Running /\ attempt = 0
    /\ transitions = MaximumTransitions \/ Expired(elapsed)
    /\ outcome' = "cut_short"
    /\ UNCHANGED <<flow, program, pc, attempt, returns, transitions, elapsed, overtime, sim>>

Simulated(event) == sim' = Simulate(program.version, flow, sim, event)
Spend(ms) == elapsed' = elapsed + ms
Goto(n) == pc' = n /\ attempt' = 0

PlayPrompt ==
    /\ Turn("play_prompt")
    /\ Spend(PromptMs(Here)) /\ Goto(Here.to["next"]) /\ Simulated("next")
    /\ UNCHANGED <<flow, program, returns, overtime, outcome>>

(* One attempt at a menu: the prompt, unless a digit may interrupt it, and *)
(* a wait that a digit may end at once or at the last moment.              *)
AttemptMs(event) ==
    {PromptMs(Here) + TimeoutMs}
        \cup IF event = "timeout" THEN {} ELSE {IF Here.barge THEN 0 ELSE PromptMs(Here)}

CollectDigit(event) ==
    LET last == attempt + 1 = Here.attempts IN
    /\ Turn("collect_digit")
    /\ \E ms \in AttemptMs(event) : Spend(ms)
    /\ \/ event \in DOMAIN Here.branches /\ Goto(Here.branches[event])
       \/ /\ event \notin DOMAIN Here.branches /\ last
          /\ Goto(Here.to[IF event = "timeout" THEN "on_timeout" ELSE "on_invalid"])
       \/ /\ event \notin DOMAIN Here.branches /\ ~last
          /\ attempt' = attempt + 1 /\ UNCHANGED pc
    /\ Simulated(event)
    /\ UNCHANGED <<flow, program, returns, overtime, outcome>>

ScheduleBranch(e) ==
    /\ Turn("schedule_branch")
    /\ Goto(Here.to[e]) /\ Simulated(e)
    /\ UNCHANGED <<flow, program, returns, elapsed, overtime, outcome>>

(* Slip: one return too many.                                              *)
ReturnAllowedOnceMore == returns[Here.menu] <= program.tape[Here.menu].returns

ReturnAllowed == returns[Here.menu] < program.tape[Here.menu].returns

ReturnToMenu ==
    /\ Turn("return_to_menu")
    /\ IF ReturnAllowed
       THEN /\ returns' = [returns EXCEPT ![Here.menu] = @ + 1]
            /\ Goto(Here.menu)
       ELSE /\ Goto(program.tape[Here.menu].to["on_return_limit"])
            /\ UNCHANGED returns
    /\ Simulated("return")
    /\ UNCHANGED <<flow, program, elapsed, overtime, outcome>>

(* CaptureRecordingMessage: finished by the key or the maximum, refused    *)
(* before or after the beep, failed at any moment of the recording, or     *)
(* ended by the caller.                                                    *)
RecordMessage(result) ==
    /\ Turn("record_message")
    /\ \/ /\ result = "recorded"
          /\ \E ms \in {0, RecordMs} : Spend(BeepMs + ms)
          /\ Goto(Here.to["next"]) /\ Simulated(result)
          /\ UNCHANGED <<overtime, outcome>>
       \/ /\ result = "unavailable"
          /\ \E ms \in {0, BeepMs} : Spend(ms)
          /\ Goto(Here.to["on_unavailable"]) /\ Simulated(result)
          /\ UNCHANGED <<overtime, outcome>>
       \/ /\ result = "spoiled"
          /\ Spend(BeepMs + RecordMs)
          /\ Goto(Here.to["on_unavailable"]) /\ Simulated("unavailable")
          /\ overtime' = overtime + RecordMs /\ UNCHANGED outcome
       \/ /\ result = "hangup"
          /\ outcome' = "remote_hangup" /\ Simulated(result)
          /\ UNCHANGED <<pc, attempt, elapsed, overtime>>
    /\ UNCHANGED <<flow, program, returns>>

(* ExecuteExternalCall without its conversation.  Each wait has a limit of *)
(* its own; the teardown is waited for unless the conversation took place. *)
LongestMs(e) ==
    SetupMs + AnswerMs + RecorderMs + MergeMs + SafeMs + (IF e = "next" THEN 0 ELSE CleanupMs)

(* The compiler allows for the answer and EXTERNAL_CONTROL_WATCHDOGS_MS.   *)
AllowedMs == WatchdogMs + AnswerMs

(* The bound is looked at again before the branch is taken.                *)
ExternalCall(e) ==
    /\ Turn("external_call")
    /\ \E ms \in 0 .. LongestMs(e) :
        /\ Spend(ms)
        /\ overtime' = IF ms > AllowedMs THEN overtime + (LongestMs(e) - AllowedMs) ELSE overtime
        /\ IF Expired(elapsed + ms) THEN outcome' = "cut_short" /\ UNCHANGED <<pc, attempt, sim>>
           ELSE Goto(Here.to[e]) /\ Simulated(e) /\ UNCHANGED outcome
    /\ UNCHANGED <<flow, program, returns>>

EndCall ==
    /\ Turn("end_call")
    /\ outcome' = "complete" /\ Simulated("end")
    /\ UNCHANGED <<flow, program, pc, attempt, returns, elapsed, overtime>>

(* The caller hangs up, or the audio fails, inside a step that uses it; or *)
(* the worker is told to stop (gStopRequested), at any moment.             *)
Interrupted(end) ==
    /\ Running
    /\ \/ /\ Here.op \in {"play_prompt", "collect_digit", "external_call", "record_message"}
          /\ MayTurn
       \/ end = "broken_off"
    /\ outcome' = end
    /\ UNCHANGED <<flow, program, pc, attempt, returns, transitions, elapsed, overtime, sim>>

Next ==
    \/ \E v \in Versions, d \in Flows : Publish(v, d)
    \/ CutShort \/ PlayPrompt \/ ReturnToMenu \/ EndCall
    \/ \E event \in {"0", "1", "2", "timeout"} : CollectDigit(event)
    \/ \E e \in Elements(Owned["schedule_branch"]) : ScheduleBranch(e)
    \/ \E result \in {"recorded", "unavailable", "spoiled", "hangup"} : RecordMessage(result)
    \/ \E e \in Elements(Owned["external_call"]) : ExternalCall(e)
    \/ \E end \in {"remote_hangup", "broken_off"} : Interrupted(end)

Spec == Init /\ [][Next]_vars

----------------------------------------------------------------------------
Started == outcome \notin {"authoring", "refused"}

(* The interpreter stays on the tape, gives a menu its attempts and        *)
(* returns to it no more often than it allows (RunConfiguredProgramV2).    *)
TypeOK ==
    /\ outcome \in Outcomes
    /\ transitions \in 0 .. MaximumTransitions /\ {elapsed, overtime} \subseteq Nat
    /\ Started =>
        /\ \A p \in DOMAIN flow : IsBlock(flow[p])
        /\ pc \in DOMAIN program.tape
        /\ attempt < Here.attempts
        /\ \A m \in MenuPcs : returns[m] <= program.tape[m].returns

(* The compiled tape does what was drawn: as long as the call runs, the    *)
(* helper is at the block the simulator is at, has used as many attempts   *)
(* and returned to each menu as often; and it ends the call where the      *)
(* simulator does (simulate_v4 and RunConfiguredProgramV2).                *)
SamePath ==
    /\ Running =>
        /\ sim.status = "going"
        /\ Here.id = flow[sim.at].id /\ attempt = sim.attempt
        /\ \A p \in DOMAIN sim.returns : returns[Pc(flow, p)] = sim.returns[p]
    /\ outcome = "complete" => sim.status = "complete"

(* The compiler's bound is a bound, but for two allowances it does not     *)
(* make: whatever the caller and the called party do, a session spends no  *)
(* more automated time than maximum_cost says, and in addition one         *)
(* recording for each that failed after it had begun and, for each         *)
(* external call that took longer than its answer and the three watchdogs, *)
(* the difference to the sum of the limits the engine and the helper wait. *)
(* The loop never runs out of turns (compile_flow_v3, compile_flow_v4,     *)
(* RunConfiguredProgramV2).                                                *)
BoundHolds ==
    /\ Started /\ program.version >= 3 => elapsed <= program.budget + overtime
    /\ Running => transitions < MaximumTransitions

(* What the server publishes, the tablet takes: the validator and the      *)
(* compiler leave nothing for the app's and the helper's check to find     *)
(* (validation_errors, appendProgram and ValidateProgramV2).               *)
AcceptedByTablet == outcome # "refused"

(* Simulation and device describe the same path: where the interpreter     *)
(* itself ends a call, the simulator has ended it too                      *)
(* (automatedSessionExpired in RunConfiguredProgramV2).                    *)
EndsAsSimulated == outcome \in {"complete", "cut_short"} => sim.status = "complete"
=============================================================================
