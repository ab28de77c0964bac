---------------------------- MODULE FlowPrograms ----------------------------
(***************************************************************************)
(* What becomes of a drawn flow: the server's validator, its compiler and  *)
(* its simulator, and the check the tablet makes of a compiled program.    *)
(* Nothing here has state; FlowRuntime runs the result.                    *)
(*                                                                         *)
(* A flow is an owned tree.  It is a function from positions to blocks; a  *)
(* position is the sequence of the edges that lead to it from the root, so *)
(* an edge with nothing behind it is a position outside the domain.        *)
(* validate_configuration_*, collect and index_owners walk the tree and    *)
(* hand down what they have seen; here the same is said of the positions   *)
(* above a block.                                                          *)
(***************************************************************************)
EXTENDS Naturals, Sequences, FiniteSets, FiniteSetsExt

CONSTANTS
    Durations,          \* prompts of the library: name -> ms
    TimeoutMs,          \* wait for one digit
    RecordMs,           \* recording_behavior.maximum_duration_seconds
    BeepMs,             \* BEEP_DURATION_MS
    WatchdogMs,         \* EXTERNAL_CONTROL_WATCHDOGS_MS
    AnswerMs,           \* answer_timeout_seconds of an external call
    MaximumSessionMs,   \* MAXIMUM_SESSION_MS, ten minutes
    MaximumBlocks,      \* 64
    MaximumDepth,       \* 8
    None

ASSUME FlowAssumption ==
    /\ {TimeoutMs, RecordMs, BeepMs, WatchdogMs, AnswerMs, MaximumSessionMs} \subseteq Nat
    /\ MaximumBlocks \in Nat /\ MaximumDepth \in Nat
    /\ \A p \in DOMAIN Durations : Durations[p] \in Nat

DTMF_ORDER == <<"0", "1", "2", "3", "4", "5", "6", "7", "8", "9", "*", "#">>
Versions == {2, 3, 4}

----------------------------------------------------------------------------
(* Trees *)

(* owned_children without the digit branches of a menu, in order.          *)
Owned == [play_prompt |-> <<"next">>,
          collect_digit |-> <<"on_timeout", "on_invalid", "on_return_limit">>,
          schedule_branch |-> <<"on_open", "on_closed", "on_holiday">>,
          record_message |-> <<"next", "on_unavailable">>,
          external_call |-> <<"next", "on_not_connected", "on_system_failure">>,
          return_to_menu |-> <<>>,
          end_call |-> <<>>]

Elements(s) == {s[i] : i \in DOMAIN s}

(* FlowBlockV2: keys gives the digit of each branch of a menu; a branch is *)
(* an edge of its own.                                                     *)
IsBlock(b) ==
    /\ b.type \in DOMAIN Owned
    /\ b.type # "collect_digit" => DOMAIN b.keys = {}
    /\ DOMAIN b.keys \cap Elements(Owned[b.type]) = {}
    /\ \A e \in DOMAIN b.keys : \E i \in DOMAIN DTMF_ORDER : b.keys[e] = DTMF_ORDER[i]
    /\ b.attempts \in 1 .. 3 /\ b.returns \in 1 .. 3
    /\ b.barge => b.prompt # None

Edges(b) == DOMAIN b.keys \cup Elements(Owned[b.type])

Up(p, n) == SubSeq(p, 1, n)

(* FlowDocument: finitely many blocks, each behind an edge of the one      *)
(* above it.                                                               *)
IsDraft(d) ==
    /\ IsFiniteSet(DOMAIN d)
    /\ \A p \in DOMAIN d :
        /\ p \in Seq(STRING) /\ IsBlock(d[p])
        /\ \A n \in 1 .. Len(p) : Up(p, n - 1) \in DOMAIN d /\ p[n] \in Edges(d[Up(p, n - 1)])

Above(p, q) == Len(p) < Len(q) /\ Up(q, Len(p)) = p
Ancestors(d, p) == {q \in DOMAIN d : Above(q, p)}
Typed(d, types) == {p \in DOMAIN d : d[p].type \in types}

(* The menus around a position; Return to menu belongs to the nearest.     *)
Menus(d, p) == {q \in Ancestors(d, p) : d[q].type = "collect_digit"}
OwnerMenu(d, p) == CHOOSE q \in Menus(d, p) : \A r \in Menus(d, p) : Len(r) <= Len(q)

----------------------------------------------------------------------------
(* validation.py *)

PromptExists(b) == b.prompt \in DOMAIN Durations

(* The part of a block that its own fields decide.                         *)
BlockComplete(b) ==
    /\ b.type = "play_prompt" => PromptExists(b)
    /\ b.type = "collect_digit" =>
        /\ b.prompt = None \/ PromptExists(b)
        /\ DOMAIN b.keys # {}
        /\ \A e, f \in DOMAIN b.keys : b.keys[e] = b.keys[f] => e = f
    /\ b.type = "schedule_branch" => b.schedule

ReturnsToMenu(d, p) ==
    /\ Menus(d, p) # {}
    /\ p[Len(OwnerMenu(d, p)) + 1] # "on_return_limit"

(* What all versions demand.                                               *)
WellDrawn(d) ==
    /\ DOMAIN d # {}
    /\ \A p, q \in DOMAIN d : d[p].id = d[q].id => p = q
    /\ \A p \in DOMAIN d :
        /\ BlockComplete(d[p])
        /\ \A e \in Edges(d[p]) : Append(p, e) \in DOMAIN d
        /\ Len(p) < MaximumDepth
    /\ \A p \in Typed(d, {"return_to_menu"}) : ReturnsToMenu(d, p)
    /\ Cardinality(DOMAIN d) <= MaximumBlocks

NoBargeIn(d) == \A p \in DOMAIN d : ~d[p].barge

ValidV2(d) ==
    WellDrawn(d) /\ NoBargeIn(d) /\ Typed(d, {"record_message", "external_call"}) = {}

(* A recording follows its greeting at once.                               *)
ValidV3(d) ==
    /\ WellDrawn(d) /\ NoBargeIn(d) /\ Typed(d, {"external_call"}) = {}
    /\ \A p \in Typed(d, {"record_message"}) :
        Len(p) > 0 /\ d[Up(p, Len(p) - 1)].type = "play_prompt"

PromptAvailable(d, p) == \E q \in Ancestors(d, p) : d[q].prompt # None

(* A recording or an external call has had a prompt earlier on its path.   *)
ValidV4(d) ==
    /\ WellDrawn(d)
    /\ \A p \in Typed(d, {"record_message", "external_call"}) : PromptAvailable(d, p)

----------------------------------------------------------------------------
(* compiler_v2.py, compiler_v3.py, compiler_v4.py *)

(* Branches by digit in keypad order, then the other edges.                *)
EdgeRank(b, e) ==
    IF e \in DOMAIN b.keys THEN CHOOSE i \in DOMAIN DTMF_ORDER : DTMF_ORDER[i] = b.keys[e]
    ELSE Len(DTMF_ORDER) + CHOOSE i \in DOMAIN Owned[b.type] : Owned[b.type][i] = e

(* collect visits a block before its children, and those in that order.    *)
Before(d, p, q) ==
    \/ Above(p, q)
    \/ \E n \in 1 .. Len(p) :
        /\ n <= Len(q) /\ Up(p, n - 1) = Up(q, n - 1) /\ p[n] # q[n]
        /\ EdgeRank(d[Up(p, n - 1)], p[n]) < EdgeRank(d[Up(p, n - 1)], q[n])

Pc(d, p) == Cardinality({q \in DOMAIN d : Before(d, q, p)})

(* Slip: Return to menu goes to the outermost menu.                        *)
MenuPcOutermost(d, p) ==
    Pc(d, CHOOSE q \in Menus(d, p) : \A r \in Menus(d, p) : Len(q) <= Len(r))

MenuPc(d, p) == Pc(d, OwnerMenu(d, p))

Instruction(d, p) ==
    LET b == d[p] IN
    [id |-> b.id, op |-> b.type, prompt |-> b.prompt, barge |-> b.barge,
     attempts |-> b.attempts, returns |-> b.returns,
     branches |-> [k \in Elements(b.keys) |->
                      Pc(d, Append(p, CHOOSE e \in DOMAIN b.keys : b.keys[e] = k))],
     to |-> [e \in Elements(Owned[b.type]) |-> Pc(d, Append(p, e))],
     menu |-> IF b.type = "return_to_menu" THEN MenuPc(d, p) ELSE None]

Tape(d) ==
    [n \in 0 .. Cardinality(DOMAIN d) - 1 |->
        Instruction(d, CHOOSE p \in DOMAIN d : Pc(d, p) = n)]

PromptMs(i) == IF i.prompt \in DOMAIN Durations THEN Durations[i.prompt] ELSE 0
Targets(i) == Elements(i.branches) \cup Elements(i.to)
Unbounded == MaximumSessionMs + 1

(* Slip: a menu waits once, however many attempts it gives.                *)
MenuMsOnce(i) == PromptMs(i) + TimeoutMs

MenuMs(i) == i.attempts * (PromptMs(i) + TimeoutMs)

(* maximum_cost: the longest run from an instruction, given how often each *)
(* menu has been returned to.  A state met again below itself is a cycle.  *)
MenusOf(tape) == {n \in DOMAIN tape : tape[n].op = "collect_digit"}

CostStates(tape) ==
    LET Counts == [MenusOf(tape) -> 0 .. 3] IN
    [pc : DOMAIN tape, returns : Counts, active : SUBSET ((DOMAIN tape) \X Counts)]

CostHere(tape, cost, s) ==
    LET i == tape[s.pc]
        here == <<s.pc, s.returns>>
        On(pc, returns) == cost[[pc |-> pc, returns |-> returns, active |-> s.active \cup {here}]]
        Longest(pcs) == Max({On(pc, s.returns) : pc \in pcs})
        Again == [s.returns EXCEPT ![i.menu] = @ + 1]
    IN  IF here \in s.active THEN Unbounded
        ELSE CASE i.op = "end_call" -> 0
               [] i.op = "play_prompt" -> PromptMs(i) + Longest(Targets(i))
               [] i.op = "collect_digit" ->
                     MenuMs(i) + Longest(Elements(i.branches)
                                          \cup {i.to["on_timeout"], i.to["on_invalid"]})
               [] i.op = "schedule_branch" -> Longest(Targets(i))
               [] i.op = "record_message" ->
                     BeepMs + Max({RecordMs + On(i.to["next"], s.returns),
                                   On(i.to["on_unavailable"], s.returns)})
               [] i.op = "external_call" -> WatchdogMs + AnswerMs + Longest(Targets(i))
               [] i.op = "return_to_menu" ->
                     IF s.returns[i.menu] < tape[i.menu].returns THEN On(i.menu, Again)
                     ELSE On(tape[i.menu].to["on_return_limit"], s.returns)

MaximumCost(tape) ==
    LET cost[s \in CostStates(tape)] == CostHere(tape, cost, s)
    IN  cost[[pc |-> 0, returns |-> [m \in MenusOf(tape) |-> 0], active |-> {}]]

(* V2 has no session bound; 0 tells the helper so.                         *)
CompileFlow(d) == [version |-> 2, tape |-> Tape(d), budget |-> 0]
CompileFlowV3(d) == [version |-> 3, tape |-> Tape(d), budget |-> MaximumCost(Tape(d))]
CompileFlowV4(d) == [version |-> 4, tape |-> Tape(d), budget |-> MaximumCost(Tape(d))]

(* validation_errors: the rules, and a compilation within ten minutes.     *)
Programs(v, d) ==
    {p \in CASE v = 2 -> IF ValidV2(d) THEN {CompileFlow(d)} ELSE {}
             [] v = 3 -> IF ValidV3(d) THEN {CompileFlowV3(d)} ELSE {}
             [] v = 4 -> IF ValidV4(d) THEN {CompileFlowV4(d)} ELSE {} :
        p.budget <= MaximumSessionMs}

----------------------------------------------------------------------------
(* simulation_v2.py, simulation_v3.py, simulation_v4.py: one block at a    *)
(* time; an answer is complete, invalid, or the next position.             *)

StartAt(d) == [at |-> <<>>, status |-> "going", attempt |-> 0,
               returns |-> [p \in Typed(d, {"collect_digit"}) |-> 0]]
Ended(s, status) == [s EXCEPT !.status = status]

(* Along an edge of the current block, if there is something behind it.    *)
Follow(d, s, e) ==
    IF Append(s.at, e) \in DOMAIN d THEN [s EXCEPT !.at = Append(@, e), !.attempt = 0]
    ELSE Ended(s, "invalid")

SimulateMenu(d, s, event) ==
    LET b == d[s.at]
        hit == {e \in DOMAIN b.keys : b.keys[e] = event}
    IN  IF hit # {} THEN Follow(d, s, CHOOSE e \in hit : TRUE)
        ELSE IF s.attempt + 1 < b.attempts THEN [s EXCEPT !.attempt = @ + 1]
        ELSE Follow(d, s, IF event = "timeout" THEN "on_timeout" ELSE "on_invalid")

(* Slip: the limit is compared with the count after this return.           *)
SimulateReturnEarly(d, s) ==
    LET menu == OwnerMenu(d, s.at) IN
    IF s.returns[menu] + 1 >= d[menu].returns THEN Follow(d, [s EXCEPT !.at = menu], "on_return_limit")
    ELSE [s EXCEPT !.at = menu, !.returns[menu] = @ + 1]

SimulateReturn(d, s) ==
    LET menu == OwnerMenu(d, s.at) IN
    IF Menus(d, s.at) = {} THEN Ended(s, "invalid")
    ELSE IF s.returns[menu] >= d[menu].returns THEN Follow(d, [s EXCEPT !.at = menu], "on_return_limit")
    ELSE [s EXCEPT !.at = menu, !.returns[menu] = @ + 1]

SimulateV2(d, s, event) ==
    CASE d[s.at].type = "play_prompt" -> Follow(d, s, "next")
      [] d[s.at].type = "end_call" -> Ended(s, "complete")
      [] d[s.at].type = "return_to_menu" -> SimulateReturn(d, s)
      [] d[s.at].type = "schedule_branch" -> Follow(d, s, event)
      [] d[s.at].type = "collect_digit" -> SimulateMenu(d, s, event)
      [] OTHER -> Ended(s, "invalid")

SimulateV3(d, s, event) ==
    IF d[s.at].type # "record_message" THEN SimulateV2(d, s, event)
    ELSE IF event = "hangup" THEN Ended(s, "complete")
    ELSE Follow(d, s, IF event = "recorded" THEN "next" ELSE "on_unavailable")

SimulateV4(d, s, event) ==
    IF d[s.at].type # "external_call" THEN SimulateV3(d, s, event)
    ELSE Follow(d, s, event)

Simulate(v, d, s, event) ==
    CASE v = 2 -> SimulateV2(d, s, event)
      [] v = 3 -> SimulateV3(d, s, event)
      [] v = 4 -> SimulateV4(d, s, event)

----------------------------------------------------------------------------
(* The tablet: appendProgram of the app and ValidateProgramV2 of the       *)
(* helper make the same check of a program before it may be activated.     *)

EdgesOf(i) ==
    {[via |-> "digit", pc |-> n] : n \in Elements(i.branches)}
        \cup {[via |-> e, pc |-> i.to[e]] : e \in DOMAIN i.to}

(* The walks from the entry, as far as one step past the greatest depth.   *)
Visits(tape) ==
    LET walks[n \in 1 .. MaximumDepth + 1] ==
            IF n = 1 THEN {<<[via |-> "entry", pc |-> 0]>>}
            ELSE UNION {{Append(w, e) : e \in EdgesOf(tape[w[n - 1].pc])} : w \in walks[n - 1]}
    IN  UNION {walks[n] : n \in 1 .. MaximumDepth + 1}

Last(w) == w[Len(w)].pc

(* A return names the nearest menu of its walk and was not reached through *)
(* that menu's return limit.                                               *)
OwnReturn(tape, w) ==
    LET menus == {n \in 1 .. Len(w) - 1 : tape[w[n].pc].op = "collect_digit"} IN
    /\ menus # {}
    /\ tape[Last(w)].menu = w[Max(menus)].pc
    /\ w[Max(menus) + 1].via # "on_return_limit"

NoticeGiven(v, tape, w) ==
    CASE v = 4 -> \E n \in 1 .. Len(w) - 1 : tape[w[n].pc].prompt # None
      [] v = 3 -> Len(w) > 1 /\ tape[w[Len(w) - 1].pc].op = "play_prompt"
      [] v = 2 -> FALSE

ProgramAccepted(program) ==
    LET tape == program.tape IN
    /\ Cardinality(DOMAIN tape) \in 1 .. MaximumBlocks
    /\ program.budget \in 0 .. MaximumSessionMs
    /\ \A m, n \in DOMAIN tape : tape[m].id = tape[n].id => m = n
    /\ \A n \in DOMAIN tape :
        /\ Targets(tape[n]) \subseteq DOMAIN tape
        /\ tape[n].op = "external_call" => program.version = 4
    /\ \A w \in Visits(tape) :
        /\ Len(w) <= MaximumDepth
        /\ \A u \in Visits(tape) : Last(u) = Last(w) => u = w
        /\ tape[Last(w)].op = "return_to_menu" => OwnReturn(tape, w)
        /\ tape[Last(w)].op \in {"record_message", "external_call"}
              => NoticeGiven(program.version, tape, w)
    /\ \A n \in DOMAIN tape : \E w \in Visits(tape) : Last(w) = n
=============================================================================
