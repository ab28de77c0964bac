--------------------------- MODULE MCFlowRuntime ---------------------------
(* The drafts of the flow runs, put together from the blocks Studio        *)
(* offers, some of them incomplete or badly drawn.                         *)
EXTENDS FlowRuntime

Block(type) == [id |-> <<>>, type |-> type, prompt |-> None, keys |-> <<>>, attempts |-> 1,
                returns |-> 1, barge |-> FALSE, schedule |-> TRUE]
Menu(prompt, keys, attempts, again) ==
    [Block("collect_digit") EXCEPT !.prompt = prompt, !.keys = keys, !.attempts = attempts,
                                   !.returns = again]

(* A block over trees, one for each edge that has something behind it.     *)
Tree(b, below) ==
    [p \in {<<>>} \cup UNION {{<<e>> \o q : q \in DOMAIN below[e]} : e \in DOMAIN below} |->
        IF p = <<>> THEN b ELSE below[p[1]][Tail(p)]]

(* Blocks get their positions for ids.                                     *)
Drawn(t) == [p \in DOMAIN t |-> [t[p] EXCEPT !.id = p]]
Copied(t) == [p \in DOMAIN t |-> [t[p] EXCEPT !.id = <<>>]]

End == Tree(Block("end_call"), <<>>)
Return == Tree(Block("return_to_menu"), <<>>)
Play(prompt, next) == Tree([Block("play_prompt") EXCEPT !.prompt = prompt], [next |-> next])
Record(next, lost) == Tree(Block("record_message"), [next |-> next, on_unavailable |-> lost])
External(next, unconnected, failed) ==
    Tree(Block("external_call"),
         [next |-> next, on_not_connected |-> unconnected, on_system_failure |-> failed])
Schedule(open, closed, known) ==
    Tree([Block("schedule_branch") EXCEPT !.schedule = known],
         [on_open |-> open, on_closed |-> closed, on_holiday |-> End])

(* The branches are drawn in the other order than the keypad's.            *)
Choice(menu, one, zero, otherwise, limit) ==
    Tree(menu, [a |-> one, b |-> zero, on_timeout |-> otherwise, on_invalid |-> Play("hello", End),
                on_return_limit |-> limit])
TwoKeys == [a |-> "1", b |-> "0"]
SameKeys == [a |-> "1", b |-> "1"]

Ends == {End, Return}
Parts ==
    Ends \cup {Play("hello", l) : l \in Ends}
         \cup {Record(l, m) : l, m \in Ends} \cup {Play("hello", Record(End, m)) : m \in Ends}
         \cup {External(l, m, Play("hello", End)) : l, m \in Ends}
         \cup {Schedule(l, m, TRUE) : l, m \in Ends}

MenuFlows ==
    {Choice(Menu(prompt, TwoKeys, attempts, again), part, Return, End, limit) :
        prompt \in {None, "hello"}, attempts \in 1 .. 2, again \in 1 .. 2,
        part \in Parts, limit \in Ends}

Inner == Choice(Menu("hello", TwoKeys, 1, 1), Return, End, Return, End)
Nested ==
    {Choice(Menu("hello", TwoKeys, 1, 2), Inner, part, Return, Play("hello", End)) :
        part \in {Return, Record(Return, End)}}
    \cup {Choice(Menu("hello", TwoKeys, 1, 1), Return, End, End, Inner)}

Interruptible ==
    {Choice([Menu("hello", TwoKeys, 2, 1) EXCEPT !.barge = TRUE], part, Return, End, End) :
        part \in {Return, External(Return, End, End)}}

(* Without a menu; a late "sorry" after a recording that was lost.         *)
Straight ==
    {Play("hello", t) : t \in {End, Record(End, Play("hello", Play("hello", End))),
                               External(Record(End, End), End, Play("hello", End)),
                               Schedule(Play("hello", End), Record(End, End), TRUE)}}
    \cup {Schedule(Play("hello", Record(End, End)), End, TRUE)}

(* What the rules are there to refuse.                                     *)
Misdrawn ==
    {Return, Play("gone", End), Play(None, End), Schedule(End, End, FALSE),
     Record(End, End), External(End, End, End),
     Tree(Menu("hello", <<>>, 1, 1),
          [on_timeout |-> End, on_invalid |-> End, on_return_limit |-> End]),
     Choice(Menu("hello", SameKeys, 1, 1), End, End, End, End),
     Tree(Menu("hello", TwoKeys, 1, 1), [a |-> End, on_timeout |-> End, on_invalid |-> End]),
     Play("hello", Play("hello", Play("hello", Play("hello", Play("hello", End))))),
     <<>>}

Drafts ==
    {Drawn(t) : t \in MenuFlows \cup Nested \cup Interruptible \cup Straight \cup Misdrawn}
        \cup {Copied(Play("hello", End))}

Library == [hello |-> 2]
=============================================================================
