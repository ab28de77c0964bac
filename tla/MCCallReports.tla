--------------------------- MODULE MCCallReports ---------------------------
(* Scenarios of the call-report runs.  Each allows two or three of the     *)
(* dimensions (faults, policies, an audit) so that they meet in pairs.     *)
EXTENDS CallReports

Plain == [audited |-> FALSE, captured |-> FALSE, races |-> FALSE, events |-> Events,
          policies |-> 0, faults |-> 2]
Audited == [Plain EXCEPT !.audited = TRUE, !.events = Failures, !.faults = 1]
Captured == [Audited EXCEPT !.captured = TRUE]
Switched == [Captured EXCEPT !.policies = 2, !.events = {}]
Raced == [Captured EXCEPT !.races = TRUE, !.events = {}]
Reported == {Plain, Audited, Captured, Switched, Raced}
=============================================================================
