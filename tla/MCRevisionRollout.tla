------------------------- MODULE MCRevisionRollout -------------------------
EXTENDS RevisionRollout

Lane3 == [lane |-> 3, kinds |-> {"save", "publish", "rollback", "reassign", "enroll"},
          overlapping |-> {}, ids |-> 3, edits |-> 2, calls |-> 0, faults |-> 0]
(* Two operators save, publish and roll back at the same time.             *)
Operators == [lane |-> 4, kinds |-> {"save", "publish", "rollback", "enroll"},
              overlapping |-> {"save", "publish", "rollback"}, ids |-> 3, edits |-> 2,
              calls |-> 0, faults |-> 0]
(* The prompt library changes under drafts and revisions.                  *)
Library == [lane |-> 4, kinds |-> {"save", "publish", "upload", "delete", "enroll", "revoke"},
            overlapping |-> {}, ids |-> 2, edits |-> 3, calls |-> 0, faults |-> 0]
(* The tablet is interrupted by a call; by a crash, a loss or a timeout.   *)
Interrupted(c, f) == [lane |-> 4, kinds |-> {"publish", "reassign", "enroll"},
                      overlapping |-> {}, ids |-> 2, edits |-> 1, calls |-> c, faults |-> f]

(* A call comes while the tablet activates; nothing else goes wrong.       *)
CallDuringActivation == {Interrupted(1, 0)}

Rollouts == {Lane3, Operators, Library, Interrupted(1, 0), Interrupted(0, 1)}
=============================================================================
