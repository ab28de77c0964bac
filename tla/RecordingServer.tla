--------------------------- MODULE RecordingServer ---------------------------
(* The recording store with everything that works on it at once: requests of *)
(* the tablet, an administrator, the worker and maintenance.                 *)
EXTENDS RecordingUploads

Init ==
    /\ scene \in Scenarios
    /\ row = [r \in Recordings |->
                 IF r = "other" /\ scene.other = "kept"
                 THEN [status |-> "ready", media |-> 0]
                 ELSE [status |-> "absent", media |-> None]]
    /\ up = [r \in Recordings |-> [p \in AllParts |-> NoUpload]]
    /\ rcpt = [r \in Recordings |-> "none"]
    /\ media = IF scene.other = "kept" THEN {0} ELSE {}
    /\ quar = {}
    /\ dirs = [n \in {} |-> {}]
    /\ temps = FALSE
    /\ names = 0
    /\ thr = [t \in Threads |-> Idle]
    /\ server = "up"
    /\ spool = OfRecording("target")
                  \cup (IF scene.other = "new" THEN OfRecording("other") ELSE {})
    /\ faults = 0

Tablet ==
    \/ \E r \in Recordings : HearAcknowledged(r) \/ HearSegment(r)
    \/ \E t \in Clients, r \in Recordings : Request(t, r)

Next ==
    \/ Tablet
    \/ \E r \in Recordings, p \in AllParts : GrowStale(r, p)
    \/ \E t \in Clients \cup {"admin", "worker"} : Continue(t)
    \/ \E r \in Recordings : RecoverPartial(r)
    \/ Removal
    \/ Maintenance
    \/ Worker
    \/ Crash

Spec == Init /\ [][Next]_vars

-----------------------------------------------------------------------------
Labels ==
    {"idle", "opening", "reserved", "storing", "finalizing", "finalized",
     "tidying", "verifying", "assembling", "resetting", "working", "placing",
     "accepting", "deleting", "purging", "discarding", "quarantine", "restore",
     "erase", "root", "unlink", "uploads", "prune"}

TypeOK ==
    /\ scene \in Scenarios
    /\ row \in [Recordings ->
          [status: {"absent", "uploading", "processing", "ready", "failed",
                    "deleted"}, media: Names \cup {None}]]
    /\ up \in [Recordings -> [AllParts ->
          [st: {"none", "uploading", "verified", "assembled", "failed"},
           off: 0 .. 2, dir: Names \cup {None}, stale: BOOLEAN]]]
    /\ rcpt \in [Recordings ->
          {"none", "uploading", "queued", "processing", "retrying",
           "needs_attention", "invalid", "ready"}]
    /\ media \subseteq Names /\ quar \subseteq Names
    /\ DOMAIN dirs \subseteq Names /\ \A d \in DOMAIN dirs : dirs[d] \subseteq 0 .. 1
    /\ temps \in BOOLEAN /\ names \in Names
    /\ \A t \in Threads : thr[t].at \in Labels /\ thr[t].policy \in BOOLEAN
    /\ server \in {"down", "starting", "up"}
    /\ spool \subseteq Captured /\ faults \in 0 .. scene.faults

(* Where the audio of a part is once the tablet has deleted its copy: the    *)
(* media of a ready recording, in place or moved aside by a deletion that    *)
(* may still be undone; the chunks of a verified segment; or nowhere,        *)
(* because the recording was deleted.                                        *)
Held(r, p) ==
    \/ row[r].status = "deleted"
    \/ row[r].status = "ready" /\ row[r].media \in media \cup quar
    \/ up[r][p].st = "verified" /\ ReadBack(r, p)

(* No caller audio is lost: what the tablet has deleted, the server has,     *)
(* until someone or the retention policy deletes it.                         *)
AudioKept ==
    \A q \in Captured : q \in spool \/ Held(q[1], q[2])

(* A recording that is listed as ready can be played, unless a deletion of   *)
(* it is under way or the server is not serving: a crash between the moving  *)
(* aside and the commit is undone before the server serves again.            *)
ReadyPlays ==
    \A r \in Ready :
        \/ row[r].media \in media
        \/ server # "up"
        \/ \E t \in Threads : row[r].media \in thr[t].set \cup {thr[t].f}

(* Nothing outlives its deletion: without an hourly pass that undoes a       *)
(* deletion under way, once no thread works the volume holds no media that   *)
(* no row names.                                                             *)
Quiet == server = "up" /\ \A t \in Threads : At(t, "idle")
ErasedIsGone ==
    Quiet /\ "sweep" \notin scene.dangers =>
        media \cup quar \subseteq {row[r].media : r \in Recordings}

(* What the MP3 of an accepted continuous recording takes beyond the room    *)
(* that was reserved for its source.  The worker compares the exact size     *)
(* with the quota, but commits, and with that gives up the policy lock,      *)
(* before its media counts; what others reserve meanwhile is not looked at   *)
(* again (_process).                                                         *)
Overdraft ==
    IF /\ Kind("target") = "continuous" /\ row["target"].status = "ready"
       /\ MediaSize("target") > Size("target")
    THEN MediaSize("target") - Size("target") ELSE 0

(* The quota is never overcommitted, whoever reserves, completes or          *)
(* assembles at the same time and however large the encoder's output is,     *)
(* but for that overdraft (require_recording_capacity, finalize_recording,   *)
(* assemble_conversation).                                                   *)
QuotaKept == RecordingUsedBytes({}) <= Quota + Overdraft

(* A recording that was ready is ready until it is deleted, and a deletion   *)
(* is final: no late creation or cleanup reopens it.                         *)
ReadyIsFinal ==
    [][\A r \in Recordings :
          /\ row[r].status = "ready" => row'[r].status \in {"ready", "deleted"}
          /\ row[r].status = "deleted" => row'[r].status = "deleted"]_vars

(* The server's own threads run on. *)
Fairness ==
    /\ WF_vars(Maintenance)
    /\ WF_vars(\E t \in Threads : CommitRemoval(t) \/ DiscardRemoved(t))
FairSpec == Spec /\ Fairness

(* A server that went down while it held recordings of one piece serves      *)
(* again: no state of the volume that a crash leaves behind makes the next   *)
(* start fail (lifespan, maintain_recordings).                               *)
WholeServesAgain ==
    server # "up" /\ ~Segmented("target") ~> server = "up"
=============================================================================
