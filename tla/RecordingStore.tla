--------------------------- MODULE RecordingStore ---------------------------
(* What the control server keeps of caller audio (server/app): the rows of   *)
(* PostgreSQL, the private recording volume, the locks that requests and     *)
(* background threads hold while they work on both, and the operations that  *)
(* remove audio: deletion, retention, abandoned uploads, and the maintenance *)
(* that runs when the server starts and every hour while it serves.          *)
(*                                                                           *)
(* A handler reads rows, takes row locks, changes files and commits.  Files  *)
(* change at once and survive a crash; rows change at the commit, which is   *)
(* one step.  The steps between two of these are separate actions, so every  *)
(* interleaving of two handlers, and a crash in the middle of one, happens.  *)
EXTENDS Integers, FiniteSets

CONSTANTS
    None,        \* no name, no recording
    Scenarios,   \* what an instance starts with: see Scenario
    AuditQuota,  \* audit_recording_quota_bytes, in chunks
    Reserve,     \* audit_recording_reserve_bytes, in chunks
    MaxNames     \* bound: storage names handed out

Recordings == {"target", "other"}
Kinds == {"voicemail", "conversation", "audit", "continuous"}

(* kind: of the recording being uploaded; parts: the segments the tablet     *)
(* captured (0 and 1, or 0 alone when its recorder died after the first);    *)
(* other: a second voicemail, "kept" (ready, and old) or "new" (uploaded at  *)
(* the same time); dangers: "sweep" (an hour passes, so maintenance runs     *)
(* beside requests), "late" (a request whose client gave up is still         *)
(* running when the client tries again), "stale" (a day passes without a     *)
(* chunk, so an upload counts as abandoned); quota: recording_quota_bytes,   *)
(* in chunks; mp3: the size of the encrypted MP3 of each recording, which    *)
(* the encoder decides; faults: the bound on crashes, failed commits and bad *)
(* files.                                                                    *)
Scenario ==
    [kind: Kinds, parts: {{0}, {0, 1}}, other: {"kept", "new"},
     dangers: SUBSET {"sweep", "late", "stale"}, quota: Nat,
     mp3: [Recordings -> Nat], faults: Nat]

(* A recording that is kept was admitted. *)
ASSUME ScenarioAssumption ==
    Scenarios \subseteq
        {s \in Scenario : s.other = "kept" => s.mp3["other"] <= s.quota}
ASSUME BoundAssumption ==
    /\ {AuditQuota, Reserve, MaxNames} \subseteq Nat
    /\ None \notin Recordings /\ None \notin 0 .. MaxNames

VARIABLES
    scene,   \* the scenario
    row,     \* recordings: [status, media]
    up,      \* recording_uploads and segments: [st, off, dir, stale]
    rcpt,    \* continuous_recordings.state
    media,   \* names of the .rec files of the volume
    quar,    \* names of the .delete-*.rec files of the volume
    dirs,    \* .uploads: directory name -> offsets of its chunks
    temps,   \* a crash left .conversation-* or .verify-segment-* behind
    names,   \* storage names handed out (uuid4)
    thr,     \* requests and background threads
    server,  \* "down", "starting" or "up"
    spool,   \* <<recording, part>> whose audio the tablet still has
    faults   \* faults so far

vars == <<scene, row, up, rcpt, media, quar, dirs, temps, names, thr, server,
          spool, faults>>
rows == <<row, up, rcpt>>
volume == <<media, quar, dirs, temps, names>>

Quota == scene.quota
Kind(r) == IF r = "target" THEN scene.kind ELSE "voicemail"
Segmented(r) == Kind(r) \in {"conversation", "audit"}
Parts(r) == IF Segmented(r) THEN scene.parts ELSE {0}
AllParts == {0, 1}
Captured == UNION {{<<r, p>> : p \in Parts(r)} : r \in Recordings}
OfRecording(r) == {<<r, p>> : p \in Parts(r)}

(* expected_size_bytes of a part, and media_size_bytes of the MP3, in        *)
(* chunks.  The MP3 of a short recording may be larger than its source: it   *)
(* has its own headers, and encryption adds to it.                           *)
Size(r) == IF Segmented(r) THEN 1 ELSE 2
MediaSize(r) == scene.mp3[r]
Chunks(r) == 0 .. Size(r) - 1
Offsets == 0 .. 1

Clients == {"client1", "client2"}
Threads == Clients \cup {"admin", "maintenance", "worker"}
(* at: what the thread does; was: the status or offset it read; r, p: the    *)
(* recording and part; f: a storage name; set, gone: names it still has to   *)
(* treat; lock: row locks; policy: the lock on the retention policy's row.   *)
Idle == [at |-> "idle", was |-> None, r |-> None, p |-> 0, f |-> None,
         set |-> {}, gone |-> {}, lock |-> {}, policy |-> FALSE]
Names == 0 .. MaxNames
NoUpload == [st |-> "none", off |-> 0, dir |-> None, stale |-> FALSE]

RecLock(r) == <<"recording", r>>
UpLock(r, p) == <<"upload", r, p>>
Free(t, k) == \A u \in Threads \ {t} : k \notin thr[u].lock
PolicyFree(t) == \A u \in Threads \ {t} : ~thr[u].policy

At(t, label) == thr[t].at = label
Goto(t, state) == thr' = [thr EXCEPT ![t] = state]
Done(t) == Goto(t, Idle)
Fault == faults < scene.faults /\ faults' = faults + 1

-----------------------------------------------------------------------------
(* Files                                                                     *)

NewName == names + 1
CanName == names < MaxNames

(* A new private directory below .uploads. *)
NewDirectory(d) ==
    /\ CanName
    /\ d = NewName
    /\ names' = d
    /\ dirs' = [n \in DOMAIN dirs \cup {d} |-> IF n = d THEN {} ELSE dirs[n]]

WithoutDirs(D) == [n \in DOMAIN dirs \ D |-> dirs[n]]

(* remove_upload_files: silent when the directory is gone. *)
RemoveUploadFiles(D) == dirs' = WithoutDirs(D)

(* All chunks of an upload can be read back. *)
ReadBack(r, p) ==
    LET u == up[r][p] IN
        /\ u.off = Size(r)
        /\ u.dir \in DOMAIN dirs
        /\ dirs[u.dir] = Chunks(r)

(* store_chunk accepts a chunk at the server's offset... *)
Appends(r, p, off) ==
    LET u == up[r][p] IN
        off = u.off /\ off < Size(r) /\ u.dir \in DOMAIN dirs

(* ...and writes it before its offset is committed; a chunk that an earlier  *)
(* attempt left there has the same content.                                  *)
WriteChunk(r, p, off) == dirs' = [dirs EXCEPT ![up[r][p].dir] = @ \cup {off}]

-----------------------------------------------------------------------------
(* Quota                                                                     *)

Reserved(r, p) ==
    IF up[r][p].st \in {"uploading", "verified"} THEN Size(r) ELSE 0
PendingBytes(r) == Reserved(r, 0) + Reserved(r, 1)
ReadyBytes(r) == IF row[r].status = "ready" THEN MediaSize(r) ELSE 0

(* Ready media, and the declared size of every upload and segment that is    *)
(* not finished; the reservation of an excluded recording does not count.    *)
UsedBytes(r, excluded) ==
    ReadyBytes(r) + IF r \in excluded THEN 0 ELSE PendingBytes(r)
RecordingUsedBytes(excluded) ==
    UsedBytes("target", excluded) + UsedBytes("other", excluded)

(* Only the recording being uploaded may be an audit. *)
AuditUsedBytes == IF Kind("target") = "audit" THEN UsedBytes("target", {}) ELSE 0

-----------------------------------------------------------------------------
(* Deletion: the media is moved aside, the row becomes a tombstone, and the  *)
(* file goes after the commit.                                               *)

Quarantinable(f) == f \in media /\ f \notin quar
\* Mutant: the media is copied aside, not moved.
QuarantineCopies(F) == media' = media /\ quar' = quar \cup F
Quarantine(F) == media' = media \ F /\ quar' = quar \cup F
Restore(F) ==
    LET back == F \cap (quar \ media) IN
        media' = media \cup back /\ quar' = quar \ back
Tombstone == [status |-> "deleted", media |-> None]

(* DELETE /recordings/{id}: only a ready recording whose media is in place. *)
DeleteRecording(r) ==
    /\ server = "up"
    /\ At("admin", "idle")
    /\ Free("admin", RecLock(r))
    /\ row[r].status = "ready"
    /\ Quarantinable(row[r].media)
    /\ Quarantine({row[r].media})
    /\ Goto("admin", [Idle EXCEPT !.at = "deleting", !.set = {row[r].media},
                                  !.lock = {RecLock(r)}])
    /\ UNCHANGED <<scene, rows, dirs, temps, names, server, spool, faults>>

(* purge_expired_recordings and cleanup_abandoned_uploads read what they     *)
(* will change under the policy lock, and move the expired media aside; one  *)
(* missing file makes the whole operation fail and undo itself.  Time is not *)
(* modelled: any set of ready recordings may have expired.                   *)
Ready == {r \in Recordings : row[r].status = "ready"}
Abandoned ==
    {q \in Captured : LET u == up[q[1]][q[2]] IN
        u.st = "uploading" /\ u.stale /\ Kind(q[1]) # "continuous"}

PurgeExpired(t, X, abandoned) ==
    LET F == {row[r].media : r \in X} IN
        /\ PolicyFree(t)
        /\ \A f \in F : Quarantinable(f)
        /\ Quarantine(F)
        /\ Goto(t, [Idle EXCEPT
               !.at = "purging", !.set = F, !.policy = TRUE,
               !.gone = {<<q, up[q[1]][q[2]].dir>> : q \in abandoned}])
        /\ UNCHANGED <<scene, rows, dirs, temps, names, server, spool, faults>>

(* GET /recording-settings applies retention and the abandoned-upload rule.  *)
GetSettings ==
    \E X \in SUBSET Ready :
        /\ server = "up"
        /\ At("admin", "idle")
        /\ X # {} \/ Abandoned # {}
        /\ PurgeExpired("admin", X, Abandoned)

(* PUT /recording-settings changes the policy and applies retention alone. *)
PutSettings ==
    \E X \in SUBSET Ready :
        /\ server = "up"
        /\ At("admin", "idle")
        /\ X # {}
        /\ PurgeExpired("admin", X, {})

(* The statements of a commit wait for the rows that others have locked. *)
RemovalLocks(t) ==
    {RecLock(r) : r \in {s \in Recordings : row[s].media \in thr[t].set}}
        \cup {UpLock(g[1][1], g[1][2]) : g \in thr[t].gone}

(* The session writes what it read: the upload's row goes and its recording  *)
(* fails, a segment fails, whatever was committed to them in between.        *)
CleanupAbandoned(t) ==
    LET gone == {g[1] : g \in thr[t].gone} IN
        /\ up' = [r \in Recordings |-> [p \in AllParts |->
               IF <<r, p>> \notin gone THEN up[r][p]
               ELSE IF Segmented(r) THEN [up[r][p] EXCEPT !.st = "failed"]
               ELSE NoUpload]]
        /\ row' = [r \in Recordings |->
               IF row[r].media \in thr[t].set THEN Tombstone
               ELSE IF <<r, 0>> \in gone /\ ~Segmented(r)
               THEN [row[r] EXCEPT !.status = "failed"]
               ELSE row[r]]

CommitRemoval(t) ==
    /\ thr[t].at \in {"deleting", "purging"}
    /\ \A k \in RemovalLocks(t) : Free(t, k)
    /\ CleanupAbandoned(t)
    /\ Goto(t, [Idle EXCEPT !.at = "discarding", !.set = thr[t].set,
                            !.gone = {g[2] : g \in thr[t].gone}])
    /\ UNCHANGED <<scene, rcpt, volume, server, spool, faults>>

(* maintain_recordings ends: the application starts, or fails to. *)
Returns(t) ==
    server' = IF t = "maintenance" /\ server = "starting" THEN "up" ELSE server
Raises(t) ==
    server' = IF t = "maintenance" /\ server = "starting" THEN "down" ELSE server

\* Mutant: the file moved aside is left to the next maintenance.
DiscardRemovedLater(t) ==
    /\ At(t, "discarding")
    /\ RemoveUploadFiles(thr[t].gone)
    /\ Done(t)
    /\ Returns(t)
    /\ UNCHANGED <<scene, rows, media, quar, temps, names, spool, faults>>

DiscardRemoved(t) ==
    /\ At(t, "discarding")
    /\ quar' = quar \ thr[t].set
    /\ RemoveUploadFiles(thr[t].gone)
    /\ Done(t)
    /\ Returns(t)
    /\ UNCHANGED <<scene, rows, media, temps, names, spool, faults>>

(* A commit blocked by a thread that waits for this one's policy lock is a   *)
(* deadlock, and PostgreSQL fails one of the two.                            *)
AwaitsPolicy(t) == thr[t].at \in {"finalizing", "assembling"} /\ ~thr[t].policy
Deadlocked(t) ==
    /\ At(t, "purging")
    /\ \E u \in Threads \ {t}, k \in RemovalLocks(t) :
           k \in thr[u].lock /\ AwaitsPolicy(u)

\* Mutant: the rollback forgets the file.
FailRemovalForgets(t) ==
    /\ thr[t].at \in {"deleting", "purging"}
    /\ (Deadlocked(t) /\ UNCHANGED faults) \/ Fault
    /\ Done(t)
    /\ Raises(t)
    /\ UNCHANGED <<scene, rows, media, quar, dirs, temps, names, spool>>

(* The commit fails and the media goes back. *)
FailRemoval(t) ==
    /\ thr[t].at \in {"deleting", "purging"}
    /\ (Deadlocked(t) /\ UNCHANGED faults) \/ Fault
    /\ Restore(thr[t].set)
    /\ Done(t)
    /\ Raises(t)
    /\ UNCHANGED <<scene, rows, dirs, temps, names, spool>>

-----------------------------------------------------------------------------
(* Maintenance: at every start before requests are served, and every hour    *)
(* beside them.  The passes over the volume hold no lock.                    *)

Owned(f, statuses) ==
    \E r \in Recordings : row[r].media = f /\ row[r].status \in statuses
InProgress(t) == thr[t].at \in {"verifying", "assembling"}
TempEntries == IF temps \/ \E t \in Threads : InProgress(t) THEN {None} ELSE {}
ActiveNames ==
    {up[q[1]][q[2]].dir : q \in {c \in Captured :
        up[c[1]][c[2]].st \in {"uploading", "verified"}}}

Maintain(label, set, gone) ==
    Goto("maintenance", [Idle EXCEPT !.at = label, !.set = set, !.gone = gone])
Judging(label, f) ==
    Goto("maintenance", [thr["maintenance"] EXCEPT
        !.at = label, !.f = f, !.set = @ \ {f}])
KeepRows == UNCHANGED <<scene, rows, temps, names, spool, faults>>

StartServer ==
    /\ server = "down"
    /\ server' = "starting"
    /\ Maintain("quarantine", quar, {})
    /\ KeepRows /\ UNCHANGED <<media, quar, dirs>>

HourlyMaintenance ==
    /\ server = "up"
    /\ "sweep" \in scene.dangers
    /\ At("maintenance", "idle")
    /\ Maintain("quarantine", quar, {})
    /\ KeepRows /\ UNCHANGED <<media, quar, dirs, server>>

(* reconcile_quarantined_media: back in place while its row is ready... *)
JudgeQuarantined(f) ==
    /\ At("maintenance", "quarantine")
    /\ f \in thr["maintenance"].set \cap quar
    /\ Judging(IF Owned(f, {"ready"}) THEN "restore" ELSE "erase", f)
    /\ KeepRows /\ UNCHANGED <<media, quar, dirs, server>>

(* ...and gone otherwise. *)
SettleQuarantined ==
    LET f == thr["maintenance"].f IN
        /\ \/ At("maintenance", "restore") /\ f \in quar \ media /\ Restore({f})
           \/ At("maintenance", "erase") /\ f \in quar
              /\ quar' = quar \ {f} /\ UNCHANGED media
        /\ Maintain("quarantine", thr["maintenance"].set, {})
        /\ KeepRows /\ UNCHANGED <<dirs, server>>

(* reconcile_recording_storage, first pass: media that no row owns. *)
ScanRoot ==
    /\ At("maintenance", "quarantine")
    /\ thr["maintenance"].set = {}
    /\ Maintain("root", media \cup TempEntries, {})
    /\ KeepRows /\ UNCHANGED <<media, quar, dirs, server>>

\* Mutant: the media that a worker has reserved belongs to nobody yet.
JudgeMediaReadyOnly(f) ==
    /\ At("maintenance", "root")
    /\ f \in thr["maintenance"].set \cap media
    /\ Judging(IF Owned(f, {"ready"}) THEN "root" ELSE "unlink", f)
    /\ KeepRows /\ UNCHANGED <<media, quar, dirs, server>>

JudgeMedia(f) ==
    /\ At("maintenance", "root")
    /\ f \in thr["maintenance"].set \cap media
    /\ Judging(IF Owned(f, {"ready", "processing"}) THEN "root" ELSE "unlink", f)
    /\ KeepRows /\ UNCHANGED <<media, quar, dirs, server>>

UnlinkMedia ==
    /\ At("maintenance", "unlink")
    /\ thr["maintenance"].f \in media
    /\ media' = media \ {thr["maintenance"].f}
    /\ Maintain("root", thr["maintenance"].set, {})
    /\ KeepRows /\ UNCHANGED <<quar, dirs, server>>

(* Second pass: the names in use are read, then the directories are listed. *)
ReadActiveNames ==
    /\ At("maintenance", "root")
    /\ thr["maintenance"].set = {}
    /\ Maintain("uploads", {}, ActiveNames)
    /\ KeepRows /\ UNCHANGED <<media, quar, dirs, server>>

ListUploads ==
    /\ At("maintenance", "uploads")
    /\ Maintain("prune", DOMAIN dirs \ thr["maintenance"].gone, {})
    /\ KeepRows /\ UNCHANGED <<media, quar, dirs, server>>

PruneDirectory(d) ==
    /\ At("maintenance", "prune")
    /\ d \in thr["maintenance"].set \cap DOMAIN dirs
    /\ dirs' = WithoutDirs({d})
    /\ Maintain("prune", thr["maintenance"].set \ {d}, {})
    /\ KeepRows /\ UNCHANGED <<media, quar, server>>

ApplyRetention ==
    /\ At("maintenance", "prune")
    /\ thr["maintenance"].set = {}
    /\ \E X \in SUBSET Ready : PurgeExpired("maintenance", X, Abandoned)

(* A file or directory that another thread took away, media in both places,  *)
(* or an entry the pass does not know, raises: an hourly pass is logged, a   *)
(* start fails.                                                              *)
MaintenanceFails ==
    LET m == thr["maintenance"] IN
        /\ \/ m.at = "quarantine" /\ m.set \ quar # {}
           \/ m.at = "restore" /\ m.f \notin quar \ media
           \/ m.at = "erase" /\ m.f \notin quar
           \/ m.at = "root" /\ m.set \ media # {}
           \/ m.at = "unlink" /\ m.f \notin media
           \/ m.at = "prune" /\ m.set \ DOMAIN dirs # {}
           \/ m.at = "prune" /\ m.set = {}
              /\ \E r \in Ready : ~Quarantinable(row[r].media)
        /\ Done("maintenance")
        /\ Raises("maintenance")
        /\ KeepRows /\ UNCHANGED <<media, quar, dirs>>

(* The process dies: locks and uncommitted work are gone, the volume stays. *)
Crash ==
    /\ server # "down"
    /\ Fault
    /\ server' = "down"
    /\ thr' = [t \in Threads |-> Idle]
    /\ temps' = (TempEntries # {})
    /\ UNCHANGED <<scene, rows, media, quar, dirs, names, spool>>

Maintenance ==
    \/ StartServer \/ HourlyMaintenance
    \/ \E f \in Names : JudgeQuarantined(f) \/ JudgeMedia(f) \/ PruneDirectory(f)
    \/ SettleQuarantined \/ ScanRoot \/ UnlinkMedia
    \/ ReadActiveNames \/ ListUploads \/ ApplyRetention \/ MaintenanceFails

Removal ==
    \/ \E r \in Recordings : DeleteRecording(r)
    \/ GetSettings \/ PutSettings
    \/ \E t \in {"admin", "maintenance"} :
           CommitRemoval(t) \/ DiscardRemoved(t) \/ FailRemoval(t)
=============================================================================
