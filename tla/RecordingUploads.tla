-------------------------- MODULE RecordingUploads --------------------------
(* How audio enters the store.  A voicemail is one WAV uploaded in chunks    *)
(* and transcoded by the completing request; a conversation, and the older   *)
(* form of a whole-call audit recording, is a series of segments that are    *)
(* verified one by one and assembled at the end; a continuous recording is   *)
(* one PCM stream that a background worker converts.  The tablet keeps its   *)
(* copy until the server acknowledges it (Acknowledged).  A client may send  *)
(* any request of the protocol at any time, so duplicates, retries and       *)
(* requests out of order are covered.  The metadata of a request is right:   *)
(* its call is reported, its revision and block are the call's.              *)
EXTENDS RecordingStore

MaySend(t, r) ==
    /\ server = "up"
    /\ At(t, "idle")
    /\ t = "client2" => ~At("client1", "idle")
    /\ \/ "late" \in scene.dangers
       \/ /\ OfRecording(r) \cap spool # {}
          /\ \A u \in Clients \ {t} : thr[u].r # r

Begin(t, label, r, p, lock) ==
    Goto(t, [Idle EXCEPT !.at = label, !.r = r, !.p = p, !.lock = lock])
KeepVolume == UNCHANGED <<scene, volume, server, spool>>
KeepAll == UNCHANGED <<scene, rows, server, spool>>

-----------------------------------------------------------------------------
(* What the tablet hears                                                     *)

(* A tombstone still counts: the recording was complete. *)
RecordingAcknowledged(r) == row[r].status \in {"ready", "deleted"}
ReceiptAccepted(r) == rcpt[r] = "ready"
SegmentAcknowledged(r, p) == up[r][p].st \in {"verified", "assembled"}

Acknowledged(r) ==
    IF Kind(r) = "continuous" THEN ReceiptAccepted(r) ELSE RecordingAcknowledged(r)

(* Any answer that acknowledges the recording: the tablet deletes its copy. *)
HearAcknowledged(r) ==
    /\ Acknowledged(r)
    /\ OfRecording(r) \cap spool # {}
    /\ spool' = spool \ OfRecording(r)
    /\ UNCHANGED <<scene, rows, volume, thr, server, faults>>

(* A segment of a conversation other than the last goes once it is verified. *)
HearSegment(r) ==
    /\ Kind(r) = "conversation"
    /\ SegmentAcknowledged(r, 0)
    /\ <<r, 0>> \in spool
    /\ spool' = spool \ {<<r, 0>>}
    /\ UNCHANGED <<scene, rows, volume, thr, server, faults>>

(* A day passes without a chunk. *)
GrowStale(r, p) ==
    /\ "stale" \in scene.dangers
    /\ up[r][p].st = "uploading" /\ ~up[r][p].stale
    /\ up' = [up EXCEPT ![r][p].stale = TRUE]
    /\ UNCHANGED <<scene, row, rcpt, volume, thr, server, spool, faults>>

-----------------------------------------------------------------------------
(* Opening an upload: read the row, reserve the declared size under the      *)
(* policy lock, make the directory, commit.                                  *)

Opening(t, r, p, was) ==
    /\ MaySend(t, r)
    /\ Goto(t, [Idle EXCEPT !.at = "opening", !.was = was, !.r = r, !.p = p])
    /\ KeepAll /\ UNCHANGED <<volume, faults>>

(* A new voicemail, or one whose upload was abandoned. *)
CreateRecording(t, r) ==
    /\ Kind(r) = "voicemail"
    /\ \/ row[r].status = "absent"
       \/ row[r].status = "failed" /\ up[r][0].st = "none"
    /\ Opening(t, r, 0, row[r].status)

CreateContinuous(t, r) ==
    /\ Kind(r) = "continuous"
    /\ row[r].status = "absent"
    /\ Opening(t, r, 0, "absent")

(* The row of a segmented recording holds no audio and reserves nothing. *)
OpenSegmented(t, r, kind) ==
    /\ Kind(r) = kind
    /\ MaySend(t, r)
    /\ row[r].status = "absent"
    /\ row' = [row EXCEPT ![r].status = "uploading"]
    /\ KeepVolume /\ UNCHANGED <<up, rcpt, thr, faults>>
CreateConversation(t, r) == OpenSegmented(t, r, "conversation")
CreateSession(t, r) == OpenSegmented(t, r, "audit")

OpenSegment(t, r, p, kind) ==
    /\ Kind(r) = kind
    /\ <<r, p>> \in spool
    /\ row[r].status # "absent"
    /\ \/ up[r][p].st = "failed"
       \/ up[r][p].st = "none" /\ row[r].status = "uploading"
    /\ Opening(t, r, p, up[r][p].st)
CreateConversationSegment(t, r, p) == OpenSegment(t, r, p, "conversation")
CreateSessionSegment(t, r, p) == OpenSegment(t, r, p, "audit")

RequireRecordingCapacity(n) == RecordingUsedBytes({}) + n <= Quota
RequireAuditCapacity(n) ==
    /\ AuditUsedBytes + n <= AuditQuota
    /\ RecordingUsedBytes({}) + n + Reserve <= Quota
ContinuousCapacity(n) == RecordingUsedBytes({}) + n + Reserve <= Quota
RoomFor(r) ==
    CASE Kind(r) = "audit" -> RequireAuditCapacity(Size(r))
      [] Kind(r) = "continuous" -> ContinuousCapacity(Size(r))
      [] OTHER -> RequireRecordingCapacity(Size(r))

ReserveUpload(t) ==
    /\ At(t, "opening")
    /\ PolicyFree(t)
    /\ RoomFor(thr[t].r)
    /\ NewDirectory(NewName)
    /\ Goto(t, [thr[t] EXCEPT !.at = "reserved", !.f = NewName, !.policy = TRUE])
    /\ KeepAll /\ UNCHANGED <<media, quar, temps, faults>>

RefuseUpload(t) ==
    /\ At(t, "opening")
    /\ PolicyFree(t)
    /\ ~RoomFor(thr[t].r)
    /\ Done(t)
    /\ KeepAll /\ UNCHANGED <<volume, faults>>

(* A concurrent creation has inserted the same key. *)
KeyExists(t) ==
    LET r == thr[t].r IN
        \/ thr[t].was = "absent" /\ row[r].status # "absent"
        \/ thr[t].was = "none" /\ up[r][thr[t].p].st # "none"
        \/ ~Segmented(r) /\ up[r][0].st # "none"

CommitUpload(t) ==
    LET r == thr[t].r IN
        /\ At(t, "reserved")
        /\ ~KeyExists(t)
        /\ up' = [up EXCEPT ![r][thr[t].p] =
               [st |-> "uploading", off |-> 0, dir |-> thr[t].f, stale |-> FALSE]]
        /\ row' = IF Segmented(r) THEN row
                  ELSE [row EXCEPT ![r].status = "uploading"]
        /\ rcpt' = IF Kind(r) = "continuous" THEN [rcpt EXCEPT ![r] = "uploading"]
                   ELSE rcpt
        /\ Done(t)
        /\ KeepVolume /\ UNCHANGED faults

(* The loser of the race removes its directory where the handler says so;    *)
(* otherwise, and after any other failure, maintenance does.                 *)
FailUpload(t) ==
    /\ At(t, "reserved")
    /\ (KeyExists(t) /\ UNCHANGED faults) \/ Fault
    /\ IF /\ KeyExists(t)
          /\ Kind(thr[t].r) # "continuous"
          /\ thr[t].was # "failed"
       THEN RemoveUploadFiles({thr[t].f})
       ELSE UNCHANGED dirs
    /\ Done(t)
    /\ KeepAll /\ UNCHANGED <<media, quar, temps, names>>

-----------------------------------------------------------------------------
(* Content: the chunk reaches the disk, then its offset is committed.        *)

StoreChunk(t, r, p, off, lock) ==
    /\ MaySend(t, r)
    /\ Free(t, lock)
    /\ up[r][p].st = "uploading"
    /\ Appends(r, p, off)
    /\ WriteChunk(r, p, off)
    /\ Goto(t, [Idle EXCEPT !.at = "storing", !.was = off, !.r = r, !.p = p,
                            !.lock = {lock}])
    /\ KeepAll /\ UNCHANGED <<media, quar, temps, names, faults>>

UploadContent(t, r, off) ==
    /\ Kind(r) = "voicemail"
    /\ row[r].status = "uploading"
    /\ StoreChunk(t, r, 0, off, UpLock(r, 0))
UploadSegment(t, r, p, off) ==
    /\ Kind(r) = "conversation"
    /\ StoreChunk(t, r, p, off, UpLock(r, p))
UploadSessionSegment(t, r, p, off) ==
    /\ Kind(r) = "audit"
    /\ StoreChunk(t, r, p, off, UpLock(r, p))
UploadContinuous(t, r, off) ==
    /\ Kind(r) = "continuous"
    /\ rcpt[r] = "uploading"
    /\ StoreChunk(t, r, 0, off, RecLock(r))

CommitChunk(t) ==
    LET r == thr[t].r  p == thr[t].p IN
        /\ At(t, "storing")
        /\ up' = [up EXCEPT ![r][p].off = thr[t].was + 1, ![r][p].stale = FALSE]
        /\ Done(t)
        /\ KeepVolume /\ UNCHANGED <<row, rcpt, faults>>

(* The commit of a step that has put nothing in place fails. *)
FailRequest(t) ==
    /\ thr[t].at \in {"storing", "verifying", "resetting"}
    /\ Fault
    /\ Done(t)
    /\ KeepAll /\ UNCHANGED volume

-----------------------------------------------------------------------------
(* Completion of a voicemail.  Its upload row stays locked from the reading  *)
(* of the chunks to the commit; the policy lock is taken after transcoding.  *)

CompleteRecording(t, r) ==
    /\ Kind(r) = "voicemail"
    /\ MaySend(t, r)
    /\ row[r].status = "uploading"
    /\ Free(t, UpLock(r, 0))
    /\ up[r][0].st = "uploading"
    /\ ReadBack(r, 0)
    /\ Begin(t, "finalizing", r, 0, {UpLock(r, 0)})
    /\ KeepAll /\ UNCHANGED <<volume, faults>>

\* Mutant: the reservation is taken to be enough for the MP3.
FitsReservation(r) == RecordingUsedBytes({}) <= Quota

(* The exact size replaces the reservation. *)
FitsFinal(r) == RecordingUsedBytes({r}) + MediaSize(r) <= Quota

\* Mutant: the final quota check does not take the policy lock.
PlaceMediaUnlocked(t) ==
    /\ FitsFinal(thr[t].r)
    /\ CanName
    /\ names' = NewName
    /\ media' = media \cup {NewName}
    /\ Goto(t, [thr[t] EXCEPT !.at = "finalized", !.f = NewName])
    /\ KeepAll /\ UNCHANGED <<quar, dirs, temps, faults>>

(* The media file is complete and in place before its row says so. *)
PlaceMedia(t) ==
    /\ PolicyFree(t)
    /\ FitsFinal(thr[t].r)
    /\ CanName
    /\ names' = NewName
    /\ media' = media \cup {NewName}
    /\ Goto(t, [thr[t] EXCEPT !.at = "finalized", !.f = NewName, !.policy = TRUE])
    /\ KeepAll /\ UNCHANGED <<quar, dirs, temps, faults>>

Finalize(t) == At(t, "finalizing") /\ PlaceMedia(t)

(* The quota is full, or PostgreSQL chose this transaction to end a deadlock *)
RefuseFinal(t) ==
    /\ thr[t].at \in {"finalizing", "assembling"}
    /\ \/ PolicyFree(t) /\ ~FitsFinal(thr[t].r)
       \/ \E u \in Threads \ {t} :
              Deadlocked(u) /\ RemovalLocks(u) \cap thr[t].lock # {}
    /\ Done(t)
    /\ KeepAll /\ UNCHANGED <<volume, faults>>

CommitReady(t) ==
    LET r == thr[t].r IN
        /\ At(t, "finalized")
        /\ Kind(r) = "voicemail"
        /\ row' = [row EXCEPT ![r] = [status |-> "ready", media |-> thr[t].f]]
        /\ up' = [up EXCEPT ![r][0] = NoUpload]
        /\ Goto(t, [Idle EXCEPT !.at = "tidying", !.r = r, !.gone = {up[r][0].dir}])
        /\ KeepVolume /\ UNCHANGED <<rcpt, faults>>

(* The commit fails and the new media is unlinked. *)
FailReady(t) ==
    /\ At(t, "finalized")
    /\ Fault
    /\ media' = media \ {thr[t].f}
    /\ Done(t)
    /\ KeepAll /\ UNCHANGED <<quar, dirs, temps, names>>

(* The source goes last. *)
Tidy(t) ==
    /\ At(t, "tidying")
    /\ RemoveUploadFiles(thr[t].gone)
    /\ Done(t)
    /\ KeepAll /\ UNCHANGED <<media, quar, temps, names, faults>>

-----------------------------------------------------------------------------
(* Segments: each is verified through a temporary directory, and the whole   *)
(* recording assembled through another.                                      *)

VerifySegment(t, r, p, kind) ==
    /\ Kind(r) = kind
    /\ MaySend(t, r)
    /\ Free(t, UpLock(r, p))
    /\ up[r][p].st = "uploading"
    /\ ReadBack(r, p)
    /\ Begin(t, "verifying", r, p, {UpLock(r, p)})
    /\ KeepAll /\ UNCHANGED <<volume, faults>>
CompleteConversationSegment(t, r, p) == VerifySegment(t, r, p, "conversation")
CompleteSessionSegment(t, r, p) == VerifySegment(t, r, p, "audit")

\* Mutant: a verified segment gets the status of a whole recording.
CommitVerifiedReady(t) ==
    /\ At(t, "verifying")
    /\ up' = [up EXCEPT ![thr[t].r][thr[t].p].st = "ready"]
    /\ Done(t)
    /\ KeepVolume /\ UNCHANGED <<row, rcpt, faults>>

CommitVerified(t) ==
    /\ At(t, "verifying")
    /\ up' = [up EXCEPT ![thr[t].r][thr[t].p].st = "verified"]
    /\ Done(t)
    /\ KeepVolume /\ UNCHANGED <<row, rcpt, faults>>

(* A corrupt audit segment is thrown away so that it can start again. *)
RejectSegment(t) ==
    LET r == thr[t].r  p == thr[t].p IN
        /\ At(t, "verifying")
        /\ Kind(r) = "audit"
        /\ Fault
        /\ up' = [up EXCEPT ![r][p].st = "failed"]
        /\ Goto(t, [Idle EXCEPT !.at = "tidying", !.r = r, !.gone = {up[r][p].dir}])
        /\ KeepVolume /\ UNCHANGED <<row, rcpt>>

SegmentLocks(r) == {RecLock(r)} \cup {UpLock(r, p) : p \in Parts(r)}
AllVerified(r) == \A p \in Parts(r) : up[r][p].st = "verified"

(* All segments the tablet counted, verified, the last one terminal. *)
Assemble(t, r, policy) ==
    /\ \A k \in SegmentLocks(r) : Free(t, k)
    /\ row[r].status = "uploading"
    /\ AllVerified(r)
    /\ Goto(t, [Idle EXCEPT !.at = "assembling", !.r = r,
                            !.lock = SegmentLocks(r), !.policy = policy])
    /\ KeepAll /\ UNCHANGED <<volume, faults>>

CompleteConversation(t, r) ==
    /\ Kind(r) = "conversation"
    /\ MaySend(t, r)
    /\ Parts(r) = AllParts
    /\ Assemble(t, r, FALSE)

(* An audit takes the policy lock first, to check its own quota. *)
CompleteSession(t, r) ==
    /\ Kind(r) = "audit"
    /\ MaySend(t, r)
    /\ Parts(r) = AllParts
    /\ PolicyFree(t)
    /\ RequireAuditCapacity(0)
    /\ Assemble(t, r, TRUE)

(* An administrator closes a conversation whose recorder died: the tablet    *)
(* has nothing left, and the verified segments end at a boundary.            *)
RecoverPartial(r) ==
    /\ server = "up"
    /\ At("admin", "idle")
    /\ Kind(r) = "conversation"
    /\ OfRecording(r) \cap spool = {}
    /\ Parts(r) # AllParts
    /\ PolicyFree("admin")
    /\ Assemble("admin", r, TRUE)

AssembleConversation(t) ==
    /\ At(t, "assembling")
    /\ \A p \in Parts(thr[t].r) : ReadBack(thr[t].r, p)
    /\ PlaceMedia(t)

(* A chunk is missing: nothing has changed yet. *)
AssemblyFails(t) ==
    /\ At(t, "assembling")
    /\ \/ (\E p \in Parts(thr[t].r) : ~ReadBack(thr[t].r, p)) /\ UNCHANGED faults
       \/ Fault
    /\ Done(t)
    /\ KeepAll /\ UNCHANGED volume

(* A request then removes the segments' files; a recovery keeps them. *)
CommitAssembled(t) ==
    LET r == thr[t].r IN
        /\ At(t, "finalized")
        /\ Segmented(r)
        /\ row' = [row EXCEPT ![r] = [status |-> "ready", media |-> thr[t].f]]
        /\ up' = [up EXCEPT ![r] = [p \in AllParts |->
               IF p \in Parts(r) THEN [@[p] EXCEPT !.st = "assembled"] ELSE @[p]]]
        /\ Goto(t, [Idle EXCEPT !.at = "tidying", !.r = r, !.gone =
               IF t = "admin" THEN {} ELSE {up[r][p].dir : p \in Parts(r)}])
        /\ KeepVolume /\ UNCHANGED <<rcpt, faults>>

-----------------------------------------------------------------------------
(* A continuous recording: the request only queues it.                       *)

CompleteContinuous(t, r) ==
    /\ Kind(r) = "continuous"
    /\ MaySend(t, r)
    /\ Free(t, RecLock(r))
    /\ rcpt[r] \in {"uploading", "retrying"}
    /\ up[r][0].st = "uploading" /\ up[r][0].off = Size(r)
    /\ rcpt' = [rcpt EXCEPT ![r] = "queued"]
    /\ row' = [row EXCEPT ![r].status = "processing"]
    /\ KeepVolume /\ UNCHANGED <<up, thr, faults>>

(* A rejected upload starts again in a new directory. *)
ResetContinuous(t, r) ==
    /\ Kind(r) = "continuous"
    /\ MaySend(t, r)
    /\ Free(t, RecLock(r))
    /\ rcpt[r] = "invalid"
    /\ up[r][0].st = "uploading"
    /\ NewDirectory(NewName)
    /\ Goto(t, [Idle EXCEPT !.at = "resetting", !.r = r, !.f = NewName,
                            !.lock = {RecLock(r)}])
    /\ KeepAll /\ UNCHANGED <<media, quar, temps, faults>>

CommitReset(t) ==
    LET r == thr[t].r IN
        /\ At(t, "resetting")
        /\ up' = [up EXCEPT ![r][0].dir = thr[t].f, ![r][0].off = 0,
                            ![r][0].stale = FALSE]
        /\ rcpt' = [rcpt EXCEPT ![r] = "uploading"]
        /\ row' = [row EXCEPT ![r].status = "uploading"]
        /\ Goto(t, [Idle EXCEPT !.at = "tidying", !.r = r, !.gone = {up[r][0].dir}])
        /\ KeepVolume /\ UNCHANGED faults

(* One worker at a time, over all processes (an advisory lock). *)
ProcessNext(r) ==
    /\ server = "up"
    /\ At("worker", "idle")
    /\ rcpt[r] \in {"queued", "processing", "retrying"}
    /\ Free("worker", RecLock(r))
    /\ rcpt' = [rcpt EXCEPT ![r] = "processing"]
    /\ row' = [row EXCEPT ![r].status = "processing"]
    /\ Begin("worker", "working", r, 0, {})
    /\ KeepVolume /\ UNCHANGED <<up, faults>>

(* The worker reads its source back, converts it, and commits the name of    *)
(* the media before the file exists.                                         *)
ReserveMedia ==
    LET r == thr["worker"].r IN
        /\ At("worker", "working")
        /\ up[r][0].st = "uploading"
        /\ ReadBack(r, 0)
        /\ PolicyFree("worker")
        /\ FitsFinal(r)
        /\ CanName
        /\ Free("worker", RecLock(r))
        /\ names' = NewName
        /\ row' = [row EXCEPT ![r].media = NewName]
        /\ Goto("worker", [thr["worker"] EXCEPT
               !.at = "placing", !.f = NewName, !.set = {row[r].media} \ {None}])
        /\ UNCHANGED <<scene, up, rcpt, media, quar, dirs, temps, server, spool,
                       faults>>

PlaceReserved ==
    LET w == thr["worker"] IN
        /\ At("worker", "placing")
        /\ media' = (media \cup {w.f}) \ w.set
        /\ Begin("worker", "accepting", w.r, 0, {})
        /\ KeepAll /\ UNCHANGED <<quar, dirs, temps, names, faults>>

Accept ==
    LET r == thr["worker"].r IN
        /\ At("worker", "accepting")
        /\ Free("worker", RecLock(r))
        /\ row' = [row EXCEPT ![r].status = "ready"]
        /\ rcpt' = [rcpt EXCEPT ![r] = "ready"]
        /\ up' = [up EXCEPT ![r][0] = NoUpload]
        /\ Goto("worker", [Idle EXCEPT !.at = "tidying", !.r = r,
                                       !.gone = {up[r][0].dir}])
        /\ KeepVolume /\ UNCHANGED faults

(* Bad bytes reject the upload, doubtful timing stops it for a person, and   *)
(* everything else is tried again later.                                     *)
ProcessFails(state) ==
    LET r == thr["worker"].r IN
        /\ thr["worker"].at \in {"working", "placing", "accepting"}
        /\ Free("worker", RecLock(r))
        /\ \/ /\ state = "retrying" /\ At("worker", "working")
              /\ ~ReadBack(r, 0) \/ (PolicyFree("worker") /\ ~FitsFinal(r))
              /\ UNCHANGED faults
           \/ state = "retrying" /\ Fault
           \/ state \in {"invalid", "needs_attention"} /\ At("worker", "working")
              /\ Fault
        /\ rcpt' = [rcpt EXCEPT ![r] = state]
        /\ row' = [row EXCEPT ![r].status =
               IF state = "retrying" THEN "processing" ELSE "failed"]
        /\ Done("worker")
        /\ KeepVolume /\ UNCHANGED up

-----------------------------------------------------------------------------
Request(t, r) ==
    \/ CreateRecording(t, r) \/ CreateContinuous(t, r)
    \/ CreateConversation(t, r) \/ CreateSession(t, r)
    \/ CompleteRecording(t, r) \/ CompleteConversation(t, r) \/ CompleteSession(t, r)
    \/ CompleteContinuous(t, r) \/ ResetContinuous(t, r)
    \/ \E off \in Offsets : UploadContent(t, r, off) \/ UploadContinuous(t, r, off)
    \/ \E p \in AllParts :
          \/ CreateConversationSegment(t, r, p) \/ CreateSessionSegment(t, r, p)
          \/ CompleteConversationSegment(t, r, p) \/ CompleteSessionSegment(t, r, p)
    \/ \E p \in AllParts, off \in Offsets :
          UploadSegment(t, r, p, off) \/ UploadSessionSegment(t, r, p, off)

Continue(t) ==
    \/ ReserveUpload(t) \/ RefuseUpload(t) \/ CommitUpload(t) \/ FailUpload(t)
    \/ CommitChunk(t) \/ FailRequest(t)
    \/ Finalize(t) \/ RefuseFinal(t) \/ CommitReady(t) \/ FailReady(t) \/ Tidy(t)
    \/ CommitVerified(t) \/ RejectSegment(t)
    \/ AssembleConversation(t) \/ AssemblyFails(t) \/ CommitAssembled(t)
    \/ CommitReset(t)

Worker ==
    \/ \E r \in Recordings : ProcessNext(r)
    \/ ReserveMedia \/ PlaceReserved \/ Accept
    \/ \E state \in {"retrying", "invalid", "needs_attention"} : ProcessFails(state)
=============================================================================
