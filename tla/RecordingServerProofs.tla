----------------------- MODULE RecordingServerProofs -----------------------
(* Theorems about the recording server, for every scenario, quota and number *)
(* of names and faults.                                                      *)
(*                                                                           *)
(* A handler works in several steps, so the invariants say what is true of   *)
(* the rows while a thread stands between two of its steps, and which lock   *)
(* keeps it true.                                                            *)
EXTENDS RecordingServer, TLAPS

----------------------------------------------------------------------------
(* The inductive invariants *)

\* The storage names handed out so far.
Given == 0 .. names
Name == Given \cup {None}

Statuses == {"absent", "uploading", "processing", "ready", "failed", "deleted"}
UploadStates == {"none", "uploading", "verified", "assembled", "failed"}
Receipts == {"none", "uploading", "queued", "processing", "retrying", "needs_attention", "invalid",
             "ready"}
PartId == Recordings \X AllParts
LockKeys == {RecLock(r) : r \in Recordings} \cup {UpLock(q[1], q[2]) : q \in PartId}

RecordingRow == [status : Statuses, media : Name]
UploadRow == [st : UploadStates, off : 0 .. 2, dir : Name, stale : BOOLEAN]

RowType ==
    /\ row \in [Recordings -> RecordingRow] /\ up \in [Recordings -> [AllParts -> UploadRow]]
    /\ rcpt \in [Recordings -> Receipts]

VolumeType ==
    /\ media \subseteq Given /\ quar \subseteq Given
    /\ DOMAIN dirs \subseteq Given /\ \A d \in DOMAIN dirs : dirs[d] \subseteq Offsets
    /\ dirs = [d \in DOMAIN dirs |-> dirs[d]]
    /\ temps \in BOOLEAN /\ names \in Names

ThreadState ==
    [at : Labels, was : {None} \cup Statuses \cup UploadStates \cup Offsets,
     r : Recordings \cup {None}, p : AllParts, f : Name, set : SUBSET Name,
     gone : SUBSET (Name \cup (PartId \X Name)), lock : SUBSET LockKeys, policy : BOOLEAN]

Busy == {"opening", "reserved", "storing", "finalizing", "finalized", "verifying", "assembling",
         "resetting", "working", "placing", "accepting"}

\* What a thread between two of its steps has at hand.
Equipped(t) ==
    LET s == thr[t] IN
    /\ s.at \in Busy => s.r \in Recordings
    /\ s.at \in {"reserved", "finalized", "resetting", "placing"} => s.f \in Given
    /\ s.at = "storing" => s.was \in Offsets
    /\ s.at \in {"deleting", "purging"} => s.gone \subseteq PartId \X Name /\ s.set \subseteq Given
    /\ s.at \in {"discarding", "tidying", "uploads"} => s.gone \subseteq Name

ThreadType == thr \in [Threads -> ThreadState] /\ \A t \in Threads : Equipped(t)

ServerType ==
    /\ scene \in Scenarios /\ server \in {"down", "starting", "up"}
    /\ spool \subseteq Captured /\ faults \in 0 .. scene.faults

TypeInv == RowType /\ VolumeType /\ ThreadType /\ ServerType

\* A row lock, and the lock on the policy, has one holder.
LocksHeld ==
    \A t, u \in Threads : t # u => /\ thr[t].lock \cap thr[u].lock = {}
                                   /\ ~(thr[t].policy /\ thr[u].policy)

\* The receipt of a continuous recording and its rows.
ReceiptRows ==
    \A r \in Recordings :
       /\ Kind(r) # "continuous" => rcpt[r] = "none"
       /\ Kind(r) = "continuous" =>
             /\ rcpt[r] = "none" <=> row[r].status = "absent"
             /\ rcpt[r] \notin {"none", "ready"} =>
                   /\ up[r][0].st = "uploading"
                   /\ row[r].status \in {"uploading", "processing", "failed"}

\* Storage names are not shared: not by two rows, not by a row and a thread that
\* has put new media in place, not by two such threads.
NamesApart ==
    /\ \A r, x \in Recordings : r # x /\ row[r].media # None => row[r].media # row[x].media
    /\ \A t \in Threads : thr[t].at = "finalized" =>
          /\ \A r \in Recordings : row[r].media # thr[t].f
          /\ \A u \in Threads \ {t} : thr[u].at = "finalized" => thr[u].f # thr[t].f

\* What one recording takes of the quota without the overdraft: its media, of a
\* continuous recording at most the room its source had, and what it reserves.
Weight(r) ==
    IF row[r].status # "ready" THEN 0
    ELSE IF Kind(r) = "continuous" /\ MediaSize(r) > Size(r) THEN Size(r)
    ELSE MediaSize(r)
Bytes(r) == Weight(r) + PendingBytes(r)
Total == Bytes("target") + Bytes("other")

\* What all uploads of a recording reserve together.
Full(r) == IF Segmented(r) /\ 1 \notin Parts(r) THEN 1 ELSE 2

\* A thread that has found room, for an upload or for the MP3 that takes its
\* uploads' place, still has it when it commits.
RoomReserved(t) ==
    LET s == thr[t] IN
    /\ s.at \in {"opening", "reserved"} =>
          /\ Kind(s.r) = "continuous" => s.was = "absent"
          /\ ~Segmented(s.r) => s.p = 0
          /\ s.p \in Parts(s.r)
    /\ s.at = "reserved" => s.policy /\ Total + Size(s.r) <= Quota
    /\ s.at = "finalized" => s.policy /\ Total + MediaSize(s.r) <= Quota + Full(s.r)

Counted == {"uploading", "verified"}

\* Only the parts the tablet captured reserve room.
SpareParts ==
    \A r \in Recordings : \A p \in AllParts \ Parts(r) : up[r][p].st \notin Counted

\* A thread that makes a recording ready, or a segment verified, holds the
\* uploads it was made of, and they still count.
SourceHeld(t) ==
    LET s == thr[t] IN
    /\ s.at \in {"finalizing", "finalized", "assembling"} => Kind(s.r) # "continuous"
    /\ s.at = "finalizing" => ~Segmented(s.r)
    /\ s.at = "assembling" => Segmented(s.r)
    /\ s.at \in {"finalizing", "finalized"} /\ ~Segmented(s.r) =>
          UpLock(s.r, 0) \in s.lock /\ up[s.r][0].st = "uploading"
    /\ s.at \in {"assembling", "finalized"} /\ Segmented(s.r) =>
          SegmentLocks(s.r) \subseteq s.lock /\ \A p \in Parts(s.r) : up[s.r][p].st \in Counted
    /\ s.at = "verifying" =>
          Segmented(s.r) /\ UpLock(s.r, s.p) \in s.lock /\ up[s.r][s.p].st \in Counted

\* A removal leaves a continuous recording alone until it is ready.
RemovalSpares(t) ==
    LET s == thr[t] IN
    s.at \in {"deleting", "purging"} =>
       /\ \A g \in s.gone : Kind(g[1][1]) # "continuous"
       /\ \A r \in Recordings :
             Kind(r) = "continuous" /\ row[r].media \in s.set => rcpt[r] = "ready"

\* A reset and the worker still find the receipt as they left it.
ReceiptHeld(t) ==
    LET s == thr[t] IN
    /\ s.at = "resetting" =>
          Kind(s.r) = "continuous" /\ rcpt[s.r] = "invalid" /\ RecLock(s.r) \in s.lock
    /\ s.at \in {"working", "placing", "accepting"} =>
          t = "worker" /\ Kind(s.r) = "continuous" /\ rcpt[s.r] = "processing"

Promised(t) == RoomReserved(t) /\ SourceHeld(t) /\ RemovalSpares(t) /\ ReceiptHeld(t)

QuotaInv ==
    /\ LocksHeld /\ ReceiptRows /\ NamesApart /\ (\A t \in Threads : Promised(t))
    /\ SpareParts /\ Total <= Quota
----------------------------------------------------------------------------
(* Operators *)

\* The two recordings, the threads and the parts.
LEMMA Fixed ==
    /\ Recordings = {"target", "other"} /\ AllParts = {0, 1} /\ Offsets = {0, 1}
    /\ Threads = {"client1", "client2", "admin", "maintenance", "worker"}
    /\ Clients = {"client1", "client2"}
    /\ 0 \in AllParts /\ 1 \in AllParts
  BY DEF Recordings, AllParts, Offsets, Threads, Clients

\* What a scenario says.
LEMMA SceneOK ==
    ASSUME ServerType
    PROVE  /\ scene.quota \in Nat /\ scene.faults \in Nat /\ scene.kind \in Kinds
           /\ scene.parts \subseteq AllParts /\ 0 \in scene.parts
           /\ scene.other \in {"kept", "new"} /\ scene.mp3 \in [Recordings -> Nat]
           /\ (scene.other = "kept" => scene.mp3["other"] <= scene.quota)
  BY ScenarioAssumption DEF ServerType, Scenario, AllParts

\* The parts of a recording, and its size.
LEMMA PartsOK ==
    ASSUME ServerType, NEW r \in Recordings
    PROVE  /\ Parts(r) \subseteq AllParts /\ 0 \in Parts(r)
           /\ Size(r) \in {1, 2} /\ (~Segmented(r) => Size(r) = 2) /\ (Segmented(r) => Size(r) = 1)
           /\ Chunks(r) \subseteq Offsets
           /\ Kind(r) \in {"voicemail", "continuous", "conversation", "audit"}
           /\ ~Segmented(r) <=> Kind(r) \in {"voicemail", "continuous"}
  <1>1. Parts(r) \subseteq AllParts /\ 0 \in Parts(r)
    BY SceneOK DEF Parts, AllParts
  <1>2. Size(r) \in {1, 2} /\ (~Segmented(r) => Size(r) = 2) /\ (Segmented(r) => Size(r) = 1)
    BY DEF Size
  <1>3. Chunks(r) \subseteq Offsets
    BY <1>2 DEF Chunks, Offsets
  <1>4. /\ Kind(r) \in {"voicemail", "continuous", "conversation", "audit"}
        /\ ~Segmented(r) <=> Kind(r) \in {"voicemail", "continuous"}
    BY SceneOK DEF Kind, Kinds, Segmented
  <1> QED
    BY <1>1, <1>2, <1>3, <1>4

\* A captured part is a part of a recording.
LEMMA CapturedOK ==
    ASSUME ServerType, NEW q \in Captured
    PROVE  /\ q[1] \in Recordings /\ q[2] \in AllParts /\ q = <<q[1], q[2]>> /\ q \in PartId
           /\ q[2] \in Parts(q[1])
  <1>1. PICK r \in Recordings : \E p \in Parts(r) : q = <<r, p>>
    BY DEF Captured
  <1>2. PICK p \in Parts(r) : q = <<r, p>>
    BY <1>1
  <1> QED
    BY <1>2, PartsOK DEF PartId

\* A storage name is a number up to the bound, and no new one was given before.
LEMMA NamesOK ==
    ASSUME VolumeType
    PROVE  /\ Given \subseteq Names /\ None \notin Given
           /\ CanName => NewName \in Names /\ NewName \notin Given /\ NewName >= names
           /\ \A n \in Names : n >= names => Given \subseteq 0 .. n
  <1>1. MaxNames \in Nat /\ None \notin 0 .. MaxNames
    BY BoundAssumption
  <1>2. names \in 0 .. MaxNames
    BY DEF VolumeType, Names
  <1> QED
    BY <1>1, <1>2 DEF Given, Names, CanName, NewName

\* Names are only added, so what had its type has it still.
LEMMA Grows ==
    ASSUME TypeInv, names' \in Names, names' >= names
    PROVE  /\ Given \subseteq Given' /\ Name \subseteq Name' /\ ThreadState \subseteq ThreadState'
           /\ \A t \in Threads : thr'[t] = thr[t] => Equipped(t)'
           /\ UNCHANGED rows => RowType'
  <1>1. Given \subseteq Given' /\ Name \subseteq Name'
    BY NamesOK DEF Given, Name, TypeInv, Names
  <1>2. ThreadState \subseteq ThreadState'
    BY <1>1 DEF ThreadState
  <1>3. ASSUME NEW t \in Threads, thr'[t] = thr[t]
        PROVE  Equipped(t)'
    <2>1. PartId \X Name \subseteq PartId \X Name'
      BY <1>1
    <2> QED
      BY <1>1, <1>3, <2>1 DEF Equipped, TypeInv, ThreadType
  <1>4. UNCHANGED rows => RowType'
    <2> SUFFICES ASSUME UNCHANGED <<row, up, rcpt>>
                 PROVE  RowType'
      BY DEF rows
    <2>1. RecordingRow \subseteq RecordingRow' /\ UploadRow \subseteq UploadRow'
      BY <1>1 DEF RecordingRow, UploadRow
    <2>2. row' \in [Recordings -> RecordingRow']
      BY <2>1 DEF TypeInv, RowType
    <2>3. up' \in [Recordings -> [AllParts -> UploadRow']]
      BY <2>1 DEF TypeInv, RowType
    <2> QED
      BY <2>2, <2>3 DEF TypeInv, RowType
  <1> QED
    BY <1>1, <1>2, <1>3, <1>4

\* One thread moves.
LEMMA Moves ==
    ASSUME TypeInv, NEW t \in Threads, NEW s, Goto(t, s)
    PROVE  /\ thr' = [u \in Threads |-> IF u = t THEN s ELSE thr[u]]
           /\ thr'[t] = s /\ \A u \in Threads \ {t} : thr'[u] = thr[u]
  BY DEF TypeInv, ThreadType, Goto

\* A thread has its type after it has moved.
LEMMA MovesTyped ==
    ASSUME TypeInv, NEW t \in Threads, NEW s, Goto(t, s), names' \in Names, names' >= names,
           s \in ThreadState', Equipped(t)'
    PROVE  ThreadType'
  <1>1. /\ thr' = [u \in Threads |-> IF u = t THEN s ELSE thr[u]]
        /\ thr'[t] = s /\ \A u \in Threads \ {t} : thr'[u] = thr[u]
    BY Moves
  <1>2. ThreadState \subseteq ThreadState' /\ \A u \in Threads : thr'[u] = thr[u] => Equipped(u)'
    BY Grows
  <1>3. \A u \in Threads : thr[u] \in ThreadState
    BY DEF TypeInv, ThreadType
  <1>4. thr' \in [Threads -> ThreadState']
    BY <1>1, <1>2, <1>3
  <1>5. \A u \in Threads : Equipped(u)'
    BY <1>1, <1>2
  <1> QED
    BY <1>4, <1>5 DEF ThreadType

\* An idle thread is typed, and so is one that becomes idle.
LEMMA IdleTyped ==
    Idle \in ThreadState /\ Idle \in ThreadState'
  BY Fixed DEF Idle, ThreadState, Labels, Name

\* A thread has its type after its last step.
LEMMA DoneTyped ==
    ASSUME TypeInv, NEW t \in Threads, Done(t), names' \in Names, names' >= names
    PROVE  ThreadType'
  <1>1. Idle \in ThreadState'
    BY IdleTyped
  <1>2. Goto(t, Idle) /\ thr'[t] = Idle
    BY Moves DEF Done
  <1>3. Equipped(t)'
    BY <1>2 DEF Idle, Equipped, Busy
  <1> QED
    BY <1>1, <1>2, <1>3, MovesTyped

\* What the scenario says does not change.
LEMMA ServerKept ==
    ASSUME ServerType, scene' = scene, spool' \subseteq spool,
           server' \in {"down", "starting", "up"},
           faults' = faults \/ Fault
    PROVE  ServerType'
  <1>1. Captured' = Captured
    BY DEF Captured, Parts, Segmented, Kind
  <1>2. faults' \in 0 .. scene.faults
    BY SceneOK DEF Fault, ServerType
  <1> QED
    BY <1>1, <1>2 DEF ServerType

\* A scenario that does not change keeps what is read from it.
LEMMA SceneKept ==
    ASSUME scene' = scene
    PROVE  /\ Quota' = Quota /\ \A r \in Recordings : /\ Kind(r)' = Kind(r)
                                                      /\ Segmented(r)' = Segmented(r)
                                                      /\ Parts(r)' = Parts(r)
                                                      /\ Size(r)' = Size(r)
                                                      /\ Chunks(r)' = Chunks(r)
                                                      /\ SegmentLocks(r)' = SegmentLocks(r)
                                                      /\ MediaSize(r)' = MediaSize(r)
                                                      /\ Full(r)' = Full(r)
  BY DEF Quota, Kind, Segmented, Parts, Size, Chunks, SegmentLocks, MediaSize, Full

\* One upload changes.
LEMMA UploadChanges ==
    ASSUME TypeInv, NEW r \in Recordings, NEW p \in AllParts, NEW v, up' = [up EXCEPT ![r][p] = v]
    PROVE  /\ up'[r][p] = v /\ \A q \in AllParts \ {p} : up'[r][q] = up[r][q]
           /\ \A x \in Recordings \ {r} : up'[x] = up[x]
           /\ v \in UploadRow => up' \in [Recordings -> [AllParts -> UploadRow]]
  <1>1. up \in [Recordings -> [AllParts -> UploadRow]]
    BY DEF TypeInv, RowType
  <1>2. up[r] \in [AllParts -> UploadRow]
    BY <1>1
  <1>3. up' = [up EXCEPT ![r] = [up[r] EXCEPT ![p] = v]]
    OBVIOUS
  <1>4. v \in UploadRow => [up[r] EXCEPT ![p] = v] \in [AllParts -> UploadRow]
    BY <1>2
  <1>5. up'[r] = [up[r] EXCEPT ![p] = v] /\ \A x \in Recordings \ {r} : up'[x] = up[x]
    BY <1>1, <1>3
  <1> QED
    BY <1>1, <1>2, <1>3, <1>4, <1>5

\* Types of rows that name nothing new.
LEMMA RowsTyped ==
    ASSUME Name' = Name, row' \in [Recordings -> RecordingRow],
           up' \in [Recordings -> [AllParts -> UploadRow]], rcpt' \in [Recordings -> Receipts]
    PROVE  RowType'
  BY DEF RowType, RecordingRow, UploadRow


----------------------------------------------------------------------------
(* Types *)

\* A step that changes one thread, and neither rows nor files.
LEMMA ThreadStep ==
    ASSUME TypeInv, NEW t \in Threads, NEW s, Goto(t, s), UNCHANGED <<scene, rows, volume, spool>>,
           server' \in {"down", "starting", "up"}, faults' = faults \/ Fault,
           s \in ThreadState', Equipped(t)'
    PROVE  TypeInv'
  <1>1. names' \in Names /\ names' >= names
    BY NamesOK DEF TypeInv, VolumeType, volume, Names, BoundAssumption
  <1>2. RowType' /\ ThreadType'
    BY <1>1, Grows, MovesTyped
  <1>3. VolumeType'
    <2>1. media' = media /\ quar' = quar /\ dirs' = dirs /\ temps' = temps /\ names' = names
      BY DEF volume
    <2> QED
      BY <2>1 DEF TypeInv, VolumeType, Given
  <1>4. ServerType'
    BY ServerKept DEF TypeInv
  <1> QED
    BY <1>2, <1>3, <1>4 DEF TypeInv

\* The same when the thread becomes idle.
LEMMA DoneStep ==
    ASSUME TypeInv, NEW t \in Threads, Done(t), UNCHANGED <<scene, rows, volume, spool>>,
           server' \in {"down", "starting", "up"}, faults' = faults \/ Fault
    PROVE  TypeInv'
  <1>1. thr'[t] = Idle
    BY Moves DEF Done
  <1>2. Idle \in ThreadState' /\ Equipped(t)'
    BY <1>1, Fixed DEF Idle, ThreadState, Labels, Name, Equipped, Busy
  <1> QED
    BY <1>2, ThreadStep DEF Done

\* Opening an upload.
LEMMA OpeningTyped ==
    ASSUME TypeInv, NEW t \in Clients, NEW r \in Recordings, NEW p \in AllParts,
           NEW w \in Statuses \cup UploadStates, Opening(t, r, p, w)
    PROVE  TypeInv'
  <1> DEFINE s == [Idle EXCEPT !.at = "opening", !.was = w, !.r = r, !.p = p]
  <1>1. t \in Threads /\ "opening" \in Labels
    BY Fixed DEF Labels
  <1>2. Goto(t, s)
    BY DEF Opening
  <1>3. s \in ThreadState'
    BY <1>1, IdleTyped DEF ThreadState
  <1>4. Equipped(t)'
    <2>1. thr'[t] = s
      BY <1>1, <1>2, Moves
    <2>2. s.at = "opening" /\ s.r = r
      BY DEF Idle
    <2> QED
      BY <2>1, <2>2 DEF Equipped
  <1>5. UNCHANGED <<scene, rows, volume, spool, server, faults>>
    BY DEF Opening, KeepAll
  <1> QED
    BY <1>1, <1>2, <1>3, <1>4, <1>5, ThreadStep DEF TypeInv, ServerType

\* Requests that open an upload, or the row of a segmented recording.
LEMMA CreateTyped ==
    ASSUME TypeInv, NEW t \in Clients, NEW r \in Recordings,
           \/ CreateRecording(t, r) \/ CreateContinuous(t, r)
           \/ CreateConversation(t, r) \/ CreateSession(t, r)
           \/ \E p \in AllParts : \/ CreateConversationSegment(t, r, p)
                                  \/ CreateSessionSegment(t, r, p)
    PROVE  TypeInv'
  <1>1. /\ row[r].status \in Statuses /\ \A p \in AllParts : up[r][p].st \in UploadStates
        /\ "absent" \in Statuses /\ 0 \in AllParts
    BY Fixed DEF TypeInv, RowType, RecordingRow, UploadRow, Statuses
  <1>2. ASSUME CreateRecording(t, r) \/ CreateContinuous(t, r)
        PROVE  TypeInv'
    BY <1>1, <1>2, OpeningTyped DEF CreateRecording, CreateContinuous
  <1>3. ASSUME NEW p \in AllParts, NEW kind, OpenSegment(t, r, p, kind)
        PROVE  TypeInv'
    BY <1>1, <1>3, OpeningTyped DEF OpenSegment
  <1>4. ASSUME NEW kind, OpenSegmented(t, r, kind)
        PROVE  TypeInv'
    <2>1. row' = [row EXCEPT ![r].status = "uploading"]
          /\ UNCHANGED <<scene, volume, server, spool, up, rcpt, thr, faults>>
      BY <1>4 DEF OpenSegmented, KeepVolume
    <2>2. RowType'
      BY <2>1 DEF TypeInv, RowType, RecordingRow, UploadRow, Statuses, Name, Given, volume
    <2>3. VolumeType' /\ ThreadType'
      BY <2>1 DEF TypeInv, VolumeType, ThreadType, ThreadState, Equipped, Name, Given, volume
    <2>4. ServerType'
      BY <2>1, ServerKept DEF TypeInv, ServerType
    <2> QED
      BY <2>2, <2>3, <2>4 DEF TypeInv
  <1> QED
    BY <1>2, <1>3, <1>4 DEF CreateConversation, CreateSession, CreateConversationSegment,
       CreateSessionSegment


\* A step of one thread.
LEMMA OneStep ==
    ASSUME TypeInv, NEW t \in Threads, NEW s, Goto(t, s), scene' = scene, spool' \subseteq spool,
           server' \in {"down", "starting", "up"}, faults' = faults \/ Fault,
           RowType', VolumeType', names' \in Names, names' >= names, s \in ThreadState', Equipped(t)'
    PROVE  TypeInv'
  <1>1. ThreadType'
    BY MovesTyped
  <1>2. ServerType'
    BY ServerKept DEF TypeInv
  <1> QED
    BY <1>1, <1>2 DEF TypeInv

\* Files and names that do not change.
LEMMA VolumeKept ==
    ASSUME TypeInv, UNCHANGED volume
    PROVE  VolumeType' /\ names' \in Names /\ names' >= names /\ Given' = Given /\ Name' = Name
  <1>1. media' = media /\ quar' = quar /\ dirs' = dirs /\ temps' = temps /\ names' = names
    BY DEF volume
  <1>2. names \in Nat
    BY BoundAssumption DEF TypeInv, VolumeType, Names
  <1> QED
    BY <1>1, <1>2 DEF TypeInv, VolumeType, Given, Name

\* A step of one thread that changes rows alone.
LEMMA RowStep ==
    ASSUME TypeInv, NEW t \in Threads, NEW s, Goto(t, s),
           UNCHANGED <<scene, volume, server, spool>>,
           faults' = faults \/ Fault, RowType', s \in ThreadState', Equipped(t)'
    PROVE  TypeInv'
  BY VolumeKept, OneStep DEF TypeInv, ServerType

\* A step that changes rows and no thread.
LEMMA RowsOnly ==
    ASSUME TypeInv, UNCHANGED <<scene, volume, thr, server, faults>>, spool' \subseteq spool,
           RowType'
    PROVE  TypeInv'
  <1>1. VolumeType' /\ Given' = Given /\ Name' = Name
    BY VolumeKept
  <1>2. ThreadType'
    BY <1>1 DEF TypeInv, ThreadType, ThreadState, Equipped
  <1>3. ServerType'
    BY ServerKept DEF TypeInv, ServerType
  <1> QED
    BY <1>1, <1>2, <1>3 DEF TypeInv

\* A new directory has the next name.
LEMMA DirectoryTyped ==
    ASSUME TypeInv, NewDirectory(NewName), UNCHANGED <<media, quar, temps, rows>>
    PROVE  /\ VolumeType' /\ RowType' /\ names' \in Names /\ names' >= names
           /\ NewName \in Given' /\ NewName \in Name'
  <1>1. CanName /\ names' = NewName
        /\ dirs' = [n \in DOMAIN dirs \cup {NewName} |-> IF n = NewName THEN {} ELSE dirs[n]]
    BY DEF NewDirectory
  <1>2. names' \in Names /\ names' >= names /\ NewName \in Nat
    BY <1>1, NamesOK, BoundAssumption DEF TypeInv, Names
  <1>3. Given \subseteq Given' /\ RowType'
    BY <1>2, Grows
  <1>4. NewName \in Given'
    BY <1>1, <1>2 DEF Given
  <1>5. VolumeType'
    BY <1>1, <1>2, <1>3, <1>4 DEF TypeInv, VolumeType
  <1> QED
    BY <1>2, <1>3, <1>4, <1>5 DEF Name

\* Directories that are removed leave the others as they are.
LEMMA RemovedTyped ==
    ASSUME TypeInv, NEW D, RemoveUploadFiles(D), UNCHANGED names, media' \subseteq Given,
           quar' \subseteq Given, temps' \in BOOLEAN
    PROVE  VolumeType' /\ names' \in Names /\ names' >= names /\ Given' = Given /\ Name' = Name
  <1>1. names \in Nat /\ Given' = Given /\ Name' = Name
    BY BoundAssumption DEF TypeInv, VolumeType, Names, Given, Name
  <1>2. dirs' = [n \in DOMAIN dirs \ D |-> dirs[n]]
    BY DEF RemoveUploadFiles, WithoutDirs
  <1> QED
    BY <1>1, <1>2 DEF TypeInv, VolumeType

\* The locks of a recording and of its parts.
LEMMA LocksOK ==
    ASSUME NEW r \in Recordings
    PROVE  RecLock(r) \in LockKeys /\ \A p \in AllParts : UpLock(r, p) \in LockKeys
  <1>1. RecLock(r) \in LockKeys
    BY DEF LockKeys
  <1>2. ASSUME NEW p \in AllParts
        PROVE  UpLock(r, p) \in LockKeys
    <2>1. <<r, p>> \in PartId /\ <<r, p>>[1] = r /\ <<r, p>>[2] = p
      BY DEF PartId
    <2>2. \E q \in PartId : UpLock(r, p) = UpLock(q[1], q[2])
      BY <2>1
    <2> QED
      BY <2>2 DEF LockKeys
  <1> QED
    BY <1>1, <1>2

\* Requests that complete an upload.
LEMMA CompleteTyped ==
    ASSUME TypeInv, NEW t \in Clients, NEW r \in Recordings,
           \/ CompleteRecording(t, r)
           \/ \E p \in AllParts : \/ CompleteConversationSegment(t, r, p)
                                  \/ CompleteSessionSegment(t, r, p)
    PROVE  TypeInv'
  <1>1. PICK l \in {"finalizing", "verifying"}, p \in AllParts :
             Begin(t, l, r, p, {UpLock(r, p)}) /\ KeepAll /\ UNCHANGED <<volume, faults>>
    BY Fixed DEF CompleteRecording, CompleteConversationSegment, CompleteSessionSegment,
       VerifySegment
  <1> DEFINE s == [Idle EXCEPT !.at = l, !.r = r, !.p = p, !.lock = {UpLock(r, p)}]
  <1>2. t \in Threads /\ l \in Labels /\ Goto(t, s)
    BY <1>1, Fixed DEF Labels, Begin
  <1>3. UpLock(r, p) \in LockKeys
    BY LocksOK
  <1>4. s \in ThreadState'
    BY <1>2, <1>3, IdleTyped DEF ThreadState
  <1>5. Equipped(t)'
    <2>1. thr'[t] = s
      BY <1>2, Moves
    <2>2. s.at = l /\ s.r = r
      BY DEF Idle
    <2> QED
      BY <2>1, <2>2 DEF Equipped
  <1> QED
    BY <1>1, <1>2, <1>4, <1>5, ThreadStep DEF TypeInv, ServerType, KeepAll

\* Assembly begins, of a request or of a recovery.
LEMMA AssembleTyped ==
    ASSUME TypeInv, NEW t \in Threads, NEW r \in Recordings, NEW b \in BOOLEAN, Assemble(t, r, b)
    PROVE  TypeInv'
  <1> DEFINE s == [Idle EXCEPT !.at = "assembling", !.r = r, !.lock = SegmentLocks(r), !.policy = b]
  <1>1. "assembling" \in Labels /\ Goto(t, s)
    BY DEF Labels, Assemble
  <1>2. SegmentLocks(r) \subseteq LockKeys
    BY LocksOK, PartsOK DEF SegmentLocks, TypeInv
  <1>3. s \in ThreadState'
    BY <1>1, <1>2, IdleTyped DEF ThreadState
  <1>4. Equipped(t)'
    <2>1. thr'[t] = s
      BY <1>1, Moves
    <2>2. s.at = "assembling" /\ s.r = r
      BY DEF Idle
    <2> QED
      BY <2>1, <2>2 DEF Equipped
  <1> QED
    BY <1>1, <1>3, <1>4, ThreadStep DEF TypeInv, ServerType, KeepAll, Assemble

\* Requests of a continuous recording.
LEMMA ContinuousTyped ==
    ASSUME TypeInv, NEW t \in Clients, NEW r \in Recordings,
           CompleteContinuous(t, r) \/ ResetContinuous(t, r)
    PROVE  TypeInv'
  <1>1. ASSUME CompleteContinuous(t, r)
        PROVE  TypeInv'
    <2>1. /\ rcpt' = [rcpt EXCEPT ![r] = "queued"] /\ row' = [row EXCEPT ![r].status = "processing"]
          /\ UNCHANGED <<scene, volume, server, spool, up, thr, faults>>
      BY <1>1 DEF CompleteContinuous, KeepVolume
    <2>2. RowType'
      BY <2>1, VolumeKept, RowsTyped DEF TypeInv, RowType, RecordingRow, Statuses, Receipts
    <2> QED
      BY <2>1, <2>2, RowsOnly
  <1>2. ASSUME ResetContinuous(t, r)
        PROVE  TypeInv'
    <2> DEFINE s == [Idle EXCEPT !.at = "resetting", !.r = r, !.f = NewName, !.lock = {RecLock(r)}]
    <2>1. /\ t \in Threads /\ "resetting" \in Labels /\ Goto(t, s) /\ NewDirectory(NewName)
          /\ UNCHANGED <<scene, rows, server, spool, media, quar, temps, faults>>
      BY <1>2, Fixed DEF ResetContinuous, Labels, KeepAll
    <2>2. /\ VolumeType' /\ RowType' /\ names' \in Names /\ names' >= names
          /\ NewName \in Given' /\ NewName \in Name'
      BY <2>1, DirectoryTyped
    <2>3. RecLock(r) \in LockKeys
      BY LocksOK
    <2>4. s \in ThreadState'
      BY <2>1, <2>2, <2>3, IdleTyped DEF ThreadState
    <2>5. Equipped(t)'
      <3>1. thr'[t] = s
        BY <2>1, Moves
      <3>2. s.at = "resetting" /\ s.r = r /\ s.f = NewName
        BY DEF Idle
      <3> QED
        BY <2>2, <3>1, <3>2 DEF Equipped
    <2> QED
      BY <2>1, <2>2, <2>4, <2>5, OneStep DEF TypeInv, ServerType
  <1> QED
    BY <1>1, <1>2

\* A chunk reaches the disk.
LEMMA ChunkTyped ==
    ASSUME TypeInv, NEW t \in Clients, NEW r \in Recordings, NEW p \in AllParts,
           NEW off \in Offsets,
           NEW k \in LockKeys, StoreChunk(t, r, p, off, k)
    PROVE  TypeInv'
  <1> DEFINE s == [Idle EXCEPT !.at = "storing", !.was = off, !.r = r, !.p = p, !.lock = {k}]
  <1>1. /\ t \in Threads /\ "storing" \in Labels /\ Goto(t, s)
        /\ dirs' = [dirs EXCEPT ![up[r][p].dir] = @ \cup {off}]
        /\ UNCHANGED <<scene, rows, server, spool, media, quar, temps, names, faults>>
    BY Fixed DEF StoreChunk, Labels, KeepAll, WriteChunk
  <1>2. names \in Nat /\ names' \in Names /\ names' >= names
    BY <1>1, BoundAssumption DEF TypeInv, VolumeType, Names
  <1>3. VolumeType'
    BY <1>1 DEF TypeInv, VolumeType, Given
  <1>4. s \in ThreadState'
    BY <1>1, IdleTyped DEF ThreadState
  <1>5. Equipped(t)'
    <2>1. thr'[t] = s
      BY <1>1, Moves
    <2>2. s.at = "storing" /\ s.r = r /\ s.was = off
      BY DEF Idle
    <2> QED
      BY <2>1, <2>2 DEF Equipped
  <1> QED
    BY <1>1, <1>2, <1>3, <1>4, <1>5, Grows, OneStep DEF TypeInv, ServerType

\* Every request keeps the types.
LEMMA RequestTyped ==
    ASSUME TypeInv, NEW t \in Clients, NEW r \in Recordings, Request(t, r)
    PROVE  TypeInv'
  <1>1. /\ t \in Threads /\ 0 \in AllParts /\ RecLock(r) \in LockKeys
        /\ \A p \in AllParts : UpLock(r, p) \in LockKeys
    BY Fixed, LocksOK
  <1>2. ASSUME CompleteConversation(t, r) \/ CompleteSession(t, r)
        PROVE  TypeInv'
    BY <1>1, <1>2, AssembleTyped DEF CompleteConversation, CompleteSession
  <1>3. ASSUME NEW off \in Offsets, UploadContent(t, r, off) \/ UploadContinuous(t, r, off)
        PROVE  TypeInv'
    BY <1>1, <1>3, ChunkTyped DEF UploadContent, UploadContinuous
  <1>4. ASSUME NEW p \in AllParts, NEW off \in Offsets,
               UploadSegment(t, r, p, off) \/ UploadSessionSegment(t, r, p, off)
        PROVE  TypeInv'
    BY <1>1, <1>4, ChunkTyped DEF UploadSegment, UploadSessionSegment
  <1> QED
    BY <1>2, <1>3, <1>4, CreateTyped, CompleteTyped, ContinuousTyped DEF Request


\* A thread that goes on keeps what it does not set.
LEMMA StateOK ==
    ASSUME TypeInv, NEW t \in Threads
    PROVE  /\ thr[t] \in ThreadState /\ Equipped(t)
           /\ thr[t].p \in AllParts /\ thr[t].gone \in SUBSET (Name \cup (PartId \X Name))
           /\ (thr[t].at \in Busy => thr[t].r \in Recordings)
           /\ (thr[t].at = "storing" => thr[t].was \in Offsets)
  BY DEF TypeInv, ThreadType, ThreadState, Equipped

\* A row, and an upload.
LEMMA RowOK ==
    ASSUME TypeInv, NEW r \in Recordings
    PROVE  /\ row[r] \in RecordingRow
           /\ row[r].status \in Statuses /\ row[r].media \in Name
           /\ \A p \in AllParts :
                 /\ up[r][p] \in UploadRow
                 /\ up[r][p].st \in UploadStates /\ up[r][p].off \in 0 .. 2 /\ up[r][p].dir \in Name
           /\ rcpt[r] \in Receipts
  BY DEF TypeInv, RowType, RecordingRow, UploadRow

\* The reservation.
LEMMA ReserveTyped ==
    ASSUME TypeInv, NEW t \in Threads, ReserveUpload(t) \/ RefuseUpload(t) \/ FailUpload(t)
    PROVE  TypeInv'
  <1>1. ASSUME ReserveUpload(t)
        PROVE  TypeInv'
    <2> DEFINE s == [thr[t] EXCEPT !.at = "reserved", !.f = NewName, !.policy = TRUE]
    <2>1. /\ thr[t].at = "opening" /\ "reserved" \in Labels /\ Goto(t, s) /\ NewDirectory(NewName)
          /\ UNCHANGED <<scene, rows, server, spool, media, quar, temps, faults>>
      BY <1>1 DEF ReserveUpload, Labels, KeepAll, At
    <2>2. /\ VolumeType' /\ RowType' /\ names' \in Names /\ names' >= names
          /\ NewName \in Given' /\ NewName \in Name'
      BY <2>1, DirectoryTyped
    <2>3. thr[t] \in ThreadState' /\ thr[t] \in ThreadState
      BY <2>2, Grows, StateOK
    <2>4. s \in ThreadState'
      BY <2>1, <2>2, <2>3 DEF ThreadState
    <2>5. Equipped(t)'
      <3>1. thr'[t] = s
        BY <2>1, Moves
      <3>2. s.at = "reserved" /\ s.r = thr[t].r /\ s.f = NewName
        BY <2>3 DEF ThreadState
      <3>3. thr[t].r \in Recordings
        BY <2>1, StateOK DEF Busy
      <3> QED
        BY <2>2, <3>1, <3>2, <3>3 DEF Equipped
    <2> QED
      BY <2>1, <2>2, <2>4, <2>5, OneStep DEF TypeInv, ServerType
  <1>2. ASSUME RefuseUpload(t)
        PROVE  TypeInv'
    BY <1>2, DoneStep DEF RefuseUpload, KeepAll, TypeInv, ServerType
  <1>3. ASSUME FailUpload(t)
        PROVE  TypeInv'
    <2>1. /\ Done(t) /\ UNCHANGED <<scene, rows, server, spool, media, quar, temps, names>>
          /\ RemoveUploadFiles({thr[t].f}) \/ UNCHANGED dirs
          /\ faults' = faults \/ Fault
      BY <1>3 DEF FailUpload, KeepAll
    <2>2. VolumeType' /\ names' \in Names /\ names' >= names
      <3>1. CASE RemoveUploadFiles({thr[t].f})
        BY <2>1, <3>1, RemovedTyped DEF TypeInv, VolumeType
      <3>2. CASE UNCHANGED dirs
        BY <2>1, <3>2, VolumeKept DEF volume
      <3> QED
        BY <2>1, <3>1, <3>2
    <2>3. ThreadType' /\ RowType'
      BY <2>1, <2>2, DoneTyped, Grows
    <2>4. ServerType'
      BY <2>1, ServerKept DEF TypeInv, ServerType
    <2> QED
      BY <2>2, <2>3, <2>4 DEF TypeInv
  <1> QED
    BY <1>1, <1>2, <1>3

\* A step that commits rows and ends.
LEMMA CommitDone ==
    ASSUME TypeInv, NEW t \in Threads, Done(t), UNCHANGED <<scene, volume, server, spool>>,
           faults' = faults \/ Fault, RowType'
    PROVE  TypeInv'
  <1>1. thr'[t] = Idle
    BY Moves DEF Done
  <1>2. Idle \in ThreadState' /\ Equipped(t)'
    BY <1>1, IdleTyped DEF Idle, Equipped, Busy
  <1> QED
    BY <1>2, RowStep DEF Done

\* A step that commits rows and has files to remove.
LEMMA CommitTidying ==
    ASSUME TypeInv, NEW t \in Threads, NEW r \in Recordings, NEW G \in SUBSET Name,
           Goto(t, [Idle EXCEPT !.at = "tidying", !.r = r, !.gone = G]),
           UNCHANGED <<scene, volume, server, spool>>, faults' = faults \/ Fault, RowType'
    PROVE  TypeInv'
  <1> DEFINE s == [Idle EXCEPT !.at = "tidying", !.r = r, !.gone = G]
  <1>1. "tidying" \in Labels /\ Name' = Name
    BY VolumeKept DEF Labels
  <1>2. s \in ThreadState'
    BY <1>1, IdleTyped DEF ThreadState
  <1>3. Equipped(t)'
    <2>1. thr'[t] = s
      BY Moves
    <2>2. s.at = "tidying" /\ s.gone = G
      BY DEF Idle
    <2> QED
      BY <1>1, <2>1, <2>2 DEF Equipped, Busy
  <1> QED
    BY <1>2, <1>3, RowStep

\* The commit of a new upload, and of a chunk.
LEMMA UploadTyped ==
    ASSUME TypeInv, NEW t \in Threads, CommitUpload(t) \/ CommitChunk(t) \/ FailRequest(t)
    PROVE  TypeInv'
  <1> DEFINE r == thr[t].r  p == thr[t].p
  <1>1. ASSUME CommitUpload(t)
        PROVE  TypeInv'
    <2>1. /\ thr[t].at = "reserved" /\ Done(t)
          /\ UNCHANGED <<scene, volume, server, spool, faults>>
          /\ up' = [up EXCEPT ![r][p] =
                 [st |-> "uploading", off |-> 0, dir |-> thr[t].f, stale |-> FALSE]]
          /\ row' = IF Segmented(r) THEN row ELSE [row EXCEPT ![r].status = "uploading"]
          /\ rcpt' = IF Kind(r) = "continuous" THEN [rcpt EXCEPT ![r] = "uploading"] ELSE rcpt
      BY <1>1 DEF CommitUpload, KeepVolume, At
    <2>2. r \in Recordings /\ p \in AllParts /\ thr[t].f \in Name /\ Name' = Name
      BY <2>1, StateOK, VolumeKept DEF Equipped, Busy, Name
    <2>3. [st |-> "uploading", off |-> 0, dir |-> thr[t].f, stale |-> FALSE] \in UploadRow
      BY <2>2 DEF UploadRow, UploadStates
    <2>4. up' \in [Recordings -> [AllParts -> UploadRow]]
      BY <2>1, <2>2, <2>3, UploadChanges
    <2>5. row' \in [Recordings -> RecordingRow]
      BY <2>1, <2>2 DEF TypeInv, RowType, RecordingRow, Statuses
    <2>6. rcpt' \in [Recordings -> Receipts]
      BY <2>1, <2>2 DEF TypeInv, RowType, Receipts
    <2>7. RowType'
      BY <2>2, <2>4, <2>5, <2>6, RowsTyped
    <2> QED
      BY <2>1, <2>7, CommitDone
  <1>2. ASSUME CommitChunk(t)
        PROVE  TypeInv'
    <2>1. /\ thr[t].at = "storing" /\ Done(t)
          /\ UNCHANGED <<scene, volume, server, spool, row, rcpt, faults>>
          /\ up' = [up EXCEPT ![r][p].off = thr[t].was + 1, ![r][p].stale = FALSE]
      BY <1>2 DEF CommitChunk, KeepVolume, At
    <2>2. r \in Recordings /\ p \in AllParts /\ Name' = Name
      BY <2>1, StateOK, VolumeKept DEF Busy
    <2>3. thr[t].was + 1 \in 0 .. 2
      <3>1. thr[t].was \in Offsets
        BY <2>1, StateOK DEF Equipped
      <3> QED
        BY <3>1 DEF Offsets
    <2>4. up' = [up EXCEPT ![r][p] = [up[r][p] EXCEPT !.off = thr[t].was + 1, !.stale = FALSE]]
      BY <2>1, <2>2 DEF TypeInv, RowType
    <2>5. [up[r][p] EXCEPT !.off = thr[t].was + 1, !.stale = FALSE] \in UploadRow
      BY <2>2, <2>3, RowOK DEF UploadRow
    <2>6. \E v \in UploadRow : up' = [up EXCEPT ![r][p] = v]
      BY <2>4, <2>5
    <2>7. up' \in [Recordings -> [AllParts -> UploadRow]]
      BY <2>2, <2>6, UploadChanges
    <2>8. RowType'
      BY <2>1, <2>2, <2>7, RowsTyped DEF TypeInv, RowType
    <2> QED
      BY <2>1, <2>8, CommitDone
  <1>3. ASSUME FailRequest(t)
        PROVE  TypeInv'
    BY <1>3, DoneStep DEF FailRequest, KeepAll, TypeInv, ServerType
  <1> QED
    BY <1>1, <1>2, <1>3

\* The media reaches the volume under a new name.
LEMMA PlaceTyped ==
    ASSUME TypeInv, NEW t \in Threads, thr[t].at \in {"finalizing", "assembling"}, PlaceMedia(t)
    PROVE  TypeInv'
  <1> DEFINE s == [thr[t] EXCEPT !.at = "finalized", !.f = NewName, !.policy = TRUE]
  <1>1. /\ "finalized" \in Labels /\ Goto(t, s) /\ CanName /\ names' = NewName
        /\ media' = media \cup {NewName}
        /\ UNCHANGED <<scene, rows, server, spool, quar, dirs, temps, faults>>
    BY DEF PlaceMedia, Labels, KeepAll
  <1>2. names' \in Names /\ names' >= names /\ NewName \in Nat
    BY <1>1, NamesOK, BoundAssumption DEF TypeInv, Names
  <1>3. Given \subseteq Given' /\ RowType' /\ thr[t] \in ThreadState'
    BY <1>1, <1>2, Grows, StateOK
  <1>4. NewName \in Given'
    BY <1>1, <1>2 DEF Given
  <1>5. VolumeType'
    BY <1>1, <1>2, <1>3, <1>4 DEF TypeInv, VolumeType
  <1>6. s \in ThreadState'
    BY <1>1, <1>3, <1>4 DEF ThreadState, Name
  <1>7. Equipped(t)'
    <2>1. thr'[t] = s
      BY <1>1, Moves
    <2>2. s.at = "finalized" /\ s.r = thr[t].r /\ s.f = NewName
      BY <1>3 DEF ThreadState
    <2>3. thr[t].r \in Recordings
      BY StateOK DEF Busy
    <2> QED
      BY <1>4, <2>1, <2>2, <2>3 DEF Equipped
  <1> QED
    BY <1>1, <1>2, <1>3, <1>5, <1>6, <1>7, OneStep DEF TypeInv, ServerType

\* Completion, to the commit that makes the recording ready.
LEMMA FinalTyped ==
    ASSUME TypeInv, NEW t \in Threads,
           \/ Finalize(t) \/ RefuseFinal(t) \/ CommitReady(t) \/ FailReady(t) \/ Tidy(t)
           \/ AssembleConversation(t) \/ AssemblyFails(t) \/ CommitAssembled(t)
    PROVE  TypeInv'
  <1> DEFINE r == thr[t].r
  <1>1. ASSUME Finalize(t) \/ AssembleConversation(t)
        PROVE  TypeInv'
    BY <1>1, PlaceTyped DEF Finalize, AssembleConversation, At
  <1>2. ASSUME RefuseFinal(t) \/ AssemblyFails(t)
        PROVE  TypeInv'
    BY <1>2, DoneStep DEF RefuseFinal, AssemblyFails, KeepAll, TypeInv, ServerType
  <1>3. ASSUME CommitReady(t)
        PROVE  TypeInv'
    <2>1. /\ thr[t].at = "finalized" /\ UNCHANGED <<scene, volume, server, spool, rcpt, faults>>
          /\ Goto(t, [Idle EXCEPT !.at = "tidying", !.r = r, !.gone = {up[r][0].dir}])
          /\ row' = [row EXCEPT ![r] = [status |-> "ready", media |-> thr[t].f]]
          /\ up' = [up EXCEPT ![r][0] = NoUpload]
      BY <1>3 DEF CommitReady, KeepVolume, At
    <2>2. /\ r \in Recordings /\ 0 \in AllParts /\ thr[t].f \in Name /\ Name' = Name
          /\ up[r][0].dir \in Name
      BY <2>1, StateOK, RowOK, VolumeKept, Fixed DEF Equipped, Busy, Name
    <2>3. NoUpload \in UploadRow
      BY DEF NoUpload, UploadRow, UploadStates, Name
    <2>4. up' \in [Recordings -> [AllParts -> UploadRow]]
      BY <2>1, <2>2, <2>3, UploadChanges
    <2>5. row' \in [Recordings -> RecordingRow]
      BY <2>1, <2>2 DEF TypeInv, RowType, RecordingRow, Statuses
    <2>6. RowType'
      BY <2>1, <2>2, <2>4, <2>5, RowsTyped DEF TypeInv, RowType
    <2>7. {up[r][0].dir} \in SUBSET Name
      BY <2>2
    <2> QED
      BY <2>1, <2>2, <2>6, <2>7, CommitTidying
  <1>4. ASSUME CommitAssembled(t)
        PROVE  TypeInv'
    <2> DEFINE G == IF t = "admin" THEN {} ELSE {up[r][p].dir : p \in Parts(r)}
    <2>1. /\ thr[t].at = "finalized" /\ UNCHANGED <<scene, volume, server, spool, rcpt, faults>>
          /\ Goto(t, [Idle EXCEPT !.at = "tidying", !.r = r, !.gone = G])
          /\ row' = [row EXCEPT ![r] = [status |-> "ready", media |-> thr[t].f]]
          /\ up' = [up EXCEPT ![r] = [p \in AllParts |->
                 IF p \in Parts(r) THEN [up[r][p] EXCEPT !.st = "assembled"] ELSE up[r][p]]]
      BY <1>4 DEF CommitAssembled, KeepVolume, At, TypeInv, RowType
    <2>2. r \in Recordings /\ thr[t].f \in Name /\ Name' = Name /\ G \in SUBSET Name
      <3>1. r \in Recordings /\ thr[t].f \in Name
        BY <2>1, StateOK DEF Equipped, Busy, Name
      <3>2. Name' = Name
        BY <2>1, VolumeKept
      <3>3. \A p \in Parts(r) : up[r][p].dir \in Name
        BY <3>1, RowOK, PartsOK DEF TypeInv
      <3> QED
        BY <3>1, <3>2, <3>3
    <2>3. RowType'
      <3>1. row' \in [Recordings -> RecordingRow]
        BY <2>1, <2>2 DEF TypeInv, RowType, RecordingRow, Statuses
      <3>2. ASSUME NEW p \in AllParts
            PROVE  [up[r][p] EXCEPT !.st = "assembled"] \in UploadRow /\ up[r][p] \in UploadRow
        BY <2>2, RowOK DEF UploadStates, UploadRow
      <3>3. up' \in [Recordings -> [AllParts -> UploadRow]]
        <4>1. [p \in AllParts |->
                 IF p \in Parts(r) THEN [up[r][p] EXCEPT !.st = "assembled"] ELSE up[r][p]]
                   \in [AllParts -> UploadRow]
          BY <3>2
        <4> QED
          BY <2>1, <2>2, <4>1 DEF TypeInv, RowType
      <3> QED
        BY <2>1, <2>2, <3>1, <3>3, RowsTyped DEF TypeInv, RowType
    <2> QED
      BY <2>1, <2>2, <2>3, CommitTidying
  <1>5. ASSUME FailReady(t) \/ Tidy(t)
        PROVE  TypeInv'
    <2>1. /\ Done(t) /\ UNCHANGED <<scene, rows, server, spool, quar, temps, names>>
          /\ media' \subseteq media /\ (RemoveUploadFiles(thr[t].gone) \/ UNCHANGED dirs)
          /\ faults' = faults \/ Fault
      BY <1>5 DEF FailReady, Tidy, KeepAll
    <2>2. VolumeType' /\ names' \in Names /\ names' >= names
      <3>1. CASE RemoveUploadFiles(thr[t].gone)
        BY <2>1, <3>1, RemovedTyped DEF TypeInv, VolumeType
      <3>2. CASE UNCHANGED dirs
        BY <2>1, <3>2, BoundAssumption DEF TypeInv, VolumeType, Given, Names
      <3> QED
        BY <2>1, <3>1, <3>2
    <2>3. ThreadType' /\ RowType'
      BY <2>1, <2>2, DoneTyped, Grows
    <2>4. ServerType'
      BY <2>1, ServerKept DEF TypeInv, ServerType
    <2> QED
      BY <2>2, <2>3, <2>4 DEF TypeInv
  <1> QED
    BY <1>1, <1>2, <1>3, <1>4, <1>5

\* An upload that starts again.
LEMMA FreshUpload ==
    ASSUME NEW u \in UploadRow, NEW f \in Name
    PROVE  [u EXCEPT !.dir = f, !.off = 0, !.stale = FALSE] \in UploadRow
  <1>1. [u EXCEPT !.dir = f] \in UploadRow
    BY DEF UploadRow
  <1>2. \A v \in UploadRow : [v EXCEPT !.off = 0] \in UploadRow
    BY DEF UploadRow
  <1>3. \A v \in UploadRow : [v EXCEPT !.stale = FALSE] \in UploadRow
    BY DEF UploadRow
  <1> QED
    BY <1>1, <1>2, <1>3

\* Segments that are verified or rejected, and a continuous upload that starts
\* again.
LEMMA SegmentTyped ==
    ASSUME TypeInv, NEW t \in Threads, CommitVerified(t) \/ RejectSegment(t) \/ CommitReset(t)
    PROVE  TypeInv'
  <1> DEFINE r == thr[t].r  p == thr[t].p
  <1>a. thr[t].at \in {"verifying", "resetting"} =>
          r \in Recordings /\ p \in AllParts /\ up[r][p].dir \in Name /\ up[r][0].dir \in Name
    BY StateOK, RowOK, Fixed DEF Busy
  <1>b. ASSUME thr[t].at = "verifying", NEW x \in {"verified", "failed"},
               up' = [up EXCEPT ![r][p].st = x]
        PROVE  up' \in [Recordings -> [AllParts -> UploadRow]]
    <2>1. up' = [up EXCEPT ![r][p] = [up[r][p] EXCEPT !.st = x]]
      BY <1>b
    <2>2. [up[r][p] EXCEPT !.st = x] \in UploadRow
      <3>1. up[r][p] \in UploadRow
        BY <1>a, <1>b, RowOK
      <3>2. x \in UploadStates
        BY DEF UploadStates
      <3> QED
        BY <3>1, <3>2 DEF UploadRow
    <2>3. \E v \in UploadRow : up' = [up EXCEPT ![r][p] = v]
      BY <2>1, <2>2
    <2> QED
      BY <1>a, <1>b, <2>3, UploadChanges
  <1>1. ASSUME CommitVerified(t)
        PROVE  TypeInv'
    <2>1. /\ thr[t].at = "verifying"
          /\ UNCHANGED <<scene, volume, server, spool, row, rcpt, faults>>
          /\ up' = [up EXCEPT ![r][p].st = "verified"] /\ Done(t)
      BY <1>1 DEF CommitVerified, KeepVolume, At
    <2>2. RowType'
      BY <1>a, <2>1, <1>b, VolumeKept, RowsTyped DEF TypeInv, RowType
    <2> QED
      BY <2>1, <2>2, CommitDone
  <1>2. ASSUME RejectSegment(t)
        PROVE  TypeInv'
    <2>1. /\ thr[t].at = "verifying" /\ UNCHANGED <<scene, volume, server, spool, row, rcpt>>
          /\ up' = [up EXCEPT ![r][p].st = "failed"] /\ Fault
          /\ Goto(t, [Idle EXCEPT !.at = "tidying", !.r = r, !.gone = {up[r][p].dir}])
      BY <1>2 DEF RejectSegment, KeepVolume, At
    <2>2. RowType'
      BY <1>a, <2>1, <1>b, VolumeKept, RowsTyped DEF TypeInv, RowType
    <2>3. {up[r][p].dir} \in SUBSET Name
      BY <1>a, <2>1
    <2> QED
      BY <1>a, <2>1, <2>2, <2>3, CommitTidying
  <1>3. ASSUME CommitReset(t)
        PROVE  TypeInv'
    <2>1. /\ thr[t].at = "resetting" /\ UNCHANGED <<scene, volume, server, spool, faults>>
          /\ up' = [up EXCEPT ![r][0].dir = thr[t].f, ![r][0].off = 0, ![r][0].stale = FALSE]
          /\ rcpt' = [rcpt EXCEPT ![r] = "uploading"]
          /\ row' = [row EXCEPT ![r].status = "uploading"]
          /\ Goto(t, [Idle EXCEPT !.at = "tidying", !.r = r, !.gone = {up[r][0].dir}])
      BY <1>3 DEF CommitReset, KeepVolume, At
    <2>2. thr[t].f \in Name /\ 0 \in AllParts
      BY <2>1, StateOK, Fixed DEF Equipped, Name
    <2>0. up[r][0] \in UploadRow
      BY <1>a, <2>1, <2>2, RowOK
    <2>3. up' = [up EXCEPT ![r][0] =
             [up[r][0] EXCEPT !.dir = thr[t].f, !.off = 0, !.stale = FALSE]]
      BY <1>a, <2>1, <2>2 DEF TypeInv, RowType
    <2>4. [up[r][0] EXCEPT !.dir = thr[t].f, !.off = 0, !.stale = FALSE] \in UploadRow
      BY <2>0, <2>2, FreshUpload
    <2>5. up' \in [Recordings -> [AllParts -> UploadRow]]
      <3>1. \E v \in UploadRow : up' = [up EXCEPT ![r][0] = v]
        BY <2>3, <2>4
      <3> QED
        BY <1>a, <2>1, <2>2, <3>1, UploadChanges
    <2>6. row' \in [Recordings -> RecordingRow] /\ rcpt' \in [Recordings -> Receipts]
      BY <1>a, <2>1 DEF TypeInv, RowType, RecordingRow, Statuses, Receipts
    <2>7. RowType' /\ {up[r][0].dir} \in SUBSET Name
      BY <1>a, <2>1, <2>5, <2>6, VolumeKept, RowsTyped
    <2> QED
      BY <1>a, <2>1, <2>7, CommitTidying
  <1> QED
    BY <1>1, <1>2, <1>3

\* Every later step of a request, of an administrator or of the worker keeps the
\* types.
LEMMA ContinueTyped ==
    ASSUME TypeInv, NEW t \in Threads, Continue(t)
    PROVE  TypeInv'
  BY ReserveTyped, UploadTyped, FinalTyped, SegmentTyped DEF Continue


\* The worker.
LEMMA WorkerTyped ==
    ASSUME TypeInv, Worker
    PROVE  TypeInv'
  <1> DEFINE w == thr["worker"]  r == thr["worker"].r
  <1>a. "worker" \in Threads /\ 0 \in AllParts
    BY Fixed
  <1>b. w.at \in {"working", "placing", "accepting"} => r \in Recordings /\ up[r][0].dir \in Name
    BY <1>a, StateOK, RowOK DEF Busy
  <1>1. ASSUME NEW x \in Recordings, ProcessNext(x)
        PROVE  TypeInv'
    <2> DEFINE s == [Idle EXCEPT !.at = "working", !.r = x, !.p = 0, !.lock = {}]
    <2>1. /\ Goto("worker", s) /\ "working" \in Labels
          /\ UNCHANGED <<scene, volume, server, spool, up, faults>>
          /\ rcpt' = [rcpt EXCEPT ![x] = "processing"]
          /\ row' = [row EXCEPT ![x].status = "processing"]
      BY <1>1 DEF ProcessNext, Begin, KeepVolume, Labels
    <2>2. RowType'
      BY <2>1, VolumeKept, RowsTyped DEF TypeInv, RowType, RecordingRow, Statuses, Receipts
    <2>3. s \in ThreadState'
      BY <1>a, <2>1, IdleTyped DEF ThreadState
    <2>4. Equipped("worker")'
      <3>1. thr'["worker"] = s
        BY <1>a, <2>1, Moves
      <3>2. s.at = "working" /\ s.r = x
        BY DEF Idle
      <3> QED
        BY <3>1, <3>2 DEF Equipped
    <2> QED
      BY <1>a, <2>1, <2>2, <2>3, <2>4, RowStep
  <1>2. ASSUME ReserveMedia
        PROVE  TypeInv'
    <2> DEFINE s == [w EXCEPT !.at = "placing", !.f = NewName, !.set = {row[r].media} \ {None}]
    <2>1. /\ w.at = "working" /\ Goto("worker", s) /\ "placing" \in Labels /\ CanName
          /\ names' = NewName /\ row' = [row EXCEPT ![r].media = NewName]
          /\ UNCHANGED <<scene, up, rcpt, media, quar, dirs, temps, server, spool, faults>>
      BY <1>2 DEF ReserveMedia, Labels, At
    <2>2. names' \in Names /\ names' >= names /\ NewName \in Nat
      BY <2>1, NamesOK, BoundAssumption DEF TypeInv, Names
    <2>3. Given \subseteq Given' /\ Name \subseteq Name' /\ w \in ThreadState'
      BY <1>a, <2>2, Grows, StateOK
    <2>4. NewName \in Given'
      BY <2>1, <2>2 DEF Given
    <2>5. VolumeType'
      BY <2>1, <2>2, <2>3, <2>4 DEF TypeInv, VolumeType
    <2>6. r \in Recordings /\ row[r].media \in Name'
      BY <1>b, <2>1, <2>3, RowOK
    <2>7. RowType'
      <3>1. RecordingRow \subseteq RecordingRow' /\ UploadRow \subseteq UploadRow'
        BY <2>3 DEF RecordingRow, UploadRow
      <3>2. \A v \in RecordingRow' : [v EXCEPT !.media = NewName] \in RecordingRow'
        BY <2>4 DEF RecordingRow, Name
      <3>3. row' = [row EXCEPT ![r] = [row[r] EXCEPT !.media = NewName]]
        BY <2>1
      <3>4. row' \in [Recordings -> RecordingRow']
        BY <2>6, <3>1, <3>2, <3>3 DEF TypeInv, RowType
      <3>5. up' \in [Recordings -> [AllParts -> UploadRow']]
        BY <2>1, <3>1 DEF TypeInv, RowType
      <3> QED
        BY <2>1, <3>4, <3>5 DEF TypeInv, RowType
    <2>8. s \in ThreadState'
      BY <2>1, <2>3, <2>4, <2>6 DEF ThreadState, Name
    <2>9. Equipped("worker")'
      <3>1. thr'["worker"] = s
        BY <1>a, <2>1, Moves
      <3>2. s.at = "placing" /\ s.r = r /\ s.f = NewName
        BY <2>3 DEF ThreadState
      <3> QED
        BY <2>4, <2>6, <3>1, <3>2 DEF Equipped
    <2> QED
      BY <1>a, <2>1, <2>2, <2>5, <2>7, <2>8, <2>9, OneStep DEF TypeInv, ServerType
  <1>3. ASSUME PlaceReserved
        PROVE  TypeInv'
    <2> DEFINE s == [Idle EXCEPT !.at = "accepting", !.r = r, !.p = 0, !.lock = {}]
    <2>1. /\ w.at = "placing" /\ Goto("worker", s) /\ "accepting" \in Labels
          /\ media' = (media \cup {w.f}) \ w.set
          /\ UNCHANGED <<scene, rows, server, spool, quar, dirs, temps, names, faults>>
      BY <1>3 DEF PlaceReserved, Begin, KeepAll, Labels, At
    <2>2. names' \in Names /\ names' >= names
      BY <2>1, BoundAssumption DEF TypeInv, VolumeType, Names
    <2>3. w.f \in Given
      BY <1>a, <2>1, StateOK DEF Equipped
    <2>4. VolumeType'
      BY <2>1, <2>3 DEF TypeInv, VolumeType, Given
    <2>5. s \in ThreadState'
      BY <1>a, <1>b, <2>1, IdleTyped DEF ThreadState
    <2>6. Equipped("worker")'
      <3>1. thr'["worker"] = s
        BY <1>a, <2>1, Moves
      <3>2. s.at = "accepting" /\ s.r = r
        BY DEF Idle
      <3> QED
        BY <1>b, <2>1, <3>1, <3>2 DEF Equipped
    <2> QED
      BY <1>a, <2>1, <2>2, <2>4, <2>5, <2>6, Grows, OneStep DEF TypeInv, ServerType
  <1>4. ASSUME Accept
        PROVE  TypeInv'
    <2>1. /\ w.at = "accepting" /\ UNCHANGED <<scene, volume, server, spool, faults>>
          /\ row' = [row EXCEPT ![r].status = "ready"] /\ rcpt' = [rcpt EXCEPT ![r] = "ready"]
          /\ up' = [up EXCEPT ![r][0] = NoUpload]
          /\ Goto("worker", [Idle EXCEPT !.at = "tidying", !.r = r, !.gone = {up[r][0].dir}])
      BY <1>4 DEF Accept, KeepVolume, At
    <2>2. NoUpload \in UploadRow
      BY DEF NoUpload, UploadRow, UploadStates, Name
    <2>3. up' \in [Recordings -> [AllParts -> UploadRow]]
      BY <1>a, <1>b, <2>1, <2>2, UploadChanges
    <2>4. row' \in [Recordings -> RecordingRow] /\ rcpt' \in [Recordings -> Receipts]
      BY <1>b, <2>1 DEF TypeInv, RowType, RecordingRow, Statuses, Receipts
    <2>5. RowType' /\ {up[r][0].dir} \in SUBSET Name
      BY <1>b, <2>1, <2>3, <2>4, VolumeKept, RowsTyped
    <2> QED
      BY <1>a, <1>b, <2>1, <2>5, CommitTidying
  <1>5. ASSUME NEW x \in {"retrying", "invalid", "needs_attention"}, ProcessFails(x)
        PROVE  TypeInv'
    <2>1. /\ w.at \in {"working", "placing", "accepting"} /\ Done("worker")
          /\ UNCHANGED <<scene, volume, server, spool, up>> /\ (faults' = faults \/ Fault)
          /\ rcpt' = [rcpt EXCEPT ![r] = x]
          /\ row' = [row EXCEPT ![r].status = IF x = "retrying" THEN "processing" ELSE "failed"]
      BY <1>5 DEF ProcessFails, KeepVolume
    <2>2. row' \in [Recordings -> RecordingRow] /\ rcpt' \in [Recordings -> Receipts]
      BY <1>b, <2>1 DEF TypeInv, RowType, RecordingRow, Statuses, Receipts
    <2>3. RowType'
      BY <2>1, <2>2, VolumeKept, RowsTyped DEF TypeInv, RowType
    <2> QED
      BY <1>a, <2>1, <2>3, CommitDone
  <1> QED
    BY <1>1, <1>2, <1>3, <1>4, <1>5 DEF Worker

\* Files move between the two places of the volume.
LEMMA FilesTyped ==
    ASSUME TypeInv, media' \subseteq Given, quar' \subseteq Given,
           UNCHANGED <<rows, dirs, temps, names>>
    PROVE  VolumeType' /\ RowType' /\ names' \in Names /\ names' >= names /\ Given' = Given /\ Name' = Name
  <1>1. names \in Nat /\ Given' = Given /\ Name' = Name
    BY BoundAssumption DEF TypeInv, VolumeType, Names, Given, Name
  <1> QED
    BY <1>1, Grows DEF TypeInv, VolumeType

\* Media that a deletion moves aside.
LEMMA PurgeTyped ==
    ASSUME TypeInv, NEW t \in Threads, NEW X \in SUBSET Ready, NEW A \in SUBSET Abandoned,
           PurgeExpired(t, X, A)
    PROVE  TypeInv'
  <1> DEFINE F == {row[r].media : r \in X}
             G == {<<q, up[q[1]][q[2]].dir>> : q \in A}
             s == [Idle EXCEPT !.at = "purging", !.set = F, !.policy = TRUE, !.gone = G]
  <1>1. /\ F \subseteq media
        /\ media' = media \ F /\ quar' = quar \cup F
        /\ Goto(t, s) /\ "purging" \in Labels
        /\ UNCHANGED <<scene, rows, dirs, temps, names, server, spool, faults>>
    BY DEF PurgeExpired, Labels, Quarantinable, Quarantine
  <1>2. F \subseteq Given /\ media' \subseteq Given /\ quar' \subseteq Given
    BY <1>1 DEF TypeInv, VolumeType
  <1>3. VolumeType' /\ RowType' /\ names' \in Names /\ names' >= names /\ Given' = Given /\ Name' = Name
    BY <1>1, <1>2, FilesTyped
  <1>4. G \subseteq PartId \X Name
    <2>1. \A q \in A : q \in PartId /\ q[1] \in Recordings /\ q[2] \in AllParts
      BY CapturedOK DEF Abandoned, TypeInv
    <2> QED
      BY <2>1, RowOK
  <1>5. s \in ThreadState'
    BY <1>1, <1>2, <1>3, <1>4, IdleTyped DEF ThreadState, Name
  <1>6. Equipped(t)'
    <2>1. thr'[t] = s
      BY <1>1, Moves
    <2>2. s.at = "purging" /\ s.set = F /\ s.gone = G
      BY DEF Idle
    <2> QED
      BY <1>2, <1>3, <1>4, <2>1, <2>2 DEF Equipped, Busy
  <1> QED
    BY <1>1, <1>3, <1>5, <1>6, OneStep DEF TypeInv, ServerType

\* A deletion and the reading of the settings.
LEMMA RemovalBegins ==
    ASSUME TypeInv,
           (\E r \in Recordings : DeleteRecording(r)) \/ GetSettings \/ PutSettings
    PROVE  TypeInv'
  <1>a. "admin" \in Threads
    BY Fixed
  <1>1. ASSUME NEW r \in Recordings, DeleteRecording(r)
        PROVE  TypeInv'
    <2> DEFINE s == [Idle EXCEPT !.at = "deleting", !.set = {row[r].media}, !.lock = {RecLock(r)}]
    <2>1. /\ row[r].media \in media /\ Goto("admin", s) /\ "deleting" \in Labels
          /\ media' = media \ {row[r].media} /\ quar' = quar \cup {row[r].media}
          /\ UNCHANGED <<scene, rows, dirs, temps, names, server, spool, faults>>
      BY <1>1 DEF DeleteRecording, Quarantinable, Quarantine, Labels
    <2>2. row[r].media \in Given /\ media' \subseteq Given /\ quar' \subseteq Given
      BY <2>1 DEF TypeInv, VolumeType
    <2>3. /\ VolumeType' /\ RowType' /\ names' \in Names /\ names' >= names
          /\ Given' = Given /\ Name' = Name
      BY <2>1, <2>2, FilesTyped
    <2>4. s \in ThreadState'
      BY <2>1, <2>2, <2>3, IdleTyped, LocksOK DEF ThreadState, Name
    <2>5. Equipped("admin")'
      <3>1. thr'["admin"] = s
        BY <1>a, <2>1, Moves
      <3>2. s.at = "deleting" /\ s.set = {row[r].media} /\ s.gone = {}
        BY DEF Idle
      <3> QED
        BY <2>2, <2>3, <3>1, <3>2 DEF Equipped, Busy
    <2> QED
      BY <1>a, <2>1, <2>3, <2>4, <2>5, OneStep DEF TypeInv, ServerType
  <1>2. ASSUME GetSettings \/ PutSettings
        PROVE  TypeInv'
    <2>1. PICK X \in SUBSET Ready, A \in SUBSET Abandoned : PurgeExpired("admin", X, A)
      BY <1>2 DEF GetSettings, PutSettings
    <2> QED
      BY <1>a, <2>1, PurgeTyped
  <1> QED
    BY <1>1, <1>2

\* The commit of a removal.
LEMMA CommitRemovalTyped ==
    ASSUME TypeInv, NEW t \in Threads, CommitRemoval(t)
    PROVE  TypeInv'
  <1> DEFINE H == {g[1] : g \in thr[t].gone}
             G == {g[2] : g \in thr[t].gone}
             s == [Idle EXCEPT !.at = "discarding", !.set = thr[t].set, !.gone = G]
  <1>1. /\ thr[t].at \in {"deleting", "purging"} /\ Goto(t, s) /\ "discarding" \in Labels
        /\ CleanupAbandoned(t) /\ UNCHANGED <<scene, rcpt, volume, server, spool, faults>>
    BY DEF CommitRemoval, Labels
  <1>2. Given' = Given /\ Name' = Name
    BY <1>1, VolumeKept
  <1>3. thr[t].gone \subseteq PartId \X Name /\ thr[t].set \subseteq Given
    BY <1>1, StateOK DEF Equipped
  <1>4. G \subseteq Name
    BY <1>3
  <1>5. s \in ThreadState'
    BY <1>1, <1>2, <1>3, <1>4, IdleTyped DEF ThreadState, Name
  <1>6. Equipped(t)'
    <2>1. thr'[t] = s
      BY <1>1, Moves
    <2>2. s.at = "discarding" /\ s.gone = G
      BY DEF Idle
    <2> QED
      BY <1>2, <1>4, <2>1, <2>2 DEF Equipped, Busy
  <1>7. RowType'
    <2>1. NoUpload \in UploadRow /\ Tombstone \in RecordingRow
      BY DEF NoUpload, Tombstone, UploadRow, UploadStates, RecordingRow, Statuses, Name
    <2>2. \A v \in UploadRow : [v EXCEPT !.st = "failed"] \in UploadRow
      BY DEF UploadRow, UploadStates
    <2>3. \A v \in RecordingRow : [v EXCEPT !.status = "failed"] \in RecordingRow
      BY DEF RecordingRow, Statuses
    <2>4. up' \in [Recordings -> [AllParts -> UploadRow]]
      BY <1>1, <2>1, <2>2, RowOK DEF CleanupAbandoned
    <2>5. row' \in [Recordings -> RecordingRow]
      BY <1>1, <2>1, <2>3, RowOK DEF CleanupAbandoned
    <2> QED
      BY <1>1, <1>2, <2>4, <2>5, RowsTyped DEF TypeInv, RowType
  <1> QED
    BY <1>1, <1>5, <1>6, <1>7, RowStep

\* A removal ends, or fails and is undone.
LEMMA RemovalEnds ==
    ASSUME TypeInv, NEW t \in Threads, DiscardRemoved(t) \/ FailRemoval(t)
    PROVE  TypeInv'
  <1>1. /\ Done(t) /\ UNCHANGED <<scene, rows, temps, names, spool>> /\ (faults' = faults \/ Fault)
        /\ server' \in {"down", "starting", "up"}
        /\ media' \subseteq media \cup quar /\ quar' \subseteq quar
        /\ (RemoveUploadFiles(thr[t].gone) \/ UNCHANGED dirs)
    BY DEF DiscardRemoved, FailRemoval, Returns, Raises, Restore, TypeInv, ServerType
  <1>2. media' \subseteq Given /\ quar' \subseteq Given
    BY <1>1 DEF TypeInv, VolumeType
  <1>3. VolumeType' /\ names' \in Names /\ names' >= names
    <2>1. CASE RemoveUploadFiles(thr[t].gone)
      BY <1>1, <1>2, <2>1, RemovedTyped DEF TypeInv, VolumeType
    <2>2. CASE UNCHANGED dirs
      BY <1>1, <1>2, <2>2, FilesTyped
    <2> QED
      BY <1>1, <2>1, <2>2
  <1>4. ThreadType' /\ RowType'
    BY <1>1, <1>3, DoneTyped, Grows
  <1>5. ServerType'
    BY <1>1, ServerKept DEF TypeInv
  <1> QED
    BY <1>3, <1>4, <1>5 DEF TypeInv


\* The passes of maintenance over the volume.
Passes == {"quarantine", "restore", "erase", "root", "unlink", "uploads", "prune"}

\* The maintenance thread moves on.
LEMMA PassTyped ==
    ASSUME TypeInv, NEW s, Goto("maintenance", s), s \in ThreadState', s.at \in Passes,
           s.at = "uploads" => s.gone \subseteq Name',
           UNCHANGED <<scene, rows, temps, names, spool, faults>>,
           server' \in {"down", "starting", "up"}, media' \subseteq Given, quar' \subseteq Given,
           (\E D : RemoveUploadFiles(D)) \/ UNCHANGED dirs
    PROVE  TypeInv'
  <1>1. "maintenance" \in Threads /\ thr'["maintenance"] = s
    BY Fixed, Moves
  <1>2. Equipped("maintenance")'
    BY <1>1 DEF Equipped, Busy, Passes
  <1>3. VolumeType' /\ names' \in Names /\ names' >= names /\ RowType'
    <2>1. ASSUME NEW D, RemoveUploadFiles(D)
          PROVE  VolumeType' /\ names' \in Names /\ names' >= names
      BY <2>1, RemovedTyped DEF TypeInv, VolumeType
    <2>2. CASE UNCHANGED dirs
      BY <2>2, FilesTyped
    <2> QED
      BY <2>1, <2>2, Grows
  <1> QED
    BY <1>1, <1>2, <1>3, OneStep

\* A new state of the maintenance thread.
LEMMA MaintainState ==
    ASSUME TypeInv, NEW l \in Passes, NEW S \in SUBSET Name, NEW G \in SUBSET Name, UNCHANGED names
    PROVE  LET s == [Idle EXCEPT !.at = l, !.set = S, !.gone = G] IN
           s \in ThreadState' /\ s.at = l /\ s.gone = G /\ Name' = Name
  <1>1. l \in Labels /\ Name' = Name
    BY DEF Passes, Labels, Name, Given
  <1> DEFINE s == [Idle EXCEPT !.at = l, !.set = S, !.gone = G]
  <1>2. s \in ThreadState'
    BY <1>1, IdleTyped DEF ThreadState
  <1>3. s.at = l /\ s.gone = G
    BY DEF Idle
  <1> QED
    BY <1>1, <1>2, <1>3

\* A file that maintenance judges.
LEMMA JudgingState ==
    ASSUME TypeInv, NEW l \in Passes \ {"uploads"}, NEW f \in Given, UNCHANGED names
    PROVE  LET s == [thr["maintenance"] EXCEPT !.at = l, !.f = f, !.set = @ \ {f}] IN
           s \in ThreadState' /\ s.at = l
  <1>1. l \in Labels /\ Name' = Name /\ f \in Name
    BY DEF Passes, Labels, Name, Given
  <1>2. thr["maintenance"] \in ThreadState' /\ thr["maintenance"].set \subseteq Name
    BY <1>1, Fixed, StateOK DEF ThreadState
  <1> DEFINE s == [thr["maintenance"] EXCEPT !.at = l, !.f = f, !.set = @ \ {f}]
  <1>3. s \in ThreadState' /\ s.at = l
    BY <1>1, <1>2 DEF ThreadState
  <1> QED
    BY <1>3

\* Every step of maintenance keeps the types.
LEMMA MaintenanceTyped ==
    ASSUME TypeInv, Maintenance
    PROVE  TypeInv'
  <1> DEFINE m == thr["maintenance"]
  <1>a. /\ "maintenance" \in Threads /\ m \in ThreadState /\ m.set \subseteq Name /\ m.f \in Name
        /\ media \subseteq Given /\ quar \subseteq Given /\ Given \subseteq Name
        /\ DOMAIN dirs \subseteq Given /\ server \in {"down", "starting", "up"} /\ None \in Name
    BY Fixed, StateOK DEF ThreadState, TypeInv, VolumeType, Name, ServerType
  <1>b. ASSUME NEW l \in Passes, NEW S \in SUBSET Name, NEW G \in SUBSET Name, Maintain(l, S, G),
               KeepRows, server' \in {"down", "starting", "up"}, media' \subseteq Given,
               quar' \subseteq Given, (\E D : RemoveUploadFiles(D)) \/ UNCHANGED dirs
        PROVE  TypeInv'
    <2> DEFINE s == [Idle EXCEPT !.at = l, !.set = S, !.gone = G]
    <2>1. Goto("maintenance", s) /\ UNCHANGED <<scene, rows, temps, names, spool, faults>>
      BY <1>b DEF Maintain, KeepRows
    <2>2. s \in ThreadState' /\ s.at = l /\ s.gone = G /\ Name' = Name
      BY <2>1, MaintainState
    <2> HIDE DEF s
    <2> QED
      BY <1>b, <2>1, <2>2, PassTyped
  <1>c. ASSUME NEW l \in Passes \ {"uploads"}, NEW f \in Given, Judging(l, f), KeepRows,
               UNCHANGED <<media, quar, dirs, server>>
        PROVE  TypeInv'
    <2> DEFINE s == [m EXCEPT !.at = l, !.f = f, !.set = @ \ {f}]
    <2>1. Goto("maintenance", s) /\ UNCHANGED <<scene, rows, temps, names, spool, faults>>
      BY <1>c DEF Judging, KeepRows
    <2>2. s \in ThreadState' /\ s.at = l
      BY <2>1, JudgingState
    <2> HIDE DEF s
    <2> QED
      BY <1>a, <1>c, <2>1, <2>2, PassTyped
  <1>1. ASSUME StartServer \/ HourlyMaintenance
        PROVE  TypeInv'
    <2>1. /\ Maintain("quarantine", quar, {}) /\ KeepRows /\ UNCHANGED <<media, quar, dirs>>
          /\ server' \in {"down", "starting", "up"}
      BY <1>1, <1>a DEF StartServer, HourlyMaintenance
    <2>2. quar \in SUBSET Name /\ {} \in SUBSET Name /\ "quarantine" \in Passes
      BY <1>a DEF Passes
    <2> QED
      BY <1>a, <1>b, <2>1, <2>2
  <1>2. ASSUME NEW f \in Names, JudgeQuarantined(f) \/ JudgeMedia(f)
        PROVE  TypeInv'
    <2>1. PICK l \in {"restore", "erase", "root", "unlink"} :
             Judging(l, f) /\ KeepRows /\ UNCHANGED <<media, quar, dirs, server>>
      BY <1>2 DEF JudgeQuarantined, JudgeMedia
    <2>2. f \in Given
      BY <1>2, <1>a DEF JudgeQuarantined, JudgeMedia
    <2> QED
      BY <1>c, <2>1, <2>2 DEF Passes
  <1>3. ASSUME NEW d \in Names, PruneDirectory(d)
        PROVE  TypeInv'
    <2>1. /\ Maintain("prune", m.set \ {d}, {}) /\ KeepRows /\ UNCHANGED <<media, quar, server>>
          /\ RemoveUploadFiles({d})
      BY <1>3 DEF PruneDirectory, RemoveUploadFiles
    <2>2. m.set \ {d} \in SUBSET Name /\ {} \in SUBSET Name /\ "prune" \in Passes
      BY <1>a DEF Passes
    <2> QED
      BY <1>a, <1>b, <2>1, <2>2
  <1>4. ASSUME SettleQuarantined
        PROVE  TypeInv'
    <2>1. /\ Maintain("quarantine", m.set, {}) /\ KeepRows /\ UNCHANGED <<dirs, server>>
          /\ media' \subseteq media \cup quar /\ quar' \subseteq quar
      BY <1>4 DEF SettleQuarantined, Restore
    <2>2. m.set \in SUBSET Name /\ {} \in SUBSET Name /\ "quarantine" \in Passes
      BY <1>a DEF Passes
    <2> QED
      BY <1>a, <1>b, <2>1, <2>2
  <1>5. ASSUME ScanRoot \/ UnlinkMedia
        PROVE  TypeInv'
    <2>1. PICK S \in SUBSET Name : Maintain("root", S, {})
      BY <1>5, <1>a DEF ScanRoot, UnlinkMedia, TempEntries
    <2>2. KeepRows /\ media' \subseteq media /\ UNCHANGED <<quar, dirs, server>>
      BY <1>5 DEF ScanRoot, UnlinkMedia
    <2>3. {} \in SUBSET Name /\ "root" \in Passes
      BY DEF Passes
    <2> QED
      BY <1>a, <1>b, <2>1, <2>2, <2>3
  <1>6. ASSUME ReadActiveNames
        PROVE  TypeInv'
    <2>1. Maintain("uploads", {}, ActiveNames) /\ KeepRows /\ UNCHANGED <<media, quar, dirs, server>>
      BY <1>6 DEF ReadActiveNames
    <2>2. ActiveNames \in SUBSET Name /\ {} \in SUBSET Name /\ "uploads" \in Passes
      <3>1. \A q \in Captured : up[q[1]][q[2]].dir \in Name
        BY CapturedOK, RowOK DEF TypeInv
      <3> QED
        BY <3>1 DEF ActiveNames, Passes
    <2> QED
      BY <1>a, <1>b, <2>1, <2>2
  <1>7. ASSUME ListUploads
        PROVE  TypeInv'
    <2>1. /\ Maintain("prune", DOMAIN dirs \ m.gone, {}) /\ KeepRows
          /\ UNCHANGED <<media, quar, dirs, server>>
      BY <1>7 DEF ListUploads
    <2>2. DOMAIN dirs \ m.gone \in SUBSET Name /\ {} \in SUBSET Name /\ "prune" \in Passes
      BY <1>a DEF Passes
    <2> QED
      BY <1>a, <1>b, <2>1, <2>2
  <1>8. ASSUME ApplyRetention
        PROVE  TypeInv'
    BY <1>8, <1>a, PurgeTyped DEF ApplyRetention
  <1>9. ASSUME MaintenanceFails
        PROVE  TypeInv'
    <2>1. /\ Done("maintenance") /\ server' \in {"down", "starting", "up"}
          /\ UNCHANGED <<scene, rows, volume, spool, faults>>
      BY <1>9, <1>a DEF MaintenanceFails, Raises, KeepRows, volume
    <2> QED
      BY <1>a, <2>1, DoneStep
  <1> QED
    BY <1>1, <1>2, <1>3, <1>4, <1>5, <1>6, <1>7, <1>8, <1>9 DEF Maintenance

\* The initial state.
LEMMA InitTyped ==
    ASSUME Init
    PROVE  TypeInv
  <1>1. names = 0 /\ 0 \in Names /\ 0 \in Given
    BY BoundAssumption DEF Init, Names, Given
  <1>2. RowType
    <2>1. NoUpload \in UploadRow
      BY DEF NoUpload, UploadRow, UploadStates, Name
    <2> QED
      BY <1>1, <2>1 DEF Init, RowType, RecordingRow, Statuses, Receipts, Name
  <1>3. VolumeType
    BY <1>1 DEF Init, VolumeType
  <1>4. ThreadType
    BY IdleTyped DEF Init, ThreadType, Idle, Equipped, Busy
  <1>5. ServerType
    <2>1. spool \subseteq Captured
      BY DEF Init, Captured, OfRecording, Recordings
    <2>2. scene.faults \in Nat
      BY ScenarioAssumption DEF Init, Scenario
    <2> QED
      BY <2>1, <2>2 DEF Init, ServerType
  <1> QED
    BY <1>2, <1>3, <1>4, <1>5 DEF TypeInv

\* Every step keeps the types.
LEMMA NextTyped ==
    ASSUME TypeInv, [Next]_vars
    PROVE  TypeInv'
  <1>a. Clients \subseteq Threads /\ {"admin", "maintenance", "worker"} \subseteq Threads
    BY Fixed
  <1>1. ASSUME Tablet
        PROVE  TypeInv'
    <2>1. ASSUME NEW r \in Recordings, HearAcknowledged(r) \/ HearSegment(r)
          PROVE  TypeInv'
      <3>1. /\ spool' \subseteq spool /\ UNCHANGED <<scene, rows, volume, thr, server, faults>>
        BY <2>1 DEF HearAcknowledged, HearSegment
      <3>2. RowType'
        BY <3>1, VolumeKept, Grows
      <3> QED
        BY <3>1, <3>2, RowsOnly
    <2> QED
      BY <1>1, <2>1, RequestTyped DEF Tablet
  <1>2. ASSUME NEW r \in Recordings, NEW p \in AllParts, GrowStale(r, p)
        PROVE  TypeInv'
    <2>1. /\ up' = [up EXCEPT ![r][p].stale = TRUE]
          /\ UNCHANGED <<scene, row, rcpt, volume, thr, server, spool, faults>>
      BY <1>2 DEF GrowStale
    <2>2. \E v \in UploadRow : up' = [up EXCEPT ![r][p] = v]
      <3>1. [up[r][p] EXCEPT !.stale = TRUE] \in UploadRow
        BY RowOK DEF UploadRow
      <3> QED
        BY <2>1, <3>1
    <2>3. up' \in [Recordings -> [AllParts -> UploadRow]]
      BY <2>2, UploadChanges
    <2>4. RowType'
      BY <2>1, <2>3, VolumeKept, RowsTyped DEF TypeInv, RowType
    <2> QED
      BY <2>1, <2>4, RowsOnly
  <1>3. ASSUME NEW t \in Clients \cup {"admin", "worker"}, Continue(t)
        PROVE  TypeInv'
    BY <1>a, <1>3, ContinueTyped
  <1>4. ASSUME NEW r \in Recordings, RecoverPartial(r)
        PROVE  TypeInv'
    BY <1>a, <1>4, AssembleTyped DEF RecoverPartial
  <1>5. ASSUME Removal
        PROVE  TypeInv'
    BY <1>a, <1>5, RemovalBegins, CommitRemovalTyped, RemovalEnds DEF Removal
  <1>6. ASSUME Crash
        PROVE  TypeInv'
    <2>1. /\ thr' = [t \in Threads |-> Idle] /\ temps' \in BOOLEAN /\ server' = "down" /\ Fault
          /\ UNCHANGED <<scene, rows, media, quar, dirs, names, spool>>
      BY <1>6 DEF Crash
    <2>2. names' \in Names /\ names' >= names
      BY <2>1, BoundAssumption DEF TypeInv, VolumeType, Names
    <2>3. ThreadType'
      BY <2>1, IdleTyped DEF ThreadType, Idle, Equipped, Busy
    <2>4. VolumeType' /\ RowType'
      BY <2>1, <2>2, Grows DEF TypeInv, VolumeType, Given
    <2>5. ServerType'
      BY <2>1, ServerKept DEF TypeInv
    <2> QED
      BY <2>3, <2>4, <2>5 DEF TypeInv
  <1>7. CASE UNCHANGED vars
    <2>1. UNCHANGED <<scene, rows, volume, thr, server, spool, faults>>
      BY <1>7 DEF vars, rows, volume
    <2>2. RowType'
      BY <2>1, VolumeKept, Grows
    <2> QED
      BY <2>1, <2>2, RowsOnly
  <1> QED
    BY <1>1, <1>2, <1>3, <1>4, <1>5, <1>6, <1>7, MaintenanceTyped, WorkerTyped DEF Next

\* The types of every variable, in every state of every scenario
\* (recording_service.py, recording_api.py and the background threads of
\* main.py).
THEOREM TypeCorrect == Spec => []TypeOK
  <1>1. Init => TypeInv
    BY InitTyped
  <1>2. TypeInv /\ [Next]_vars => TypeInv'
    BY NextTyped
  <1>3. TypeInv => TypeOK
    <2> SUFFICES ASSUME TypeInv
                 PROVE  TypeOK
      OBVIOUS
    <2>1. Given \subseteq Names /\ Name \subseteq Names \cup {None}
      BY NamesOK DEF TypeInv, Name
    <2>2. row \in [Recordings -> [status : Statuses, media : Names \cup {None}]]
      BY <2>1 DEF TypeInv, RowType, RecordingRow
    <2>3. up \in [Recordings -> [AllParts ->
             [st : UploadStates, off : 0 .. 2, dir : Names \cup {None}, stale : BOOLEAN]]]
      BY <2>1 DEF TypeInv, RowType, UploadRow
    <2>4. \A t \in Threads : thr[t].at \in Labels /\ thr[t].policy \in BOOLEAN
      BY DEF TypeInv, ThreadType, ThreadState
    <2> QED
      BY <2>1, <2>2, <2>3, <2>4 DEF TypeOK, TypeInv, RowType, VolumeType, ServerType, Statuses,
         UploadStates, Receipts, Offsets
  <1> QED
    BY <1>1, <1>2, <1>3, PTL DEF Spec


----------------------------------------------------------------------------
(* The quota *)

\* What the quota counts is a number, and but for the overdraft it is Total.
LEMMA BytesOK ==
    ASSUME TypeInv
    PROVE  /\ RecordingUsedBytes({}) = Total + Overdraft /\ Overdraft \in Nat
           /\ Total = Bytes("target") + Bytes("other") /\ Total \in Nat
           /\ \A r \in Recordings :
                 /\ Size(r) \in {1, 2} /\ MediaSize(r) \in Nat /\ Bytes(r) \in Nat
                 /\ Full(r) \in {1, 2}
                 /\ Bytes(r) = Weight(r) + Reserved(r, 0) + Reserved(r, 1)
                 /\ Weight(r) \in Nat /\ Weight(r) <= MediaSize(r)
                 /\ (Kind(r) = "continuous" => Weight(r) <= Size(r))
                 /\ \A p \in AllParts : Reserved(r, p) \in {0, Size(r)}
  <1>1. \A r \in Recordings : Size(r) \in {1, 2} /\ MediaSize(r) \in Nat /\ Full(r) \in {1, 2}
    BY SceneOK DEF TypeInv, Size, MediaSize, Full
  <1>2. \A r \in Recordings : /\ Weight(r) \in Nat /\ Weight(r) <= MediaSize(r)
                              /\ (Kind(r) = "continuous" => Weight(r) <= Size(r))
    BY <1>1 DEF Weight
  <1>3. \A r \in Recordings : \A p \in AllParts : Reserved(r, p) \in {0, Size(r)}
    BY DEF Reserved
  <1>4. \A r \in Recordings : Reserved(r, 0) \in Nat /\ Reserved(r, 1) \in Nat
    BY <1>1, <1>3, Fixed
  <1>5. \A r \in Recordings :
           Bytes(r) \in Nat /\ Bytes(r) = Weight(r) + Reserved(r, 0) + Reserved(r, 1)
    BY <1>2, <1>4 DEF Bytes, PendingBytes
  <1>6. Total = Bytes("target") + Bytes("other") /\ Total \in Nat
    BY <1>5, Fixed DEF Total
  <1>7. ReadyBytes("target") = Weight("target") + Overdraft /\ Overdraft \in Nat
    BY <1>1, Fixed DEF ReadyBytes, Weight, Overdraft
  <1>8. ReadyBytes("other") = Weight("other")
    BY Fixed DEF ReadyBytes, Weight, Kind
  <1>9. RecordingUsedBytes({}) = Total + Overdraft
    <2>1. PendingBytes("target") \in Nat /\ PendingBytes("other") \in Nat
      BY <1>4, Fixed DEF PendingBytes
    <2>2. RecordingUsedBytes({}) = (ReadyBytes("target") + PendingBytes("target"))
                                      + (ReadyBytes("other") + PendingBytes("other"))
      BY DEF RecordingUsedBytes, UsedBytes
    <2> QED
      BY <1>2, <1>7, <1>8, <2>1, <2>2, Fixed DEF Total, Bytes
  <1> QED
    BY <1>1, <1>2, <1>3, <1>5, <1>6, <1>7, <1>9

\* The same in the next state.
LEMMA BytesNext ==
    ASSUME TypeInv, scene' = scene
    PROVE  /\ Total' = Bytes("target")' + Bytes("other")' /\ Total' \in Nat
           /\ \A r \in Recordings :
                 /\ Size(r)' \in {1, 2} /\ MediaSize(r)' \in Nat /\ Bytes(r)' \in Nat
                 /\ Bytes(r)' = Weight(r)' + Reserved(r, 0)' + Reserved(r, 1)'
                 /\ Weight(r)' \in Nat /\ Weight(r)' <= MediaSize(r)
                 /\ (Kind(r) = "continuous" => Weight(r)' <= Size(r))
                 /\ \A p \in AllParts : Reserved(r, p)' \in {0, Size(r)'}
  <1>1. \A r \in Recordings : /\ Size(r)' = Size(r) /\ MediaSize(r)' = MediaSize(r)
                              /\ Kind(r)' = Kind(r) /\ Size(r) \in {1, 2} /\ MediaSize(r) \in Nat
    BY SceneKept, BytesOK
  <1>2. \A r \in Recordings : /\ Weight(r)' \in Nat /\ Weight(r)' <= MediaSize(r)
                              /\ (Kind(r) = "continuous" => Weight(r)' <= Size(r))
    BY <1>1 DEF Weight
  <1>3. \A r \in Recordings : \A p \in AllParts : Reserved(r, p)' \in {0, Size(r)'}
    BY DEF Reserved
  <1>4. \A r \in Recordings : Reserved(r, 0)' \in Nat /\ Reserved(r, 1)' \in Nat
    BY <1>1, <1>3, Fixed
  <1>5. \A r \in Recordings :
           Bytes(r)' \in Nat /\ Bytes(r)' = Weight(r)' + Reserved(r, 0)' + Reserved(r, 1)'
    BY <1>2, <1>4 DEF Bytes, PendingBytes
  <1>6. Total' = Bytes("target")' + Bytes("other")' /\ Total' \in Nat
    BY <1>5, Fixed DEF Total
  <1> QED
    BY <1>1, <1>2, <1>3, <1>5, <1>6

\* If no recording uses more than before, no more is used.
LEMMA BytesShrink ==
    ASSUME TypeInv, scene' = scene, \A x \in Recordings : Bytes(x)' <= Bytes(x)
    PROVE  Total' <= Total
  <1>1. Bytes("target")' <= Bytes("target") /\ Bytes("other")' <= Bytes("other")
    BY Fixed
  <1>2. /\ Bytes("target") \in Nat /\ Bytes("other") \in Nat
        /\ Bytes("target")' \in Nat /\ Bytes("other")' \in Nat
    BY BytesOK, BytesNext, Fixed
  <1> QED
    BY <1>1, <1>2, BytesOK, BytesNext

\* Media of a recording that was ready, or does not become it, weighs no more.
LEMMA SameWeight ==
    ASSUME TypeInv, scene' = scene, NEW r \in Recordings,
           row'[r].status = "ready" => row[r].status = "ready"
    PROVE  Weight(r)' <= Weight(r)
  <1>1. Size(r)' = Size(r) /\ MediaSize(r)' = MediaSize(r) /\ Kind(r)' = Kind(r)
    BY SceneKept
  <1>2. Weight(r) \in Nat /\ Weight(r)' \in Nat
    BY BytesOK, BytesNext
  <1> QED
    BY <1>1, <1>2 DEF Weight

\* A recording whose uploads do not change, and which was ready or does not
\* become it, uses no more than before.
LEMMA SameBytes ==
    ASSUME TypeInv, scene' = scene, NEW r \in Recordings,
           \A p \in AllParts : up'[r][p].st = up[r][p].st,
           row'[r].status = "ready" => row[r].status = "ready"
    PROVE  Bytes(r)' <= Bytes(r)
  <1>1. Size(r)' = Size(r)
    BY SceneKept
  <1>2. Reserved(r, 0)' = Reserved(r, 0) /\ Reserved(r, 1)' = Reserved(r, 1)
    BY <1>1, Fixed DEF Reserved
  <1>3. Weight(r)' <= Weight(r)
    BY SameWeight
  <1>4. /\ Weight(r) \in Nat /\ Weight(r)' \in Nat /\ Size(r) \in {1, 2}
        /\ Reserved(r, 0) \in {0, Size(r)} /\ Reserved(r, 1) \in {0, Size(r)}
        /\ Bytes(r) = Weight(r) + Reserved(r, 0) + Reserved(r, 1)
        /\ Bytes(r)' = Weight(r)' + Reserved(r, 0)' + Reserved(r, 1)'
    BY BytesOK, BytesNext, Fixed
  <1> QED
    BY <1>2, <1>3, <1>4

\* Rows that do not change use what they used.
LEMMA SameTotal ==
    ASSUME UNCHANGED <<scene, row, up>>
    PROVE  /\ Total' = Total /\ Quota' = Quota /\ (SpareParts' <=> SpareParts)
           /\ \A r \in Recordings : Full(r)' = Full(r) /\ MediaSize(r)' = MediaSize(r)
  <1>1. \A r \in Recordings : /\ Size(r)' = Size(r) /\ MediaSize(r)' = MediaSize(r)
                              /\ Kind(r)' = Kind(r) /\ Parts(r)' = Parts(r) /\ Full(r)' = Full(r)
    BY SceneKept
  <1>2. Quota' = Quota
    BY SceneKept
  <1>3. \A r \in Recordings : Weight(r)' = Weight(r) /\ PendingBytes(r)' = PendingBytes(r)
    BY <1>1 DEF Weight, PendingBytes, Reserved
  <1>4. Total' = Total
    BY <1>3, Fixed DEF Total, Bytes
  <1>5. SpareParts' <=> SpareParts
    BY <1>1 DEF SpareParts
  <1> QED
    BY <1>1, <1>2, <1>4, <1>5

\* The uploads of a recording reserve no more than all of its parts.
LEMMA PendingOK ==
    ASSUME TypeInv, SpareParts, NEW r \in Recordings
    PROVE  PendingBytes(r) \in Nat /\ PendingBytes(r) <= Full(r)
  <1>1. /\ Reserved(r, 0) \in {0, Size(r)} /\ Reserved(r, 1) \in {0, Size(r)}
        /\ (Segmented(r) => Size(r) = 1) /\ (~Segmented(r) => Size(r) = 2)
    BY BytesOK, PartsOK, Fixed DEF TypeInv
  <1>2. 1 \notin Parts(r) => Reserved(r, 1) = 0
    BY Fixed DEF SpareParts, Reserved, Counted
  <1>3. ~Segmented(r) => 1 \notin Parts(r)
    BY DEF Parts
  <1> QED
    BY <1>1, <1>2, <1>3 DEF PendingBytes, Full

\* Locks that a thread takes were free, so they still have one holder.
LEMMA LocksTaken ==
    ASSUME TypeInv, LocksHeld, NEW t \in Threads, \A u \in Threads \ {t} : thr'[u] = thr[u],
           \A k \in thr'[t].lock : k \in thr[t].lock \/ Free(t, k),
           thr'[t].policy => thr[t].policy \/ PolicyFree(t)
    PROVE  LocksHeld'
  <1>1. ASSUME NEW u \in Threads \ {t}
        PROVE  thr'[t].lock \cap thr'[u].lock = {} /\ ~(thr'[t].policy /\ thr'[u].policy)
    BY <1>1 DEF LocksHeld, Free, PolicyFree
  <1>2. ASSUME NEW u \in Threads \ {t}, NEW v \in Threads \ {t}, u # v
        PROVE  thr'[u].lock \cap thr'[v].lock = {} /\ ~(thr'[u].policy /\ thr'[v].policy)
    BY <1>2 DEF LocksHeld
  <1> QED
    BY <1>1, <1>2 DEF LocksHeld

\* The other threads' promises hold in rows that have not changed.
LEMMA OthersKeep ==
    ASSUME TypeInv, NEW u \in Threads, thr'[u] = thr[u], Promised(u),
           UNCHANGED <<scene, row, up, rcpt>>
    PROVE  Promised(u)'
  <1>1. /\ Quota' = Quota /\ \A r \in Recordings : /\ Kind(r)' = Kind(r)
                                                  /\ Segmented(r)' = Segmented(r)
                                                  /\ Parts(r)' = Parts(r) /\ Size(r)' = Size(r)
                                                  /\ SegmentLocks(r)' = SegmentLocks(r)
                                                  /\ Full(r)' = Full(r)
                                                  /\ MediaSize(r)' = MediaSize(r)
    BY SceneKept
  <1>2. Total' = Total
    BY SameTotal
  <1>3. RoomReserved(u)'
    <2>1. RoomReserved(u) /\ (thr[u].at \in Busy => thr[u].r \in Recordings)
      BY StateOK DEF Promised
    <2>2. thr[u].at = "reserved" => Total' + Size(thr[u].r)' <= Quota'
      BY <1>1, <1>2, <2>1 DEF RoomReserved, Busy
    <2>3. thr[u].at = "finalized" =>
             Total' + MediaSize(thr[u].r)' <= Quota' + Full(thr[u].r)'
      BY <1>1, <1>2, <2>1 DEF RoomReserved, Busy
    <2> QED
      BY <1>1, <2>1, <2>2, <2>3 DEF RoomReserved, Busy
  <1>4. SourceHeld(u)'
    BY <1>1, StateOK DEF Promised, SourceHeld, Busy
  <1>5. RemovalSpares(u)'
    BY DEF Promised, RemovalSpares, Kind
  <1>6. ReceiptHeld(u)'
    BY <1>1, StateOK DEF Promised, ReceiptHeld, Busy
  <1> QED
    BY <1>3, <1>4, <1>5, <1>6 DEF Promised

\* The steps at which a thread relies on what it read: not between two handlers,
\* and not with files alone left to remove.
Promising == {"opening", "reserved", "finalizing", "finalized", "assembling", "verifying", "deleting",
              "purging", "resetting", "working", "placing", "accepting"}

\* A thread at any other step has promised nothing.
LEMMA NothingPromised ==
    ASSUME NEW t \in Threads, thr'[t].at \notin Promising
    PROVE  Promised(t)'
  BY DEF Promising, Promised, RoomReserved, SourceHeld, RemovalSpares, ReceiptHeld

\* A step of one thread that leaves the rows alone.
LEMMA QuietStep ==
    ASSUME TypeInv, QuotaInv, NEW t \in Threads, NEW s, Goto(t, s), UNCHANGED <<scene, rows>>,
           \A k \in s.lock : k \in thr[t].lock \/ Free(t, k),
           s.policy => thr[t].policy \/ PolicyFree(t),
           Promised(t)', NamesApart'
    PROVE  QuotaInv'
  <1>1. thr'[t] = s /\ \A u \in Threads \ {t} : thr'[u] = thr[u]
    BY Moves
  <1>2. UNCHANGED <<scene, row, up, rcpt>>
    BY DEF rows
  <1>3. \A u \in Threads : Promised(u)'
    BY <1>1, <1>2, OthersKeep DEF QuotaInv
  <1>4. LocksHeld'
    BY <1>1, LocksTaken DEF QuotaInv
  <1>5. ReceiptRows'
    BY <1>2 DEF QuotaInv, ReceiptRows, Kind
  <1>6. SpareParts' /\ Total' <= Quota'
    BY <1>2, SameTotal DEF QuotaInv
  <1> QED
    BY <1>3, <1>4, <1>5, <1>6 DEF QuotaInv

\* Names stay apart while no row and no finished media changes.
LEMMA NamesKept ==
    ASSUME NamesApart, UNCHANGED row, NEW t \in Threads,
           \A u \in Threads \ {t} : thr'[u] = thr[u], thr'[t].at # "finalized"
    PROVE  NamesApart'
  <1>1. \A r, x \in Recordings : r # x /\ row'[r].media # None => row'[r].media # row'[x].media
    BY DEF NamesApart
  <1>2. \A u \in Threads : thr'[u].at = "finalized" => thr'[u] = thr[u]
    OBVIOUS
  <1> QED
    BY <1>1, <1>2 DEF NamesApart

\* The same for a thread that promises nothing more and takes no lock.
LEMMA QuietEnd ==
    ASSUME TypeInv, QuotaInv, NEW t \in Threads, NEW s, Goto(t, s), UNCHANGED <<scene, rows>>,
           s.lock = {}, ~s.policy, s.at \notin Promising
    PROVE  QuotaInv'
  <1>1. thr'[t] = s /\ \A u \in Threads \ {t} : thr'[u] = thr[u]
    BY Moves
  <1>2. Promised(t)'
    BY <1>1, NothingPromised
  <1>3. NamesApart'
    BY <1>1, NamesKept DEF QuotaInv, rows, Promising
  <1> QED
    BY <1>2, <1>3, QuietStep

\* A thread ends its work without changing a row.
LEMMA QuietDone ==
    ASSUME TypeInv, QuotaInv, NEW t \in Threads, Done(t), UNCHANGED <<scene, rows>>
    PROVE  QuotaInv'
  <1>1. Goto(t, Idle) /\ Idle.lock = {} /\ ~Idle.policy /\ Idle.at \notin Promising
    BY DEF Done, Idle, Promising
  <1> QED
    BY <1>1, QuietEnd


\* Whoever has room has it without the reserve too.
LEMMA RoomOK ==
    ASSUME TypeInv, NEW r \in Recordings, RoomFor(r)
    PROVE  Total + Size(r) <= Quota
  <1>1. /\ RecordingUsedBytes({}) = Total + Overdraft /\ Overdraft \in Nat /\ Total \in Nat
        /\ Size(r) \in Nat /\ Reserve \in Nat /\ Quota \in Nat
    BY BytesOK, BoundAssumption, SceneOK, Fixed DEF TypeInv, Quota
  <1>2. Kind(r) \in {"voicemail", "continuous", "conversation", "audit"}
    BY PartsOK DEF TypeInv
  <1>3. \/ RecordingUsedBytes({}) + Size(r) + Reserve <= Quota
        \/ RecordingUsedBytes({}) + Size(r) <= Quota
    BY <1>2 DEF RoomFor, RequireAuditCapacity, ContinuousCapacity, RequireRecordingCapacity
  <1> QED
    BY <1>1, <1>3

\* Whoever may finish has room for the MP3 in place of the reservations.
LEMMA FinalOK ==
    ASSUME TypeInv, SpareParts, NEW r \in Recordings, FitsFinal(r)
    PROVE  Total + MediaSize(r) <= Quota + Full(r)
  <1>1. /\ RecordingUsedBytes({}) = Total + Overdraft /\ Overdraft \in Nat /\ Total \in Nat
        /\ MediaSize(r) \in Nat /\ Full(r) \in Nat /\ Quota \in Nat
    BY BytesOK, SceneOK, Fixed DEF TypeInv, Quota
  <1>2. PendingBytes(r) \in Nat /\ PendingBytes(r) <= Full(r)
    BY PendingOK
  <1>3. RecordingUsedBytes({r}) + PendingBytes(r) = RecordingUsedBytes({})
    <2>1. /\ \A x \in Recordings : ReadyBytes(x) \in Nat /\ PendingBytes(x) \in Nat
      BY BytesOK, PendingOK DEF ReadyBytes
    <2>2. \A x \in Recordings : UsedBytes(x, {}) = ReadyBytes(x) + PendingBytes(x)
      BY DEF UsedBytes
    <2>3. UsedBytes(r, {r}) = ReadyBytes(r)
      BY <2>1 DEF UsedBytes
    <2>4. \A x \in Recordings \ {r} : UsedBytes(x, {r}) = ReadyBytes(x) + PendingBytes(x)
      BY DEF UsedBytes
    <2>5. CASE r = "target"
      BY <2>1, <2>2, <2>3, <2>4, <2>5, Fixed DEF RecordingUsedBytes
    <2>6. CASE r = "other"
      BY <2>1, <2>2, <2>3, <2>4, <2>6, Fixed DEF RecordingUsedBytes
    <2> QED
      BY <2>5, <2>6, Fixed
  <1>4. RecordingUsedBytes({r}) \in Int
    <2>1. \A x \in Recordings : ReadyBytes(x) \in Nat /\ PendingBytes(x) \in Nat
      BY BytesOK, PendingOK DEF ReadyBytes
    <2> QED
      BY <2>1, Fixed DEF RecordingUsedBytes, UsedBytes
  <1>5. RecordingUsedBytes({r}) + MediaSize(r) <= Quota
    BY DEF FitsFinal
  <1> QED
    BY <1>1, <1>2, <1>3, <1>4, <1>5

\* Opening an upload.
LEMMA OpeningQuota ==
    ASSUME TypeInv, QuotaInv, NEW t \in Clients, NEW r \in Recordings, NEW p \in AllParts, NEW w,
           Opening(t, r, p, w), Kind(r) = "continuous" => w = "absent", p \in Parts(r)
    PROVE  QuotaInv'
  <1> DEFINE s == [Idle EXCEPT !.at = "opening", !.was = w, !.r = r, !.p = p]
  <1>1. t \in Threads /\ Goto(t, s) /\ UNCHANGED <<scene, rows>>
    BY Fixed DEF Opening, KeepAll
  <1>2. s.at = "opening" /\ s.was = w /\ s.r = r /\ s.p = p /\ s.lock = {} /\ s.policy = FALSE
    BY DEF Idle
  <1>3. thr'[t] = s /\ \A u \in Threads \ {t} : thr'[u] = thr[u]
    BY <1>1, Moves
  <1> HIDE DEF s
  <1>4. ~Segmented(r) => p = 0
    BY DEF Parts
  <1>5. Promised(t)'
    BY <1>1, <1>2, <1>3, <1>4, SceneKept
    DEF Promised, RoomReserved, SourceHeld, RemovalSpares, ReceiptHeld
  <1>6. NamesApart'
    BY <1>1, <1>2, <1>3, NamesKept DEF QuotaInv, rows
  <1> QED
    BY <1>1, <1>2, <1>5, <1>6, QuietStep

\* A thread that takes locks and works on the uploads of one recording.
LEMMA TakesSource ==
    ASSUME TypeInv, QuotaInv, NEW t \in Threads, NEW s, Goto(t, s), UNCHANGED <<scene, rows>>,
           \A k \in s.lock : Free(t, k), s.policy => PolicyFree(t),
           s.at \in {"storing", "finalizing", "assembling", "verifying", "resetting"},
           SourceHeld(t)', ReceiptHeld(t)'
    PROVE  QuotaInv'
  <1>1. thr'[t] = s /\ \A u \in Threads \ {t} : thr'[u] = thr[u]
    BY Moves
  <1>2. Promised(t)'
    BY <1>1 DEF Promised, RoomReserved, RemovalSpares
  <1>3. NamesApart'
    BY <1>1, NamesKept DEF QuotaInv, rows
  <1> QED
    BY <1>2, <1>3, QuietStep

\* A request that completes an upload holds it.
LEMMA CompleteQuota ==
    ASSUME TypeInv, QuotaInv, NEW t \in Clients, NEW r \in Recordings,
           \/ CompleteRecording(t, r)
           \/ \E p \in AllParts : \/ CompleteConversationSegment(t, r, p)
                                  \/ CompleteSessionSegment(t, r, p)
    PROVE  QuotaInv'
  <1>1. PICK l \in {"finalizing", "verifying"}, p \in AllParts :
             /\ Begin(t, l, r, p, {UpLock(r, p)}) /\ KeepAll
             /\ Free(t, UpLock(r, p)) /\ up[r][p].st = "uploading"
             /\ (l = "finalizing" => Kind(r) = "voicemail" /\ p = 0)
             /\ (l = "verifying" => Kind(r) \in {"conversation", "audit"})
    BY Fixed DEF CompleteRecording, CompleteConversationSegment, CompleteSessionSegment,
       VerifySegment
  <1> DEFINE s == [Idle EXCEPT !.at = l, !.r = r, !.p = p, !.lock = {UpLock(r, p)}]
  <1>2. t \in Threads /\ Goto(t, s) /\ UNCHANGED <<scene, rows>>
    BY <1>1, Fixed DEF Begin, KeepAll
  <1>3. s.at = l /\ s.r = r /\ s.p = p /\ s.lock = {UpLock(r, p)} /\ s.policy = FALSE
    BY DEF Idle
  <1>4. thr'[t] = s
    BY <1>2, Moves
  <1> HIDE DEF s
  <1>5. Kind(r)' = Kind(r) /\ Segmented(r)' = Segmented(r) /\ up' = up
    BY <1>2, SceneKept DEF rows
  <1>6. SourceHeld(t)'
    BY <1>1, <1>3, <1>4, <1>5 DEF SourceHeld, Segmented, Counted
  <1>7. ReceiptHeld(t)'
    BY <1>1, <1>3, <1>4 DEF ReceiptHeld
  <1> QED
    BY <1>1, <1>2, <1>3, <1>6, <1>7, TakesSource

\* Assembly holds every segment.
LEMMA AssembleQuota ==
    ASSUME TypeInv, QuotaInv, NEW t \in Threads, NEW r \in Recordings, NEW b \in BOOLEAN,
           Assemble(t, r, b), Segmented(r), b => PolicyFree(t)
    PROVE  QuotaInv'
  <1> DEFINE s == [Idle EXCEPT !.at = "assembling", !.r = r, !.lock = SegmentLocks(r), !.policy = b]
  <1>1. /\ Goto(t, s) /\ UNCHANGED <<scene, rows>> /\ \A k \in SegmentLocks(r) : Free(t, k)
        /\ \A p \in Parts(r) : up[r][p].st = "verified"
    BY DEF Assemble, KeepAll, AllVerified
  <1>2. s.at = "assembling" /\ s.r = r /\ s.lock = SegmentLocks(r) /\ s.policy = b
    BY DEF Idle
  <1>3. thr'[t] = s
    BY <1>1, Moves
  <1> HIDE DEF s
  <1>4. /\ Kind(r)' = Kind(r) /\ Segmented(r)' = Segmented(r) /\ up' = up /\ Parts(r)' = Parts(r)
        /\ SegmentLocks(r)' = SegmentLocks(r)
    BY <1>1, SceneKept DEF rows
  <1>5. SourceHeld(t)'
    BY <1>1, <1>2, <1>3, <1>4 DEF SourceHeld, Segmented, Counted
  <1>6. ReceiptHeld(t)'
    BY <1>2, <1>3 DEF ReceiptHeld
  <1> QED
    BY <1>1, <1>2, <1>5, <1>6, TakesSource

\* A continuous upload that starts again is held.
LEMMA ResetQuota ==
    ASSUME TypeInv, QuotaInv, NEW t \in Clients, NEW r \in Recordings, ResetContinuous(t, r)
    PROVE  QuotaInv'
  <1> DEFINE s == [Idle EXCEPT !.at = "resetting", !.r = r, !.f = NewName, !.lock = {RecLock(r)}]
  <1>1. /\ t \in Threads /\ Goto(t, s) /\ UNCHANGED <<scene, rows>> /\ Free(t, RecLock(r))
        /\ Kind(r) = "continuous" /\ rcpt[r] = "invalid"
    BY Fixed DEF ResetContinuous, KeepAll
  <1>2. s.at = "resetting" /\ s.r = r /\ s.lock = {RecLock(r)} /\ s.policy = FALSE
    BY DEF Idle
  <1>3. thr'[t] = s
    BY <1>1, Moves
  <1> HIDE DEF s
  <1>4. SourceHeld(t)'
    BY <1>2, <1>3 DEF SourceHeld
  <1>5. ReceiptHeld(t)'
    BY <1>1, <1>2, <1>3, SceneKept DEF ReceiptHeld, rows
  <1> QED
    BY <1>1, <1>2, <1>4, <1>5, TakesSource

\* A chunk reaches the disk under a lock.
LEMMA ChunkQuota ==
    ASSUME TypeInv, QuotaInv, NEW t \in Clients, NEW r \in Recordings, NEW p \in AllParts,
           NEW off \in Offsets, NEW k, StoreChunk(t, r, p, off, k)
    PROVE  QuotaInv'
  <1> DEFINE s == [Idle EXCEPT !.at = "storing", !.was = off, !.r = r, !.p = p, !.lock = {k}]
  <1>1. t \in Threads /\ Goto(t, s) /\ UNCHANGED <<scene, rows>> /\ Free(t, k)
    BY Fixed DEF StoreChunk, KeepAll
  <1>2. s.at = "storing" /\ s.lock = {k} /\ s.policy = FALSE
    BY DEF Idle
  <1>3. thr'[t] = s
    BY <1>1, Moves
  <1> HIDE DEF s
  <1>4. SourceHeld(t)' /\ ReceiptHeld(t)'
    BY <1>2, <1>3 DEF SourceHeld, ReceiptHeld
  <1> QED
    BY <1>1, <1>2, <1>4, TakesSource

\* The reservation is made under the policy lock.
LEMMA ReserveQuota ==
    ASSUME TypeInv, QuotaInv, NEW t \in Threads, ReserveUpload(t)
    PROVE  QuotaInv'
  <1> DEFINE s == [thr[t] EXCEPT !.at = "reserved", !.f = NewName, !.policy = TRUE]  r == thr[t].r
  <1>1. /\ thr[t].at = "opening" /\ PolicyFree(t) /\ RoomFor(r) /\ Goto(t, s)
        /\ UNCHANGED <<scene, rows>>
    BY DEF ReserveUpload, At, KeepAll
  <1>2. r \in Recordings /\ Total + Size(r) <= Quota
    BY <1>1, StateOK, RoomOK DEF Busy
  <1>3. /\ s.at = "reserved" /\ s.r = r /\ s.was = thr[t].was /\ s.p = thr[t].p
        /\ s.lock = thr[t].lock /\ s.policy = TRUE
    BY StateOK DEF ThreadState
  <1>4. thr'[t] = s /\ \A u \in Threads \ {t} : thr'[u] = thr[u]
    BY <1>1, Moves
  <1> HIDE DEF s
  <1>5. Total' = Total
    BY <1>1, SameTotal DEF rows
  <1>6. RoomReserved(t)'
    <2>1. /\ Quota' = Quota /\ Size(r)' = Size(r) /\ Kind(r)' = Kind(r)
          /\ Segmented(r)' = Segmented(r) /\ Parts(r)' = Parts(r)
      BY <1>1, <1>2, <1>3, <1>4, SceneKept
    <2>2. /\ Kind(r) = "continuous" => s.was = "absent"
          /\ ~Segmented(r) => s.p = 0
          /\ s.p \in Parts(r)
      BY <1>1, <1>3 DEF QuotaInv, Promised, RoomReserved
    <2>3. Total' + Size(r)' <= Quota'
      BY <1>2, <1>5, <2>1
    <2> QED
      BY <1>3, <1>4, <2>1, <2>2, <2>3 DEF RoomReserved
  <1>7. Promised(t)'
    BY <1>3, <1>4, <1>6 DEF Promised, SourceHeld, RemovalSpares, ReceiptHeld
  <1>8. NamesApart'
    BY <1>1, <1>3, <1>4, NamesKept DEF QuotaInv, rows
  <1> QED
    BY <1>1, <1>3, <1>7, <1>8, QuietStep

\* New media is put in place under the policy lock, by a thread that goes on
\* holding its source.
LEMMA PlaceQuota ==
    ASSUME TypeInv, QuotaInv, NEW t \in Threads, thr[t].at \in {"finalizing", "assembling"},
           PlaceMedia(t)
    PROVE  QuotaInv'
  <1> DEFINE s == [thr[t] EXCEPT !.at = "finalized", !.f = NewName, !.policy = TRUE]  r == thr[t].r
  <1>1. PolicyFree(t) /\ FitsFinal(r) /\ CanName /\ Goto(t, s) /\ UNCHANGED <<scene, rows>>
    BY DEF PlaceMedia, KeepAll
  <1>2. r \in Recordings /\ Total + MediaSize(r) <= Quota + Full(r)
    BY <1>1, StateOK, FinalOK DEF Busy, QuotaInv
  <1>3. /\ s.at = "finalized" /\ s.r = r /\ s.f = NewName /\ s.lock = thr[t].lock
        /\ s.policy = TRUE
    BY StateOK DEF ThreadState
  <1>4. thr'[t] = s /\ \A u \in Threads \ {t} : thr'[u] = thr[u]
    BY <1>1, Moves
  <1> HIDE DEF s
  <1>5. /\ up' = up /\ row' = row
        /\ \A x \in Recordings : /\ Kind(x)' = Kind(x) /\ Segmented(x)' = Segmented(x)
                                  /\ Parts(x)' = Parts(x) /\ SegmentLocks(x)' = SegmentLocks(x)
    BY <1>1, SceneKept DEF rows
  <1>6. SourceHeld(t)'
    BY <1>2, <1>3, <1>4, <1>5 DEF QuotaInv, Promised, SourceHeld
  <1>7. Promised(t)'
    <2>1. Total' + MediaSize(r)' <= Quota' + Full(r)'
      <3>1. Total' = Total /\ Quota' = Quota /\ MediaSize(r)' = MediaSize(r) /\ Full(r)' = Full(r)
        BY <1>1, <1>2, <1>3, <1>4, SameTotal DEF rows
      <3> QED
        BY <1>2, <3>1
    <2>2. RoomReserved(t)'
      BY <1>3, <1>4, <2>1 DEF RoomReserved
    <2> QED
      BY <1>3, <1>4, <1>6, <2>2 DEF Promised, RemovalSpares, ReceiptHeld
  <1>8. NamesApart'
    <2>1. NewName \notin Given /\ NewName # None
      BY <1>1, NamesOK, BoundAssumption DEF TypeInv, Names
    <2>2. \A x \in Recordings : row[x].media # NewName
      BY <2>1, RowOK DEF Name
    <2>3. \A u \in Threads : thr[u].at = "finalized" => thr[u].f # NewName
      BY <2>1, StateOK DEF Equipped
    <2> QED
      BY <1>3, <1>4, <1>5, <2>2, <2>3 DEF QuotaInv, NamesApart
  <1> QED
    BY <1>1, <1>3, <1>7, <1>8, QuietStep


\* The receipt of a continuous recording whose row is ready is ready.
LEMMA ReadyReceipt ==
    ASSUME TypeInv, QuotaInv, NEW r \in Recordings, row[r].status = "ready", Kind(r) = "continuous"
    PROVE  rcpt[r] = "ready"
  BY DEF QuotaInv, ReceiptRows

\* A removal that begins names media of ready recordings.
LEMMA RemovalQuota ==
    ASSUME TypeInv, QuotaInv, NEW t \in Threads, NEW s, Goto(t, s), UNCHANGED <<scene, rows>>,
           s.at \in {"deleting", "purging"}, \A k \in s.lock : Free(t, k),
           s.policy => PolicyFree(t), NEW X \in SUBSET Ready, s.set = {row[r].media : r \in X},
           s.set \subseteq media, \A g \in s.gone : g[1][1] \in Recordings /\ Kind(g[1][1]) # "continuous"
    PROVE  QuotaInv'
  <1>1. thr'[t] = s /\ \A u \in Threads \ {t} : thr'[u] = thr[u]
    BY Moves
  <1>2. None \notin s.set
    BY NamesOK DEF TypeInv, VolumeType
  <1>3. ASSUME NEW r \in Recordings, Kind(r) = "continuous", row[r].media \in s.set
        PROVE  rcpt[r] = "ready"
    <2>1. PICK x \in X : row[r].media = row[x].media
      BY <1>3
    <2>2. x \in Recordings /\ row[x].status = "ready"
      BY DEF Ready
    <2>3. x = r
      BY <1>2, <1>3, <2>1, <2>2 DEF QuotaInv, NamesApart
    <2> QED
      BY <1>3, <2>2, <2>3, ReadyReceipt
  <1>4. RemovalSpares(t)'
    BY <1>1, <1>3, SceneKept DEF RemovalSpares, rows
  <1>5. Promised(t)'
    BY <1>1, <1>4 DEF Promised, RoomReserved, SourceHeld, ReceiptHeld
  <1>6. NamesApart'
    BY <1>1, NamesKept DEF QuotaInv, rows
  <1> QED
    BY <1>5, <1>6, QuietStep

\* Retention and the abandoned-upload rule.
LEMMA PurgeQuota ==
    ASSUME TypeInv, QuotaInv, NEW t \in Threads, NEW X \in SUBSET Ready, NEW A \in SUBSET Abandoned,
           PurgeExpired(t, X, A)
    PROVE  QuotaInv'
  <1> DEFINE F == {row[r].media : r \in X}
             G == {<<q, up[q[1]][q[2]].dir>> : q \in A}
             s == [Idle EXCEPT !.at = "purging", !.set = F, !.policy = TRUE, !.gone = G]
  <1>1. F \subseteq media /\ Goto(t, s) /\ PolicyFree(t) /\ UNCHANGED <<scene, rows>>
    BY DEF PurgeExpired, Quarantinable
  <1>2. s.at = "purging" /\ s.set = F /\ s.gone = G /\ s.lock = {} /\ s.policy = TRUE
    BY DEF Idle
  <1>3. \A g \in G : g[1][1] \in Recordings /\ Kind(g[1][1]) # "continuous"
    <2>1. \A q \in A : q[1] \in Recordings /\ Kind(q[1]) # "continuous"
      BY CapturedOK DEF Abandoned, TypeInv
    <2> QED
      BY <2>1
  <1> HIDE DEF s, G
  <1> QED
    BY <1>1, <1>2, <1>3, RemovalQuota

\* A removal begins, ends or is undone.
LEMMA RemovalSteps ==
    ASSUME TypeInv, QuotaInv,
           \/ (\E r \in Recordings : DeleteRecording(r)) \/ GetSettings \/ PutSettings
           \/ \E t \in Threads : DiscardRemoved(t) \/ FailRemoval(t)
    PROVE  QuotaInv'
  <1>a. "admin" \in Threads
    BY Fixed
  <1>1. ASSUME NEW r \in Recordings, DeleteRecording(r)
        PROVE  QuotaInv'
    <2> DEFINE s == [Idle EXCEPT !.at = "deleting", !.set = {row[r].media}, !.lock = {RecLock(r)}]
    <2>1. /\ row[r].media \in media /\ row[r].status = "ready" /\ Goto("admin", s)
          /\ Free("admin", RecLock(r)) /\ UNCHANGED <<scene, rows>>
      BY <1>1 DEF DeleteRecording, Quarantinable
    <2>2. /\ s.at = "deleting" /\ s.set = {row[r].media} /\ s.gone = {} /\ s.lock = {RecLock(r)}
          /\ s.policy = FALSE
      BY DEF Idle
    <2> HIDE DEF s
    <2>3. {r} \in SUBSET Ready /\ s.set = {row[x].media : x \in {r}}
      BY <2>1, <2>2 DEF Ready
    <2>4. \A g \in s.gone : g[1][1] \in Recordings /\ Kind(g[1][1]) # "continuous"
      BY <2>2
    <2> QED
      BY <1>a, <2>1, <2>2, <2>3, <2>4, RemovalQuota
  <1>2. ASSUME GetSettings \/ PutSettings
        PROVE  QuotaInv'
    <2>1. PICK X \in SUBSET Ready, A \in SUBSET Abandoned : PurgeExpired("admin", X, A)
      BY <1>2 DEF GetSettings, PutSettings
    <2> QED
      BY <1>a, <2>1, PurgeQuota
  <1>3. ASSUME NEW t \in Threads, DiscardRemoved(t) \/ FailRemoval(t)
        PROVE  QuotaInv'
    BY <1>3, QuietDone DEF DiscardRemoved, FailRemoval
  <1> QED
    BY <1>1, <1>2, <1>3

\* Maintenance reserves nothing and changes no row before it applies retention.
LEMMA MaintenanceQuota ==
    ASSUME TypeInv, QuotaInv, Maintenance
    PROVE  QuotaInv'
  <1> DEFINE m == thr["maintenance"]
  <1>a. "maintenance" \in Threads /\ m \in ThreadState
    BY Fixed, StateOK
  <1>b. ASSUME NEW l \in Passes, NEW S, NEW G, Maintain(l, S, G), KeepRows
        PROVE  QuotaInv'
    <2> DEFINE s == [Idle EXCEPT !.at = l, !.set = S, !.gone = G]
    <2>1. Goto("maintenance", s) /\ UNCHANGED <<scene, rows>>
      BY <1>b DEF Maintain, KeepRows
    <2>2. s.at = l /\ s.lock = {} /\ s.policy = FALSE
      BY DEF Idle
    <2>3. l \notin Promising
      BY DEF Passes, Promising
    <2> HIDE DEF s
    <2> QED
      BY <1>a, <2>1, <2>2, <2>3, QuietEnd
  <1>c. ASSUME NEW l \in Passes, NEW f, Judging(l, f), KeepRows
        PROVE  QuotaInv'
    <2> DEFINE s == [m EXCEPT !.at = l, !.f = f, !.set = @ \ {f}]
    <2>1. Goto("maintenance", s) /\ UNCHANGED <<scene, rows>>
      BY <1>c DEF Judging, KeepRows
    <2>2. s.at = l /\ s.lock = m.lock /\ s.policy = m.policy
      BY <1>a DEF ThreadState
    <2>3. l \notin Promising /\ l # "finalized"
      BY DEF Passes, Promising
    <2> HIDE DEF s
    <2>4. thr'["maintenance"] = s /\ \A u \in Threads \ {"maintenance"} : thr'[u] = thr[u]
      BY <1>a, <2>1, Moves
    <2>5. Promised("maintenance")'
      BY <1>a, <2>2, <2>3, <2>4, NothingPromised
    <2>6. NamesApart'
      BY <1>a, <2>1, <2>2, <2>3, <2>4, NamesKept DEF QuotaInv, rows
    <2> QED
      BY <1>a, <2>1, <2>2, <2>5, <2>6, QuietStep
  <1>d. {"quarantine", "restore", "erase", "root", "unlink", "uploads", "prune"} \subseteq Passes
    BY DEF Passes
  <1>1. ASSUME StartServer \/ HourlyMaintenance \/ SettleQuarantined \/ ScanRoot \/ UnlinkMedia
               \/ ReadActiveNames \/ ListUploads
        PROVE  QuotaInv'
    <2>1. KeepRows /\ \E l \in Passes : \E S, G : Maintain(l, S, G)
      BY <1>1, <1>d DEF StartServer, HourlyMaintenance, SettleQuarantined, ScanRoot, UnlinkMedia,
         ReadActiveNames, ListUploads
    <2> QED
      BY <1>b, <2>1
  <1>2. ASSUME NEW f \in Names, JudgeQuarantined(f) \/ JudgeMedia(f)
        PROVE  QuotaInv'
    BY <1>2, <1>c, <1>d DEF JudgeQuarantined, JudgeMedia
  <1>3. ASSUME NEW d \in Names, PruneDirectory(d)
        PROVE  QuotaInv'
    BY <1>3, <1>b, <1>d DEF PruneDirectory
  <1>4. ASSUME ApplyRetention
        PROVE  QuotaInv'
    BY <1>4, <1>a, PurgeQuota DEF ApplyRetention
  <1>5. ASSUME MaintenanceFails
        PROVE  QuotaInv'
    BY <1>5, <1>a, QuietDone DEF MaintenanceFails, KeepRows
  <1> QED
    BY <1>1, <1>2, <1>3, <1>4, <1>5 DEF Maintenance


\* What the other threads hold, and the rows still say.
LEMMA SourceKept ==
    ASSUME TypeInv, scene' = scene, NEW u \in Threads, thr'[u] = thr[u], SourceHeld(u),
           \A r \in Recordings, p \in AllParts : up'[r][p].st = up[r][p].st
    PROVE  SourceHeld(u)'
  <1>1. \A r \in Recordings : /\ Kind(r)' = Kind(r) /\ Segmented(r)' = Segmented(r)
                              /\ Parts(r)' = Parts(r) /\ SegmentLocks(r)' = SegmentLocks(r)
                              /\ Parts(r) \subseteq AllParts
    BY SceneKept, PartsOK DEF TypeInv
  <1>2. thr[u].p \in AllParts /\ 0 \in AllParts /\ (thr[u].at \in Busy => thr[u].r \in Recordings)
    BY StateOK, Fixed
  <1> QED
    BY <1>1, <1>2 DEF SourceHeld, Busy

\* No media that a removal names gets a new owner.
LEMMA SparesKept ==
    ASSUME TypeInv, scene' = scene, NEW u \in Threads, thr'[u] = thr[u], RemovalSpares(u),
           \A r \in Recordings : Kind(r) = "continuous" =>
              /\ row'[r].media = row[r].media \/ row'[r].media \notin Given
              /\ rcpt[r] = "ready" => rcpt'[r] = "ready"
    PROVE  RemovalSpares(u)'
  <1>1. \A r \in Recordings : Kind(r)' = Kind(r)
    BY SceneKept
  <1>2. thr[u].at \in {"deleting", "purging"} =>
           thr[u].set \subseteq Given /\ \A g \in thr[u].gone : g[1][1] \in Recordings
    BY StateOK DEF Equipped, PartId
  <1> QED
    BY <1>1, <1>2 DEF RemovalSpares

\* No receipt changes.
LEMMA ReceiptKept ==
    ASSUME TypeInv, scene' = scene, NEW u \in Threads, thr'[u] = thr[u], ReceiptHeld(u),
           rcpt' = rcpt
    PROVE  ReceiptHeld(u)'
  BY SceneKept, StateOK DEF ReceiptHeld, Busy

\* A step that changes rows and uses no more than before, or that uses what fits
\* and is taken under the policy lock.
LEMMA RowsQuota ==
    ASSUME TypeInv, QuotaInv, scene' = scene, NEW t \in Threads,
           \A u \in Threads \ {t} : thr'[u] = thr[u],
           \A k \in thr'[t].lock : k \in thr[t].lock, thr'[t].policy => thr[t].policy,
           ReceiptRows', NamesApart', Promised(t)',
           Total' <= Total \/ (Total' <= Quota /\ thr[t].policy),
           \A r \in Recordings : \A p \in AllParts \ Parts(r) :
              up'[r][p].st \in Counted => up[r][p].st \in Counted,
           \A u \in Threads \ {t} : SourceHeld(u)' /\ RemovalSpares(u)' /\ ReceiptHeld(u)'
    PROVE  QuotaInv'
  <1>1. Quota' = Quota /\ \A r \in Recordings : /\ Kind(r)' = Kind(r) /\ Size(r)' = Size(r)
                                                /\ Segmented(r)' = Segmented(r)
                                                /\ MediaSize(r)' = MediaSize(r)
                                                /\ Full(r)' = Full(r) /\ Parts(r)' = Parts(r)
    BY SceneKept
  <1>2. /\ Total \in Nat /\ Total' \in Nat /\ Quota \in Nat
        /\ \A r \in Recordings : Size(r) \in Nat /\ MediaSize(r) \in Nat /\ Full(r) \in Nat
    BY BytesOK, BytesNext, SceneOK, Fixed DEF TypeInv, Quota
  <1>3. Total' <= Quota' /\ SpareParts'
    BY <1>1, <1>2 DEF QuotaInv, SpareParts
  <1>4. LocksHeld'
    BY LocksTaken DEF QuotaInv
  <1>5. ASSUME NEW u \in Threads \ {t}
        PROVE  RoomReserved(u)'
    <2>1. RoomReserved(u) /\ thr'[u] = thr[u] /\ (thr[u].at \in Busy => thr[u].r \in Recordings)
      BY <1>5, StateOK DEF QuotaInv, Promised
    <2>2. thr[u].policy => Total' <= Total
      BY <1>5 DEF QuotaInv, LocksHeld
    <2>3. thr[u].at = "reserved" => Total' + Size(thr[u].r) <= Quota
      BY <1>2, <2>1, <2>2 DEF RoomReserved, Busy
    <2>4. thr[u].at = "finalized" => Total' + MediaSize(thr[u].r) <= Quota + Full(thr[u].r)
      BY <1>2, <2>1, <2>2 DEF RoomReserved, Busy
    <2> QED
      BY <1>1, <2>1, <2>3, <2>4 DEF RoomReserved, Busy
  <1>6. \A u \in Threads : Promised(u)'
    BY <1>5 DEF Promised
  <1> QED
    BY <1>3, <1>4, <1>6 DEF QuotaInv

\* The thread that commits has nothing left to promise.
LEMMA Committed ==
    ASSUME TypeInv, NEW t \in Threads,
           \/ Done(t)
           \/ \E r, G : Goto(t, [Idle EXCEPT !.at = "tidying", !.r = r, !.gone = G])
           \/ \E S, G : Goto(t, [Idle EXCEPT !.at = "discarding", !.set = S, !.gone = G])
    PROVE  /\ thr'[t].at \in {"idle", "tidying", "discarding"} /\ thr'[t].lock = {}
           /\ ~thr'[t].policy /\ Promised(t)' /\ \A u \in Threads \ {t} : thr'[u] = thr[u]
  <1>1. PICK s : /\ Goto(t, s) /\ s.at \in {"idle", "tidying", "discarding"} /\ s.lock = {}
                 /\ s.policy = FALSE
    <2>1. CASE Done(t)
      <3>1. Idle.at = "idle" /\ Idle.lock = {} /\ Idle.policy = FALSE
        BY DEF Idle
      <3> QED
        BY <2>1, <3>1 DEF Done
    <2>2. ASSUME NEW r, NEW G, Goto(t, [Idle EXCEPT !.at = "tidying", !.r = r, !.gone = G])
          PROVE  \E s : /\ Goto(t, s) /\ s.at \in {"idle", "tidying", "discarding"}
                        /\ s.lock = {} /\ s.policy = FALSE
      <3> DEFINE s == [Idle EXCEPT !.at = "tidying", !.r = r, !.gone = G]
      <3>1. s.at = "tidying" /\ s.lock = {} /\ s.policy = FALSE
        BY DEF Idle
      <3> QED
        BY <2>2, <3>1
    <2>3. ASSUME NEW S, NEW G, Goto(t, [Idle EXCEPT !.at = "discarding", !.set = S, !.gone = G])
          PROVE  \E s : /\ Goto(t, s) /\ s.at \in {"idle", "tidying", "discarding"}
                        /\ s.lock = {} /\ s.policy = FALSE
      <3> DEFINE s == [Idle EXCEPT !.at = "discarding", !.set = S, !.gone = G]
      <3>1. s.at = "discarding" /\ s.lock = {} /\ s.policy = FALSE
        BY DEF Idle
      <3> QED
        BY <2>3, <3>1
    <2> QED
      BY <2>1, <2>2, <2>3
  <1>2. thr'[t] = s /\ \A u \in Threads \ {t} : thr'[u] = thr[u]
    BY <1>1, Moves
  <1>3. Promised(t)'
    BY <1>1, <1>2, NothingPromised DEF Promising
  <1> QED
    BY <1>1, <1>2, <1>3

\* A day passes; a chunk is committed; a request opens the row of a segmented
\* recording: no upload that counts, no receipt and no name changes.
LEMMA PlainRows ==
    ASSUME TypeInv, QuotaInv, scene' = scene, NEW t \in Threads,
           \A u \in Threads \ {t} : thr'[u] = thr[u],
           \A k \in thr'[t].lock : k \in thr[t].lock, thr'[t].policy => thr[t].policy,
           \/ thr'[t] = thr[t]
           \/ Promised(t)' /\ thr'[t].at # "finalized",
           rcpt' = rcpt, \A r \in Recordings, p \in AllParts : up'[r][p].st = up[r][p].st,
           \A r \in Recordings :
              /\ row'[r].media = row[r].media
              /\ Kind(r) = "continuous" => row'[r].status = row[r].status
              /\ row'[r].status = "ready" => row[r].status = "ready"
    PROVE  QuotaInv'
  <1>1. Total' <= Total
    BY SameBytes, BytesShrink
  <1>a. \A r \in Recordings : \A p \in AllParts \ Parts(r) :
           up'[r][p].st \in Counted => up[r][p].st \in Counted
    OBVIOUS
  <1>2. ASSUME NEW u \in Threads, thr'[u] = thr[u]
        PROVE  SourceHeld(u)' /\ RemovalSpares(u)' /\ ReceiptHeld(u)'
    BY <1>2, SourceKept, SparesKept, ReceiptKept DEF QuotaInv, Promised
  <1>3. NamesApart'
    <2>1. \A u \in Threads : thr'[u].at = "finalized" => thr'[u] = thr[u]
      OBVIOUS
    <2> QED
      BY <2>1 DEF NamesApart, QuotaInv
  <1>4. ReceiptRows'
    <2>1. \A r \in Recordings : Kind(r)' = Kind(r) /\ up'[r][0].st = up[r][0].st
      BY SceneKept, Fixed
    <2> QED
      BY <2>1 DEF ReceiptRows, QuotaInv
  <1>5. CASE Promised(t)'
    BY <1>1, <1>a, <1>2, <1>3, <1>4, <1>5, RowsQuota
  <1>6. CASE thr'[t] = thr[t]
    <2>1. SourceHeld(t)' /\ RemovalSpares(t)' /\ ReceiptHeld(t)'
      BY <1>2, <1>6
    <2>2. RoomReserved(t)'
      <3>1. Quota' = Quota /\ \A r \in Recordings : /\ Kind(r)' = Kind(r) /\ Size(r)' = Size(r)
                                                    /\ Segmented(r)' = Segmented(r)
                                                    /\ MediaSize(r)' = MediaSize(r)
                                                    /\ Full(r)' = Full(r) /\ Parts(r)' = Parts(r)
        BY SceneKept
      <3>2. /\ Total \in Nat /\ Total' \in Nat /\ Quota \in Nat
            /\ \A r \in Recordings : Size(r) \in Nat /\ MediaSize(r) \in Nat /\ Full(r) \in Nat
        BY BytesOK, BytesNext, SceneOK, Fixed DEF TypeInv, Quota
      <3>3. RoomReserved(t) /\ (thr[t].at \in Busy => thr[t].r \in Recordings)
        BY StateOK DEF QuotaInv, Promised
      <3>4. thr[t].at = "reserved" => Total' + Size(thr[t].r) <= Quota
        BY <1>1, <3>2, <3>3 DEF RoomReserved, Busy
      <3>5. thr[t].at = "finalized" => Total' + MediaSize(thr[t].r) <= Quota + Full(thr[t].r)
        BY <1>1, <3>2, <3>3 DEF RoomReserved, Busy
      <3> QED
        BY <1>6, <3>1, <3>3, <3>4, <3>5 DEF RoomReserved, Busy
    <2>3. Promised(t)'
      BY <2>1, <2>2 DEF Promised
    <2> QED
      BY <1>1, <1>a, <1>2, <1>3, <1>4, <2>3, RowsQuota
  <1> QED
    BY <1>5, <1>6


\* A chunk is committed, a day passes, a segmented recording is opened.
LEMMA PlainQuota ==
    ASSUME TypeInv, QuotaInv,
           \/ \E t \in Threads : CommitChunk(t)
           \/ \E r \in Recordings, p \in AllParts : GrowStale(r, p)
           \/ \E t \in Clients, r \in Recordings : CreateConversation(t, r) \/ CreateSession(t, r)
    PROVE  QuotaInv'
  <1>1. ASSUME NEW t \in Threads, CommitChunk(t)
        PROVE  QuotaInv'
    <2> DEFINE r == thr[t].r  p == thr[t].p
    <2>1. /\ thr[t].at = "storing" /\ Done(t) /\ UNCHANGED <<scene, row, rcpt>>
          /\ up' = [up EXCEPT ![r][p].off = thr[t].was + 1, ![r][p].stale = FALSE]
      BY <1>1 DEF CommitChunk, KeepVolume, At
    <2>2. r \in Recordings /\ p \in AllParts
      BY <2>1, StateOK DEF Busy
    <2>3. \A x \in Recordings, q \in AllParts : up'[x][q].st = up[x][q].st
      <3>1. up' = [up EXCEPT ![r][p] = [up[r][p] EXCEPT !.off = thr[t].was + 1, !.stale = FALSE]]
        BY <2>1, <2>2 DEF TypeInv, RowType
      <3>2. [up[r][p] EXCEPT !.off = thr[t].was + 1, !.stale = FALSE].st = up[r][p].st
        BY <2>2, RowOK DEF UploadRow
      <3>3. PICK w : up' = [up EXCEPT ![r][p] = w] /\ w.st = up[r][p].st
        BY <3>1, <3>2
      <3> HIDE DEF r, p
      <3>4. up'[r][p] = w
        BY <2>2, <3>3 DEF TypeInv, RowType
      <3>5. \A q \in AllParts \ {p} : up'[r][q] = up[r][q]
        BY <2>2, <3>3, UploadChanges
      <3>6. \A x \in Recordings \ {r} : up'[x] = up[x]
        BY <2>2, <3>3, UploadChanges
      <3> QED
        BY <3>3, <3>4, <3>5, <3>6
    <2>4. /\ thr'[t].at # "finalized" /\ thr'[t].lock = {} /\ ~thr'[t].policy /\ Promised(t)'
          /\ \A u \in Threads \ {t} : thr'[u] = thr[u]
      BY <2>1, Committed
    <2> QED
      BY <2>1, <2>3, <2>4, PlainRows
  <1>2. ASSUME NEW r \in Recordings, NEW p \in AllParts, GrowStale(r, p)
        PROVE  QuotaInv'
    <2>1. up' = [up EXCEPT ![r][p].stale = TRUE] /\ UNCHANGED <<scene, row, rcpt, thr>>
      BY <1>2 DEF GrowStale
    <2>2. \A x \in Recordings, q \in AllParts : up'[x][q].st = up[x][q].st
      BY <2>1 DEF TypeInv, RowType, UploadRow
    <2>3. "admin" \in Threads
      BY Fixed
    <2> QED
      BY <2>1, <2>2, <2>3, PlainRows
  <1>3. ASSUME NEW t \in Clients, NEW r \in Recordings, NEW kind \in {"conversation", "audit"},
               OpenSegmented(t, r, kind)
        PROVE  QuotaInv'
    <2>1. /\ t \in Threads /\ Kind(r) = kind /\ row' = [row EXCEPT ![r].status = "uploading"]
          /\ UNCHANGED <<scene, up, rcpt, thr>>
      BY <1>3, Fixed DEF OpenSegmented, KeepVolume
    <2>2. \A x \in Recordings : /\ row'[x].media = row[x].media
                                /\ Kind(x) = "continuous" => row'[x].status = row[x].status
                                /\ row'[x].status = "ready" => row[x].status = "ready"
      BY <2>1 DEF TypeInv, RowType, RecordingRow
    <2> QED
      BY <2>1, <2>2, PlainRows
  <1> QED
    BY <1>1, <1>2, <1>3 DEF CreateConversation, CreateSession

\* A commit of an upload uses the room that was reserved for it; nobody else has
\* reserved any.
LEMMA CommitUploadQuota ==
    ASSUME TypeInv, QuotaInv, NEW t \in Threads, CommitUpload(t)
    PROVE  QuotaInv'
  <1> DEFINE r == thr[t].r  p == thr[t].p
             v == [st |-> "uploading", off |-> 0, dir |-> thr[t].f, stale |-> FALSE]
  <1>1. /\ thr[t].at = "reserved" /\ ~KeyExists(t) /\ Done(t) /\ scene' = scene
        /\ up' = [up EXCEPT ![r][p] = v]
        /\ row' = IF Segmented(r) THEN row ELSE [row EXCEPT ![r].status = "uploading"]
        /\ rcpt' = IF Kind(r) = "continuous" THEN [rcpt EXCEPT ![r] = "uploading"] ELSE rcpt
    BY DEF CommitUpload, KeepVolume, At
  <1>2. r \in Recordings /\ p \in AllParts
    BY <1>1, StateOK DEF Busy
  <1>3. /\ thr'[t].at # "finalized" /\ thr'[t].lock = {} /\ ~thr'[t].policy /\ Promised(t)'
        /\ \A u \in Threads \ {t} : thr'[u] = thr[u]
    BY <1>1, Committed
  <1>4. /\ up'[r][p].st = "uploading" /\ \A q \in AllParts \ {p} : up'[r][q] = up[r][q]
        /\ \A x \in Recordings \ {r} : up'[x] = up[x]
    <2>1. up' = [up EXCEPT ![r][p] = v] /\ v.st = "uploading"
      BY <1>1
    <2>2. up'[r][p].st = "uploading"
      BY <1>2, <2>1 DEF TypeInv, RowType
    <2>3. \A q \in AllParts \ {p} : up'[r][q] = up[r][q]
      BY <1>2, <2>1, UploadChanges
    <2>4. \A x \in Recordings \ {r} : up'[x] = up[x]
      BY <1>2, <2>1, UploadChanges
    <2> QED
      BY <2>1, <2>2, <2>3, <2>4
  <1> HIDE DEF v
  <1>5. /\ \A x \in Recordings : row'[x].media = row[x].media
        /\ \A x \in Recordings \ {r} : row'[x].status = row[x].status /\ rcpt'[x] = rcpt[x]
        /\ (~Segmented(r) => row'[r].status = "uploading")
        /\ (row'[r].status = "ready" => row[r].status = "ready")
        /\ (Kind(r) # "continuous" => rcpt' = rcpt) /\ (Kind(r) = "continuous" => rcpt'[r] = "uploading")
    BY <1>1, <1>2 DEF TypeInv, RowType, RecordingRow
  <1>6. /\ RoomReserved(t) /\ thr[t].policy /\ Total + Size(r) <= Quota /\ p \in Parts(r)
        /\ (Kind(r) = "continuous" => thr[t].was = "absent") /\ (~Segmented(r) => p = 0)
    BY <1>1 DEF QuotaInv, Promised, RoomReserved
  <1>7. Kind(r) = "continuous" => row[r].status = "absent" /\ rcpt[r] = "none" /\ ~Segmented(r)
    BY <1>1, <1>2, <1>6 DEF KeyExists, QuotaInv, ReceiptRows, Segmented
  <1>8. \A x \in Recordings : /\ Kind(x)' = Kind(x) /\ Segmented(x)' = Segmented(x)
                              /\ Parts(x)' = Parts(x) /\ Size(x)' = Size(x)
                              /\ SegmentLocks(x)' = SegmentLocks(x) /\ Parts(x) \subseteq AllParts
    BY <1>1, SceneKept, PartsOK DEF TypeInv
  <1>9. SpareParts' /\ Total' <= Quota'
    <2>1. \A x \in Recordings \ {r} : Bytes(x)' <= Bytes(x)
      BY <1>1, <1>4, <1>5, SameBytes
    <2>2. /\ Reserved(r, 0) \in {0, Size(r)} /\ Reserved(r, 1) \in {0, Size(r)}
          /\ Size(r) \in {1, 2} /\ Weight(r) \in Nat
          /\ Bytes(r) = Weight(r) + Reserved(r, 0) + Reserved(r, 1)
      BY <1>2, BytesOK, Fixed
    <2>3. ASSUME NEW x \in Recordings, x = r
          PROVE  Bytes(x)' <= Bytes(x) + Size(x)
      <3>1. /\ Reserved(x, 0)' \in {0, Size(x)'} /\ Reserved(x, 1)' \in {0, Size(x)'}
            /\ Weight(x)' \in Nat /\ Size(x)' = Size(x)
            /\ Bytes(x)' = Weight(x)' + Reserved(x, 0)' + Reserved(x, 1)'
        BY <1>1, <1>8, BytesNext, Fixed
      <3>2. Weight(x)' <= Weight(x)
        BY <1>1, <1>5, <2>3, SameWeight
      <3>3. \A q \in AllParts \ {p} : Reserved(x, q)' = Reserved(x, q)
        BY <1>4, <1>8, <2>3 DEF Reserved
      <3>4. CASE p = 0
        BY <2>2, <2>3, <3>1, <3>2, <3>3, <3>4, Fixed
      <3>5. CASE p = 1
        BY <2>2, <2>3, <3>1, <3>2, <3>3, <3>5, Fixed
      <3> QED
        BY <1>2, <3>4, <3>5, Fixed
    <2>4. \A x \in Recordings : Bytes(x)' \in Nat /\ Bytes(x) \in Nat /\ Size(x) \in Nat
      BY <1>1, BytesOK, BytesNext
    <2>5. Total' <= Total + Size(r)
      <3>1. CASE r = "target"
        <4>1. Bytes("target")' <= Bytes("target") + Size("target") /\ Bytes("other")' <= Bytes("other")
          BY <2>1, <2>3, <3>1, Fixed
        <4> QED
          BY <1>1, <2>4, <3>1, <4>1, BytesOK, BytesNext, Fixed
      <3>2. CASE r = "other"
        <4>1. Bytes("other")' <= Bytes("other") + Size("other") /\ Bytes("target")' <= Bytes("target")
          BY <2>1, <2>3, <3>2, Fixed
        <4> QED
          BY <1>1, <2>4, <3>2, <4>1, BytesOK, BytesNext, Fixed
      <3> QED
        BY <1>2, <3>1, <3>2, Fixed
    <2>6. Quota' = Quota /\ Quota \in Nat /\ Total \in Nat /\ Total' \in Nat
      BY <1>1, SceneKept, SceneOK, BytesOK, BytesNext, Fixed DEF TypeInv, Quota
    <2>7. SpareParts'
      BY <1>2, <1>4, <1>6, <1>8 DEF QuotaInv, SpareParts
    <2> QED
      BY <1>2, <1>6, <2>4, <2>5, <2>6, <2>7
  <1>10. ASSUME NEW u \in Threads \ {t}
         PROVE  Promised(u)'
    <2>1. Promised(u) /\ thr'[u] = thr[u] /\ ~thr[u].policy
      BY <1>3, <1>6, <1>10 DEF QuotaInv, LocksHeld
    <2>2. /\ thr[u].p \in AllParts /\ 0 \in AllParts
          /\ (thr[u].at \in Busy => thr[u].r \in Recordings)
      BY <1>10, StateOK, Fixed
    <2>3. RoomReserved(u)'
      BY <1>8, <2>1, <2>2 DEF Promised, RoomReserved, Busy
    <2>4. SourceHeld(u)'
      <3>1. \A x \in Recordings, q \in AllParts :
               up[x][q].st \in Counted => up'[x][q].st \in Counted
        BY <1>2, <1>4 DEF Counted
      <3>2. \A x \in Recordings : ~Segmented(x) /\ up[x][0].st = "uploading" =>
               up'[x][0].st = "uploading"
        BY <1>1, <1>2, <1>4, <1>6, <2>2 DEF KeyExists
      <3> QED
        BY <1>8, <2>1, <2>2, <3>1, <3>2 DEF Promised, SourceHeld, Busy
    <2>5. RemovalSpares(u)'
      BY <1>1, <1>2, <1>5, <1>7, <1>10, <2>1, SparesKept DEF Promised
    <2>6. ReceiptHeld(u)'
      BY <1>2, <1>5, <1>7, <1>8, <2>1, <2>2 DEF Promised, ReceiptHeld, Busy
    <2> QED
      BY <2>3, <2>4, <2>5, <2>6 DEF Promised
  <1>11. ReceiptRows'
    <2>1. \A x \in Recordings \ {r} : rcpt'[x] = rcpt[x] /\ row'[x].status = row[x].status
                                      /\ up'[x][0].st = up[x][0].st
      BY <1>4, <1>5
    <2>2. Kind(r) = "continuous" =>
             rcpt'[r] = "uploading" /\ row'[r].status = "uploading" /\ up'[r][0].st = "uploading"
      BY <1>4, <1>5, <1>6, <1>7
    <2>3. Kind(r) # "continuous" => rcpt'[r] = rcpt[r]
      BY <1>5
    <2> QED
      BY <1>2, <1>8, <2>1, <2>2, <2>3 DEF ReceiptRows, QuotaInv
  <1>12. NamesApart'
    <2>1. \A u \in Threads : thr'[u].at = "finalized" => thr'[u] = thr[u]
      BY <1>3
    <2> QED
      BY <1>5, <2>1 DEF NamesApart, QuotaInv
  <1>13. LocksHeld'
    BY <1>3, LocksTaken DEF QuotaInv
  <1> QED
    BY <1>3, <1>9, <1>10, <1>11, <1>12, <1>13 DEF QuotaInv


\* Uploads that a thread has locked change under nobody else.
LEMMA SourceLocked ==
    ASSUME TypeInv, scene' = scene, NEW u \in Threads, thr'[u] = thr[u], SourceHeld(u),
           \A x \in Recordings, q \in AllParts :
              \/ up'[x][q].st = up[x][q].st
              \/ UpLock(x, q) \notin thr[u].lock
              \/ Kind(x) = "continuous"
    PROVE  SourceHeld(u)'
  <1>1. \A r \in Recordings : /\ Kind(r)' = Kind(r) /\ Segmented(r)' = Segmented(r)
                              /\ Parts(r)' = Parts(r) /\ SegmentLocks(r)' = SegmentLocks(r)
                              /\ Parts(r) \subseteq AllParts
                              /\ (Segmented(r) => Kind(r) # "continuous")
    BY SceneKept, PartsOK DEF TypeInv
  <1>2. thr[u].p \in AllParts /\ 0 \in AllParts /\ (thr[u].at \in Busy => thr[u].r \in Recordings)
    BY StateOK, Fixed
  <1>3. \A r \in Recordings : \A p \in Parts(r) : UpLock(r, p) \in SegmentLocks(r)
    BY DEF SegmentLocks
  <1>4. CASE thr[u].at \in {"finalizing", "finalized", "assembling", "verifying"}
    <2> DEFINE r == thr[u].r
    <2>1. r \in Recordings /\ Kind(r) # "continuous"
      BY <1>1, <1>2, <1>4 DEF Busy, SourceHeld
    <2>2. \A q \in AllParts : UpLock(r, q) \in thr[u].lock => up'[r][q].st = up[r][q].st
      BY <2>1
    <2>3. thr[u].at \in {"finalizing", "finalized"} /\ ~Segmented(r) => up'[r][0].st = "uploading"
      BY <1>2, <2>2 DEF SourceHeld
    <2>4. thr[u].at \in {"assembling", "finalized"} /\ Segmented(r) =>
             \A p \in Parts(r) : up'[r][p].st \in Counted
      BY <1>1, <1>3, <2>1, <2>2 DEF SourceHeld
    <2>5. thr[u].at = "verifying" => up'[r][thr[u].p].st \in Counted
      BY <1>2, <2>2 DEF SourceHeld
    <2> QED
      BY <1>1, <2>1, <2>3, <2>4, <2>5 DEF SourceHeld
  <1>5. CASE thr[u].at \notin {"finalizing", "finalized", "assembling", "verifying"}
    BY <1>5 DEF SourceHeld
  <1> QED
    BY <1>4, <1>5

\* A recording becomes ready: its media takes the place of what was reserved for
\* it, and there is room for it.
LEMMA ReadyQuota ==
    ASSUME TypeInv, QuotaInv, NEW t \in Threads, NEW r \in Recordings, thr[t].at = "finalized",
           r = thr[t].r, scene' = scene, rcpt' = rcpt,
           thr'[t].at # "finalized", thr'[t].lock = {}, ~thr'[t].policy, Promised(t)',
           \A u \in Threads \ {t} : thr'[u] = thr[u],
           row'[r].media = thr[t].f, \A x \in Recordings \ {r} : row'[x] = row[x],
           \A x \in Recordings \ {r} : up'[x] = up[x],
           \A q \in AllParts : up'[r][q].st = up[r][q].st \/ UpLock(r, q) \in thr[t].lock,
           \A q \in AllParts : up'[r][q].st \notin Counted,
           Full(r) <= Reserved(r, 0) + Reserved(r, 1)
    PROVE  QuotaInv'
  <1>1. Kind(r) # "continuous"
    BY DEF QuotaInv, Promised, SourceHeld
  <1>2. Total' <= Quota /\ thr[t].policy
    <2>1. thr[t].policy /\ Total + MediaSize(r) <= Quota + Full(r)
      BY DEF QuotaInv, Promised, RoomReserved
    <2>2. \A x \in Recordings \ {r} : Bytes(x)' <= Bytes(x)
      BY SameBytes
    <2>3. /\ Reserved(r, 0)' = 0 /\ Reserved(r, 1)' = 0 /\ Weight(r)' \in Nat
          /\ Weight(r)' <= MediaSize(r) /\ Bytes(r)' = Weight(r)' + Reserved(r, 0)' + Reserved(r, 1)'
      BY BytesNext, Fixed DEF Reserved, Counted
    <2>4. /\ Size(r) \in {1, 2} /\ Reserved(r, 0) \in {0, Size(r)} /\ Reserved(r, 1) \in {0, Size(r)}
          /\ Weight(r) \in Nat /\ MediaSize(r) \in Nat /\ Full(r) \in {1, 2}
          /\ Bytes(r) = Weight(r) + Reserved(r, 0) + Reserved(r, 1)
      BY BytesOK, Fixed
    <2>5. Bytes(r)' <= MediaSize(r) /\ Full(r) <= Bytes(r)
      BY <2>3, <2>4
    <2>6. /\ Total = Bytes("target") + Bytes("other")
          /\ Total' = Bytes("target")' + Bytes("other")' /\ Quota \in Nat
          /\ \A x \in Recordings : Bytes(x) \in Nat /\ Bytes(x)' \in Nat
      BY BytesOK, BytesNext, SceneOK DEF TypeInv, Quota
    <2>7. PICK x \in Recordings \ {r} : Total = Bytes(r) + Bytes(x) /\ Total' = Bytes(r)' + Bytes(x)'
      <3>1. CASE r = "target"
        BY <2>6, <3>1, Fixed
      <3>2. CASE r = "other"
        BY <2>6, <3>2, Fixed
      <3> QED
        BY <3>1, <3>2, Fixed
    <2> QED
      BY <2>1, <2>2, <2>4, <2>5, <2>6, <2>7
  <1>a. \A x \in Recordings : \A q \in AllParts \ Parts(x) :
           up'[x][q].st \in Counted => up[x][q].st \in Counted
    OBVIOUS
  <1>3. ASSUME NEW u \in Threads \ {t}
        PROVE  SourceHeld(u)' /\ RemovalSpares(u)' /\ ReceiptHeld(u)'
    <2>1. SourceHeld(u) /\ RemovalSpares(u) /\ ReceiptHeld(u) /\ thr'[u] = thr[u]
      BY <1>3 DEF QuotaInv, Promised
    <2>2. thr[t].lock \cap thr[u].lock = {}
      BY <1>3 DEF QuotaInv, LocksHeld
    <2>3. \A x \in Recordings, q \in AllParts :
             up'[x][q].st = up[x][q].st \/ UpLock(x, q) \notin thr[u].lock
      BY <2>2
    <2>4. SourceHeld(u)'
      BY <1>3, <2>1, <2>3, SourceLocked
    <2>5. RemovalSpares(u)'
      BY <1>1, <1>3, <2>1, SparesKept
    <2>6. ReceiptHeld(u)'
      BY <1>3, <2>1, ReceiptKept
    <2> QED
      BY <2>4, <2>5, <2>6
  <1>4. ReceiptRows'
    <2>1. \A x \in Recordings : Kind(x)' = Kind(x)
      BY SceneKept
    <2> QED
      BY <1>1, <2>1 DEF ReceiptRows, QuotaInv
  <1>5. NamesApart'
    <2>1. \A u \in Threads : thr'[u].at = "finalized" => thr'[u] = thr[u] /\ u # t
      OBVIOUS
    <2>2. \A x \in Recordings : row[x].media # thr[t].f
      BY DEF NamesApart, QuotaInv
    <2>3. \A x, y \in Recordings :
             x # y /\ row'[x].media # None => row'[x].media # row'[y].media
      BY <2>2 DEF NamesApart, QuotaInv
    <2>4. \A u \in Threads : thr'[u].at = "finalized" =>
             \A x \in Recordings : row'[x].media # thr'[u].f
      BY <2>1 DEF NamesApart, QuotaInv
    <2> QED
      BY <2>1, <2>3, <2>4 DEF NamesApart, QuotaInv
  <1> QED
    BY <1>2, <1>a, <1>3, <1>4, <1>5, RowsQuota

\* The commits that make a recording ready.
LEMMA CommitReadyQuota ==
    ASSUME TypeInv, QuotaInv, NEW t \in Threads, CommitReady(t)
    PROVE  QuotaInv'
  <1>1. PICK r : r = thr[t].r
    OBVIOUS
  <1>2. /\ thr[t].at = "finalized" /\ Kind(r) = "voicemail" /\ UNCHANGED <<scene, rcpt>>
        /\ row' = [row EXCEPT ![r] = [status |-> "ready", media |-> thr[t].f]]
        /\ up' = [up EXCEPT ![r][0] = NoUpload]
        /\ \E x, G : Goto(t, [Idle EXCEPT !.at = "tidying", !.r = x, !.gone = G])
    BY <1>1 DEF CommitReady, KeepVolume, At
  <1>3. r \in Recordings /\ 0 \in AllParts
    BY <1>1, <1>2, StateOK, Fixed DEF Busy
  <1>4. /\ thr'[t].at # "finalized" /\ thr'[t].lock = {} /\ ~thr'[t].policy /\ Promised(t)'
        /\ \A u \in Threads \ {t} : thr'[u] = thr[u]
    BY <1>2, Committed
  <1>5. /\ up'[r][0] = NoUpload /\ \A q \in AllParts \ {0} : up'[r][q] = up[r][q]
        /\ \A x \in Recordings \ {r} : up'[x] = up[x]
    <2>1. up' = [up EXCEPT ![r][0] = NoUpload]
      BY <1>2
    <2>2. up'[r][0] = NoUpload
      BY <1>3, <2>1 DEF TypeInv, RowType
    <2>3. \A q \in AllParts \ {0} : up'[r][q] = up[r][q]
      BY <1>3, <2>1, UploadChanges
    <2>4. \A x \in Recordings \ {r} : up'[x] = up[x]
      BY <1>3, <2>1, UploadChanges
    <2> QED
      BY <2>2, <2>3, <2>4
  <1>6. /\ row'[r].media = thr[t].f /\ \A x \in Recordings \ {r} : row'[x] = row[x]
    BY <1>2, <1>3 DEF TypeInv, RowType
  <1>7. ~Segmented(r) /\ UpLock(r, 0) \in thr[t].lock /\ up[r][0].st = "uploading"
    BY <1>1, <1>2 DEF QuotaInv, Promised, SourceHeld, Segmented
  <1>8. /\ \A q \in AllParts : up'[r][q].st \notin Counted
        /\ Full(r) <= Reserved(r, 0) + Reserved(r, 1)
    <2>1. Parts(r) = {0}
      BY <1>7 DEF Parts
    <2>2. \A q \in AllParts : up'[r][q].st \notin Counted
      BY <1>3, <1>5, <2>1 DEF QuotaInv, SpareParts, NoUpload, Counted
    <2>3. Reserved(r, 0) = 2 /\ Reserved(r, 1) \in {0, 2} /\ Full(r) = 2
      BY <1>7 DEF Reserved, Size, Full
    <2> QED
      BY <2>2, <2>3
  <1>9. \A q \in AllParts : up'[r][q].st = up[r][q].st \/ UpLock(r, q) \in thr[t].lock
    BY <1>5, <1>7
  <1> QED
    BY <1>1, <1>2, <1>3, <1>4, <1>5, <1>6, <1>8, <1>9, ReadyQuota

\* Assembled media takes the place of its segments' reservations.
LEMMA CommitAssembledQuota ==
    ASSUME TypeInv, QuotaInv, NEW t \in Threads, CommitAssembled(t)
    PROVE  QuotaInv'
  <1>1. PICK r : r = thr[t].r
    OBVIOUS
  <1>2. /\ thr[t].at = "finalized" /\ Segmented(r) /\ UNCHANGED <<scene, rcpt>>
        /\ row' = [row EXCEPT ![r] = [status |-> "ready", media |-> thr[t].f]]
        /\ \E x, G : Goto(t, [Idle EXCEPT !.at = "tidying", !.r = x, !.gone = G])
    BY <1>1 DEF CommitAssembled, KeepVolume, At
  <1>3. r \in Recordings /\ 0 \in AllParts /\ 0 \in Parts(r) /\ Parts(r) \subseteq AllParts
    BY <1>1, <1>2, StateOK, PartsOK, Fixed DEF Busy, TypeInv
  <1>4. /\ thr'[t].at # "finalized" /\ thr'[t].lock = {} /\ ~thr'[t].policy /\ Promised(t)'
        /\ \A u \in Threads \ {t} : thr'[u] = thr[u]
    BY <1>2, Committed
  <1>5. /\ \A p \in Parts(r) : up'[r][p].st = "assembled"
        /\ \A p \in AllParts \ Parts(r) : up'[r][p] = up[r][p]
        /\ \A x \in Recordings \ {r} : up'[x] = up[x]
    <2>1. up' = [up EXCEPT ![r] = [p \in AllParts |->
             IF p \in Parts(r) THEN [up[r][p] EXCEPT !.st = "assembled"] ELSE up[r][p]]]
      BY <1>1, <1>3 DEF CommitAssembled, TypeInv, RowType
    <2>2. up'[r] = [p \in AllParts |->
             IF p \in Parts(r) THEN [up[r][p] EXCEPT !.st = "assembled"] ELSE up[r][p]]
          /\ \A x \in Recordings \ {r} : up'[x] = up[x]
      BY <1>3, <2>1 DEF TypeInv, RowType
    <2>3. \A p \in AllParts : [up[r][p] EXCEPT !.st = "assembled"].st = "assembled"
      BY <1>3, RowOK DEF UploadRow
    <2> QED
      BY <1>3, <2>2, <2>3
  <1>6. row'[r].media = thr[t].f /\ \A x \in Recordings \ {r} : row'[x] = row[x]
    BY <1>2, <1>3 DEF TypeInv, RowType
  <1>7. SegmentLocks(r) \subseteq thr[t].lock /\ \A p \in Parts(r) : up[r][p].st \in Counted
    BY <1>1, <1>2 DEF QuotaInv, Promised, SourceHeld
  <1>8. /\ \A q \in AllParts : up'[r][q].st \notin Counted
        /\ Full(r) <= Reserved(r, 0) + Reserved(r, 1)
    <2>1. \A q \in AllParts : up'[r][q].st \notin Counted
      BY <1>3, <1>5 DEF QuotaInv, SpareParts, Counted
    <2>2. Size(r) = 1 /\ Reserved(r, 0) = 1
      BY <1>2, <1>3, <1>7 DEF Reserved, Size, Counted
    <2>3. Reserved(r, 1) \in {0, 1} /\ (1 \in Parts(r) => Reserved(r, 1) = 1)
      BY <1>7, <2>2 DEF Reserved, Counted
    <2> QED
      BY <1>2, <2>1, <2>2, <2>3 DEF Full
  <1>9. \A q \in AllParts : up'[r][q].st = up[r][q].st \/ UpLock(r, q) \in thr[t].lock
    BY <1>5, <1>7 DEF SegmentLocks
  <1> QED
    BY <1>1, <1>2, <1>3, <1>4, <1>5, <1>6, <1>8, <1>9, ReadyQuota

\* A segment that was verified counts as before, one that was rejected no more.
LEMMA SegmentQuota ==
    ASSUME TypeInv, QuotaInv, NEW t \in Threads, CommitVerified(t) \/ RejectSegment(t)
    PROVE  QuotaInv'
  <1>1. PICK r, p : r = thr[t].r /\ p = thr[t].p
    OBVIOUS
  <1>2. PICK x \in {"verified", "failed"} :
           /\ thr[t].at = "verifying" /\ UNCHANGED <<scene, row, rcpt>>
           /\ up' = [up EXCEPT ![r][p].st = x]
           /\ Done(t) \/ \E y, G : Goto(t, [Idle EXCEPT !.at = "tidying", !.r = y, !.gone = G])
    BY <1>1 DEF CommitVerified, RejectSegment, KeepVolume, At
  <1>3. r \in Recordings /\ p \in AllParts
    BY <1>1, <1>2, StateOK DEF Busy
  <1>4. /\ thr'[t].at # "finalized" /\ thr'[t].lock = {} /\ ~thr'[t].policy /\ Promised(t)'
        /\ \A u \in Threads \ {t} : thr'[u] = thr[u]
    BY <1>2, Committed
  <1>5. /\ up'[r][p].st = x /\ \A q \in AllParts \ {p} : up'[r][q] = up[r][q]
        /\ \A y \in Recordings \ {r} : up'[y] = up[y]
    <2>1. up' = [up EXCEPT ![r][p] = [up[r][p] EXCEPT !.st = x]]
      BY <1>2
    <2>2. [up[r][p] EXCEPT !.st = x].st = x
      BY <1>3, RowOK DEF UploadRow
    <2>3. PICK w : up' = [up EXCEPT ![r][p] = w] /\ w.st = x
      BY <2>1, <2>2
    <2>4. up'[r][p] = w
      BY <1>3, <2>3 DEF TypeInv, RowType
    <2>5. \A q \in AllParts \ {p} : up'[r][q] = up[r][q]
      BY <1>3, <2>3, UploadChanges
    <2>6. \A y \in Recordings \ {r} : up'[y] = up[y]
      BY <1>3, <2>3, UploadChanges
    <2> QED
      BY <2>3, <2>4, <2>5, <2>6
  <1>6. Segmented(r) /\ UpLock(r, p) \in thr[t].lock /\ up[r][p].st \in Counted
    BY <1>1, <1>2 DEF QuotaInv, Promised, SourceHeld
  <1>7. Kind(r) # "continuous"
    BY <1>6 DEF Segmented
  <1>8. Total' <= Total
    <2>1. \A y \in Recordings \ {r} : Bytes(y)' <= Bytes(y)
      BY <1>2, <1>5, SameBytes
    <2>2. Size(r)' = Size(r) /\ Size(r) = 1
      BY <1>2, <1>3, <1>6, SceneKept DEF Size
    <2>3. \A q \in AllParts : Reserved(r, q)' <= Reserved(r, q)
      <3>1. Reserved(r, p) = 1 /\ Reserved(r, p)' \in {0, 1}
        BY <1>6, <2>2 DEF Reserved, Counted
      <3>2. \A q \in AllParts \ {p} : Reserved(r, q)' = Reserved(r, q) /\ Reserved(r, q) \in {0, 1}
        BY <1>5, <2>2 DEF Reserved
      <3> QED
        BY <3>1, <3>2
    <2>4. /\ Weight(r) \in Nat /\ Weight(r)' \in Nat /\ Weight(r)' <= Weight(r)
          /\ Reserved(r, 0) \in {0, Size(r)} /\ Reserved(r, 0)' \in {0, Size(r)'}
          /\ Reserved(r, 1) \in {0, Size(r)} /\ Reserved(r, 1)' \in {0, Size(r)'}
          /\ Bytes(r) = Weight(r) + Reserved(r, 0) + Reserved(r, 1)
          /\ Bytes(r)' = Weight(r)' + Reserved(r, 0)' + Reserved(r, 1)'
      BY <1>2, <1>3, BytesOK, BytesNext, SameWeight, Fixed
    <2>5. Reserved(r, 0)' <= Reserved(r, 0) /\ Reserved(r, 1)' <= Reserved(r, 1)
      BY <2>3, Fixed
    <2>6. Bytes(r)' <= Bytes(r)
      BY <2>2, <2>4, <2>5
    <2> QED
      BY <1>2, <2>1, <2>6, BytesShrink
  <1>a. \A y \in Recordings : \A q \in AllParts \ Parts(y) :
           up'[y][q].st \in Counted => up[y][q].st \in Counted
    BY <1>5, <1>6
  <1>9. ASSUME NEW u \in Threads \ {t}
        PROVE  SourceHeld(u)' /\ RemovalSpares(u)' /\ ReceiptHeld(u)'
    <2>1. SourceHeld(u) /\ RemovalSpares(u) /\ ReceiptHeld(u) /\ thr'[u] = thr[u]
      BY <1>4, <1>9 DEF QuotaInv, Promised
    <2>2. UpLock(r, p) \notin thr[u].lock
      BY <1>6, <1>9 DEF QuotaInv, LocksHeld
    <2>3. \A y \in Recordings, q \in AllParts :
             up'[y][q].st = up[y][q].st \/ UpLock(y, q) \notin thr[u].lock
      BY <1>5, <2>2
    <2>4. SourceHeld(u)'
      BY <1>2, <1>9, <2>1, <2>3, SourceLocked
    <2> QED
      BY <1>2, <1>9, <2>1, <2>4, SparesKept, ReceiptKept
  <1>10. ReceiptRows'
    <2>1. \A y \in Recordings : Kind(y)' = Kind(y)
      BY <1>2, SceneKept
    <2> QED
      BY <1>2, <1>5, <1>7, <2>1 DEF ReceiptRows, QuotaInv
  <1>11. NamesApart'
    BY <1>2, <1>4, NamesKept DEF QuotaInv
  <1> QED
    BY <1>2, <1>4, <1>8, <1>a, <1>9, <1>10, <1>11, RowsQuota


\* The receipt of one continuous recording changes, and its row with it; only
\* the thread that takes the step has a claim on it.
LEMMA ContinuousRows ==
    ASSUME TypeInv, QuotaInv, scene' = scene, NEW t \in Threads, NEW r \in Recordings,
           Kind(r) = "continuous", \A u \in Threads \ {t} : thr'[u] = thr[u],
           \A k \in thr'[t].lock : k \in thr[t].lock, thr'[t].policy => thr[t].policy,
           Promised(t)', thr'[t].at # "finalized",
           \A u \in Threads \ {t} :
              /\ thr[u].at = "resetting" => thr[u].r # r
              /\ thr[u].at \in {"working", "placing", "accepting"} => thr[u].r # r \/ rcpt'[r] = rcpt[r],
           rcpt[r] \notin {"none", "ready"}, rcpt'[r] # "none",
           \A x \in Recordings \ {r} : rcpt'[x] = rcpt[x] /\ row'[x] = row[x] /\ up'[x] = up[x],
           row'[r].media = row[r].media \/ (row'[r].media \notin Given /\ row'[r].media # None),
           row'[r].status # "absent",
           rcpt'[r] # "ready" => row'[r].status \in {"uploading", "processing", "failed"}
                                    /\ up'[r][0].st = "uploading",
           \A q \in AllParts : up'[r][q].st \in Counted => up[r][q].st \in Counted,
           Bytes(r)' <= Bytes(r)
    PROVE  QuotaInv'
  <1>1. Total' <= Total
    <2>1. \A x \in Recordings \ {r} : Bytes(x)' <= Bytes(x)
      BY SameBytes
    <2> QED
      BY <2>1, BytesShrink
  <1>a. \A x \in Recordings : \A q \in AllParts \ Parts(x) :
           up'[x][q].st \in Counted => up[x][q].st \in Counted
    OBVIOUS
  <1>2. ASSUME NEW u \in Threads \ {t}
        PROVE  SourceHeld(u)' /\ RemovalSpares(u)' /\ ReceiptHeld(u)'
    <2>1. SourceHeld(u) /\ RemovalSpares(u) /\ ReceiptHeld(u) /\ thr'[u] = thr[u]
      BY <1>2 DEF QuotaInv, Promised
    <2>2. SourceHeld(u)'
      BY <1>2, <2>1, SourceLocked
    <2>3. RemovalSpares(u)'
      BY <1>2, <2>1, SparesKept
    <2>4. ReceiptHeld(u)'
      BY <1>2, <2>1, SceneKept, StateOK DEF ReceiptHeld, Busy
    <2> QED
      BY <2>2, <2>3, <2>4
  <1>3. ReceiptRows'
    <2>1. \A x \in Recordings : Kind(x)' = Kind(x)
      BY SceneKept
    <2> QED
      BY <2>1 DEF ReceiptRows, QuotaInv
  <1>4. NamesApart'
    <2>1. \A u \in Threads : thr'[u].at = "finalized" => thr'[u] = thr[u] /\ thr[u].f \in Given
      BY StateOK DEF Equipped
    <2>2. \A x \in Recordings : row[x].media \in Given \cup {None}
      BY RowOK DEF Name
    <2>3. \A x, y \in Recordings :
             x # y /\ row'[x].media # None => row'[x].media # row'[y].media
      BY <2>2 DEF NamesApart, QuotaInv
    <2>4. \A u \in Threads : thr'[u].at = "finalized" =>
             \A x \in Recordings : row'[x].media # thr'[u].f
      BY <2>1 DEF NamesApart, QuotaInv
    <2> QED
      BY <2>1, <2>3, <2>4 DEF NamesApart, QuotaInv
  <1> QED
    BY <1>1, <1>a, <1>2, <1>3, <1>4, RowsQuota

\* A request queues a continuous recording.
LEMMA QueueQuota ==
    ASSUME TypeInv, QuotaInv, NEW t \in Clients, NEW r \in Recordings, CompleteContinuous(t, r)
    PROVE  QuotaInv'
  <1>1. /\ t \in Threads /\ t # "worker" /\ Kind(r) = "continuous"
        /\ rcpt[r] \in {"uploading", "retrying"}
        /\ up[r][0].st = "uploading" /\ rcpt' = [rcpt EXCEPT ![r] = "queued"]
        /\ row' = [row EXCEPT ![r].status = "processing"] /\ UNCHANGED <<scene, up, thr>>
    BY Fixed DEF CompleteContinuous, KeepVolume
  <1>2. /\ rcpt'[r] = "queued" /\ row'[r].status = "processing" /\ row'[r].media = row[r].media
        /\ \A x \in Recordings \ {r} : rcpt'[x] = rcpt[x] /\ row'[x] = row[x]
    BY <1>1 DEF TypeInv, RowType, RecordingRow
  <1>3. Bytes(r)' <= Bytes(r)
    BY <1>1, <1>2, SameBytes
  <1>4. \A u \in Threads : /\ thr[u].at = "resetting" => thr[u].r # r
                           /\ thr[u].at \in {"working", "placing", "accepting"} => thr[u].r # r
    BY <1>1 DEF QuotaInv, Promised, ReceiptHeld
  <1>5. Promised(t)' /\ thr'[t].at # "finalized"
    <2>1. thr'[t].at = "idle"
      BY <1>1 DEF CompleteContinuous, MaySend, At
    <2> QED
      BY <1>1, <2>1, NothingPromised DEF Promising
  <1> QED
    BY <1>1, <1>2, <1>3, <1>4, <1>5, ContinuousRows

\* A rejected upload starts again.
LEMMA CommitResetQuota ==
    ASSUME TypeInv, QuotaInv, NEW t \in Threads, CommitReset(t)
    PROVE  QuotaInv'
  <1>1. PICK r : r = thr[t].r
    OBVIOUS
  <1>2. /\ thr[t].at = "resetting" /\ scene' = scene
        /\ up' = [up EXCEPT ![r][0].dir = thr[t].f, ![r][0].off = 0, ![r][0].stale = FALSE]
        /\ rcpt' = [rcpt EXCEPT ![r] = "uploading"] /\ row' = [row EXCEPT ![r].status = "uploading"]
        /\ \E x, G : Goto(t, [Idle EXCEPT !.at = "tidying", !.r = x, !.gone = G])
    BY <1>1 DEF CommitReset, KeepVolume, At
  <1>3. r \in Recordings /\ 0 \in AllParts
    BY <1>1, <1>2, StateOK, Fixed DEF Busy
  <1>4. /\ thr'[t].at # "finalized" /\ thr'[t].lock = {} /\ ~thr'[t].policy /\ Promised(t)'
        /\ \A u \in Threads \ {t} : thr'[u] = thr[u]
    BY <1>2, Committed
  <1>5. Kind(r) = "continuous" /\ rcpt[r] = "invalid" /\ RecLock(r) \in thr[t].lock
    BY <1>1, <1>2 DEF QuotaInv, Promised, ReceiptHeld
  <1>6. up[r][0].st = "uploading"
    BY <1>3, <1>5 DEF QuotaInv, ReceiptRows
  <1>7. /\ rcpt'[r] = "uploading" /\ row'[r].status = "uploading" /\ row'[r].media = row[r].media
        /\ \A x \in Recordings \ {r} : rcpt'[x] = rcpt[x] /\ row'[x] = row[x]
    BY <1>2, <1>3 DEF TypeInv, RowType, RecordingRow
  <1>8. /\ \A q \in AllParts : up'[r][q].st = up[r][q].st
        /\ \A x \in Recordings \ {r} : up'[x] = up[x]
    <2>1. up' = [up EXCEPT ![r][0] =
             [up[r][0] EXCEPT !.dir = thr[t].f, !.off = 0, !.stale = FALSE]]
      BY <1>2, <1>3 DEF TypeInv, RowType
    <2>2. [up[r][0] EXCEPT !.dir = thr[t].f, !.off = 0, !.stale = FALSE].st = up[r][0].st
      BY <1>3, RowOK DEF UploadRow
    <2>3. PICK w : up' = [up EXCEPT ![r][0] = w] /\ w.st = up[r][0].st
      BY <2>1, <2>2
    <2>4. up'[r][0] = w
      BY <1>3, <2>3 DEF TypeInv, RowType
    <2>5. \A q \in AllParts \ {0} : up'[r][q] = up[r][q]
      BY <1>3, <2>3, UploadChanges
    <2>6. \A x \in Recordings \ {r} : up'[x] = up[x]
      BY <1>3, <2>3, UploadChanges
    <2> QED
      BY <2>3, <2>4, <2>5, <2>6
  <1>9. Bytes(r)' <= Bytes(r)
    BY <1>2, <1>3, <1>7, <1>8, SameBytes
  <1>10. \A u \in Threads \ {t} : /\ thr[u].at = "resetting" => thr[u].r # r
                                  /\ thr[u].at \in {"working", "placing", "accepting"} => thr[u].r # r
    <2>1. \A u \in Threads \ {t} : thr[u].at = "resetting" => thr[u].r # r
      BY <1>5 DEF QuotaInv, LocksHeld, Promised, ReceiptHeld
    <2>2. \A u \in Threads : thr[u].at \in {"working", "placing", "accepting"} => thr[u].r # r
      BY <1>5 DEF QuotaInv, Promised, ReceiptHeld
    <2> QED
      BY <2>1, <2>2
  <1>11. \A q \in AllParts : up'[r][q].st \in Counted => up[r][q].st \in Counted
    BY <1>8
  <1>12. up'[r][0].st = "uploading"
    BY <1>3, <1>6, <1>8
  <1> QED
    BY <1>2, <1>3, <1>4, <1>5, <1>7, <1>8, <1>9, <1>10, <1>11, <1>12, ContinuousRows

\* The worker holds the receipt it processes, and what it makes ready takes the
\* place of the upload.
LEMMA WorkerQuota ==
    ASSUME TypeInv, QuotaInv, Worker
    PROVE  QuotaInv'
  <1>a. "worker" \in Threads /\ 0 \in AllParts
    BY Fixed
  <1>b. PICK w : w = thr["worker"]
    OBVIOUS
  <1>c. w.at \in {"working", "placing", "accepting"} =>
           /\ w.r \in Recordings /\ Kind(w.r) = "continuous" /\ rcpt[w.r] = "processing"
           /\ up[w.r][0].st = "uploading"
           /\ row[w.r].status \in {"uploading", "processing", "failed"}
    <2>1. w.at \in {"working", "placing", "accepting"} =>
             w.r \in Recordings /\ Kind(w.r) = "continuous" /\ rcpt[w.r] = "processing"
      BY <1>a, <1>b, StateOK DEF QuotaInv, Promised, ReceiptHeld, Busy
    <2> QED
      BY <2>1 DEF QuotaInv, ReceiptRows
  <1>d. \A r \in Recordings : rcpt[r] = "processing" => \A u \in Threads \ {"worker"} :
           /\ thr[u].at = "resetting" => thr[u].r # r
           /\ thr[u].at \notin {"working", "placing", "accepting"}
    BY DEF QuotaInv, Promised, ReceiptHeld
  <1>1. ASSUME NEW r \in Recordings, ProcessNext(r)
        PROVE  QuotaInv'
    <2> DEFINE s == [Idle EXCEPT !.at = "working", !.r = r, !.p = 0, !.lock = {}]
    <2>1. /\ Goto("worker", s) /\ UNCHANGED <<scene, up>>
          /\ rcpt[r] \in {"queued", "processing", "retrying"}
          /\ rcpt' = [rcpt EXCEPT ![r] = "processing"]
          /\ row' = [row EXCEPT ![r].status = "processing"]
      BY <1>1 DEF ProcessNext, Begin, KeepVolume
    <2>2. s.at = "working" /\ s.r = r /\ s.lock = {} /\ s.policy = FALSE
      BY DEF Idle
    <2>3. thr'["worker"] = s /\ \A u \in Threads \ {"worker"} : thr'[u] = thr[u]
      BY <1>a, <2>1, Moves
    <2> HIDE DEF s
    <2>4. Kind(r) = "continuous" /\ up[r][0].st = "uploading"
      BY <2>1 DEF QuotaInv, ReceiptRows
    <2>5. /\ rcpt'[r] = "processing" /\ row'[r].status = "processing"
          /\ row'[r].media = row[r].media
          /\ \A x \in Recordings \ {r} : rcpt'[x] = rcpt[x] /\ row'[x] = row[x]
      BY <2>1 DEF TypeInv, RowType, RecordingRow
    <2>6. Promised("worker")'
      BY <2>1, <2>2, <2>3, <2>4, <2>5, SceneKept DEF Promised, RoomReserved, SourceHeld,
         RemovalSpares, ReceiptHeld
    <2>7. \A u \in Threads \ {"worker"} :
             /\ thr[u].at = "resetting" => thr[u].r # r
             /\ thr[u].at \notin {"working", "placing", "accepting"}
      BY <2>1 DEF QuotaInv, Promised, ReceiptHeld
    <2>8. Bytes(r)' <= Bytes(r)
      BY <2>1, <2>5, SameBytes
    <2> QED
      BY <1>a, <2>1, <2>2, <2>3, <2>4, <2>5, <2>6, <2>7, <2>8, ContinuousRows
  <1>2. ASSUME ReserveMedia
        PROVE  QuotaInv'
    <2> DEFINE s == [w EXCEPT !.at = "placing", !.f = NewName, !.set = {row[w.r].media} \ {None}]
    <2>1. /\ w.at = "working" /\ Goto("worker", s) /\ CanName /\ UNCHANGED <<scene, up, rcpt>>
          /\ row' = [row EXCEPT ![w.r].media = NewName]
      BY <1>2, <1>b DEF ReserveMedia, At
    <2>2. s.at = "placing" /\ s.r = w.r /\ s.lock = w.lock /\ s.policy = w.policy
      BY <1>a, <1>b, StateOK DEF ThreadState
    <2>3. thr'["worker"] = s /\ \A u \in Threads \ {"worker"} : thr'[u] = thr[u]
      BY <1>a, <2>1, Moves
    <2> HIDE DEF s
    <2>4. NewName \notin Given /\ NewName # None
      BY <2>1, NamesOK, BoundAssumption DEF TypeInv, Names
    <2>5. /\ row'[w.r].status = row[w.r].status /\ row'[w.r].media = NewName
          /\ \A x \in Recordings \ {w.r} : row'[x] = row[x]
      BY <1>c, <2>1 DEF TypeInv, RowType, RecordingRow
    <2>6. Promised("worker")'
      BY <1>c, <2>1, <2>2, <2>3, SceneKept DEF Promised, RoomReserved, SourceHeld, RemovalSpares,
         ReceiptHeld
    <2>7. Bytes(w.r)' <= Bytes(w.r)
      BY <1>c, <2>1, <2>5, SameBytes
    <2> QED
      BY <1>a, <1>b, <1>c, <1>d, <2>1, <2>2, <2>3, <2>4, <2>5, <2>6, <2>7, ContinuousRows
  <1>3. ASSUME PlaceReserved
        PROVE  QuotaInv'
    <2> DEFINE s == [Idle EXCEPT !.at = "accepting", !.r = w.r, !.p = 0, !.lock = {}]
    <2>1. w.at = "placing" /\ Goto("worker", s) /\ UNCHANGED <<scene, rows>>
      BY <1>3, <1>b DEF PlaceReserved, Begin, KeepAll, At
    <2>2. s.at = "accepting" /\ s.r = w.r /\ s.lock = {} /\ s.policy = FALSE
      BY DEF Idle
    <2>3. thr'["worker"] = s /\ \A u \in Threads \ {"worker"} : thr'[u] = thr[u]
      BY <1>a, <2>1, Moves
    <2> HIDE DEF s
    <2>4. Promised("worker")'
      BY <1>c, <2>1, <2>2, <2>3, SceneKept DEF Promised, RoomReserved, SourceHeld, RemovalSpares,
         ReceiptHeld, rows
    <2>5. NamesApart'
      BY <1>a, <2>1, <2>2, <2>3, NamesKept DEF QuotaInv, rows
    <2> QED
      BY <1>a, <2>1, <2>2, <2>4, <2>5, QuietStep
  <1>4. ASSUME Accept
        PROVE  QuotaInv'
    <2>1. /\ w.at = "accepting" /\ scene' = scene
          /\ row' = [row EXCEPT ![w.r].status = "ready"] /\ rcpt' = [rcpt EXCEPT ![w.r] = "ready"]
          /\ up' = [up EXCEPT ![w.r][0] = NoUpload]
          /\ \E x, G : Goto("worker", [Idle EXCEPT !.at = "tidying", !.r = x, !.gone = G])
      BY <1>4, <1>b DEF Accept, KeepVolume, At
    <2>2. /\ thr'["worker"].at # "finalized" /\ thr'["worker"].lock = {} /\ ~thr'["worker"].policy
          /\ Promised("worker")' /\ \A u \in Threads \ {"worker"} : thr'[u] = thr[u]
      BY <1>a, <2>1, Committed
    <2>3. /\ rcpt'[w.r] = "ready" /\ row'[w.r].status = "ready" /\ row'[w.r].media = row[w.r].media
          /\ \A x \in Recordings \ {w.r} : rcpt'[x] = rcpt[x] /\ row'[x] = row[x]
      BY <1>c, <2>1 DEF TypeInv, RowType, RecordingRow
    <2>4. up'[w.r][0] = NoUpload
      BY <1>a, <1>c, <2>1 DEF TypeInv, RowType
    <2>5. \A q \in AllParts \ {0} : up'[w.r][q] = up[w.r][q]
      BY <1>a, <1>c, <2>1, UploadChanges
    <2>6. \A x \in Recordings \ {w.r} : up'[x] = up[x]
      BY <1>a, <1>c, <2>1, UploadChanges
    <2>7. Bytes(w.r)' <= Bytes(w.r)
      <3>1. PICK r \in Recordings : r = w.r
        BY <1>c, <2>1
      <3>2. Kind(r) = "continuous" /\ Size(r)' = Size(r) /\ Size(r) = 2
        BY <1>c, <2>1, <3>1, SceneKept DEF Size, Segmented
      <3>3. Reserved(r, 0) = 2 /\ Reserved(r, 0)' = 0 /\ Reserved(r, 1)' = Reserved(r, 1)
        BY <1>c, <2>1, <2>4, <2>5, <3>1, <3>2, Fixed DEF Reserved, NoUpload
      <3>4. /\ Weight(r) \in Nat /\ Weight(r)' \in Nat /\ Weight(r)' <= Size(r)
            /\ Reserved(r, 1) \in {0, Size(r)}
            /\ Bytes(r) = Weight(r) + Reserved(r, 0) + Reserved(r, 1)
            /\ Bytes(r)' = Weight(r)' + Reserved(r, 0)' + Reserved(r, 1)'
        BY <2>1, <3>2, BytesOK, BytesNext, Fixed
      <3>5. Bytes(r)' <= Bytes(r)
        BY <3>2, <3>3, <3>4
      <3> QED
        BY <3>1, <3>5
    <2>8. \A q \in AllParts : up'[w.r][q].st \in Counted => up[w.r][q].st \in Counted
      BY <2>4, <2>5 DEF NoUpload, Counted
    <2> QED
      BY <1>a, <1>c, <1>d, <2>1, <2>2, <2>3, <2>6, <2>7, <2>8, ContinuousRows
  <1>5. ASSUME NEW x \in {"retrying", "invalid", "needs_attention"}, ProcessFails(x)
        PROVE  QuotaInv'
    <2>1. /\ w.at \in {"working", "placing", "accepting"} /\ Done("worker")
          /\ UNCHANGED <<scene, up>> /\ rcpt' = [rcpt EXCEPT ![w.r] = x]
          /\ row' = [row EXCEPT ![w.r].status = IF x = "retrying" THEN "processing" ELSE "failed"]
      BY <1>5, <1>b DEF ProcessFails, KeepVolume
    <2>2. /\ thr'["worker"].at # "finalized" /\ thr'["worker"].lock = {} /\ ~thr'["worker"].policy
          /\ Promised("worker")' /\ \A u \in Threads \ {"worker"} : thr'[u] = thr[u]
      BY <1>a, <2>1, Committed
    <2>3. /\ rcpt'[w.r] = x /\ row'[w.r].status \in {"processing", "failed"}
          /\ row'[w.r].media = row[w.r].media
          /\ \A y \in Recordings \ {w.r} : rcpt'[y] = rcpt[y] /\ row'[y] = row[y]
      BY <1>c, <2>1 DEF TypeInv, RowType, RecordingRow
    <2>4. Bytes(w.r)' <= Bytes(w.r)
      BY <1>c, <2>1, <2>3, SameBytes
    <2> QED
      BY <1>a, <1>c, <1>d, <2>1, <2>2, <2>3, <2>4, ContinuousRows
  <1> QED
    BY <1>1, <1>2, <1>3, <1>4, <1>5 DEF Worker


\* A removal takes media and uploads away and leaves nothing else.
LEMMA CommitRemovalQuota ==
    ASSUME TypeInv, QuotaInv, NEW t \in Threads, CommitRemoval(t)
    PROVE  QuotaInv'
  <1> DEFINE H == {g[1] : g \in thr[t].gone}
  <1>1. /\ thr[t].at \in {"deleting", "purging"} /\ \A k \in RemovalLocks(t) : Free(t, k)
        /\ CleanupAbandoned(t) /\ UNCHANGED <<scene, rcpt>>
        /\ \E S, G : Goto(t, [Idle EXCEPT !.at = "discarding", !.set = S, !.gone = G])
    BY DEF CommitRemoval
  <1>2. /\ thr'[t].at # "finalized" /\ thr'[t].lock = {} /\ ~thr'[t].policy /\ Promised(t)'
        /\ \A u \in Threads \ {t} : thr'[u] = thr[u]
    BY <1>1, Committed
  <1>3. /\ thr[t].gone \subseteq PartId \X Name /\ thr[t].set \subseteq Given
        /\ None \notin thr[t].set
        /\ RemovalSpares(t)
    BY <1>1, StateOK, NamesOK DEF Equipped, TypeInv, QuotaInv, Promised
  <1>4. \A r \in Recordings, p \in AllParts : <<r, p>> \in H =>
           Kind(r) # "continuous" /\ \A u \in Threads \ {t} : UpLock(r, p) \notin thr[u].lock
    <2>1. ASSUME NEW r \in Recordings, NEW p \in AllParts, <<r, p>> \in H
          PROVE  Kind(r) # "continuous" /\ \A u \in Threads \ {t} : UpLock(r, p) \notin thr[u].lock
      <3>1. PICK g \in thr[t].gone : g[1] = <<r, p>>
        BY <2>1
      <3>2. g[1][1] = r /\ g[1][2] = p
        BY <3>1
      <3>3. UpLock(r, p) \in RemovalLocks(t)
        BY <3>2 DEF RemovalLocks
      <3> QED
        BY <1>1, <1>3, <3>2, <3>3 DEF RemovalSpares, Free
    <2> QED
      BY <2>1
  <1>5. \A r \in Recordings, p \in AllParts :
           /\ <<r, p>> \notin H => up'[r][p] = up[r][p]
           /\ up'[r][p].st \in {up[r][p].st, "none", "failed"}
    <2>1. \A r \in Recordings, p \in AllParts :
             up'[r][p] = IF <<r, p>> \notin H THEN up[r][p]
                         ELSE IF Segmented(r) THEN [up[r][p] EXCEPT !.st = "failed"] ELSE NoUpload
      BY <1>1 DEF CleanupAbandoned
    <2>2. \A r \in Recordings, p \in AllParts : [up[r][p] EXCEPT !.st = "failed"].st = "failed"
      BY RowOK DEF UploadRow
    <2>3. NoUpload.st = "none"
      BY DEF NoUpload
    <2> QED
      BY <2>1, <2>2, <2>3
  <1>6. \A r \in Recordings :
           /\ row'[r].media \in {row[r].media, None}
           /\ row'[r].status = "ready" => row[r].status = "ready"
           /\ Kind(r) = "continuous" => \/ row'[r] = row[r]
                                        \/ row'[r].status = "deleted" /\ rcpt[r] = "ready"
    <2>1. ASSUME NEW r \in Recordings
          PROVE  row'[r] = IF row[r].media \in thr[t].set THEN Tombstone
                           ELSE IF <<r, 0>> \in H /\ ~Segmented(r)
                           THEN [row[r] EXCEPT !.status = "failed"] ELSE row[r]
      BY <1>1, <2>1 DEF CleanupAbandoned
    <2>2. Tombstone.media = None /\ Tombstone.status = "deleted"
      BY DEF Tombstone
    <2>3. \A r \in Recordings : /\ [row[r] EXCEPT !.status = "failed"].status = "failed"
                                /\ [row[r] EXCEPT !.status = "failed"].media = row[r].media
      BY RowOK DEF RecordingRow
    <2>4. \A r \in Recordings : Kind(r) = "continuous" =>
             <<r, 0>> \notin H /\ (row[r].media \in thr[t].set => rcpt[r] = "ready")
      BY <1>1, <1>3, <1>4, Fixed DEF RemovalSpares
    <2> QED
      BY <2>1, <2>2, <2>3, <2>4
  <1> HIDE DEF H
  <1>7. Total' <= Total
    <2>1. ASSUME NEW r \in Recordings
          PROVE  Bytes(r)' <= Bytes(r)
      <3>1. Size(r)' = Size(r) /\ Size(r) \in {1, 2}
        BY <1>1, SceneKept, BytesOK
      <3>2. \A p \in AllParts : Reserved(r, p)' <= Reserved(r, p)
        <4>1. ASSUME NEW p \in AllParts
              PROVE  Reserved(r, p)' <= Reserved(r, p)
          <5>1. /\ Reserved(r, p) = IF up[r][p].st \in Counted THEN Size(r) ELSE 0
                /\ Reserved(r, p)' = IF up'[r][p].st \in Counted THEN Size(r)' ELSE 0
            BY DEF Reserved, Counted
          <5>2. CASE up'[r][p].st = up[r][p].st
            BY <3>1, <5>1, <5>2
          <5>3. CASE up'[r][p].st \in {"none", "failed"}
            <6>1. Reserved(r, p)' = 0
              BY <5>1, <5>3 DEF Counted
            <6>2. Reserved(r, p) \in {0, 1, 2}
              BY <3>1, <5>1
            <6> QED
              BY <6>1, <6>2
          <5> QED
            BY <1>5, <5>2, <5>3
        <4> QED
          BY <4>1
      <3>3. Weight(r)' <= Weight(r)
        BY <1>1, <1>6, SameWeight
      <3>4. /\ Weight(r) \in Nat /\ Weight(r)' \in Nat
            /\ Reserved(r, 0) \in {0, Size(r)} /\ Reserved(r, 0)' \in {0, Size(r)'}
            /\ Reserved(r, 1) \in {0, Size(r)} /\ Reserved(r, 1)' \in {0, Size(r)'}
            /\ Bytes(r) = Weight(r) + Reserved(r, 0) + Reserved(r, 1)
            /\ Bytes(r)' = Weight(r)' + Reserved(r, 0)' + Reserved(r, 1)'
        BY <1>1, BytesOK, BytesNext, Fixed
      <3>5. Reserved(r, 0)' <= Reserved(r, 0) /\ Reserved(r, 1)' <= Reserved(r, 1)
        BY <3>2, Fixed
      <3> QED
        BY <3>1, <3>3, <3>4, <3>5
    <2> QED
      BY <1>1, <2>1, BytesShrink
  <1>a. \A r \in Recordings : \A p \in AllParts \ Parts(r) :
           up'[r][p].st \in Counted => up[r][p].st \in Counted
    BY <1>5 DEF Counted
  <1>8. ASSUME NEW u \in Threads \ {t}
        PROVE  SourceHeld(u)' /\ RemovalSpares(u)' /\ ReceiptHeld(u)'
    <2>1. SourceHeld(u) /\ RemovalSpares(u) /\ ReceiptHeld(u) /\ thr'[u] = thr[u]
      BY <1>2, <1>8 DEF QuotaInv, Promised
    <2>2. SourceHeld(u)'
      BY <1>1, <1>4, <1>5, <1>8, <2>1, SourceLocked
    <2>3. None \notin Given
      BY NamesOK DEF TypeInv
    <2>4. RemovalSpares(u)'
      BY <1>1, <1>6, <1>8, <2>1, <2>3, SparesKept
    <2>5. ReceiptHeld(u)'
      BY <1>1, <1>8, <2>1, ReceiptKept
    <2> QED
      BY <2>2, <2>4, <2>5
  <1>9. ReceiptRows'
    <2>1. \A r \in Recordings : Kind(r)' = Kind(r) /\ rcpt'[r] = rcpt[r]
      BY <1>1, SceneKept
    <2>2. \A r \in Recordings : Kind(r) = "continuous" => up'[r][0] = up[r][0]
      BY <1>4, <1>5, Fixed
    <2> QED
      BY <1>6, <2>1, <2>2 DEF ReceiptRows, QuotaInv
  <1>10. NamesApart'
    <2>1. \A u \in Threads : thr'[u].at = "finalized" => thr'[u] = thr[u] /\ thr[u].f # None
      BY <1>2, StateOK, NamesOK DEF Equipped, TypeInv
    <2>2. \A x, y \in Recordings :
             x # y /\ row'[x].media # None => row'[x].media # row'[y].media
      BY <1>6 DEF NamesApart, QuotaInv
    <2>3. \A u \in Threads : thr'[u].at = "finalized" =>
             \A x \in Recordings : row'[x].media # thr'[u].f
      BY <1>6, <2>1 DEF NamesApart, QuotaInv
    <2> QED
      BY <2>1, <2>2, <2>3 DEF NamesApart, QuotaInv
  <1> QED
    BY <1>1, <1>2, <1>7, <1>a, <1>8, <1>9, <1>10, RowsQuota

\* Every step keeps the quota's invariant.
LEMMA NextQuota ==
    ASSUME TypeInv, QuotaInv, [Next]_vars
    PROVE  QuotaInv'
  <1>a. /\ Clients \subseteq Threads /\ {"admin", "maintenance", "worker"} \subseteq Threads
        /\ 0 \in AllParts
    BY Fixed
  <1>b. \A r \in Recordings : /\ Kind(r) \in {"conversation", "audit"} => Segmented(r)
                              /\ Kind(r) \in {"conversation", "audit"} => Kind(r) # "continuous"
    BY DEF Segmented
  <1>1. ASSUME NEW t \in Clients, NEW r \in Recordings, Request(t, r)
        PROVE  QuotaInv'
    <2>1. ASSUME CreateRecording(t, r) \/ CreateContinuous(t, r)
          PROVE  QuotaInv'
      <3>1. Kind(r) \in {"voicemail", "continuous"}
        BY <2>1 DEF CreateRecording, CreateContinuous
      <3>2. 0 \in Parts(r)
        BY PartsOK DEF TypeInv
      <3> QED
        BY <1>a, <2>1, <3>1, <3>2, OpeningQuota DEF CreateRecording, CreateContinuous
    <2>2. ASSUME NEW p \in AllParts, CreateConversationSegment(t, r, p) \/ CreateSessionSegment(t, r, p)
          PROVE  QuotaInv'
      <3>1. <<r, p>> \in spool /\ spool \subseteq Captured
        BY <2>2 DEF CreateConversationSegment, CreateSessionSegment, OpenSegment, TypeInv, ServerType
      <3>2. p \in Parts(r)
        BY <3>1, CapturedOK DEF TypeInv
      <3> QED
        BY <1>b, <2>2, <3>2, OpeningQuota
        DEF CreateConversationSegment, CreateSessionSegment, OpenSegment
    <2>3. ASSUME CompleteConversation(t, r) \/ CompleteSession(t, r)
          PROVE  QuotaInv'
      BY <1>a, <1>b, <2>3, AssembleQuota DEF CompleteConversation, CompleteSession
    <2>4. ASSUME NEW off \in Offsets, UploadContent(t, r, off) \/ UploadContinuous(t, r, off)
          PROVE  QuotaInv'
      BY <1>a, <2>4, ChunkQuota DEF UploadContent, UploadContinuous
    <2>5. ASSUME NEW p \in AllParts, NEW off \in Offsets,
                 UploadSegment(t, r, p, off) \/ UploadSessionSegment(t, r, p, off)
          PROVE  QuotaInv'
      BY <2>5, ChunkQuota DEF UploadSegment, UploadSessionSegment
    <2> QED
      BY <1>1, <2>1, <2>2, <2>3, <2>4, <2>5, PlainQuota, CompleteQuota, QueueQuota, ResetQuota
      DEF Request
  <1>2. ASSUME NEW t \in Threads, Continue(t)
        PROVE  QuotaInv'
    <2>1. ASSUME Finalize(t) \/ AssembleConversation(t)
          PROVE  QuotaInv'
      BY <2>1, PlaceQuota DEF Finalize, AssembleConversation, At
    <2>2. ASSUME RefuseUpload(t) \/ FailUpload(t) \/ FailRequest(t) \/ RefuseFinal(t) \/ FailReady(t)
                 \/ Tidy(t) \/ AssemblyFails(t)
          PROVE  QuotaInv'
      <3>1. Done(t) /\ UNCHANGED <<scene, rows>>
        BY <2>2 DEF RefuseUpload, FailUpload, FailRequest, RefuseFinal, FailReady, Tidy,
           AssemblyFails, KeepAll
      <3> QED
        BY <3>1, QuietDone
    <2> QED
      BY <1>2, <2>1, <2>2, ReserveQuota, CommitUploadQuota, PlainQuota, CommitReadyQuota,
         SegmentQuota, CommitAssembledQuota, CommitResetQuota DEF Continue
  <1>3. ASSUME NEW r \in Recordings, RecoverPartial(r)
        PROVE  QuotaInv'
    BY <1>a, <1>b, <1>3, AssembleQuota DEF RecoverPartial
  <1>4. ASSUME Removal
        PROVE  QuotaInv'
    BY <1>a, <1>4, RemovalSteps, CommitRemovalQuota DEF Removal
  <1>5. ASSUME Crash
        PROVE  QuotaInv'
    <2>1. thr' = [t \in Threads |-> Idle] /\ UNCHANGED <<scene, row, up, rcpt>>
      BY <1>5 DEF Crash, rows
    <2>2. Idle.at = "idle" /\ Idle.lock = {} /\ Idle.policy = FALSE
      BY DEF Idle
    <2>3. \A t \in Threads : thr'[t].at = "idle" /\ thr'[t].lock = {} /\ thr'[t].policy = FALSE
      BY <2>1, <2>2
    <2>4. \A t \in Threads : Promised(t)'
      BY <2>3, NothingPromised DEF Promising
    <2>5. LocksHeld' /\ NamesApart'
      BY <2>1, <2>3 DEF LocksHeld, NamesApart, QuotaInv
    <2>6. ReceiptRows' /\ SpareParts' /\ Total' <= Quota'
      BY <2>1, SameTotal DEF QuotaInv, ReceiptRows, Kind
    <2> QED
      BY <2>4, <2>5, <2>6 DEF QuotaInv
  <1>6. ASSUME UNCHANGED <<scene, row, up, rcpt, thr>>
        PROVE  QuotaInv'
    <2>1. \A t \in Threads : Promised(t)'
      BY <1>6, OthersKeep DEF QuotaInv
    <2>2. LocksHeld' /\ NamesApart'
      BY <1>6 DEF LocksHeld, NamesApart, QuotaInv
    <2>3. ReceiptRows' /\ SpareParts' /\ Total' <= Quota'
      BY <1>6, SameTotal DEF QuotaInv, ReceiptRows, Kind
    <2> QED
      BY <2>1, <2>2, <2>3 DEF QuotaInv
  <1>7. ASSUME Tablet
        PROVE  QuotaInv'
    <2>1. ASSUME NEW r \in Recordings, HearAcknowledged(r) \/ HearSegment(r)
          PROVE  QuotaInv'
      BY <1>6, <2>1 DEF HearAcknowledged, HearSegment, rows
    <2> QED
      BY <1>1, <1>7, <2>1 DEF Tablet
  <1>8. CASE UNCHANGED vars
    BY <1>6, <1>8 DEF vars
  <1> QED
    BY <1>a, <1>2, <1>3, <1>4, <1>5, <1>7, <1>8, PlainQuota, MaintenanceQuota, WorkerQuota DEF Next

\* The initial state: one recording at most, and room for it.
LEMMA InitQuota ==
    ASSUME Init
    PROVE  QuotaInv
  <1>1. TypeInv
    BY InitTyped
  <1>2. \A t \in Threads : thr[t].at = "idle" /\ thr[t].lock = {} /\ thr[t].policy = FALSE
    BY DEF Init, Idle
  <1>3. LocksHeld /\ \A t \in Threads : Promised(t)
    BY <1>2 DEF LocksHeld, Promised, RoomReserved, SourceHeld, RemovalSpares, ReceiptHeld
  <1>4. \A r \in Recordings : /\ row[r].status \in {"absent", "ready"} /\ rcpt[r] = "none"
                              /\ row[r].status = "ready" <=> r = "other" /\ scene.other = "kept"
                              /\ row[r].media # None => r = "other"
                              /\ \A p \in AllParts : up[r][p].st = "none"
    BY DEF Init, NoUpload
  <1>5. ReceiptRows
    BY <1>4 DEF ReceiptRows, Kind
  <1>6. NamesApart
    <2>1. \A r, x \in Recordings : r # x /\ row[r].media # None => row[x].media = None
      BY <1>4
    <2> QED
      BY <1>2, <2>1 DEF NamesApart
  <1>7. SpareParts /\ Total <= Quota
    <2>1. Weight("target") = 0 /\ PendingBytes("target") = 0 /\ PendingBytes("other") = 0
      BY <1>4, Fixed DEF Weight, PendingBytes, Reserved
    <2>2. Weight("other") = IF scene.other = "kept" THEN scene.mp3["other"] ELSE 0
      BY <1>4, Fixed DEF Weight, Kind, MediaSize
    <2>3. /\ scene.quota \in Nat /\ scene.mp3["other"] \in Nat
          /\ (scene.other = "kept" => scene.mp3["other"] <= scene.quota)
      BY <1>1, SceneOK, Fixed DEF TypeInv
    <2>4. SpareParts
      BY <1>4 DEF SpareParts, Counted
    <2> QED
      BY <2>1, <2>2, <2>3, <2>4 DEF Total, Bytes, Quota
  <1> QED
    BY <1>3, <1>5, <1>6, <1>7 DEF QuotaInv

\* The quota is never overcommitted, whoever reserves, completes or assembles at
\* the same time and whatever size the encoder's output has: the room that a
\* handler finds under the policy lock is still there when it commits
\* (require_recording_capacity and the completion handlers).  Only the worker of
\* continuous recordings commits without the lock, and what its MP3 takes beyond
\* its reservation is the overdraft.
THEOREM QuotaNeverOvercommitted == Spec => []QuotaKept
  <1>1. Init => TypeInv /\ QuotaInv
    BY InitTyped, InitQuota
  <1>2. TypeInv /\ QuotaInv /\ [Next]_vars => (TypeInv /\ QuotaInv)'
    BY NextTyped, NextQuota
  <1>3. TypeInv /\ QuotaInv => QuotaKept
    <2> SUFFICES ASSUME TypeInv, QuotaInv
                 PROVE  QuotaKept
      OBVIOUS
    <2>1. /\ RecordingUsedBytes({}) = Total + Overdraft /\ Overdraft \in Nat /\ Total \in Nat
          /\ Quota \in Nat /\ Total <= Quota
      BY BytesOK, SceneOK DEF TypeInv, QuotaInv, Quota
    <2> QED
      BY <2>1 DEF QuotaKept
  <1> QED
    BY <1>1, <1>2, <1>3, PTL DEF Spec

----------------------------------------------------------------------------
(* Ready and deleted are final *)

\* Uploads may be abandoned, or requests outlive their clients, but not both.
OneDanger == ~({"late", "stale"} \subseteq scene.dangers)

\* An upload of one piece is open only while its recording is uploading, and
\* only a ready recording names media; a continuous one names it before.
VoicemailRows ==
    \A r \in Recordings : Kind(r) # "continuous" =>
       /\ ~Segmented(r) /\ up[r][0].st # "none" => row[r].status = "uploading"
       /\ row[r].status # "ready" => row[r].media = None

\* Where no upload is abandoned, none is found stale or failed.
NeverStale ==
    "stale" \notin scene.dangers =>
       \A r \in Recordings : Kind(r) # "continuous" =>
          /\ \A p \in AllParts : ~up[r][p].stale
          /\ row[r].status # "failed"

\* A client whose requests end before it sends another is alone with its
\* recording.
Apart ==
    "late" \notin scene.dangers =>
       \A t, u \in Clients : t # u /\ thr[t].r # None => thr[u].r # thr[t].r

\* What still holds of the rows that a thread is about to write.
Stands(t) ==
    LET s == thr[t] IN
    /\ s.at \in {"finalized", "purging"} => s.policy
    /\ s.at \in {"assembling", "finalized"} /\ Segmented(s.r) => row[s.r].status = "uploading"
    /\ s.at \in {"deleting", "purging"} =>
          \A g \in s.gone :
             /\ "stale" \in scene.dangers /\ s.at = "purging"
             /\ ~Segmented(g[1][1]) => row[g[1][1]].status = "uploading"
    /\ s.at \in {"opening", "reserved"} =>
          /\ t \in Clients
          /\ Kind(s.r) = "voicemail" =>
                \/ s.was = "absent"
                \/ s.was = "failed" /\ row[s.r].status = "failed" /\ up[s.r][0].st = "none"

FinalInv ==
    OneDanger /\ VoicemailRows /\ NeverStale /\ Apart /\ \A t \in Threads : Stands(t)

\* What ReadyIsFinal says of a step.
StatusFinal ==
    \A r \in Recordings :
       /\ row[r].status = "ready" => row'[r].status \in {"ready", "deleted"}
       /\ row[r].status = "deleted" => row'[r].status = "deleted"

\* A client takes up another recording only with a request that it may send.
LEMMA ApartKept ==
    ASSUME Apart, scene' = scene, NEW t \in Threads, \A u \in Threads \ {t} : thr'[u] = thr[u],
           t \in Clients => thr'[t].r \in {None, thr[t].r} \/ MaySend(t, thr'[t].r)
    PROVE  Apart'
  <1>1. SUFFICES ASSUME "late" \notin scene.dangers, NEW a \in Clients, NEW b \in Clients, a # b,
                        thr'[a].r # None
                 PROVE  thr'[b].r # thr'[a].r
    BY DEF Apart
  <1>2. Clients \subseteq Threads
    BY Fixed
  <1>3. /\ thr[a].r # None => thr[b].r # thr[a].r
        /\ thr[b].r # None => thr[a].r # thr[b].r
    BY <1>1 DEF Apart
  <1>4. CASE t = a
    BY <1>1, <1>2, <1>3, <1>4 DEF MaySend
  <1>5. CASE t = b
    BY <1>1, <1>2, <1>3, <1>5 DEF MaySend
  <1>6. CASE t # a /\ t # b
    BY <1>2, <1>3, <1>1, <1>6
  <1> QED
    BY <1>4, <1>5, <1>6

\* The kinds of recordings.
LEMMA KindsOK ==
    ASSUME TypeInv, NEW r \in Recordings
    PROVE  /\ Kind(r) \in Kinds
           /\ Segmented(r) <=> Kind(r) \in {"conversation", "audit"}
           /\ ~Segmented(r) /\ Kind(r) # "continuous" <=> Kind(r) = "voicemail"
  BY SceneOK DEF TypeInv, Kind, Segmented, Kinds, Recordings

\* A removal names uploads of recordings, and of no continuous one.
LEMMA GoneOK ==
    ASSUME TypeInv, QuotaInv, NEW u \in Threads, thr[u].at \in {"deleting", "purging"},
           NEW g \in thr[u].gone
    PROVE  g[1][1] \in Recordings /\ Kind(g[1][1]) # "continuous"
  <1>1. g \in PartId \X Name
    BY StateOK DEF Equipped
  <1>2. g[1][1] \in Recordings
    BY <1>1 DEF PartId
  <1>3. RemovalSpares(u)
    BY DEF QuotaInv, Promised
  <1> QED
    BY <1>2, <1>3 DEF RemovalSpares

\* What the step of one thread leaves to the others when no recording but a
\* continuous one changes, or a segmented one is opened, and no upload appears.
LEMMA StandsKept ==
    ASSUME TypeInv, QuotaInv, scene' = scene, NEW u \in Threads, thr'[u] = thr[u], Stands(u),
           \A x \in Recordings : Kind(x) # "continuous" =>
              /\ \/ row'[x] = row[x]
                 \/ Segmented(x) /\ row[x].status = "absent"
              /\ ~Segmented(x) /\ up[x][0].st = "none" => up'[x][0].st = "none"
    PROVE  Stands(u)'
  <1>1. \A x \in Recordings : /\ Kind(x)' = Kind(x) /\ Segmented(x)' = Segmented(x)
                              /\ (Segmented(x) => Kind(x) # "continuous")
    BY SceneKept DEF Segmented
  <1>2. PICK s : s = thr[u]
    OBVIOUS
  <1>3. /\ s.at \in Busy => s.r \in Recordings
        /\ s.at \in {"deleting", "purging"} =>
              \A g \in s.gone : g[1][1] \in Recordings /\ Kind(g[1][1]) # "continuous"
    BY <1>2, StateOK, GoneOK
  <1>4. s.at \in {"assembling", "finalized"} /\ Segmented(s.r)' => row'[s.r].status = "uploading"
    BY <1>1, <1>2, <1>3 DEF Stands, Busy
  <1>5. s.at \in {"deleting", "purging"} =>
           \A g \in s.gone :
              /\ "stale" \in scene.dangers /\ s.at = "purging"
              /\ ~Segmented(g[1][1])' => row'[g[1][1]].status = "uploading"
    BY <1>1, <1>2, <1>3 DEF Stands
  <1>6. s.at \in {"opening", "reserved"} =>
           /\ u \in Clients
           /\ Kind(s.r)' = "voicemail" =>
                 \/ s.was = "absent"
                 \/ s.was = "failed" /\ row'[s.r].status = "failed" /\ up'[s.r][0].st = "none"
    <2>1. ASSUME s.at \in {"opening", "reserved"}
          PROVE  /\ u \in Clients
                 /\ Kind(s.r)' = "voicemail" =>
                       \/ s.was = "absent"
                       \/ /\ s.was = "failed" /\ row'[s.r].status = "failed"
                          /\ up'[s.r][0].st = "none"
      <3>1. s.r \in Recordings
        BY <1>3, <2>1 DEF Busy
      <3>2. Kind(s.r) = "voicemail" =>
               /\ ~Segmented(s.r) /\ Kind(s.r) # "continuous"
               /\ \/ s.was = "absent"
                  \/ s.was = "failed" /\ row[s.r].status = "failed" /\ up[s.r][0].st = "none"
        BY <1>2, <2>1, <3>1, KindsOK DEF Stands
      <3>3. u \in Clients
        BY <1>2, <2>1 DEF Stands
      <3> QED
        BY <1>1, <3>1, <3>2, <3>3
    <2> QED
      BY <2>1
  <1>7. s.at \in {"finalized", "purging"} => s.policy
    BY <1>2 DEF Stands
  <1> QED
    BY <1>2, <1>4, <1>5, <1>6, <1>7 DEF Stands

\* A step of one thread that makes no recording ready and removes none.
LEMMA MildStep ==
    ASSUME TypeInv, QuotaInv, FinalInv, scene' = scene, NEW t \in Threads,
           \A u \in Threads \ {t} : thr'[u] = thr[u], thr'[t] = thr[t] \/ Stands(t)',
           t \in Clients => thr'[t].r \in {None, thr[t].r} \/ MaySend(t, thr'[t].r),
           \A x \in Recordings : Kind(x) # "continuous" =>
              /\ \/ row'[x] = row[x]
                 \/ /\ Segmented(x) /\ row[x].status = "absent"
                    /\ row'[x].status = "uploading" /\ row'[x].media = row[x].media
              /\ ~Segmented(x) /\ up[x][0].st = "none" => up'[x][0].st = "none"
              /\ \A p \in AllParts : up'[x][p].stale => up[x][p].stale \/ "stale" \in scene.dangers
    PROVE  FinalInv'
  <1>1. \A x \in Recordings : Kind(x)' = Kind(x) /\ Segmented(x)' = Segmented(x)
    BY SceneKept
  <1>2. \A u \in Threads : Stands(u)'
    BY StandsKept DEF FinalInv
  <1>3. Apart'
    BY ApartKept DEF FinalInv
  <1>4. VoicemailRows'
    BY <1>1 DEF VoicemailRows, FinalInv
  <1>5. NeverStale'
    BY <1>1 DEF NeverStale, FinalInv
  <1>6. OneDanger'
    BY DEF OneDanger, FinalInv
  <1> QED
    BY <1>2, <1>3, <1>4, <1>5, <1>6 DEF FinalInv

\* A thread at any other step relies on no row.
LEMMA NothingStands ==
    ASSUME NEW t \in Threads, thr'[t].at \notin {"opening", "reserved", "assembling", "finalized",
                                                 "deleting", "purging"}
    PROVE  Stands(t)'
  BY DEF Stands

\* A step that changes no row at all.
LEMMA QuietFinal ==
    ASSUME TypeInv, QuotaInv, FinalInv, NEW t \in Threads, NEW s, Goto(t, s),
           UNCHANGED <<scene, row, up>>, Stands(t)',
           t \in Clients => s.r \in {None, thr[t].r} \/ MaySend(t, s.r)
    PROVE  FinalInv' /\ StatusFinal
  <1>1. thr'[t] = s /\ \A u \in Threads \ {t} : thr'[u] = thr[u]
    BY Moves
  <1>2. FinalInv'
    BY <1>1, MildStep
  <1>3. StatusFinal
    BY DEF StatusFinal
  <1> QED
    BY <1>2, <1>3


\* A thread that has committed, or given up, relies on nothing.
LEMMA CommittedFinal ==
    ASSUME TypeInv, NEW t \in Threads,
           \/ Done(t)
           \/ \E G : Goto(t, [Idle EXCEPT !.at = "tidying", !.r = thr[t].r, !.gone = G])
           \/ \E S, G : Goto(t, [Idle EXCEPT !.at = "discarding", !.set = S, !.gone = G])
    PROVE  Stands(t)' /\ thr'[t].r \in {None, thr[t].r} /\ \A u \in Threads \ {t} : thr'[u] = thr[u]
  <1>1. PICK s : /\ Goto(t, s) /\ s.at \in {"idle", "tidying", "discarding"}
                 /\ s.r \in {None, thr[t].r}
    <2>1. CASE Done(t)
      <3>1. Idle.at = "idle" /\ Idle.r = None
        BY DEF Idle
      <3> QED
        BY <2>1, <3>1 DEF Done
    <2>2. ASSUME NEW G, Goto(t, [Idle EXCEPT !.at = "tidying", !.r = thr[t].r, !.gone = G])
          PROVE  \E s : /\ Goto(t, s) /\ s.at \in {"idle", "tidying", "discarding"}
                        /\ s.r \in {None, thr[t].r}
      <3> DEFINE s == [Idle EXCEPT !.at = "tidying", !.r = thr[t].r, !.gone = G]
      <3>1. s.at = "tidying" /\ s.r = thr[t].r
        BY DEF Idle
      <3> QED
        BY <2>2, <3>1
    <2>3. ASSUME NEW S, NEW G, Goto(t, [Idle EXCEPT !.at = "discarding", !.set = S, !.gone = G])
          PROVE  \E s : /\ Goto(t, s) /\ s.at \in {"idle", "tidying", "discarding"}
                        /\ s.r \in {None, thr[t].r}
      <3> DEFINE s == [Idle EXCEPT !.at = "discarding", !.set = S, !.gone = G]
      <3>1. s.at = "discarding" /\ s.r = None
        BY DEF Idle
      <3> QED
        BY <2>3, <3>1
    <2> QED
      BY <2>1, <2>2, <2>3
  <1>2. thr'[t] = s /\ \A u \in Threads \ {t} : thr'[u] = thr[u]
    BY <1>1, Moves
  <1>3. Stands(t)'
    BY <1>1, <1>2, NothingStands
  <1> QED
    BY <1>1, <1>2, <1>3

\* A thread ends without changing a row.
LEMMA DoneFinal ==
    ASSUME TypeInv, QuotaInv, FinalInv, NEW t \in Threads, Done(t), UNCHANGED <<scene, row, up>>
    PROVE  FinalInv' /\ StatusFinal
  <1>1. Stands(t)' /\ Goto(t, Idle) /\ Idle.r = None
    BY CommittedFinal DEF Done, Idle
  <1> QED
    BY <1>1, QuietFinal

\* A creation remembers the row that it read.
LEMMA OpeningFinal ==
    ASSUME TypeInv, QuotaInv, FinalInv, NEW t \in Clients, NEW r \in Recordings, NEW p, NEW w,
           Opening(t, r, p, w),
           Kind(r) = "voicemail" =>
              w = "absent" \/ (w = "failed" /\ row[r].status = "failed" /\ up[r][0].st = "none")
    PROVE  FinalInv' /\ StatusFinal
  <1> DEFINE s == [Idle EXCEPT !.at = "opening", !.was = w, !.r = r, !.p = p]
  <1>1. /\ t \in Threads /\ Goto(t, s) /\ UNCHANGED <<scene, row, up>> /\ MaySend(t, r)
    BY Fixed DEF Opening, KeepAll, rows
  <1>2. s.at = "opening" /\ s.was = w /\ s.r = r
    BY DEF Idle
  <1> HIDE DEF s
  <1>3. thr'[t] = s
    BY <1>1, Moves
  <1>4. Stands(t)'
    BY <1>1, <1>2, <1>3, SceneKept DEF Stands
  <1> QED
    BY <1>1, <1>2, <1>4, QuietFinal

\* A request takes its upload.
LEMMA TakesFinal ==
    ASSUME TypeInv, QuotaInv, FinalInv, NEW t \in Clients, NEW s, Goto(t, s),
           UNCHANGED <<scene, row, up>>, MaySend(t, s.r),
           s.at \in {"storing", "finalizing", "verifying", "resetting"}
    PROVE  FinalInv' /\ StatusFinal
  <1>1. t \in Threads
    BY Fixed
  <1>2. Stands(t)'
    BY <1>1, Moves, NothingStands
  <1> QED
    BY <1>1, <1>2, QuietFinal

\* Completion and verification begin, a chunk is written, an upload is reset.
LEMMA CompleteFinal ==
    ASSUME TypeInv, QuotaInv, FinalInv, NEW t \in Clients, NEW r \in Recordings,
           \/ CompleteRecording(t, r) \/ ResetContinuous(t, r)
           \/ \E p \in AllParts : \/ CompleteConversationSegment(t, r, p)
                                  \/ CompleteSessionSegment(t, r, p)
           \/ \E p \in AllParts, off \in Offsets : \E k : StoreChunk(t, r, p, off, k)
    PROVE  FinalInv' /\ StatusFinal
  <1>1. ASSUME CompleteRecording(t, r)
        PROVE  FinalInv' /\ StatusFinal
    <2> DEFINE s == [Idle EXCEPT !.at = "finalizing", !.r = r, !.p = 0, !.lock = {UpLock(r, 0)}]
    <2>1. Goto(t, s) /\ UNCHANGED <<scene, row, up>> /\ MaySend(t, r)
      BY <1>1 DEF CompleteRecording, Begin, KeepAll, rows
    <2>2. s.at = "finalizing" /\ s.r = r
      BY DEF Idle
    <2> HIDE DEF s
    <2> QED
      BY <2>1, <2>2, TakesFinal
  <1>2. ASSUME NEW p \in AllParts,
               CompleteConversationSegment(t, r, p) \/ CompleteSessionSegment(t, r, p)
        PROVE  FinalInv' /\ StatusFinal
    <2> DEFINE s == [Idle EXCEPT !.at = "verifying", !.r = r, !.p = p, !.lock = {UpLock(r, p)}]
    <2>1. Goto(t, s) /\ UNCHANGED <<scene, row, up>> /\ MaySend(t, r)
      BY <1>2 DEF CompleteConversationSegment, CompleteSessionSegment, VerifySegment, Begin, KeepAll,
         rows
    <2>2. s.at = "verifying" /\ s.r = r
      BY DEF Idle
    <2> HIDE DEF s
    <2> QED
      BY <2>1, <2>2, TakesFinal
  <1>3. ASSUME NEW p \in AllParts, NEW off \in Offsets, NEW k, StoreChunk(t, r, p, off, k)
        PROVE  FinalInv' /\ StatusFinal
    <2> DEFINE s == [Idle EXCEPT !.at = "storing", !.was = off, !.r = r, !.p = p, !.lock = {k}]
    <2>1. Goto(t, s) /\ UNCHANGED <<scene, row, up>> /\ MaySend(t, r)
      BY <1>3 DEF StoreChunk, KeepAll, rows
    <2>2. s.at = "storing" /\ s.r = r
      BY DEF Idle
    <2> HIDE DEF s
    <2> QED
      BY <2>1, <2>2, TakesFinal
  <1>4. ASSUME ResetContinuous(t, r)
        PROVE  FinalInv' /\ StatusFinal
    <2> DEFINE s == [Idle EXCEPT !.at = "resetting", !.r = r, !.f = NewName, !.lock = {RecLock(r)}]
    <2>1. Goto(t, s) /\ UNCHANGED <<scene, row, up>> /\ MaySend(t, r)
      BY <1>4 DEF ResetContinuous, KeepAll, rows
    <2>2. s.at = "resetting" /\ s.r = r
      BY DEF Idle
    <2> HIDE DEF s
    <2> QED
      BY <2>1, <2>2, TakesFinal
  <1> QED
    BY <1>1, <1>2, <1>3, <1>4

\* An assembly begins on a recording that is uploading.
LEMMA AssembleFinal ==
    ASSUME TypeInv, QuotaInv, FinalInv, NEW t \in Threads, NEW r \in Recordings, NEW b,
           Assemble(t, r, b), t \in Clients => MaySend(t, r)
    PROVE  FinalInv' /\ StatusFinal
  <1> DEFINE s == [Idle EXCEPT !.at = "assembling", !.r = r, !.lock = SegmentLocks(r), !.policy = b]
  <1>1. Goto(t, s) /\ UNCHANGED <<scene, row, up>> /\ row[r].status = "uploading"
    BY DEF Assemble, KeepAll, rows
  <1>2. s.at = "assembling" /\ s.r = r
    BY DEF Idle
  <1> HIDE DEF s
  <1>3. Stands(t)'
    BY <1>1, <1>2, Moves DEF Stands
  <1> QED
    BY <1>1, <1>2, <1>3, QuietFinal

\* A reservation keeps what the creation read.
LEMMA ReserveFinal ==
    ASSUME TypeInv, QuotaInv, FinalInv, NEW t \in Threads, ReserveUpload(t)
    PROVE  FinalInv' /\ StatusFinal
  <1> DEFINE s == [thr[t] EXCEPT !.at = "reserved", !.f = NewName, !.policy = TRUE]
  <1>1. thr[t].at = "opening" /\ Goto(t, s) /\ UNCHANGED <<scene, row, up>>
    BY DEF ReserveUpload, KeepAll, rows, At
  <1>2. s.at = "reserved" /\ s.was = thr[t].was /\ s.r = thr[t].r
    BY StateOK DEF ThreadState
  <1> HIDE DEF s
  <1>3. thr'[t] = s /\ thr[t].r \in Recordings
    BY <1>1, Moves, StateOK DEF Busy
  <1>4. Stands(t)'
    BY <1>1, <1>2, <1>3, SceneKept DEF Stands, FinalInv
  <1> QED
    BY <1>1, <1>2, <1>4, QuietFinal

\* Media is placed under the policy lock.
LEMMA PlaceFinal ==
    ASSUME TypeInv, QuotaInv, FinalInv, NEW t \in Threads,
           thr[t].at \in {"finalizing", "assembling"}, PlaceMedia(t)
    PROVE  FinalInv' /\ StatusFinal
  <1> DEFINE s == [thr[t] EXCEPT !.at = "finalized", !.f = NewName, !.policy = TRUE]
  <1>1. Goto(t, s) /\ UNCHANGED <<scene, row, up>>
    BY DEF PlaceMedia, KeepAll, rows
  <1>2. s.at = "finalized" /\ s.r = thr[t].r /\ s.policy
    BY StateOK DEF ThreadState
  <1> HIDE DEF s
  <1>3. thr'[t] = s /\ thr[t].r \in Recordings
    BY <1>1, Moves, StateOK DEF Busy
  <1>4. Segmented(thr[t].r) => thr[t].at = "assembling"
    BY DEF QuotaInv, Promised, SourceHeld
  <1>5. Stands(t)'
    BY <1>1, <1>2, <1>3, <1>4, SceneKept DEF Stands, FinalInv
  <1> QED
    BY <1>1, <1>2, <1>5, QuietFinal

\* The abandoned-upload rule finds recordings that are uploading, and none
\* where no upload is abandoned.
LEMMA PurgeFinal ==
    ASSUME TypeInv, QuotaInv, FinalInv, NEW t \in Threads, t \notin Clients,
           NEW X \in SUBSET Ready, NEW A \in SUBSET Abandoned, PurgeExpired(t, X, A)
    PROVE  FinalInv' /\ StatusFinal
  <1> DEFINE F == {row[r].media : r \in X}
             G == {<<q, up[q[1]][q[2]].dir>> : q \in A}
             s == [Idle EXCEPT !.at = "purging", !.set = F, !.policy = TRUE, !.gone = G]
  <1>1. Goto(t, s) /\ UNCHANGED <<scene, row, up>>
    BY DEF PurgeExpired, rows
  <1>2. s.at = "purging" /\ s.gone = G /\ s.policy = TRUE
    BY DEF Idle
  <1>3. \A g \in G : /\ "stale" \in scene.dangers /\ g[1][1] \in Recordings
                     /\ ~Segmented(g[1][1]) => row[g[1][1]].status = "uploading"
    <2>1. \A q \in A : /\ "stale" \in scene.dangers /\ q[1] \in Recordings
                       /\ ~Segmented(q[1]) => row[q[1]].status = "uploading"
      <3>1. ASSUME NEW q \in A
            PROVE  /\ "stale" \in scene.dangers /\ q[1] \in Recordings
                   /\ ~Segmented(q[1]) => row[q[1]].status = "uploading"
        <4>1. /\ q[1] \in Recordings /\ q[2] \in AllParts /\ q[2] \in Parts(q[1])
              /\ up[q[1]][q[2]].st = "uploading" /\ up[q[1]][q[2]].stale
              /\ Kind(q[1]) # "continuous"
          BY <3>1, CapturedOK DEF Abandoned, TypeInv
        <4>2. ~Segmented(q[1]) => q[2] = 0
          BY <4>1 DEF Parts
        <4> QED
          BY <4>1, <4>2 DEF FinalInv, NeverStale, VoicemailRows
      <3> QED
        BY <3>1
    <2> QED
      BY <2>1
  <1> HIDE DEF s, G
  <1>4. thr'[t] = s
    BY <1>1, Moves
  <1>5. Stands(t)'
    BY <1>1, <1>2, <1>3, <1>4, SceneKept DEF Stands
  <1> QED
    BY <1>1, <1>5, QuietFinal


\* A removal begins, ends or is undone.
LEMMA RemovalFinal ==
    ASSUME TypeInv, QuotaInv, FinalInv,
           \/ (\E r \in Recordings : DeleteRecording(r)) \/ GetSettings \/ PutSettings
           \/ \E t \in Threads : DiscardRemoved(t) \/ FailRemoval(t)
    PROVE  FinalInv' /\ StatusFinal
  <1>a. "admin" \in Threads /\ "admin" \notin Clients
    BY Fixed
  <1>1. ASSUME NEW r \in Recordings, DeleteRecording(r)
        PROVE  FinalInv' /\ StatusFinal
    <2> DEFINE s == [Idle EXCEPT !.at = "deleting", !.set = {row[r].media}, !.lock = {RecLock(r)}]
    <2>1. Goto("admin", s) /\ UNCHANGED <<scene, row, up>>
      BY <1>1 DEF DeleteRecording, rows
    <2>2. s.at = "deleting" /\ s.gone = {}
      BY DEF Idle
    <2> HIDE DEF s
    <2>3. Stands("admin")'
      BY <1>a, <2>1, <2>2, Moves DEF Stands
    <2> QED
      BY <1>a, <2>1, <2>3, QuietFinal
  <1>2. ASSUME GetSettings \/ PutSettings
        PROVE  FinalInv' /\ StatusFinal
    <2>1. PICK X \in SUBSET Ready, A \in SUBSET Abandoned : PurgeExpired("admin", X, A)
      BY <1>2 DEF GetSettings, PutSettings
    <2> QED
      BY <1>a, <2>1, PurgeFinal
  <1>3. ASSUME NEW t \in Threads, DiscardRemoved(t) \/ FailRemoval(t)
        PROVE  FinalInv' /\ StatusFinal
    BY <1>3, DoneFinal DEF DiscardRemoved, FailRemoval, rows
  <1> QED
    BY <1>1, <1>2, <1>3

\* Maintenance changes no row before it applies retention.
LEMMA MaintenanceFinal ==
    ASSUME TypeInv, QuotaInv, FinalInv, Maintenance
    PROVE  FinalInv' /\ StatusFinal
  <1> DEFINE m == thr["maintenance"]
  <1>a. "maintenance" \in Threads /\ "maintenance" \notin Clients /\ m \in ThreadState
    BY Fixed, StateOK
  <1>b. ASSUME NEW l \in Passes, NEW s, Goto("maintenance", s), s.at = l, KeepRows
        PROVE  FinalInv' /\ StatusFinal
    <2>1. UNCHANGED <<scene, row, up>> /\ thr'["maintenance"] = s
      BY <1>a, <1>b, Moves DEF KeepRows, rows
    <2>2. Stands("maintenance")'
      BY <1>a, <1>b, <2>1, NothingStands DEF Passes
    <2> QED
      BY <1>a, <1>b, <2>1, <2>2, QuietFinal
  <1>c. \A l \in Passes : \A S, G : Maintain(l, S, G) /\ KeepRows => FinalInv' /\ StatusFinal
    <2>1. ASSUME NEW l \in Passes, NEW S, NEW G, Maintain(l, S, G), KeepRows
          PROVE  FinalInv' /\ StatusFinal
      <3> DEFINE s == [Idle EXCEPT !.at = l, !.set = S, !.gone = G]
      <3>1. Goto("maintenance", s)
        BY <2>1 DEF Maintain
      <3>2. s.at = l
        BY DEF Idle
      <3> HIDE DEF s
      <3> QED
        BY <1>b, <2>1, <3>1, <3>2
    <2> QED
      BY <2>1
  <1>d. \A l \in Passes : \A f : Judging(l, f) /\ KeepRows => FinalInv' /\ StatusFinal
    <2>1. ASSUME NEW l \in Passes, NEW f, Judging(l, f), KeepRows
          PROVE  FinalInv' /\ StatusFinal
      <3> DEFINE s == [m EXCEPT !.at = l, !.f = f, !.set = @ \ {f}]
      <3>1. Goto("maintenance", s)
        BY <2>1 DEF Judging
      <3>2. s.at = l
        BY <1>a DEF ThreadState
      <3> HIDE DEF s
      <3> QED
        BY <1>b, <2>1, <3>1, <3>2
    <2> QED
      BY <2>1
  <1>e. {"quarantine", "restore", "erase", "root", "unlink", "uploads", "prune"} \subseteq Passes
    BY DEF Passes
  <1>1. ASSUME StartServer \/ HourlyMaintenance \/ SettleQuarantined \/ ScanRoot \/ UnlinkMedia
               \/ ReadActiveNames \/ ListUploads
        PROVE  FinalInv' /\ StatusFinal
    <2>1. KeepRows /\ \E l \in Passes : \E S, G : Maintain(l, S, G)
      BY <1>1, <1>e DEF StartServer, HourlyMaintenance, SettleQuarantined, ScanRoot, UnlinkMedia,
         ReadActiveNames, ListUploads
    <2> QED
      BY <1>c, <2>1
  <1>2. ASSUME NEW f \in Names, JudgeQuarantined(f) \/ JudgeMedia(f)
        PROVE  FinalInv' /\ StatusFinal
    BY <1>2, <1>d, <1>e DEF JudgeQuarantined, JudgeMedia
  <1>3. ASSUME NEW d \in Names, PruneDirectory(d)
        PROVE  FinalInv' /\ StatusFinal
    BY <1>3, <1>c, <1>e DEF PruneDirectory
  <1>4. ASSUME ApplyRetention
        PROVE  FinalInv' /\ StatusFinal
    BY <1>4, <1>a, PurgeFinal DEF ApplyRetention
  <1>5. ASSUME MaintenanceFails
        PROVE  FinalInv' /\ StatusFinal
    BY <1>5, <1>a, DoneFinal DEF MaintenanceFails, KeepRows, rows
  <1> QED
    BY <1>1, <1>2, <1>3, <1>4, <1>5 DEF Maintenance

\* A segmented recording is opened: its row was absent.
LEMMA OpenedFinal ==
    ASSUME TypeInv, QuotaInv, FinalInv, NEW t \in Clients, NEW r \in Recordings,
           CreateConversation(t, r) \/ CreateSession(t, r)
    PROVE  FinalInv' /\ StatusFinal
  <1>1. /\ Segmented(r) /\ row[r].status = "absent" /\ UNCHANGED <<scene, up, thr>>
        /\ row' = [row EXCEPT ![r].status = "uploading"]
    BY DEF CreateConversation, CreateSession, OpenSegmented, KeepVolume, Segmented
  <1>2. /\ row'[r].status = "uploading" /\ row'[r].media = row[r].media
        /\ \A x \in Recordings \ {r} : row'[x] = row[x]
    BY <1>1 DEF TypeInv, RowType, RecordingRow
  <1>3. FinalInv'
    BY <1>1, <1>2, Fixed, MildStep
  <1>4. StatusFinal
    BY <1>1, <1>2 DEF StatusFinal
  <1> QED
    BY <1>3, <1>4

\* Uploads change, none is new, no row changes.
LEMMA UploadsFinal ==
    ASSUME TypeInv, QuotaInv, FinalInv, NEW t \in Threads, UNCHANGED <<scene, row>>,
           Stands(t)' \/ thr'[t] = thr[t], thr'[t].r \in {None, thr[t].r},
           \A u \in Threads \ {t} : thr'[u] = thr[u],
           NEW r \in Recordings, NEW p \in AllParts, NEW w, up' = [up EXCEPT ![r][p] = w],
           up[r][p].st = "none" => w.st = "none", w.stale => up[r][p].stale \/ "stale" \in scene.dangers
    PROVE  FinalInv' /\ StatusFinal
  <1>1. up'[r][p] = w
    BY DEF TypeInv, RowType
  <1>2. \A q \in AllParts \ {p} : up'[r][q] = up[r][q]
    BY UploadChanges
  <1>3. \A x \in Recordings \ {r} : up'[x] = up[x]
    BY UploadChanges
  <1>4. \A x \in Recordings : up[x][0].st = "none" => up'[x][0].st = "none"
    BY <1>1, <1>2, <1>3, Fixed
  <1>5. \A x \in Recordings : \A q \in AllParts :
           up'[x][q].stale => up[x][q].stale \/ "stale" \in scene.dangers
    BY <1>1, <1>2, <1>3
  <1>6. FinalInv'
    BY <1>4, <1>5, MildStep
  <1> QED
    BY <1>6 DEF StatusFinal


\* A day passes, a chunk is committed, a segment is verified or rejected.
LEMMA SegmentFinal ==
    ASSUME TypeInv, QuotaInv, FinalInv,
           \/ \E r \in Recordings, p \in AllParts : GrowStale(r, p)
           \/ \E t \in Threads : CommitChunk(t) \/ CommitVerified(t) \/ RejectSegment(t)
    PROVE  FinalInv' /\ StatusFinal
  <1>1. ASSUME NEW r \in Recordings, NEW p \in AllParts, GrowStale(r, p)
        PROVE  FinalInv' /\ StatusFinal
    <2>1. /\ "stale" \in scene.dangers /\ up[r][p].st = "uploading" /\ UNCHANGED <<scene, row, thr>>
          /\ up' = [up EXCEPT ![r][p] = [up[r][p] EXCEPT !.stale = TRUE]]
      BY <1>1 DEF GrowStale, TypeInv, RowType
    <2>2. PICK w : up' = [up EXCEPT ![r][p] = w]
      BY <2>1
    <2> QED
      BY <2>1, <2>2, Fixed, UploadsFinal
  <1>2. ASSUME NEW t \in Threads, CommitChunk(t)
        PROVE  FinalInv' /\ StatusFinal
    <2>1. PICK r, p : r = thr[t].r /\ p = thr[t].p
      OBVIOUS
    <2>2. /\ thr[t].at = "storing" /\ Done(t) /\ UNCHANGED <<scene, row>>
          /\ up' = [up EXCEPT ![r][p].off = thr[t].was + 1, ![r][p].stale = FALSE]
      BY <1>2, <2>1 DEF CommitChunk, KeepVolume, At
    <2>3. r \in Recordings /\ p \in AllParts /\ up[r][p] \in UploadRow
      BY <2>1, <2>2, StateOK, RowOK DEF Busy
    <2>4. up' = [up EXCEPT ![r][p] = [up[r][p] EXCEPT !.off = thr[t].was + 1, !.stale = FALSE]]
      BY <2>2, <2>3 DEF TypeInv, RowType
    <2>5. /\ [up[r][p] EXCEPT !.off = thr[t].was + 1, !.stale = FALSE].st = up[r][p].st
          /\ [up[r][p] EXCEPT !.off = thr[t].was + 1, !.stale = FALSE].stale = FALSE
      BY <2>3 DEF UploadRow
    <2>6. PICK w : up' = [up EXCEPT ![r][p] = w] /\ w.st = up[r][p].st /\ w.stale = FALSE
      BY <2>4, <2>5
    <2>7. /\ Stands(t)' /\ thr'[t].r \in {None, thr[t].r}
          /\ \A u \in Threads \ {t} : thr'[u] = thr[u]
      BY <2>2, CommittedFinal
    <2>8. /\ up[r][p].st = "none" => w.st = "none"
          /\ w.stale => up[r][p].stale \/ "stale" \in scene.dangers
      BY <2>6
    <2>9. up' = [up EXCEPT ![r][p] = w] /\ UNCHANGED <<scene, row>>
      BY <2>2, <2>6
    <2> QED
      BY <2>3, <2>7, <2>8, <2>9, UploadsFinal
  <1>3. ASSUME NEW t \in Threads, CommitVerified(t) \/ RejectSegment(t)
        PROVE  FinalInv' /\ StatusFinal
    <2>1. PICK r, p : r = thr[t].r /\ p = thr[t].p
      OBVIOUS
    <2>2. PICK x : /\ thr[t].at = "verifying" /\ UNCHANGED <<scene, row>>
                   /\ up' = [up EXCEPT ![r][p].st = x]
                   /\ \/ Done(t)
                      \/ \E G : Goto(t, [Idle EXCEPT !.at = "tidying", !.r = thr[t].r, !.gone = G])
      BY <1>3, <2>1 DEF CommitVerified, RejectSegment, KeepVolume, At
    <2>3. r \in Recordings /\ p \in AllParts /\ up[r][p] \in UploadRow
      BY <2>1, <2>2, StateOK, RowOK DEF Busy
    <2>4. up' = [up EXCEPT ![r][p] = [up[r][p] EXCEPT !.st = x]]
      BY <2>2, <2>3 DEF TypeInv, RowType
    <2>5. [up[r][p] EXCEPT !.st = x].stale = up[r][p].stale
      BY <2>3 DEF UploadRow
    <2>6. PICK w : up' = [up EXCEPT ![r][p] = w] /\ w.stale = up[r][p].stale
      BY <2>4, <2>5
    <2>7. /\ Stands(t)' /\ thr'[t].r \in {None, thr[t].r}
          /\ \A u \in Threads \ {t} : thr'[u] = thr[u]
      BY <2>2, CommittedFinal
    <2>8. up[r][p].st # "none"
      BY <2>1, <2>2 DEF QuotaInv, Promised, SourceHeld, Counted
    <2>9. /\ up[r][p].st = "none" => w.st = "none"
          /\ w.stale => up[r][p].stale \/ "stale" \in scene.dangers
      BY <2>6, <2>8
    <2>10. up' = [up EXCEPT ![r][p] = w] /\ UNCHANGED <<scene, row>>
      BY <2>2, <2>6
    <2> QED
      BY <2>3, <2>7, <2>9, <2>10, UploadsFinal
  <1> QED
    BY <1>1, <1>2, <1>3

\* A continuous recording that is not accepted is neither ready nor deleted, and
\* no other recording changes with it.
LEMMA ContinuousFinal ==
    ASSUME TypeInv, QuotaInv, FinalInv, scene' = scene, NEW t \in Threads,
           Stands(t)' \/ thr'[t] = thr[t], t \in Clients => thr'[t].r \in {None, thr[t].r},
           \A u \in Threads \ {t} : thr'[u] = thr[u],
           NEW r \in Recordings, rcpt[r] \notin {"none", "ready"},
           \A x \in Recordings \ {r} : row'[x] = row[x] /\ up'[x] = up[x]
    PROVE  FinalInv' /\ StatusFinal
  <1>1. Kind(r) = "continuous" /\ row[r].status \in {"uploading", "processing", "failed"}
    BY DEF QuotaInv, ReceiptRows
  <1>2. FinalInv'
    BY <1>1, MildStep
  <1>3. StatusFinal
    BY <1>1 DEF StatusFinal
  <1> QED
    BY <1>2, <1>3

\* A continuous recording is queued, or starts again.
LEMMA QueueFinal ==
    ASSUME TypeInv, QuotaInv, FinalInv,
           \/ \E t \in Clients, r \in Recordings : CompleteContinuous(t, r)
           \/ \E t \in Threads : CommitReset(t)
    PROVE  FinalInv' /\ StatusFinal
  <1>1. ASSUME NEW t \in Clients, NEW r \in Recordings, CompleteContinuous(t, r)
        PROVE  FinalInv' /\ StatusFinal
    <2>1. /\ rcpt[r] \in {"uploading", "retrying"} /\ UNCHANGED <<scene, up, thr>>
          /\ row' = [row EXCEPT ![r].status = "processing"]
      BY <1>1 DEF CompleteContinuous, KeepVolume
    <2>2. t \in Threads /\ \A x \in Recordings \ {r} : row'[x] = row[x] /\ up'[x] = up[x]
      BY <2>1, Fixed DEF TypeInv, RowType
    <2> QED
      BY <2>1, <2>2, ContinuousFinal
  <1>2. ASSUME NEW t \in Threads, CommitReset(t)
        PROVE  FinalInv' /\ StatusFinal
    <2>1. PICK r : r = thr[t].r
      OBVIOUS
    <2>2. /\ thr[t].at = "resetting" /\ scene' = scene
          /\ up' = [up EXCEPT ![r][0].dir = thr[t].f, ![r][0].off = 0, ![r][0].stale = FALSE]
          /\ row' = [row EXCEPT ![r].status = "uploading"]
          /\ \E G : Goto(t, [Idle EXCEPT !.at = "tidying", !.r = thr[t].r, !.gone = G])
      BY <1>2, <2>1 DEF CommitReset, KeepVolume, At
    <2>3. r \in Recordings /\ rcpt[r] = "invalid"
      BY <2>1, <2>2, StateOK DEF Busy, QuotaInv, Promised, ReceiptHeld
    <2>4. \A x \in Recordings \ {r} : row'[x] = row[x] /\ up'[x] = up[x]
      BY <2>2, <2>3 DEF TypeInv, RowType
    <2>5. /\ Stands(t)' /\ thr'[t].r \in {None, thr[t].r}
          /\ \A u \in Threads \ {t} : thr'[u] = thr[u]
      BY <2>2, CommittedFinal
    <2> QED
      BY <2>2, <2>3, <2>4, <2>5, ContinuousFinal
  <1> QED
    BY <1>1, <1>2

\* The worker handles a recording that is not accepted yet.
LEMMA WorkerFinal ==
    ASSUME TypeInv, QuotaInv, FinalInv, Worker
    PROVE  FinalInv' /\ StatusFinal
  <1>a. "worker" \in Threads /\ "worker" \notin Clients
    BY Fixed
  <1>b. PICK w : w = thr["worker"]
    OBVIOUS
  <1>c. w.at \in {"working", "placing", "accepting"} => w.r \in Recordings /\ rcpt[w.r] = "processing"
    BY <1>a, <1>b, StateOK DEF QuotaInv, Promised, ReceiptHeld, Busy
  <1>1. ASSUME NEW r \in Recordings, ProcessNext(r)
        PROVE  FinalInv' /\ StatusFinal
    <2> DEFINE s == [Idle EXCEPT !.at = "working", !.r = r, !.p = 0, !.lock = {}]
    <2>1. /\ Goto("worker", s) /\ UNCHANGED <<scene, up>>
          /\ rcpt[r] \in {"queued", "processing", "retrying"}
          /\ row' = [row EXCEPT ![r].status = "processing"]
      BY <1>1 DEF ProcessNext, Begin, KeepVolume
    <2>2. s.at = "working"
      BY DEF Idle
    <2> HIDE DEF s
    <2>3. thr'["worker"] = s /\ \A u \in Threads \ {"worker"} : thr'[u] = thr[u]
      BY <1>a, <2>1, Moves
    <2>4. Stands("worker")'
      BY <1>a, <2>2, <2>3, NothingStands
    <2>5. \A x \in Recordings \ {r} : row'[x] = row[x] /\ up'[x] = up[x]
      BY <2>1 DEF TypeInv, RowType
    <2> QED
      BY <1>a, <2>1, <2>3, <2>4, <2>5, ContinuousFinal
  <1>2. ASSUME ReserveMedia
        PROVE  FinalInv' /\ StatusFinal
    <2> DEFINE s == [w EXCEPT !.at = "placing", !.f = NewName, !.set = {row[w.r].media} \ {None}]
    <2>1. /\ w.at = "working" /\ Goto("worker", s) /\ UNCHANGED <<scene, up>>
          /\ row' = [row EXCEPT ![w.r].media = NewName]
      BY <1>2, <1>b DEF ReserveMedia, At
    <2>2. s.at = "placing"
      BY <1>a, <1>b, StateOK DEF ThreadState
    <2> HIDE DEF s
    <2>3. thr'["worker"] = s /\ \A u \in Threads \ {"worker"} : thr'[u] = thr[u]
      BY <1>a, <2>1, Moves
    <2>4. Stands("worker")'
      BY <1>a, <2>2, <2>3, NothingStands
    <2>5. \A x \in Recordings \ {w.r} : row'[x] = row[x] /\ up'[x] = up[x]
      BY <1>c, <2>1 DEF TypeInv, RowType
    <2> QED
      BY <1>a, <1>c, <2>1, <2>3, <2>4, <2>5, ContinuousFinal
  <1>3. ASSUME PlaceReserved
        PROVE  FinalInv' /\ StatusFinal
    <2> DEFINE s == [Idle EXCEPT !.at = "accepting", !.r = w.r, !.p = 0, !.lock = {}]
    <2>1. Goto("worker", s) /\ UNCHANGED <<scene, row, up>>
      BY <1>3, <1>b DEF PlaceReserved, Begin, KeepAll, rows
    <2>2. s.at = "accepting"
      BY DEF Idle
    <2> HIDE DEF s
    <2>3. Stands("worker")'
      BY <1>a, <2>1, <2>2, Moves, NothingStands
    <2> QED
      BY <1>a, <2>1, <2>3, QuietFinal
  <1>4. ASSUME Accept
        PROVE  FinalInv' /\ StatusFinal
    <2>1. /\ w.at = "accepting" /\ scene' = scene /\ row' = [row EXCEPT ![w.r].status = "ready"]
          /\ up' = [up EXCEPT ![w.r][0] = NoUpload]
          /\ \E G : Goto("worker", [Idle EXCEPT !.at = "tidying", !.r = w.r, !.gone = G])
      BY <1>4, <1>b DEF Accept, KeepVolume, At
    <2>2. /\ Stands("worker")' /\ \A u \in Threads \ {"worker"} : thr'[u] = thr[u]
      BY <1>a, <1>b, <2>1, CommittedFinal
    <2>3. \A x \in Recordings \ {w.r} : row'[x] = row[x] /\ up'[x] = up[x]
      BY <1>c, <2>1 DEF TypeInv, RowType
    <2> QED
      BY <1>a, <1>c, <2>1, <2>2, <2>3, ContinuousFinal
  <1>5. ASSUME NEW x \in {"retrying", "invalid", "needs_attention"}, ProcessFails(x)
        PROVE  FinalInv' /\ StatusFinal
    <2>1. PICK v : /\ w.at \in {"working", "placing", "accepting"} /\ Done("worker")
                   /\ UNCHANGED <<scene, up>> /\ row' = [row EXCEPT ![w.r].status = v]
      BY <1>5, <1>b DEF ProcessFails, KeepVolume
    <2>2. Stands("worker")' /\ \A u \in Threads \ {"worker"} : thr'[u] = thr[u]
      BY <1>a, <2>1, CommittedFinal
    <2>3. \A y \in Recordings \ {w.r} : row'[y] = row[y] /\ up'[y] = up[y]
      BY <1>c, <2>1 DEF TypeInv, RowType
    <2> QED
      BY <1>a, <1>c, <2>1, <2>2, <2>3, ContinuousFinal
  <1> QED
    BY <1>1, <1>2, <1>3, <1>4, <1>5 DEF Worker


\* A new upload is committed.  Its row was absent, or failed and not yet
\* created again by another request.
LEMMA CommitUploadFinal ==
    ASSUME TypeInv, QuotaInv, FinalInv, NEW t \in Threads, CommitUpload(t)
    PROVE  FinalInv' /\ StatusFinal
  <1>1. PICK r, p, v : r = thr[t].r /\ p = thr[t].p
                    /\ v = [st |-> "uploading", off |-> 0, dir |-> thr[t].f, stale |-> FALSE]
    OBVIOUS
  <1>2. /\ thr[t].at = "reserved" /\ ~KeyExists(t) /\ Done(t) /\ scene' = scene
        /\ up' = [up EXCEPT ![r][p] = v]
        /\ row' = IF Segmented(r) THEN row ELSE [row EXCEPT ![r].status = "uploading"]
    BY <1>1 DEF CommitUpload, KeepVolume, At
  <1>3. r \in Recordings /\ p \in AllParts /\ v.stale = FALSE
    BY <1>1, <1>2, StateOK DEF Busy
  <1>4. /\ Stands(t)' /\ thr'[t].r \in {None, thr[t].r} /\ \A u \in Threads \ {t} : thr'[u] = thr[u]
    BY <1>2, CommittedFinal
  <1>5. up'[r][p] = v
    BY <1>2, <1>3 DEF TypeInv, RowType
  <1>6. \A q \in AllParts \ {p} : up'[r][q] = up[r][q]
    BY <1>2, <1>3, UploadChanges
  <1>7. \A x \in Recordings \ {r} : up'[x] = up[x]
    BY <1>2, <1>3, UploadChanges
  <1>8. \A x \in Recordings, q \in AllParts : up'[x][q].stale => up[x][q].stale
    BY <1>3, <1>5, <1>6, <1>7
  <1>9. CASE Segmented(r)
    <2>1. row' = row
      BY <1>2, <1>9
    <2>2. FinalInv'
      BY <1>2, <1>4, <1>7, <1>8, <1>9, <2>1, MildStep
    <2> QED
      BY <2>1, <2>2 DEF StatusFinal
  <1>10. CASE ~Segmented(r)
    <2>1. /\ row'[r].status = "uploading" /\ row'[r].media = row[r].media
          /\ \A x \in Recordings \ {r} : row'[x] = row[x]
      BY <1>2, <1>3, <1>10 DEF TypeInv, RowType, RecordingRow
    <2>2. thr[t].was = "absent" => row[r].status = "absent"
      BY <1>1, <1>2 DEF KeyExists
    <2>3. CASE Kind(r) = "continuous"
      <3>1. row[r].status = "absent"
        BY <1>1, <1>2, <2>2, <2>3 DEF QuotaInv, Promised, RoomReserved
      <3>2. FinalInv'
        BY <1>2, <1>4, <1>7, <1>8, <2>1, <2>3, MildStep
      <3>3. StatusFinal
        BY <2>1, <3>1 DEF StatusFinal
      <3> QED
        BY <3>2, <3>3
    <2>4. CASE Kind(r) # "continuous"
      <3>1. /\ Kind(r) = "voicemail" /\ p = 0 /\ t \in Clients
            /\ row[r].status \in {"absent", "failed"}
        <4>1. Kind(r) = "voicemail"
          BY <1>3, <1>10, <2>4, KindsOK
        <4>2. p = 0
          BY <1>1, <1>2, <1>10 DEF QuotaInv, Promised, RoomReserved
        <4> QED
          BY <1>1, <1>2, <2>2, <4>1, <4>2 DEF FinalInv, Stands
      <3>2. row[r].media = None
        BY <1>3, <2>4, <3>1 DEF FinalInv, VoicemailRows
      <3>3. \A x \in Recordings : Kind(x)' = Kind(x) /\ Segmented(x)' = Segmented(x)
        BY <1>2, SceneKept
      <3>4. VoicemailRows'
        BY <1>7, <2>1, <3>2, <3>3 DEF FinalInv, VoicemailRows
      <3>5. NeverStale'
        BY <1>2, <1>8, <2>1, <3>3 DEF FinalInv, NeverStale
      <3>6. Apart' /\ OneDanger'
        BY <1>2, <1>4, ApartKept DEF FinalInv, OneDanger
      <3>7. ASSUME NEW u \in Threads \ {t}
            PROVE  Stands(u)'
        <4>1. PICK s : s = thr[u] /\ s = thr'[u]
          BY <1>4, <3>7
        <4>2. /\ s.at \in Busy => s.r \in Recordings
              /\ s.at \in {"deleting", "purging"} => \A g \in s.gone : g[1][1] \in Recordings
          BY <4>1, StateOK, GoneOK
        <4>a. Stands(u)
          BY DEF FinalInv
        <4>3. s.at \in {"assembling", "finalized"} /\ Segmented(s.r)'
                 => row'[s.r].status = "uploading"
          BY <1>10, <2>1, <3>3, <4>1, <4>2, <4>a DEF Stands, Busy
        <4>4. s.at \in {"deleting", "purging"} =>
                 \A g \in s.gone :
                    /\ "stale" \in scene.dangers /\ s.at = "purging"
                    /\ ~Segmented(g[1][1])' => row'[g[1][1]].status = "uploading"
          <5>1. ASSUME s.at \in {"deleting", "purging"}, NEW g \in s.gone
                PROVE  /\ "stale" \in scene.dangers /\ s.at = "purging"
                       /\ ~Segmented(g[1][1])' => row'[g[1][1]].status = "uploading"
            <6>1. /\ "stale" \in scene.dangers /\ s.at = "purging"
                  /\ ~Segmented(g[1][1]) => row[g[1][1]].status = "uploading"
              BY <4>1, <4>a, <5>1 DEF Stands
            <6> QED
              BY <2>1, <3>3, <4>2, <5>1, <6>1
          <5> QED
            BY <5>1
        <4>5. ASSUME s.at \in {"opening", "reserved"}
              PROVE  /\ u \in Clients
                     /\ Kind(s.r)' = "voicemail" =>
                           \/ s.was = "absent"
                           \/ s.was = "failed" /\ row'[s.r].status = "failed"
                              /\ up'[s.r][0].st = "none"
          <5>1. /\ u \in Clients /\ s.r \in Recordings /\ s.r # None
                /\ Kind(s.r)' = "voicemail" =>
                      \/ s.was = "absent"
                      \/ s.was = "failed" /\ row[s.r].status = "failed" /\ up[s.r][0].st = "none"
            BY <3>3, <4>1, <4>2, <4>5, BoundAssumption DEF FinalInv, Stands, Busy
          <5>2. ASSUME s.r = r, row[r].status = "failed"
                PROVE  FALSE
            <6>1. "late" \notin scene.dangers
              BY <1>3, <2>4, <5>2 DEF FinalInv, NeverStale, OneDanger
            <6> QED
              BY <1>1, <3>1, <3>7, <4>1, <5>1, <5>2, <6>1 DEF FinalInv, Apart
          <5> QED
            BY <1>7, <2>1, <5>1, <5>2
        <4>6. s.at \in {"finalized", "purging"} => s.policy
          BY <4>1 DEF FinalInv, Stands
        <4> QED
          BY <1>2, <4>1, <4>3, <4>4, <4>5, <4>6 DEF Stands
      <3>8. StatusFinal
        BY <2>1, <3>1 DEF StatusFinal
      <3> QED
        BY <1>4, <3>4, <3>5, <3>6, <3>7, <3>8 DEF FinalInv
    <2> QED
      BY <2>3, <2>4
  <1> QED
    BY <1>9, <1>10

\* A recording becomes ready: it was uploading, and nobody else relies on that.
LEMMA ReadyFinal ==
    ASSUME TypeInv, QuotaInv, FinalInv, NEW t \in Threads, NEW r \in Recordings,
           thr[t].at = "finalized", r = thr[t].r, scene' = scene,
           \E G : Goto(t, [Idle EXCEPT !.at = "tidying", !.r = thr[t].r, !.gone = G]),
           row[r].status = "uploading", row'[r].status = "ready",
           \A x \in Recordings \ {r} : row'[x] = row[x] /\ up'[x] = up[x],
           ~Segmented(r) => up[r][0].st = "uploading" /\ up'[r][0].st = "none",
           \A q \in AllParts : up'[r][q].stale => up[r][q].stale
    PROVE  FinalInv' /\ StatusFinal
  <1>1. /\ Stands(t)' /\ thr'[t].r \in {None, thr[t].r} /\ \A u \in Threads \ {t} : thr'[u] = thr[u]
    BY CommittedFinal
  <1>2. \A x \in Recordings : Kind(x)' = Kind(x) /\ Segmented(x)' = Segmented(x)
    BY SceneKept
  <1>3. thr[t].policy /\ (Segmented(r) => RecLock(r) \in thr[t].lock)
    BY DEF FinalInv, Stands, QuotaInv, Promised, SourceHeld, SegmentLocks
  <1>4. VoicemailRows'
    BY <1>2 DEF FinalInv, VoicemailRows
  <1>5. NeverStale'
    BY <1>2 DEF FinalInv, NeverStale
  <1>6. Apart' /\ OneDanger'
    BY <1>1, ApartKept DEF FinalInv, OneDanger
  <1>7. ASSUME NEW u \in Threads \ {t}
        PROVE  Stands(u)'
    <2>1. PICK s : s = thr[u] /\ s = thr'[u]
      BY <1>1, <1>7
    <2>a. Stands(u) /\ u \in Threads /\ u # t
      BY <1>7 DEF FinalInv
    <2>b. LocksHeld
      BY DEF QuotaInv
    <2>2. s.at \in Busy => s.r \in Recordings
      BY <2>1, <2>a, StateOK
    <2>c. ~s.policy /\ (Segmented(r) => RecLock(r) \notin s.lock)
      BY <1>3, <2>1, <2>a, <2>b DEF LocksHeld
    <2>3. s.at \notin {"finalized", "purging"} /\ (s.at = "deleting" => s.gone = {})
      BY <2>1, <2>a, <2>c DEF Stands
    <2>4. s.at = "assembling" /\ Segmented(s.r)' => row'[s.r].status = "uploading"
      <3>1. s.at = "assembling" /\ Segmented(s.r) => RecLock(s.r) \in s.lock
        BY <2>1 DEF QuotaInv, Promised, SourceHeld, SegmentLocks
      <3>2. s.at = "assembling" /\ Segmented(s.r) => s.r # r
        BY <2>c, <3>1
      <3> QED
        BY <1>2, <2>1, <2>2, <2>a, <3>2 DEF Stands, Busy
    <2>5. s.at \in {"opening", "reserved"} =>
             /\ u \in Clients
             /\ Kind(s.r)' = "voicemail" =>
                   \/ s.was = "absent"
                   \/ s.was = "failed" /\ row'[s.r].status = "failed" /\ up'[s.r][0].st = "none"
      <3>1. ASSUME s.at \in {"opening", "reserved"}
            PROVE  /\ u \in Clients
                   /\ Kind(s.r)' = "voicemail" =>
                         \/ s.was = "absent"
                         \/ /\ s.was = "failed" /\ row'[s.r].status = "failed"
                            /\ up'[s.r][0].st = "none"
        <4>1. s.r \in Recordings
          BY <2>2, <3>1 DEF Busy
        <4>2. /\ u \in Clients
              /\ Kind(s.r) = "voicemail" =>
                    \/ s.was = "absent"
                    \/ s.was = "failed" /\ row[s.r].status = "failed" /\ up[s.r][0].st = "none"
          BY <2>1, <2>a, <3>1 DEF Stands
        <4> QED
          BY <1>2, <4>1, <4>2
      <3> QED
        BY <3>1
    <2> QED
      BY <2>1, <2>3, <2>4, <2>5 DEF Stands
  <1>8. StatusFinal
    BY DEF StatusFinal
  <1> QED
    BY <1>1, <1>4, <1>5, <1>6, <1>7, <1>8 DEF FinalInv

\* A voicemail, and an assembled recording, become ready.
LEMMA CommitReadyFinal ==
    ASSUME TypeInv, QuotaInv, FinalInv, NEW t \in Threads, CommitReady(t) \/ CommitAssembled(t)
    PROVE  FinalInv' /\ StatusFinal
  <1>1. PICK r : r = thr[t].r
    OBVIOUS
  <1>2. /\ thr[t].at = "finalized" /\ scene' = scene
        /\ row' = [row EXCEPT ![r] = [status |-> "ready", media |-> thr[t].f]]
        /\ \E G : Goto(t, [Idle EXCEPT !.at = "tidying", !.r = thr[t].r, !.gone = G])
    BY <1>1 DEF CommitReady, CommitAssembled, KeepVolume, At
  <1>3. r \in Recordings /\ 0 \in AllParts
    BY <1>1, <1>2, StateOK, Fixed DEF Busy
  <1>4. row'[r].status = "ready" /\ \A x \in Recordings \ {r} : row'[x] = row[x]
    BY <1>2, <1>3 DEF TypeInv, RowType
  <1>5. CASE CommitReady(t)
    <2>1. Kind(r) = "voicemail" /\ ~Segmented(r) /\ up' = [up EXCEPT ![r][0] = NoUpload]
      BY <1>1, <1>5 DEF CommitReady, Segmented
    <2>2. up[r][0].st = "uploading"
      BY <1>1, <1>2, <2>1 DEF QuotaInv, Promised, SourceHeld
    <2>3. row[r].status = "uploading"
      BY <1>3, <2>1, <2>2 DEF FinalInv, VoicemailRows
    <2>4. up'[r][0] = NoUpload /\ NoUpload.st = "none" /\ NoUpload.stale = FALSE
      BY <1>3, <2>1 DEF TypeInv, RowType, NoUpload
    <2>5. \A q \in AllParts \ {0} : up'[r][q] = up[r][q]
      BY <1>3, <2>1, UploadChanges
    <2>6. \A x \in Recordings \ {r} : up'[x] = up[x]
      BY <1>3, <2>1, UploadChanges
    <2>7. \A q \in AllParts : up'[r][q].stale => up[r][q].stale
      BY <2>4, <2>5
    <2>8. /\ ~Segmented(r) => up[r][0].st = "uploading" /\ up'[r][0].st = "none"
          /\ \A x \in Recordings \ {r} : row'[x] = row[x] /\ up'[x] = up[x]
      BY <1>4, <2>2, <2>4, <2>6
    <2> QED
      BY <1>1, <1>2, <1>3, <1>4, <2>3, <2>7, <2>8, ReadyFinal
  <1>6. CASE CommitAssembled(t)
    <2>1. /\ Segmented(r)
          /\ up' = [up EXCEPT ![r] = [p \in AllParts |->
                IF p \in Parts(r) THEN [up[r][p] EXCEPT !.st = "assembled"] ELSE up[r][p]]]
      BY <1>1, <1>3, <1>6 DEF CommitAssembled, TypeInv, RowType
    <2>2. row[r].status = "uploading"
      BY <1>1, <1>2, <2>1 DEF FinalInv, Stands
    <2>3. \A x \in Recordings \ {r} : up'[x] = up[x]
      BY <2>1 DEF TypeInv, RowType
    <2>4. \A q \in AllParts : [up[r][q] EXCEPT !.st = "assembled"].stale = up[r][q].stale
      BY <1>3, RowOK DEF UploadRow
    <2>5. \A q \in AllParts : up'[r][q] = IF q \in Parts(r)
                                          THEN [up[r][q] EXCEPT !.st = "assembled"] ELSE up[r][q]
      BY <1>3, <2>1 DEF TypeInv, RowType
    <2>6. \A q \in AllParts : up'[r][q].stale => up[r][q].stale
      BY <2>4, <2>5
    <2> QED
      BY <1>1, <1>2, <1>3, <1>4, <2>1, <2>2, <2>3, <2>6, ReadyFinal
  <1> QED
    BY <1>5, <1>6


\* A removal deletes ready recordings and fails uploading ones.
LEMMA CommitRemovalFinal ==
    ASSUME TypeInv, QuotaInv, FinalInv, NEW t \in Threads, CommitRemoval(t)
    PROVE  FinalInv' /\ StatusFinal
  <1> DEFINE H == {g[1] : g \in thr[t].gone}
  <1>1. /\ thr[t].at \in {"deleting", "purging"} /\ CleanupAbandoned(t) /\ scene' = scene
        /\ \E S, G : Goto(t, [Idle EXCEPT !.at = "discarding", !.set = S, !.gone = G])
    BY DEF CommitRemoval
  <1>2. /\ Stands(t)' /\ thr'[t].r \in {None, thr[t].r} /\ \A u \in Threads \ {t} : thr'[u] = thr[u]
    BY <1>1, CommittedFinal
  <1>3. None \notin thr[t].set
    BY <1>1, StateOK, NamesOK DEF Equipped, TypeInv
  <1>4. \A r \in Recordings, p \in AllParts : <<r, p>> \in H =>
           /\ Kind(r) # "continuous" /\ "stale" \in scene.dangers /\ thr[t].at = "purging"
           /\ ~Segmented(r) => row[r].status = "uploading"
    <2>1. ASSUME NEW r \in Recordings, NEW p \in AllParts, <<r, p>> \in H
          PROVE  /\ Kind(r) # "continuous" /\ "stale" \in scene.dangers /\ thr[t].at = "purging"
                 /\ ~Segmented(r) => row[r].status = "uploading"
      <3>1. PICK g \in thr[t].gone : g[1] = <<r, p>>
        BY <2>1
      <3>2. g[1][1] = r
        BY <3>1
      <3> QED
        BY <1>1, <3>2 DEF QuotaInv, Promised, RemovalSpares, FinalInv, Stands
    <2> QED
      BY <2>1
  <1>5. \A r \in Recordings, p \in AllParts :
           /\ <<r, p>> \notin H => up'[r][p] = up[r][p]
           /\ <<r, p>> \in H /\ ~Segmented(r) => up'[r][p].st = "none"
           /\ up'[r][p].stale => up[r][p].stale
    <2>1. \A r \in Recordings, p \in AllParts :
             up'[r][p] = IF <<r, p>> \notin H THEN up[r][p]
                         ELSE IF Segmented(r) THEN [up[r][p] EXCEPT !.st = "failed"] ELSE NoUpload
      BY <1>1 DEF CleanupAbandoned
    <2>2. \A r \in Recordings, p \in AllParts :
             [up[r][p] EXCEPT !.st = "failed"].stale = up[r][p].stale
      BY RowOK DEF UploadRow
    <2>3. NoUpload.st = "none" /\ NoUpload.stale = FALSE
      BY DEF NoUpload
    <2>4. ASSUME NEW r \in Recordings, NEW p \in AllParts
          PROVE  /\ <<r, p>> \notin H => up'[r][p] = up[r][p]
                 /\ <<r, p>> \in H /\ ~Segmented(r) => up'[r][p].st = "none"
                 /\ up'[r][p].stale => up[r][p].stale
      <3>1. CASE <<r, p>> \notin H
        BY <2>1, <2>4, <3>1
      <3>2. CASE <<r, p>> \in H /\ Segmented(r)
        <4>1. up'[r][p] = [up[r][p] EXCEPT !.st = "failed"]
          BY <2>1, <3>2
        <4>2. up'[r][p].stale = up[r][p].stale
          BY <2>2, <4>1
        <4> QED
          BY <3>2, <4>2
      <3>3. CASE <<r, p>> \in H /\ ~Segmented(r)
        BY <2>1, <2>3, <2>4, <3>3
      <3> QED
        BY <3>1, <3>2, <3>3
    <2> QED
      BY <2>4
  <1>6. \A r \in Recordings :
           \/ row[r].media \in thr[t].set /\ row'[r].status = "deleted" /\ row'[r].media = None
           \/ /\ row[r].media \notin thr[t].set /\ <<r, 0>> \in H /\ ~Segmented(r)
              /\ row'[r].status = "failed" /\ row'[r].media = row[r].media
           \/ /\ row[r].media \notin thr[t].set /\ ~(<<r, 0>> \in H /\ ~Segmented(r))
              /\ row'[r] = row[r]
    <2>1. \A r \in Recordings :
             row'[r] = IF row[r].media \in thr[t].set THEN Tombstone
                       ELSE IF <<r, 0>> \in H /\ ~Segmented(r)
                       THEN [row[r] EXCEPT !.status = "failed"] ELSE row[r]
      BY <1>1 DEF CleanupAbandoned
    <2>2. Tombstone.media = None /\ Tombstone.status = "deleted"
      BY DEF Tombstone
    <2>3. \A r \in Recordings : /\ [row[r] EXCEPT !.status = "failed"].status = "failed"
                                /\ [row[r] EXCEPT !.status = "failed"].media = row[r].media
      BY RowOK DEF RecordingRow
    <2> QED
      BY <2>1, <2>2, <2>3
  <1> HIDE DEF H
  <1>7. \A r \in Recordings : Kind(r) # "continuous" /\ row[r].status # "ready" =>
           row[r].media = None /\ row[r].media \notin thr[t].set
    BY <1>3 DEF FinalInv, VoicemailRows
  <1>8. \A x \in Recordings : Kind(x)' = Kind(x) /\ Segmented(x)' = Segmented(x)
    BY <1>1, SceneKept
  <1>9. VoicemailRows'
    <2>1. ASSUME NEW r \in Recordings, Kind(r) # "continuous"
          PROVE  /\ ~Segmented(r) /\ up'[r][0].st # "none" => row'[r].status = "uploading"
                 /\ row'[r].status # "ready" => row'[r].media = None
      <3>1. ~Segmented(r) /\ up'[r][0].st # "none" =>
               row[r].status = "uploading" /\ <<r, 0>> \notin H
        BY <1>5, <2>1, Fixed DEF FinalInv, VoicemailRows
      <3>2. ~Segmented(r) /\ up'[r][0].st # "none" => row'[r].status = "uploading"
        BY <1>6, <1>7, <2>1, <3>1
      <3>3. row'[r].status # "ready" => row'[r].media = None
        BY <1>4, <1>6, <1>7, <2>1, Fixed
      <3> QED
        BY <3>2, <3>3
    <2> QED
      BY <1>8, <2>1 DEF VoicemailRows
  <1>10. NeverStale'
    <2>1. ASSUME NEW r \in Recordings, Kind(r) # "continuous", "stale" \notin scene.dangers
          PROVE  (\A p \in AllParts : ~up'[r][p].stale) /\ row'[r].status # "failed"
      <3>1. (\A p \in AllParts : ~up[r][p].stale) /\ row[r].status # "failed"
        BY <2>1 DEF FinalInv, NeverStale
      <3>2. <<r, 0>> \notin H
        BY <1>4, <2>1, Fixed
      <3>3. row'[r].status # "failed"
        BY <1>6, <3>1, <3>2
      <3> QED
        BY <1>5, <3>1, <3>3
    <2> QED
      BY <1>1, <1>8, <2>1 DEF NeverStale
  <1>11. Apart' /\ OneDanger'
    BY <1>1, <1>2, ApartKept DEF FinalInv, OneDanger
  <1>12. ASSUME NEW u \in Threads \ {t}
         PROVE  Stands(u)'
    <2>1. PICK s : s = thr[u] /\ s = thr'[u]
      BY <1>2, <1>12
    <2>2. s.at \in Busy => s.r \in Recordings
      BY <2>1, StateOK
    <2>3. s.at \in {"assembling", "finalized"} /\ Segmented(s.r)' => row'[s.r].status = "uploading"
      <3>1. s.at \in {"assembling", "finalized"} /\ Segmented(s.r) =>
               /\ s.r \in Recordings /\ row[s.r].status = "uploading" /\ Kind(s.r) # "continuous"
        BY <2>1, <2>2 DEF FinalInv, Stands, Busy, Segmented
      <3> QED
        BY <1>6, <1>7, <1>8, <2>2, <3>1 DEF Busy
    <2>4. s.at \in {"deleting", "purging"} =>
             \A g \in s.gone :
                /\ "stale" \in scene.dangers /\ s.at = "purging"
                /\ ~Segmented(g[1][1])' => row'[g[1][1]].status = "uploading"
      <3>1. ASSUME s.at \in {"deleting", "purging"}, NEW g \in s.gone
            PROVE  /\ "stale" \in scene.dangers /\ s.at = "purging"
                   /\ ~Segmented(g[1][1])' => row'[g[1][1]].status = "uploading"
        <4>1. PICK x : x = g[1][1]
          OBVIOUS
        <4>2. /\ "stale" \in scene.dangers /\ s.at = "purging" /\ s.policy
              /\ ~Segmented(x) => row[x].status = "uploading"
          BY <2>1, <3>1, <4>1 DEF FinalInv, Stands
        <4>3. x \in Recordings /\ Kind(x) # "continuous"
          BY <2>1, <3>1, <4>1, GoneOK
        <4>4. thr[t].at = "deleting"
          BY <1>1, <1>12, <2>1, <4>2 DEF FinalInv, Stands, QuotaInv, LocksHeld
        <4>5. <<x, 0>> \notin H
          BY <1>4, <4>3, <4>4, Fixed
        <4>6. ~Segmented(x) => row'[x].status = "uploading"
          BY <1>6, <1>7, <4>2, <4>3, <4>5
        <4> QED
          BY <1>8, <4>1, <4>2, <4>3, <4>6
      <3> QED
        BY <3>1
    <2>5. s.at \in {"opening", "reserved"} =>
             /\ u \in Clients
             /\ Kind(s.r)' = "voicemail" =>
                   \/ s.was = "absent"
                   \/ s.was = "failed" /\ row'[s.r].status = "failed" /\ up'[s.r][0].st = "none"
      <3>1. s.at \in {"opening", "reserved"} =>
               /\ s.r \in Recordings /\ u \in Clients
               /\ Kind(s.r) = "voicemail" =>
                     \/ s.was = "absent"
                     \/ s.was = "failed" /\ row[s.r].status = "failed" /\ up[s.r][0].st = "none"
        BY <2>1, <2>2 DEF FinalInv, Stands, Busy
      <3>2. ASSUME NEW x \in Recordings, Kind(x) = "voicemail", row[x].status = "failed",
                   up[x][0].st = "none"
            PROVE  row'[x].status = "failed" /\ up'[x][0].st = "none"
        <4>1. <<x, 0>> \notin H
          BY <1>4, <3>2, Fixed DEF Segmented
        <4> QED
          BY <1>5, <1>6, <1>7, <3>2, <4>1, Fixed
      <3> QED
        BY <1>8, <3>1, <3>2
    <2>6. s.at \in {"finalized", "purging"} => s.policy
      BY <2>1 DEF FinalInv, Stands
    <2> QED
      BY <1>1, <2>1, <2>3, <2>4, <2>5, <2>6 DEF Stands
  <1>13. StatusFinal
    BY <1>4, <1>6, Fixed DEF StatusFinal
  <1> QED
    BY <1>2, <1>9, <1>10, <1>11, <1>12, <1>13 DEF FinalInv

\* Every step keeps FinalInv, and what is ready or deleted.
LEMMA NextFinal ==
    ASSUME TypeInv, QuotaInv, FinalInv, [Next]_vars
    PROVE  FinalInv' /\ StatusFinal
  <1>a. /\ Clients \subseteq Threads /\ {"admin", "maintenance", "worker"} \subseteq Threads
        /\ "admin" \notin Clients /\ 0 \in AllParts
    BY Fixed
  <1>1. ASSUME NEW t \in Clients, NEW r \in Recordings, Request(t, r)
        PROVE  FinalInv' /\ StatusFinal
    <2>1. ASSUME CreateRecording(t, r) \/ CreateContinuous(t, r)
          PROVE  FinalInv' /\ StatusFinal
      BY <2>1, OpeningFinal DEF CreateRecording, CreateContinuous
    <2>2. ASSUME NEW p \in AllParts,
                 CreateConversationSegment(t, r, p) \/ CreateSessionSegment(t, r, p)
          PROVE  FinalInv' /\ StatusFinal
      BY <2>2, OpeningFinal DEF CreateConversationSegment, CreateSessionSegment, OpenSegment
    <2>3. ASSUME CompleteConversation(t, r) \/ CompleteSession(t, r)
          PROVE  FinalInv' /\ StatusFinal
      BY <1>a, <2>3, AssembleFinal DEF CompleteConversation, CompleteSession
    <2>4. ASSUME NEW off \in Offsets, UploadContent(t, r, off) \/ UploadContinuous(t, r, off)
          PROVE  FinalInv' /\ StatusFinal
      BY <1>a, <2>4, CompleteFinal DEF UploadContent, UploadContinuous
    <2>5. ASSUME NEW p \in AllParts, NEW off \in Offsets,
                 UploadSegment(t, r, p, off) \/ UploadSessionSegment(t, r, p, off)
          PROVE  FinalInv' /\ StatusFinal
      BY <2>5, CompleteFinal DEF UploadSegment, UploadSessionSegment
    <2> QED
      BY <1>1, <2>1, <2>2, <2>3, <2>4, <2>5, OpenedFinal, CompleteFinal, QueueFinal DEF Request
  <1>2. ASSUME NEW t \in Threads, Continue(t)
        PROVE  FinalInv' /\ StatusFinal
    <2>1. ASSUME Finalize(t) \/ AssembleConversation(t)
          PROVE  FinalInv' /\ StatusFinal
      BY <2>1, PlaceFinal DEF Finalize, AssembleConversation, At
    <2>2. ASSUME \/ RefuseUpload(t) \/ FailUpload(t) \/ FailRequest(t) \/ RefuseFinal(t)
                 \/ FailReady(t) \/ Tidy(t) \/ AssemblyFails(t)
          PROVE  FinalInv' /\ StatusFinal
      <3>1. Done(t) /\ UNCHANGED <<scene, row, up>>
        BY <2>2 DEF RefuseUpload, FailUpload, FailRequest, RefuseFinal, FailReady, Tidy,
           AssemblyFails, KeepAll, rows
      <3> QED
        BY <3>1, DoneFinal
    <2> QED
      BY <1>2, <2>1, <2>2, ReserveFinal, CommitUploadFinal, SegmentFinal, CommitReadyFinal,
         QueueFinal DEF Continue
  <1>3. ASSUME NEW r \in Recordings, RecoverPartial(r)
        PROVE  FinalInv' /\ StatusFinal
    BY <1>a, <1>3, AssembleFinal DEF RecoverPartial
  <1>4. ASSUME Removal
        PROVE  FinalInv' /\ StatusFinal
    BY <1>a, <1>4, RemovalFinal, CommitRemovalFinal DEF Removal
  <1>5. ASSUME Crash
        PROVE  FinalInv' /\ StatusFinal
    <2>1. thr' = [t \in Threads |-> Idle] /\ UNCHANGED <<scene, row, up>>
      BY <1>5 DEF Crash, rows
    <2>2. Idle.at = "idle" /\ Idle.r = None
      BY DEF Idle
    <2>3. \A t \in Threads : thr'[t].at = "idle" /\ thr'[t].r = None
      BY <2>1, <2>2
    <2>4. \A t \in Threads : Stands(t)'
      BY <2>3, NothingStands
    <2>5. Apart' /\ OneDanger'
      BY <1>a, <2>1, <2>3 DEF Apart, OneDanger, FinalInv
    <2>6. VoicemailRows' /\ NeverStale'
      BY <2>1, SceneKept DEF VoicemailRows, NeverStale, FinalInv
    <2> QED
      BY <2>1, <2>4, <2>5, <2>6 DEF FinalInv, StatusFinal
  <1>6. ASSUME UNCHANGED <<scene, row, up, thr>>
        PROVE  FinalInv' /\ StatusFinal
    <2>1. FinalInv'
      BY <1>a, <1>6, MildStep
    <2> QED
      BY <1>6, <2>1 DEF StatusFinal
  <1>7. ASSUME Tablet
        PROVE  FinalInv' /\ StatusFinal
    <2>1. ASSUME NEW r \in Recordings, HearAcknowledged(r) \/ HearSegment(r)
          PROVE  FinalInv' /\ StatusFinal
      BY <1>6, <2>1 DEF HearAcknowledged, HearSegment, rows
    <2> QED
      BY <1>1, <1>7, <2>1 DEF Tablet
  <1>8. CASE UNCHANGED vars
    BY <1>6, <1>8 DEF vars
  <1> QED
    BY <1>a, <1>2, <1>3, <1>4, <1>5, <1>7, <1>8, SegmentFinal, MaintenanceFinal, WorkerFinal DEF Next

\* Nothing is under way in the initial state.
LEMMA InitFinal ==
    ASSUME Init, OneDanger
    PROVE  FinalInv
  <1>1. \A t \in Threads : thr[t].at = "idle" /\ thr[t].r = None
    BY DEF Init, Idle
  <1>2. \A t \in Threads : Stands(t)
    BY <1>1 DEF Stands
  <1>3. Apart
    BY <1>1, Fixed DEF Apart
  <1>4. \A r \in Recordings : /\ row[r].status \in {"absent", "ready"}
                              /\ row[r].status # "ready" => row[r].media = None
                              /\ \A p \in AllParts : up[r][p].st = "none" /\ up[r][p].stale = FALSE
    BY DEF Init, NoUpload
  <1>5. VoicemailRows /\ NeverStale
    BY <1>4, Fixed DEF VoicemailRows, NeverStale
  <1> QED
    BY <1>2, <1>3, <1>5 DEF FinalInv

\* A recording that is ready stays ready until it is deleted, and a deleted one
\* stays deleted, unless uploads are abandoned and requests outlive their clients
\* in the same run: then a late creation that had found the failed row commits
\* after another one whose upload is complete (create_recording).
THEOREM ReadyStaysFinal == Spec /\ OneDanger => ReadyIsFinal
  <1>1. Init /\ OneDanger => TypeInv /\ QuotaInv /\ FinalInv
    BY InitTyped, InitQuota, InitFinal
  <1>2. TypeInv /\ QuotaInv /\ FinalInv /\ [Next]_vars => (TypeInv /\ QuotaInv /\ FinalInv)'
    BY NextTyped, NextQuota, NextFinal
  <1>3. TypeInv /\ QuotaInv /\ FinalInv /\ [Next]_vars
           => [\A r \in Recordings :
                 /\ row[r].status = "ready" => row'[r].status \in {"ready", "deleted"}
                 /\ row[r].status = "deleted" => row'[r].status = "deleted"]_vars
    BY NextFinal DEF StatusFinal
  <1> QED
    BY <1>1, <1>2, <1>3, PTL DEF Spec, ReadyIsFinal

----------------------------------------------------------------------------
(* Files *)

\* What a thread does that has moved media aside.
Removing == {"deleting", "purging", "discarding"}

\* Maintenance runs when the server starts, and alone.
Serving ==
    /\ server # "up" => \A t \in Threads \ {"maintenance"} : thr[t] = Idle
    /\ server # "starting" => thr["maintenance"] = Idle

\* A removal has its media aside: that of ready recordings until it commits, and
\* of none afterwards.
Aside(t) ==
    LET s == thr[t] IN
    /\ s.at \in Removing => s.set \subseteq quar
    /\ s.at \in {"deleting", "purging"} => \A f \in s.set : \E r \in Ready : row[r].media = f
    /\ s.at = "discarding" => \A r \in Recordings : row[r].media \notin s.set

\* Media is in one place, and while the server serves nothing is aside but what
\* the administrator's removal has moved there.
AsideInv ==
    /\ media \cap quar = {}
    /\ server = "up" => \A f \in quar : thr["admin"].at \in Removing /\ f \in thr["admin"].set
    /\ Aside("admin") /\ Aside("maintenance")

\* What a start has still to settle, and what it has decided to remove.
Settling ==
    LET m == thr["maintenance"] IN
    /\ m.at = "quarantine" => quar \subseteq m.set
    /\ m.at \in {"restore", "erase"} => quar \subseteq m.set \cup {m.f}
    /\ m.at \in {"root", "unlink", "uploads", "prune"} => quar = {}
    /\ m.at \in Removing => quar \subseteq m.set
    /\ m.at \in {"erase", "unlink"} => \A r \in Ready : row[r].media # m.f

\* The media of a ready recording exists.
ReadyMedia == \A r \in Ready : row[r].media \in media \cup quar

\* New media is in place before its row says so, and what the worker is about to
\* replace belongs to nobody.
Placed(t) ==
    LET s == thr[t] IN
    /\ s.at = "finalized" => s.f \in media
    /\ s.at = "placing" =>
          /\ row[s.r].media = s.f /\ s.f \notin quar /\ None \notin s.set
          /\ \A r \in Recordings : row[r].media \notin s.set
          /\ \A u \in Threads : thr[u].at = "finalized" => thr[u].f \notin s.set
    /\ s.at = "accepting" => row[s.r].media \in media

\* Every file of the volume is named by a row, or is in the hands of a thread: of
\* one that serves, or of maintenance, once it has listed the volume.
Named == {row[r].media : r \in Recordings}
Accountable(f) ==
    \/ f \in Named
    \/ \E t \in Threads : thr[t].at = "finalized" /\ thr[t].f = f
    \/ thr["admin"].at = "discarding" /\ f \in thr["admin"].set
Listed ==
    LET m == thr["maintenance"] IN
    /\ m.at = "root" => media \subseteq Named \cup m.set
    /\ m.at = "unlink" => media \subseteq Named \cup m.set \cup {m.f}
    /\ m.at \in {"uploads", "prune", "deleting", "purging"} => media \cup quar \subseteq Named
    /\ m.at = "discarding" => media \cup quar \subseteq Named \cup m.set
Accounted ==
    scene.kind # "continuous" =>
       Listed /\ (server = "up" => \A f \in media \cup quar : Accountable(f))

\* No hour passes.
NoSweep == "sweep" \notin scene.dangers

FilesInv ==
    /\ NoSweep /\ Serving /\ AsideInv /\ Settling /\ ReadyMedia /\ Accounted
    /\ \A t \in Threads : Placed(t)

\* Who works while the server serves.
LEMMA Serves ==
    ASSUME Serving, NEW t \in Threads \ {"maintenance"}, thr[t].at # "idle"
    PROVE  server = "up" /\ thr["maintenance"] = Idle
  <1>1. Idle.at = "idle"
    BY DEF Idle
  <1> QED
    BY <1>1 DEF Serving

\* While the server serves maintenance holds nothing.
LEMMA ServingKept ==
    ASSUME Serving, server = "up", server' = "up", thr'["maintenance"] = thr["maintenance"]
    PROVE  /\ Serving' /\ Settling' /\ Aside("maintenance")'
           /\ thr'["maintenance"].at = "idle"
  <1>1. thr'["maintenance"] = Idle /\ Idle.at = "idle"
    BY DEF Serving, Idle
  <1> QED
    BY <1>1 DEF Serving, Settling, Aside, Removing

\* A step of one thread that touches no media, and neither makes a recording
\* ready nor removes one.
LEMMA FilesKept ==
    ASSUME TypeInv, FilesInv, NEW t \in Threads \ {"maintenance"}, UNCHANGED <<scene, media, quar, server>>,
           \A u \in Threads \ {t} : thr'[u] = thr[u],
           \/ thr'[t] = thr[t]
           \/ /\ server = "up" /\ thr[t].at \notin Removing \cup {"finalized"}
              /\ thr'[t].at \notin Removing \cup {"finalized", "placing", "accepting"},
           \A r \in Recordings : /\ row'[r].media = row[r].media
                                 /\ row'[r].status = "ready" <=> row[r].status = "ready"
    PROVE  FilesInv'
  <1>a. {"admin", "maintenance"} \subseteq Threads
    BY Fixed
  <1>1. Ready' = Ready /\ Named' = Named /\ Ready \subseteq Recordings
    BY DEF Ready, Named
  <1>2. thr'["maintenance"] = thr["maintenance"]
    BY <1>a
  <1>3. Serving' /\ NoSweep'
    <2>1. CASE thr'[t] = thr[t]
      BY <1>2, <2>1 DEF FilesInv, Serving, NoSweep
    <2>2. CASE server = "up"
      BY <1>2, <2>2, ServingKept DEF FilesInv, NoSweep
    <2> QED
      BY <2>1, <2>2
  <1>4. \A u \in Threads : thr'[u].at \in Removing => thr'[u] = thr[u]
    OBVIOUS
  <1>5. \A u \in Threads : thr[u].at \in Removing \cup {"finalized"} => thr'[u] = thr[u]
    OBVIOUS
  <1>6. \A u \in Threads : thr'[u].at \in {"finalized", "placing", "accepting"} => thr'[u] = thr[u]
    OBVIOUS
  <1>7. AsideInv'
    <2>1. ASSUME NEW u \in {"admin", "maintenance"}
          PROVE  Aside(u)'
      <3>1. Aside(u) /\ u \in Threads
        BY <1>a DEF FilesInv, AsideInv
      <3>2. CASE thr'[u] = thr[u]
        BY <1>1, <3>1, <3>2 DEF Aside
      <3>3. CASE thr'[u].at \notin Removing
        BY <3>3 DEF Aside, Removing
      <3> QED
        BY <1>4, <3>1, <3>2, <3>3
    <2>2. server = "up" => \A f \in quar : thr'["admin"].at \in Removing /\ f \in thr'["admin"].set
      BY <1>a, <1>5 DEF FilesInv, AsideInv
    <2> QED
      BY <2>1, <2>2 DEF FilesInv, AsideInv
  <1>8. Settling' /\ ReadyMedia'
    BY <1>1, <1>2 DEF FilesInv, Settling, ReadyMedia
  <1>9. Accounted'
    <2>1. ASSUME NEW f, Accountable(f)
          PROVE  Accountable(f)'
      BY <1>a, <1>1, <1>5, <2>1 DEF Accountable, Removing
    <2>2. Listed => Listed'
      BY <1>1, <1>2 DEF Listed
    <2> QED
      BY <2>1, <2>2 DEF FilesInv, Accounted
  <1>10. ASSUME NEW u \in Threads
         PROVE  Placed(u)'
    <2>1. Placed(u)
      BY DEF FilesInv
    <2>2. thr'[u].at = "placing" =>
             \A v \in Threads : thr'[v].at = "finalized" => thr'[v].f \notin thr'[u].set
      BY <1>6, <2>1 DEF Placed
    <2>3. thr'[u].at \in {"placing", "accepting"} => thr[u].r \in Recordings
      BY <1>6, StateOK DEF Busy
    <2> QED
      BY <1>6, <2>1, <2>2, <2>3 DEF Placed
  <1> QED
    BY <1>3, <1>7, <1>8, <1>9, <1>10 DEF FilesInv

\* The same, of a step that changes no row.
LEMMA PlainFiles ==
    ASSUME TypeInv, FilesInv, NEW t \in Threads \ {"maintenance"}, NEW s, Goto(t, s), server = "up",
           UNCHANGED <<scene, row, media, quar, server>>,
           thr[t].at \notin Removing \cup {"finalized"},
           s.at \notin Removing \cup {"finalized", "placing", "accepting"}
    PROVE  FilesInv'
  <1>1. thr'[t] = s /\ \A u \in Threads \ {t} : thr'[u] = thr[u]
    BY Moves
  <1> QED
    BY <1>1, FilesKept

\* The same, of a step that gives a recording a new status.
LEMMA StatusFiles ==
    ASSUME TypeInv, FilesInv, StatusFinal, NEW t \in Threads \ {"maintenance"}, NEW r \in Recordings,
           row'[r].status \notin {"ready", "deleted"}, row'[r].media = row[r].media,
           \A x \in Recordings \ {r} : row'[x] = row[x],
           server = "up", UNCHANGED <<scene, media, quar, server>>,
           \A u \in Threads \ {t} : thr'[u] = thr[u],
           thr[t].at \notin Removing \cup {"finalized"},
           thr'[t].at \notin Removing \cup {"finalized", "placing", "accepting"}
    PROVE  FilesInv'
  <1>1. row[r].status # "ready"
    BY DEF StatusFinal
  <1> QED
    BY <1>1, FilesKept

\* A request that arrives touches no media.
LEMMA RequestFiles ==
    ASSUME TypeInv, FilesInv, StatusFinal, NEW t \in Clients, NEW r \in Recordings, Request(t, r)
    PROVE  FilesInv'
  <1>a. t \in Threads \ {"maintenance"}
    BY Fixed
  <1>b. "idle" \notin Removing \cup {"finalized", "placing", "accepting"}
    BY DEF Removing
  <1>c. ASSUME NEW s, Goto(t, s), MaySend(t, r), UNCHANGED <<rows, media, quar, scene, server>>,
               s.at \in {"opening", "storing", "finalizing", "verifying", "assembling", "resetting"}
        PROVE  FilesInv'
    BY <1>a, <1>c, PlainFiles DEF MaySend, At, Removing, rows
  <1>1. ASSUME NEW p \in AllParts, NEW was, Opening(t, r, p, was)
        PROVE  FilesInv'
    <2> DEFINE s == [Idle EXCEPT !.at = "opening", !.was = was, !.r = r, !.p = p]
    <2>1. Goto(t, s) /\ MaySend(t, r) /\ UNCHANGED <<rows, media, quar, scene, server>>
      BY <1>1 DEF Opening, KeepAll, volume
    <2>2. s.at = "opening"
      BY DEF Idle
    <2> HIDE DEF s
    <2> QED
      BY <1>c, <2>1, <2>2
  <1>2. ASSUME CreateConversation(t, r) \/ CreateSession(t, r) \/ CompleteContinuous(t, r)
        PROVE  FilesInv'
    <2>1. PICK st \in {"uploading", "processing"} :
             /\ MaySend(t, r) /\ row' = [row EXCEPT ![r].status = st]
             /\ UNCHANGED <<scene, media, quar, server, thr>>
      BY <1>2 DEF CreateConversation, CreateSession, OpenSegmented, CompleteContinuous, KeepVolume,
         volume
    <2>2. /\ row'[r].status = st /\ row'[r].media = row[r].media
          /\ \A x \in Recordings \ {r} : row'[x] = row[x]
      BY <2>1 DEF TypeInv, RowType, RecordingRow
    <2> QED
      BY <1>a, <1>b, <2>1, <2>2, StatusFiles DEF MaySend, At
  <1>3. ASSUME NEW p \in AllParts, NEW off, NEW lock, StoreChunk(t, r, p, off, lock)
        PROVE  FilesInv'
    <2> DEFINE s == [Idle EXCEPT !.at = "storing", !.was = off, !.r = r, !.p = p, !.lock = {lock}]
    <2>1. Goto(t, s) /\ MaySend(t, r) /\ UNCHANGED <<rows, media, quar, scene, server>>
      BY <1>3 DEF StoreChunk, KeepAll, volume
    <2>2. s.at = "storing"
      BY DEF Idle
    <2> HIDE DEF s
    <2> QED
      BY <1>c, <2>1, <2>2
  <1>4. ASSUME NEW p, NEW lock, NEW l \in {"finalizing", "verifying"}, Begin(t, l, r, p, lock),
               MaySend(t, r), KeepAll, UNCHANGED volume
        PROVE  FilesInv'
    <2> DEFINE s == [Idle EXCEPT !.at = l, !.r = r, !.p = p, !.lock = lock]
    <2>1. Goto(t, s) /\ UNCHANGED <<rows, media, quar, scene, server>>
      BY <1>4 DEF Begin, KeepAll, volume
    <2>2. s.at = l
      BY DEF Idle
    <2> HIDE DEF s
    <2> QED
      BY <1>c, <1>4, <2>1, <2>2
  <1>5. ASSUME NEW policy, MaySend(t, r), Assemble(t, r, policy)
        PROVE  FilesInv'
    <2> DEFINE s == [Idle EXCEPT !.at = "assembling", !.r = r, !.lock = SegmentLocks(r),
                                 !.policy = policy]
    <2>1. Goto(t, s) /\ UNCHANGED <<rows, media, quar, scene, server>>
      BY <1>5 DEF Assemble, KeepAll, volume
    <2>2. s.at = "assembling"
      BY DEF Idle
    <2> HIDE DEF s
    <2> QED
      BY <1>c, <1>5, <2>1, <2>2
  <1>6. ASSUME ResetContinuous(t, r)
        PROVE  FilesInv'
    <2> DEFINE s == [Idle EXCEPT !.at = "resetting", !.r = r, !.f = NewName, !.lock = {RecLock(r)}]
    <2>1. Goto(t, s) /\ MaySend(t, r) /\ UNCHANGED <<rows, media, quar, scene, server>>
      BY <1>6 DEF ResetContinuous, KeepAll
    <2>2. s.at = "resetting"
      BY DEF Idle
    <2> HIDE DEF s
    <2> QED
      BY <1>c, <2>1, <2>2
  <1>7. ASSUME CreateRecording(t, r) \/ CreateContinuous(t, r)
        PROVE  FilesInv'
    BY <1>1, <1>7, Fixed DEF CreateRecording, CreateContinuous
  <1>8. ASSUME NEW p \in AllParts,
               CreateConversationSegment(t, r, p) \/ CreateSessionSegment(t, r, p)
        PROVE  FilesInv'
    BY <1>1, <1>8 DEF CreateConversationSegment, CreateSessionSegment, OpenSegment
  <1>9. ASSUME CompleteRecording(t, r)
        PROVE  FilesInv'
    BY <1>4, <1>9 DEF CompleteRecording
  <1>10. ASSUME NEW p \in AllParts,
                CompleteConversationSegment(t, r, p) \/ CompleteSessionSegment(t, r, p)
         PROVE  FilesInv'
    BY <1>4, <1>10 DEF CompleteConversationSegment, CompleteSessionSegment, VerifySegment
  <1>11. ASSUME CompleteConversation(t, r) \/ CompleteSession(t, r)
         PROVE  FilesInv'
    BY <1>5, <1>11 DEF CompleteConversation, CompleteSession
  <1>12. ASSUME NEW off \in Offsets, UploadContent(t, r, off) \/ UploadContinuous(t, r, off)
         PROVE  FilesInv'
    BY <1>3, <1>12, Fixed DEF UploadContent, UploadContinuous
  <1>13. ASSUME NEW p \in AllParts, NEW off \in Offsets,
                UploadSegment(t, r, p, off) \/ UploadSessionSegment(t, r, p, off)
         PROVE  FilesInv'
    BY <1>3, <1>13 DEF UploadSegment, UploadSessionSegment
  <1> QED
    BY <1>2, <1>6, <1>7, <1>8, <1>9, <1>10, <1>11, <1>12, <1>13 DEF Request

\* So do the steps of a request that commit no recording.
LEMMA StepFiles ==
    ASSUME TypeInv, FilesInv, StatusFinal, NEW t \in Threads \ {"maintenance"},
           \/ ReserveUpload(t) \/ RefuseUpload(t) \/ CommitUpload(t) \/ FailUpload(t)
           \/ CommitChunk(t) \/ FailRequest(t) \/ RefuseFinal(t) \/ Tidy(t)
           \/ CommitVerified(t) \/ RejectSegment(t) \/ AssemblyFails(t) \/ CommitReset(t)
    PROVE  FilesInv'
  <1> DEFINE l == thr[t].at
  <1>a. l # "idle" => server = "up"
    BY Serves DEF FilesInv
  <1>b. Idle.at = "idle"
    BY DEF Idle
  <1>c. ASSUME l \in {"opening", "reserved", "storing", "verifying", "resetting", "finalizing",
                      "assembling", "tidying"}
        PROVE  l \notin Removing \cup {"finalized"} /\ server = "up"
    BY <1>a, <1>c DEF Removing
  <1>d. ASSUME NEW x \in {"idle", "reserved", "tidying"}
        PROVE  x \notin Removing \cup {"finalized", "placing", "accepting"}
    BY DEF Removing
  <1>e. PICK r : r = thr[t].r
    OBVIOUS
  <1>1. ASSUME ReserveUpload(t)
        PROVE  FilesInv'
    <2> DEFINE s == [thr[t] EXCEPT !.at = "reserved", !.f = NewName, !.policy = TRUE]
    <2>1. Goto(t, s) /\ l = "opening" /\ UNCHANGED <<scene, row, media, quar, server>>
      BY <1>1 DEF ReserveUpload, At, KeepAll, rows
    <2>2. s.at = "reserved"
      BY StateOK DEF ThreadState
    <2> HIDE DEF s
    <2> QED
      BY <1>c, <1>d, <2>1, <2>2, PlainFiles
  <1>2. ASSUME \/ RefuseUpload(t) \/ FailUpload(t) \/ FailRequest(t) \/ RefuseFinal(t) \/ Tidy(t)
               \/ AssemblyFails(t) \/ CommitChunk(t) \/ CommitVerified(t)
        PROVE  FilesInv'
    <2>1. /\ Goto(t, Idle) /\ UNCHANGED <<scene, row, media, quar, server>>
          /\ l \in {"opening", "reserved", "storing", "verifying", "resetting", "finalizing",
                    "assembling", "tidying"}
      BY <1>2 DEF RefuseUpload, FailUpload, FailRequest, RefuseFinal, Tidy, AssemblyFails,
         CommitChunk, CommitVerified, At, Done, KeepAll, KeepVolume, rows, volume
    <2> QED
      BY <1>b, <1>c, <1>d, <2>1, PlainFiles
  <1>3. ASSUME RejectSegment(t)
        PROVE  FilesInv'
    <2> DEFINE s == [Idle EXCEPT !.at = "tidying", !.r = thr[t].r,
                                 !.gone = {up[thr[t].r][thr[t].p].dir}]
    <2>1. Goto(t, s) /\ l = "verifying" /\ UNCHANGED <<scene, row, media, quar, server>>
      BY <1>3 DEF RejectSegment, At, KeepVolume, volume
    <2>2. s.at = "tidying"
      BY DEF Idle
    <2> HIDE DEF s
    <2> QED
      BY <1>c, <1>d, <2>1, <2>2, PlainFiles
  <1>4. ASSUME CommitUpload(t)
        PROVE  FilesInv'
    <2>1. /\ Goto(t, Idle) /\ l = "reserved" /\ UNCHANGED <<scene, media, quar, server>>
          /\ row' = row \/ row' = [row EXCEPT ![r].status = "uploading"]
      BY <1>e, <1>4 DEF CommitUpload, At, Done, KeepVolume, volume
    <2>2. r \in Recordings
      BY <1>e, <2>1, StateOK DEF Busy
    <2>3. thr'[t] = Idle /\ \A u \in Threads \ {t} : thr'[u] = thr[u]
      BY <2>1, Moves
    <2>4. CASE row' = row
      BY <1>b, <1>c, <1>d, <2>1, <2>4, PlainFiles
    <2>5. CASE row' = [row EXCEPT ![r].status = "uploading"]
      <3>1. /\ row'[r].status = "uploading" /\ row'[r].media = row[r].media
            /\ \A x \in Recordings \ {r} : row'[x] = row[x]
        BY <2>2, <2>5 DEF TypeInv, RowType, RecordingRow
      <3> QED
        BY <1>b, <1>c, <1>d, <2>1, <2>2, <2>3, <3>1, StatusFiles
    <2> QED
      BY <2>1, <2>4, <2>5
  <1>5. ASSUME CommitReset(t)
        PROVE  FilesInv'
    <2> DEFINE s == [Idle EXCEPT !.at = "tidying", !.r = thr[t].r, !.gone = {up[thr[t].r][0].dir}]
    <2>1. /\ Goto(t, s) /\ l = "resetting" /\ UNCHANGED <<scene, media, quar, server>>
          /\ row' = [row EXCEPT ![r].status = "uploading"]
      BY <1>e, <1>5 DEF CommitReset, At, KeepVolume, volume
    <2>2. s.at = "tidying"
      BY DEF Idle
    <2> HIDE DEF s
    <2>3. r \in Recordings
      BY <1>e, <2>1, StateOK DEF Busy
    <2>4. thr'[t] = s /\ \A u \in Threads \ {t} : thr'[u] = thr[u]
      BY <2>1, Moves
    <2>5. /\ row'[r].status = "uploading" /\ row'[r].media = row[r].media
          /\ \A x \in Recordings \ {r} : row'[x] = row[x]
      BY <2>1, <2>3 DEF TypeInv, RowType, RecordingRow
    <2> QED
      BY <1>c, <1>d, <2>1, <2>2, <2>3, <2>4, <2>5, StatusFiles
  <1> QED
    BY <1>1, <1>2, <1>3, <1>4, <1>5

\* What a step of a serving server has to keep.
LEMMA UpFiles ==
    ASSUME FilesInv, server = "up", server' = "up", scene' = scene,
           thr'["maintenance"] = thr["maintenance"], media' \cap quar' = {},
           \A f \in quar' : thr'["admin"].at \in Removing /\ f \in thr'["admin"].set,
           Aside("admin")', ReadyMedia', \A t \in Threads : Placed(t)',
           scene.kind # "continuous" => \A f \in media' \cup quar' : Accountable(f)'
    PROVE  FilesInv'
  <1>1. /\ Serving' /\ Settling' /\ Aside("maintenance")'
        /\ thr'["maintenance"].at = "idle"
    BY ServingKept DEF FilesInv
  <1>2. AsideInv'
    BY <1>1 DEF AsideInv
  <1>3. Accounted'
    BY <1>1 DEF Accounted, Listed
  <1>4. NoSweep'
    BY DEF NoSweep, FilesInv
  <1> QED
    BY <1>1, <1>2, <1>3, <1>4 DEF FilesInv

\* What holds while the server serves.
LEMMA UpState ==
    ASSUME FilesInv, server = "up"
    PROVE  /\ media \cap quar = {} /\ ReadyMedia /\ Aside("admin")
           /\ \A f \in quar : thr["admin"].at \in Removing /\ f \in thr["admin"].set
           /\ \A t \in Threads : Placed(t)
           /\ scene.kind # "continuous" => \A f \in media \cup quar : Accountable(f)
  BY DEF FilesInv, AsideInv, Accounted

\* New media has a new name.
LEMMA PlaceFiles ==
    ASSUME TypeInv, QuotaInv, FilesInv, NEW t \in Threads \ {"maintenance"},
           thr[t].at \in {"finalizing", "assembling"}, PlaceMedia(t)
    PROVE  FilesInv'
  <1> DEFINE s == [thr[t] EXCEPT !.at = "finalized", !.f = NewName, !.policy = TRUE]
  <1>1. /\ Goto(t, s) /\ CanName /\ media' = media \cup {NewName}
        /\ UNCHANGED <<scene, row, server, quar>>
    BY DEF PlaceMedia, KeepAll, rows
  <1>2. s.at = "finalized" /\ s.f = NewName
    BY StateOK DEF ThreadState
  <1> HIDE DEF s
  <1>3. thr'[t] = s /\ \A u \in Threads \ {t} : thr'[u] = thr[u]
    BY <1>1, Moves
  <1>a. {"admin", "maintenance"} \subseteq Threads
    BY Fixed
  <1>4. server = "up"
    BY Serves DEF FilesInv
  <1>5. /\ NewName \notin quar /\ \A u \in Threads : NewName \notin thr[u].set
        /\ \A r \in Recordings : row[r].media # NewName
    <2>1. NewName \notin Given /\ NewName # None
      BY <1>1, NamesOK, BoundAssumption DEF TypeInv, Names
    <2>2. NewName \notin Name
      BY <2>1 DEF Name
    <2>3. \A u \in Threads : thr[u].set \subseteq Name
      BY StateOK DEF ThreadState
    <2> QED
      BY <2>1, <2>2, <2>3, RowOK DEF TypeInv, VolumeType
  <1>6. media' \cap quar' = {}
    BY <1>1, <1>4, <1>5, UpState
  <1>7. /\ \A f \in quar' : thr'["admin"].at \in Removing /\ f \in thr'["admin"].set
        /\ Aside("admin")'
    <2>1. Ready' = Ready
      BY <1>1 DEF Ready
    <2>2. CASE t = "admin"
      BY <1>1, <1>2, <1>3, <1>4, <2>2, UpState DEF Aside, Removing
    <2>3. CASE t # "admin"
      BY <1>a, <1>1, <1>3, <1>4, <2>1, <2>3, UpState DEF Aside
    <2> QED
      BY <2>2, <2>3
  <1>8. ReadyMedia'
    BY <1>1, <1>4, UpState DEF ReadyMedia, Ready
  <1>9. ASSUME NEW u \in Threads
        PROVE  Placed(u)'
    <2>1. Placed(u)
      BY <1>4, UpState
    <2>2. CASE u = t
      BY <1>1, <1>2, <1>3, <2>2 DEF Placed
    <2>3. CASE u # t
      <3>1. thr'[u] = thr[u]
        BY <1>3, <2>3
      <3>2. thr[u].at = "placing" =>
               \A v \in Threads : thr'[v].at = "finalized" => thr'[v].f \notin thr[u].set
        BY <1>2, <1>3, <1>5, <2>1 DEF Placed
      <3> QED
        BY <1>1, <2>1, <3>1, <3>2 DEF Placed
    <2> QED
      BY <2>2, <2>3
  <1>10. ASSUME scene.kind # "continuous", NEW f \in media' \cup quar'
         PROVE  Accountable(f)'
    <2>1. CASE f = NewName
      BY <1>2, <1>3, <2>1 DEF Accountable
    <2>2. CASE f \in media \cup quar
      <3>1. Accountable(f) /\ Named' = Named
        BY <1>1, <1>4, <1>10, <2>2, UpState DEF Named
      <3> QED
        BY <1>a, <1>3, <3>1 DEF Accountable
    <2> QED
      BY <1>1, <2>1, <2>2
  <1> QED
    BY <1>a, <1>1, <1>3, <1>4, <1>6, <1>7, <1>8, <1>9, <1>10, UpFiles

\* A recording becomes ready with media that is in place.
LEMMA ReadyFiles ==
    ASSUME TypeInv, QuotaInv, FinalInv, FilesInv, NEW t \in Threads \ {"maintenance"},
           CommitReady(t) \/ CommitAssembled(t)
    PROVE  FilesInv'
  <1>1. PICK r : r = thr[t].r
    OBVIOUS
  <1>2. /\ thr[t].at = "finalized" /\ UNCHANGED <<scene, server, media, quar>>
        /\ row' = [row EXCEPT ![r] = [status |-> "ready", media |-> thr[t].f]]
        /\ \E G : Goto(t, [Idle EXCEPT !.at = "tidying", !.r = thr[t].r, !.gone = G])
    BY <1>1 DEF CommitReady, CommitAssembled, KeepVolume, At, volume
  <1>3. r \in Recordings /\ 0 \in AllParts
    BY <1>1, <1>2, StateOK, Fixed DEF Busy
  <1>4. /\ row'[r].status = "ready" /\ row'[r].media = thr[t].f
        /\ \A x \in Recordings \ {r} : row'[x] = row[x]
    BY <1>2, <1>3 DEF TypeInv, RowType
  <1>5. thr'[t].at = "tidying" /\ \A u \in Threads \ {t} : thr'[u] = thr[u]
    <2>1. PICK G : Goto(t, [Idle EXCEPT !.at = "tidying", !.r = thr[t].r, !.gone = G])
      BY <1>2
    <2>2. PICK s : s = [Idle EXCEPT !.at = "tidying", !.r = thr[t].r, !.gone = G]
      OBVIOUS
    <2>3. s.at = "tidying"
      BY <2>2 DEF Idle
    <2>4. thr'[t] = s /\ \A u \in Threads \ {t} : thr'[u] = thr[u]
      BY <2>1, <2>2, Moves
    <2> QED
      BY <2>3, <2>4
  <1>a. {"admin", "maintenance"} \subseteq Threads
    BY Fixed
  <1>6. server = "up" /\ thr[t].f \in media
    <2>1. server = "up"
      BY <1>2, Serves DEF FilesInv
    <2> QED
      BY <1>2, <2>1, UpState DEF Placed
  <1>7. Kind(r) # "continuous" /\ row[r].status = "uploading" /\ row[r].media = None
    <2>1. Kind(r) # "continuous"
      BY <1>1, <1>2 DEF QuotaInv, Promised, SourceHeld
    <2>2. CASE Segmented(r)
      BY <1>1, <1>2, <1>3, <2>1, <2>2 DEF FinalInv, Stands, VoicemailRows
    <2>3. CASE ~Segmented(r)
      <3>1. up[r][0].st = "uploading"
        BY <1>1, <1>2, <2>3 DEF QuotaInv, Promised, SourceHeld
      <3> QED
        BY <1>3, <2>1, <2>3, <3>1 DEF FinalInv, VoicemailRows
    <2> QED
      BY <2>2, <2>3
  <1>8. Ready' = Ready \cup {r} /\ r \notin Ready /\ Ready \subseteq Recordings
    BY <1>3, <1>4, <1>7 DEF Ready
  <1>9. /\ \A f \in quar' : thr'["admin"].at \in Removing /\ f \in thr'["admin"].set
        /\ Aside("admin")'
    <2>1. CASE t = "admin"
      BY <1>2, <1>5, <1>6, <2>1, UpState DEF Aside, Removing
    <2>2. CASE t # "admin"
      <3>1. thr'["admin"] = thr["admin"] /\ Aside("admin")
        BY <1>a, <1>5, <1>6, <2>2, UpState
      <3>2. thr["admin"].at \in {"deleting", "purging"} =>
               \A f \in thr["admin"].set : \E x \in Ready' : row'[x].media = f
        BY <1>4, <1>8, <3>1 DEF Aside
      <3>3. thr["admin"].at = "discarding" =>
               \A x \in Recordings : row'[x].media \notin thr["admin"].set
        <4>1. thr["admin"].at = "discarding" => thr[t].f \notin thr["admin"].set
          BY <1>6, <3>1, UpState DEF Aside, Removing
        <4> QED
          BY <1>4, <3>1, <4>1 DEF Aside
      <3> QED
        BY <1>2, <1>6, <3>1, <3>2, <3>3, UpState DEF Aside
    <2> QED
      BY <2>1, <2>2
  <1>10. ReadyMedia'
    BY <1>2, <1>4, <1>6, <1>8, UpState DEF ReadyMedia
  <1>11. ASSUME NEW u \in Threads
         PROVE  Placed(u)'
    <2>1. Placed(u)
      BY <1>6, UpState
    <2>2. CASE u = t
      BY <1>5, <2>2 DEF Placed
    <2>3. CASE u # t
      <3>1. thr'[u] = thr[u]
        BY <1>5, <2>3
      <3>2. thr[u].at \in {"placing", "accepting"} => thr[u].r \in Recordings /\ thr[u].r # r
        BY <1>7, StateOK DEF QuotaInv, Promised, ReceiptHeld, Busy
      <3>3. \A v \in Threads : thr'[v].at = "finalized" => thr'[v] = thr[v]
        BY <1>5
      <3> QED
        BY <1>2, <1>4, <2>1, <3>1, <3>2, <3>3 DEF Placed
    <2> QED
      BY <2>2, <2>3
  <1>12. ASSUME scene.kind # "continuous", NEW f \in media' \cup quar'
         PROVE  Accountable(f)'
    <2>1. Accountable(f)
      BY <1>2, <1>6, <1>12, UpState
    <2>2. f # None
      BY <1>2, <1>12, NamesOK DEF TypeInv, VolumeType
    <2>3. f \in Named => f \in Named'
      BY <1>4, <1>7, <2>2 DEF Named
    <2>4. thr[t].f \in Named'
      BY <1>3, <1>4 DEF Named
    <2> QED
      BY <1>a, <1>2, <1>5, <2>1, <2>3, <2>4 DEF Accountable
  <1> QED
    BY <1>a, <1>2, <1>5, <1>6, <1>9, <1>10, <1>11, <1>12, UpState, UpFiles

\* Media that is not committed goes.
LEMMA FailReadyFiles ==
    ASSUME TypeInv, QuotaInv, FilesInv, NEW t \in Threads \ {"maintenance"}, FailReady(t)
    PROVE  FilesInv'
  <1>1. /\ thr[t].at = "finalized" /\ UNCHANGED <<scene, server, row, quar>>
        /\ media' = media \ {thr[t].f} /\ Goto(t, Idle)
    BY DEF FailReady, KeepAll, At, Done, rows
  <1>2. thr'[t] = Idle /\ Idle.at = "idle" /\ \A u \in Threads \ {t} : thr'[u] = thr[u]
    BY <1>1, Moves DEF Idle
  <1>a. {"admin", "maintenance"} \subseteq Threads
    BY Fixed
  <1>3. server = "up"
    BY <1>1, Serves DEF FilesInv
  <1>4. /\ \A r \in Recordings : row[r].media # thr[t].f
        /\ \A u \in Threads \ {t} : thr[u].at = "finalized" => thr[u].f # thr[t].f
    BY <1>1 DEF QuotaInv, NamesApart
  <1>5. Ready' = Ready /\ Named' = Named /\ Ready \subseteq Recordings
    BY <1>1 DEF Ready, Named
  <1>6. /\ \A f \in quar' : thr'["admin"].at \in Removing /\ f \in thr'["admin"].set
        /\ Aside("admin")'
    <2>1. CASE t = "admin"
      BY <1>1, <1>2, <1>3, <2>1, UpState DEF Aside, Removing
    <2>2. CASE t # "admin"
      BY <1>a, <1>1, <1>2, <1>3, <1>5, <2>2, UpState DEF Aside
    <2> QED
      BY <2>1, <2>2
  <1>7. ReadyMedia'
    BY <1>1, <1>3, <1>4, <1>5, UpState DEF ReadyMedia
  <1>8. ASSUME NEW u \in Threads
        PROVE  Placed(u)'
    <2>1. Placed(u)
      BY <1>3, UpState
    <2>2. CASE u = t
      BY <1>2, <2>2 DEF Placed
    <2>3. CASE u # t
      <3>1. thr'[u] = thr[u]
        BY <1>2, <2>3
      <3>2. thr[u].at \in {"placing", "accepting"} => thr[u].r \in Recordings
        BY StateOK DEF Busy
      <3>3. \A v \in Threads : thr'[v].at = "finalized" => thr'[v] = thr[v]
        BY <1>2
      <3> QED
        BY <1>1, <1>4, <2>1, <2>3, <3>1, <3>2, <3>3 DEF Placed
    <2> QED
      BY <2>2, <2>3
  <1>9. ASSUME scene.kind # "continuous", NEW f \in media' \cup quar'
        PROVE  Accountable(f)'
    <2>1. Accountable(f)
      BY <1>1, <1>3, <1>9, UpState
    <2>2. f # thr[t].f
      <3>1. CASE f \in media'
        BY <1>1, <3>1
      <3>2. CASE f \in quar
        BY <1>1, <1>3, <3>2, UpState DEF Placed
      <3> QED
        BY <1>1, <3>1, <3>2
    <2> QED
      BY <1>a, <1>1, <1>2, <1>5, <2>1, <2>2 DEF Accountable
  <1> QED
    BY <1>a, <1>1, <1>2, <1>3, <1>6, <1>7, <1>8, <1>9, UpState, UpFiles

\* The worker names its media before it is in place, and replaces only media
\* that it named before.
LEMMA WorkerFiles ==
    ASSUME TypeInv, QuotaInv, StatusFinal, FilesInv, Worker
    PROVE  FilesInv'
  <1>a. "worker" \in Threads \ {"maintenance"} /\ {"admin", "maintenance"} \subseteq Threads
    BY Fixed
  <1>b. Idle.at = "idle"
    BY DEF Idle
  <1>c. "idle" \notin Removing \cup {"finalized", "placing", "accepting"}
        /\ "working" \notin Removing \cup {"finalized", "placing", "accepting"}
        /\ "placing" \notin Removing \cup {"finalized"}
        /\ "accepting" \notin Removing \cup {"finalized"}
    BY DEF Removing
  <1>1. ASSUME NEW r \in Recordings, ProcessNext(r)
        PROVE  FilesInv'
    <2> DEFINE s == [Idle EXCEPT !.at = "working", !.r = r, !.p = 0, !.lock = {}]
    <2>1. /\ server = "up" /\ thr["worker"].at = "idle" /\ Goto("worker", s)
          /\ row' = [row EXCEPT ![r].status = "processing"]
          /\ UNCHANGED <<scene, server, media, quar>>
      BY <1>1 DEF ProcessNext, Begin, At, KeepVolume, volume
    <2>2. s.at = "working"
      BY DEF Idle
    <2> HIDE DEF s
    <2>3. /\ row'[r].status = "processing" /\ row'[r].media = row[r].media
          /\ \A x \in Recordings \ {r} : row'[x] = row[x]
      BY <2>1 DEF TypeInv, RowType, RecordingRow
    <2>4. thr'["worker"] = s /\ \A u \in Threads \ {"worker"} : thr'[u] = thr[u]
      BY <1>a, <2>1, Moves
    <2> QED
      BY <1>a, <1>c, <2>1, <2>2, <2>3, <2>4, StatusFiles
  <1>2. ASSUME NEW state \in {"retrying", "invalid", "needs_attention"}, ProcessFails(state)
        PROVE  FilesInv'
    <2>1. PICK r : r = thr["worker"].r
      OBVIOUS
    <2>2. PICK st \in {"processing", "failed"} :
             /\ thr["worker"].at \in {"working", "placing", "accepting"} /\ Goto("worker", Idle)
             /\ row' = [row EXCEPT ![r].status = st]
             /\ UNCHANGED <<scene, server, media, quar>>
      BY <1>2, <2>1 DEF ProcessFails, Done, KeepVolume, volume
    <2>3. r \in Recordings
      BY <1>a, <2>1, <2>2, StateOK DEF Busy
    <2>4. /\ row'[r].status = st /\ row'[r].media = row[r].media
          /\ \A x \in Recordings \ {r} : row'[x] = row[x]
      BY <2>2, <2>3 DEF TypeInv, RowType, RecordingRow
    <2>5. thr'["worker"] = Idle /\ \A u \in Threads \ {"worker"} : thr'[u] = thr[u]
      BY <1>a, <2>2, Moves
    <2>6. server = "up"
      BY <1>a, <2>2, Serves DEF FilesInv
    <2> QED
      BY <1>a, <1>b, <1>c, <2>2, <2>3, <2>4, <2>5, <2>6, StatusFiles
  <1>d. ASSUME thr["worker"].at \in {"working", "placing", "accepting"}
        PROVE  /\ server = "up" /\ thr["worker"].r \in Recordings /\ scene.kind = "continuous"
               /\ thr["worker"].r \notin Ready
    <2>1. server = "up" /\ thr["worker"].r \in Recordings
      BY <1>a, <1>d, Serves, StateOK DEF FilesInv, Busy
    <2>2. Kind(thr["worker"].r) = "continuous" /\ rcpt[thr["worker"].r] = "processing"
      BY <1>a, <1>d DEF QuotaInv, Promised, ReceiptHeld
    <2>3. row[thr["worker"].r].status # "ready"
      BY <2>1, <2>2 DEF QuotaInv, ReceiptRows
    <2> QED
      BY <2>1, <2>2, <2>3 DEF Kind, Ready
  <1>e. \A u \in Threads : thr[u].at \in {"placing", "accepting"} => u = "worker"
    BY DEF QuotaInv, Promised, ReceiptHeld
  <1>3. ASSUME ReserveMedia
        PROVE  FilesInv'
    <2>1. PICK r : r = thr["worker"].r
      OBVIOUS
    <2> DEFINE s == [thr["worker"] EXCEPT !.at = "placing", !.f = NewName,
                                          !.set = {row[r].media} \ {None}]
    <2>2. /\ thr["worker"].at = "working" /\ CanName /\ row' = [row EXCEPT ![r].media = NewName]
          /\ Goto("worker", s) /\ UNCHANGED <<scene, server, media, quar>>
      BY <1>3, <2>1 DEF ReserveMedia, At
    <2>3. s.at = "placing" /\ s.f = NewName /\ s.set = {row[r].media} \ {None} /\ s.r = r
      BY <1>a, <2>1, StateOK DEF ThreadState
    <2> HIDE DEF s
    <2>4. server = "up" /\ r \in Recordings /\ scene.kind = "continuous" /\ r \notin Ready
      BY <1>d, <2>1, <2>2
    <2>5. thr'["worker"] = s /\ \A u \in Threads \ {"worker"} : thr'[u] = thr[u]
      BY <1>a, <2>2, Moves
    <2>6. /\ row'[r].status = row[r].status /\ row'[r].media = NewName
          /\ \A x \in Recordings \ {r} : row'[x] = row[x]
      BY <2>2, <2>4 DEF TypeInv, RowType, RecordingRow
    <2>7. Ready' = Ready /\ Ready \subseteq Recordings
      BY <2>4, <2>6 DEF Ready
    <2>8. /\ NewName \notin quar /\ \A u \in Threads : NewName \notin thr[u].set
          /\ \A x \in Recordings : row[x].media # NewName
      <3>1. NewName \notin Given /\ NewName # None
        BY <2>2, NamesOK, BoundAssumption DEF TypeInv, Names
      <3>2. NewName \notin Name
        BY <3>1 DEF Name
      <3>3. \A u \in Threads : thr[u].set \subseteq Name
        BY StateOK DEF ThreadState
      <3> QED
        BY <3>1, <3>2, <3>3, RowOK DEF TypeInv, VolumeType
    <2>9. /\ \A f \in quar' : thr'["admin"].at \in Removing /\ f \in thr'["admin"].set
          /\ Aside("admin")'
      <3>1. thr'["admin"] = thr["admin"] /\ Aside("admin")
        BY <1>a, <2>4, <2>5, UpState
      <3>2. thr["admin"].at \in {"deleting", "purging"} =>
               \A f \in thr["admin"].set : \E x \in Ready' : row'[x].media = f
        BY <2>4, <2>6, <2>7, <3>1 DEF Aside
      <3>3. thr["admin"].at = "discarding" =>
               \A x \in Recordings : row'[x].media \notin thr["admin"].set
        BY <1>a, <2>6, <2>8, <3>1 DEF Aside
      <3> QED
        BY <2>2, <2>4, <3>1, <3>2, <3>3, UpState DEF Aside
    <2>10. ReadyMedia'
      BY <2>2, <2>4, <2>6, <2>7, UpState DEF ReadyMedia
    <2>11. ASSUME NEW u \in Threads
           PROVE  Placed(u)'
      <3>1. Placed(u)
        BY <2>4, UpState
      <3>2. CASE u # "worker"
        BY <1>e, <2>2, <2>5, <3>1, <3>2 DEF Placed
      <3>3. CASE u = "worker"
        <4>1. \A x \in Recordings : row'[x].media \notin s.set
          BY <2>3, <2>4, <2>6, <2>8 DEF QuotaInv, NamesApart
        <4>2. \A v \in Threads : thr'[v].at = "finalized" => thr'[v].f \notin s.set
          BY <2>3, <2>4, <2>5 DEF QuotaInv, NamesApart
        <4> QED
          BY <2>2, <2>3, <2>5, <2>6, <2>8, <3>3, <4>1, <4>2 DEF Placed
      <3> QED
        BY <3>2, <3>3
    <2> QED
      BY <1>a, <2>2, <2>4, <2>5, <2>9, <2>10, <2>11, UpState, UpFiles
  <1>4. ASSUME PlaceReserved
        PROVE  FilesInv'
    <2>1. PICK w : w = thr["worker"]
      OBVIOUS
    <2> DEFINE s == [Idle EXCEPT !.at = "accepting", !.r = w.r, !.p = 0, !.lock = {}]
    <2>2. /\ w.at = "placing" /\ media' = (media \cup {w.f}) \ w.set
          /\ Goto("worker", s) /\ UNCHANGED <<scene, server, row, quar>>
      BY <1>4, <2>1 DEF PlaceReserved, At, Begin, KeepAll, rows
    <2>3. s.at = "accepting" /\ s.r = w.r
      BY DEF Idle
    <2> HIDE DEF s
    <2>4. server = "up" /\ w.r \in Recordings /\ scene.kind = "continuous"
      BY <1>d, <2>1, <2>2
    <2>5. thr'["worker"] = s /\ \A u \in Threads \ {"worker"} : thr'[u] = thr[u]
      BY <1>a, <2>2, Moves
    <2>6. Ready' = Ready /\ Ready \subseteq Recordings
      BY <2>2 DEF Ready
    <2>7. /\ row[w.r].media = w.f /\ w.f \notin quar /\ w.f \notin w.set
          /\ \A r \in Recordings : row[r].media \notin w.set
          /\ \A u \in Threads : thr[u].at = "finalized" => thr[u].f \notin w.set
      BY <1>a, <2>1, <2>2, <2>4, UpState DEF Placed
    <2>8. /\ \A f \in quar' : thr'["admin"].at \in Removing /\ f \in thr'["admin"].set
          /\ Aside("admin")'
      BY <1>a, <2>2, <2>4, <2>5, <2>6, UpState DEF Aside
    <2>9. ReadyMedia' /\ media' \cap quar' = {}
      BY <2>2, <2>4, <2>6, <2>7, UpState DEF ReadyMedia
    <2>10. ASSUME NEW u \in Threads
           PROVE  Placed(u)'
      <3>1. Placed(u)
        BY <2>4, UpState
      <3>2. CASE u # "worker"
        BY <1>e, <2>2, <2>5, <2>7, <3>1, <3>2 DEF Placed
      <3>3. CASE u = "worker"
        BY <2>2, <2>3, <2>5, <2>7, <3>3 DEF Placed
      <3> QED
        BY <3>2, <3>3
    <2> QED
      BY <1>a, <2>2, <2>4, <2>5, <2>8, <2>9, <2>10, UpFiles
  <1>5. ASSUME Accept
        PROVE  FilesInv'
    <2>1. PICK r : r = thr["worker"].r
      OBVIOUS
    <2> DEFINE s == [Idle EXCEPT !.at = "tidying", !.r = r, !.gone = {up[r][0].dir}]
    <2>2. /\ thr["worker"].at = "accepting" /\ row' = [row EXCEPT ![r].status = "ready"]
          /\ Goto("worker", s) /\ UNCHANGED <<scene, server, media, quar>>
      BY <1>5, <2>1 DEF Accept, At, KeepVolume, volume
    <2>3. s.at = "tidying"
      BY DEF Idle
    <2> HIDE DEF s
    <2>4. /\ server = "up" /\ r \in Recordings /\ scene.kind = "continuous" /\ r \notin Ready
          /\ row[r].media \in media
      BY <1>a, <1>d, <2>1, <2>2, UpState DEF Placed
    <2>5. thr'["worker"] = s /\ \A u \in Threads \ {"worker"} : thr'[u] = thr[u]
      BY <1>a, <2>2, Moves
    <2>6. /\ row'[r].status = "ready" /\ row'[r].media = row[r].media
          /\ \A x \in Recordings \ {r} : row'[x] = row[x]
      BY <2>2, <2>4 DEF TypeInv, RowType, RecordingRow
    <2>7. Ready' = Ready \cup {r} /\ Ready \subseteq Recordings
      BY <2>4, <2>6 DEF Ready
    <2>8. /\ \A f \in quar' : thr'["admin"].at \in Removing /\ f \in thr'["admin"].set
          /\ Aside("admin")'
      <3>1. thr'["admin"] = thr["admin"] /\ Aside("admin")
        BY <1>a, <2>4, <2>5, UpState
      <3>2. \A x \in Recordings : row'[x].media = row[x].media
        BY <2>6
      <3> QED
        BY <2>2, <2>4, <2>7, <3>1, <3>2, UpState DEF Aside
    <2>9. ReadyMedia'
      BY <2>2, <2>4, <2>6, <2>7, UpState DEF ReadyMedia
    <2>10. ASSUME NEW u \in Threads
           PROVE  Placed(u)'
      <3>1. Placed(u)
        BY <2>4, UpState
      <3>2. CASE u # "worker"
        BY <1>e, <2>2, <2>5, <3>1, <3>2 DEF Placed
      <3>3. CASE u = "worker"
        BY <2>3, <2>5, <3>3 DEF Placed
      <3> QED
        BY <3>2, <3>3
    <2> QED
      BY <1>a, <2>2, <2>4, <2>5, <2>8, <2>9, <2>10, UpState, UpFiles
  <1> QED
    BY <1>1, <1>2, <1>3, <1>4, <1>5 DEF Worker

\* What a step of maintenance has to keep while the server does not serve.
LEMMA StartFiles ==
    ASSUME FilesInv, server # "up", server' # "up", scene' = scene,
           \A u \in Threads \ {"maintenance"} : thr'[u] = thr[u],
           server' = "starting" \/ thr'["maintenance"] = Idle,
           thr'["maintenance"].at \notin {"finalized", "placing", "accepting"},
           media' \cap quar' = {}, Aside("maintenance")', Settling', ReadyMedia',
           scene.kind # "continuous" => Listed'
    PROVE  FilesInv'
  <1>a. "admin" \in Threads \ {"maintenance"} /\ Idle.at = "idle"
    BY Fixed DEF Idle
  <1>1. \A u \in Threads \ {"maintenance"} : thr'[u] = Idle
    BY DEF FilesInv, Serving
  <1>2. Serving' /\ NoSweep'
    BY <1>1 DEF Serving, NoSweep, FilesInv
  <1>3. AsideInv'
    BY <1>a, <1>1 DEF AsideInv, Aside, Removing
  <1>4. \A u \in Threads : Placed(u)'
    BY <1>a, <1>1 DEF Placed
  <1>5. Accounted'
    BY DEF Accounted
  <1> QED
    BY <1>2, <1>3, <1>4, <1>5 DEF FilesInv

\* Nothing is under way: the server is down, or has crashed.
LEMMA DownFiles ==
    ASSUME FilesInv, server' = "down", scene' = scene, \A u \in Threads : thr'[u] = Idle,
           media' \cap quar' = {}, ReadyMedia'
    PROVE  FilesInv'
  <1>a. {"admin", "maintenance"} \subseteq Threads /\ Idle.at = "idle"
    BY Fixed DEF Idle
  <1>1. Serving' /\ NoSweep'
    BY <1>a DEF Serving, NoSweep, FilesInv
  <1>2. AsideInv' /\ Settling' /\ Accounted'
    BY <1>a DEF AsideInv, Aside, Removing, Settling, Accounted, Listed
  <1>3. \A u \in Threads : Placed(u)'
    BY <1>a DEF Placed
  <1> QED
    BY <1>1, <1>2, <1>3 DEF FilesInv

\* Who may be removing media, and when.
LEMMA RemovalState ==
    ASSUME FilesInv, NEW t \in {"admin", "maintenance"}, thr[t].at # "idle"
    PROVE  /\ t \in Threads /\ Idle.at = "idle" /\ media \cap quar = {} /\ Aside(t) /\ ReadyMedia
           /\ t = "admin" => server = "up" /\ thr["maintenance"] = Idle
           /\ t = "maintenance" => /\ server = "starting"
                                   /\ \A u \in Threads \ {"maintenance"} : thr[u] = Idle
           /\ thr[t].at \in Removing => quar \subseteq thr[t].set
  <1>1. t \in Threads /\ "admin" \in Threads \ {"maintenance"} /\ Idle.at = "idle"
    BY Fixed DEF Idle
  <1>2. media \cap quar = {} /\ Aside(t) /\ ReadyMedia
    BY DEF FilesInv, AsideInv
  <1>3. t = "admin" => server = "up" /\ thr["maintenance"] = Idle
    BY <1>1 DEF FilesInv, Serving
  <1>4. t = "maintenance" => /\ server = "starting"
                             /\ \A u \in Threads \ {"maintenance"} : thr[u] = Idle
    BY <1>1 DEF FilesInv, Serving
  <1>5. thr[t].at \in Removing => quar \subseteq thr[t].set
    <2>1. CASE t = "admin"
      BY <1>3, <2>1 DEF FilesInv, AsideInv
    <2>2. CASE t = "maintenance"
      BY <2>2 DEF FilesInv, Settling
    <2> QED
      BY <2>1, <2>2
  <1> QED
    BY <1>1, <1>2, <1>3, <1>4, <1>5

\* Media of ready recordings is moved aside when nothing else is.
LEMMA MoveAside ==
    ASSUME TypeInv, QuotaInv, FilesInv, NEW t \in {"admin", "maintenance"}, NEW s, Goto(t, s),
           s.at \in {"deleting", "purging"}, NEW X \in SUBSET Ready,
           s.set = {row[r].media : r \in X}, s.set \subseteq media, Quarantine(s.set),
           UNCHANGED <<scene, row, server>>,
           t = "admin" => server = "up" /\ thr["admin"].at = "idle",
           t = "maintenance" => thr["maintenance"].at = "prune"
    PROVE  FilesInv'
  <1>a. {"admin", "maintenance"} \subseteq Threads /\ Ready \subseteq Recordings
    BY Fixed DEF Ready
  <1>1. thr'[t] = s /\ \A u \in Threads \ {t} : thr'[u] = thr[u]
    BY <1>a, Moves
  <1>2. Ready' = Ready /\ Named' = Named /\ media' = media \ s.set /\ quar' = quar \cup s.set
    BY DEF Ready, Named, Quarantine
  <1>3. quar = {}
    <2>1. CASE t = "admin"
      BY <2>1, UpState DEF Removing
    <2>2. CASE t = "maintenance"
      BY <2>2 DEF FilesInv, Settling
    <2> QED
      BY <2>1, <2>2
  <1>4. media' \cap quar' = {} /\ media' \cup quar' = media \cup quar /\ quar' = s.set
    BY <1>2, <1>3
  <1>5. Aside(t)'
    <2>1. \A f \in s.set : \E r \in Ready' : row'[r].media = f
      BY <1>2
    <2> QED
      BY <1>1, <1>4, <2>1 DEF Aside
  <1>6. ReadyMedia'
    BY <1>2, <1>4 DEF FilesInv, ReadyMedia
  <1>7. s.at \in Removing
    BY DEF Removing
  <1>8. CASE t = "admin"
    <2>1. ASSUME NEW u \in Threads
          PROVE  Placed(u)'
      <3>1. Placed(u)
        BY DEF FilesInv
      <3>2. CASE u = "admin"
        BY <1>1, <1>8, <3>2 DEF Placed
      <3>3. CASE u # "admin"
        <4>1. thr'[u] = thr[u]
          BY <1>1, <1>8, <3>3
        <4>2. thr[u].at = "finalized" => thr[u].f \notin s.set
          BY <1>a DEF QuotaInv, NamesApart
        <4>3. thr[u].at \in {"placing", "accepting"} => row[thr[u].r].media \notin s.set
          <5>1. SUFFICES ASSUME thr[u].at \in {"placing", "accepting"},
                                NEW x \in X, row[thr[u].r].media = row[x].media
                         PROVE  FALSE
            OBVIOUS
          <5>2. thr[u].r \in Recordings /\ thr[u].r \notin Ready
            <6>1. thr[u].r \in Recordings
              BY <5>1, StateOK DEF Busy
            <6>2. Kind(thr[u].r) = "continuous" /\ rcpt[thr[u].r] = "processing"
              BY <5>1 DEF QuotaInv, Promised, ReceiptHeld
            <6> QED
              BY <6>1, <6>2 DEF QuotaInv, ReceiptRows, Ready
          <5>3. row[x].media \in media
            OBVIOUS
          <5>4. row[x].media # None
            BY <5>3, NamesOK DEF TypeInv, VolumeType
          <5> QED
            BY <1>a, <5>1, <5>2, <5>4 DEF QuotaInv, NamesApart
        <4>4. \A v \in Threads : thr'[v].at = "finalized" => thr'[v] = thr[v]
          BY <1>1
        <4> QED
          BY <1>2, <1>4, <3>1, <4>1, <4>2, <4>3, <4>4 DEF Placed
      <3> QED
        BY <3>2, <3>3
    <2>2. ASSUME scene.kind # "continuous", NEW f \in media' \cup quar'
          PROVE  Accountable(f)'
      <3>1. Accountable(f)
        BY <1>4, <1>8, <2>2, UpState
      <3> QED
        BY <1>1, <1>2, <1>8, <3>1 DEF Accountable
    <2> QED
      BY <1>a, <1>1, <1>4, <1>5, <1>6, <1>7, <1>8, <2>1, <2>2, UpFiles
  <1>9. CASE t = "maintenance"
    <2>1. server = "starting"
      BY <1>9, RemovalState
    <2>2. Settling'
      BY <1>1, <1>4, <1>7, <1>9 DEF Settling
    <2>3. scene.kind # "continuous" => Listed'
      BY <1>1, <1>2, <1>4, <1>9 DEF FilesInv, Accounted, Listed
    <2> QED
      BY <1>1, <1>4, <1>5, <1>6, <1>9, <2>1, <2>2, <2>3, StartFiles
  <1> QED
    BY <1>8, <1>9

\* Retention moves the media of expired recordings aside.
LEMMA PurgeFiles ==
    ASSUME TypeInv, QuotaInv, FilesInv, NEW t \in {"admin", "maintenance"}, NEW X \in SUBSET Ready,
           NEW A, PurgeExpired(t, X, A),
           t = "admin" => server = "up" /\ thr["admin"].at = "idle",
           t = "maintenance" => thr["maintenance"].at = "prune"
    PROVE  FilesInv'
  <1> DEFINE F == {row[r].media : r \in X}
             G == {<<q, up[q[1]][q[2]].dir>> : q \in A}
             s == [Idle EXCEPT !.at = "purging", !.set = F, !.policy = TRUE, !.gone = G]
  <1>1. F \subseteq media /\ Goto(t, s) /\ Quarantine(F) /\ UNCHANGED <<scene, row, server>>
    BY DEF PurgeExpired, Quarantinable, rows
  <1>2. s.at = "purging" /\ s.set = F
    BY DEF Idle
  <1> HIDE DEF s, G
  <1> QED
    BY <1>1, <1>2, MoveAside

\* A removal by the administrator begins.
LEMMA RemovalBeginsFiles ==
    ASSUME TypeInv, QuotaInv, FilesInv,
           (\E r \in Recordings : DeleteRecording(r)) \/ GetSettings \/ PutSettings
    PROVE  FilesInv'
  <1>1. ASSUME NEW r \in Recordings, DeleteRecording(r)
        PROVE  FilesInv'
    <2> DEFINE s == [Idle EXCEPT !.at = "deleting", !.set = {row[r].media}, !.lock = {RecLock(r)}]
    <2>1. /\ row[r].media \in media /\ row[r].status = "ready" /\ Goto("admin", s)
          /\ server = "up" /\ thr["admin"].at = "idle" /\ Quarantine({row[r].media})
          /\ UNCHANGED <<scene, row, server>>
      BY <1>1 DEF DeleteRecording, Quarantinable, At, rows
    <2>2. s.at = "deleting" /\ s.set = {row[r].media}
      BY DEF Idle
    <2> HIDE DEF s
    <2>3. {r} \in SUBSET Ready /\ s.set = {row[x].media : x \in {r}}
      BY <2>1, <2>2 DEF Ready
    <2> QED
      BY <2>1, <2>2, <2>3, MoveAside
  <1>2. ASSUME GetSettings \/ PutSettings
        PROVE  FilesInv'
    <2>1. PICK X \in SUBSET Ready, A \in {Abandoned, {}} :
             PurgeExpired("admin", X, A) /\ server = "up" /\ thr["admin"].at = "idle"
      BY <1>2 DEF GetSettings, PutSettings, At
    <2> QED
      BY <2>1, PurgeFiles
  <1> QED
    BY <1>1, <1>2

\* The rows that a removal writes.
LEMMA RemovedRows ==
    ASSUME TypeInv, NEW t \in Threads, thr[t].at \in {"deleting", "purging"}, CleanupAbandoned(t)
    PROVE  /\ None \notin thr[t].set
           /\ \A r \in Recordings :
                 /\ row[r].media \in thr[t].set => row'[r].status = "deleted" /\ row'[r].media = None
                 /\ row[r].media \notin thr[t].set =>
                       /\ row'[r].media = row[r].media
                       /\ row'[r].status \in {row[r].status, "failed"}
  <1>1. None \notin thr[t].set
    BY StateOK, NamesOK DEF Equipped, TypeInv
  <1>2. ASSUME NEW r \in Recordings
        PROVE  /\ row[r].media \in thr[t].set => row'[r].status = "deleted" /\ row'[r].media = None
               /\ row[r].media \notin thr[t].set =>
                     /\ row'[r].media = row[r].media
                     /\ row'[r].status \in {row[r].status, "failed"}
    <2>1. row'[r] = IF row[r].media \in thr[t].set THEN Tombstone
                    ELSE IF <<r, 0>> \in {g[1] : g \in thr[t].gone} /\ ~Segmented(r)
                         THEN [row[r] EXCEPT !.status = "failed"] ELSE row[r]
      BY DEF CleanupAbandoned
    <2>2. /\ [row[r] EXCEPT !.status = "failed"].status = "failed"
          /\ [row[r] EXCEPT !.status = "failed"].media = row[r].media
      BY RowOK DEF RecordingRow
    <2>3. Tombstone.status = "deleted" /\ Tombstone.media = None
      BY DEF Tombstone
    <2> QED
      BY <2>1, <2>2, <2>3
  <1> QED
    BY <1>1, <1>2

\* The rows of what was moved aside become tombstones.
LEMMA CommitRemovalFiles ==
    ASSUME TypeInv, QuotaInv, FilesInv, NEW t \in {"admin", "maintenance"}, CommitRemoval(t)
    PROVE  FilesInv'
  <1> DEFINE s == [Idle EXCEPT !.at = "discarding", !.set = thr[t].set,
                               !.gone = {g[2] : g \in thr[t].gone}]
  <1>1. /\ thr[t].at \in {"deleting", "purging"} /\ CleanupAbandoned(t) /\ Goto(t, s)
        /\ UNCHANGED <<scene, media, quar, server>>
    BY DEF CommitRemoval, volume
  <1>2. s.at = "discarding" /\ s.set = thr[t].set
    BY DEF Idle
  <1> HIDE DEF s
  <1>3. /\ t \in Threads /\ Idle.at = "idle" /\ media \cap quar = {} /\ Aside(t) /\ ReadyMedia
        /\ t = "admin" => server = "up" /\ thr["maintenance"] = Idle
        /\ t = "maintenance" => server = "starting"
        /\ quar \subseteq thr[t].set
    BY <1>1, RemovalState DEF Removing
  <1>4. thr'[t] = s /\ \A u \in Threads \ {t} : thr'[u] = thr[u]
    BY <1>1, <1>3, Moves
  <1>5. /\ None \notin thr[t].set
        /\ \A r \in Recordings :
              /\ row[r].media \in thr[t].set => row'[r].status = "deleted" /\ row'[r].media = None
              /\ row[r].media \notin thr[t].set =>
                    /\ row'[r].media = row[r].media
                    /\ row'[r].status \in {row[r].status, "failed"}
    BY <1>1, <1>3, RemovedRows
  <1>6. thr[t].set \subseteq quar
    BY <1>1, <1>3 DEF Aside, Removing
  <1>7. Aside(t)'
    BY <1>1, <1>2, <1>4, <1>5, <1>6 DEF Aside
  <1>8. ReadyMedia'
    BY <1>1, <1>3, <1>5 DEF ReadyMedia, Ready
  <1>9. \A f \in Named : f \in Named' \cup thr[t].set
    BY <1>5 DEF Named
  <1>a. {"admin", "maintenance"} \subseteq Threads
    BY Fixed
  <1>10. CASE t = "admin"
    <2>1. ASSUME NEW u \in Threads
          PROVE  Placed(u)'
      <3>1. Placed(u)
        BY DEF FilesInv
      <3>2. CASE u = "admin"
        BY <1>2, <1>4, <1>10, <3>2 DEF Placed
      <3>3. CASE u # "admin"
        <4>1. thr'[u] = thr[u]
          BY <1>4, <1>10, <3>3
        <4>2. thr[u].at \in {"placing", "accepting"} =>
                 thr[u].r \in Recordings /\ row'[thr[u].r].media = row[thr[u].r].media
          <5>1. thr[u].at \in {"placing", "accepting"} => thr[u].r \in Recordings
            BY StateOK DEF Busy
          <5>2. thr[u].at \in {"placing", "accepting"} => row[thr[u].r].media \notin thr[t].set
            BY <1>3, <1>6, <3>1 DEF Placed
          <5> QED
            BY <1>5, <5>1, <5>2
        <4>3. thr[u].at = "placing" => \A r \in Recordings : row'[r].media \notin thr[u].set
          BY <1>5, <3>1 DEF Placed
        <4>4. \A v \in Threads : thr'[v].at = "finalized" => thr'[v] = thr[v]
          BY <1>2, <1>4
        <4> QED
          BY <1>1, <3>1, <4>1, <4>2, <4>3, <4>4 DEF Placed
      <3> QED
        BY <3>2, <3>3
    <2>2. ASSUME scene.kind # "continuous", NEW f \in media' \cup quar'
          PROVE  Accountable(f)'
      <3>1. Accountable(f)
        BY <1>1, <1>3, <1>10, <2>2, UpState
      <3>2. f \in thr[t].set => Accountable(f)'
        BY <1>2, <1>4, <1>10 DEF Accountable
      <3>3. f \in Named => Accountable(f)'
        BY <1>9, <3>2 DEF Accountable
      <3> QED
        BY <1>1, <1>4, <1>10, <3>1, <3>3 DEF Accountable
    <2>3. \A f \in quar' : thr'["admin"].at \in Removing /\ f \in thr'["admin"].set
      BY <1>1, <1>2, <1>3, <1>4, <1>10 DEF Removing
    <2> QED
      BY <1>a, <1>1, <1>3, <1>4, <1>7, <1>8, <1>10, <2>1, <2>2, <2>3, UpFiles
  <1>11. CASE t = "maintenance"
    <2>1. Settling'
      BY <1>1, <1>2, <1>3, <1>4, <1>11 DEF Settling, Removing
    <2>2. scene.kind # "continuous" => Listed'
      <3>1. scene.kind # "continuous" => media \cup quar \subseteq Named
        BY <1>1, <1>11 DEF FilesInv, Accounted, Listed
      <3> QED
        BY <1>1, <1>2, <1>4, <1>9, <1>11, <3>1 DEF Listed
    <2> QED
      BY <1>1, <1>2, <1>3, <1>4, <1>7, <1>8, <1>11, <2>1, <2>2, StartFiles
  <1> QED
    BY <1>10, <1>11

\* What was moved aside goes, and a start is over.
LEMMA DiscardFiles ==
    ASSUME TypeInv, FilesInv, NEW t \in {"admin", "maintenance"}, DiscardRemoved(t)
    PROVE  FilesInv'
  <1>1. /\ thr[t].at = "discarding" /\ quar' = quar \ thr[t].set /\ Goto(t, Idle)
        /\ UNCHANGED <<scene, row, media>>
        /\ server' = IF t = "maintenance" /\ server = "starting" THEN "up" ELSE server
    BY DEF DiscardRemoved, Returns, Done, At, rows
  <1>2. /\ t \in Threads /\ Idle.at = "idle" /\ media \cap quar = {} /\ Aside(t) /\ ReadyMedia
        /\ t = "admin" => server = "up" /\ thr["maintenance"] = Idle
        /\ t = "maintenance" => /\ server = "starting"
                                /\ \A u \in Threads \ {"maintenance"} : thr[u] = Idle
        /\ quar \subseteq thr[t].set
    BY <1>1, RemovalState DEF Removing
  <1>3. thr'[t] = Idle /\ \A u \in Threads \ {t} : thr'[u] = thr[u]
    BY <1>1, <1>2, Moves
  <1>4. quar' = {} /\ thr[t].set \cap media = {}
    BY <1>1, <1>2 DEF Aside, Removing
  <1>5. Ready' = Ready /\ Named' = Named /\ Ready \subseteq Recordings
    BY <1>1 DEF Ready, Named
  <1>6. ReadyMedia'
    BY <1>1, <1>2, <1>5 DEF ReadyMedia, Aside
  <1>a. {"admin", "maintenance"} \subseteq Threads
    BY Fixed
  <1>7. CASE t = "admin"
    <2>1. Aside("admin")'
      BY <1>2, <1>3, <1>7 DEF Aside, Removing
    <2>2. ASSUME NEW u \in Threads
          PROVE  Placed(u)'
      <3>1. Placed(u)
        BY DEF FilesInv
      <3>2. CASE u = "admin"
        BY <1>2, <1>3, <1>7, <3>2 DEF Placed
      <3>3. CASE u # "admin"
        <4>1. thr'[u] = thr[u]
          BY <1>3, <1>7, <3>3
        <4>2. \A v \in Threads : thr'[v].at = "finalized" => thr'[v] = thr[v]
          BY <1>2, <1>3
        <4> QED
          BY <1>1, <3>1, <4>1, <4>2 DEF Placed
      <3> QED
        BY <3>2, <3>3
    <2>3. ASSUME scene.kind # "continuous", NEW f \in media' \cup quar'
          PROVE  Accountable(f)'
      <3>1. Accountable(f) /\ f \notin thr[t].set
        BY <1>1, <1>2, <1>4, <1>7, <2>3, UpState
      <3> QED
        BY <1>1, <1>3, <1>5, <1>7, <3>1 DEF Accountable
    <2> QED
      BY <1>a, <1>1, <1>2, <1>3, <1>4, <1>6, <1>7, <2>1, <2>2, <2>3, UpFiles
  <1>8. CASE t = "maintenance"
    <2>1. server' = "up" /\ \A u \in Threads : thr'[u] = Idle
      BY <1>1, <1>2, <1>3, <1>8
    <2>2. Serving' /\ NoSweep'
      BY <1>a, <1>1, <2>1 DEF Serving, NoSweep, FilesInv
    <2>3. AsideInv' /\ Settling'
      BY <1>a, <1>2, <1>4, <2>1 DEF AsideInv, Aside, Settling, Removing
    <2>4. \A u \in Threads : Placed(u)'
      BY <1>2, <2>1 DEF Placed
    <2>5. Accounted'
      <3>1. scene.kind # "continuous" => media \subseteq Named
        BY <1>1, <1>4, <1>8 DEF FilesInv, Accounted, Listed
      <3>2. Listed'
        BY <1>a, <1>2, <2>1 DEF Listed
      <3> QED
        BY <1>1, <1>4, <1>5, <3>1, <3>2 DEF Accounted, Accountable
    <2> QED
      BY <1>6, <2>2, <2>3, <2>4, <2>5 DEF FilesInv
  <1> QED
    BY <1>7, <1>8

\* A removal that fails puts everything back.
LEMMA FailRemovalFiles ==
    ASSUME TypeInv, FilesInv, NEW t \in {"admin", "maintenance"}, FailRemoval(t)
    PROVE  FilesInv'
  <1>1. /\ thr[t].at \in {"deleting", "purging"} /\ Restore(thr[t].set) /\ Goto(t, Idle)
        /\ UNCHANGED <<scene, row>>
        /\ server' = IF t = "maintenance" /\ server = "starting" THEN "down" ELSE server
    BY DEF FailRemoval, Raises, Done, rows
  <1>2. /\ t \in Threads /\ Idle.at = "idle" /\ media \cap quar = {} /\ Aside(t) /\ ReadyMedia
        /\ t = "admin" => server = "up" /\ thr["maintenance"] = Idle
        /\ t = "maintenance" => /\ server = "starting"
                                /\ \A u \in Threads \ {"maintenance"} : thr[u] = Idle
        /\ quar \subseteq thr[t].set
    BY <1>1, RemovalState DEF Removing
  <1>3. thr'[t] = Idle /\ \A u \in Threads \ {t} : thr'[u] = thr[u]
    BY <1>1, <1>2, Moves
  <1>4. quar' = {} /\ media' = media \cup quar
    BY <1>1, <1>2 DEF Restore
  <1>5. Ready' = Ready /\ Named' = Named /\ Ready \subseteq Recordings
    BY <1>1 DEF Ready, Named
  <1>6. ReadyMedia'
    BY <1>1, <1>2, <1>4, <1>5 DEF ReadyMedia
  <1>a. {"admin", "maintenance"} \subseteq Threads
    BY Fixed
  <1>7. CASE t = "admin"
    <2>1. Aside("admin")'
      BY <1>2, <1>3, <1>7 DEF Aside, Removing
    <2>2. ASSUME NEW u \in Threads
          PROVE  Placed(u)'
      <3>1. Placed(u)
        BY DEF FilesInv
      <3>2. CASE u = "admin"
        BY <1>2, <1>3, <1>7, <3>2 DEF Placed
      <3>3. CASE u # "admin"
        <4>1. thr'[u] = thr[u]
          BY <1>3, <1>7, <3>3
        <4>2. \A v \in Threads : thr'[v].at = "finalized" => thr'[v] = thr[v]
          BY <1>2, <1>3
        <4> QED
          BY <1>1, <1>4, <3>1, <4>1, <4>2 DEF Placed
      <3> QED
        BY <3>2, <3>3
    <2>3. ASSUME scene.kind # "continuous", NEW f \in media' \cup quar'
          PROVE  Accountable(f)'
      <3>1. Accountable(f)
        BY <1>1, <1>2, <1>4, <1>7, <2>3, UpState
      <3> QED
        BY <1>1, <1>3, <1>5, <1>7, <3>1 DEF Accountable
    <2> QED
      BY <1>a, <1>1, <1>2, <1>3, <1>4, <1>6, <1>7, <2>1, <2>2, <2>3, UpFiles
  <1>8. CASE t = "maintenance"
    BY <1>1, <1>2, <1>3, <1>4, <1>6, <1>8, DownFiles
  <1> QED
    BY <1>7, <1>8

\* The scenario is the same in every state.
LEMMA SceneConstant ==
    ASSUME [Next]_vars
    PROVE  scene' = scene
  <1>1. ASSUME NEW t, NEW r, Request(t, r)
        PROVE  scene' = scene
    BY <1>1 DEF Request, CreateRecording, CreateContinuous, CreateConversation, CreateSession,
       CompleteRecording, CompleteConversation, CompleteSession, CompleteContinuous,
       ResetContinuous, UploadContent, UploadContinuous, CreateConversationSegment,
       CreateSessionSegment, CompleteConversationSegment, CompleteSessionSegment, UploadSegment,
       UploadSessionSegment, Opening, OpenSegmented, OpenSegment, StoreChunk, VerifySegment,
       Assemble, KeepAll, KeepVolume
  <1>2. ASSUME NEW t, Continue(t)
        PROVE  scene' = scene
    BY <1>2 DEF Continue, ReserveUpload, RefuseUpload, CommitUpload, FailUpload, CommitChunk,
       FailRequest, Finalize, RefuseFinal, CommitReady, FailReady, Tidy, CommitVerified,
       RejectSegment, AssembleConversation, AssemblyFails, CommitAssembled, CommitReset, PlaceMedia,
       KeepAll, KeepVolume
  <1>3. ASSUME Removal
        PROVE  scene' = scene
    BY <1>3 DEF Removal, DeleteRecording, GetSettings, PutSettings, PurgeExpired, CommitRemoval,
       DiscardRemoved, FailRemoval
  <1>4. ASSUME Maintenance
        PROVE  scene' = scene
    BY <1>4 DEF Maintenance, StartServer, HourlyMaintenance, JudgeQuarantined, JudgeMedia,
       PruneDirectory, SettleQuarantined, ScanRoot, UnlinkMedia, ReadActiveNames, ListUploads,
       ApplyRetention, MaintenanceFails, PurgeExpired, KeepRows
  <1>5. ASSUME Worker
        PROVE  scene' = scene
    BY <1>5 DEF Worker, ProcessNext, ReserveMedia, PlaceReserved, Accept, ProcessFails, KeepAll,
       KeepVolume
  <1>6. ASSUME Crash \/ (\E r \in Recordings : RecoverPartial(r))
               \/ (\E r \in Recordings, p \in AllParts : GrowStale(r, p))
        PROVE  scene' = scene
    BY <1>6 DEF Crash, RecoverPartial, Assemble, GrowStale, KeepAll
  <1>7. ASSUME Tablet
        PROVE  scene' = scene
    BY <1>1, <1>7 DEF Tablet, HearAcknowledged, HearSegment
  <1> QED
    BY <1>2, <1>3, <1>4, <1>5, <1>6, <1>7 DEF Next, vars

\* A pass of maintenance over the volume, while the server starts.
LEMMA PassFiles ==
    ASSUME TypeInv, FilesInv, server # "up", server' = "starting", scene' = scene, NEW s,
           Goto("maintenance", s), s.at \in Passes, media' \cap quar' = {}, ReadyMedia', Settling',
           scene.kind # "continuous" => Listed'
    PROVE  FilesInv'
  <1>1. thr'["maintenance"] = s /\ \A u \in Threads \ {"maintenance"} : thr'[u] = thr[u]
    BY Fixed, Moves
  <1>2. Aside("maintenance")' /\ s.at \notin {"finalized", "placing", "accepting"}
    BY <1>1 DEF Aside, Removing, Passes
  <1> QED
    BY <1>1, <1>2, StartFiles

\* A start settles what a crash left, and removes nothing that a row names.
LEMMA MaintenanceFiles ==
    ASSUME TypeInv, QuotaInv, FilesInv, Maintenance
    PROVE  FilesInv'
  <1>m. PICK m : m = thr["maintenance"]
    OBVIOUS
  <1>a. "maintenance" \in Threads /\ m \in ThreadState /\ Idle.at = "idle"
    BY <1>m, Fixed, StateOK DEF Idle
  <1>b. m.at # "idle" => server = "starting"
    BY <1>m, <1>a DEF FilesInv, Serving
  <1>c. ASSUME NEW l, NEW S, NEW G, Maintain(l, S, G)
        PROVE  /\ \E s : Goto("maintenance", s) /\ s.at = l
               /\ thr'["maintenance"].at = l /\ thr'["maintenance"].set = S
    <2> DEFINE s == [Idle EXCEPT !.at = l, !.set = S, !.gone = G]
    <2>1. Goto("maintenance", s)
      BY <1>c DEF Maintain
    <2>2. s.at = l /\ s.set = S
      BY DEF Idle
    <2> HIDE DEF s
    <2>3. thr'["maintenance"] = s
      BY <1>a, <2>1, Moves
    <2> QED
      BY <2>1, <2>2, <2>3
  <1>d. ASSUME NEW l, NEW f, Judging(l, f)
        PROVE  /\ \E s : Goto("maintenance", s) /\ s.at = l
               /\ thr'["maintenance"].at = l /\ thr'["maintenance"].set = m.set \ {f}
               /\ thr'["maintenance"].f = f
    <2> DEFINE s == [m EXCEPT !.at = l, !.f = f, !.set = @ \ {f}]
    <2>1. Goto("maintenance", s)
      BY <1>d, <1>m DEF Judging
    <2>2. s.at = l /\ s.set = m.set \ {f} /\ s.f = f
      BY <1>a DEF ThreadState
    <2> HIDE DEF s
    <2>3. thr'["maintenance"] = s
      BY <1>a, <2>1, Moves
    <2> QED
      BY <2>1, <2>2, <2>3
  <1>e. /\ media \cap quar = {} /\ ReadyMedia /\ (scene.kind # "continuous" => Listed) /\ Settling
        /\ Ready \subseteq Recordings
    BY DEF FilesInv, AsideInv, Accounted, Ready
  <1>f. KeepRows => UNCHANGED <<scene, row>> /\ Ready' = Ready /\ Named' = Named
    BY DEF KeepRows, rows, Ready, Named
  <1>g. {"quarantine", "restore", "erase", "root", "unlink", "uploads", "prune"} \subseteq Passes
    BY DEF Passes
  <1>h. ASSUME KeepRows, UNCHANGED <<media, quar>>
        PROVE  ReadyMedia' /\ media' \cap quar' = {}
    BY <1>e, <1>f, <1>h DEF ReadyMedia
  <1>1. ASSUME StartServer
        PROVE  FilesInv'
    <2>1. /\ server = "down" /\ server' = "starting" /\ Maintain("quarantine", quar, {}) /\ KeepRows
          /\ UNCHANGED <<media, quar>>
      BY <1>1 DEF StartServer
    <2>2. /\ thr'["maintenance"].at = "quarantine" /\ thr'["maintenance"].set = quar
          /\ \E s : Goto("maintenance", s) /\ s.at = "quarantine"
      BY <1>c, <2>1
    <2>3. Settling' /\ Listed'
      BY <2>1, <2>2 DEF Settling, Listed, Removing
    <2> QED
      BY <1>f, <1>g, <1>h, <2>1, <2>2, <2>3, PassFiles
  <1>2. ASSUME HourlyMaintenance
        PROVE  FilesInv'
    BY <1>2 DEF HourlyMaintenance, FilesInv, NoSweep
  <1>3. ASSUME NEW f \in Names, JudgeQuarantined(f)
        PROVE  FilesInv'
    <2>1. PICK l \in {"restore", "erase"} :
             /\ m.at = "quarantine" /\ f \in quar /\ Judging(l, f) /\ KeepRows
             /\ l = "erase" => ~Owned(f, {"ready"})
             /\ UNCHANGED <<media, quar, server>>
      BY <1>3, <1>m DEF JudgeQuarantined, At
    <2>2. /\ thr'["maintenance"].at = l /\ thr'["maintenance"].set = m.set \ {f}
          /\ thr'["maintenance"].f = f /\ \E s : Goto("maintenance", s) /\ s.at = l
      BY <1>d, <2>1
    <2>3. l = "erase" => \A r \in Ready : row[r].media # f
      BY <2>1 DEF Owned, Ready
    <2>4. quar \subseteq m.set
      BY <1>m, <1>e, <2>1 DEF Settling
    <2>5. Settling' /\ Listed'
      BY <1>f, <2>1, <2>2, <2>3, <2>4 DEF Settling, Listed, Removing
    <2>6. server = "starting"
      BY <1>b, <2>1
    <2> QED
      BY <1>f, <1>g, <1>h, <2>1, <2>2, <2>5, <2>6, PassFiles
  <1>4. ASSUME SettleQuarantined
        PROVE  FilesInv'
    <2>1. /\ m.at \in {"restore", "erase"} /\ m.f \in quar
          /\ quar' = quar \ {m.f} /\ media' = IF m.at = "restore" THEN media \cup {m.f} ELSE media
          /\ Maintain("quarantine", m.set, {}) /\ KeepRows /\ UNCHANGED server
      BY <1>4, <1>m DEF SettleQuarantined, At, Restore
    <2>2. /\ thr'["maintenance"].at = "quarantine" /\ thr'["maintenance"].set = m.set
          /\ \E s : Goto("maintenance", s) /\ s.at = "quarantine"
      BY <1>c, <2>1
    <2>3. quar \subseteq m.set \cup {m.f} /\ (m.at = "erase" => \A r \in Ready : row[r].media # m.f)
      BY <1>m, <1>e, <2>1 DEF Settling
    <2>4. Settling' /\ Listed'
      BY <2>1, <2>2, <2>3 DEF Settling, Listed, Removing
    <2>5. media' \cap quar' = {}
      BY <1>e, <2>1
    <2>6. ReadyMedia'
      BY <1>e, <1>f, <2>1, <2>3 DEF ReadyMedia
    <2>7. server = "starting"
      BY <1>b, <2>1
    <2> QED
      BY <1>f, <1>g, <2>1, <2>2, <2>4, <2>5, <2>6, <2>7, PassFiles
  <1>5. ASSUME ScanRoot
        PROVE  FilesInv'
    <2>1. /\ m.at = "quarantine" /\ m.set = {} /\ Maintain("root", media \cup TempEntries, {})
          /\ KeepRows /\ UNCHANGED <<media, quar, server>>
      BY <1>5, <1>m DEF ScanRoot, At
    <2>2. /\ thr'["maintenance"].at = "root" /\ media \subseteq thr'["maintenance"].set
          /\ \E s : Goto("maintenance", s) /\ s.at = "root"
      BY <1>c, <2>1
    <2>3. quar = {}
      BY <1>m, <1>e, <2>1 DEF Settling
    <2>4. Settling' /\ Listed'
      BY <2>1, <2>2, <2>3 DEF Settling, Listed, Removing
    <2>5. server = "starting"
      BY <1>b, <2>1
    <2> QED
      BY <1>f, <1>g, <1>h, <2>1, <2>2, <2>4, <2>5, PassFiles
  <1>6. ASSUME NEW f \in Names, JudgeMedia(f)
        PROVE  FilesInv'
    <2>1. PICK l \in {"root", "unlink"} :
             /\ m.at = "root" /\ f \in media /\ Judging(l, f) /\ KeepRows
             /\ l = "unlink" => ~Owned(f, {"ready", "processing"})
             /\ l = "root" => Owned(f, {"ready", "processing"})
             /\ UNCHANGED <<media, quar, server>>
      BY <1>6, <1>m DEF JudgeMedia, At
    <2>2. /\ thr'["maintenance"].at = l /\ thr'["maintenance"].set = m.set \ {f}
          /\ thr'["maintenance"].f = f /\ \E s : Goto("maintenance", s) /\ s.at = l
      BY <1>d, <2>1
    <2>3. /\ l = "unlink" => \A r \in Ready : row[r].media # f
          /\ l = "root" => f \in Named
      BY <2>1 DEF Owned, Ready, Named
    <2>4. quar = {} /\ (scene.kind # "continuous" => media \subseteq Named \cup m.set)
      BY <1>m, <1>e, <2>1 DEF Settling, Listed
    <2>5. Settling'
      BY <1>f, <2>1, <2>2, <2>3, <2>4 DEF Settling, Removing
    <2>6. scene.kind # "continuous" => Listed'
      BY <1>f, <2>1, <2>2, <2>3, <2>4 DEF Listed
    <2>7. server = "starting"
      BY <1>b, <2>1
    <2> QED
      BY <1>f, <1>g, <1>h, <2>1, <2>2, <2>5, <2>6, <2>7, PassFiles
  <1>7. ASSUME UnlinkMedia
        PROVE  FilesInv'
    <2>1. /\ m.at = "unlink" /\ media' = media \ {m.f} /\ Maintain("root", m.set, {})
          /\ KeepRows /\ UNCHANGED <<quar, server>>
      BY <1>7, <1>m DEF UnlinkMedia, At
    <2>2. /\ thr'["maintenance"].at = "root" /\ thr'["maintenance"].set = m.set
          /\ \E s : Goto("maintenance", s) /\ s.at = "root"
      BY <1>c, <2>1
    <2>3. /\ quar = {} /\ \A r \in Ready : row[r].media # m.f
          /\ scene.kind # "continuous" => media \subseteq Named \cup m.set \cup {m.f}
      BY <1>m, <1>e, <2>1 DEF Settling, Listed
    <2>4. Settling' /\ (scene.kind # "continuous" => Listed')
      BY <1>f, <2>1, <2>2, <2>3 DEF Settling, Listed, Removing
    <2>5. ReadyMedia' /\ media' \cap quar' = {}
      BY <1>e, <1>f, <2>1, <2>3 DEF ReadyMedia
    <2>6. server = "starting"
      BY <1>b, <2>1
    <2> QED
      BY <1>f, <1>g, <2>1, <2>2, <2>4, <2>5, <2>6, PassFiles
  <1>8. ASSUME ReadActiveNames \/ ListUploads \/ \E d \in Names : PruneDirectory(d)
        PROVE  FilesInv'
    <2>1. PICK l \in {"uploads", "prune"} : \E S, G :
             /\ m.at \in {"root", "uploads", "prune"} /\ (m.at = "root" => m.set = {})
             /\ Maintain(l, S, G) /\ KeepRows /\ UNCHANGED <<media, quar, server>>
      BY <1>8, <1>m DEF ReadActiveNames, ListUploads, PruneDirectory, At
    <2>2. thr'["maintenance"].at = l /\ \E s : Goto("maintenance", s) /\ s.at = l
      BY <1>c, <2>1
    <2>3. quar = {} /\ (scene.kind # "continuous" => media \subseteq Named)
      BY <1>m, <1>e, <2>1 DEF Settling, Listed
    <2>4. Settling' /\ (scene.kind # "continuous" => Listed')
      BY <1>f, <2>1, <2>2, <2>3 DEF Settling, Listed, Removing
    <2>5. server = "starting" /\ KeepRows /\ UNCHANGED <<media, quar, server>>
      BY <1>b, <2>1
    <2> QED
      BY <1>f, <1>g, <1>h, <2>2, <2>4, <2>5, PassFiles
  <1>9. ASSUME ApplyRetention
        PROVE  FilesInv'
    <2>1. /\ thr["maintenance"].at = "prune"
          /\ \E X \in SUBSET Ready : PurgeExpired("maintenance", X, Abandoned)
      BY <1>9 DEF ApplyRetention, At
    <2> QED
      BY <2>1, PurgeFiles
  <1>10. ASSUME MaintenanceFails
         PROVE  FilesInv'
    <2>1. /\ m.at # "idle" /\ Goto("maintenance", Idle) /\ KeepRows /\ UNCHANGED <<media, quar>>
          /\ server' = IF server = "starting" THEN "down" ELSE server
      BY <1>10, <1>m DEF MaintenanceFails, Done, Raises
    <2>2. server' = "down"
      BY <1>b, <2>1
    <2>3. \A u \in Threads : thr'[u] = Idle
      <3>1. thr'["maintenance"] = Idle /\ \A u \in Threads \ {"maintenance"} : thr'[u] = thr[u]
        BY <1>a, <2>1, Moves
      <3> QED
        BY <1>b, <2>1, <3>1 DEF FilesInv, Serving
    <2> QED
      BY <1>f, <1>h, <2>1, <2>2, <2>3, DownFiles
  <1> QED
    BY <1>1, <1>2, <1>3, <1>4, <1>5, <1>6, <1>7, <1>8, <1>9, <1>10 DEF Maintenance

\* Every step keeps the files where they belong.
LEMMA NextFiles ==
    ASSUME TypeInv, QuotaInv, FinalInv, FilesInv, [Next]_vars
    PROVE  FilesInv'
  <1>a. /\ Clients \cup {"admin", "worker"} \subseteq Threads \ {"maintenance"}
        /\ "worker" \in Threads \ {"maintenance"}
    BY Fixed
  <1>b. StatusFinal
    BY NextFinal
  <1>1. ASSUME Tablet
        PROVE  FilesInv'
    <2>1. ASSUME NEW r \in Recordings, HearAcknowledged(r) \/ HearSegment(r)
          PROVE  FilesInv'
      BY <1>a, <2>1, FilesKept DEF HearAcknowledged, HearSegment, rows, volume
    <2> QED
      BY <1>1, <1>b, <2>1, RequestFiles DEF Tablet
  <1>2. ASSUME NEW r \in Recordings, NEW p \in AllParts, GrowStale(r, p)
        PROVE  FilesInv'
    BY <1>a, <1>2, FilesKept DEF GrowStale, volume
  <1>3. ASSUME NEW t \in Clients \cup {"admin", "worker"}, Continue(t)
        PROVE  FilesInv'
    <2>1. t \in Threads \ {"maintenance"}
      BY <1>a
    <2>2. ASSUME Finalize(t) \/ AssembleConversation(t)
          PROVE  FilesInv'
      BY <2>1, <2>2, PlaceFiles DEF Finalize, AssembleConversation, At
    <2> QED
      BY <1>3, <1>b, <2>1, <2>2, StepFiles, ReadyFiles, FailReadyFiles DEF Continue
  <1>4. ASSUME NEW r \in Recordings, RecoverPartial(r)
        PROVE  FilesInv'
    <2> DEFINE s == [Idle EXCEPT !.at = "assembling", !.r = r, !.lock = SegmentLocks(r),
                                 !.policy = TRUE]
    <2>1. /\ Goto("admin", s) /\ server = "up" /\ thr["admin"].at = "idle"
          /\ UNCHANGED <<scene, row, media, quar, server>>
      BY <1>4 DEF RecoverPartial, Assemble, KeepAll, At, rows, volume
    <2>2. s.at = "assembling"
      BY DEF Idle
    <2> HIDE DEF s
    <2> QED
      BY <1>a, <2>1, <2>2, PlainFiles DEF Removing
  <1>5. ASSUME Removal
        PROVE  FilesInv'
    BY <1>5, RemovalBeginsFiles, CommitRemovalFiles, DiscardFiles, FailRemovalFiles DEF Removal
  <1>6. ASSUME Crash
        PROVE  FilesInv'
    <2>1. /\ server' = "down" /\ UNCHANGED <<scene, row, media, quar>>
          /\ \A u \in Threads : thr'[u] = Idle
      BY <1>6 DEF Crash, rows
    <2>2. media' \cap quar' = {} /\ ReadyMedia'
      BY <2>1 DEF FilesInv, AsideInv, ReadyMedia, Ready
    <2> QED
      BY <2>1, <2>2, DownFiles
  <1>7. CASE UNCHANGED vars
    BY <1>a, <1>7, FilesKept DEF vars
  <1> QED
    BY <1>1, <1>2, <1>3, <1>4, <1>5, <1>6, <1>7, <1>b, MaintenanceFiles, WorkerFiles DEF Next

\* The volume of the initial state.
LEMMA InitFiles ==
    ASSUME Init, NoSweep
    PROVE  FilesInv
  <1>a. {"admin", "maintenance"} \subseteq Threads /\ Idle.at = "idle"
    BY Fixed DEF Idle
  <1>1. \A t \in Threads : thr[t] = Idle
    BY DEF Init
  <1>2. server = "up" /\ quar = {}
    BY DEF Init
  <1>3. \A r \in Ready : row[r].media \in media
    BY DEF Init, Ready
  <1>4. media \subseteq Named
    <2>1. CASE scene.other = "kept"
      <3>1. row["other"].media = 0 /\ media = {0} /\ "other" \in Recordings
        BY <2>1 DEF Init, Recordings
      <3> QED
        BY <3>1 DEF Named
    <2>2. CASE scene.other # "kept"
      BY <2>2 DEF Init
    <2> QED
      BY <2>1, <2>2
  <1>5. Serving /\ AsideInv /\ Settling /\ ReadyMedia
    BY <1>a, <1>1, <1>2, <1>3 DEF Serving, AsideInv, Aside, Settling, ReadyMedia, Removing
  <1>6. Accounted
    BY <1>a, <1>1, <1>2, <1>4 DEF Accounted, Listed, Accountable
  <1>7. \A t \in Threads : Placed(t)
    BY <1>a, <1>1 DEF Placed
  <1> QED
    BY <1>5, <1>6, <1>7 DEF FilesInv

\* A recording that is listed as ready can be played while the server serves,
\* unless the administrator's own removal has its media: through every crash
\* between the moving aside and the commit, every failed commit, and every
\* replacement of media by the worker.  Uploads may be abandoned, or requests
\* outlive their clients, but not both; and no hourly pass runs beside requests
\* (it restores media that a removal has just moved aside).
THEOREM ReadyCanBePlayed == Spec /\ OneDanger /\ NoSweep => []ReadyPlays
  <1>1. Init /\ OneDanger /\ NoSweep => TypeInv /\ QuotaInv /\ FinalInv /\ FilesInv
    BY InitTyped, InitQuota, InitFinal, InitFiles
  <1>2. TypeInv /\ QuotaInv /\ FinalInv /\ FilesInv /\ [Next]_vars
           => (TypeInv /\ QuotaInv /\ FinalInv /\ FilesInv)'
    BY NextTyped, NextQuota, NextFinal, NextFiles
  <1>3. FilesInv => ReadyPlays
    <2>1. SUFFICES ASSUME FilesInv, NEW r \in Ready, server = "up", row[r].media \notin media
                   PROVE  \E t \in Threads : row[r].media \in thr[t].set \cup {thr[t].f}
      BY DEF ReadyPlays
    <2>2. row[r].media \in quar
      BY <2>1 DEF FilesInv, ReadyMedia
    <2>3. row[r].media \in thr["admin"].set /\ "admin" \in Threads
      BY <2>1, <2>2, Fixed DEF FilesInv, AsideInv
    <2> QED
      BY <2>3
  <1> QED
    BY <1>1, <1>2, <1>3, PTL DEF Spec

\* Nothing outlives its deletion: once no thread works, the volume holds no media
\* that no row names, whichever removals, commits and starts have failed or
\* crashed before.  A continuous recording is excepted: a worker that fails
\* between naming new media and putting it in place leaves the old file to the
\* next maintenance.
THEOREM NothingOutlivesDeletion ==
    Spec /\ OneDanger /\ scene.kind # "continuous" => []ErasedIsGone
  <1> DEFINE Whole == scene.kind # "continuous"
             J == NoSweep /\ Whole => FilesInv
  <1>1. Init /\ OneDanger /\ Whole => TypeInv /\ QuotaInv /\ FinalInv /\ J /\ Whole
    BY InitTyped, InitQuota, InitFinal, InitFiles
  <1>2. TypeInv /\ QuotaInv /\ FinalInv /\ J /\ Whole /\ [Next]_vars
           => (TypeInv /\ QuotaInv /\ FinalInv /\ J /\ Whole)'
    <2>1. SUFFICES ASSUME TypeInv, QuotaInv, FinalInv, J, Whole, [Next]_vars
                   PROVE  (TypeInv /\ QuotaInv /\ FinalInv /\ J /\ Whole)'
      OBVIOUS
    <2>2. scene' = scene
      BY <2>1, SceneConstant
    <2>3. J' /\ Whole'
      BY <2>1, <2>2, NextFiles DEF NoSweep
    <2> QED
      BY <2>1, <2>3, NextTyped, NextQuota, NextFinal
  <1>3. J /\ Whole => ErasedIsGone
    <2>1. SUFFICES ASSUME FilesInv, Whole, Quiet, NEW f \in media \cup quar
                   PROVE  f \in Named
      BY DEF ErasedIsGone, NoSweep, Named
    <2>2. Accountable(f) /\ \A t \in Threads : thr[t].at = "idle"
      BY <2>1 DEF FilesInv, Accounted, Quiet, At
    <2> QED
      BY <2>2, Fixed DEF Accountable
  <1> QED
    BY <1>1, <1>2, <1>3, PTL DEF Spec

----------------------------------------------------------------------------
(* Audio *)

\* A conversation none of whose segments is ever taken for abandoned.
Conversation == scene.kind = "conversation" /\ "stale" \notin scene.dangers

\* The segments of a conversation: none fails, those that count have a directory
\* of their own, and what is verified can be read back until the recording that
\* is made of it is ready.
SegmentRow(p) ==
    LET u == up["target"][p] IN
    /\ u.st # "failed"
    /\ u.st = "assembled" => row["target"].status \in {"ready", "deleted"}
    /\ u.st \in Counted => u.dir # None
    /\ p \in Parts("target") /\ u.st = "verified" => ReadBack("target", p)
    /\ u.dir # None => \A x \in Recordings, q \in AllParts :
                          <<x, q>> # <<"target", p>> => up[x][q].dir # u.dir
SegmentRows == \A p \in AllParts : SegmentRow(p)

\* What a thread between two of its steps knows of them: the directory it has
\* made is nobody's, the segment it stores or verifies is locked, and the files
\* it is about to remove belong to no segment that counts.
SegmentHeld(t) ==
    LET s == thr[t] IN
    /\ s.at = "reserved" => \A x \in Recordings, q \in AllParts : s.f # up[x][q].dir
    /\ s.at \in {"opening", "reserved"} /\ s.r = "target" => s.was = "none"
    /\ s.at = "storing" /\ s.r = "target" =>
          UpLock("target", s.p) \in s.lock /\ up["target"][s.p].st = "uploading"
    /\ s.at = "verifying" => s.r = "target" /\ ReadBack("target", s.p)
    /\ s.at \in {"tidying", "discarding"} =>
          /\ \A p \in AllParts : up["target"][p].st \in Counted => up["target"][p].dir \notin s.gone
          /\ \A u \in Threads : thr[u].at = "reserved" => thr[u].f \notin s.gone

\* A start prunes no directory of a segment that counts.
PruneSpares ==
    LET m == thr["maintenance"] IN
    /\ m.at = "uploads" => \A p \in Parts("target") :
          up["target"][p].st \in Counted => up["target"][p].dir \in m.gone
    /\ m.at = "prune" => \A p \in Parts("target") :
          up["target"][p].st \in Counted => up["target"][p].dir \notin m.set

SegmentInv ==
    Conversation => SegmentRows /\ PruneSpares /\ \A t \in Threads : SegmentHeld(t)

\* What is verified stays verified until the recording is ready.
VerifiedKept ==
    Conversation => \A p \in AllParts : up["target"][p].st = "verified" =>
       up'["target"][p].st = "verified" \/ row'["target"].status \in {"ready", "deleted"}

\* In a conversation the other recording is a voicemail.
LEMMA ConversationOK ==
    ASSUME Conversation
    PROVE  /\ Kind("target") = "conversation" /\ Segmented("target") /\ "target" \in Recordings
           /\ Kind("other") = "voicemail" /\ ~Segmented("other") /\ "other" \in Recordings
           /\ \A r \in Recordings : Kind(r) # "continuous" /\ Kind(r) # "audit"
           /\ \A r \in Recordings : Segmented(r) => r = "target"
           /\ \A r \in Recordings : Kind(r) = "voicemail" => r = "other"
           /\ \A r \in Recordings : r = "target" \/ r = "other"
  BY DEF Conversation, Kind, Segmented, Recordings

\* A thread at any other step relies on no segment.
LEMMA NoSegment ==
    ASSUME NEW t, thr'[t].at \notin {"opening", "reserved", "storing", "verifying", "tidying",
                                     "discarding"}
    PROVE  SegmentHeld(t)'
  BY DEF SegmentHeld

\* A step of one thread that changes no upload, and no chunk of a segment that is
\* verified or being verified.
LEMMA SegmentKept ==
    ASSUME TypeInv, QuotaInv, SegmentInv, StatusFinal, UNCHANGED <<scene, up>>, NEW t \in Threads,
           \A u \in Threads \ {t} : thr'[u] = thr[u], thr'[t] = thr[t] \/ SegmentHeld(t)',
           thr'["maintenance"] = thr["maintenance"] \/ PruneSpares',
           thr'[t].at = "reserved" => \/ thr'[t] = thr[t]
                                      \/ \A u \in Threads : thr[u].at \in {"tidying", "discarding"} =>
                                            thr'[t].f \notin thr[u].gone,
           \A p \in AllParts :
              /\ \/ p \in Parts("target") /\ up["target"][p].st = "verified"
                 \/ \E u \in Threads : thr[u].at = "verifying" /\ thr[u].p = p
              /\ ReadBack("target", p)
              => ReadBack("target", p)'
    PROVE  SegmentInv' /\ VerifiedKept
  <1>1. VerifiedKept
    BY DEF VerifiedKept
  <1>2. SUFFICES ASSUME Conversation
                 PROVE  SegmentInv'
    BY <1>1 DEF SegmentInv, Conversation
  <1>3. "target" \in Recordings /\ Parts("target")' = Parts("target") /\ "maintenance" \in Threads
    BY <1>2, ConversationOK, SceneKept, Fixed
  <1>4. SegmentRows'
    BY <1>2, <1>3 DEF SegmentInv, SegmentRows, SegmentRow, StatusFinal
  <1>5. PruneSpares'
    BY <1>2, <1>3 DEF SegmentInv, PruneSpares
  <1>6. ASSUME NEW u \in Threads
        PROVE  SegmentHeld(u)'
    <2>1. SegmentHeld(u)
      BY <1>2 DEF SegmentInv
    <2>2. CASE thr'[u] = thr[u]
      <3>1. PICK s : s = thr[u] /\ s = thr'[u]
        BY <2>2
      <3>2. s.at = "verifying" => ReadBack("target", s.p)'
        <4>1. s.p \in AllParts
          BY <3>1, StateOK
        <4> QED
          BY <2>1, <3>1, <4>1 DEF SegmentHeld
      <3>3. s.at \in {"tidying", "discarding"} =>
               \A v \in Threads : thr'[v].at = "reserved" => thr'[v].f \notin s.gone
        <4>1. SUFFICES ASSUME s.at \in {"tidying", "discarding"}, NEW v \in Threads,
                              thr'[v].at = "reserved"
                       PROVE  thr'[v].f \notin s.gone
          OBVIOUS
        <4>2. CASE thr'[v] = thr[v]
          BY <2>1, <3>1, <4>1, <4>2 DEF SegmentHeld
        <4>3. CASE thr'[v] # thr[v]
          BY <3>1, <4>1, <4>3
        <4> QED
          BY <4>2, <4>3
      <3> QED
        BY <2>1, <3>1, <3>2, <3>3 DEF SegmentHeld
    <2> QED
      BY <2>2
  <1> QED
    BY <1>4, <1>5, <1>6 DEF SegmentInv

\* A segment that can be read back still can.
LEMMA ReadKept ==
    ASSUME scene' = scene, NEW p, up'["target"][p] = up["target"][p], ReadBack("target", p),
           up["target"][p].dir \in DOMAIN dirs',
           dirs'[up["target"][p].dir] = dirs[up["target"][p].dir]
    PROVE  ReadBack("target", p)'
  <1>1. "target" \in Recordings
    BY Fixed
  <1> QED
    BY <1>1, SceneKept DEF ReadBack

\* A step of one thread that touches neither uploads nor their chunks.
LEMMA SegmentPlain ==
    ASSUME TypeInv, QuotaInv, SegmentInv, StatusFinal, UNCHANGED <<scene, up, dirs>>,
           NEW t \in Threads, NEW s, Goto(t, s), s.at \notin {"reserved", "uploads", "prune"},
           SegmentHeld(t)'
    PROVE  SegmentInv' /\ VerifiedKept
  <1>1. thr'[t] = s /\ \A u \in Threads \ {t} : thr'[u] = thr[u]
    BY Moves
  <1>2. \A p \in AllParts : ReadBack("target", p) => ReadBack("target", p)'
    BY ReadKept DEF ReadBack
  <1>3. thr'["maintenance"] = thr["maintenance"] \/ PruneSpares'
    BY <1>1, Fixed DEF PruneSpares
  <1> QED
    BY <1>1, <1>2, <1>3, SegmentKept

\* A step that moves no thread, and touches neither uploads nor their chunks.
LEMMA SegmentQuiet ==
    ASSUME TypeInv, QuotaInv, SegmentInv, StatusFinal, UNCHANGED <<scene, up, dirs, thr>>
    PROVE  SegmentInv' /\ VerifiedKept
  <1>1. \A p \in AllParts : ReadBack("target", p) => ReadBack("target", p)'
    BY ReadKept DEF ReadBack
  <1>2. "admin" \in Threads
    BY Fixed
  <1> QED
    BY <1>1, <1>2, SegmentKept

\* A request writes a chunk into the directory of its own upload, which nobody
\* verifies.
LEMMA StoreSegment ==
    ASSUME TypeInv, QuotaInv, SegmentInv, StatusFinal, Conversation, NEW t \in Clients,
           NEW r \in Recordings, NEW p \in AllParts, NEW off, StoreChunk(t, r, p, off, UpLock(r, p))
    PROVE  SegmentInv' /\ VerifiedKept
  <1> DEFINE s == [Idle EXCEPT !.at = "storing", !.was = off, !.r = r, !.p = p,
                               !.lock = {UpLock(r, p)}]
             d == up[r][p].dir
  <1>1. /\ Goto(t, s) /\ MaySend(t, r) /\ Free(t, UpLock(r, p)) /\ up[r][p].st = "uploading"
        /\ d \in DOMAIN dirs /\ dirs' = [dirs EXCEPT ![d] = @ \cup {off}]
        /\ UNCHANGED <<scene, up>>
    BY DEF StoreChunk, Appends, WriteChunk, KeepAll, rows
  <1>2. s.at = "storing" /\ s.r = r /\ s.p = p /\ UpLock(r, p) \in s.lock
    BY DEF Idle
  <1> HIDE DEF s, d
  <1>a. t \in Threads /\ t # "maintenance" /\ "maintenance" \in Threads
    BY Fixed
  <1>3. thr'[t] = s /\ \A u \in Threads \ {t} : thr'[u] = thr[u]
    BY <1>a, <1>1, Moves
  <1>4. SegmentHeld(t)'
    BY <1>1, <1>2, <1>3 DEF SegmentHeld, UpLock
  <1>5. ASSUME NEW q \in AllParts, ReadBack("target", q),
               \/ q \in Parts("target") /\ up["target"][q].st = "verified"
               \/ \E u \in Threads : thr[u].at = "verifying" /\ thr[u].p = q
        PROVE  ReadBack("target", q)'
    <2>1. up["target"][q].dir \in DOMAIN dirs /\ up["target"][q].dir # None
      BY <1>5, NamesOK DEF ReadBack, TypeInv, VolumeType
    <2>2. <<r, p>> # <<"target", q>>
      <3>1. SUFFICES ASSUME r = "target", p = q
                     PROVE  FALSE
        OBVIOUS
      <3>2. PICK u \in Threads : thr[u].at = "verifying" /\ thr[u].p = q
        BY <1>1, <1>5, <3>1
      <3>3. thr[u].r = "target" /\ UpLock("target", q) \in thr[u].lock
        BY <3>2 DEF SegmentInv, SegmentHeld, QuotaInv, Promised, SourceHeld
      <3>4. u # t
        BY <1>1, <3>2 DEF MaySend, At
      <3> QED
        BY <1>1, <3>1, <3>3, <3>4 DEF Free
    <2>3. up["target"][q].dir # d
      BY <2>1, <2>2 DEF SegmentInv, SegmentRows, SegmentRow, d
    <2> QED
      BY <1>1, <1>5, <2>1, <2>3, ReadKept
  <1> QED
    BY <1>a, <1>1, <1>2, <1>3, <1>4, <1>5, SegmentKept

\* A request that arrives.
LEMMA RequestSegment ==
    ASSUME TypeInv, QuotaInv, SegmentInv, StatusFinal, Conversation, NEW t \in Clients,
           NEW r \in Recordings, Request(t, r)
    PROVE  SegmentInv' /\ VerifiedKept
  <1>a. t \in Threads /\ 0 \in AllParts
    BY Fixed
  <1>b. /\ Kind(r) # "continuous" /\ Kind(r) # "audit" /\ (Kind(r) = "voicemail" => r = "other")
        /\ (Kind(r) = "conversation" => r = "target")
    BY ConversationOK
  <1>1. ASSUME NEW p \in AllParts, NEW was, Opening(t, r, p, was), r = "target" => was = "none"
        PROVE  SegmentInv' /\ VerifiedKept
    <2> DEFINE s == [Idle EXCEPT !.at = "opening", !.was = was, !.r = r, !.p = p]
    <2>1. Goto(t, s) /\ UNCHANGED <<scene, up, dirs>>
      BY <1>1 DEF Opening, KeepAll, volume, rows
    <2>2. s.at = "opening" /\ s.r = r /\ s.was = was
      BY DEF Idle
    <2> HIDE DEF s
    <2>3. thr'[t] = s
      BY <1>a, <2>1, Moves
    <2>4. SegmentHeld(t)'
      BY <1>1, <2>2, <2>3 DEF SegmentHeld
    <2> QED
      BY <1>a, <2>1, <2>2, <2>4, SegmentPlain
  <1>2. ASSUME CreateConversation(t, r)
        PROVE  SegmentInv' /\ VerifiedKept
    BY <1>2, SegmentQuiet DEF CreateConversation, OpenSegmented, KeepVolume, volume
  <1>3. ASSUME NEW p \in AllParts, NEW lock, NEW l \in {"finalizing", "verifying"},
               Begin(t, l, r, p, lock), KeepAll, UNCHANGED volume,
               l = "verifying" => r = "target" /\ ReadBack("target", p)
        PROVE  SegmentInv' /\ VerifiedKept
    <2> DEFINE s == [Idle EXCEPT !.at = l, !.r = r, !.p = p, !.lock = lock]
    <2>1. Goto(t, s) /\ UNCHANGED <<scene, up, dirs>>
      BY <1>3 DEF Begin, KeepAll, volume, rows
    <2>2. s.at = l /\ s.r = r /\ s.p = p
      BY DEF Idle
    <2> HIDE DEF s
    <2>3. thr'[t] = s
      BY <1>a, <2>1, Moves
    <2>4. l = "verifying" => ReadBack("target", p)'
      BY <1>3, <2>1, ReadKept DEF ReadBack
    <2>5. SegmentHeld(t)'
      BY <1>3, <2>2, <2>3, <2>4 DEF SegmentHeld
    <2> QED
      BY <1>a, <2>1, <2>2, <2>5, SegmentPlain
  <1>4. ASSUME NEW policy, Assemble(t, r, policy)
        PROVE  SegmentInv' /\ VerifiedKept
    <2> DEFINE s == [Idle EXCEPT !.at = "assembling", !.r = r, !.lock = SegmentLocks(r),
                                 !.policy = policy]
    <2>1. Goto(t, s) /\ UNCHANGED <<scene, up, dirs>>
      BY <1>4 DEF Assemble, KeepAll, volume, rows
    <2>2. s.at = "assembling"
      BY DEF Idle
    <2> HIDE DEF s
    <2>3. thr'[t] = s
      BY <1>a, <2>1, Moves
    <2> QED
      BY <1>a, <2>1, <2>2, <2>3, NoSegment, SegmentPlain
  <1>5. ASSUME CreateRecording(t, r)
        PROVE  SegmentInv' /\ VerifiedKept
    BY <1>a, <1>b, <1>1, <1>5 DEF CreateRecording
  <1>6. ASSUME NEW p \in AllParts, CreateConversationSegment(t, r, p)
        PROVE  SegmentInv' /\ VerifiedKept
    <2>1. r = "target" /\ Opening(t, r, p, up[r][p].st) /\ up[r][p].st \in {"failed", "none"}
      BY <1>b, <1>6 DEF CreateConversationSegment, OpenSegment
    <2>2. up[r][p].st = "none"
      BY <2>1 DEF SegmentInv, SegmentRows, SegmentRow
    <2> QED
      BY <1>1, <2>1, <2>2
  <1>7. ASSUME CompleteRecording(t, r)
        PROVE  SegmentInv' /\ VerifiedKept
    BY <1>a, <1>3, <1>7 DEF CompleteRecording
  <1>8. ASSUME NEW p \in AllParts, CompleteConversationSegment(t, r, p)
        PROVE  SegmentInv' /\ VerifiedKept
    BY <1>b, <1>3, <1>8 DEF CompleteConversationSegment, VerifySegment
  <1>9. ASSUME CompleteConversation(t, r)
        PROVE  SegmentInv' /\ VerifiedKept
    BY <1>4, <1>9 DEF CompleteConversation
  <1>10. ASSUME NEW off \in Offsets, UploadContent(t, r, off)
         PROVE  SegmentInv' /\ VerifiedKept
    BY <1>a, <1>10, StoreSegment DEF UploadContent
  <1>11. ASSUME NEW p \in AllParts, NEW off \in Offsets, UploadSegment(t, r, p, off)
         PROVE  SegmentInv' /\ VerifiedKept
    BY <1>11, StoreSegment DEF UploadSegment
  <1>12. /\ ~CreateContinuous(t, r) /\ ~CreateSession(t, r) /\ ~CompleteSession(t, r)
         /\ ~CompleteContinuous(t, r) /\ ~ResetContinuous(t, r)
         /\ \A off \in Offsets : ~UploadContinuous(t, r, off)
         /\ \A p \in AllParts : ~CreateSessionSegment(t, r, p) /\ ~CompleteSessionSegment(t, r, p)
         /\ \A p \in AllParts, off \in Offsets : ~UploadSessionSegment(t, r, p, off)
    BY <1>b DEF CreateContinuous, CreateSession, CompleteSession, CompleteContinuous, OpenSegmented,
       ResetContinuous, UploadContinuous, CreateSessionSegment, CompleteSessionSegment,
       UploadSessionSegment, OpenSegment, VerifySegment
  <1> QED
    BY <1>2, <1>5, <1>6, <1>7, <1>8, <1>9, <1>10, <1>11, <1>12 DEF Request

\* A thread removes directories that belong to no segment that counts.
LEMMA RemoveSegment ==
    ASSUME TypeInv, QuotaInv, SegmentInv, StatusFinal, Conversation, NEW t \in Threads, Done(t),
           NEW D, RemoveUploadFiles(D), UNCHANGED <<scene, up>>,
           \A p \in AllParts : up["target"][p].st \in Counted => up["target"][p].dir \notin D
    PROVE  SegmentInv' /\ VerifiedKept
  <1>1. thr'[t] = Idle /\ \A u \in Threads \ {t} : thr'[u] = thr[u]
    BY Moves DEF Done
  <1>2. Idle.at = "idle"
    BY DEF Idle
  <1>3. SegmentHeld(t)'
    BY <1>1, <1>2, NoSegment
  <1>4. thr'["maintenance"] = thr["maintenance"] \/ PruneSpares'
    BY <1>1, <1>2, Fixed DEF PruneSpares
  <1>5. ASSUME NEW q \in AllParts, ReadBack("target", q),
               \/ q \in Parts("target") /\ up["target"][q].st = "verified"
               \/ \E u \in Threads : thr[u].at = "verifying" /\ thr[u].p = q
        PROVE  ReadBack("target", q)'
    <2>1. up["target"][q].st \in Counted
      <3>1. ASSUME NEW u \in Threads, thr[u].at = "verifying", thr[u].p = q
            PROVE  up["target"][q].st \in Counted
        BY <3>1 DEF SegmentInv, SegmentHeld, QuotaInv, Promised, SourceHeld
      <3> QED
        BY <1>5, <3>1 DEF Counted
    <2>2. up["target"][q].dir \in DOMAIN dirs \ D
      BY <1>5, <2>1 DEF ReadBack
    <2>3. /\ up["target"][q].dir \in DOMAIN dirs'
          /\ dirs'[up["target"][q].dir] = dirs[up["target"][q].dir]
      BY <2>2 DEF RemoveUploadFiles, WithoutDirs
    <2> QED
      BY <1>5, <2>3, ReadKept
  <1> QED
    BY <1>1, <1>2, <1>3, <1>4, <1>5, SegmentKept

\* The steps of a request that commit nothing.
LEMMA StepSegment ==
    ASSUME TypeInv, QuotaInv, SegmentInv, StatusFinal, Conversation, NEW t \in Threads,
           \/ ReserveUpload(t) \/ RefuseUpload(t) \/ FailUpload(t) \/ FailRequest(t)
           \/ RefuseFinal(t) \/ AssemblyFails(t) \/ FailReady(t) \/ Tidy(t) \/ Finalize(t)
           \/ AssembleConversation(t)
    PROVE  SegmentInv' /\ VerifiedKept
  <1>a. Idle.at = "idle"
    BY DEF Idle
  <1>b. SegmentHeld(t) /\ \A u \in Threads : SegmentHeld(u)
    BY DEF SegmentInv
  <1>1. ASSUME Done(t), UNCHANGED <<scene, up, dirs>>
        PROVE  SegmentInv' /\ VerifiedKept
    <2>1. thr'[t] = Idle
      BY <1>1, Moves DEF Done
    <2> QED
      BY <1>a, <1>1, <2>1, NoSegment, SegmentPlain DEF Done
  <1>2. ASSUME RefuseUpload(t) \/ FailRequest(t) \/ RefuseFinal(t) \/ AssemblyFails(t) \/ FailReady(t)
        PROVE  SegmentInv' /\ VerifiedKept
    BY <1>1, <1>2 DEF RefuseUpload, FailRequest, RefuseFinal, AssemblyFails, FailReady, KeepAll,
       volume, rows
  <1>3. ASSUME Finalize(t) \/ AssembleConversation(t)
        PROVE  SegmentInv' /\ VerifiedKept
    <2> DEFINE s == [thr[t] EXCEPT !.at = "finalized", !.f = NewName, !.policy = TRUE]
    <2>1. Goto(t, s) /\ UNCHANGED <<scene, up, dirs>>
      BY <1>3 DEF Finalize, AssembleConversation, PlaceMedia, KeepAll, rows
    <2>2. s.at = "finalized"
      BY StateOK DEF ThreadState
    <2> HIDE DEF s
    <2>3. thr'[t] = s
      BY <2>1, Moves
    <2> QED
      BY <2>1, <2>2, <2>3, NoSegment, SegmentPlain
  <1>4. ASSUME FailUpload(t)
        PROVE  SegmentInv' /\ VerifiedKept
    <2>1. /\ thr[t].at = "reserved" /\ Done(t) /\ UNCHANGED <<scene, up>>
          /\ UNCHANGED dirs \/ RemoveUploadFiles({thr[t].f})
      BY <1>4 DEF FailUpload, At, KeepAll, rows
    <2>2. \A p \in AllParts : up["target"][p].dir \notin {thr[t].f}
      BY <1>b, <2>1, Fixed DEF SegmentHeld
    <2> QED
      BY <1>1, <2>1, <2>2, RemoveSegment
  <1>5. ASSUME Tidy(t)
        PROVE  SegmentInv' /\ VerifiedKept
    <2>1. /\ thr[t].at = "tidying" /\ Done(t) /\ UNCHANGED <<scene, up>>
          /\ RemoveUploadFiles(thr[t].gone)
      BY <1>5 DEF Tidy, At, KeepAll, rows
    <2>2. \A p \in AllParts : up["target"][p].st \in Counted => up["target"][p].dir \notin thr[t].gone
      BY <1>b, <2>1 DEF SegmentHeld
    <2> QED
      BY <2>1, <2>2, RemoveSegment
  <1>6. ASSUME ReserveUpload(t)
        PROVE  SegmentInv' /\ VerifiedKept
    <2> DEFINE s == [thr[t] EXCEPT !.at = "reserved", !.f = NewName, !.policy = TRUE]
    <2>1. /\ thr[t].at = "opening" /\ Goto(t, s) /\ CanName /\ UNCHANGED <<scene, up>>
          /\ dirs' = [n \in DOMAIN dirs \cup {NewName} |-> IF n = NewName THEN {} ELSE dirs[n]]
      BY <1>6 DEF ReserveUpload, NewDirectory, At, KeepAll, rows
    <2>2. s.at = "reserved" /\ s.f = NewName /\ s.r = thr[t].r /\ s.was = thr[t].was
      BY StateOK DEF ThreadState
    <2> HIDE DEF s
    <2>3. thr'[t] = s /\ \A u \in Threads \ {t} : thr'[u] = thr[u]
      BY <2>1, Moves
    <2>4. NewName \notin Name /\ NewName \notin DOMAIN dirs
      <3>1. NewName \notin Given /\ NewName # None
        BY <2>1, NamesOK, BoundAssumption DEF TypeInv, Names
      <3> QED
        BY <3>1 DEF Name, TypeInv, VolumeType
    <2>5. \A x \in Recordings, q \in AllParts : NewName # up[x][q].dir
      BY <2>4, RowOK
    <2>6. SegmentHeld(t)'
      BY <1>b, <2>1, <2>2, <2>3, <2>5 DEF SegmentHeld
    <2>7. \A u \in Threads : thr[u].at \in {"tidying", "discarding"} => NewName \notin thr[u].gone
      BY <2>4, StateOK DEF Equipped
    <2>8. \A p \in AllParts : ReadBack("target", p) => ReadBack("target", p)'
      <3>1. ASSUME NEW p \in AllParts, ReadBack("target", p)
            PROVE  ReadBack("target", p)'
        <4>1. up["target"][p].dir \in DOMAIN dirs /\ up["target"][p].dir # NewName
          BY <2>4, <3>1 DEF ReadBack
        <4> QED
          BY <2>1, <3>1, <4>1, ReadKept
      <3> QED
        BY <3>1
    <2>9. thr'["maintenance"] = thr["maintenance"] \/ PruneSpares'
      BY <2>2, <2>3, Fixed DEF PruneSpares
    <2> QED
      BY <2>1, <2>2, <2>3, <2>6, <2>7, <2>8, <2>9, SegmentKept
  <1> QED
    BY <1>2, <1>3, <1>4, <1>5, <1>6

\* A segment that a commit does not change, and whose directory it gives to
\* nobody else.
LEMMA SegmentRowKept ==
    ASSUME SegmentInv, StatusFinal, Conversation, UNCHANGED <<scene, dirs>>, NEW q \in AllParts,
           up'["target"][q] = up["target"][q],
           \A x \in Recordings, y \in AllParts :
              up'[x][y].dir = up[x][y].dir \/ up'[x][y].dir # up["target"][q].dir
    PROVE  SegmentRow(q)'
  <1>1. PICK u : u = up["target"][q] /\ u = up'["target"][q]
    OBVIOUS
  <1>2. SegmentRow(q) /\ "target" \in Recordings
    BY Fixed DEF SegmentInv, SegmentRows
  <1>3. q \in Parts("target")' /\ u.st = "verified" => ReadBack("target", q)'
    <2>1. Parts("target")' = Parts("target")
      BY <1>2, SceneKept
    <2> QED
      BY <1>1, <1>2, <2>1, ReadKept DEF SegmentRow, ReadBack
  <1>4. u.dir # None => \A x \in Recordings, y \in AllParts :
                           <<x, y>> # <<"target", q>> => up'[x][y].dir # u.dir
    BY <1>1, <1>2 DEF SegmentRow
  <1> QED
    BY <1>1, <1>2, <1>3, <1>4 DEF SegmentRow, StatusFinal

\* What a commit of a request has to keep: the threads beside it find the
\* segments they work on as they were.
LEMMA SegmentCommits ==
    ASSUME TypeInv, FilesInv, SegmentInv, Conversation, UNCHANGED <<scene, dirs>>,
           NEW t \in Threads \ {"maintenance"}, thr[t].at # "idle", thr'[t].at \in {"idle", "tidying"},
           \A u \in Threads \ {t} : thr'[u] = thr[u], SegmentRows', SegmentHeld(t)',
           \A u \in Threads \ {t} :
              /\ thr[u].at = "reserved" =>
                    \A x \in Recordings, q \in AllParts : thr[u].f # up'[x][q].dir
              /\ thr[u].at \in {"storing", "verifying"} /\ thr[u].r = "target" =>
                    up'["target"][thr[u].p] = up["target"][thr[u].p]
              /\ thr[u].at \in {"tidying", "discarding"} =>
                    \A p \in AllParts : up'["target"][p].st \in Counted =>
                       up'["target"][p].dir \notin thr[u].gone
    PROVE  SegmentInv'
  <1>1. thr'["maintenance"] = Idle /\ Idle.at = "idle"
    BY Serves, Fixed DEF FilesInv, Idle
  <1>2. PruneSpares'
    BY <1>1 DEF PruneSpares
  <1>3. ASSUME NEW u \in Threads
        PROVE  SegmentHeld(u)'
    <2>1. CASE u = t
      BY <2>1
    <2>2. CASE u # t
      <3>1. PICK s : s = thr[u] /\ s = thr'[u]
        BY <2>2
      <3>2. SegmentHeld(u) /\ s.p \in AllParts
        BY <3>1, StateOK DEF SegmentInv
      <3>3. s.at = "verifying" => s.r = "target" /\ ReadBack("target", s.p)'
        BY <2>2, <3>1, <3>2, ReadKept DEF SegmentHeld, ReadBack
      <3>4. s.at \in {"tidying", "discarding"} =>
               \A v \in Threads : thr'[v].at = "reserved" => thr'[v].f \notin s.gone
        BY <3>1, <3>2 DEF SegmentHeld
      <3> QED
        BY <2>2, <3>1, <3>2, <3>3, <3>4 DEF SegmentHeld
    <2> QED
      BY <2>1, <2>2
  <1> QED
    BY <1>2, <1>3 DEF SegmentInv

\* A new upload starts in a directory of its own.
LEMMA CommitUploadSegment ==
    ASSUME TypeInv, QuotaInv, FilesInv, SegmentInv, StatusFinal, Conversation,
           NEW t \in Threads \ {"maintenance"}, CommitUpload(t)
    PROVE  SegmentInv' /\ VerifiedKept
  <1>1. PICK r, p : r = thr[t].r /\ p = thr[t].p
    OBVIOUS
  <1> DEFINE v == [st |-> "uploading", off |-> 0, dir |-> thr[t].f, stale |-> FALSE]
  <1>2. /\ thr[t].at = "reserved" /\ ~KeyExists(t) /\ up' = [up EXCEPT ![r][p] = v] /\ Done(t)
        /\ UNCHANGED <<scene, dirs>>
    BY <1>1 DEF CommitUpload, At, KeepVolume, volume
  <1>3. v.st = "uploading" /\ v.dir = thr[t].f
    OBVIOUS
  <1> HIDE DEF v
  <1>4. r \in Recordings /\ p \in AllParts /\ "target" \in Recordings
    BY <1>1, <1>2, StateOK, Fixed DEF Busy
  <1>5. /\ up'[r][p] = v /\ \A q \in AllParts \ {p} : up'[r][q] = up[r][q]
        /\ \A x \in Recordings \ {r} : up'[x] = up[x]
    <2>1. up'[r][p] = v
      BY <1>2, <1>4 DEF TypeInv, RowType
    <2>2. \A q \in AllParts \ {p} : up'[r][q] = up[r][q]
      BY <1>2, <1>4, UploadChanges
    <2>3. \A x \in Recordings \ {r} : up'[x] = up[x]
      BY <1>2, <1>4, UploadChanges
    <2> QED
      BY <2>1, <2>2, <2>3
  <1>6. /\ thr[t].f # None
        /\ \A x \in Recordings, q \in AllParts : thr[t].f # up[x][q].dir
    <2>1. thr[t].f \in Given
      BY <1>2, StateOK DEF Equipped
    <2> QED
      BY <1>2, <2>1, NamesOK DEF SegmentInv, SegmentHeld, TypeInv
  <1>7. r = "target" => up["target"][p].st = "none"
    BY <1>1, <1>2 DEF SegmentInv, SegmentHeld, KeyExists
  <1>8. thr'[t] = Idle /\ Idle.at = "idle" /\ \A u \in Threads \ {t} : thr'[u] = thr[u]
    BY <1>2, Moves DEF Done, Idle
  <1>9. ASSUME NEW q \in AllParts, <<r, p>> # <<"target", q>>
        PROVE  up'["target"][q] = up["target"][q]
    BY <1>4, <1>5, <1>9
  <1>10. SegmentRows'
    <2>1. ASSUME NEW q \in AllParts
          PROVE  SegmentRow(q)'
      <3>1. CASE <<r, p>> = <<"target", q>>
        <4>1. up'["target"][q].st = "uploading" /\ up'["target"][q].dir = thr[t].f
          BY <1>3, <1>5, <3>1
        <4>2. \A x \in Recordings, y \in AllParts :
                 <<x, y>> # <<"target", q>> => up'[x][y] = up[x][y]
          BY <1>5, <3>1
        <4> QED
          BY <1>6, <4>1, <4>2 DEF SegmentRow
      <3>2. CASE <<r, p>> # <<"target", q>>
        <4>1. \A x \in Recordings, y \in AllParts :
                 up'[x][y].dir = up[x][y].dir \/ up'[x][y].dir # up["target"][q].dir
          BY <1>3, <1>4, <1>5, <1>6
        <4> QED
          BY <1>2, <1>9, <3>2, <4>1, SegmentRowKept
      <3> QED
        BY <3>1, <3>2
    <2> QED
      BY <2>1 DEF SegmentRows
  <1>11. ASSUME NEW u \in Threads \ {t}
         PROVE  /\ thr[u].at # "reserved"
                /\ thr[u].at \in {"storing", "verifying"} /\ thr[u].r = "target" =>
                      up'["target"][thr[u].p] = up["target"][thr[u].p]
                /\ thr[u].at \in {"tidying", "discarding"} =>
                      \A q \in AllParts : up'["target"][q].st \in Counted =>
                         up'["target"][q].dir \notin thr[u].gone
    <2>1. thr[u].at # "reserved"
      BY <1>2 DEF QuotaInv, Promised, RoomReserved, LocksHeld
    <2>2. ASSUME thr[u].at \in {"storing", "verifying"}, thr[u].r = "target"
          PROVE  up'["target"][thr[u].p] = up["target"][thr[u].p]
      <3>1. up["target"][thr[u].p].st # "none" /\ thr[u].p \in AllParts
        BY <2>2, StateOK DEF SegmentInv, SegmentHeld, QuotaInv, Promised, SourceHeld, Counted
      <3> QED
        BY <1>7, <1>9, <3>1
    <2>3. ASSUME thr[u].at \in {"tidying", "discarding"}, NEW q \in AllParts,
                 up'["target"][q].st \in Counted
          PROVE  up'["target"][q].dir \notin thr[u].gone
      <3>1. CASE <<r, p>> = <<"target", q>>
        <4>1. up'["target"][q].dir = thr[t].f
          BY <1>3, <1>5, <3>1
        <4> QED
          BY <1>2, <2>3, <4>1 DEF SegmentInv, SegmentHeld
      <3>2. CASE <<r, p>> # <<"target", q>>
        BY <1>9, <2>3, <3>2 DEF SegmentInv, SegmentHeld
      <3> QED
        BY <3>1, <3>2
    <2> QED
      BY <2>1, <2>2, <2>3
  <1>12. VerifiedKept
    BY <1>7, <1>9 DEF VerifiedKept
  <1>13. SegmentHeld(t)'
    BY <1>8, NoSegment
  <1> QED
    BY <1>2, <1>8, <1>10, <1>11, <1>12, <1>13, SegmentCommits

\* One segment or upload changes, in what the new value says of it.
LEMMA OneUpload ==
    ASSUME TypeInv, NEW r \in Recordings, NEW p \in AllParts, NEW v, up' = [up EXCEPT ![r][p] = v]
    PROVE  up'[r][p] = v /\ \A x \in Recordings, q \in AllParts :
                               <<x, q>> # <<r, p>> => up'[x][q] = up[x][q]
  <1>1. up'[r][p] = v
    BY DEF TypeInv, RowType
  <1>2. \A q \in AllParts \ {p} : up'[r][q] = up[r][q]
    BY UploadChanges
  <1>3. \A x \in Recordings \ {r} : up'[x] = up[x]
    BY UploadChanges
  <1> QED
    BY <1>1, <1>2, <1>3

\* A segment that is stored or verified is locked by the request that does it.
LEMMA SegmentLocked ==
    ASSUME TypeInv, QuotaInv, SegmentInv, Conversation, NEW t \in Threads, NEW u \in Threads \ {t},
           thr[u].at \in {"storing", "verifying"}, thr[u].r = "target"
    PROVE  thr[u].p \in AllParts /\ UpLock("target", thr[u].p) \notin thr[t].lock
  <1>1. UpLock("target", thr[u].p) \in thr[u].lock
    BY DEF SegmentInv, SegmentHeld, QuotaInv, Promised, SourceHeld
  <1> QED
    BY <1>1, StateOK DEF QuotaInv, LocksHeld

\* The offset of a chunk is committed.
LEMMA CommitChunkSegment ==
    ASSUME TypeInv, QuotaInv, FilesInv, SegmentInv, StatusFinal, Conversation,
           NEW t \in Threads \ {"maintenance"}, CommitChunk(t)
    PROVE  SegmentInv' /\ VerifiedKept
  <1>1. PICK r, p : r = thr[t].r /\ p = thr[t].p
    OBVIOUS
  <1>2. /\ thr[t].at = "storing" /\ Done(t) /\ UNCHANGED <<scene, dirs>>
        /\ up' = [up EXCEPT ![r][p].off = thr[t].was + 1, ![r][p].stale = FALSE]
    BY <1>1 DEF CommitChunk, At, KeepVolume, volume
  <1>3. r \in Recordings /\ p \in AllParts /\ "target" \in Recordings
    BY <1>1, <1>2, StateOK, Fixed DEF Busy
  <1>4. PICK v : up' = [up EXCEPT ![r][p] = v] /\ v.st = up[r][p].st /\ v.dir = up[r][p].dir
    <2>1. up' = [up EXCEPT ![r][p] = [up[r][p] EXCEPT !.off = thr[t].was + 1, !.stale = FALSE]]
      BY <1>2, <1>3 DEF TypeInv, RowType
    <2>2. /\ [up[r][p] EXCEPT !.off = thr[t].was + 1, !.stale = FALSE].st = up[r][p].st
          /\ [up[r][p] EXCEPT !.off = thr[t].was + 1, !.stale = FALSE].dir = up[r][p].dir
      BY <1>3, RowOK DEF UploadRow
    <2> QED
      BY <2>1, <2>2
  <1>5. up'[r][p] = v /\ \A x \in Recordings, q \in AllParts :
                            <<x, q>> # <<r, p>> => up'[x][q] = up[x][q]
    BY <1>3, <1>4, OneUpload
  <1>6. \A x \in Recordings, q \in AllParts :
           up'[x][q].st = up[x][q].st /\ up'[x][q].dir = up[x][q].dir
    BY <1>4, <1>5
  <1>7. r = "target" => up["target"][p].st = "uploading" /\ UpLock("target", p) \in thr[t].lock
    BY <1>1, <1>2 DEF SegmentInv, SegmentHeld
  <1>8. thr'[t] = Idle /\ Idle.at = "idle" /\ \A u \in Threads \ {t} : thr'[u] = thr[u]
    BY <1>2, Moves DEF Done, Idle
  <1>9. SegmentRows'
    <2>1. ASSUME NEW q \in AllParts
          PROVE  SegmentRow(q)'
      <3>1. CASE <<r, p>> = <<"target", q>>
        BY <1>3, <1>6, <1>7, <3>1 DEF SegmentInv, SegmentRows, SegmentRow, StatusFinal
      <3>2. CASE <<r, p>> # <<"target", q>>
        BY <1>2, <1>3, <1>5, <1>6, <3>2, SegmentRowKept
      <3> QED
        BY <3>1, <3>2
    <2> QED
      BY <2>1 DEF SegmentRows
  <1>10. ASSUME NEW u \in Threads \ {t}
         PROVE  /\ thr[u].at = "reserved" =>
                      \A x \in Recordings, q \in AllParts : thr[u].f # up'[x][q].dir
                /\ thr[u].at \in {"storing", "verifying"} /\ thr[u].r = "target" =>
                      up'["target"][thr[u].p] = up["target"][thr[u].p]
                /\ thr[u].at \in {"tidying", "discarding"} =>
                      \A q \in AllParts : up'["target"][q].st \in Counted =>
                         up'["target"][q].dir \notin thr[u].gone
    <2>1. SegmentHeld(u)
      BY DEF SegmentInv
    <2>2. thr[u].at \in {"storing", "verifying"} /\ thr[u].r = "target" =>
             up'["target"][thr[u].p] = up["target"][thr[u].p]
      BY <1>3, <1>5, <1>7, SegmentLocked
    <2> QED
      BY <1>3, <1>6, <2>1, <2>2 DEF SegmentHeld
  <1>11. VerifiedKept
    BY <1>3, <1>6 DEF VerifiedKept
  <1>12. SegmentHeld(t)'
    BY <1>8, NoSegment
  <1> QED
    BY <1>2, <1>8, <1>9, <1>10, <1>11, <1>12, SegmentCommits

\* A segment whose chunks have been read back is verified.
LEMMA CommitVerifiedSegment ==
    ASSUME TypeInv, QuotaInv, FilesInv, SegmentInv, StatusFinal, Conversation,
           NEW t \in Threads \ {"maintenance"}, CommitVerified(t)
    PROVE  SegmentInv' /\ VerifiedKept
  <1>1. PICK r, p : r = thr[t].r /\ p = thr[t].p
    OBVIOUS
  <1>2. /\ thr[t].at = "verifying" /\ Done(t) /\ UNCHANGED <<scene, dirs>>
        /\ up' = [up EXCEPT ![r][p].st = "verified"]
    BY <1>1 DEF CommitVerified, At, KeepVolume, volume
  <1>3. /\ r = "target" /\ ReadBack("target", p) /\ UpLock("target", p) \in thr[t].lock
        /\ up["target"][p].st \in Counted /\ "target" \in Recordings /\ p \in AllParts
    BY <1>1, <1>2, StateOK, Fixed DEF SegmentInv, SegmentHeld, QuotaInv, Promised, SourceHeld
  <1>4. PICK v : /\ up' = [up EXCEPT !["target"][p] = v] /\ v.st = "verified"
                 /\ v.dir = up["target"][p].dir /\ v.off = up["target"][p].off
    <2>1. up' = [up EXCEPT !["target"][p] = [up["target"][p] EXCEPT !.st = "verified"]]
      BY <1>2, <1>3 DEF TypeInv, RowType
    <2>2. /\ [up["target"][p] EXCEPT !.st = "verified"].st = "verified"
          /\ [up["target"][p] EXCEPT !.st = "verified"].dir = up["target"][p].dir
          /\ [up["target"][p] EXCEPT !.st = "verified"].off = up["target"][p].off
      BY <1>3, RowOK DEF UploadRow
    <2> QED
      BY <2>1, <2>2
  <1>5. up'["target"][p] = v /\ \A x \in Recordings, q \in AllParts :
                                   <<x, q>> # <<"target", p>> => up'[x][q] = up[x][q]
    <2>1. r \in Recordings /\ up' = [up EXCEPT ![r][p] = v]
      BY <1>3, <1>4
    <2>2. up'[r][p] = v
      BY <1>3, <2>1 DEF TypeInv, RowType
    <2>3. \A x \in Recordings, q \in AllParts : <<x, q>> # <<r, p>> => up'[x][q] = up[x][q]
      BY <1>3, <2>1 DEF TypeInv, RowType
    <2> QED
      BY <1>3, <2>2, <2>3
  <1>6. \A x \in Recordings, q \in AllParts :
           up'[x][q].dir = up[x][q].dir /\ (up'[x][q].st = up[x][q].st \/ up'[x][q].st = "verified")
    BY <1>4, <1>5
  <1>7. thr'[t] = Idle /\ Idle.at = "idle" /\ \A u \in Threads \ {t} : thr'[u] = thr[u]
    BY <1>2, Moves DEF Done, Idle
  <1>8. ReadBack("target", p)'
    <2>1. Size("target")' = Size("target") /\ Chunks("target")' = Chunks("target")
      BY <1>2, <1>3, SceneKept
    <2> QED
      BY <1>2, <1>3, <1>4, <1>5, <2>1 DEF ReadBack
  <1>9. SegmentRows'
    <2>1. ASSUME NEW q \in AllParts
          PROVE  SegmentRow(q)'
      <3>1. CASE q = p
        <4>1. SegmentRow(p) /\ up["target"][p].dir # None
          BY <1>3 DEF SegmentInv, SegmentRows, SegmentRow
        <4>2. /\ up'["target"][p].st = "verified" /\ up'["target"][p].dir = up["target"][p].dir
              /\ \A x \in Recordings, y \in AllParts : up'[x][y].dir = up[x][y].dir
          BY <1>3, <1>4, <1>5, <1>6
        <4> QED
          BY <1>8, <3>1, <4>1, <4>2 DEF SegmentRow
      <3>2. CASE q # p
        BY <1>2, <1>3, <1>5, <1>6, <3>2, SegmentRowKept
      <3> QED
        BY <3>1, <3>2
    <2> QED
      BY <2>1 DEF SegmentRows
  <1>10. ASSUME NEW u \in Threads \ {t}
         PROVE  /\ thr[u].at = "reserved" =>
                      \A x \in Recordings, q \in AllParts : thr[u].f # up'[x][q].dir
                /\ thr[u].at \in {"storing", "verifying"} /\ thr[u].r = "target" =>
                      up'["target"][thr[u].p] = up["target"][thr[u].p]
                /\ thr[u].at \in {"tidying", "discarding"} =>
                      \A q \in AllParts : up'["target"][q].st \in Counted =>
                         up'["target"][q].dir \notin thr[u].gone
    <2>1. SegmentHeld(u)
      BY DEF SegmentInv
    <2>2. thr[u].at \in {"storing", "verifying"} /\ thr[u].r = "target" =>
             up'["target"][thr[u].p] = up["target"][thr[u].p]
      BY <1>3, <1>5, SegmentLocked
    <2>3. \A q \in AllParts : up'["target"][q].st \in Counted => up["target"][q].st \in Counted
      BY <1>3, <1>5
    <2> QED
      BY <1>3, <1>6, <2>1, <2>2, <2>3 DEF SegmentHeld
  <1>11. VerifiedKept
    BY <1>3, <1>6 DEF VerifiedKept
  <1>12. SegmentHeld(t)'
    BY <1>7, NoSegment
  <1> QED
    BY <1>2, <1>7, <1>9, <1>10, <1>11, <1>12, SegmentCommits

\* The voicemail beside the conversation becomes ready.
LEMMA CommitReadySegment ==
    ASSUME TypeInv, QuotaInv, FilesInv, SegmentInv, StatusFinal, Conversation,
           NEW t \in Threads \ {"maintenance"}, CommitReady(t)
    PROVE  SegmentInv' /\ VerifiedKept
  <1>1. thr[t].r = "other" /\ "other" \in Recordings /\ "target" \in Recordings /\ 0 \in AllParts
    <2>1. thr[t].r \in Recordings
      BY StateOK DEF CommitReady, At, Busy
    <2> QED
      BY <2>1, ConversationOK, Fixed DEF CommitReady
  <1> DEFINE s == [Idle EXCEPT !.at = "tidying", !.r = "other", !.gone = {up["other"][0].dir}]
  <1>2. /\ thr[t].at = "finalized" /\ Goto(t, s) /\ UNCHANGED <<scene, dirs>>
        /\ up' = [up EXCEPT !["other"][0] = NoUpload]
    BY <1>1 DEF CommitReady, At, KeepVolume, volume
  <1>3. s.at = "tidying" /\ s.gone = {up["other"][0].dir}
    BY DEF Idle
  <1> HIDE DEF s
  <1>4. thr'[t] = s /\ \A u \in Threads \ {t} : thr'[u] = thr[u]
    BY <1>2, Moves
  <1>5. up'["other"][0].dir = None /\ \A x \in Recordings, q \in AllParts :
                                         <<x, q>> # <<"other", 0>> => up'[x][q] = up[x][q]
    <2>1. PICK r \in Recordings, p \in AllParts : r = "other" /\ p = 0
      BY <1>1
    <2>2. up' = [up EXCEPT ![r][p] = NoUpload]
      BY <1>2, <2>1
    <2>3. up'[r][p] = NoUpload
      BY <2>2 DEF TypeInv, RowType
    <2>4. \A x \in Recordings, q \in AllParts : <<x, q>> # <<r, p>> => up'[x][q] = up[x][q]
      BY <2>2 DEF TypeInv, RowType
    <2> QED
      BY <2>1, <2>3, <2>4 DEF NoUpload
  <1>6. \A q \in AllParts : up'["target"][q] = up["target"][q]
    BY <1>1, <1>5
  <1>7. \A x \in Recordings, q \in AllParts : up'[x][q].dir \in {up[x][q].dir, None}
    BY <1>5
  <1>8. ASSUME NEW q \in AllParts
        PROVE  SegmentRow(q)'
    <2>1. CASE up["target"][q].dir # None
      BY <1>2, <1>6, <1>7, <2>1, SegmentRowKept
    <2>2. CASE up["target"][q].dir = None
      <3>1. PICK u : u = up["target"][q] /\ u = up'["target"][q]
        BY <1>6
      <3>2. SegmentRow(q) /\ None \notin DOMAIN dirs
        BY NamesOK DEF SegmentInv, SegmentRows, TypeInv, VolumeType
      <3>3. u.dir = None /\ u.st \notin Counted /\ u.st # "verified"
        BY <2>2, <3>1, <3>2 DEF SegmentRow, Counted
      <3> QED
        BY <1>1, <3>1, <3>2, <3>3 DEF SegmentRow, StatusFinal
    <2> QED
      BY <2>1, <2>2
  <1>9. SegmentRows'
    BY <1>8 DEF SegmentRows
  <1>10. ASSUME NEW u \in Threads \ {t}
         PROVE  /\ thr[u].at = "reserved" =>
                      \A x \in Recordings, q \in AllParts : thr[u].f # up'[x][q].dir
                /\ thr[u].at \in {"storing", "verifying"} /\ thr[u].r = "target" =>
                      up'["target"][thr[u].p] = up["target"][thr[u].p]
                /\ thr[u].at \in {"tidying", "discarding"} =>
                      \A q \in AllParts : up'["target"][q].st \in Counted =>
                         up'["target"][q].dir \notin thr[u].gone
    <2>1. SegmentHeld(u) /\ thr[u].p \in AllParts
      BY StateOK DEF SegmentInv
    <2>2. thr[u].at = "reserved" => thr[u].f # None
      <3>1. thr[u].at = "reserved" => thr[u].f \in Given
        BY StateOK DEF Equipped
      <3> QED
        BY <3>1, NamesOK DEF TypeInv
    <2> QED
      BY <1>6, <1>7, <2>1, <2>2 DEF SegmentHeld
  <1>11. VerifiedKept
    BY <1>6 DEF VerifiedKept
  <1>12. SegmentHeld(t)'
    <2>1. \A q \in AllParts : up["target"][q].st \in Counted =>
             up["target"][q].dir # up["other"][0].dir
      BY <1>1 DEF SegmentInv, SegmentRows, SegmentRow
    <2>2. \A u \in Threads : thr'[u].at = "reserved" => thr'[u].f # up["other"][0].dir
      BY <1>1, <1>3, <1>4 DEF SegmentInv, SegmentHeld
    <2> QED
      BY <1>3, <1>4, <1>6, <2>1, <2>2 DEF SegmentHeld
  <1> QED
    BY <1>2, <1>3, <1>4, <1>9, <1>10, <1>11, <1>12, SegmentCommits

\* The conversation is assembled from its segments, and ready.
LEMMA CommitAssembledSegment ==
    ASSUME TypeInv, QuotaInv, FilesInv, SegmentInv, StatusFinal, Conversation,
           NEW t \in Threads \ {"maintenance"}, CommitAssembled(t)
    PROVE  SegmentInv' /\ VerifiedKept
  <1>1. PICK r \in Recordings : r = thr[t].r /\ r = "target"
    <2>1. thr[t].r \in Recordings
      BY StateOK DEF CommitAssembled, At, Busy
    <2> QED
      BY <2>1, ConversationOK DEF CommitAssembled
  <1> DEFINE G == IF t = "admin" THEN {} ELSE {up[r][p].dir : p \in Parts(r)}
             s == [Idle EXCEPT !.at = "tidying", !.r = r, !.gone = G]
  <1>2. /\ thr[t].at = "finalized" /\ Goto(t, s) /\ UNCHANGED <<scene, dirs>>
        /\ row' = [row EXCEPT ![r] = [status |-> "ready", media |-> thr[t].f]]
    BY <1>1 DEF CommitAssembled, At, KeepVolume, volume
  <1>3. s.at = "tidying" /\ s.gone = G
    BY DEF Idle
  <1>4. \A d \in G : \E p \in Parts(r) : d = up[r][p].dir
    OBVIOUS
  <1> HIDE DEF s, G
  <1>5. Parts(r) \subseteq AllParts /\ row'["target"].status = "ready" /\ Segmented(r)
    <2>1. row'[r].status = "ready"
      BY <1>2 DEF TypeInv, RowType
    <2> QED
      BY <1>1, <2>1, PartsOK, ConversationOK DEF TypeInv
  <1>6. thr'[t] = s /\ \A u \in Threads \ {t} : thr'[u] = thr[u]
    BY <1>2, Moves
  <1>7. /\ \A p \in Parts(r) : up'[r][p].st = "assembled" /\ up'[r][p].dir = up[r][p].dir
        /\ \A p \in AllParts \ Parts(r) : up'[r][p] = up[r][p]
        /\ \A x \in Recordings \ {r} : up'[x] = up[x]
    <2>1. up' = [up EXCEPT ![r] = [p \in AllParts |->
             IF p \in Parts(r) THEN [up[r][p] EXCEPT !.st = "assembled"] ELSE up[r][p]]]
      BY <1>1 DEF CommitAssembled, TypeInv, RowType
    <2>2. up'[r] = [p \in AllParts |->
             IF p \in Parts(r) THEN [up[r][p] EXCEPT !.st = "assembled"] ELSE up[r][p]]
          /\ \A x \in Recordings \ {r} : up'[x] = up[x]
      BY <2>1 DEF TypeInv, RowType
    <2>3. \A p \in AllParts : /\ [up[r][p] EXCEPT !.st = "assembled"].st = "assembled"
                              /\ [up[r][p] EXCEPT !.st = "assembled"].dir = up[r][p].dir
      BY RowOK DEF UploadRow
    <2> QED
      BY <1>5, <2>2, <2>3
  <1>8. \A x \in Recordings, q \in AllParts : up'[x][q].dir = up[x][q].dir
    BY <1>7
  <1>9. \A q \in AllParts : up'["target"][q].st \in Counted =>
                               q \notin Parts(r) /\ up'["target"][q] = up["target"][q]
    BY <1>1, <1>7 DEF Counted
  <1>10. ASSUME NEW q \in AllParts
         PROVE  SegmentRow(q)'
    <2>1. CASE q \in Parts(r)
      <3>1. /\ up'["target"][q].st = "assembled" /\ up'["target"][q].st \notin Counted
            /\ up'["target"][q].st # "verified"
        BY <1>1, <1>7, <2>1 DEF Counted
      <3>2. SegmentRow(q)
        BY DEF SegmentInv, SegmentRows
      <3> QED
        BY <1>1, <1>5, <1>8, <3>1, <3>2 DEF SegmentRow
    <2>2. CASE q \notin Parts(r)
      BY <1>1, <1>2, <1>7, <1>8, <2>2, SegmentRowKept
    <2> QED
      BY <2>1, <2>2
  <1>11. SegmentRows'
    BY <1>10 DEF SegmentRows
  <1>12. ASSUME NEW u \in Threads \ {t}
         PROVE  /\ thr[u].at = "reserved" =>
                      \A x \in Recordings, q \in AllParts : thr[u].f # up'[x][q].dir
                /\ thr[u].at \in {"storing", "verifying"} /\ thr[u].r = "target" =>
                      up'["target"][thr[u].p] = up["target"][thr[u].p]
                /\ thr[u].at \in {"tidying", "discarding"} =>
                      \A q \in AllParts : up'["target"][q].st \in Counted =>
                         up'["target"][q].dir \notin thr[u].gone
    <2>1. SegmentHeld(u)
      BY DEF SegmentInv
    <2>2. ASSUME thr[u].at \in {"storing", "verifying"}, thr[u].r = "target"
          PROVE  up'["target"][thr[u].p] = up["target"][thr[u].p]
      <3>1. thr[u].p \in AllParts /\ UpLock("target", thr[u].p) \notin thr[t].lock
        BY <2>2, SegmentLocked
      <3>2. SegmentLocks(r) \subseteq thr[t].lock
        BY <1>1, <1>2, <1>5 DEF QuotaInv, Promised, SourceHeld
      <3>3. thr[u].p \notin Parts(r)
        BY <1>1, <3>1, <3>2 DEF SegmentLocks
      <3> QED
        BY <1>1, <1>7, <3>1, <3>3
    <2> QED
      BY <1>8, <1>9, <2>1, <2>2 DEF SegmentHeld
  <1>13. SegmentHeld(t)'
    <2>1. ASSUME NEW q \in AllParts, up'["target"][q].st \in Counted
          PROVE  up'["target"][q].dir \notin G
      <3>1. SUFFICES ASSUME NEW p \in Parts(r), up'["target"][q].dir = up[r][p].dir
                     PROVE  FALSE
        BY <1>4
      <3>2. q # p /\ up["target"][q].st \in Counted /\ up["target"][q].dir = up["target"][p].dir
        BY <1>1, <1>9, <2>1, <3>1
      <3>3. SegmentRow(q) /\ p \in AllParts
        BY <1>5 DEF SegmentInv, SegmentRows
      <3> QED
        BY <1>1, <3>2, <3>3 DEF SegmentRow
    <2>2. ASSUME NEW u \in Threads, thr'[u].at = "reserved"
          PROVE  thr'[u].f \notin G
      <3>1. u # t /\ thr'[u] = thr[u]
        BY <1>3, <1>6, <2>2
      <3>2. SegmentHeld(u)
        BY DEF SegmentInv
      <3> QED
        BY <1>4, <1>5, <2>2, <3>1, <3>2 DEF SegmentHeld
    <2> QED
      BY <1>3, <1>6, <2>1, <2>2 DEF SegmentHeld
  <1>14. VerifiedKept
    BY <1>5 DEF VerifiedKept
  <1> QED
    BY <1>2, <1>3, <1>6, <1>11, <1>12, <1>13, <1>14, SegmentCommits

\* Media is moved aside.
LEMMA PurgeSegment ==
    ASSUME TypeInv, QuotaInv, SegmentInv, StatusFinal, NEW t \in Threads, NEW X, NEW A,
           PurgeExpired(t, X, A)
    PROVE  SegmentInv' /\ VerifiedKept
  <1> DEFINE F == {row[r].media : r \in X}
             G == {<<q, up[q[1]][q[2]].dir>> : q \in A}
             s == [Idle EXCEPT !.at = "purging", !.set = F, !.policy = TRUE, !.gone = G]
  <1>1. Goto(t, s) /\ UNCHANGED <<scene, up, dirs>>
    BY DEF PurgeExpired, rows
  <1>2. s.at = "purging"
    BY DEF Idle
  <1> HIDE DEF s, F, G
  <1>3. thr'[t] = s
    BY <1>1, Moves
  <1> QED
    BY <1>1, <1>2, <1>3, NoSegment, SegmentPlain

\* A removal touches no segment: none of them is abandoned.
LEMMA RemovalSegment ==
    ASSUME TypeInv, QuotaInv, FinalInv, SegmentInv, StatusFinal, Conversation, Removal
    PROVE  SegmentInv' /\ VerifiedKept
  <1>a. {"admin", "maintenance"} \subseteq Threads
    BY Fixed
  <1>1. ASSUME NEW r \in Recordings, DeleteRecording(r)
        PROVE  SegmentInv' /\ VerifiedKept
    <2> DEFINE s == [Idle EXCEPT !.at = "deleting", !.set = {row[r].media}, !.lock = {RecLock(r)}]
    <2>1. Goto("admin", s) /\ UNCHANGED <<scene, up, dirs>>
      BY <1>1 DEF DeleteRecording, rows
    <2>2. s.at = "deleting"
      BY DEF Idle
    <2> HIDE DEF s
    <2>3. thr'["admin"] = s
      BY <1>a, <2>1, Moves
    <2> QED
      BY <1>a, <2>1, <2>2, <2>3, NoSegment, SegmentPlain
  <1>2. ASSUME NEW t \in Threads, NEW X, NEW A, PurgeExpired(t, X, A)
        PROVE  SegmentInv' /\ VerifiedKept
    BY <1>2, PurgeSegment
  <1>3. ASSUME NEW t \in Threads, CommitRemoval(t)
        PROVE  SegmentInv' /\ VerifiedKept
    <2>1. thr[t].gone = {}
      BY <1>3 DEF CommitRemoval, FinalInv, Stands, Conversation
    <2> DEFINE G == {g[2] : g \in thr[t].gone}
               s == [Idle EXCEPT !.at = "discarding", !.set = thr[t].set, !.gone = G]
    <2>2. Goto(t, s) /\ UNCHANGED <<scene, dirs>> /\ CleanupAbandoned(t)
      BY <1>3 DEF CommitRemoval, volume
    <2>3. s.at = "discarding" /\ s.gone = {}
      BY <2>1 DEF Idle
    <2> HIDE DEF s, G
    <2>4. thr'[t] = s
      BY <2>2, Moves
    <2>5. up' = up
      <3>1. up' = [r \in Recordings |-> [p \in AllParts |-> up[r][p]]]
        BY <2>1, <2>2 DEF CleanupAbandoned
      <3> QED
        BY <3>1 DEF TypeInv, RowType
    <2>6. SegmentHeld(t)'
      BY <2>3, <2>4 DEF SegmentHeld
    <2> QED
      BY <2>2, <2>3, <2>5, <2>6, SegmentPlain
  <1>4. ASSUME NEW t \in Threads, DiscardRemoved(t)
        PROVE  SegmentInv' /\ VerifiedKept
    <2>1. /\ thr[t].at = "discarding" /\ Done(t) /\ UNCHANGED <<scene, up>>
          /\ RemoveUploadFiles(thr[t].gone)
      BY <1>4 DEF DiscardRemoved, At, rows
    <2>2. \A p \in AllParts : up["target"][p].st \in Counted => up["target"][p].dir \notin thr[t].gone
      BY <2>1 DEF SegmentInv, SegmentHeld
    <2> QED
      BY <2>1, <2>2, RemoveSegment
  <1>5. ASSUME NEW t \in Threads, FailRemoval(t)
        PROVE  SegmentInv' /\ VerifiedKept
    <2>1. Goto(t, Idle) /\ UNCHANGED <<scene, up, dirs>> /\ Idle.at = "idle"
      BY <1>5 DEF FailRemoval, Done, rows, Idle
    <2>2. thr'[t] = Idle
      BY <2>1, Moves
    <2> QED
      BY <2>1, <2>2, NoSegment, SegmentPlain
  <1> QED
    BY <1>a, <1>1, <1>2, <1>3, <1>4, <1>5 DEF Removal, GetSettings, PutSettings

\* A start prunes only directories that it has found to belong to nobody.
LEMMA MaintenanceSegment ==
    ASSUME TypeInv, QuotaInv, FilesInv, SegmentInv, StatusFinal, Conversation, Maintenance
    PROVE  SegmentInv' /\ VerifiedKept
  <1>m. PICK m : m = thr["maintenance"]
    OBVIOUS
  <1>a. "maintenance" \in Threads /\ m \in ThreadState /\ "target" \in Recordings
    BY <1>m, Fixed, StateOK
  <1>b. m.at # "idle" => \A u \in Threads : thr[u].at \notin {"verifying", "reserved"} \/ u = "maintenance"
    <2>1. Idle.at = "idle"
      BY DEF Idle
    <2> QED
      BY <1>m, <1>a, <2>1 DEF FilesInv, Serving
  <1>c. ASSUME NEW l, NEW S, NEW D, Maintain(l, S, D)
        PROVE  /\ thr'["maintenance"].at = l /\ thr'["maintenance"].set = S
               /\ thr'["maintenance"].gone = D /\ \E s : Goto("maintenance", s) /\ s.at = l
    <2> DEFINE s == [Idle EXCEPT !.at = l, !.set = S, !.gone = D]
    <2>1. Goto("maintenance", s)
      BY <1>c DEF Maintain
    <2>2. s.at = l /\ s.set = S /\ s.gone = D
      BY DEF Idle
    <2> HIDE DEF s
    <2>3. thr'["maintenance"] = s
      BY <1>a, <2>1, Moves
    <2> QED
      BY <2>1, <2>2, <2>3
  <1>d. KeepRows => UNCHANGED <<scene, up>>
    BY DEF KeepRows, rows
  <1>e. ASSUME NEW s, Goto("maintenance", s), KeepRows, UNCHANGED dirs,
               s.at \in {"idle", "quarantine", "restore", "erase", "root", "unlink"}
        PROVE  SegmentInv' /\ VerifiedKept
    <2>1. thr'["maintenance"] = s
      BY <1>a, <1>e, Moves
    <2> QED
      BY <1>a, <1>d, <1>e, <2>1, NoSegment, SegmentPlain
  <1>f. ASSUME NEW l, NEW f, Judging(l, f)
        PROVE  \E s : Goto("maintenance", s) /\ s.at = l
    <2> DEFINE s == [m EXCEPT !.at = l, !.f = f, !.set = @ \ {f}]
    <2>1. Goto("maintenance", s)
      BY <1>f, <1>m DEF Judging
    <2>2. s.at = l
      BY <1>a DEF ThreadState
    <2> QED
      BY <2>1, <2>2
  <1>1. ASSUME StartServer \/ HourlyMaintenance \/ SettleQuarantined
        PROVE  SegmentInv' /\ VerifiedKept
    <2>1. (\E S \in {quar, m.set} : Maintain("quarantine", S, {})) /\ KeepRows /\ UNCHANGED dirs
      BY <1>1, <1>m DEF StartServer, HourlyMaintenance, SettleQuarantined
    <2> QED
      BY <1>c, <1>e, <2>1
  <1>2. ASSUME NEW f \in Names, JudgeQuarantined(f) \/ JudgeMedia(f)
        PROVE  SegmentInv' /\ VerifiedKept
    <2>1. PICK l \in {"restore", "erase", "root", "unlink"} :
             Judging(l, f) /\ KeepRows /\ UNCHANGED dirs
      BY <1>2 DEF JudgeQuarantined, JudgeMedia
    <2> QED
      BY <1>e, <1>f, <2>1
  <1>3. ASSUME ScanRoot \/ UnlinkMedia
        PROVE  SegmentInv' /\ VerifiedKept
    <2>1. (\E S : Maintain("root", S, {})) /\ KeepRows /\ UNCHANGED dirs
      BY <1>3 DEF ScanRoot, UnlinkMedia
    <2> QED
      BY <1>c, <1>e, <2>1
  <1>4. ASSUME ReadActiveNames
        PROVE  SegmentInv' /\ VerifiedKept
    <2>1. Maintain("uploads", {}, ActiveNames) /\ KeepRows /\ UNCHANGED <<scene, up, dirs>>
      BY <1>d, <1>4 DEF ReadActiveNames
    <2>2. thr'["maintenance"].at = "uploads" /\ thr'["maintenance"].gone = ActiveNames
      BY <1>c, <2>1
    <2>3. \A p \in Parts("target") : up["target"][p].st \in Counted =>
             up["target"][p].dir \in ActiveNames
      <3>1. ASSUME NEW p \in Parts("target"), up["target"][p].st \in Counted
            PROVE  up["target"][p].dir \in ActiveNames
        <4>1. PICK q : q = <<"target", p>>
          OBVIOUS
        <4>2. q \in Captured /\ q[1] = "target" /\ q[2] = p
          BY <1>a, <4>1 DEF Captured
        <4> QED
          BY <3>1, <4>2 DEF ActiveNames, Counted
      <3> QED
        BY <3>1
    <2>4. PruneSpares'
      <3>1. Parts("target")' = Parts("target")
        BY <1>a, <2>1, SceneKept
      <3> QED
        BY <2>1, <2>2, <2>3, <3>1 DEF PruneSpares
    <2>5. SegmentHeld("maintenance")'
      BY <2>2, NoSegment
    <2>6. \A u \in Threads \ {"maintenance"} : thr'[u] = thr[u]
      BY <1>a, <1>c, <2>1, Moves
    <2>7. \A p \in AllParts : ReadBack("target", p) => ReadBack("target", p)'
      BY <2>1, ReadKept DEF ReadBack
    <2> QED
      BY <1>a, <2>1, <2>2, <2>4, <2>5, <2>6, <2>7, SegmentKept
  <1>5. ASSUME ListUploads
        PROVE  SegmentInv' /\ VerifiedKept
    <2>1. /\ m.at = "uploads" /\ Maintain("prune", DOMAIN dirs \ m.gone, {}) /\ KeepRows
          /\ UNCHANGED <<scene, up, dirs>>
      BY <1>d, <1>m, <1>5 DEF ListUploads, At
    <2>2. thr'["maintenance"].at = "prune" /\ thr'["maintenance"].set = DOMAIN dirs \ m.gone
      BY <1>c, <2>1
    <2>3. PruneSpares'
      <3>1. Parts("target")' = Parts("target")
        BY <1>a, <2>1, SceneKept
      <3>2. \A p \in Parts("target") : up["target"][p].st \in Counted => up["target"][p].dir \in m.gone
        BY <1>m, <2>1 DEF SegmentInv, PruneSpares
      <3> QED
        BY <2>1, <2>2, <3>1, <3>2 DEF PruneSpares
    <2>4. SegmentHeld("maintenance")'
      BY <2>2, NoSegment
    <2>5. \A u \in Threads \ {"maintenance"} : thr'[u] = thr[u]
      BY <1>a, <1>c, <2>1, Moves
    <2>6. \A p \in AllParts : ReadBack("target", p) => ReadBack("target", p)'
      BY <2>1, ReadKept DEF ReadBack
    <2> QED
      BY <1>a, <2>1, <2>2, <2>3, <2>4, <2>5, <2>6, SegmentKept
  <1>6. ASSUME NEW d \in Names, PruneDirectory(d)
        PROVE  SegmentInv' /\ VerifiedKept
    <2>1. /\ m.at = "prune" /\ d \in m.set /\ Maintain("prune", m.set \ {d}, {}) /\ KeepRows
          /\ UNCHANGED <<scene, up>> /\ dirs' = [n \in DOMAIN dirs \ {d} |-> dirs[n]]
      BY <1>d, <1>m, <1>6 DEF PruneDirectory, WithoutDirs, At
    <2>2. thr'["maintenance"].at = "prune" /\ thr'["maintenance"].set = m.set \ {d}
      BY <1>c, <2>1
    <2>3. \A p \in Parts("target") : up["target"][p].st \in Counted => up["target"][p].dir \notin m.set
      BY <1>m, <2>1 DEF SegmentInv, PruneSpares
    <2>4. PruneSpares'
      <3>1. Parts("target")' = Parts("target")
        BY <1>a, <2>1, SceneKept
      <3> QED
        BY <2>1, <2>2, <2>3, <3>1 DEF PruneSpares
    <2>5. SegmentHeld("maintenance")'
      BY <2>2, NoSegment
    <2>6. \A u \in Threads \ {"maintenance"} : thr'[u] = thr[u]
      BY <1>a, <1>c, <2>1, Moves
    <2>7. ASSUME NEW q \in AllParts, ReadBack("target", q),
                 \/ q \in Parts("target") /\ up["target"][q].st = "verified"
                 \/ \E u \in Threads : thr[u].at = "verifying" /\ thr[u].p = q
          PROVE  ReadBack("target", q)'
      <3>1. q \in Parts("target") /\ up["target"][q].st = "verified"
        BY <1>b, <1>m, <2>1, <2>7
      <3>2. up["target"][q].dir \in DOMAIN dirs /\ up["target"][q].dir # d
        BY <2>1, <2>3, <2>7, <3>1 DEF ReadBack, Counted
      <3> QED
        BY <2>1, <2>7, <3>2, ReadKept
    <2> QED
      BY <1>a, <2>1, <2>2, <2>4, <2>5, <2>6, <2>7, SegmentKept
  <1>7. ASSUME ApplyRetention
        PROVE  SegmentInv' /\ VerifiedKept
    BY <1>a, <1>7, PurgeSegment DEF ApplyRetention
  <1>8. ASSUME MaintenanceFails
        PROVE  SegmentInv' /\ VerifiedKept
    <2>1. Goto("maintenance", Idle) /\ KeepRows /\ UNCHANGED dirs /\ Idle.at = "idle"
      BY <1>8 DEF MaintenanceFails, Done, Idle
    <2> QED
      BY <1>e, <2>1
  <1> QED
    BY <1>1, <1>2, <1>3, <1>4, <1>5, <1>6, <1>7, <1>8 DEF Maintenance

\* No recording beside a conversation is continuous, so the worker has nothing
\* to do.
LEMMA NoWorker ==
    ASSUME TypeInv, QuotaInv, Conversation, Worker
    PROVE  FALSE
  <1>a. "worker" \in Threads
    BY Fixed
  <1>1. ASSUME thr["worker"].at \in {"working", "placing", "accepting"}
        PROVE  FALSE
    <2>1. Kind(thr["worker"].r) = "continuous"
      BY <1>a, <1>1 DEF QuotaInv, Promised, ReceiptHeld
    <2>2. thr["worker"].r \in Recordings
      BY <1>a, <1>1, StateOK DEF Busy
    <2> QED
      BY <2>1, <2>2, ConversationOK
  <1>2. ASSUME NEW r \in Recordings, ProcessNext(r)
        PROVE  FALSE
    <2>1. rcpt[r] \in {"queued", "processing", "retrying"}
      BY <1>2 DEF ProcessNext
    <2> QED
      BY <2>1, ConversationOK DEF QuotaInv, ReceiptRows
  <1> QED
    BY <1>1, <1>2 DEF Worker, ReserveMedia, PlaceReserved, Accept, ProcessFails, At

\* Every step keeps the segments.
LEMMA NextSegment ==
    ASSUME TypeInv, QuotaInv, FinalInv, FilesInv, SegmentInv, [Next]_vars
    PROVE  SegmentInv' /\ VerifiedKept
  <1>a. scene' = scene /\ StatusFinal
    BY SceneConstant, NextFinal
  <1>b. SUFFICES ASSUME Conversation
                 PROVE  SegmentInv' /\ VerifiedKept
    BY <1>a DEF SegmentInv, VerifiedKept, Conversation
  <1>c. /\ Clients \cup {"admin", "worker"} \subseteq Threads \ {"maintenance"}
        /\ "admin" \in Threads
    BY Fixed
  <1>1. ASSUME Tablet
        PROVE  SegmentInv' /\ VerifiedKept
    <2>1. ASSUME NEW r \in Recordings, HearAcknowledged(r) \/ HearSegment(r)
          PROVE  SegmentInv' /\ VerifiedKept
      BY <1>a, <2>1, SegmentQuiet DEF HearAcknowledged, HearSegment, rows, volume
    <2> QED
      BY <1>a, <1>b, <1>1, <2>1, RequestSegment DEF Tablet
  <1>2. ASSUME NEW r \in Recordings, NEW p \in AllParts, GrowStale(r, p)
        PROVE  SegmentInv' /\ VerifiedKept
    BY <1>b, <1>2 DEF GrowStale, Conversation
  <1>3. ASSUME NEW t \in Clients \cup {"admin", "worker"}, Continue(t)
        PROVE  SegmentInv' /\ VerifiedKept
    <2>1. t \in Threads \ {"maintenance"}
      BY <1>c
    <2>2. ~RejectSegment(t)
      BY <1>b, <2>1, ConversationOK DEF RejectSegment, At, SegmentInv, SegmentHeld
    <2>3. ~CommitReset(t)
      <3>1. SUFFICES ASSUME thr[t].at = "resetting"
                     PROVE  FALSE
        BY DEF CommitReset, At
      <3>2. Kind(thr[t].r) = "continuous" /\ thr[t].r \in Recordings
        BY <2>1, <3>1, StateOK DEF QuotaInv, Promised, ReceiptHeld, Busy
      <3> QED
        BY <1>b, <3>2, ConversationOK
    <2> QED
      BY <1>a, <1>b, <1>3, <2>1, <2>2, <2>3, StepSegment, CommitUploadSegment, CommitChunkSegment,
         CommitReadySegment, CommitVerifiedSegment, CommitAssembledSegment DEF Continue
  <1>4. ASSUME NEW r \in Recordings, RecoverPartial(r)
        PROVE  SegmentInv' /\ VerifiedKept
    <2> DEFINE s == [Idle EXCEPT !.at = "assembling", !.r = r, !.lock = SegmentLocks(r),
                                 !.policy = TRUE]
    <2>1. Goto("admin", s) /\ UNCHANGED <<scene, up, dirs>>
      BY <1>4 DEF RecoverPartial, Assemble, KeepAll, rows, volume
    <2>2. s.at = "assembling"
      BY DEF Idle
    <2> HIDE DEF s
    <2>3. thr'["admin"] = s
      BY <1>c, <2>1, Moves
    <2> QED
      BY <1>a, <1>c, <2>1, <2>2, <2>3, NoSegment, SegmentPlain
  <1>5. ASSUME Crash
        PROVE  SegmentInv' /\ VerifiedKept
    <2>1. UNCHANGED <<scene, up, dirs>> /\ \A u \in Threads : thr'[u] = Idle
      BY <1>5 DEF Crash, rows
    <2>2. Idle.at = "idle" /\ "maintenance" \in Threads
      BY Fixed DEF Idle
    <2>3. \A u \in Threads : SegmentHeld(u)'
      BY <2>1, <2>2 DEF SegmentHeld
    <2>4. PruneSpares'
      BY <2>1, <2>2 DEF PruneSpares
    <2>5. \A q \in AllParts : SegmentRow(q)'
      BY <1>a, <1>b, <2>1, SegmentRowKept
    <2> QED
      BY <2>1, <2>3, <2>4, <2>5 DEF SegmentInv, SegmentRows, VerifiedKept
  <1>6. CASE UNCHANGED vars
    BY <1>a, <1>6, SegmentQuiet DEF vars
  <1> QED
    BY <1>1, <1>2, <1>3, <1>4, <1>5, <1>6, <1>a, <1>b, RemovalSegment, MaintenanceSegment, NoWorker
       DEF Next

\* A day without a chunk is no danger to a conversation.
Fresh == scene.kind = "conversation" => "stale" \notin scene.dangers

\* What the tablet no longer has was acknowledged: its recording is complete, or
\* it is a verified segment; and a receipt says so only of a complete recording.
AckInv ==
    /\ \A r \in Recordings : rcpt[r] = "ready" => RecordingAcknowledged(r)
    /\ \A q \in Captured :
          \/ q \in spool
          \/ RecordingAcknowledged(q[1])
          \/ Kind(q[1]) = "conversation" /\ up[q[1]][q[2]].st = "verified"

\* The tablet deletes audio when it hears of it, and at no other time.
LEMMA SpoolChanges ==
    ASSUME [Next]_vars
    PROVE  spool' = spool \/ \E r \in Recordings : HearAcknowledged(r) \/ HearSegment(r)
  <1>1. ASSUME NEW t, NEW r, Request(t, r)
        PROVE  spool' = spool
    BY <1>1 DEF Request, CreateRecording, CreateContinuous, CreateConversation, CreateSession,
       CompleteRecording, CompleteConversation, CompleteSession, CompleteContinuous,
       ResetContinuous, UploadContent, UploadContinuous, CreateConversationSegment,
       CreateSessionSegment, CompleteConversationSegment, CompleteSessionSegment, UploadSegment,
       UploadSessionSegment, Opening, OpenSegmented, OpenSegment, StoreChunk, VerifySegment,
       Assemble, KeepAll, KeepVolume
  <1>2. ASSUME NEW t, Continue(t)
        PROVE  spool' = spool
    BY <1>2 DEF Continue, ReserveUpload, RefuseUpload, CommitUpload, FailUpload, CommitChunk,
       FailRequest, Finalize, RefuseFinal, CommitReady, FailReady, Tidy, CommitVerified,
       RejectSegment, AssembleConversation, AssemblyFails, CommitAssembled, CommitReset, PlaceMedia,
       KeepAll, KeepVolume
  <1>3. ASSUME Removal
        PROVE  spool' = spool
    BY <1>3 DEF Removal, DeleteRecording, GetSettings, PutSettings, PurgeExpired, CommitRemoval,
       DiscardRemoved, FailRemoval
  <1>4. ASSUME Maintenance
        PROVE  spool' = spool
    BY <1>4 DEF Maintenance, StartServer, HourlyMaintenance, JudgeQuarantined, JudgeMedia,
       PruneDirectory, SettleQuarantined, ScanRoot, UnlinkMedia, ReadActiveNames, ListUploads,
       ApplyRetention, MaintenanceFails, PurgeExpired, KeepRows
  <1>5. ASSUME Worker
        PROVE  spool' = spool
    BY <1>5 DEF Worker, ProcessNext, ReserveMedia, PlaceReserved, Accept, ProcessFails, KeepAll,
       KeepVolume
  <1>6. ASSUME Crash \/ (\E r \in Recordings : RecoverPartial(r))
               \/ (\E r \in Recordings, p \in AllParts : GrowStale(r, p))
        PROVE  spool' = spool
    BY <1>6 DEF Crash, RecoverPartial, Assemble, GrowStale, KeepAll
  <1> QED
    BY <1>1, <1>2, <1>3, <1>4, <1>5, <1>6 DEF Next, Tablet, vars

\* A receipt becomes ready with its recording.
LEMMA ReceiptChanges ==
    ASSUME TypeInv, [Next]_vars, NEW r \in Recordings, rcpt'[r] = "ready"
    PROVE  rcpt[r] = "ready" \/ row'[r].status = "ready"
  <1> DEFINE Kept == rcpt' = rcpt
             Sets(v) == \E x : rcpt' = [rcpt EXCEPT ![x] = v]
  <1>1. ASSUME NEW t, NEW x, Request(t, x)
        PROVE  Kept \/ Sets("queued")
    BY <1>1 DEF Request, CreateRecording, CreateContinuous, CreateConversation, CreateSession,
       CompleteRecording, CompleteConversation, CompleteSession, CompleteContinuous,
       ResetContinuous, UploadContent, UploadContinuous, CreateConversationSegment,
       CreateSessionSegment, CompleteConversationSegment, CompleteSessionSegment, UploadSegment,
       UploadSessionSegment, Opening, OpenSegmented, OpenSegment, StoreChunk, VerifySegment,
       Assemble, KeepAll, KeepVolume, rows
  <1>2. ASSUME NEW t, Continue(t)
        PROVE  Kept \/ Sets("uploading")
    <2>1. CommitUpload(t) => Kept \/ Sets("uploading")
      BY DEF CommitUpload
    <2>2. CommitReset(t) => Sets("uploading")
      BY DEF CommitReset
    <2>3. CommitUpload(t) \/ CommitReset(t) \/ Kept
      BY <1>2 DEF Continue, ReserveUpload, RefuseUpload, FailUpload, CommitChunk, FailRequest,
         Finalize, RefuseFinal, CommitReady, FailReady, Tidy, CommitVerified, RejectSegment,
         AssembleConversation, AssemblyFails, CommitAssembled, PlaceMedia, KeepAll, KeepVolume, rows
    <2> QED
      BY <2>1, <2>2, <2>3
  <1>3. ASSUME Removal
        PROVE  Kept
    BY <1>3 DEF Removal, DeleteRecording, GetSettings, PutSettings, PurgeExpired, CommitRemoval,
       DiscardRemoved, FailRemoval, rows
  <1>4. ASSUME Maintenance
        PROVE  Kept
    BY <1>4 DEF Maintenance, StartServer, HourlyMaintenance, JudgeQuarantined, JudgeMedia,
       PruneDirectory, SettleQuarantined, ScanRoot, UnlinkMedia, ReadActiveNames, ListUploads,
       ApplyRetention, MaintenanceFails, PurgeExpired, KeepRows, rows
  <1>5. ASSUME Worker
        PROVE  \/ Kept \/ Sets("processing") \/ Accept
               \/ \E state \in {"retrying", "invalid", "needs_attention"} : Sets(state)
    BY <1>5 DEF Worker, ProcessNext, ReserveMedia, PlaceReserved, ProcessFails, KeepAll, rows
  <1>6. ASSUME Crash \/ (\E x \in Recordings : RecoverPartial(x))
               \/ (\E x \in Recordings, p \in AllParts : GrowStale(x, p))
               \/ (\E x \in Recordings : HearAcknowledged(x) \/ HearSegment(x))
        PROVE  Kept
    BY <1>6 DEF Crash, RecoverPartial, Assemble, GrowStale, HearAcknowledged, HearSegment, KeepAll,
       rows
  <1>7. ASSUME NEW v, v # "ready", Sets(v)
        PROVE  rcpt[r] = "ready"
    BY <1>7 DEF TypeInv, RowType
  <1>8. ASSUME Accept
        PROVE  rcpt[r] = "ready" \/ row'[r].status = "ready"
    <2>1. PICK x : x = thr["worker"].r
      OBVIOUS
    <2>2. /\ rcpt' = [rcpt EXCEPT ![x] = "ready"] /\ row' = [row EXCEPT ![x].status = "ready"]
      BY <1>8, <2>1 DEF Accept
    <2> QED
      BY <2>2 DEF TypeInv, RowType, RecordingRow
  <1> HIDE DEF Sets
  <1>9. Kept => rcpt[r] = "ready"
    OBVIOUS
  <1>10. \/ Kept \/ Accept
         \/ \E v \in {"queued", "uploading", "processing", "retrying", "invalid", "needs_attention"} :
               Sets(v)
    BY <1>1, <1>2, <1>3, <1>4, <1>5, <1>6 DEF Next, Tablet, vars
  <1> QED
    BY <1>7, <1>8, <1>9, <1>10

\* Every step keeps what was acknowledged.
LEMMA NextAcknowledged ==
    ASSUME TypeInv, QuotaInv, FinalInv, FilesInv, SegmentInv, Fresh, AckInv, [Next]_vars
    PROVE  AckInv'
  <1>1. scene' = scene /\ StatusFinal /\ VerifiedKept
    BY SceneConstant, NextFinal, NextSegment
  <1>2. \A r \in Recordings : RecordingAcknowledged(r) => RecordingAcknowledged(r)'
    BY <1>1 DEF RecordingAcknowledged, StatusFinal
  <1>3. \A r \in Recordings : rcpt'[r] = "ready" => RecordingAcknowledged(r)'
    BY <1>2, ReceiptChanges DEF AckInv, RecordingAcknowledged
  <1>4. ASSUME NEW r \in Recordings, Kind(r) = "conversation"
        PROVE  Conversation /\ r = "target"
    BY <1>4 DEF Kind, Fresh, Conversation
  <1>5. Captured' = Captured
    BY <1>1 DEF Captured, Parts, Segmented, Kind
  <1>6. ASSUME NEW q \in Captured, q \notin spool'
        PROVE  \/ RecordingAcknowledged(q[1])'
               \/ Kind(q[1])' = "conversation" /\ up'[q[1]][q[2]].st = "verified"
    <2>1. q[1] \in Recordings /\ q[2] \in AllParts /\ Kind(q[1])' = Kind(q[1])
      BY <1>1, <1>6, CapturedOK, SceneKept DEF TypeInv
    <2>2. CASE q \notin spool
      <3>1. CASE RecordingAcknowledged(q[1])
        BY <1>2, <2>1, <3>1
      <3>2. CASE Kind(q[1]) = "conversation" /\ up[q[1]][q[2]].st = "verified"
        BY <1>1, <1>4, <2>1, <3>2 DEF VerifiedKept, RecordingAcknowledged
      <3> QED
        BY <1>6, <2>2, <3>1, <3>2 DEF AckInv
    <2>3. CASE q \in spool
      <3>1. PICK r \in Recordings : HearAcknowledged(r) \/ HearSegment(r)
        BY <1>6, <2>3, SpoolChanges
      <3>2. CASE HearAcknowledged(r)
        <4>1. q \in OfRecording(r) /\ Acknowledged(r)
          BY <1>6, <2>3, <3>2 DEF HearAcknowledged
        <4>2. q[1] = r
          BY <4>1 DEF OfRecording
        <4>3. RecordingAcknowledged(r)
          BY <4>1 DEF Acknowledged, ReceiptAccepted, AckInv
        <4> QED
          BY <1>2, <4>2, <4>3
      <3>3. CASE HearSegment(r)
        <4>1. /\ q[1] = r /\ q[2] = 0 /\ Kind(r) = "conversation" /\ SegmentAcknowledged(r, 0)
              /\ UNCHANGED up
          BY <1>6, <2>3, <3>3 DEF HearSegment, rows
        <4>2. up[r][0].st = "assembled" => RecordingAcknowledged(r)
          BY <1>4, <2>1, <4>1 DEF SegmentInv, SegmentRows, SegmentRow, RecordingAcknowledged
        <4> QED
          BY <1>2, <2>1, <4>1, <4>2 DEF SegmentAcknowledged
      <3> QED
        BY <3>1, <3>2, <3>3
    <2> QED
      BY <2>2, <2>3
  <1> QED
    BY <1>3, <1>5, <1>6 DEF AckInv

\* At the start the tablet has everything but what is kept.
LEMMA InitAcknowledged ==
    ASSUME Init
    PROVE  SegmentInv /\ AckInv
  <1>1. SegmentInv
    <2>1. \A r \in Recordings, p \in AllParts : up[r][p] = NoUpload
      BY DEF Init
    <2>2. \A t \in Threads : thr[t] = Idle
      BY DEF Init
    <2>3. /\ "target" \in Recordings /\ "maintenance" \in Threads /\ Idle.at = "idle"
          /\ NoUpload.st = "none" /\ NoUpload.dir = None
      BY Fixed DEF Idle, NoUpload
    <2>4. \A p \in AllParts : SegmentRow(p)
      BY <2>1, <2>3 DEF SegmentRow, Counted
    <2>5. PruneSpares /\ \A t \in Threads : SegmentHeld(t)
      BY <2>2, <2>3 DEF PruneSpares, SegmentHeld
    <2> QED
      BY <2>4, <2>5 DEF SegmentInv, SegmentRows
  <1>2. \A r \in Recordings : rcpt[r] = "none"
    BY DEF Init
  <1>3. ASSUME NEW q \in Captured
        PROVE  q \in spool \/ RecordingAcknowledged(q[1])
    <2>1. PICK r \in Recordings : q \in OfRecording(r) /\ q[1] = r
      BY DEF Captured, OfRecording
    <2>2. CASE r = "target"
      BY <2>1, <2>2 DEF Init
    <2>3. CASE r = "other"
      <3>1. scene.other \in {"kept", "new"}
        BY InitTyped, SceneOK DEF TypeInv
      <3> QED
        BY <2>1, <2>3, <3>1 DEF Init, RecordingAcknowledged
    <2> QED
      BY <2>1, <2>2, <2>3 DEF Recordings
  <1> QED
    BY <1>1, <1>2, <1>3 DEF AckInv

\* AudioKept, where no hourly pass runs beside the requests and no segment of a
\* conversation is taken for abandoned: what the tablet has deleted is the media
\* of a ready recording, in place or aside, or a verified segment whose chunks
\* can be read back, or was deleted.
THEOREM AudioIsKept ==
    Spec /\ OneDanger /\ NoSweep /\ Fresh => []AudioKept
  <1> DEFINE J == FilesInv
             I == TypeInv /\ QuotaInv /\ FinalInv /\ J /\ SegmentInv /\ Fresh /\ AckInv
  <1>1. Init /\ OneDanger /\ NoSweep /\ Fresh => I
    BY InitTyped, InitQuota, InitFinal, InitFiles, InitAcknowledged
  <1>2. I /\ [Next]_vars => I'
    <2>1. SUFFICES ASSUME I, [Next]_vars
                   PROVE  I'
      OBVIOUS
    <2>2. Fresh'
      BY <2>1, SceneConstant DEF Fresh
    <2> QED
      BY <2>1, <2>2, NextTyped, NextQuota, NextFinal, NextFiles, NextSegment, NextAcknowledged
  <1>3. I => AudioKept
    <2>1. SUFFICES ASSUME I, NEW q \in Captured, q \notin spool
                   PROVE  Held(q[1], q[2])
      BY DEF AudioKept
    <2>2. q[1] \in Recordings /\ q[2] \in AllParts /\ q[2] \in Parts(q[1])
      BY <2>1, CapturedOK DEF TypeInv
    <2>3. CASE RecordingAcknowledged(q[1])
      BY <2>1, <2>2, <2>3 DEF RecordingAcknowledged, Held, FilesInv, ReadyMedia, Ready
    <2>4. CASE Kind(q[1]) = "conversation" /\ up[q[1]][q[2]].st = "verified"
      <3>1. Conversation /\ q[1] = "target"
        BY <2>1, <2>2, <2>4 DEF Kind, Fresh, Conversation
      <3> QED
        BY <2>1, <2>2, <2>4, <3>1 DEF SegmentInv, SegmentRows, SegmentRow, Held
    <2> QED
      BY <2>1, <2>3, <2>4 DEF AckInv
  <1> QED
    BY <1>1, <1>2, <1>3, PTL DEF Spec
=============================================================================
