----------------------- MODULE RevisionRolloutProofs -----------------------
(***************************************************************************)
(* Theorems about a configuration rollout, for every number of requests in *)
(* flight, devices, prompts, revisions, edits, calls and faults.           *)
(*                                                                         *)
(* TypeInv splits TypeOK by the part of the system that writes each        *)
(* variable; ReviewInv, RolloutInv and LibraryInv strengthen the three     *)
(* safety invariants by what a request in flight, a synchronisation in     *)
(* progress and a command of the helper carry from one step to the next.   *)
(***************************************************************************)
EXTENDS RevisionRollout, WellFoundedInduction, TLAPS

----------------------------------------------------------------------------
(* The inductive invariants *)

ContentType ==
    /\ scene \in Scenarios
    /\ draft \in [Lanes -> Seq(Configs)] /\ \A l \in Lanes : Version(l) \in 1 .. scene.edits
    /\ prompt \in [Prompts -> [row : BOOLEAN, file : BOOLEAN]]

RevisionType == revs \in [Ids -> Revision \cup {None}] /\ nextId \in 1 .. MaxRevisions + 1

RequestType == request \in [Clients -> Request]

DeviceType == device \in [Devices -> Row \cup {None}] /\ code \in BOOLEAN

AppType == app \in App

HelperType == helper \in Helper

FaultType == call \in BOOLEAN /\ calls \in 0 .. scene.calls /\ faults \in 0 .. scene.faults

(* A tablet or an answer to one names a row that is there.                 *)
Enrolled ==
    /\ app.dev # None => device[app.dev] # None
    /\ \A a \in Clients : request[a].op = "enrolled" => device[request[a].device] # None

(* A synchronisation past its answer and a command at work have a revision. *)
AtWork ==
    /\ app.pc \notin {"idle", "sync", "failed"} => app.desired \in Ids
    /\ helper.pc # "idle" => helper.rev \in Ids

TypeInv ==
    ContentType /\ RevisionType /\ RequestType /\ DeviceType /\ AppType /\ HelperType
        /\ FaultType /\ Enrolled /\ AtWork

(* A publish in flight carries the version that was reviewed.              *)
CarriesReviewed ==
    \A a \in Clients :
       request[a].op = "publish" /\ request[a].reviewed # 0 =>
          /\ request[a].reviewed \in 1 .. Version(4)
          /\ request[a].cfg = draft[4][request[a].reviewed]

(* Versions only accumulate, so the reviewed one stays where it was.       *)
ReviewedIsKept ==
    \A r \in Published : revs[r].reviewed # 0 => revs[r].reviewed \in 1 .. Version(4)

ReviewInv == CarriesReviewed /\ ReviewedIsKept /\ PublishedAsReviewed

(* What the server assigns was published.                                  *)
AssignsPublished ==
    /\ \A d \in Devices : device[d] # None => device[d].desired \in Published \cup {0}
    /\ \A a \in Clients :
          request[a].op = "enroll" => request[a].desired \in Published \cup {0}

(* What the app works on, and everything it has downloaded, was published. *)
AppFollows ==
    /\ app.pc \notin {"idle", "sync", "failed"} => app.desired \in Published
    /\ app.dirs \subseteq Published

(* The helper copies only what the app has downloaded, and makes active    *)
(* only a revision that is whole on its own disk.                          *)
HelperFollows ==
    /\ helper.dirs \subseteq app.dirs
    /\ helper.pc = "rename" => helper.rev \in app.dirs
    /\ helper.pc = "swap" => helper.rev \in helper.dirs
    /\ helper.active # 0 => helper.active \in helper.dirs

RolloutInv == AssignsPublished /\ AppFollows /\ HelperFollows

(* Uploads and deletions of prompts do not overlap other requests.         *)
LibraryAlone == scene.overlapping \cap {"upload", "delete"} = {}

PromptOps == {"upload", "delete", "unlink"}

OneAtATime ==
    \A a, b \in Clients : request[a].op \in PromptOps /\ request[b].op # "idle" => a = b

RowHasFile == \A p \in Prompts : prompt[p].row => prompt[p].file

(* The configurations of revisions, signed or about to be, have rows.      *)
ConfigsHaveRows ==
    /\ \A r \in Published : \A p \in revs[r].cfg : prompt[p].row
    /\ \A a \in Clients : request[a].op \in {"publish", "rollback"} =>
          \A p \in request[a].cfg : prompt[p].row

DeletesUnused ==
    \A a \in Clients : request[a].op \in {"delete", "unlink"} =>
       \A r \in Published : request[a].prompt \notin revs[r].cfg

FileBeforeRow ==
    /\ \A a \in Clients :
          request[a].op \in {"upload", "unlink"} => ~prompt[request[a].prompt].row
    /\ \A a \in Clients : request[a].op = "upload" => prompt[request[a].prompt].file

LibraryInv ==
    LibraryAlone =>
       OneAtATime /\ RowHasFile /\ ConfigsHaveRows /\ DeletesUnused /\ FileBeforeRow
----------------------------------------------------------------------------
(* Operators *)

\* A draft has a content, and the bounds of a scenario are numbers.
LEMMA Contents ==
    ASSUME ContentType
    PROVE  /\ scene.ids \in 0 .. MaxRevisions /\ scene.edits \in 1 .. MaxEdits
           /\ scene.calls \in Nat /\ scene.faults \in Nat /\ scene.lane \in Lanes
           /\ \A l \in Lanes : /\ Len(draft[l]) \in 1 .. MaxEdits
                               /\ Len(draft[l]) <= scene.edits
                               /\ draft[l] \in Seq(Configs) /\ Content(l) \in Configs
  <1>1. /\ scene \in Scenario /\ scene.ids <= MaxRevisions /\ scene.edits \in 1 .. MaxEdits
        /\ MaxEdits \in Nat
    BY ScenarioAssumption, RevisionAssumption DEF ContentType
  <1>2. /\ scene.ids \in 0 .. MaxRevisions /\ scene.calls \in Nat /\ scene.faults \in Nat
        /\ scene.lane \in Lanes
    BY <1>1, RevisionAssumption DEF Scenario, Lanes
  <1>3. ASSUME NEW l \in Lanes
        PROVE  /\ Len(draft[l]) \in 1 .. MaxEdits /\ Len(draft[l]) <= scene.edits
               /\ draft[l] \in Seq(Configs) /\ Content(l) \in Configs
    <2>1. draft[l] \in Seq(Configs) /\ Len(draft[l]) \in 1 .. scene.edits
      BY DEF ContentType, Version
    <2> QED
      BY <1>1, <2>1 DEF Content, Version
  <1> QED
    BY <1>1, <1>2, <1>3

\* assign_revision points the active rows at the revision and keeps the others.
LEMMA AssignRows ==
    ASSUME DeviceType, NEW r \in Ids
    PROVE  /\ Assign(r) \in [Devices -> Row \cup {None}]
           /\ \A d \in Devices : /\ device[d] # None => Assign(r)[d] # None
                                 /\ device[d] = None => Assign(r)[d] = None
                                 /\ Assign(r)[d] # None =>
                                       Assign(r)[d].desired \in {r, device[d].desired}
  <1>1. ASSUME NEW d \in Devices
        PROVE  /\ Assign(r)[d] \in Row \cup {None}
               /\ device[d] # None => Assign(r)[d] # None
               /\ device[d] = None => Assign(r)[d] = None
               /\ Assign(r)[d] # None => Assign(r)[d].desired \in {r, device[d].desired}
    <2>1. CASE d \in ActiveDevices
      <3>1. device[d] \in Row /\ Assign(r)[d] = [device[d] EXCEPT !.desired = r]
        BY <2>1 DEF DeviceType, ActiveDevices, Assign
      <3>2. Assign(r)[d] \in Row /\ Assign(r)[d].desired = r
        BY <3>1, RevisionAssumption DEF Row, Ids
      <3>3. device[d] # None /\ Assign(r)[d] # None
        BY <2>1, <3>2, NoneAssumption DEF ActiveDevices
      <3> QED
        BY <3>2, <3>3
    <2>2. CASE d \notin ActiveDevices
      BY <2>2 DEF DeviceType, Assign
    <2> QED
      BY <2>1, <2>2
  <1> QED
    BY <1>1 DEF Assign

\* The latest revision is a published one, or 0 when there is none.
LEMMA LatestIsPublished == Latest \in Published \cup {0}
  <1>1. CASE Published = {}
    BY <1>1 DEF Latest
  <1>2. CASE Published # {}
    <2> DEFINE T == {MaxRevisions - r : r \in Published}
    <2>1. Published \subseteq Ids /\ MaxRevisions \in Nat
      BY RevisionAssumption DEF Published
    <2>2. T \subseteq Nat /\ T # {}
      <3>1. \A r \in Published : MaxRevisions - r \in Nat
        BY <2>1 DEF Ids
      <3> QED
        BY <1>2, <3>1
    <2>3. \E x \in T : \A y \in T : ~(<<y, x>> \in OpToRel(<, Nat))
      <3> HIDE DEF T
      <3> QED
        BY <2>2, NatLessThanWellFounded, WFMin
    <2>4. PICK x \in T : \A y \in T : ~(<<y, x>> \in OpToRel(<, Nat))
      BY <2>3
    <2>5. PICK r \in Published : x = MaxRevisions - r
      BY <2>4
    <2>6. ASSUME NEW s \in Published
          PROVE  s <= r
      <3>1. MaxRevisions - s \in T /\ MaxRevisions - s \in Nat /\ x \in Nat
        BY <2>2
      <3>2. ~(MaxRevisions - s < x)
        BY <2>4, <3>1 DEF OpToRel
      <3> QED
        BY <2>1, <2>5, <3>2 DEF Ids
    <2> QED
      BY <1>2, <2>5, <2>6 DEF Latest
  <1> QED
    BY <1>1, <1>2

\* A request in flight carries what its kind needs.
LEMMA RequestFields ==
    ASSUME RequestType, NEW a \in Clients
    PROVE  /\ request[a].op \in {"idle", "publish", "rollback", "upload", "delete", "unlink",
                                 "enroll", "enrolled"}
           /\ request[a] = Idle <=> request[a].op = "idle"
           /\ request[a].op = "publish" =>
                 /\ request[a].id \in Ids /\ request[a].schema \in Lanes
                 /\ request[a].cfg \in Configs /\ request[a].reviewed \in 0 .. MaxEdits
           /\ request[a].op = "rollback" =>
                 /\ request[a].id \in Ids /\ request[a].schema \in Lanes
                 /\ request[a].cfg \in Configs /\ request[a].source \in Ids
                 /\ request[a].ver \in 1 .. MaxEdits
           /\ request[a].op \in {"upload", "delete", "unlink"} => request[a].prompt \in Prompts
           /\ request[a].op \in {"enroll", "enrolled"} =>
                 request[a].device \in Devices /\ request[a].desired \in 0 .. MaxRevisions
  <1>1. request[a] \in Request
    BY DEF RequestType
  <1>2. CASE request[a] = Idle
    BY <1>2 DEF Idle
  <1>3. CASE request[a] \in [op : {"publish"}, id : Ids, schema : Lanes, cfg : Configs,
                             reviewed : 0 .. MaxEdits]
    BY <1>3 DEF Idle
  <1>4. CASE request[a] \in [op : {"rollback"}, id : Ids, schema : Lanes, cfg : Configs,
                             source : Ids, ver : 1 .. MaxEdits]
    BY <1>4 DEF Idle
  <1>5. CASE request[a] \in [op : {"upload", "delete", "unlink"}, prompt : Prompts]
    BY <1>5 DEF Idle
  <1>6. CASE request[a] \in [op : {"enroll", "enrolled"}, device : Devices,
                             desired : 0 .. MaxRevisions]
    BY <1>6 DEF Idle
  <1> QED
    BY <1>1, <1>2, <1>3, <1>4, <1>5, <1>6 DEF Request

----------------------------------------------------------------------------
(* Type correctness *)

\* A fresh server and an unpaired tablet.
LEMMA InitType == Init => TypeInv
  <1> SUFFICES ASSUME Init PROVE TypeInv
    OBVIOUS
  <1>0. PICK cfg \in Configs :
           /\ draft = [l \in Lanes |-> <<cfg>>]
           /\ prompt = [p \in Prompts |-> [row |-> p \in cfg, file |-> p \in cfg]]
           /\ \E s \in LegacySchemas :
                 revs = [r \in Ids |-> IF r = 1 THEN [schema |-> s, cfg |-> cfg, source |-> 0,
                                                      reviewed |-> 0] ELSE None]
    BY DEF Init, ServerInit
  <1>1. ContentType
    <2>1. scene \in Scenarios /\ scene.edits \in 1 .. MaxEdits /\ MaxEdits \in Nat
      BY ScenarioAssumption, RevisionAssumption DEF Init, ServerInit
    <2>2. draft \in [Lanes -> Seq(Configs)] /\ \A l \in Lanes : Len(draft[l]) = 1
      BY <1>0
    <2> QED
      BY <1>0, <2>1, <2>2 DEF ContentType, Version
  <1>2. RevisionType
    <2>1. PICK s \in LegacySchemas :
             revs = [r \in Ids |-> IF r = 1 THEN [schema |-> s, cfg |-> cfg, source |-> 0,
                                                  reviewed |-> 0] ELSE None]
      BY <1>0
    <2>2. [schema |-> s, cfg |-> cfg, source |-> 0, reviewed |-> 0] \in Revision
      BY RevisionAssumption DEF Revision
    <2>3. nextId = 2
      BY DEF Init, ServerInit
    <2> QED
      BY <2>1, <2>2, <2>3, RevisionAssumption DEF RevisionType
  <1>3. RequestType
    BY DEF Init, ServerInit, RequestType, Request
  <1>4. DeviceType /\ FaultType
    <2>1. scene.calls \in Nat /\ scene.faults \in Nat
      BY <1>1, Contents
    <2>2. 0 \in 0 .. scene.calls /\ 0 \in 0 .. scene.faults
      BY <2>1
    <2> QED
      BY <2>2 DEF Init, ServerInit, DeviceType, FaultType
  <1>5. AppType /\ HelperType
    BY RevisionAssumption DEF Init, AppType, App, HelperType, Helper, Steps
  <1>6. Enrolled /\ AtWork
    BY DEF Init, ServerInit, Enrolled, AtWork, Idle
  <1> QED
    BY <1>1, <1>2, <1>3, <1>4, <1>5, <1>6 DEF TypeInv

\* What a part's own variables keep, the part's invariant keeps.
LEMMA ContentFrame == ContentType /\ UNCHANGED <<scene, draft, prompt>> => ContentType'
  BY DEF ContentType, Version

\* Revisions and the id sequence.
LEMMA RevisionFrame == RevisionType /\ UNCHANGED <<revs, nextId>> => RevisionType'
  BY DEF RevisionType

\* Requests in flight.
LEMMA RequestFrame == RequestType /\ UNCHANGED request => RequestType'
  BY DEF RequestType

\* Rows of devices and the pairing code.
LEMMA DeviceFrame == DeviceType /\ UNCHANGED <<device, code>> => DeviceType'
  BY DEF DeviceType

\* The tablet's objects and the counts of calls and faults.
LEMMA TabletFrame ==
    AppType /\ HelperType /\ FaultType /\ UNCHANGED <<scene, tabletVars>>
        => AppType' /\ HelperType' /\ FaultType'
  BY DEF AppType, HelperType, FaultType, tabletVars

\* Work in progress on the tablet.
LEMMA WorkFrame == AtWork /\ UNCHANGED <<app, helper>> => AtWork'
  BY DEF AtWork

\* A request replaced by one that is not an answer to a tablet; rows stay rows.
LEMMA EnrolledFrame ==
    ASSUME RequestType, Enrolled, app' = app, AppType,
           \A d \in Devices : device[d] # None => device'[d] # None,
           \A b \in Clients : request'[b] = request[b] \/ request'[b].op # "enrolled"
    PROVE  Enrolled'
  <1>1. app.dev \in Devices \cup {None}
    BY DEF AppType, App
  <1>2. ASSUME NEW a \in Clients, request'[a].op = "enrolled"
        PROVE  device'[request'[a].device] # None
    <2>1. request'[a] = request[a]
      BY <1>2
    <2>2. request[a].op = "enrolled" /\ request[a].device \in Devices
      BY <1>2, <2>1, RequestFields
    <2> QED
      BY <2>1, <2>2 DEF Enrolled
  <1> QED
    BY <1>1, <1>2, NoneAssumption DEF Enrolled

\* A handler that begins, ends or moves on changes its own entry only.
LEMMA RequestSet ==
    ASSUME RequestType, NEW a \in Clients, NEW q \in Request,
           request' = [request EXCEPT ![a] = q]
    PROVE  /\ RequestType'
           /\ \A b \in Clients : request'[b] = IF b = a THEN q ELSE request[b]
  BY DEF RequestType

\* A draft that is stored gets one version more, within the scenario's bound.
LEMMA Stored ==
    ASSUME ContentType, NEW l \in Lanes, NEW ver \in 1 .. MaxEdits, NEW cfg \in Configs,
           StoreDraft(l, ver, cfg), UNCHANGED <<scene, prompt>>
    PROVE  /\ ContentType' /\ Len(draft[l]) = ver
           /\ \A k \in Lanes : /\ Len(draft'[k]) >= Len(draft[k])
                               /\ \A i \in 1 .. Len(draft[k]) : draft'[k][i] = draft[k][i]
  <1>1. draft[l] \in Seq(Configs) /\ Len(draft[l]) = ver /\ ver < scene.edits
    BY DEF StoreDraft, ContentType, Version
  <1>2. draft' = [draft EXCEPT ![l] = Append(@, cfg)]
    BY DEF StoreDraft
  <1>3. ASSUME NEW k \in Lanes
        PROVE  /\ draft'[k] \in Seq(Configs) /\ Len(draft'[k]) \in 1 .. scene.edits
               /\ Len(draft'[k]) >= Len(draft[k])
               /\ \A i \in 1 .. Len(draft[k]) : draft'[k][i] = draft[k][i]
    <2>0. scene.edits \in Nat /\ draft[k] \in Seq(Configs) /\ Len(draft[k]) \in 1 .. scene.edits
      BY Contents DEF ContentType, Version
    <2>1. CASE k = l
      <3>1. draft'[k] = Append(draft[l], cfg)
        BY <1>2, <2>1 DEF ContentType
      <3> QED
        BY <1>1, <2>0, <2>1, <3>1
    <2>2. CASE k # l
      <3>1. draft'[k] = draft[k]
        BY <1>2, <2>2 DEF ContentType
      <3> QED
        BY <2>0, <3>1
    <2> QED
      BY <2>1, <2>2
  <1>4. draft' \in [Lanes -> Seq(Configs)]
    BY <1>2, <1>3 DEF ContentType
  <1> QED
    BY <1>1, <1>3, <1>4 DEF ContentType, Version

\* A handler that draws an id and reads leaves a well-formed request.
LEMMA CreateType ==
    ASSUME TypeInv, NEW a \in Clients, NEW q \in Request, q.op \in {"publish", "rollback"},
           CreateRevision(a, q),
           UNCHANGED <<draft, prompt, revs, device, code, scene, tabletVars>>
    PROVE  TypeInv'
  <1>0. /\ ContentType /\ RevisionType /\ RequestType /\ DeviceType /\ AppType /\ HelperType
        /\ FaultType /\ Enrolled /\ AtWork
    BY DEF TypeInv
  <1>1. request' = [request EXCEPT ![a] = q]
    BY DEF CreateRevision
  <1>2. RequestType' /\ \A b \in Clients : request'[b] = IF b = a THEN q ELSE request[b]
    BY <1>0, <1>1, RequestSet
  <1>3. RevisionType'
    <2>1. nextId <= scene.ids /\ nextId' = nextId + 1 /\ scene.ids \in 0 .. MaxRevisions
      BY <1>0, Contents DEF CreateRevision
    <2> QED
      BY <1>0, <2>1, RevisionAssumption DEF RevisionType
  <1>4. Enrolled'
    BY <1>0, <1>2, EnrolledFrame DEF tabletVars
  <1>5. ContentType' /\ DeviceType' /\ AppType' /\ HelperType' /\ FaultType' /\ AtWork'
    BY <1>0, ContentFrame, DeviceFrame, TabletFrame, WorkFrame DEF tabletVars
  <1> QED
    BY <1>2, <1>3, <1>4, <1>5 DEF TypeInv

\* The steps in which a handler reads, checks and draws an id.
LEMMA ReadsType ==
    ASSUME TypeInv, NEW a \in Clients,
           \/ \E reviewed \in 0 .. MaxEdits : PublishDraftV4(a, reviewed)
           \/ PublishDraftV3(a)
           \/ \E r \in Ids : RollbackV3(a, r) \/ RollbackV4(a, r)
    PROVE  TypeInv'
  <1>0. /\ ContentType /\ RevisionType /\ RequestType /\ {3, 4} = Lanes
        /\ MaxRevisions \in Nat /\ MaxEdits \in Nat
    BY RevisionAssumption DEF TypeInv, Lanes
  <1>1. nextId <= scene.ids => nextId \in Ids
    BY <1>0, Contents DEF RevisionType, Ids
  <1>2. ASSUME NEW reviewed \in 0 .. MaxEdits, NEW l \in Lanes, nextId <= scene.ids
        PROVE  [op |-> "publish", id |-> nextId, schema |-> l, cfg |-> Content(l),
                reviewed |-> reviewed] \in Request
    BY <1>0, <1>1, <1>2, Contents DEF Request
  <1>3. ASSUME NEW reviewed \in 0 .. MaxEdits, PublishDraftV4(a, reviewed)
        PROVE  TypeInv'
    <2> DEFINE q == [op |-> "publish", id |-> nextId, schema |-> 4, cfg |-> Content(4),
                     reviewed |-> reviewed]
    <2>1. q \in Request /\ q.op = "publish"
      BY <1>0, <1>2, <1>3 DEF PublishDraftV4, CreateRevision
    <2> QED
      BY <1>3, <2>1, CreateType DEF PublishDraftV4
  <1>4. CASE PublishDraftV3(a)
    <2> DEFINE q == [op |-> "publish", id |-> nextId, schema |-> 3, cfg |-> Content(3),
                     reviewed |-> 0]
    <2>1. 0 \in 0 .. MaxEdits /\ 3 \in Lanes
      BY <1>0
    <2>2. q \in Request /\ q.op = "publish"
      BY <1>2, <1>4, <2>1 DEF PublishDraftV3, CreateRevision
    <2> QED
      BY <1>4, <2>2, CreateType DEF PublishDraftV3
  <1>5. ASSUME NEW r \in Ids, NEW l \in Lanes, RollBack(a, l, r)
        PROVE  TypeInv'
    <2> DEFINE q == [op |-> "rollback", id |-> nextId, schema |-> l, cfg |-> revs[r].cfg,
                     source |-> r, ver |-> Version(l)]
    <2>1. revs[r].cfg \in Configs
      BY <1>0, <1>5 DEF RollBack, Published, RevisionType, Revision
    <2>2. Version(l) \in 1 .. MaxEdits /\ nextId \in Ids
      BY <1>0, <1>1, <1>5, Contents DEF RollBack, CreateRevision, Version
    <2>3. q \in Request /\ q.op = "rollback"
      BY <2>1, <2>2 DEF Request
    <2> QED
      BY <1>5, <2>3, CreateType DEF RollBack
  <1> QED
    BY <1>0, <1>3, <1>4, <1>5 DEF RollbackV3, RollbackV4

\* The commits that make a revision.
LEMMA RevisionCommitType ==
    ASSUME TypeInv, NEW a \in Clients, CommitPublish(a) \/ CommitRollback(a)
    PROVE  TypeInv'
  <1> DEFINE q == request[a]
  <1>0. /\ ContentType /\ RevisionType /\ RequestType /\ DeviceType /\ AppType /\ HelperType
        /\ FaultType /\ Enrolled /\ AtWork /\ MaxRevisions \in Nat /\ MaxEdits \in Nat
    BY RevisionAssumption DEF TypeInv
  <1>1. /\ q.op \in {"publish", "rollback"} /\ q.id \in Ids /\ q.schema \in Lanes
        /\ q.cfg \in Configs
        /\ q.op = "publish" => q.reviewed \in 0 .. MaxEdits
        /\ q.op = "rollback" => q.source \in Ids /\ q.ver \in 1 .. MaxEdits
    BY <1>0, RequestFields DEF CommitPublish, CommitRollback
  <1>2. /\ \E s \in 0 .. MaxRevisions, v \in 0 .. MaxEdits :
              revs' = [revs EXCEPT ![q.id] = [schema |-> q.schema, cfg |-> q.cfg,
                                              source |-> s, reviewed |-> v]]
        /\ device' = Assign(q.id) /\ request' = [request EXCEPT ![a] = Idle]
        /\ UNCHANGED <<prompt, nextId, code, scene, tabletVars>>
    <2>1. CASE CommitPublish(a)
      <3>1. 0 \in 0 .. MaxRevisions /\ q.reviewed \in 0 .. MaxEdits
        BY <1>0, <1>1, <2>1 DEF CommitPublish
      <3> QED
        BY <2>1, <3>1 DEF CommitPublish, PublishedConfig
    <2>2. CASE CommitRollback(a)
      <3>1. q.source \in 0 .. MaxRevisions /\ 0 \in 0 .. MaxEdits
        BY <1>0, <1>1, <2>2 DEF CommitRollback, Ids
      <3> QED
        BY <2>2, <3>1 DEF CommitRollback
    <2> QED
      BY <2>1, <2>2
  <1>3. ContentType'
    <2>1. CASE CommitPublish(a)
      BY <1>0, <2>1, ContentFrame DEF CommitPublish
    <2>2. CASE CommitRollback(a)
      BY <1>0, <1>1, <1>2, <2>2, Stored DEF CommitRollback
    <2> QED
      BY <2>1, <2>2
  <1>4. RevisionType'
    <2>1. PICK s \in 0 .. MaxRevisions, v \in 0 .. MaxEdits :
             revs' = [revs EXCEPT ![q.id] = [schema |-> q.schema, cfg |-> q.cfg,
                                             source |-> s, reviewed |-> v]]
      BY <1>2
    <2>2. [schema |-> q.schema, cfg |-> q.cfg, source |-> s, reviewed |-> v] \in Revision
      BY <1>1 DEF Revision, Lanes
    <2> QED
      BY <1>0, <1>2, <2>1, <2>2 DEF RevisionType
  <1>5. DeviceType' /\ \A d \in Devices : device[d] # None => device'[d] # None
    BY <1>0, <1>1, <1>2, AssignRows DEF DeviceType
  <1>6. Idle \in Request /\ Idle.op = "idle"
    BY DEF Request, Idle
  <1>7. RequestType' /\ \A b \in Clients : request'[b] = IF b = a THEN Idle ELSE request[b]
    BY <1>0, <1>2, <1>6, RequestSet
  <1>8. Enrolled'
    BY <1>0, <1>2, <1>5, <1>6, <1>7, EnrolledFrame DEF tabletVars
  <1>9. AppType' /\ HelperType' /\ FaultType' /\ AtWork'
    BY <1>0, <1>2, TabletFrame, WorkFrame DEF tabletVars
  <1> QED
    BY <1>3, <1>4, <1>5, <1>7, <1>8, <1>9 DEF TypeInv

\* The prompt library and a rollback that meets a newer draft.
LEMMA LibraryType ==
    ASSUME TypeInv, NEW a \in Clients,
           \/ \E p \in Prompts : UploadPrompt(a, p) \/ DeletePrompt(a, p)
           \/ CommitUpload(a) \/ CommitDelete(a) \/ UnlinkPrompt(a) \/ ConflictRollback(a)
    PROVE  TypeInv'
  <1>0. /\ ContentType /\ RevisionType /\ RequestType /\ DeviceType /\ AppType /\ HelperType
        /\ FaultType /\ Enrolled /\ AtWork
    BY DEF TypeInv
  <1>1. UNCHANGED <<draft, revs, nextId, device, code, scene, tabletVars>>
    BY DEF UploadPrompt, DeletePrompt, CommitUpload, CommitDelete, UnlinkPrompt,
           ConflictRollback
  <1>2. \E q \in Request : q.op # "enrolled" /\ request' = [request EXCEPT ![a] = q]
    <2>1. Idle \in Request /\ Idle.op # "enrolled"
      BY DEF Request, Idle
    <2>2. \A p \in Prompts, op \in {"upload", "delete", "unlink"} :
             [op |-> op, prompt |-> p] \in Request
      BY DEF Request
    <2>3. ASSUME NEW p \in Prompts, UploadPrompt(a, p) \/ DeletePrompt(a, p)
          PROVE  \E q \in Request : q.op # "enrolled" /\ request' = [request EXCEPT ![a] = q]
      BY <2>2, <2>3 DEF UploadPrompt, DeletePrompt
    <2>4. CASE CommitUpload(a) \/ UnlinkPrompt(a) \/ ConflictRollback(a)
      BY <2>1, <2>4 DEF CommitUpload, UnlinkPrompt, ConflictRollback
    <2>5. CASE CommitDelete(a)
      <3>1. request[a] \in [op : {"upload", "delete", "unlink"}, prompt : Prompts]
        BY <1>0, <2>5 DEF CommitDelete, RequestType, Request, Idle
      <3>2. [request[a] EXCEPT !.op = "unlink"] = [op |-> "unlink", prompt |-> request[a].prompt]
        BY <3>1
      <3>3. request' = [request EXCEPT ![a] = [request[a] EXCEPT !.op = "unlink"]]
        BY <2>5 DEF CommitDelete
      <3> QED
        BY <2>2, <3>1, <3>2, <3>3
    <2> QED
      BY <2>3, <2>4, <2>5
  <1>3. PICK q \in Request : q.op # "enrolled" /\ request' = [request EXCEPT ![a] = q]
    BY <1>2
  <1>4. RequestType' /\ \A b \in Clients : request'[b] = IF b = a THEN q ELSE request[b]
    BY <1>0, <1>3, RequestSet
  <1>5. prompt' \in [Prompts -> [row : BOOLEAN, file : BOOLEAN]]
    <2>1. prompt \in [Prompts -> [row : BOOLEAN, file : BOOLEAN]]
      BY <1>0 DEF ContentType
    <2>2. CASE \E p \in Prompts : UploadPrompt(a, p) \/ DeletePrompt(a, p)
      BY <2>1, <2>2 DEF UploadPrompt, DeletePrompt
    <2>3. CASE CommitUpload(a) \/ CommitDelete(a) \/ UnlinkPrompt(a)
      <3>1. request[a].prompt \in Prompts
        BY <1>0, <2>3, RequestFields DEF CommitUpload, CommitDelete, UnlinkPrompt
      <3>2. CASE CommitUpload(a)
        <4> DEFINE p == request[a].prompt
        <4>1. /\ [prompt[p] EXCEPT !.file = FALSE] \in [row : BOOLEAN, file : BOOLEAN]
              /\ [prompt[p] EXCEPT !.row = TRUE] \in [row : BOOLEAN, file : BOOLEAN]
          BY <2>1, <3>1
        <4>2. prompt' = [prompt EXCEPT ![p] = IF prompt[p].row
                                              THEN [prompt[p] EXCEPT !.file = FALSE]
                                              ELSE [prompt[p] EXCEPT !.row = TRUE]]
          BY <3>2 DEF CommitUpload
        <4> QED
          BY <2>1, <3>1, <4>1, <4>2
      <3>3. CASE CommitDelete(a)
        BY <2>1, <3>1, <3>3 DEF CommitDelete
      <3>4. CASE UnlinkPrompt(a)
        BY <2>1, <3>1, <3>4 DEF UnlinkPrompt
      <3> QED
        BY <2>3, <3>2, <3>3, <3>4
    <2>4. CASE ConflictRollback(a)
      BY <2>1, <2>4 DEF ConflictRollback
    <2> QED
      BY <2>2, <2>3, <2>4
  <1>6. ContentType'
    BY <1>0, <1>1, <1>5 DEF ContentType, Version
  <1>7. Enrolled'
    BY <1>0, <1>1, <1>3, <1>4, EnrolledFrame DEF tabletVars
  <1>8. RevisionType' /\ DeviceType' /\ AppType' /\ HelperType' /\ FaultType' /\ AtWork'
    BY <1>0, <1>1, RevisionFrame, DeviceFrame, TabletFrame, WorkFrame DEF tabletVars
  <1> QED
    BY <1>4, <1>6, <1>7, <1>8 DEF TypeInv

\* Saves and reassignments, pairing codes and rows of devices.
LEMMA RowsType ==
    ASSUME TypeInv,
           \/ \E a \in Clients :
                 \/ \E l \in Lanes, ver \in 1 .. MaxEdits, cfg \in Configs : PutDraft(a, l, ver, cfg)
                 \/ \E r \in Ids : ActivateLegacy(a, r) \/ ActivateImmutable(a, r)
                 \/ \E d \in Devices : EnrollDevice(a, d) \/ RevokeDevice(a, d)
                 \/ CommitEnrollment(a)
           \/ CreatePairingCode \/ ExpirePairingCode
    PROVE  TypeInv'
  <1>0. /\ ContentType /\ RevisionType /\ RequestType /\ DeviceType /\ AppType /\ HelperType
        /\ FaultType /\ Enrolled /\ AtWork /\ MaxRevisions \in Nat
    BY RevisionAssumption DEF TypeInv
  <1>1. ASSUME NEW a \in Clients, NEW l \in Lanes, NEW ver \in 1 .. MaxEdits, NEW cfg \in Configs,
               PutDraft(a, l, ver, cfg)
        PROVE  TypeInv'
    <2>1. ContentType'
      BY <1>0, <1>1, Stored DEF PutDraft
    <2>2. Enrolled'
      BY <1>0, <1>1, EnrolledFrame DEF PutDraft, tabletVars
    <2> QED
      BY <1>0, <1>1, <2>1, <2>2, RevisionFrame, RequestFrame, DeviceFrame, TabletFrame, WorkFrame
         DEF TypeInv, PutDraft, tabletVars
  <1>2. ASSUME NEW a \in Clients, NEW r \in Ids, Reassign(a, r)
        PROVE  TypeInv'
    <2>1. DeviceType' /\ \A d \in Devices : device[d] # None => device'[d] # None
      BY <1>0, <1>2, AssignRows DEF Reassign, DeviceType
    <2>2. Enrolled'
      BY <1>0, <1>2, <2>1, EnrolledFrame DEF Reassign, tabletVars
    <2> QED
      BY <1>0, <1>2, <2>1, <2>2, ContentFrame, RevisionFrame, RequestFrame, TabletFrame, WorkFrame
         DEF TypeInv, Reassign, tabletVars
  <1>3. ASSUME NEW a \in Clients, NEW d \in Devices, EnrollDevice(a, d)
        PROVE  TypeInv'
    <2> DEFINE q == [op |-> "enroll", device |-> d, desired |-> Latest]
    <2>1. Latest \in 0 .. MaxRevisions
      BY <1>0, LatestIsPublished DEF Published, Ids
    <2>2. q \in Request /\ q.op = "enroll"
      BY <2>1 DEF Request
    <2>3. RequestType' /\ \A b \in Clients : request'[b] = IF b = a THEN q ELSE request[b]
      BY <1>0, <1>3, <2>2, RequestSet DEF EnrollDevice
    <2>4. Enrolled'
      BY <1>0, <1>3, <2>2, <2>3, EnrolledFrame DEF EnrollDevice, tabletVars
    <2> QED
      BY <1>0, <1>3, <2>3, <2>4, ContentFrame, RevisionFrame, DeviceFrame, TabletFrame, WorkFrame
         DEF TypeInv, EnrollDevice, tabletVars
  <1>4. ASSUME NEW a \in Clients, NEW d \in Devices, RevokeDevice(a, d)
        PROVE  TypeInv'
    <2>1. device[d] \in Row /\ device' = [device EXCEPT ![d] = [device[d] EXCEPT !.active = FALSE]]
      BY <1>0, <1>4 DEF RevokeDevice, DeviceType
    <2>2. [device[d] EXCEPT !.active = FALSE] \in Row
      BY <2>1 DEF Row
    <2>3. DeviceType' /\ \A e \in Devices : device[e] # None => device'[e] # None
      BY <1>0, <1>4, <2>1, <2>2, NoneAssumption DEF DeviceType, RevokeDevice
    <2>4. Enrolled'
      BY <1>0, <1>4, <2>3, EnrolledFrame DEF RevokeDevice, tabletVars
    <2> QED
      BY <1>0, <1>4, <2>3, <2>4, ContentFrame, RevisionFrame, RequestFrame, TabletFrame, WorkFrame
         DEF TypeInv, RevokeDevice, tabletVars
  <1>5. ASSUME NEW a \in Clients, CommitEnrollment(a)
        PROVE  TypeInv'
    <2> DEFINE q == request[a]
               row == [active |-> TRUE, desired |-> q.desired, running |-> 0, reported |-> FALSE]
               answer == [op |-> "enrolled", device |-> q.device, desired |-> q.desired]
    <2>1. q.op = "enroll" /\ q.device \in Devices /\ q.desired \in 0 .. MaxRevisions
      BY <1>0, <1>5, RequestFields DEF CommitEnrollment
    <2>2. row \in Row /\ device' = [device EXCEPT ![q.device] = row] /\ code' = FALSE
      BY <1>0, <1>5, <2>1 DEF CommitEnrollment, Row
    <2>3. DeviceType' /\ \A e \in Devices : device[e] # None \/ e = q.device => device'[e] # None
      BY <1>0, <2>1, <2>2, NoneAssumption DEF DeviceType
    <2>4. q \in [op : {"enroll", "enrolled"}, device : Devices, desired : 0 .. MaxRevisions]
      BY <1>0, <2>1 DEF RequestType, Request, Idle
    <2>5. [q EXCEPT !.op = "enrolled"] = answer
      BY <2>4
    <2>6. answer \in Request /\ answer.op = "enrolled" /\ answer.device = q.device
      BY <2>1 DEF Request
    <2>7. request' = [request EXCEPT ![a] = answer]
      BY <1>5, <2>5 DEF CommitEnrollment
    <2>8. RequestType' /\ \A b \in Clients : request'[b] = IF b = a THEN answer ELSE request[b]
      BY <1>0, <2>6, <2>7, RequestSet
    <2>9. Enrolled'
      <3>1. app' = app /\ app.dev \in Devices \cup {None}
        BY <1>0, <1>5 DEF CommitEnrollment, tabletVars, AppType, App
      <3>2. ASSUME NEW b \in Clients, request'[b].op = "enrolled"
            PROVE  device'[request'[b].device] # None
        <4>1. CASE b = a
          BY <2>1, <2>3, <2>6, <2>8, <4>1
        <4>2. CASE b # a
          BY <1>0, <2>3, <2>8, <3>2, <4>2, RequestFields DEF Enrolled
        <4> QED
          BY <4>1, <4>2
      <3> QED
        BY <1>0, <2>3, <3>1, <3>2 DEF Enrolled
    <2> QED
      BY <1>0, <1>5, <2>3, <2>8, <2>9, ContentFrame, RevisionFrame, TabletFrame, WorkFrame
         DEF TypeInv, CommitEnrollment, tabletVars
  <1>6. CASE CreatePairingCode \/ ExpirePairingCode
    <2>1. DeviceType' /\ UNCHANGED <<device, request>>
      BY <1>0, <1>6 DEF DeviceType, CreatePairingCode, ExpirePairingCode
    <2>2. UNCHANGED <<draft, prompt, revs, nextId, scene, tabletVars>>
      BY <1>6 DEF CreatePairingCode, ExpirePairingCode
    <2>3. Enrolled'
      BY <1>0, <2>1, <2>2, EnrolledFrame DEF tabletVars
    <2> QED
      BY <1>0, <2>1, <2>2, <2>3, ContentFrame, RevisionFrame, RequestFrame, TabletFrame, WorkFrame
         DEF TypeInv, tabletVars
  <1> QED
    BY <1>1, <1>2, <1>3, <1>4, <1>5, <1>6 DEF ActivateLegacy, ActivateImmutable

\* Every handler of the server keeps the types.
LEMMA ServerType == TypeInv /\ Server => TypeInv'
  <1> SUFFICES ASSUME TypeInv, Server PROVE TypeInv'
    OBVIOUS
  <1> USE ReadsType, RevisionCommitType, LibraryType, RowsType
  <1>1. CASE CreatePairingCode \/ ExpirePairingCode
    BY <1>1
  <1>2. CASE ~(CreatePairingCode \/ ExpirePairingCode)
    <2>1. PICK a \in Clients :
          \/ \E l \in Lanes, ver \in 1 .. MaxEdits, cfg \in Configs : PutDraft(a, l, ver, cfg)
          \/ \E reviewed \in 0 .. MaxEdits : PublishDraftV4(a, reviewed)
          \/ PublishDraftV3(a)
          \/ \E r \in Ids : \/ RollbackV3(a, r) \/ RollbackV4(a, r)
                            \/ ActivateLegacy(a, r) \/ ActivateImmutable(a, r)
          \/ CommitPublish(a) \/ CommitRollback(a) \/ ConflictRollback(a)
          \/ \E p \in Prompts : UploadPrompt(a, p) \/ DeletePrompt(a, p)
          \/ CommitUpload(a) \/ CommitDelete(a) \/ UnlinkPrompt(a)
          \/ \E d \in Devices : EnrollDevice(a, d) \/ RevokeDevice(a, d)
          \/ CommitEnrollment(a)
      BY <1>2 DEF Server
    <2> QED
      BY <2>1
  <1> QED
    BY <1>1, <1>2

\* A trusted tablet's row is there, and a report changes nothing else of it.
LEMMA Reported ==
    ASSUME TypeInv, Trusted,
           \/ device' = [device EXCEPT ![app.dev].reported = TRUE]
           \/ device' = [device EXCEPT ![app.dev].running = app.desired]
    PROVE  /\ device' \in [Devices -> Row \cup {None}]
           /\ \A d \in Devices : device[d] # None =>
                 device'[d] # None /\ device'[d].desired = device[d].desired
           /\ \A d \in Devices : device[d] = None => device'[d] = None
  <1>1. app.dev \in Devices /\ device[app.dev] \in Row /\ app.desired \in 0 .. MaxRevisions
    BY DEF TypeInv, AppType, App, Trusted, Enrolled, DeviceType
  <1>2. \E row \in Row : /\ device' = [device EXCEPT ![app.dev] = row]
                         /\ row.desired = device[app.dev].desired
    <2>1. CASE device' = [device EXCEPT ![app.dev].reported = TRUE]
      <3>1. [device[app.dev] EXCEPT !.reported = TRUE] \in Row
        BY <1>1 DEF Row
      <3> QED
        BY <1>1, <2>1, <3>1 DEF Row
    <2>2. CASE device' = [device EXCEPT ![app.dev].running = app.desired]
      <3>1. [device[app.dev] EXCEPT !.running = app.desired] \in Row
        BY <1>1 DEF Row
      <3> QED
        BY <1>1, <2>2, <3>1 DEF Row
    <2> QED
      BY <2>1, <2>2
  <1>3. PICK row \in Row : /\ device' = [device EXCEPT ![app.dev] = row]
                           /\ row.desired = device[app.dev].desired
    BY <1>2
  <1>4. device \in [Devices -> Row \cup {None}] /\ row # None /\ device[app.dev] # None
    BY <1>1, NoneAssumption DEF TypeInv, DeviceType
  <1> QED
    BY <1>1, <1>3, <1>4

\* The revision assigned to a trusted tablet is a revision id or 0.
LEMMA AssignedType ==
    ASSUME TypeInv, Trusted
    PROVE  app.dev \in Devices /\ device[app.dev] # None /\ AssignedRevision \in 0 .. MaxRevisions
  BY NoneAssumption DEF TypeInv, AppType, App, Trusted, Enrolled, DeviceType, AssignedRevision, Row

\* A fault stays within the bound of the scenario.
LEMMA FaultKept ==
    ASSUME TypeInv, faults' = faults \/ Fault, call' \in BOOLEAN, UNCHANGED <<calls, scene>>
    PROVE  FaultType'
  <1>1. scene.faults \in Nat /\ faults \in 0 .. scene.faults /\ calls \in 0 .. scene.calls
    BY Contents DEF TypeInv, FaultType
  <1>2. faults' \in 0 .. scene.faults
    BY <1>1 DEF Fault
  <1> QED
    BY <1>1, <1>2 DEF FaultType

\* A step of the tablet keeps the types if it keeps those of its own objects.
LEMMA TabletStep ==
    ASSUME TypeInv, UNCHANGED <<draft, prompt, revs, nextId, request, code, scene>>,
           AppType', HelperType', FaultType', AtWork', app'.dev = app.dev,
           device' \in [Devices -> Row \cup {None}],
           \A d \in Devices : device[d] # None => device'[d] # None
    PROVE  TypeInv'
  <1>0. /\ ContentType /\ RevisionType /\ RequestType /\ DeviceType /\ AppType /\ Enrolled
    BY DEF TypeInv
  <1>1. Enrolled'
    <2>1. app.dev \in Devices \cup {None}
      BY <1>0 DEF AppType, App
    <2>2. \A a \in Clients : request[a].op = "enrolled" => request[a].device \in Devices
      BY <1>0, RequestFields
    <2> QED
      BY <1>0, <2>1, <2>2 DEF Enrolled
  <1>2. DeviceType'
    BY <1>0 DEF DeviceType
  <1> QED
    BY <1>0, <1>1, <1>2, ContentFrame, RevisionFrame, RequestFrame DEF TypeInv

\* What the steps of synchronize do to the app.
LEMMA AppMoves ==
    ASSUME TypeInv, NEW pc \in Steps, Goto(pc),
           pc \in {"idle", "sync", "failed"} \/ app.pc \notin {"idle", "sync", "failed"},
           UNCHANGED helper
    PROVE  AppType' /\ AtWork' /\ app'.dev = app.dev
  <1>1. app \in App /\ app' = [app EXCEPT !.pc = pc]
    BY DEF TypeInv, AppType, Goto
  <1>2. app' \in App /\ app'.dev = app.dev /\ app'.pc = pc /\ app'.desired = app.desired
    BY <1>1 DEF App
  <1> QED
    BY <1>2 DEF AppType, AtWork, TypeInv

\* A synchronisation that ends has no locals.
LEMMA SyncEnds ==
    ASSUME TypeInv, EndSync, UNCHANGED helper
    PROVE  AppType' /\ AtWork' /\ app'.dev = app.dev
  <1>1. app \in App /\ app' = [app EXCEPT !.pc = "idle", !.seen = 0, !.desired = 0]
    BY DEF TypeInv, AppType, EndSync
  <1>2. 0 \in 0 .. MaxRevisions /\ "idle" \in Steps
    BY RevisionAssumption DEF Steps
  <1>3. app' \in App /\ app'.dev = app.dev /\ app'.pc = "idle"
    BY <1>1, <1>2 DEF App
  <1> QED
    BY <1>3 DEF AppType, AtWork, TypeInv

\* The steps of synchronize keep the types.
LEMMA CoordinatorType ==
    ASSUME TypeInv, Coordinator
    PROVE  TypeInv'
  <1>0. /\ app \in App /\ helper \in Helper /\ AtWork /\ FaultType
        /\ device \in [Devices -> Row \cup {None}] /\ MaxRevisions \in Nat
    BY RevisionAssumption DEF TypeInv, AppType, HelperType, DeviceType
  <1>1. CASE StartSync
    <2>1. app' \in App /\ app'.dev = app.dev /\ app'.pc = "sync"
      BY <1>0, <1>1 DEF StartSync, App, Steps, Helper
    <2>2. AppType' /\ HelperType' /\ AtWork'
      BY <1>0, <1>1, <2>1 DEF StartSync, AppType, HelperType, AtWork
    <2> QED
      BY <1>0, <1>1, <2>1, <2>2, TabletStep, FaultKept DEF StartSync, serverVars, FaultType
  <1>2. CASE Heartbeat
    BY <1>0, <1>2, Reported, TabletStep, TabletFrame, WorkFrame DEF Heartbeat, tabletVars, TypeInv
  <1>3. CASE SyncDevice
    <2>1. AppType' /\ HelperType' /\ AtWork' /\ app'.dev = app.dev
      <3>1. CASE AssignedRevision \in {0, app.seen}
        BY <1>0, <1>3, <3>1, SyncEnds DEF SyncDevice, HelperType
      <3>2. CASE AssignedRevision \notin {0, app.seen}
        <4>1. AssignedRevision \in Ids
          BY <1>0, <1>3, <3>2, AssignedType DEF SyncDevice, Ids
        <4>2. app' = [app EXCEPT !.desired = AssignedRevision, !.pc = "prepare"]
          BY <1>3, <3>2 DEF SyncDevice
        <4>3. AssignedRevision \in 0 .. MaxRevisions /\ "prepare" \in Steps
          BY <1>3, AssignedType DEF SyncDevice, Steps
        <4>4. app' \in App /\ app'.dev = app.dev /\ app'.desired \in Ids
          BY <1>0, <4>1, <4>2, <4>3 DEF App
        <4> QED
          BY <1>0, <1>3, <4>4 DEF SyncDevice, AppType, HelperType, AtWork
      <3> QED
        BY <3>1, <3>2
    <2> QED
      BY <1>0, <1>3, <2>1, Reported, TabletStep, FaultKept DEF SyncDevice, FaultType
  <1>4. CASE PrepareRevision
    <2>1. app' \in App /\ app'.dev = app.dev /\ app'.desired = app.desired /\ app.desired \in Ids
      BY <1>0, <1>4 DEF PrepareRevision, App, Steps, AtWork
    <2>2. AppType' /\ HelperType' /\ AtWork'
      BY <1>0, <1>4, <2>1 DEF PrepareRevision, AppType, HelperType, AtWork
    <2> QED
      BY <1>0, <1>4, <2>1, <2>2, TabletStep, FaultKept DEF PrepareRevision, serverVars, FaultType
  <1>5. CASE RequestStage \/ RequestActivate
    <2>1. PICK op \in {"stage", "activate"}, pc \in {"staging", "activating"} :
             Queue(op) /\ Goto(pc) /\ app.pc \in {"stage", "activate"} /\ HelperIdle
      BY <1>5 DEF RequestStage, RequestActivate
    <2>2. app.desired \in Ids
      BY <1>0, <2>1 DEF AtWork
    <2>3. app' \in App /\ app'.dev = app.dev /\ app'.desired = app.desired
      BY <1>0, <2>1 DEF Goto, App, Steps
    <2>4. helper' \in Helper /\ helper'.pc = helper.pc
      <3>1. [op |-> op, rev |-> app.desired] \in Command
        BY <2>2 DEF Command
      <3> QED
        BY <1>0, <2>1, <3>1 DEF Queue, Helper
    <2>5. AppType' /\ HelperType' /\ AtWork'
      BY <2>1, <2>2, <2>3, <2>4 DEF AppType, HelperType, AtWork, HelperIdle
    <2> QED
      BY <1>0, <1>5, <2>3, <2>5, TabletStep, FaultKept
         DEF RequestStage, RequestActivate, serverVars, FaultType
  <1>6. CASE AwaitStaged \/ AckStaged \/ AwaitActive \/ SyncFails
    <2>1. PICK pc \in {"staged", "activate", "activated", "failed"} :
             Goto(pc) /\ (pc = "failed" \/ app.pc \notin {"idle", "sync", "failed"})
      BY <1>6 DEF AwaitStaged, AckStaged, AwaitActive, SyncFails
    <2>2. pc \in Steps /\ UNCHANGED <<serverVars, helper, call, calls, faults>>
      BY <1>6 DEF AwaitStaged, AckStaged, AwaitActive, SyncFails, Steps
    <2>3. AppType' /\ HelperType' /\ AtWork' /\ app'.dev = app.dev
      BY <1>0, <2>1, <2>2, AppMoves DEF HelperType
    <2> QED
      BY <1>0, <2>2, <2>3, TabletStep, FaultKept DEF serverVars, FaultType
  <1>7. CASE SaveActiveManifest
    <2>1. app' \in App /\ app'.dev = app.dev /\ app'.desired = app.desired
      BY <1>0, <1>7 DEF SaveActiveManifest, App, Steps
    <2>2. AppType' /\ HelperType' /\ AtWork'
      BY <1>0, <1>7, <2>1 DEF SaveActiveManifest, AppType, HelperType, AtWork
    <2> QED
      BY <1>0, <1>7, <2>1, <2>2, TabletStep, FaultKept DEF SaveActiveManifest, serverVars, FaultType
  <1>8. CASE AckActivated
    <2>1. AppType' /\ HelperType' /\ AtWork' /\ app'.dev = app.dev
      BY <1>0, <1>8, SyncEnds DEF AckActivated, HelperType
    <2> QED
      BY <1>0, <1>8, <2>1, Reported, TabletStep, FaultKept DEF AckActivated, FaultType
  <1>9. CASE ReportFailure
    <2>1. AppType' /\ HelperType' /\ AtWork' /\ app'.dev = app.dev
      BY <1>0, <1>9, SyncEnds DEF ReportFailure, HelperType
    <2> QED
      BY <1>0, <1>9, <2>1, TabletStep, FaultKept DEF ReportFailure, serverVars, FaultType
  <1> QED
    BY <1>1, <1>2, <1>3, <1>4, <1>5, <1>6, <1>7, <1>8, <1>9 DEF Coordinator

\* The steps of the helper keep the types.
LEMMA HelperStepsType ==
    ASSUME TypeInv, HelperSteps
    PROVE  TypeInv'
  <1>0. /\ app \in App /\ helper \in Helper /\ AtWork /\ FaultType
        /\ device \in [Devices -> Row \cup {None}]
        /\ Ids \subseteq 0 .. MaxRevisions /\ 0 \in 0 .. MaxRevisions
    BY RevisionAssumption DEF TypeInv, AppType, HelperType, DeviceType, Ids
  <1>1. UNCHANGED <<serverVars, app, call, calls, faults>>
    BY DEF HelperSteps, TakeCommand, StageRevision, RenameRevision, SelectStaged, ActivateStaged,
           SwapActive, ClearStaged, ShowActive
  <1>2. helper' \in Helper /\ (helper'.pc # "idle" => helper'.rev \in Ids)
    <2>1. CASE TakeCommand
      <3>1. helper.queue \in Command
        BY <1>0, <2>1 DEF TakeCommand, Helper
      <3>2. helper.queue.rev \in Ids /\ helper.queue.op \in {"stage", "activate"}
        BY <3>1 DEF Command
      <3>3. CASE call
        <4>1. helper' = [helper EXCEPT !.queue = None, !.rev = 0, !.pc = "idle"]
          BY <2>1, <3>3 DEF TakeCommand
        <4> QED
          BY <1>0, <4>1 DEF Helper
      <3>4. CASE ~call
        <4>1. helper' = [helper EXCEPT !.queue = None, !.rev = helper.queue.rev,
                                       !.pc = helper.queue.op]
          BY <2>1, <3>4 DEF TakeCommand
        <4> QED
          BY <1>0, <3>2, <4>1 DEF Helper
      <3> QED
        BY <3>3, <3>4
    <2>2. CASE StageRevision
      <3>1. helper.rev \in Ids
        BY <1>0, <2>2 DEF StageRevision, AtWork
      <3>2. \/ helper' = [helper EXCEPT !.pc = "select"]
            \/ helper' = [helper EXCEPT !.rejected = TRUE, !.pc = "idle", !.rev = 0]
            \/ helper' = [helper EXCEPT !.broken = helper.broken, !.pc = "rename"]
        BY <2>2 DEF StageRevision, CopyFiles
      <3>3. CASE helper' = [helper EXCEPT !.pc = "select"]
        BY <1>0, <3>1, <3>3 DEF Helper
      <3>4. CASE helper' = [helper EXCEPT !.rejected = TRUE, !.pc = "idle", !.rev = 0]
        BY <1>0, <3>4 DEF Helper
      <3>5. CASE helper' = [helper EXCEPT !.broken = helper.broken, !.pc = "rename"]
        BY <1>0, <3>1, <3>5 DEF Helper
      <3> QED
        BY <3>2, <3>3, <3>4, <3>5
    <2>3. CASE RenameRevision
      <3>1. helper.rev \in Ids
        BY <1>0, <2>3 DEF RenameRevision, AtWork
      <3>2. helper.dirs \cup {helper.rev} \in SUBSET Ids /\ helper.broken \ {helper.rev} \in SUBSET Ids
        BY <1>0, <3>1 DEF Helper
      <3> QED
        BY <1>0, <2>3, <3>1, <3>2 DEF RenameRevision, Helper
    <2>4. CASE SelectStaged
      BY <1>0, <2>4 DEF SelectStaged, Helper
    <2>5. CASE ShowActive
      BY <1>0, <2>5 DEF ShowActive, Helper
    <2>6. CASE ActivateStaged
      <3>1. helper.rev \in Ids
        BY <1>0, <2>6 DEF ActivateStaged, AtWork
      <3>2. CASE ~MayActivate
        <4>1. helper' = [helper EXCEPT !.rejected = TRUE, !.pc = "idle", !.rev = 0]
          BY <2>6, <3>2 DEF ActivateStaged
        <4> QED
          BY <1>0, <4>1 DEF Helper
      <3>3. CASE MayActivate
        <4>1. PICK r \in {helper.previous, helper.active} :
                 helper' = [helper EXCEPT !.pc = "swap", !.previous = r]
          BY <2>6, <3>3 DEF ActivateStaged
        <4> QED
          BY <1>0, <3>1, <4>1 DEF Helper
      <3> QED
        BY <3>2, <3>3
    <2>7. CASE SwapActive
      <3>1. helper.rev \in Ids /\ helper' = [helper EXCEPT !.active = helper.rev, !.pc = "clear"]
        BY <1>0, <2>7 DEF SwapActive, AtWork
      <3> QED
        BY <1>0, <3>1 DEF Helper
    <2>8. CASE ClearStaged
      <3>1. helper.rev \in Ids /\ helper' = [helper EXCEPT !.staged = 0, !.pc = "show"]
        BY <1>0, <2>8 DEF ClearStaged, AtWork
      <3> QED
        BY <1>0, <3>1 DEF Helper
    <2> QED
      BY <2>1, <2>2, <2>3, <2>4, <2>5, <2>6, <2>7, <2>8 DEF HelperSteps
  <1>3. AppType' /\ HelperType' /\ AtWork'
    BY <1>0, <1>1, <1>2 DEF AppType, HelperType, AtWork
  <1> QED
    BY <1>0, <1>1, <1>3, TabletStep, FaultKept DEF serverVars, FaultType

\* So do the end of an enrolment, calls, crashes, losses and timeouts.
LEMMA OutsideType ==
    ASSUME TypeInv,
           \/ \E a \in Clients : SaveEnrollment(a) \/ LoseEnrollment(a)
           \/ \E b \in BOOLEAN : SyncTimesOut(b) \/ CallArrives(b)
           \/ AppDies \/ HelperRestarts \/ CallEnds
    PROVE  TypeInv'
  <1>0. /\ app \in App /\ helper \in Helper /\ AtWork /\ FaultType /\ RequestType /\ Enrolled
        /\ device \in [Devices -> Row \cup {None}] /\ MaxRevisions \in Nat
    BY RevisionAssumption DEF TypeInv, AppType, HelperType, DeviceType
  <1>1. ASSUME NEW a \in Clients, SaveEnrollment(a) \/ LoseEnrollment(a)
        PROVE  TypeInv'
    <2>1. Idle \in Request /\ Idle.op = "idle" /\ request' = [request EXCEPT ![a] = Idle]
      BY <1>1 DEF Request, Idle, SaveEnrollment, LoseEnrollment
    <2>2. RequestType' /\ \A b \in Clients : request'[b] = IF b = a THEN Idle ELSE request[b]
      BY <1>0, <2>1, RequestSet
    <2>3. request[a].op = "enrolled" /\ request[a].device \in Devices
      BY <1>0, <1>1, RequestFields DEF SaveEnrollment, LoseEnrollment
    <2>4. /\ app' \in App /\ app'.pc = app.pc /\ app'.desired = app.desired
          /\ app'.dev = app.dev \/ app'.dev = request[a].device
      BY <1>0, <1>1, <2>3 DEF SaveEnrollment, LoseEnrollment, App
    <2>5. UNCHANGED <<draft, prompt, revs, nextId, device, code, scene, helper, call, calls>>
      BY <1>1 DEF SaveEnrollment, LoseEnrollment
    <2>6. Enrolled'
      BY <1>0, <2>1, <2>2, <2>3, <2>4, <2>5, NoneAssumption DEF Enrolled
    <2>7. FaultType'
      BY <1>0, <1>1, <2>5, FaultKept DEF SaveEnrollment, LoseEnrollment, FaultType
    <2>8. AppType' /\ HelperType' /\ AtWork'
      BY <1>0, <2>4, <2>5 DEF AppType, HelperType, AtWork
    <2> QED
      BY <2>2, <2>5, <2>6, <2>7, <2>8, ContentFrame, RevisionFrame, DeviceFrame DEF TypeInv
  <1>2. ASSUME NEW b \in BOOLEAN, SyncTimesOut(b)
        PROVE  TypeInv'
    <2>1. AppType' /\ HelperType' /\ AtWork' /\ app'.dev = app.dev
      BY <1>0, <1>2, AppMoves DEF SyncTimesOut, HelperType, Steps
    <2>2. FaultType'
      BY <1>0, <1>2, FaultKept DEF SyncTimesOut, FaultType
    <2>3. /\ device' \in [Devices -> Row \cup {None}]
          /\ \A d \in Devices : device[d] # None => device'[d] # None
      BY <1>0, <1>2, Reported DEF SyncTimesOut
    <2> QED
      BY <1>2, <2>1, <2>2, <2>3, TabletStep DEF SyncTimesOut
  <1>3. ASSUME NEW b \in BOOLEAN, CallArrives(b)
        PROVE  TypeInv'
    <2>1. helper' \in Helper /\ helper'.pc = helper.pc /\ helper'.rev = helper.rev
      BY <1>0, <1>3 DEF CallArrives, Helper
    <2>2. AppType' /\ HelperType' /\ AtWork'
      BY <1>0, <1>3, <2>1 DEF CallArrives, AppType, HelperType, AtWork
    <2>3. FaultType'
      <3>1. scene.calls \in Nat /\ calls \in 0 .. scene.calls /\ faults \in 0 .. scene.faults
        BY Contents DEF TypeInv, FaultType
      <3>2. calls' \in 0 .. scene.calls
        BY <1>3, <3>1 DEF CallArrives
      <3> QED
        BY <1>3, <3>1, <3>2 DEF CallArrives, FaultType, serverVars
    <2> QED
      BY <1>0, <1>3, <2>2, <2>3, TabletStep DEF CallArrives, serverVars
  <1>4. CASE AppDies
    <2>1. AppType' /\ HelperType' /\ AtWork' /\ app'.dev = app.dev
      BY <1>0, <1>4, SyncEnds DEF AppDies, HelperType
    <2> QED
      BY <1>0, <1>4, <2>1, TabletStep, FaultKept DEF AppDies, serverVars, FaultType
  <1>5. CASE HelperRestarts
    <2>1. helper' \in Helper /\ helper'.pc = "idle"
      <3>1. 0 \in 0 .. MaxRevisions
        BY <1>0
      <3>2. helper' = [helper EXCEPT !.pc = "idle", !.rev = 0, !.shownActive = helper.active,
                                     !.shownStaged = helper.staged]
        BY <1>5 DEF HelperRestarts
      <3> QED
        BY <1>0, <3>1, <3>2 DEF Helper
    <2>2. AppType' /\ HelperType' /\ AtWork'
      BY <1>0, <1>5, <2>1 DEF HelperRestarts, AppType, HelperType, AtWork
    <2> QED
      BY <1>0, <1>5, <2>2, TabletStep, FaultKept DEF HelperRestarts, serverVars, FaultType
  <1>6. CASE CallEnds
    <2>1. AppType' /\ HelperType' /\ AtWork'
      BY <1>0, <1>6 DEF CallEnds, AppType, HelperType, AtWork
    <2> QED
      BY <1>0, <1>6, <2>1, TabletStep, FaultKept DEF CallEnds, serverVars
  <1> QED
    BY <1>1, <1>2, <1>3, <1>4, <1>5, <1>6

\* A step that changes nothing changes no type.
LEMMA StutterType == TypeInv /\ UNCHANGED vars => TypeInv'
  <1> SUFFICES ASSUME TypeInv, UNCHANGED vars PROVE TypeInv'
    OBVIOUS
  <1>1. UNCHANGED <<draft, prompt, revs, nextId, request, device, code, scene, tabletVars>>
    BY DEF vars, serverVars
  <1>2. Enrolled'
    BY <1>1, EnrolledFrame DEF TypeInv, tabletVars
  <1> QED
    BY <1>1, <1>2, ContentFrame, RevisionFrame, RequestFrame, DeviceFrame, TabletFrame, WorkFrame
       DEF TypeInv, tabletVars

\* Every step keeps the type invariant.
LEMMA StepType == TypeInv /\ [Next]_vars => TypeInv'
  BY ServerType, CoordinatorType, HelperStepsType, OutsideType, StutterType DEF Next

\* The type invariant is an invariant.
LEMMA TypeInvariant == Spec => []TypeInv
  BY InitType, StepType, PTL DEF Spec

\* RevisionRollout's types hold in every reachable state: every draft stays
\* within its versions, every request, row, command and file keeps its shape.
THEOREM TypeCorrect == Spec => []TypeOK
  <1>1. TypeInv => TypeOK
    BY DEF TypeInv, TypeOK, ContentType, RevisionType, RequestType, DeviceType, AppType,
           HelperType, FaultType
  <1> QED
    BY <1>1, TypeInvariant, PTL

----------------------------------------------------------------------------
(* The steps that matter to drafts, revisions and prompts *)

\* Handlers that read, in one step, what they will commit in another.
Reads(a) ==
    \/ \E reviewed \in 0 .. MaxEdits : PublishDraftV4(a, reviewed)
    \/ PublishDraftV3(a)
    \/ \E r \in Ids, l \in Lanes : RollBack(a, l, r)

Quiet == UNCHANGED <<draft, prompt, revs, request, scene>>

\* Enrolments begin and advance; they and rollbacks that met a newer draft end.
Passes(a) ==
    /\ \E q \in Request : /\ q.op \in {"idle", "enroll", "enrolled"}
                          /\ request' = [request EXCEPT ![a] = q]
                          /\ q.op = "enroll" => MayStart(a, "enroll") /\ q.desired = Latest
                          /\ q.op = "enrolled" => request[a].op = "enroll"
    /\ UNCHANGED <<draft, prompt, revs, scene>>

\* Every step is one of these, seen from drafts, revisions and prompts.
LEMMA StepCases ==
    ASSUME TypeInv, [Next]_vars
    PROVE  \/ Quiet
           \/ \E a \in Clients :
                 \/ \E l \in Lanes, ver \in 1 .. MaxEdits, cfg \in Configs : PutDraft(a, l, ver, cfg)
                 \/ Reads(a) \/ CommitPublish(a) \/ CommitRollback(a) \/ Passes(a)
                 \/ \E p \in Prompts : UploadPrompt(a, p) \/ DeletePrompt(a, p)
                 \/ CommitUpload(a) \/ CommitDelete(a) \/ UnlinkPrompt(a)
  <1>0. RequestType /\ MaxRevisions \in Nat /\ 3 \in Lanes /\ 4 \in Lanes
    BY RevisionAssumption DEF TypeInv, Lanes
  <1>1. ASSUME NEW a \in Clients,
               ConflictRollback(a) \/ SaveEnrollment(a) \/ LoseEnrollment(a)
        PROVE  Passes(a)
    <2>1. Idle \in Request /\ Idle.op = "idle"
      BY DEF Request, Idle
    <2> QED
      BY <1>1, <2>1 DEF ConflictRollback, SaveEnrollment, LoseEnrollment, Passes
  <1>2. ASSUME NEW a \in Clients, NEW d \in Devices, EnrollDevice(a, d)
        PROVE  Passes(a)
    <2> DEFINE q == [op |-> "enroll", device |-> d, desired |-> Latest]
    <2>1. q \in Request /\ q.op = "enroll"
      BY <1>0, LatestIsPublished DEF Published, Ids, Request
    <2> QED
      BY <1>2, <2>1 DEF EnrollDevice, Passes
  <1>3. ASSUME NEW a \in Clients, CommitEnrollment(a)
        PROVE  Passes(a)
    <2>1. request[a].op = "enroll"
      BY <1>3 DEF CommitEnrollment
    <2>2. request[a] \in [op : {"enroll", "enrolled"}, device : Devices, desired : 0 .. MaxRevisions]
      BY <1>0, <2>1 DEF RequestType, Request, Idle
    <2>3. [request[a] EXCEPT !.op = "enrolled"] \in Request
      BY <2>2 DEF Request
    <2>4. [request[a] EXCEPT !.op = "enrolled"].op = "enrolled"
      BY <2>2
    <2>5. request' = [request EXCEPT ![a] = [request[a] EXCEPT !.op = "enrolled"]]
      BY <1>3 DEF CommitEnrollment
    <2> QED
      BY <1>3, <2>1, <2>3, <2>4, <2>5 DEF CommitEnrollment, Passes
  <1>4. ASSUME NEW a \in Clients,
               \/ \E r \in Ids : ActivateLegacy(a, r) \/ ActivateImmutable(a, r)
               \/ \E d \in Devices : RevokeDevice(a, d)
        PROVE  Quiet
    BY <1>4 DEF ActivateLegacy, ActivateImmutable, Reassign, RevokeDevice, Quiet
  <1>5. CASE CreatePairingCode \/ ExpirePairingCode
    BY <1>5 DEF CreatePairingCode, ExpirePairingCode, Quiet
  <1>6. CASE Coordinator
    BY <1>6 DEF Coordinator, StartSync, Heartbeat, SyncDevice, PrepareRevision, RequestStage,
                AwaitStaged, AckStaged, RequestActivate, AwaitActive, SaveActiveManifest,
                AckActivated, SyncFails, ReportFailure, serverVars, Quiet
  <1>7. CASE HelperSteps
    BY <1>7 DEF HelperSteps, TakeCommand, StageRevision, RenameRevision, SelectStaged,
                ActivateStaged, SwapActive, ClearStaged, ShowActive, serverVars, Quiet
  <1>8. CASE \/ \E b \in BOOLEAN : SyncTimesOut(b) \/ CallArrives(b)
             \/ AppDies \/ HelperRestarts \/ CallEnds
    BY <1>8 DEF SyncTimesOut, CallArrives, AppDies, HelperRestarts, CallEnds, serverVars, Quiet
  <1>9. CASE UNCHANGED vars
    BY <1>9 DEF vars, serverVars, Quiet
  <1>10. CASE Server
    BY <1>0, <1>1, <1>2, <1>3, <1>4, <1>5, <1>10 DEF Server, Reads, RollbackV3, RollbackV4
  <1> QED
    BY <1>1, <1>6, <1>7, <1>8, <1>9, <1>10 DEF Next

\* Every request but the handler's own stays as it is.
LEMMA OtherRequests ==
    ASSUME TypeInv, NEW a \in Clients, NEW q, request' = [request EXCEPT ![a] = q]
    PROVE  \A b \in Clients : request'[b] = IF b = a THEN q ELSE request[b]
  BY DEF TypeInv, RequestType

\* What the handlers that read leave behind.
LEMMA ReadRequest ==
    ASSUME TypeInv, NEW a \in Clients, Reads(a)
    PROVE  /\ UNCHANGED <<draft, prompt, revs, scene>>
           /\ MayStart(a, "publish") \/ MayStart(a, "rollback")
           /\ \E q \in Request : /\ request' = [request EXCEPT ![a] = q]
                                 /\ q.op \in {"publish", "rollback"} /\ Validates(q.cfg)
                                 /\ q.op = "publish" /\ q.reviewed # 0 =>
                                       q.reviewed = Version(4) /\ q.cfg = Content(4)
  <1>0. ContentType /\ RevisionType /\ MaxEdits \in Nat /\ 3 \in Lanes /\ 4 \in Lanes
    BY RevisionAssumption DEF TypeInv, Lanes
  <1>1. nextId <= scene.ids => nextId \in Ids
    BY <1>0, Contents, RevisionAssumption DEF RevisionType, Ids
  <1>2. ASSUME NEW reviewed \in 0 .. MaxEdits, PublishDraftV4(a, reviewed)
        PROVE  \E q \in Request : /\ request' = [request EXCEPT ![a] = q]
                                  /\ q.op \in {"publish", "rollback"} /\ Validates(q.cfg)
                                  /\ q.op = "publish" /\ q.reviewed # 0 =>
                                        q.reviewed = Version(4) /\ q.cfg = Content(4)
    <2> DEFINE q == [op |-> "publish", id |-> nextId, schema |-> 4, cfg |-> Content(4),
                     reviewed |-> reviewed]
    <2>1. nextId \in Ids /\ Content(4) \in Configs
      BY <1>0, <1>1, <1>2, Contents DEF PublishDraftV4, CreateRevision
    <2>2. q \in Request
      BY <1>0, <2>1 DEF Request
    <2>3. /\ request' = [request EXCEPT ![a] = q] /\ Validates(Content(4))
          /\ reviewed \in {0, Version(4)}
      BY <1>2 DEF PublishDraftV4, CreateRevision
    <2>4. q.op = "publish" /\ q.cfg = Content(4) /\ q.reviewed = reviewed
      OBVIOUS
    <2> HIDE DEF q
    <2> QED
      BY <2>2, <2>3, <2>4
  <1>3. ASSUME PublishDraftV3(a)
        PROVE  \E q \in Request : /\ request' = [request EXCEPT ![a] = q]
                                  /\ q.op = "publish" /\ Validates(q.cfg) /\ q.reviewed = 0
    <2> DEFINE q == [op |-> "publish", id |-> nextId, schema |-> 3, cfg |-> Content(3),
                     reviewed |-> 0]
    <2>1. nextId \in Ids /\ Content(3) \in Configs /\ 0 \in 0 .. MaxEdits
      BY <1>0, <1>1, <1>3, Contents DEF PublishDraftV3, CreateRevision
    <2>2. q \in Request
      BY <1>0, <2>1 DEF Request
    <2>3. request' = [request EXCEPT ![a] = q] /\ Validates(Content(3))
      BY <1>3 DEF PublishDraftV3, CreateRevision
    <2>4. q.op = "publish" /\ q.cfg = Content(3) /\ q.reviewed = 0
      OBVIOUS
    <2> HIDE DEF q
    <2> QED
      BY <2>2, <2>3, <2>4
  <1>4. ASSUME NEW r \in Ids, NEW l \in Lanes, RollBack(a, l, r)
        PROVE  \E q \in Request : /\ request' = [request EXCEPT ![a] = q]
                                  /\ q.op = "rollback" /\ Validates(q.cfg)
    <2> DEFINE q == [op |-> "rollback", id |-> nextId, schema |-> l, cfg |-> revs[r].cfg,
                     source |-> r, ver |-> Version(l)]
    <2>1. revs[r].cfg \in Configs
      BY <1>0, <1>4 DEF RollBack, Published, RevisionType, Revision
    <2>2. Version(l) \in 1 .. MaxEdits /\ nextId \in Ids
      BY <1>0, <1>1, <1>4, Contents DEF RollBack, CreateRevision, Version
    <2>3. q \in Request
      BY <2>1, <2>2 DEF Request
    <2>4. request' = [request EXCEPT ![a] = q] /\ Validates(revs[r].cfg)
      BY <1>4 DEF RollBack, CreateRevision
    <2>5. q.op = "rollback" /\ q.cfg = revs[r].cfg
      OBVIOUS
    <2> HIDE DEF q
    <2> QED
      BY <2>3, <2>4, <2>5
  <1>5. /\ UNCHANGED <<draft, prompt, revs, scene>>
        /\ MayStart(a, "publish") \/ MayStart(a, "rollback")
    BY DEF Reads, PublishDraftV4, PublishDraftV3, RollBack
  <1> QED
    BY <1>2, <1>3, <1>4, <1>5 DEF Reads

\* The two commits that make a revision: one new entry, from the request.
LEMMA CommitsRevision ==
    ASSUME TypeInv, NEW a \in Clients, CommitPublish(a) \/ CommitRollback(a)
    PROVE  /\ request[a].op \in {"publish", "rollback"} /\ request[a].id \in Ids
           /\ device' = Assign(request[a].id) /\ request' = [request EXCEPT ![a] = Idle]
           /\ UNCHANGED <<prompt, nextId, code, scene, tabletVars>>
           /\ \A r \in Ids : r # request[a].id => revs'[r] = revs[r]
           /\ revs'[request[a].id] # None
           /\ revs'[request[a].id].cfg = request[a].cfg
           /\ \/ revs'[request[a].id].reviewed = 0
              \/ /\ request[a].op = "publish"
                 /\ revs'[request[a].id].reviewed = request[a].reviewed
  <1> DEFINE q == request[a]
  <1>1. /\ q.op \in {"publish", "rollback"} /\ q.id \in Ids /\ RevisionType
    BY RequestFields DEF TypeInv, CommitPublish, CommitRollback
  <1>2. \E rev \in [schema : {q.schema}, cfg : {q.cfg}, source : 0 .. MaxRevisions,
                    reviewed : 0 .. MaxEdits] :
           /\ rev.reviewed = 0 \/ (q.op = "publish" /\ rev.reviewed = q.reviewed)
           /\ revs' = [revs EXCEPT ![q.id] = rev]
    <2>1. CASE CommitPublish(a)
      <3> DEFINE rev == [schema |-> q.schema, cfg |-> q.cfg, source |-> 0, reviewed |-> q.reviewed]
      <3>1. q.op = "publish" /\ q.reviewed \in 0 .. MaxEdits /\ 0 \in 0 .. MaxRevisions
        BY <2>1, RequestFields, RevisionAssumption DEF CommitPublish, TypeInv
      <3>2. rev \in [schema : {q.schema}, cfg : {q.cfg}, source : 0 .. MaxRevisions,
                     reviewed : 0 .. MaxEdits]
        BY <3>1
      <3>3. revs' = [revs EXCEPT ![q.id] = rev]
        BY <2>1 DEF CommitPublish, PublishedConfig
      <3> QED
        BY <3>1, <3>2, <3>3
    <2>2. CASE CommitRollback(a)
      <3> DEFINE rev == [schema |-> q.schema, cfg |-> q.cfg, source |-> q.source, reviewed |-> 0]
      <3>1. q.source \in 0 .. MaxRevisions /\ 0 \in 0 .. MaxEdits
        BY <2>2, RequestFields, RevisionAssumption DEF CommitRollback, TypeInv, Ids
      <3>2. rev \in [schema : {q.schema}, cfg : {q.cfg}, source : 0 .. MaxRevisions,
                     reviewed : 0 .. MaxEdits]
        BY <3>1
      <3>3. revs' = [revs EXCEPT ![q.id] = rev]
        BY <2>2 DEF CommitRollback
      <3>4. rev.reviewed = 0
        OBVIOUS
      <3> HIDE DEF rev
      <3> QED
        BY <3>2, <3>3, <3>4
    <2> QED
      BY <2>1, <2>2
  <1>3. PICK rev \in [schema : {q.schema}, cfg : {q.cfg}, source : 0 .. MaxRevisions,
                      reviewed : 0 .. MaxEdits] :
           /\ rev.reviewed = 0 \/ (q.op = "publish" /\ rev.reviewed = q.reviewed)
           /\ revs' = [revs EXCEPT ![q.id] = rev]
    BY <1>2
  <1>4. revs'[q.id] = rev /\ \A r \in Ids : r # q.id => revs'[r] = revs[r]
    BY <1>1, <1>3 DEF RevisionType
  <1>5. rev.cfg = q.cfg /\ rev # None
    <2>1. q.schema \in Lanes /\ q.cfg \in Configs
      BY <1>1, RequestFields DEF TypeInv
    <2>2. rev \in Revision
      BY <1>3, <2>1 DEF Revision, Lanes
    <2> QED
      BY <1>3, <2>2, NoneAssumption
  <1>6. /\ device' = Assign(request[a].id) /\ request' = [request EXCEPT ![a] = Idle]
        /\ UNCHANGED <<prompt, nextId, code, scene, tabletVars>>
    BY DEF CommitPublish, CommitRollback
  <1> QED
    BY <1>1, <1>3, <1>4, <1>5, <1>6

----------------------------------------------------------------------------
(* A reviewed draft is published as it was reviewed *)

\* Versions accumulate; a publish that begins carries the current version; a
\* revision that appears is without review or comes from such a publish.
LEMMA ReviewKept ==
    ASSUME TypeInv, ReviewInv,
           Len(draft'[4]) \in Nat, Len(draft'[4]) >= Len(draft[4]),
           \A i \in 1 .. Len(draft[4]) : draft'[4][i] = draft[4][i],
           \A b \in Clients : \/ request'[b] = request[b] \/ request'[b].op # "publish"
                              \/ request'[b].reviewed # 0 => /\ request'[b].reviewed = Version(4)
                                                             /\ request'[b].cfg = Content(4),
           \A r \in Ids : \/ revs'[r] = revs[r] \/ revs'[r].reviewed = 0
                          \/ \E a \in Clients : /\ request[a].op = "publish"
                                                /\ revs'[r].reviewed = request[a].reviewed
                                                /\ revs'[r].cfg = request[a].cfg
    PROVE  ReviewInv'
  <1>0. Len(draft[4]) \in Nat /\ Len(draft[4]) >= 1
    BY Contents DEF TypeInv, Lanes
  <1>1. ASSUME NEW v, v \in 1 .. Len(draft[4])
        PROVE  v \in 1 .. Len(draft'[4]) /\ draft'[4][v] = draft[4][v]
    BY <1>0, <1>1
  <1>2. Len(draft[4]) \in 1 .. Len(draft[4])
    BY <1>0
  <1>3. CarriesReviewed'
    <2> SUFFICES ASSUME NEW b \in Clients, request'[b].op = "publish", request'[b].reviewed # 0
                 PROVE  /\ request'[b].reviewed \in 1 .. Len(draft'[4])
                        /\ request'[b].cfg = draft'[4][request'[b].reviewed]
      BY DEF CarriesReviewed, Version
    <2>1. CASE request'[b] = request[b]
      BY <1>1, <2>1 DEF ReviewInv, CarriesReviewed, Version
    <2>2. CASE request'[b] # request[b]
      BY <1>1, <1>2, <2>2 DEF Version, Content
    <2> QED
      BY <2>1, <2>2
  <1>4. ASSUME NEW r \in Ids, revs'[r] # None, revs'[r].reviewed # 0
        PROVE  /\ revs'[r].reviewed \in 1 .. Len(draft'[4])
               /\ revs'[r].cfg = draft'[4][revs'[r].reviewed]
    <2>1. CASE revs'[r] = revs[r]
      BY <1>1, <1>4, <2>1
         DEF ReviewInv, ReviewedIsKept, PublishedAsReviewed, Published, Version
    <2>2. CASE revs'[r] # revs[r]
      BY <1>1, <1>4, <2>2 DEF ReviewInv, CarriesReviewed, Version
    <2> QED
      BY <2>1, <2>2
  <1>5. ReviewedIsKept' /\ PublishedAsReviewed'
    BY <1>4 DEF ReviewedIsKept, PublishedAsReviewed, Published, Version
  <1> QED
    BY <1>3, <1>5 DEF ReviewInv

\* Every step keeps the review invariant.
LEMMA ReviewStep ==
    ASSUME TypeInv, ReviewInv, [Next]_vars
    PROVE  ReviewInv'
  <1>0. /\ 4 \in Lanes /\ ContentType /\ draft[4] \in Seq(Configs) /\ Len(draft[4]) \in Nat
    BY Contents DEF TypeInv, Lanes
  <1>1. CASE Quiet
    BY <1>0, <1>1, ReviewKept DEF Quiet
  <1>2. ASSUME NEW a \in Clients, NEW l \in Lanes, NEW ver \in 1 .. MaxEdits, NEW cfg \in Configs,
               PutDraft(a, l, ver, cfg)
        PROVE  ReviewInv'
    <2>1. /\ ContentType' /\ Len(draft'[4]) >= Len(draft[4])
          /\ \A i \in 1 .. Len(draft[4]) : draft'[4][i] = draft[4][i]
      BY <1>0, <1>2, Stored DEF PutDraft
    <2>2. Len(draft'[4]) \in Nat
      BY <1>0, <2>1 DEF ContentType
    <2> QED
      BY <1>2, <2>1, <2>2, ReviewKept DEF PutDraft
  <1>3. ASSUME NEW a \in Clients, Reads(a)
        PROVE  ReviewInv'
    <2>1. PICK q \in Request : /\ request' = [request EXCEPT ![a] = q]
                               /\ q.op = "publish" /\ q.reviewed # 0 =>
                                     q.reviewed = Version(4) /\ q.cfg = Content(4)
      BY <1>3, ReadRequest
    <2>2. \A b \in Clients : request'[b] = IF b = a THEN q ELSE request[b]
      BY <2>1, OtherRequests
    <2>3. UNCHANGED <<draft, revs>>
      BY <1>3, ReadRequest
    <2> QED
      BY <1>0, <2>1, <2>2, <2>3, ReviewKept
  <1>4. ASSUME NEW a \in Clients, CommitPublish(a) \/ CommitRollback(a)
        PROVE  ReviewInv'
    <2>1. /\ Len(draft'[4]) \in Nat /\ Len(draft'[4]) >= Len(draft[4])
          /\ \A i \in 1 .. Len(draft[4]) : draft'[4][i] = draft[4][i]
      <3>1. CASE CommitPublish(a)
        BY <1>0, <3>1 DEF CommitPublish
      <3>2. CASE CommitRollback(a)
        <4>1. /\ request[a].schema \in Lanes /\ request[a].ver \in 1 .. MaxEdits
              /\ request[a].cfg \in Configs
          BY <3>2, RequestFields DEF CommitRollback, TypeInv
        <4>2. ContentType' /\ Len(draft'[4]) >= Len(draft[4])
              /\ \A i \in 1 .. Len(draft[4]) : draft'[4][i] = draft[4][i]
          BY <1>0, <3>2, <4>1, Stored DEF CommitRollback
        <4> QED
          BY <1>0, <4>2 DEF ContentType
      <3> QED
        BY <1>4, <3>1, <3>2
    <2>2. \A b \in Clients : request'[b] = IF b = a THEN Idle ELSE request[b]
      BY <1>4, CommitsRevision, OtherRequests
    <2>3. Idle.op # "publish"
      BY DEF Idle
    <2>4. \A r \in Ids : \/ revs'[r] = revs[r] \/ revs'[r].reviewed = 0
                         \/ /\ request[a].op = "publish"
                            /\ revs'[r].reviewed = request[a].reviewed
                            /\ revs'[r].cfg = request[a].cfg
      BY <1>4, CommitsRevision
    <2> QED
      BY <2>1, <2>2, <2>3, <2>4, ReviewKept
  <1>5. ASSUME NEW a \in Clients, NEW q, q.op # "publish", request' = [request EXCEPT ![a] = q],
               UNCHANGED <<draft, revs>>
        PROVE  ReviewInv'
    <2>1. \A b \in Clients : request'[b] = IF b = a THEN q ELSE request[b]
      BY <1>5, OtherRequests
    <2> QED
      BY <1>0, <1>5, <2>1, ReviewKept
  <1>6. ASSUME NEW a \in Clients,
               \/ Passes(a)
               \/ \E p \in Prompts : UploadPrompt(a, p) \/ DeletePrompt(a, p)
               \/ CommitUpload(a) \/ UnlinkPrompt(a)
        PROVE  ReviewInv'
    <2>1. Idle.op # "publish"
      BY DEF Idle
    <2> QED
      BY <1>5, <1>6, <2>1 DEF Passes, UploadPrompt, DeletePrompt, CommitUpload, UnlinkPrompt
  <1>7. ASSUME NEW a \in Clients, CommitDelete(a)
        PROVE  ReviewInv'
    <2>1. request[a] \in [op : {"upload", "delete", "unlink"}, prompt : Prompts]
      BY <1>7 DEF CommitDelete, TypeInv, RequestType, Request, Idle
    <2>2. [request[a] EXCEPT !.op = "unlink"].op # "publish"
      BY <2>1
    <2> QED
      BY <1>5, <1>7, <2>2 DEF CommitDelete
  <1> QED
    BY <1>1, <1>2, <1>3, <1>4, <1>6, <1>7, StepCases

\* The revision kept from before V4 was not reviewed.
LEMMA ReviewInit == Init => ReviewInv
  <1> SUFFICES ASSUME Init PROVE ReviewInv
    OBVIOUS
  <1>1. CarriesReviewed
    BY DEF Init, ServerInit, CarriesReviewed, Idle
  <1>2. \A r \in Ids : revs[r] # None => revs[r].reviewed = 0
    BY DEF Init, ServerInit
  <1> QED
    BY <1>1, <1>2 DEF ReviewInv, ReviewedIsKept, PublishedAsReviewed, Published

\* publish_draft_v4 publishes what was reviewed: whatever saves, rollbacks and
\* other publishes run between its reading of the draft and its commit, the
\* signed configuration is the content that bore the reviewed edit_version.
THEOREM ReviewedIsPublished == Spec => []PublishedAsReviewed
  <1>1. TypeInv /\ ReviewInv /\ [Next]_vars => ReviewInv'
    BY ReviewStep
  <1>2. ReviewInv => PublishedAsReviewed
    BY DEF ReviewInv
  <1> QED
    BY <1>1, <1>2, ReviewInit, TypeInvariant, PTL DEF Spec

----------------------------------------------------------------------------
(* The active revision can be played *)

\* A revision that was published stays published.
LEMMA PublishedStays ==
    ASSUME TypeInv, [Next]_vars
    PROVE  Published \subseteq Published'
  <1>1. CASE UNCHANGED revs
    BY <1>1 DEF Published
  <1>2. ASSUME NEW a \in Clients, CommitPublish(a) \/ CommitRollback(a)
        PROVE  Published \subseteq Published'
    <2>1. /\ \A r \in Ids : r # request[a].id => revs'[r] = revs[r]
          /\ revs'[request[a].id] # None
      BY <1>2, CommitsRevision
    <2> QED
      BY <2>1 DEF Published
  <1>3. ASSUME NEW a \in Clients, Reads(a)
        PROVE  UNCHANGED revs
    BY <1>3, ReadRequest
  <1> QED
    BY <1>1, <1>2, <1>3, StepCases
       DEF Quiet, PutDraft, Passes, UploadPrompt, DeletePrompt, CommitUpload, CommitDelete,
           UnlinkPrompt

\* No handler of the server reaches into the tablet.
LEMMA ServerKeepsTablet == Server => UNCHANGED tabletVars
  <1> SUFFICES ASSUME Server PROVE UNCHANGED tabletVars
    OBVIOUS
  <1>1. ASSUME NEW a \in Clients,
               \/ \E l \in Lanes, ver \in 1 .. MaxEdits, cfg \in Configs : PutDraft(a, l, ver, cfg)
               \/ \E reviewed \in 0 .. MaxEdits : PublishDraftV4(a, reviewed)
               \/ PublishDraftV3(a)
               \/ \E r \in Ids : \/ RollbackV3(a, r) \/ RollbackV4(a, r)
                                 \/ ActivateLegacy(a, r) \/ ActivateImmutable(a, r)
        PROVE  UNCHANGED tabletVars
    BY <1>1 DEF PutDraft, PublishDraftV4, PublishDraftV3, RollbackV3, RollbackV4, RollBack,
                ActivateLegacy, ActivateImmutable, Reassign
  <1>2. ASSUME NEW a \in Clients,
               \/ CommitPublish(a) \/ CommitRollback(a) \/ ConflictRollback(a)
               \/ \E p \in Prompts : UploadPrompt(a, p) \/ DeletePrompt(a, p)
               \/ CommitUpload(a) \/ CommitDelete(a) \/ UnlinkPrompt(a)
               \/ \E d \in Devices : EnrollDevice(a, d) \/ RevokeDevice(a, d)
               \/ CommitEnrollment(a)
        PROVE  UNCHANGED tabletVars
    BY <1>2 DEF CommitPublish, CommitRollback, ConflictRollback, UploadPrompt, DeletePrompt,
                CommitUpload, CommitDelete, UnlinkPrompt, EnrollDevice, RevokeDevice,
                CommitEnrollment
  <1>3. CASE CreatePairingCode \/ ExpirePairingCode
    BY <1>3 DEF CreatePairingCode, ExpirePairingCode
  <1> QED
    BY <1>1, <1>2, <1>3 DEF Server

\* Every row points where it did, at a published revision, or nowhere.
LEMMA Assigns ==
    ASSUME TypeInv, RolloutInv, [Next]_vars
    PROVE  AssignsPublished'
  <1>0. Published \subseteq Published' /\ RequestType /\ DeviceType
    BY PublishedStays DEF TypeInv
  <1>1. ASSUME NEW d \in Devices, device[d] # None
        PROVE  device[d].desired \in Published' \cup {0}
    BY <1>0, <1>1 DEF RolloutInv, AssignsPublished
  <1>2. ASSUME NEW a \in Clients, request[a].op = "enroll"
        PROVE  request[a].desired \in Published' \cup {0}
    BY <1>0, <1>2 DEF RolloutInv, AssignsPublished
  <1>3. ASSUME NEW r \in Published', device' = Assign(r)
        PROVE  \A d \in Devices : device'[d] # None => device'[d].desired \in Published' \cup {0}
    BY <1>0, <1>1, <1>3, AssignRows DEF Published
  <1>4. ASSUME \A d \in Devices : device'[d] # None =>
                  device[d] # None /\ device'[d].desired = device[d].desired
        PROVE  \A d \in Devices : device'[d] # None => device'[d].desired \in Published' \cup {0}
    BY <1>1, <1>4
  <1>5. \A d \in Devices : device'[d] # None => device'[d].desired \in Published' \cup {0}
    <2>1. CASE UNCHANGED device
      BY <1>4, <2>1
    <2>2. ASSUME NEW a \in Clients, CommitPublish(a) \/ CommitRollback(a)
          PROVE  \A d \in Devices : device'[d] # None => device'[d].desired \in Published' \cup {0}
      <3>1. /\ device' = Assign(request[a].id) /\ request[a].id \in Ids
            /\ revs'[request[a].id] # None
        BY <2>2, CommitsRevision
      <3>2. request[a].id \in Published'
        BY <3>1 DEF Published
      <3> QED
        BY <1>3, <3>1, <3>2
    <2>3. ASSUME NEW a \in Clients, NEW r \in Ids, ActivateLegacy(a, r) \/ ActivateImmutable(a, r)
          PROVE  \A d \in Devices : device'[d] # None => device'[d].desired \in Published' \cup {0}
      BY <1>0, <1>3, <2>3 DEF ActivateLegacy, ActivateImmutable, Reassign
    <2>4. ASSUME NEW a \in Clients, NEW d \in Devices, RevokeDevice(a, d)
          PROVE  \A e \in Devices : device'[e] # None => device'[e].desired \in Published' \cup {0}
      <3>1. device[d] \in Row /\ device' = [device EXCEPT ![d] = [device[d] EXCEPT !.active = FALSE]]
        BY <1>0, <2>4 DEF RevokeDevice, DeviceType
      <3>2. [device[d] EXCEPT !.active = FALSE].desired = device[d].desired
        BY <3>1 DEF Row
      <3> QED
        BY <1>0, <1>4, <2>4, <3>1, <3>2 DEF RevokeDevice, DeviceType
    <2>5. ASSUME NEW a \in Clients, CommitEnrollment(a)
          PROVE  \A d \in Devices : device'[d] # None => device'[d].desired \in Published' \cup {0}
      <3> DEFINE row == [active |-> TRUE, desired |-> request[a].desired, running |-> 0,
                         reported |-> FALSE]
      <3>1. request[a].op = "enroll" /\ device' = [device EXCEPT ![request[a].device] = row]
        BY <2>5 DEF CommitEnrollment
      <3>2. row.desired = request[a].desired
        OBVIOUS
      <3> HIDE DEF row
      <3>3. \A d \in Devices : device'[d] = IF d = request[a].device THEN row ELSE device[d]
        BY <1>0, <3>1 DEF DeviceType
      <3> QED
        BY <1>1, <1>2, <3>1, <3>2, <3>3
    <2>6. CASE Coordinator \/ \E b \in BOOLEAN : SyncTimesOut(b)
      <3>1. \/ UNCHANGED device
            \/ /\ Trusted
               /\ \/ device' = [device EXCEPT ![app.dev].reported = TRUE]
                  \/ device' = [device EXCEPT ![app.dev].running = app.desired]
        BY <2>6 DEF Coordinator, StartSync, Heartbeat, SyncDevice, PrepareRevision, RequestStage,
                    AwaitStaged, AckStaged, RequestActivate, AwaitActive, SaveActiveManifest,
                    AckActivated, SyncFails, ReportFailure, SyncTimesOut, serverVars
      <3> QED
        BY <1>4, <2>1, <3>1, Reported
    <2>7. CASE \/ HelperSteps \/ (\E b \in BOOLEAN : CallArrives(b))
               \/ AppDies \/ HelperRestarts \/ CallEnds \/ UNCHANGED vars
               \/ \E a \in Clients : SaveEnrollment(a) \/ LoseEnrollment(a)
      <3>1. UNCHANGED device
        BY <2>7 DEF HelperSteps, TakeCommand, StageRevision, RenameRevision, SelectStaged,
                    ActivateStaged, SwapActive, ClearStaged, ShowActive, CallArrives, AppDies,
                    HelperRestarts, CallEnds, SaveEnrollment, LoseEnrollment, vars, serverVars
      <3> QED
        BY <2>1, <3>1
    <2>8. CASE Server
      <3>1. ASSUME NEW a \in Clients,
                   \/ \E l \in Lanes, ver \in 1 .. MaxEdits, cfg \in Configs :
                         PutDraft(a, l, ver, cfg)
                   \/ \E reviewed \in 0 .. MaxEdits : PublishDraftV4(a, reviewed)
                   \/ PublishDraftV3(a)
                   \/ \E r \in Ids : RollbackV3(a, r) \/ RollbackV4(a, r)
                   \/ ConflictRollback(a)
                   \/ \E p \in Prompts : UploadPrompt(a, p) \/ DeletePrompt(a, p)
                   \/ CommitUpload(a) \/ CommitDelete(a) \/ UnlinkPrompt(a)
                   \/ \E d \in Devices : EnrollDevice(a, d)
            PROVE  UNCHANGED device
        BY <3>1 DEF PutDraft, PublishDraftV4, PublishDraftV3, RollbackV3, RollbackV4, RollBack,
                    ConflictRollback, UploadPrompt, DeletePrompt, CommitUpload, CommitDelete,
                    UnlinkPrompt, EnrollDevice
      <3>2. CASE CreatePairingCode \/ ExpirePairingCode
        BY <2>1, <3>2 DEF CreatePairingCode, ExpirePairingCode
      <3> QED
        BY <2>1, <2>2, <2>3, <2>4, <2>5, <2>8, <3>1, <3>2 DEF Server
    <2> QED
      BY <2>6, <2>7, <2>8 DEF Next
  <1>6. ASSUME NEW b \in Clients, request'[b].op = "enroll"
        PROVE  request'[b].desired \in Published' \cup {0}
    <2>1. CASE request'[b] = request[b]
      BY <1>2, <1>6, <2>1
    <2>2. ASSUME NEW a \in Clients, Passes(a)
          PROVE  request'[b].desired \in Published' \cup {0}
      <3>1. PICK q \in Request : /\ request' = [request EXCEPT ![a] = q]
                                 /\ q.op = "enroll" => q.desired = Latest
        BY <2>2 DEF Passes
      <3>2. request'[b] = IF b = a THEN q ELSE request[b]
        BY <3>1, OtherRequests
      <3> QED
        BY <1>0, <1>6, <2>1, <3>1, <3>2, LatestIsPublished
    <2>3. ASSUME NEW a \in Clients, NEW q, q.op # "enroll", request' = [request EXCEPT ![a] = q]
          PROVE  request'[b] = request[b]
      BY <1>6, <2>3, OtherRequests
    <2>4. Idle.op # "enroll"
      BY DEF Idle
    <2>5. ASSUME NEW a \in Clients, Reads(a)
          PROVE  request'[b] = request[b]
      BY <2>3, <2>5, ReadRequest
    <2>6. ASSUME NEW a \in Clients, CommitPublish(a) \/ CommitRollback(a)
          PROVE  request'[b] = request[b]
      BY <2>3, <2>4, <2>6, CommitsRevision
    <2>7. ASSUME NEW a \in Clients,
                 \/ \E p \in Prompts : UploadPrompt(a, p) \/ DeletePrompt(a, p)
                 \/ CommitUpload(a) \/ UnlinkPrompt(a)
          PROVE  request'[b] = request[b]
      BY <2>3, <2>4, <2>7 DEF UploadPrompt, DeletePrompt, CommitUpload, UnlinkPrompt
    <2>8. ASSUME NEW a \in Clients, CommitDelete(a)
          PROVE  request'[b] = request[b]
      <3>1. request[a] \in [op : {"upload", "delete", "unlink"}, prompt : Prompts]
        BY <1>0, <2>8 DEF CommitDelete, RequestType, Request, Idle
      <3>2. [request[a] EXCEPT !.op = "unlink"].op # "enroll"
        BY <3>1
      <3> QED
        BY <2>3, <2>8, <3>2 DEF CommitDelete
    <2> QED
      BY <2>1, <2>2, <2>5, <2>6, <2>7, <2>8, StepCases DEF Quiet, PutDraft
  <1> QED
    BY <1>5, <1>6 DEF AssignsPublished


\* What the app works on and keeps was published.
LEMMA AppFollowsStep ==
    ASSUME TypeInv, RolloutInv, [Next]_vars
    PROVE  AppFollows' /\ app.dirs \subseteq app'.dirs
  <1>0. /\ Published \subseteq Published' /\ app \in App /\ AssignsPublished
        /\ app.pc \notin {"idle", "sync", "failed"} => app.desired \in Published'
        /\ app.dirs \subseteq Published'
    BY PublishedStays DEF TypeInv, AppType, RolloutInv, AppFollows
  <1>1. CASE app' = app
    BY <1>0, <1>1 DEF AppFollows
  <1>2. ASSUME NEW pc, Goto(pc),
               pc = "failed" \/ app.pc \notin {"idle", "sync", "failed"}
        PROVE  AppFollows' /\ app.dirs \subseteq app'.dirs
    <2>1. app'.pc = pc /\ app'.desired = app.desired /\ app'.dirs = app.dirs
      BY <1>0, <1>2 DEF Goto, App
    <2> QED
      BY <1>0, <1>2, <2>1 DEF AppFollows
  <1>3. ASSUME EndSync
        PROVE  AppFollows' /\ app.dirs \subseteq app'.dirs
    <2>1. app'.pc = "idle" /\ app'.dirs = app.dirs
      BY <1>0, <1>3 DEF EndSync, App
    <2> QED
      BY <1>0, <2>1 DEF AppFollows
  <1>4. CASE StartSync
    <2>1. app'.pc = "sync" /\ app'.dirs = app.dirs
      BY <1>0, <1>4 DEF StartSync, App
    <2> QED
      BY <1>0, <2>1 DEF AppFollows
  <1>5. CASE SyncDevice
    <2>1. CASE AssignedRevision \in {0, app.seen}
      BY <1>3, <1>5, <2>1 DEF SyncDevice
    <2>2. CASE AssignedRevision \notin {0, app.seen}
      <3>1. AssignedRevision \in Published
        BY <1>0, <1>5, <2>2, AssignedType DEF SyncDevice, AssignsPublished, AssignedRevision
      <3>2. app' = [app EXCEPT !.desired = AssignedRevision, !.pc = "prepare"]
        BY <1>5, <2>2 DEF SyncDevice
      <3>3. app'.desired = AssignedRevision /\ app'.dirs = app.dirs
        BY <1>0, <3>2 DEF App
      <3> QED
        BY <1>0, <3>1, <3>3 DEF AppFollows
    <2> QED
      BY <2>1, <2>2
  <1>6. CASE PrepareRevision
    <2>1. app'.desired = app.desired /\ app'.dirs = app.dirs \cup {app.desired}
      BY <1>0, <1>6 DEF PrepareRevision, App
    <2>2. app.desired \in Published'
      BY <1>0, <1>6 DEF PrepareRevision
    <2> QED
      BY <1>0, <2>1, <2>2 DEF AppFollows
  <1>7. CASE SaveActiveManifest
    <2>1. app'.desired = app.desired /\ app'.dirs = app.dirs
      BY <1>0, <1>7 DEF SaveActiveManifest, App
    <2>2. app.desired \in Published'
      BY <1>0, <1>7 DEF SaveActiveManifest
    <2> QED
      BY <1>0, <2>1, <2>2 DEF AppFollows
  <1>8. CASE Coordinator
    <2>1. CASE Heartbeat
      BY <1>1, <2>1 DEF Heartbeat, tabletVars
    <2>2. CASE RequestStage \/ AwaitStaged \/ AckStaged \/ RequestActivate \/ AwaitActive \/ SyncFails
      BY <1>2, <2>2
         DEF RequestStage, AwaitStaged, AckStaged, RequestActivate, AwaitActive, SyncFails
    <2>3. CASE AckActivated \/ ReportFailure
      BY <1>3, <2>3 DEF AckActivated, ReportFailure
    <2> QED
      BY <1>4, <1>5, <1>6, <1>7, <1>8, <2>1, <2>2, <2>3 DEF Coordinator
  <1>9. ASSUME NEW a \in Clients, SaveEnrollment(a)
        PROVE  AppFollows' /\ app.dirs \subseteq app'.dirs
    <2>1. app'.pc = app.pc /\ app'.desired = app.desired /\ app'.dirs = app.dirs
      BY <1>0, <1>9 DEF SaveEnrollment, App
    <2> QED
      BY <1>0, <2>1 DEF AppFollows
  <1>10. CASE HelperSteps \/ HelperRestarts \/ CallEnds \/ \E b \in BOOLEAN : CallArrives(b)
    BY <1>1, <1>10 DEF HelperSteps, TakeCommand, StageRevision, RenameRevision, SelectStaged,
                       ActivateStaged, SwapActive, ClearStaged, ShowActive, CallArrives,
                       HelperRestarts, CallEnds
  <1>11. CASE AppDies \/ \E b \in BOOLEAN : SyncTimesOut(b)
    BY <1>2, <1>3, <1>11 DEF AppDies, SyncTimesOut
  <1>12. CASE UNCHANGED vars \/ \E a \in Clients : LoseEnrollment(a)
    BY <1>1, <1>12 DEF vars, tabletVars, LoseEnrollment
  <1>13. CASE Server
    BY <1>1, <1>13, ServerKeepsTablet DEF tabletVars
  <1> QED
    BY <1>8, <1>9, <1>10, <1>11, <1>12, <1>13 DEF Next

\* The helper's own directories come from the app's, and only a revision in
\* one of them becomes the active one.
LEMMA HelperFollowsStep ==
    ASSUME TypeInv, RolloutInv, [Next]_vars
    PROVE  HelperFollows'
  <1>0. /\ helper \in Helper /\ HelperFollows /\ app.dirs \subseteq app'.dirs
    BY AppFollowsStep DEF TypeInv, HelperType, RolloutInv
  <1>1. ASSUME helper'.dirs = helper.dirs, helper'.active = helper.active,
               helper'.pc \notin {"rename", "swap"}
        PROVE  HelperFollows'
    BY <1>0, <1>1 DEF HelperFollows
  <1>2. ASSUME helper'.dirs = helper.dirs, helper'.active = helper.active,
               helper'.pc = helper.pc, helper'.rev = helper.rev
        PROVE  HelperFollows'
    BY <1>0, <1>2 DEF HelperFollows
  <1>3. CASE TakeCommand
    <2>1. helper.queue \in Command
      BY <1>0, <1>3 DEF TakeCommand, Helper
    <2>2. \E pc \in {"idle", "stage", "activate"} : \E rev :
             helper' = [helper EXCEPT !.queue = None, !.rev = rev, !.pc = pc]
      BY <1>3, <2>1 DEF TakeCommand, Command
    <2> QED
      BY <1>0, <1>1, <2>2 DEF Helper
  <1>4. CASE StageRevision
    <2>1. CASE helper.rev \in helper.dirs
      BY <1>0, <1>1, <1>4, <2>1 DEF StageRevision, Helper
    <2>2. CASE /\ helper.rev \notin helper.dirs
               /\ helper.rev \in helper.broken \/ helper.rev \notin app.dirs
      <3>1. helper' = [helper EXCEPT !.rejected = TRUE, !.pc = "idle", !.rev = 0]
        BY <1>4, <2>2 DEF StageRevision
      <3> QED
        BY <1>0, <1>1, <3>1 DEF Helper
    <2>3. CASE helper.rev \notin helper.dirs /\ helper.rev \notin helper.broken
                  /\ helper.rev \in app.dirs
      <3>1. helper' = [helper EXCEPT !.broken = CopyFiles(helper.rev), !.pc = "rename"]
        BY <1>4, <2>3 DEF StageRevision
      <3>2. /\ helper'.dirs = helper.dirs /\ helper'.active = helper.active
            /\ helper'.pc = "rename" /\ helper'.rev = helper.rev
        BY <1>0, <3>1 DEF Helper
      <3> QED
        BY <1>0, <2>3, <3>2 DEF HelperFollows
    <2> QED
      BY <2>1, <2>2, <2>3
  <1>5. CASE RenameRevision
    <2>1. /\ helper'.dirs = helper.dirs \cup {helper.rev} /\ helper'.active = helper.active
          /\ helper'.pc = "select"
      BY <1>0, <1>5 DEF RenameRevision, Helper
    <2>2. helper.rev \in app.dirs
      BY <1>0, <1>5 DEF RenameRevision, HelperFollows
    <2> QED
      BY <1>0, <2>1, <2>2 DEF HelperFollows
  <1>6. CASE SelectStaged \/ ClearStaged \/ ShowActive
    BY <1>0, <1>1, <1>6 DEF SelectStaged, ClearStaged, ShowActive, Helper
  <1>7. CASE ActivateStaged
    <2>1. CASE ~MayActivate
      BY <1>0, <1>1, <1>7, <2>1 DEF ActivateStaged, Helper
    <2>2. CASE MayActivate
      <3>1. /\ helper'.dirs = helper.dirs /\ helper'.active = helper.active
            /\ helper'.pc = "swap" /\ helper'.rev = helper.rev
        BY <1>0, <1>7, <2>2 DEF ActivateStaged, Helper
      <3> QED
        BY <1>0, <2>2, <3>1 DEF HelperFollows, MayActivate
    <2> QED
      BY <2>1, <2>2
  <1>8. CASE SwapActive
    <2>1. helper'.dirs = helper.dirs /\ helper'.active = helper.rev /\ helper'.pc = "clear"
      BY <1>0, <1>8 DEF SwapActive, Helper
    <2>2. helper.rev \in helper.dirs
      BY <1>0, <1>8 DEF SwapActive, HelperFollows
    <2> QED
      BY <1>0, <2>1, <2>2 DEF HelperFollows
  <1>9. CASE HelperRestarts
    BY <1>0, <1>1, <1>9 DEF HelperRestarts, Helper
  <1>10. CASE UNCHANGED helper
    BY <1>2, <1>10
  <1>11. CASE RequestStage \/ RequestActivate \/ \E b \in BOOLEAN : CallArrives(b)
    BY <1>0, <1>2, <1>10, <1>11 DEF RequestStage, RequestActivate, Queue, CallArrives, Helper
  <1>12. CASE Coordinator /\ ~(RequestStage \/ RequestActivate)
    BY <1>10, <1>12 DEF Coordinator, StartSync, Heartbeat, SyncDevice, PrepareRevision,
                        AwaitStaged, AckStaged, AwaitActive, SaveActiveManifest, AckActivated,
                        SyncFails, ReportFailure, tabletVars
  <1>13. CASE \/ \E a \in Clients : SaveEnrollment(a) \/ LoseEnrollment(a)
              \/ \E b \in BOOLEAN : SyncTimesOut(b)
              \/ AppDies \/ CallEnds \/ UNCHANGED vars
    BY <1>10, <1>13 DEF SaveEnrollment, LoseEnrollment, SyncTimesOut, AppDies, CallEnds, vars,
                        tabletVars
  <1>14. CASE Server
    BY <1>10, <1>14, ServerKeepsTablet DEF tabletVars
  <1> QED
    BY <1>3, <1>4, <1>5, <1>6, <1>7, <1>8, <1>9, <1>11, <1>12, <1>13, <1>14
       DEF Next, HelperSteps

\* Nothing is assigned, downloaded or active at first.
LEMMA RolloutInit == Init => RolloutInv
  BY DEF Init, ServerInit, RolloutInv, AssignsPublished, AppFollows, HelperFollows, Idle

\* Whatever publishes, calls, crashes, losses and timeouts interrupt a
\* rollout, the revision the helper's active file names was published, is
\* complete on its disk, and is the one LoadRuntimeRevision gives to a call.
THEOREM ActiveRevisionPlays == Spec => []ActiveIsPlayable
  <1>1. TypeInv /\ RolloutInv /\ [Next]_vars => RolloutInv'
    BY Assigns, AppFollowsStep, HelperFollowsStep DEF RolloutInv
  <1>2. RolloutInv => ActiveIsPlayable
    BY DEF RolloutInv, AppFollows, HelperFollows, ActiveIsPlayable, RuntimeRevision
  <1> QED
    BY <1>1, <1>2, RolloutInit, TypeInvariant, PTL DEF Spec

----------------------------------------------------------------------------
(* A published revision keeps its prompts *)

\* Beside an upload or a deletion nothing else begins, and neither begins
\* beside anything else.
LEMMA StartsAlone ==
    ASSUME TypeInv, LibraryAlone, NEW a \in Clients, NEW kind, MayStart(a, kind)
    PROVE  /\ \A b \in Clients : request[b].op \notin PromptOps
           /\ kind \in {"upload", "delete"} => \A b \in Clients : request[b].op = "idle"
           /\ request[a].op = "idle"
  <1>1. ASSUME NEW b \in Clients
        PROVE  /\ request[b].op = "idle" <=> request[b] = Idle
               /\ request[b].op # "idle" =>
                     {kind, KindOf(request[b].op)} \subseteq scene.overlapping
    BY RequestFields DEF TypeInv, MayStart
  <1>2. \A b \in Clients : request[b].op \in PromptOps =>
           request[b].op # "idle" /\ KindOf(request[b].op) \in {"upload", "delete"}
    BY DEF PromptOps, KindOf
  <1>3. request[a] = Idle
    BY DEF MayStart
  <1>4. \A b \in Clients : request[b].op \notin PromptOps
    BY <1>1, <1>2 DEF LibraryAlone
  <1>5. kind \in {"upload", "delete"} => \A b \in Clients : request[b].op = "idle"
    BY <1>1 DEF LibraryAlone
  <1> QED
    BY <1>1, <1>3, <1>4, <1>5

\* Every step keeps the library invariant.
LEMMA LibraryStep ==
    ASSUME TypeInv, LibraryInv, [Next]_vars
    PROVE  LibraryInv'
  <1>0. RequestType /\ RevisionType /\ prompt \in [Prompts -> [row : BOOLEAN, file : BOOLEAN]]
    BY DEF TypeInv, ContentType
  <1>s. scene' = scene
    BY StepCases DEF Quiet, PutDraft, Reads, PublishDraftV4, PublishDraftV3, RollBack,
                     CommitPublish, CommitRollback, Passes, UploadPrompt, DeletePrompt,
                     CommitUpload, CommitDelete, UnlinkPrompt
  <1> SUFFICES ASSUME LibraryAlone
               PROVE  /\ OneAtATime' /\ RowHasFile' /\ ConfigsHaveRows' /\ DeletesUnused'
                      /\ FileBeforeRow'
    BY <1>s DEF LibraryInv, LibraryAlone
  <1>i. OneAtATime /\ RowHasFile /\ ConfigsHaveRows /\ DeletesUnused /\ FileBeforeRow
    BY DEF LibraryInv
  <1> DEFINE Kept == /\ OneAtATime' /\ RowHasFile' /\ ConfigsHaveRows' /\ DeletesUnused'
                     /\ FileBeforeRow'
  <1>f. \A b \in Clients : /\ request[b].op \in PromptOps => request[b].prompt \in Prompts
                           /\ request[b].op \in {"publish", "rollback"} =>
                                 request[b].cfg \subseteq Prompts
    BY <1>0, RequestFields DEF PromptOps, Configs
  <1>g. \A r \in Published : revs[r].cfg \subseteq Prompts
    BY <1>0 DEF RevisionType, Revision, Published, Configs
  <1>d. Idle.op = "idle"
    BY DEF Idle
  <1>alone. ASSUME NEW a \in Clients, \A b \in Clients : b # a => request'[b].op = "idle"
            PROVE  OneAtATime'
    BY <1>alone DEF OneAtATime, PromptOps
  <1>1. CASE Quiet
    BY <1>1, <1>i DEF Quiet, OneAtATime, RowHasFile, ConfigsHaveRows, DeletesUnused,
                      FileBeforeRow, Published
  <1>2. ASSUME NEW a \in Clients, NEW l \in Lanes, NEW ver \in 1 .. MaxEdits, NEW cfg \in Configs,
               PutDraft(a, l, ver, cfg)
        PROVE  Kept
    BY <1>2, <1>i DEF PutDraft, OneAtATime, RowHasFile, ConfigsHaveRows, DeletesUnused,
                      FileBeforeRow, Published
  <1>3. ASSUME NEW a \in Clients, Reads(a)
        PROVE  Kept
    <2>1. PICK q \in Request : /\ request' = [request EXCEPT ![a] = q]
                               /\ q.op \in {"publish", "rollback"} /\ Validates(q.cfg)
      BY <1>3, ReadRequest
    <2>2. \A b \in Clients : request'[b] = IF b = a THEN q ELSE request[b]
      BY <2>1, OtherRequests
    <2>3. UNCHANGED <<prompt, revs>> /\ \A b \in Clients : request[b].op \notin PromptOps
      BY <1>3, ReadRequest, StartsAlone
    <2>4. q.op \notin PromptOps /\ q.op \notin {"delete", "unlink", "upload"}
      BY <2>1 DEF PromptOps
    <2>5. \A b \in Clients : request'[b].op \notin PromptOps
      BY <2>2, <2>3, <2>4
    <2>6. RowHasFile' /\ OneAtATime' /\ DeletesUnused' /\ FileBeforeRow'
      BY <1>i, <2>3, <2>5 DEF RowHasFile, OneAtATime, DeletesUnused, FileBeforeRow, PromptOps
    <2>7. ConfigsHaveRows'
      BY <1>i, <2>1, <2>2, <2>3 DEF ConfigsHaveRows, Published, Validates
    <2> QED
      BY <2>6, <2>7
  <1>4. ASSUME NEW a \in Clients, CommitPublish(a) \/ CommitRollback(a)
        PROVE  Kept
    <2>1. /\ request[a].op \in {"publish", "rollback"} /\ request[a].id \in Ids
          /\ request' = [request EXCEPT ![a] = Idle] /\ prompt' = prompt
          /\ \A r \in Ids : r # request[a].id => revs'[r] = revs[r]
          /\ revs'[request[a].id].cfg = request[a].cfg
      BY <1>4, CommitsRevision
    <2>2. \A b \in Clients : request'[b] = IF b = a THEN Idle ELSE request[b]
      <3>1. request' = [request EXCEPT ![a] = Idle]
        BY <2>1
      <3> QED
        BY <3>1, OtherRequests
    <2>3. \A b \in Clients : request[b].op \notin PromptOps /\ request'[b].op \notin PromptOps
      BY <1>i, <1>d, <2>1, <2>2 DEF OneAtATime, PromptOps
    <2>4. RowHasFile' /\ OneAtATime' /\ DeletesUnused' /\ FileBeforeRow'
      BY <1>i, <2>1, <2>3 DEF RowHasFile, OneAtATime, DeletesUnused, FileBeforeRow, PromptOps
    <2>5. ConfigsHaveRows'
      <3>1. ASSUME NEW r \in Published', NEW p \in revs'[r].cfg
            PROVE  prompt'[p].row
        BY <1>i, <2>1, <3>1 DEF ConfigsHaveRows, Published
      <3>2. ASSUME NEW b \in Clients, request'[b].op \in {"publish", "rollback"}
            PROVE  \A p \in request'[b].cfg : prompt'[p].row
        BY <1>i, <1>d, <2>1, <2>2, <3>2 DEF ConfigsHaveRows
      <3> QED
        BY <3>1, <3>2 DEF ConfigsHaveRows
    <2> QED
      BY <2>4, <2>5
  <1>5. ASSUME NEW a \in Clients, Passes(a)
        PROVE  Kept
    <2>1. PICK q \in Request : /\ q.op \in {"idle", "enroll", "enrolled"}
                               /\ request' = [request EXCEPT ![a] = q]
                               /\ q.op = "enroll" => MayStart(a, "enroll")
                               /\ q.op = "enrolled" => request[a].op = "enroll"
      BY <1>5 DEF Passes
    <2>2. \A b \in Clients : request'[b] = IF b = a THEN q ELSE request[b]
      BY <2>1, OtherRequests
    <2>3. UNCHANGED <<prompt, revs>> /\ Published' = Published
      BY <1>5 DEF Passes, Published
    <2>4. RowHasFile' /\ ConfigsHaveRows' /\ DeletesUnused' /\ FileBeforeRow'
      BY <1>i, <2>1, <2>2, <2>3 DEF RowHasFile, ConfigsHaveRows, DeletesUnused, FileBeforeRow
    <2>5. OneAtATime'
      <3>1. CASE q.op = "idle"
        BY <1>i, <2>2, <3>1 DEF OneAtATime, PromptOps
      <3>2. CASE q.op # "idle"
        <4>1. \A b \in Clients : request[b].op \notin PromptOps
          BY <1>i, <2>1, <3>2, StartsAlone DEF OneAtATime, PromptOps
        <4> QED
          BY <2>1, <2>2, <4>1 DEF OneAtATime, PromptOps
      <3> QED
        BY <3>1, <3>2
    <2> QED
      BY <2>4, <2>5
  <1>6. ASSUME NEW a \in Clients, NEW p \in Prompts, UploadPrompt(a, p)
        PROVE  Kept
    <2> DEFINE q == [op |-> "upload", prompt |-> p]
    <2>1. q.op = "upload" /\ q.prompt = p
      OBVIOUS
    <2>2. request' = [request EXCEPT ![a] = q] /\ UNCHANGED revs /\ ~prompt[p].row
      BY <1>6 DEF UploadPrompt
    <2> HIDE DEF q
    <2>3. \A b \in Clients : request'[b] = IF b = a THEN q ELSE request[b]
      BY <2>2, OtherRequests
    <2>4. \A b \in Clients : request[b].op = "idle"
      BY <1>6, StartsAlone DEF UploadPrompt
    <2>5. /\ \A x \in Prompts : prompt'[x].row = prompt[x].row
          /\ \A x \in Prompts : prompt[x].file \/ x = p => prompt'[x].file
      BY <1>0, <1>6 DEF UploadPrompt
    <2>6. OneAtATime' /\ RowHasFile'
      BY <1>i, <1>alone, <2>3, <2>4, <2>5 DEF RowHasFile
    <2>7. ConfigsHaveRows'
      BY <1>i, <1>g, <2>1, <2>2, <2>3, <2>4, <2>5 DEF ConfigsHaveRows, Published
    <2>8. DeletesUnused' /\ FileBeforeRow'
      BY <2>1, <2>2, <2>3, <2>4, <2>5 DEF DeletesUnused, FileBeforeRow
    <2> QED
      BY <2>6, <2>7, <2>8
  <1>7. ASSUME NEW a \in Clients, NEW p \in Prompts, DeletePrompt(a, p)
        PROVE  Kept
    <2> DEFINE q == [op |-> "delete", prompt |-> p]
    <2>1. q.op = "delete" /\ q.prompt = p
      OBVIOUS
    <2>2. /\ request' = [request EXCEPT ![a] = q] /\ UNCHANGED <<revs, prompt>>
          /\ \A r \in Published : p \notin revs[r].cfg
      BY <1>7 DEF DeletePrompt, PromptInUse
    <2> HIDE DEF q
    <2>3. \A b \in Clients : request'[b] = IF b = a THEN q ELSE request[b]
      BY <2>2, OtherRequests
    <2>4. \A b \in Clients : request[b].op = "idle"
      BY <1>7, StartsAlone DEF DeletePrompt
    <2>5. OneAtATime' /\ RowHasFile' /\ FileBeforeRow'
      BY <1>i, <1>alone, <2>1, <2>2, <2>3, <2>4 DEF RowHasFile, FileBeforeRow
    <2>6. ConfigsHaveRows' /\ DeletesUnused'
      BY <1>i, <2>1, <2>2, <2>3, <2>4 DEF ConfigsHaveRows, DeletesUnused, Published
    <2> QED
      BY <2>5, <2>6
  <1>8. ASSUME NEW a \in Clients, CommitUpload(a)
        PROVE  Kept
    <2> DEFINE p == request[a].prompt
    <2>1. /\ request[a].op = "upload" /\ request' = [request EXCEPT ![a] = Idle] /\ UNCHANGED revs
          /\ p \in Prompts
      BY <1>8, <1>f DEF CommitUpload, PromptOps
    <2>2. \A b \in Clients : request'[b] = IF b = a THEN Idle ELSE request[b]
      BY <2>1, OtherRequests
    <2>3. \A b \in Clients : b # a => request[b].op = "idle"
      BY <1>i, <2>1 DEF OneAtATime, PromptOps
    <2>4. ~prompt[p].row /\ prompt[p].file
      BY <1>i, <2>1 DEF FileBeforeRow
    <2>5. prompt' = [prompt EXCEPT ![p] = [prompt[p] EXCEPT !.row = TRUE]]
      BY <1>8, <2>4 DEF CommitUpload
    <2>6. \A x \in Prompts : /\ prompt[x].row => prompt'[x].row
                             /\ prompt'[x].row => prompt'[x].file
      BY <1>0, <1>i, <2>1, <2>4, <2>5 DEF RowHasFile
    <2>7. \A b \in Clients : request'[b].op = "idle"
      BY <1>d, <2>2, <2>3
    <2>8. ConfigsHaveRows'
      BY <1>i, <1>g, <2>1, <2>6, <2>7 DEF ConfigsHaveRows, Published
    <2> QED
      BY <2>6, <2>7, <2>8 DEF OneAtATime, RowHasFile, DeletesUnused, FileBeforeRow, PromptOps
  <1>9. ASSUME NEW a \in Clients, CommitDelete(a)
        PROVE  Kept
    <2> DEFINE p == request[a].prompt
               q == [request[a] EXCEPT !.op = "unlink"]
    <2>1. /\ request[a].op = "delete" /\ request' = [request EXCEPT ![a] = q] /\ UNCHANGED revs
          /\ p \in Prompts
      BY <1>9, <1>f DEF CommitDelete, PromptOps
    <2>2. request[a] \in [op : {"upload", "delete", "unlink"}, prompt : Prompts]
      BY <1>0, <2>1 DEF RequestType, Request, Idle
    <2>3. q.op = "unlink" /\ q.prompt = p
      BY <2>2
    <2> HIDE DEF q
    <2>4. \A b \in Clients : request'[b] = IF b = a THEN q ELSE request[b]
      BY <2>1, OtherRequests
    <2>5. \A b \in Clients : b # a => request[b].op = "idle"
      BY <1>i, <2>1 DEF OneAtATime, PromptOps
    <2>6. \A x \in Prompts : /\ prompt'[x].row => prompt[x].row
                             /\ prompt'[x].row <=> (prompt[x].row /\ x # p)
                             /\ prompt'[x].file = prompt[x].file
      <3>1. prompt' = [prompt EXCEPT ![p] = [prompt[p] EXCEPT !.row = FALSE]]
        BY <1>9 DEF CommitDelete
      <3> QED
        BY <1>0, <2>1, <3>1
    <2>7. \A r \in Published : p \notin revs[r].cfg
      BY <1>i, <2>1 DEF DeletesUnused
    <2>8. OneAtATime' /\ RowHasFile'
      BY <1>i, <1>alone, <2>4, <2>5, <2>6 DEF RowHasFile
    <2>9. DeletesUnused' /\ Published' = Published
      BY <1>i, <2>1, <2>3, <2>4, <2>5, <2>7 DEF DeletesUnused, Published
    <2>10. ConfigsHaveRows'
      <3>1. ASSUME NEW r \in Published, NEW x \in revs[r].cfg
            PROVE  prompt'[x].row
        <4>1. prompt[x].row /\ x # p /\ x \in Prompts
          BY <1>i, <1>g, <2>7 DEF ConfigsHaveRows
        <4> QED
          BY <2>6, <4>1
      <3>2. \A b \in Clients : request'[b].op \notin {"publish", "rollback"}
        BY <2>3, <2>4, <2>5
      <3> QED
        BY <2>1, <2>9, <3>1, <3>2 DEF ConfigsHaveRows
    <2>11. FileBeforeRow'
      <3>1. ~prompt'[p].row
        BY <2>1, <2>6
      <3> QED
        BY <2>3, <2>4, <2>5, <3>1 DEF FileBeforeRow
    <2> QED
      BY <2>8, <2>9, <2>10, <2>11
  <1>10. ASSUME NEW a \in Clients, UnlinkPrompt(a)
         PROVE  Kept
    <2> DEFINE p == request[a].prompt
    <2>1. /\ request[a].op = "unlink" /\ request' = [request EXCEPT ![a] = Idle] /\ UNCHANGED revs
          /\ p \in Prompts
      BY <1>10, <1>f DEF UnlinkPrompt, PromptOps
    <2>2. \A b \in Clients : request'[b] = IF b = a THEN Idle ELSE request[b]
      BY <2>1, OtherRequests
    <2>3. \A b \in Clients : request'[b].op = "idle"
      BY <1>i, <1>d, <2>1, <2>2 DEF OneAtATime, PromptOps
    <2>4. ~prompt[p].row
      BY <1>i, <2>1 DEF FileBeforeRow
    <2>5. \A x \in Prompts : /\ prompt'[x].row = prompt[x].row
                             /\ x # p => prompt'[x].file = prompt[x].file
      <3>1. prompt' = [prompt EXCEPT ![p] = [prompt[p] EXCEPT !.file = FALSE]]
        BY <1>10 DEF UnlinkPrompt
      <3> QED
        BY <1>0, <2>1, <3>1
    <2>6. RowHasFile'
      BY <1>i, <2>4, <2>5 DEF RowHasFile
    <2>7. ConfigsHaveRows'
      BY <1>i, <1>g, <2>1, <2>3, <2>5 DEF ConfigsHaveRows, Published
    <2> QED
      BY <2>3, <2>6, <2>7 DEF OneAtATime, DeletesUnused, FileBeforeRow, PromptOps
  <1> HIDE DEF Kept
  <1>11. Kept
    BY <1>1, <1>2, <1>3, <1>4, <1>5, <1>6, <1>7, <1>8, <1>9, <1>10, StepCases DEF Kept
  <1> QED
    BY <1>11 DEF Kept

\* The prompts of the promoted draft have row and file.
LEMMA LibraryInit == Init => LibraryInv
  <1> SUFFICES ASSUME Init PROVE LibraryInv
    OBVIOUS
  <1>1. \A a \in Clients : request[a].op = "idle"
    BY DEF Init, ServerInit, Idle
  <1>2. PICK cfg \in Configs :
           /\ prompt = [p \in Prompts |-> [row |-> p \in cfg, file |-> p \in cfg]]
           /\ \E s \in LegacySchemas :
                 revs = [r \in Ids |-> IF r = 1 THEN [schema |-> s, cfg |-> cfg, source |-> 0,
                                                      reviewed |-> 0] ELSE None]
    BY DEF Init, ServerInit
  <1>3. \A r \in Published : revs[r].cfg = cfg
    BY <1>2 DEF Published
  <1>4. \A p \in Prompts : prompt[p].row = (p \in cfg) /\ prompt[p].file = (p \in cfg)
    BY <1>2
  <1>5. RowHasFile /\ ConfigsHaveRows
    BY <1>1, <1>3, <1>4 DEF RowHasFile, ConfigsHaveRows, Configs
  <1> QED
    BY <1>1, <1>5 DEF LibraryInv, OneAtATime, DeletesUnused, FileBeforeRow, PromptOps

\* delete_prompt and import_prompt, when no other request overlaps them: a
\* published revision never loses a prompt's row or its media file, for any
\* number of operators who otherwise work at the same time.  The handlers take
\* no lock, so the hypothesis is needed: beside a save and a publish of a draft
\* that uses it, a prompt found unused is deleted and published all the same.
THEOREM RevisionPromptsKept == Spec => [](LibraryAlone => RevisionsKeepPrompts)
  <1>1. TypeInv /\ LibraryInv /\ [Next]_vars => LibraryInv'
    BY LibraryStep
  <1>2. TypeInv /\ LibraryInv => (LibraryAlone => RevisionsKeepPrompts)
    <2> SUFFICES ASSUME TypeInv, LibraryInv, LibraryAlone, NEW r \in Published, NEW p \in revs[r].cfg
                 PROVE  prompt[p].row /\ prompt[p].file
      BY DEF RevisionsKeepPrompts
    <2>1. p \in Prompts
      BY DEF TypeInv, RevisionType, Revision, Published, Configs
    <2> QED
      BY <2>1 DEF LibraryInv, ConfigsHaveRows, RowHasFile
  <1> QED
    BY <1>1, <1>2, LibraryInit, TypeInvariant, PTL DEF Spec

=============================================================================
