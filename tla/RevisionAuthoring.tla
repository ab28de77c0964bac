------------------------- MODULE RevisionAuthoring -------------------------
(***************************************************************************)
(* The server's half of a configuration rollout: the V3 and V4 drafts, the *)
(* prompt library, the immutable revisions made from a draft or restored   *)
(* from an older one, pairing and enrolment.                               *)
(*                                                                         *)
(* A handler runs in one database transaction at READ COMMITTED: what it   *)
(* reads and checks is one step, its commit another, and other requests    *)
(* run between the two.  Only a draft row is locked (FOR UPDATE), in       *)
(* store_draft_v3 and store_draft_v4.  A configuration is abstracted to    *)
(* the set of prompts it plays: that is what publishing, deleting and      *)
(* downloading tell apart.  Its other validation is FlowPrograms' subject. *)
(***************************************************************************)
EXTENDS Naturals, Sequences, FiniteSets

CONSTANTS
    Prompts,        \* prompt audio, named by its content hash
    Devices,        \* device rows that enrolment may create
    Clients,        \* requests that may be in flight at the same time
    Scenarios,      \* what a run lets happen together, see Scenario
    LegacySchemas,  \* schemas of the signed revision kept from before V4
    MaxRevisions,   \* bound on revision ids
    MaxEdits,       \* bound on a draft's edit_version
    None

ASSUME RevisionAssumption ==
    MaxRevisions \in Nat \ {0} /\ MaxEdits \in Nat \ {0} /\ LegacySchemas \subseteq 1 .. 3

VARIABLES
    draft,    \* [lane -> its contents so far]: the V3 and V4 drafts; the last
              \* content is the row's, its index the row's edit_version
    prompt,   \* [prompt -> [row, file]]: prompts table and media_root
    revs,     \* [id -> revision or None]: committed, immutable revisions
    nextId,   \* the revisions sequence: ids are drawn before the commit
    request,  \* [client -> what its handler has read and not yet committed]
    device,   \* [device -> row or None]
    code,     \* a pairing code is valid: neither used nor expired
    scene,    \* the scenario of this behaviour
    (* The tablet, which RevisionRollout moves and no handler below sees.  *)
    app,      \* the app: enrolment, position in synchronize, what it keeps
    helper,   \* the helper's root files, bridge files and current command
    call,     \* a call is in progress (CallRuntimeState.isBusy)
    calls,    \* calls taken so far
    faults    \* crashes, lost answers and timeouts so far

tabletVars == <<app, helper, call, calls, faults>>
serverVars == <<draft, prompt, revs, nextId, request, device, code, scene>>

(* Which draft is edited, which kinds of request occur and which of them   *)
(* may run beside another, how many revision ids and draft versions there  *)
(* are, and how many calls and faults the tablet meets.                    *)
Kinds == {"save", "publish", "rollback", "reassign", "upload", "delete", "enroll", "revoke"}
Scenario == [lane : {3, 4}, kinds : SUBSET Kinds, overlapping : SUBSET Kinds,
             ids : Nat, edits : Nat, calls : Nat, faults : Nat]

Lanes == {3, 4}
Configs == SUBSET Prompts
Ids == 1 .. MaxRevisions
Revision == [schema : 1 .. 4, cfg : Configs, source : 0 .. MaxRevisions,
             reviewed : 0 .. MaxEdits]
Row == [active : BOOLEAN, desired : 0 .. MaxRevisions, running : 0 .. MaxRevisions,
        reported : BOOLEAN]

(* A run's scenarios stay within the bounds; "no row" is not a row.        *)
ASSUME ScenarioAssumption ==
    \A s \in Scenarios : s \in Scenario /\ s.ids <= MaxRevisions /\ s.edits \in 1 .. MaxEdits
ASSUME NoneAssumption == None \notin Revision /\ None \notin Row /\ None \notin Devices

Idle == [op |-> "idle"]
Request == {Idle}
    \cup [op : {"publish"}, id : Ids, schema : Lanes, cfg : Configs, reviewed : 0 .. MaxEdits]
    \cup [op : {"rollback"}, id : Ids, schema : Lanes, cfg : Configs, source : Ids,
          ver : 1 .. MaxEdits]
    \cup [op : {"upload", "delete", "unlink"}, prompt : Prompts]
    \cup [op : {"enroll", "enrolled"}, device : Devices, desired : 0 .. MaxRevisions]

(* A handler may start beside another only if both are of overlapping      *)
(* kinds: an operator who works alone sends one request after the other.   *)
KindOf(op) == CASE op = "unlink" -> "delete" [] op = "enrolled" -> "enroll" [] OTHER -> op

MayStart(a, kind) ==
    /\ kind \in scene.kinds /\ request[a] = Idle
    /\ \A b \in Clients :
          request[b] # Idle => {kind, KindOf(request[b].op)} \subseteq scene.overlapping

Published == {r \in Ids : revs[r] # None}
Latest == IF Published = {} THEN 0 ELSE CHOOSE r \in Published : \A s \in Published : s <= r
ActiveDevices == {d \in Devices : device[d] # None /\ device[d].active}

(* prompts_for_configuration: the prompts whose row exists.                *)
Validates(cfg) == \A p \in cfg : prompt[p].row

(* A device's status says which runtimes it has only after its first sync; *)
(* until then it counts as [1, 2].                                         *)
Supports(d, schema) == device[d].reported \/ schema \in {1, 2}

RequireCapabilities(schema) ==
    /\ \A d \in ActiveDevices : Supports(d, schema)
    /\ schema = 4 => ActiveDevices # {}

Assign(r) == [d \in Devices |-> IF d \in ActiveDevices THEN [device[d] EXCEPT !.desired = r]
                                                       ELSE device[d]]

----------------------------------------------------------------------------
(* Drafts *)

Version(lane) == Len(draft[lane])
Content(lane) == draft[lane][Version(lane)]

(* Slip: a retried save is stored a second time.                           *)
StoreDraftTwice(lane, ver, cfg) ==
    /\ Version(lane) = ver /\ ver < scene.edits
    /\ draft' = [draft EXCEPT ![lane] = @ \o <<cfg, cfg>>]

(* store_draft_v3, store_draft_v4 on the locked row: the version the       *)
(* caller worked from must still be the draft's.                           *)
StoreDraft(lane, ver, cfg) ==
    /\ Version(lane) = ver /\ ver < scene.edits
    /\ draft' = [draft EXCEPT ![lane] = Append(@, cfg)]

(* PUT draft: the row stays locked from the check to the commit.  ver is   *)
(* the version the editor loaded.                                          *)
PutDraft(a, lane, ver, cfg) ==
    /\ MayStart(a, "save") /\ lane = scene.lane
    /\ StoreDraft(lane, ver, cfg)
    /\ UNCHANGED <<prompt, revs, nextId, request, device, code, scene, tabletVars>>

----------------------------------------------------------------------------
(* Revisions.  The row is inserted as "pending", which draws its id, and   *)
(* signed in the same transaction, so nobody sees it before it is signed.  *)

CreateRevision(a, r) ==
    /\ nextId <= scene.ids
    /\ nextId' = nextId + 1
    /\ request' = [request EXCEPT ![a] = r]

(* POST draft/publish of V4.  A dashboard sends the version its operator   *)
(* reviewed (and the revision it was compared with, which is only checked  *)
(* here); the body is optional, and without it (0) nothing is compared.    *)
PublishDraftV4(a, reviewed) ==
    /\ MayStart(a, "publish") /\ scene.lane = 4
    /\ reviewed \in {0, Version(4)}
    /\ Validates(Content(4))
    /\ RequireCapabilities(4)
    /\ CreateRevision(a, [op |-> "publish", id |-> nextId, schema |-> 4, cfg |-> Content(4),
                          reviewed |-> reviewed])
    /\ UNCHANGED <<draft, prompt, revs, device, code, scene, tabletVars>>

PublishDraftV3(a) ==
    /\ MayStart(a, "publish") /\ scene.lane = 3
    /\ Validates(Content(3))
    /\ RequireCapabilities(3)
    /\ CreateRevision(a, [op |-> "publish", id |-> nextId, schema |-> 3, cfg |-> Content(3),
                          reviewed |-> 0])
    /\ UNCHANGED <<draft, prompt, revs, device, code, scene, tabletVars>>

RollBack(a, lane, source) ==
    /\ MayStart(a, "rollback") /\ lane = scene.lane
    /\ Version(lane) < scene.edits
    /\ source \in Published /\ revs[source].schema = lane
    /\ Validates(revs[source].cfg)
    /\ RequireCapabilities(lane)
    /\ CreateRevision(a, [op |-> "rollback", id |-> nextId, schema |-> lane,
                          cfg |-> revs[source].cfg, source |-> source, ver |-> Version(lane)])
    /\ UNCHANGED <<draft, prompt, revs, device, code, scene, tabletVars>>

RollbackV3(a, source) == RollBack(a, 3, source)
RollbackV4(a, source) == RollBack(a, 4, source)

(* Slip: the draft is read again when the revision is signed.              *)
PublishedConfigAtCommit(q) == Content(q.schema)

(* The commit of a publish: the configuration that was read is the one     *)
(* that is signed, and every active device is pointed at it.               *)
PublishedConfig(q) == q.cfg

CommitPublish(a) ==
    LET q == request[a] IN
    /\ q.op = "publish"
    /\ revs' = [revs EXCEPT ![q.id] = [schema |-> q.schema, cfg |-> PublishedConfig(q),
                                       source |-> 0, reviewed |-> q.reviewed]]
    /\ device' = Assign(q.id)
    /\ request' = [request EXCEPT ![a] = Idle]
    /\ UNCHANGED <<draft, prompt, nextId, code, scene, tabletVars>>

(* The commit of a rollback stores the draft too; a draft saved meanwhile  *)
(* raises DraftConflictError and the whole transaction is rolled back.     *)
CommitRollback(a) ==
    LET q == request[a] IN
    /\ q.op = "rollback"
    /\ StoreDraft(q.schema, q.ver, q.cfg)
    /\ revs' = [revs EXCEPT ![q.id] = [schema |-> q.schema, cfg |-> q.cfg,
                                       source |-> q.source, reviewed |-> 0]]
    /\ device' = Assign(q.id)
    /\ request' = [request EXCEPT ![a] = Idle]
    /\ UNCHANGED <<prompt, nextId, code, scene, tabletVars>>

ConflictRollback(a) ==
    /\ request[a].op = "rollback" /\ Version(request[a].schema) # request[a].ver
    /\ request' = [request EXCEPT ![a] = Idle]
    /\ UNCHANGED <<draft, prompt, revs, nextId, device, code, scene, tabletVars>>

(* Rolling back to a revision of an archived schema reassigns it as it is. *)
Reassign(a, source) ==
    /\ MayStart(a, "reassign")
    /\ device' = Assign(source)
    /\ UNCHANGED <<draft, prompt, revs, nextId, request, code, scene, tabletVars>>

(* rollback_revision, activate_legacy_revision and V3's endpoint ask       *)
(* nothing of the devices; V4's does.                                      *)
ActivateLegacy(a, source) ==
    /\ source \in Published /\ revs[source].schema \in {1, 2}
    /\ Reassign(a, source)

ActivateImmutable(a, source) ==
    /\ source \in Published /\ revs[source].schema \in 1 .. 3
    /\ RequireCapabilities(revs[source].schema)
    /\ Reassign(a, source)

----------------------------------------------------------------------------
(* Prompts.  The media file is named by its content.                       *)

(* import_prompt looks for the content among the rows, moves the new file  *)
(* into place, and then inserts the row.                                   *)
UploadPrompt(a, p) ==
    /\ MayStart(a, "upload") /\ ~prompt[p].row
    /\ prompt' = [prompt EXCEPT ![p].file = TRUE]
    /\ request' = [request EXCEPT ![a] = [op |-> "upload", prompt |-> p]]
    /\ UNCHANGED <<draft, revs, nextId, device, code, scene, tabletVars>>

(* A row with the same content committed meanwhile violates the unique     *)
(* key, and the failed upload unlinks the file both rows name.             *)
CommitUpload(a) ==
    /\ request[a].op = "upload"
    /\ prompt' = [prompt EXCEPT ![request[a].prompt] =
                     IF @.row THEN [@ EXCEPT !.file = FALSE] ELSE [@ EXCEPT !.row = TRUE]]
    /\ request' = [request EXCEPT ![a] = Idle]
    /\ UNCHANGED <<draft, revs, nextId, device, code, scene, tabletVars>>

(* Slip: only the drafts are searched.                                     *)
PromptInUseByDraft(p) == \E l \in Lanes : p \in Content(l)

PromptInUse(p) == (\E l \in Lanes : p \in Content(l)) \/ (\E r \in Published : p \in revs[r].cfg)

DeletePrompt(a, p) ==
    /\ MayStart(a, "delete")
    /\ prompt[p].row /\ ~PromptInUse(p)
    /\ request' = [request EXCEPT ![a] = [op |-> "delete", prompt |-> p]]
    /\ UNCHANGED <<draft, prompt, revs, nextId, device, code, scene, tabletVars>>

CommitDelete(a) ==
    /\ request[a].op = "delete"
    /\ prompt' = [prompt EXCEPT ![request[a].prompt].row = FALSE]
    /\ request' = [request EXCEPT ![a].op = "unlink"]
    /\ UNCHANGED <<draft, revs, nextId, device, code, scene, tabletVars>>

UnlinkPrompt(a) ==
    /\ request[a].op = "unlink"
    /\ prompt' = [prompt EXCEPT ![request[a].prompt].file = FALSE]
    /\ request' = [request EXCEPT ![a] = Idle]
    /\ UNCHANGED <<draft, revs, nextId, device, code, scene, tabletVars>>

----------------------------------------------------------------------------
(* Pairing and enrolment *)

CreatePairingCode ==
    /\ ~code /\ \E d \in Devices : device[d] = None
    /\ code' = TRUE
    /\ UNCHANGED <<draft, prompt, revs, nextId, request, device, scene, tabletVars>>

ExpirePairingCode ==
    /\ code
    /\ code' = FALSE
    /\ UNCHANGED <<draft, prompt, revs, nextId, request, device, scene, tabletVars>>

(* A valid code enrols one tablet, and only when no other is active; it is *)
(* assigned the latest revision whatever its runtime.                      *)
EnrollDevice(a, d) ==
    /\ MayStart(a, "enroll")
    /\ code /\ ActiveDevices = {} /\ device[d] = None
    /\ request' = [request EXCEPT ![a] = [op |-> "enroll", device |-> d, desired |-> Latest]]
    /\ UNCHANGED <<draft, prompt, revs, nextId, device, code, scene, tabletVars>>

CommitEnrollment(a) ==
    LET q == request[a] IN
    /\ q.op = "enroll"
    /\ device' = [device EXCEPT ![q.device] = [active |-> TRUE, desired |-> q.desired,
                                               running |-> 0, reported |-> FALSE]]
    /\ code' = FALSE
    /\ request' = [request EXCEPT ![a].op = "enrolled"]
    /\ UNCHANGED <<draft, prompt, revs, nextId, scene, tabletVars>>

RevokeDevice(a, d) ==
    /\ MayStart(a, "revoke") /\ device[d] # None
    /\ device[d].active
    /\ device' = [device EXCEPT ![d].active = FALSE]
    /\ UNCHANGED <<draft, prompt, revs, nextId, request, code, scene, tabletVars>>

----------------------------------------------------------------------------
(* lifespan: the V3 draft is promoted from the archived one and cloned     *)
(* into the V4 lane; older signed revisions stay.                          *)
ServerInit ==
    /\ \E cfg \in Configs :
          /\ draft = [l \in Lanes |-> <<cfg>>]
          /\ prompt = [p \in Prompts |-> [row |-> p \in cfg, file |-> p \in cfg]]
          /\ \E s \in LegacySchemas :
                revs = [r \in Ids |-> IF r = 1 THEN [schema |-> s, cfg |-> cfg, source |-> 0,
                                                     reviewed |-> 0] ELSE None]
    /\ nextId = 2
    /\ request = [a \in Clients |-> Idle]
    /\ device = [d \in Devices |-> None]
    /\ code = FALSE
    /\ scene \in Scenarios

Commits(a) ==
    CommitPublish(a) \/ CommitRollback(a) \/ ConflictRollback(a) \/ CommitUpload(a)
        \/ CommitDelete(a) \/ UnlinkPrompt(a) \/ CommitEnrollment(a)
=============================================================================
