-------------------------- MODULE MCRecordingServer --------------------------
(* Instances of RecordingServer for TLC. *)
EXTENDS RecordingServer, TLC

\* Sources of two chunks, segments of one: an MP3 of three is larger.
Scene(kind, parts, other, dangers, quota, size, failures) ==
    [kind |-> kind, parts |-> parts, other |-> other, dangers |-> dangers,
     quota |-> quota, mp3 |-> [target |-> size, other |-> 1], faults |-> failures]

Uploads == {
    Scene("voicemail", {0}, "kept", {"stale"}, 4, 3, 2),
    Scene("voicemail", {0}, "new", {}, 3, 1, 2),
    Scene("voicemail", {0}, "new", {}, 4, 3, 1),
    Scene("conversation", {0, 1}, "kept", {}, 4, 1, 2),
    Scene("conversation", {0, 1}, "new", {}, 4, 3, 0),
    Scene("conversation", {0}, "kept", {}, 4, 3, 2),
    Scene("audit", {0, 1}, "kept", {"stale"}, 4, 1, 0),
    Scene("audit", {0, 1}, "kept", {}, 4, 3, 2),
    Scene("continuous", {0}, "kept", {"sweep", "late"}, 4, 1, 1),
    Scene("continuous", {0}, "kept", {"sweep"}, 4, 3, 2),
    Scene("continuous", {0}, "new", {}, 4, 3, 0)}

VoicemailSwept == {Scene("voicemail", {0}, "kept", {"sweep"}, 4, 1, 0)}
ConversationRestarted == {Scene("conversation", {0, 1}, "kept", {}, 4, 1, 1)}
=============================================================================
