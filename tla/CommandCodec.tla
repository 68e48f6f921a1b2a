---------------------------- MODULE CommandCodec ----------------------------
(***************************************************************************)
(* What an entry of the log carries: the envelope of a replicated command, *)
(* the commands, batches, receipts and snapshots of the key-value and the  *)
(* graph store, and the change of a configuration.  Nodes compare payloads *)
(* by their hash, so an encoding has to be the only one of its command.    *)
(***************************************************************************)
EXTENDS TokenCodec

\* Magics; the last ones carry their version with them.
Mark == [QCMD |-> 2001, QCFG |-> 2002, QMEM |-> 2003, RHKS |-> 2004, RHGS |-> 2005,
         RHKV |-> 2006, RHKB |-> 2007, RHKR |-> 2008,
         RHGC |-> 2009, RHGB |-> 2010, RHGR |-> 2011]

\* Bounds (MAX_REQUEST_ID_BYTES, MAX_KV_KEY_BYTES, MAX_KV_VALUE_BYTES,
\* MAX_DOCUMENT_ID_BYTES, MAX_STRING_BYTES, MAX_BLOB_BYTES and the batches').
MaxRequestId == 2
MaxKey == 2
MaxContent == 2
MaxMembers == 2

\* A format that starts with a magic and has no digest.
Marked(mark, layout, s) ==
    IF s = <<>> THEN Unreadable
    ELSE IF Head(s) # mark THEN Unreadable ELSE ReadAll(layout, Tail(s))

(***************************************************************************)
(* The envelope: both lengths stand before both contents                   *)
(***************************************************************************)
SqlProfile == 1
GraphProfile == 2
KvProfile == 3

EnvelopeHeader == 6
ValidEnvelope(e) == e.command_version # 0 /\ e.request_id # <<>>

EncodeEnvelope(e) ==
    <<Mark.QCMD, 1, e.profile, e.command_version, Len(e.request_id), Len(e.body)>>
        \o e.request_id \o e.body

DecodeEnvelope(s) ==
    IF Len(s) < EnvelopeHeader \/ s[1] # Mark.QCMD \/ s[2] # 1 THEN Unreadable
    ELSE IF s[3] \notin {SqlProfile, GraphProfile, KvProfile} THEN Unreadable
    ELSE IF Len(s) # EnvelopeHeader + s[5] + s[6] THEN Unreadable
    ELSE Provided(Parsed([profile |-> s[3], command_version |-> s[4],
                          request_id |-> SubSeq(s, EnvelopeHeader + 1, EnvelopeHeader + s[5]),
                          body |-> After(s, EnvelopeHeader + s[5])], <<>>),
                  ValidEnvelope)

(***************************************************************************)
(* Commands of the key-value store: put is tag 1, delete tag 2             *)
(***************************************************************************)
EncodeKvCommand(c) ==
    LET layout ==
            <<Bytes("request_id"),
              Variant("operation", 1 :> <<Bytes("key"), Bytes("value")>> @@ 2 :> <<Bytes("key")>>)>>
    IN  <<Mark.RHKV>> \o Written(layout, c)

ValidKvCommand(c) ==
    /\ Len(c.request_id) \in 1 .. MaxRequestId
    /\ Len(c.operation.key) \in 1 .. MaxKey
    /\ c.operation.tag = 1 => Len(c.operation.value) <= MaxContent

DecodeKvCommand(s) ==
    LET layout ==
            <<Bytes("request_id"),
              Variant("operation", 1 :> <<Bytes("key"), Bytes("value")>> @@ 2 :> <<Bytes("key")>>)>>
    IN  Provided(Marked(Mark.RHKV, layout, s), ValidKvCommand)

(***************************************************************************)
(* Commands of the graph store                                             *)
(***************************************************************************)
\* A double is its bits: of the two zeros only the first is canonical, and
\* what is not finite is refused.
PositiveZero == 0
NegativeZero == 98
NotFinite == 99
CanonicalF64(bits) ==
    IF bits = NotFinite THEN Unreadable
    ELSE Parsed(IF bits = NegativeZero THEN PositiveZero ELSE bits, <<>>)

\* Null, false, true, i64, u64, f64, string, bytes.
GraphValueLayouts ==
    0 :> <<>> @@ 1 :> <<>> @@ 2 :> <<>> @@ 3 :> <<Number("number")>> @@
    4 :> <<Number("number")>> @@ 5 :> <<Number("bits")>> @@
    6 :> <<Bytes("content")>> @@ 7 :> <<Bytes("content")>>
GraphValueReadable(v) ==
    /\ v.tag = 5 => CanonicalF64(v.bits) = Parsed(v.bits, <<>>)
    /\ v.tag \in {6, 7} => Len(v.content) <= MaxContent

\* A put carries a value, a delete does not.
EncodeGraphCommand(c) ==
    LET layout ==
            <<Bytes("request_id"),
              Variant("operation", 1 :> <<Bytes("id"), Variant("value", GraphValueLayouts)>> @@
                                   2 :> <<Bytes("id")>>)>>
    IN  <<Mark.RHGC>> \o Written(layout, c)

ValidGraphCommand(c) ==
    /\ Len(c.request_id) \in 1 .. MaxRequestId
    /\ Len(c.operation.id) \in 1 .. MaxKey
    /\ c.operation.tag = 1 => GraphValueReadable(c.operation.value)

DecodeGraphCommand(s) ==
    LET layout ==
            <<Bytes("request_id"),
              Variant("operation", 1 :> <<Bytes("id"), Variant("value", GraphValueLayouts)>> @@
                                   2 :> <<Bytes("id")>>)>>
    IN  Provided(Marked(Mark.RHGC, layout, s),
                 LAMBDA c : ValidGraphCommand(c) /\ EncodeGraphCommand(c) = s)

(***************************************************************************)
(* One command, or a batch of several, in an envelope                      *)
(***************************************************************************)
BatchRequestId == <<50>>
BatchVersion == 2

EncodeReplicatedKvCommand(c) ==
    EncodeEnvelope([profile |-> KvProfile, command_version |-> 1,
                    request_id |-> c.request_id, body |-> EncodeKvCommand(c)])
EncodeReplicatedGraphCommand(c) ==
    EncodeEnvelope([profile |-> GraphProfile, command_version |-> 1,
                    request_id |-> c.request_id, body |-> EncodeGraphCommand(c)])

ValidBatch(commands) ==
    /\ Len(commands) \in 1 .. MaxMembers
    /\ \A i, j \in DOMAIN commands :
          commands[i].request_id = commands[j].request_id => i = j

BatchOf(profile, mark, encoded) ==
    EncodeEnvelope([profile |-> profile, command_version |-> BatchVersion,
                    request_id |-> BatchRequestId,
                    body |-> <<mark>> \o Written(<<Many("members", <<Bytes("bytes")>>)>>,
                                                 [members |-> encoded])])
EncodeReplicatedKvBatch(commands) ==
    BatchOf(KvProfile, Mark.RHKB,
            [i \in DOMAIN commands |-> [bytes |-> EncodeKvCommand(commands[i])]])
EncodeReplicatedGraphBatch(commands) ==
    BatchOf(GraphProfile, Mark.RHGB,
            [i \in DOMAIN commands |-> [bytes |-> EncodeGraphCommand(commands[i])]])

\* The commands of a payload, each with the payload it would have had alone:
\* receipts are kept under the hash of that one.  Decode and EncodeAlone are
\* those of the store's command, EncodeBatch that of its batch.
DecodeMembers(payload, profile, mark, Decode(_), EncodeAlone(_), EncodeBatch(_)) ==
    LET e == DecodeEnvelope(payload)
        alone == Decode(e.value.body)
        p == Marked(mark, <<Many("members", <<Bytes("bytes")>>)>>, e.value.body)
        members == [i \in DOMAIN p.value.members |-> Decode(p.value.members[i].bytes)]
        commands == [i \in DOMAIN members |-> members[i].value]
        each(cs) == [i \in DOMAIN cs |-> [command |-> cs[i], payload |-> EncodeAlone(cs[i])]]
    IN  IF ~ e.ok THEN Unreadable
        ELSE IF e.value.profile # profile THEN Unreadable
        ELSE IF e.value.command_version = 1
        THEN IF ~ alone.ok THEN Unreadable
             ELSE IF alone.value.request_id # e.value.request_id THEN Unreadable
             ELSE Parsed(<<[command |-> alone.value, payload |-> payload]>>, <<>>)
        ELSE IF e.value.command_version # BatchVersion THEN Unreadable
        ELSE IF e.value.request_id # BatchRequestId \/ ~ p.ok THEN Unreadable
        ELSE IF \E i \in DOMAIN members : ~ members[i].ok THEN Unreadable
        ELSE IF ~ ValidBatch(commands) \/ EncodeBatch(commands) # payload THEN Unreadable
        ELSE Parsed(each(commands), <<>>)

DecodeReplicatedKvCommands(payload) ==
    DecodeMembers(payload, KvProfile, Mark.RHKB, DecodeKvCommand,
                  EncodeReplicatedKvCommand, EncodeReplicatedKvBatch)
DecodeReplicatedGraphCommands(payload) ==
    DecodeMembers(payload, GraphProfile, Mark.RHGB, DecodeGraphCommand,
                  EncodeReplicatedGraphCommand, EncodeReplicatedGraphBatch)

(***************************************************************************)
(* Receipts and results: put is tag 1, delete tag 2                        *)
(***************************************************************************)
ResultLayout ==
    Variant("result", 1 :> <<Optional("flag", <<>>)>> @@ 2 :> <<Optional("flag", <<>>)>>)

EncodeKvReceipt(r) ==
    <<Mark.RHKR>> \o
    Written(Numbers(<<"payload_hash", "log_index", "log_hash">>) \o <<ResultLayout>>, r)
DecodeKvReceipt(s) ==
    Marked(Mark.RHKR, Numbers(<<"payload_hash", "log_index", "log_hash">>) \o <<ResultLayout>>, s)

EncodeGraphResult(r) == <<Mark.RHGR>> \o Written(<<ResultLayout>>, r)
DecodeGraphResult(s) == Marked(Mark.RHGR, <<ResultLayout>>, s)

(***************************************************************************)
(* Snapshots of the two stores                                             *)
(***************************************************************************)
StorageVersion == 40          \* lbug::get_storage_version
Fingerprint == [kv |-> 41, graph |-> 42]   \* of the binary's materializer

KvSnapshotDigest(n) ==
    Digest(<<Len(n.cluster_id)>> \o n.cluster_id \o <<Len(n.created_by)>> \o n.created_by \o
           <<n.epoch, n.config_id, n.applied_index, n.applied_hash, n.fingerprint,
             Len(n.db_bytes)>> \o n.db_bytes)
GraphSnapshotDigest(n) ==
    Digest(<<Len(n.cluster_id)>> \o n.cluster_id \o <<Len(n.created_by)>> \o n.created_by \o
           <<n.epoch, n.config_id, n.storage_version, n.applied_index, n.applied_hash,
             n.fingerprint, Len(n.db_bytes)>> \o n.db_bytes)

ValidKvSnapshot(n) ==
    /\ n.cluster_id # <<>> /\ n.created_by # <<>>
    /\ n.fingerprint = Fingerprint.kv
    /\ n.digest = KvSnapshotDigest(n)
ValidGraphSnapshot(n) ==
    /\ n.cluster_id # <<>> /\ n.created_by # <<>>
    /\ n.storage_version = StorageVersion
    /\ n.fingerprint = Fingerprint.graph
    /\ n.digest = GraphSnapshotDigest(n)

EncodeKvSnapshot(n) ==
    <<Mark.RHKS, 1>> \o
    Written(<<Bytes("cluster_id"), Bytes("created_by")>> \o
            Numbers(<<"epoch", "config_id", "applied_index", "applied_hash",
                      "fingerprint", "digest">>) \o <<Bytes("db_bytes")>>, n)
DecodeKvSnapshot(s) ==
    LET p == Marked(Mark.RHKS,
                    <<Number("version"), Bytes("cluster_id"), Bytes("created_by")>> \o
                    Numbers(<<"epoch", "config_id", "applied_index", "applied_hash",
                              "fingerprint", "digest">>) \o <<Bytes("db_bytes")>>, s)
    IN  Provided(p, LAMBDA n : n.version = 1 /\ ValidKvSnapshot(n))

EncodeGraphSnapshot(n) ==
    <<Mark.RHGS, 1>> \o
    Written(<<Bytes("cluster_id"), Bytes("created_by")>> \o
            Numbers(<<"epoch", "config_id", "applied_index", "applied_hash",
                      "storage_version", "fingerprint", "digest">>) \o
            <<Bytes("db_bytes")>>, n)
DecodeGraphSnapshot(s) ==
    LET p == Marked(Mark.RHGS,
                    <<Number("version"), Bytes("cluster_id"), Bytes("created_by")>> \o
                    Numbers(<<"epoch", "config_id", "applied_index", "applied_hash",
                              "storage_version", "fingerprint", "digest">>) \o
                    <<Bytes("db_bytes")>>, s)
    IN  Provided(p, LAMBDA n : n.version = 1 /\ ValidGraphSnapshot(n))

-----------------------------------------------------------------------------
(***************************************************************************)
(* The payload of a configuration change: the Stop of a configuration and  *)
(* the barrier that activates the next one, in the form that names only a  *)
(* configuration (version 1) and in the form bound to the description of   *)
(* the successor (version 2).                                              *)
(***************************************************************************)

(***************************************************************************)
(* The successor                                                           *)
(***************************************************************************)
MembershipDigest(members) ==
    Digest(<<Mark.QMEM, Len(members)>> \o
           FlattenSeq([i \in DOMAIN members |-> <<Len(members[i])>> \o members[i]]))

\* The names a successor may have: three to seven, in strict order.
CanonicalMembers(members) ==
    /\ Len(members) \in 3 .. 7
    /\ \A i \in DOMAIN members : members[i] # <<>>
    /\ Ascending(members)

\* SuccessorDescriptor::new sorts the names it is given; it refuses an unnamed
\* cluster, a configuration that does not follow its predecessor, and names
\* that are repeated, empty, too few or too many.
SuccessorOf(cluster, predecessor, predecessorDigest, config, names) ==
    LET members == SetToSortSeq(Range(names), Precedes)
    IN  IF /\ cluster # <<>> /\ config = predecessor + 1
           /\ Len(members) = Len(names) /\ CanonicalMembers(members)
        THEN Parsed([cluster_id |-> cluster, predecessor_config_id |-> predecessor,
                     predecessor_config_digest |-> predecessorDigest, config_id |-> config,
                     config_digest |-> MembershipDigest(members),
                     members |-> [i \in DOMAIN members |-> [name |-> members[i]]]], <<>>)
        ELSE Unreadable

SuccessorWritten ==
    <<Bytes("cluster_id")>> \o
    Numbers(<<"predecessor_config_id", "predecessor_config_digest",
              "config_id", "config_digest">>) \o <<Many("members", <<Bytes("name")>>)>>
SuccessorRead ==
    <<Bytes("cluster_id")>> \o
    Numbers(<<"predecessor_config_id", "predecessor_config_digest",
              "config_id", "config_digest">>) \o <<Many("members", <<Bytes("name")>>)>>

\* decode_successor builds the successor again: the names have to be in order
\* already, and the digest written the one of the names.
SuccessorReadable(r) ==
    LET names == [i \in DOMAIN r.members |-> r.members[i].name]
    IN  /\ CanonicalMembers(names)
        /\ SuccessorOf(r.cluster_id, r.predecessor_config_id, r.predecessor_config_digest,
                       r.config_id, names) = Parsed(r, <<>>)

(***************************************************************************)
(* The change                                                              *)
(***************************************************************************)
ConfigChangeType == 2       \* EntryType::ConfigChange

\* Kind 1 is a Stop, kind 2 an activation barrier.
ChangeWritten(version) ==
    IF version = 2
    THEN 1 :> <<Part("successor", SuccessorWritten)>> @@
         2 :> <<Part("successor", SuccessorWritten)>> \o
              Numbers(<<"stop_slot", "prefix_hash", "stop_command_hash">>)
    ELSE 1 :> Numbers(<<"config_id", "config_digest">>) @@
         2 :> Numbers(<<"config_id", "config_digest", "stop_slot", "prefix_hash">>)

ToStoredCommand(change) ==
    [entry_type |-> ConfigChangeType,
     payload |-> <<Mark.QCFG, change.version, change.kind>> \o
                 Written(ChangeWritten(change.version)[change.kind], change)]

ChangeRead(version) ==
    IF version = 2
    THEN 1 :> <<Part("successor", SuccessorRead)>> @@
         2 :> <<Part("successor", SuccessorRead)>> \o
              Numbers(<<"stop_slot", "prefix_hash", "stop_command_hash">>)
    ELSE 1 :> Numbers(<<"config_id", "config_digest">>) @@
         2 :> Numbers(<<"config_id", "config_digest", "stop_slot", "prefix_hash">>)

RecognizeParts(type, s) ==
    IF \/ type # ConfigChangeType \/ Len(s) < 3 \/ Head(s) # Mark.QCFG
       \/ s[2] \notin {1, 2} \/ s[3] \notin {1, 2}
    THEN Unreadable
    ELSE LET p == ReadAll(ChangeRead(s[2])[s[3]], After(s, 3))
         IN  IF ~ p.ok THEN Unreadable
             ELSE IF s[2] = 2 THEN Provided(Parsed([version |-> s[2], kind |-> s[3]] @@ p.value, <<>>),
                                            LAMBDA c : SuccessorReadable(c.successor))
             ELSE Parsed([version |-> s[2], kind |-> s[3]] @@ p.value, <<>>)

\* The configuration a change is an entry of: a Stop ends the predecessor, a
\* barrier belongs to the successor.
Binding(change) ==
    IF change.version = 1 THEN <<change.config_id, change.config_digest>>
    ELSE IF change.kind = 1
    THEN <<change.successor.predecessor_config_id, change.successor.predecessor_config_digest>>
    ELSE <<change.successor.config_id, change.successor.config_digest>>
=============================================================================
