--------------------------- MODULE RecorderCodec ----------------------------
(***************************************************************************)
(* What a recorder writes to its files and how it reads it back: a slot's  *)
(* state (QREC), the configuration (QCON), a command (QCMD), the durable   *)
(* head (QRHD), the two intents (QINT, QCHI) and a frame of the write-     *)
(* ahead log (QWAL).  RecorderStore treats a file as a value: these are    *)
(* the codecs that make it one.                                            *)
(***************************************************************************)
EXTENDS TokenCodec

Magic == [QCON |-> 1001, QREC |-> 1002, QCMD |-> 1003, QRHD |-> 1004,
          QINT |-> 1005, QCHI |-> 1006, QWAL |-> 1007, QMEM |-> 1008, QDC1 |-> 1009]
ConfigurationVersion == 3
RecorderVersion == 4
RecordedHeadVersion == 3

(***************************************************************************)
(* Values, ballots, proposals, summaries, certificates and proofs          *)
(***************************************************************************)
ValueWritten == Numbers(<<"command_hash", "prev_hash", "entry_hash">>)
ValueRead == Numbers(<<"command_hash", "prev_hash", "entry_hash">>)

BallotWritten == <<Number("round"), Number("priority"), Bytes("proposer_id")>>
BallotRead == <<Number("round"), Number("priority"), Bytes("proposer_id")>>

ProposalWritten ==
    <<Number("priority"), Bytes("proposer_id"), Number("proposal_id"),
      Optional("value", ValueWritten)>>
ProposalRead ==
    <<Number("priority"), Bytes("proposer_id"), Number("proposal_id"),
      Optional("value", ValueRead)>>

SummaryWritten ==
    <<Bytes("recorder_id"), Number("slot"), Number("step"),
      Optional("first_current", ProposalWritten),
      Optional("aggregate_prior", ProposalWritten)>>
SummaryRead ==
    <<Bytes("recorder_id"), Number("slot"), Number("step"),
      Optional("first_current", ProposalRead),
      Optional("aggregate_prior", ProposalRead)>>

CertificateWritten ==
    Numbers(<<"slot", "epoch", "config_id", "config_digest">>) \o
    <<Part("ballot", BallotWritten), Part("value", ValueWritten),
      Many("recorder_ids", <<Bytes("id")>>)>>
CertificateRead ==
    Numbers(<<"slot", "epoch", "config_id", "config_digest">>) \o
    <<Part("ballot", BallotRead), Part("value", ValueRead),
      Many("recorder_ids", <<Bytes("id")>>)>>

\* Tag 1 is FastPath, for which the step written is the constant 4; tag 2 is
\* Phase2.  The proposal is written as an option that is present.
FastPathStep == 4
ProofWritten ==
    LET fields == <<Bytes("cluster_id")>> \o
                  Numbers(<<"slot", "epoch", "config_id", "config_digest", "step">>) \o
                  <<Optional("proposal", ProposalWritten),
                    Many("summaries", SummaryWritten)>>
    IN  Variant("decided_proof", 0 :> <<>> @@ 1 :> fields @@ 2 :> fields)
ProofRead ==
    LET fields == <<Bytes("cluster_id")>> \o
                  Numbers(<<"slot", "epoch", "config_id", "config_digest", "step">>) \o
                  <<Optional("proposal", ProposalRead), Many("summaries", SummaryRead)>>
    IN  Variant("decided_proof", 0 :> <<>> @@ 1 :> fields @@ 2 :> fields)
ProofReadable(proof) ==
    proof.tag # 0 =>
        /\ proof.proposal.tag = 1
        /\ proof.tag = 1 => proof.step = FastPathStep

(***************************************************************************)
(* Memberships, commands and the value a command has in a slot             *)
(***************************************************************************)
\* Names sorted; membership holds them without their order mattering.
Canonical(members) == SetToSortSeq(Range(members), Precedes)

CanonicalMembershipDigest(members) ==
    Digest(<<Magic.QMEM, Len(members)>> \o
           FlattenSeq([i \in DOMAIN members |-> <<Len(members[i])>> \o members[i]]))

ValidVoters(members) ==
    /\ Len(members) \in 3 .. 7
    /\ \A i \in DOMAIN members : members[i] # <<>>
    /\ Cardinality(Range(members)) = Len(members)

QuorumSize(members) == Len(members) \div 2 + 1

EntryTypes == 1 .. 5     \* Command, ConfigChange, two snapshot kinds, Noop

EncodeStoredCommand(command) ==
    WithDigest(Magic.QCMD, 1, Written(<<Number("entry_type"), Bytes("payload")>>, command))
DecodeStoredCommand(s) ==
    Provided(UnderDigest(Magic.QCMD, 1, <<Number("entry_type"), Bytes("payload")>>, s),
             LAMBDA c : c.entry_type \in EntryTypes)

CommandHash(command) == Digest(<<Magic.QCMD, command.entry_type>> \o command.payload)

CalculateHash(cluster, slot, epoch, config, type, prev, payload) ==
    Digest(<<Len(cluster)>> \o cluster \o
           <<slot, epoch, config, type, prev, Digest(payload)>>)

FromCommand(cluster, slot, epoch, config, prev, command) ==
    [command_hash |-> CommandHash(command),
     prev_hash    |-> prev,
     entry_hash   |-> CalculateHash(cluster, slot, epoch, config,
                                    command.entry_type, prev, command.payload)]

(***************************************************************************)
(* The certificate kept of a proof                                         *)
(***************************************************************************)
\* A priority has 32 bytes, of which a ballot keeps the last 16.
HalfPriority == 16

EncodeCertificateProposer(cluster, proposer) ==
    <<Magic.QDC1, Len(cluster)>> \o cluster \o proposer
DecodeCertificateProposer(s) ==
    IF Len(s) < 2 \/ s[1] # Magic.QDC1 \/ s[2] > Len(s) - 2 THEN Unreadable
    ELSE Parsed(SubSeq(s, 3, 2 + s[2]), After(s, 2 + s[2]))

ProofContext(proof) == <<proof.slot, proof.epoch, proof.config_id, proof.config_digest>>

CertificateFromProof(proof) ==
    [slot |-> proof.slot, epoch |-> proof.epoch,
     config_id |-> proof.config_id, config_digest |-> proof.config_digest,
     ballot |-> [round |-> proof.proposal.proposal_id,
                 priority |-> proof.proposal.priority % HalfPriority,
                 proposer_id |-> EncodeCertificateProposer(proof.cluster_id,
                                                           proof.proposal.proposer_id)],
     value |-> [f \in {"command_hash", "prev_hash", "entry_hash"} |->
                   proof.proposal.value[f]],
     recorder_ids |-> [i \in DOMAIN proof.summaries |->
                          [id |-> proof.summaries[i].recorder_id]]]

\* DecisionCertificate::validate_for_cluster with the ones it calls.
CertificateValidFor(certificate, cluster, config, members) ==
    LET ids == [i \in DOMAIN certificate.recorder_ids |-> certificate.recorder_ids[i].id]
        proposer == DecodeCertificateProposer(certificate.ballot.proposer_id)
    IN  /\ proposer.ok /\ proposer.value = cluster
        /\ certificate.config_id = config
        /\ certificate.config_digest = CanonicalMembershipDigest(members)
        /\ Len(ids) = QuorumSize(members)
        /\ Ascending(ids)
        /\ Range(ids) \subseteq Range(members)

(***************************************************************************)
(* A slot's state                                                          *)
(***************************************************************************)
EncodeRecorderState(state) ==
    LET layout ==
            Numbers(<<"slot", "epoch", "config_id", "config_digest">>) \o
            <<Bytes("cluster_id"),
              Optional("highest_promised", BallotWritten),
              Optional("accepted", <<Part("ballot", BallotWritten), Part("value", ValueWritten)>>),
              Optional("decided", CertificateWritten),
              Number("step"),
              Optional("first_current", ProposalWritten),
              Optional("aggregate_current", ProposalWritten),
              Optional("aggregate_prior", ProposalWritten),
              ProofWritten>>
    IN  WithDigest(Magic.QREC, RecorderVersion, Written(layout, state))

BallotKey(ballot) == <<ballot.round, ballot.priority>> \o ballot.proposer_id

\* The conditions of decode_recorder_state on the fields it has read: the
\* accepted ballot is not above the promise, a certificate is of this slot and
\* configuration, a proof too and of the certificate's value.
StateReadable(state) ==
    LET context == <<state.slot, state.epoch, state.config_id, state.config_digest>>
        decided == state.decided
        proof == state.decided_proof
    IN  /\ ProofReadable(proof)
        /\ state.accepted.tag = 1 =>
              /\ state.highest_promised.tag = 1
              /\ ~ Precedes(BallotKey(state.highest_promised),
                            BallotKey(state.accepted.ballot))
        /\ decided.tag = 1 => ProofContext(decided) = context
        /\ proof.tag # 0 =>
              /\ ProofContext(proof) = context
              /\ proof.cluster_id = state.cluster_id
              /\ decided.tag = 1
              /\ proof.proposal.value = Some(decided.value)

DecodeRecorderState(s) ==
    LET layout == Numbers(<<"slot", "epoch", "config_id", "config_digest">>) \o
                  <<Bytes("cluster_id"),
                    Optional("highest_promised", BallotRead),
                    Optional("accepted", <<Part("ballot", BallotRead), Part("value", ValueRead)>>),
                    Optional("decided", CertificateRead),
                    Number("step"),
                    Optional("first_current", ProposalRead),
                    Optional("aggregate_current", ProposalRead),
                    Optional("aggregate_prior", ProposalRead),
                    ProofRead>>
    IN  Provided(UnderDigest(Magic.QREC, RecorderVersion, layout, s), StateReadable)

\* Every value the state mentions: its command has to be at hand.
RecorderStateValues(state) ==
    LET valueOf(p) == IF p.tag = 0 THEN Nothing ELSE p.value
        mentioned == {IF state.accepted.tag = 0 THEN Nothing ELSE Some(state.accepted.value),
                      IF state.decided.tag = 0 THEN Nothing ELSE Some(state.decided.value),
                      valueOf(state.first_current), valueOf(state.aggregate_current),
                      valueOf(state.aggregate_prior),
                      IF state.decided_proof.tag = 0 THEN Nothing
                      ELSE state.decided_proof.proposal.value}
    IN  {v \in mentioned : v.tag = 1}

(***************************************************************************)
(* The configuration                                                       *)
(***************************************************************************)
SealWritten == Numbers(<<"stop_slot", "command_hash", "prefix_hash">>)
SealRead == Numbers(<<"stop_slot", "command_hash", "prefix_hash">>)

EncodeConfigurationState(configuration) ==
    LET layout == Numbers(<<"config_id", "config_digest">>) \o
                  <<Optional("activated", <<>>),
                    Optional("max_slot", <<Number("slot")>>),
                    Many("members", <<Bytes("name")>>),
                    Optional("predecessor", SealWritten),
                    Optional("seal", SealWritten)>>
    IN  WithDigest(Magic.QCON, ConfigurationVersion, Written(layout, configuration))

NamesOf(items) == [i \in DOMAIN items |-> items[i].name]
Named(names) == [i \in DOMAIN names |-> [name |-> names[i]]]

\* No member at all stands for an unknown membership; any other number has to
\* be a membership and to have the digest of the configuration.
DecodeConfigurationState(s) ==
    LET layout == Numbers(<<"config_id", "config_digest">>) \o
                  <<Optional("activated", <<>>),
                    Optional("max_slot", <<Number("slot")>>),
                    Many("members", <<Bytes("name")>>),
                    Optional("predecessor", SealRead),
                    Optional("seal", SealRead)>>
        p == Provided(UnderDigest(Magic.QCON, ConfigurationVersion, layout, s),
                      LAMBDA c : c.members # <<>> =>
                          /\ ValidVoters(NamesOf(c.members))
                          /\ CanonicalMembershipDigest(Canonical(NamesOf(c.members)))
                               = c.config_digest)
    IN  IF p.ok
        THEN [p EXCEPT !.value.members = Named(Canonical(NamesOf(p.value.members)))]
        ELSE Unreadable

(***************************************************************************)
(* The durable head                                                        *)
(***************************************************************************)
\* Empty, SlotBacked, CheckpointBacked.
HeadProvenanceWritten ==
    Variant("head", 0 :> <<>> @@ 1 :> <<Number("slot")>> @@
        2 :> Numbers(<<"stop_slot", "prefix_hash", "recovered_tip", "recovered_hash">>))
HeadProvenanceRead ==
    Variant("head", 0 :> <<>> @@ 1 :> <<Number("slot")>> @@
        2 :> Numbers(<<"stop_slot", "prefix_hash", "recovered_tip", "recovered_hash">>))

MaxRecentSlots == 2

EncodeRecordedHead(head) ==
    LET layout == <<Bytes("cluster_id")>> \o Numbers(<<"epoch", "config_id", "config_digest">>) \o
                  <<HeadProvenanceWritten, Number("generation"), Number("through_sequence"),
                    Many("recent", <<Number("slot"), Bytes("bytes")>>)>>
    IN  WithDigest(Magic.QRHD, RecordedHeadVersion, Written(layout, head))

DecodeRecordedHead(s, cluster, epoch, configuration) ==
    LET layout == <<Bytes("cluster_id")>> \o Numbers(<<"epoch", "config_id", "config_digest">>) \o
                  <<HeadProvenanceRead, Number("generation"), Number("through_sequence"),
                    Many("recent", <<Number("slot"), Bytes("bytes")>>)>>
    IN  Provided(UnderDigest(Magic.QRHD, RecordedHeadVersion, layout, s),
                 LAMBDA h :
                     /\ h.cluster_id = cluster /\ h.epoch = epoch
                     /\ h.config_id = configuration.config_id
                     /\ h.config_digest = configuration.config_digest
                     /\ h.generation # 0
                     /\ Len(h.recent) <= MaxRecentSlots
                     /\ \A i, j \in DOMAIN h.recent : h.recent[i].slot = h.recent[j].slot => i = j)

-----------------------------------------------------------------------------
(***************************************************************************)
(* The two intents of a recorder, the frames of its write-ahead log and    *)
(* what an opening recorder checks of the slot states it finds.            *)
(***************************************************************************)

(***************************************************************************)
(* Intents                                                                 *)
(***************************************************************************)
EncodeTransitionIntent(intent) ==
    WithDigest(Magic.QINT, 1,
               Written(<<Number("slot"), Bytes("slot_bytes"), Bytes("configuration_bytes")>>, intent))
DecodeTransitionIntent(s) ==
    UnderDigest(Magic.QINT, 1,
             <<Number("slot"), Bytes("slot_bytes"), Bytes("configuration_bytes")>>, s)

\* No digest of its own: the configuration and the head carry theirs.
EncodeConfigurationHeadIntent(intent) ==
    <<Magic.QCHI, 1>> \o Written(<<Bytes("configuration"), Bytes("head")>>, intent)
DecodeConfigurationHeadIntent(s) ==
    IF Len(s) < 2 \/ s[1] # Magic.QCHI \/ s[2] # 1 THEN Unreadable
    ELSE ReadAll(<<Bytes("configuration"), Bytes("head")>>, After(s, 2))

(***************************************************************************)
(* Frames of the write-ahead log                                           *)
(***************************************************************************)
WalPrefix == 3        \* magic, version, length of the frame
WalDigest == 1

EncodeWalFrame(frame) ==
    LET layout == Numbers(<<"generation", "sequence", "prev_digest", "slot">>) \o
                  <<Bytes("slot_bytes"), Bytes("configuration_bytes"), HeadProvenanceWritten,
                    Optional("command", <<Number("hash"), Bytes("bytes")>>)>>
        payload == Written(layout, frame)
        out == <<Magic.QWAL, 1, WalPrefix + Len(payload) + WalDigest>> \o payload
    IN  Append(out, Digest(out))

\* A frame that ends past the file is the torn tail of an append, and not an
\* error; everything else that does not fit is one.  An embedded command is
\* decoded with the frame, the slot's state and the configuration are not.
TornTail == [kind |-> "torn"]
Damaged == [kind |-> "damaged"]
DecodeWalFrame(s, offset) ==
    LET layout == Numbers(<<"generation", "sequence", "prev_digest", "slot">>) \o
                  <<Bytes("slot_bytes"), Bytes("configuration_bytes"), HeadProvenanceRead,
                    Optional("command", <<Number("hash"), Bytes("bytes")>>)>>
        left == After(s, offset)
        end == offset + left[3]
        p == Read(layout, After(s, offset + WalPrefix))
    IN  IF Len(left) < WalPrefix THEN TornTail
        ELSE IF left[1] # Magic.QWAL \/ left[2] # 1 THEN Damaged
        ELSE IF left[3] < WalPrefix + WalDigest THEN Damaged
        ELSE IF end > Len(s) THEN TornTail
        ELSE IF s[end] # Digest(SubSeq(s, offset + 1, end - WalDigest)) THEN Damaged
        ELSE IF /\ p.ok
                /\ Len(s) - Len(p.rest) = end - WalDigest
                /\ p.value.command.tag = 1 =>
                      DecodeStoredCommand(p.value.command.bytes).ok
             THEN [kind |-> "frame", frame |-> p.value, digest |-> s[end], end |-> end]
             ELSE Damaged

\* The frames of a log from an offset on, up to its end, to a torn tail or to
\* an error.
RECURSIVE WalFrames(_, _)
WalFrames(s, offset) ==
    IF offset = Len(s) THEN [frames |-> <<>>, ends |-> "whole"]
    ELSE LET d == DecodeWalFrame(s, offset)
         IN  IF d.kind # "frame" THEN [frames |-> <<>>, ends |-> d.kind]
             ELSE LET more == WalFrames(s, d.end)
                  IN  [more EXCEPT !.frames = <<d.frame>> \o @]

(***************************************************************************)
(* What is checked of the states found (root: the command files by hash,   *)
(* inline: the commands of the frames read so far)                         *)
(***************************************************************************)
NoCommands == << >>

ReadExistingCommandCache(root, hash) ==
    IF hash \notin DOMAIN root THEN Unreadable
    ELSE Provided(DecodeStoredCommand(root[hash]), LAMBDA c : CommandHash(c) = hash)

ExistingValueMatches(root, inline, cluster, slot, epoch, config, value) ==
    LET found == IF value.command_hash \in DOMAIN inline
                 THEN Parsed(inline[value.command_hash], <<>>)
                 ELSE ReadExistingCommandCache(root, value.command_hash)
    IN  IF found.ok
        THEN value = Some(FromCommand(cluster, slot, epoch, config,
                                      value.prev_hash, found.value))
        ELSE FALSE

\* The same test of the durable head's snapshots, of a frame and of an intent.
StateBelongs(state, slot, cluster, epoch, configuration) ==
    /\ state.slot = slot /\ state.cluster_id = cluster /\ state.epoch = epoch
    /\ state.config_id = configuration.config_id
    /\ state.config_digest = configuration.config_digest

ValidateExistingSnapshots(root, recent, cluster, epoch, configuration) ==
    \A i \in DOMAIN recent :
        LET p == DecodeRecorderState(recent[i].bytes)
        IN  /\ p.ok
            /\ StateBelongs(p.value, recent[i].slot, cluster, epoch, configuration)
            /\ \A v \in RecorderStateValues(p.value) :
                  ExistingValueMatches(root, NoCommands, cluster, recent[i].slot,
                                       epoch, configuration.config_id, v)

ValidatePreflightConfiguration(configuration, config, members) ==
    /\ configuration.config_id = config
    /\ configuration.config_digest = CanonicalMembershipDigest(members)
    /\ NamesOf(configuration.members) = members
=============================================================================
