-------------------------- MODULE MCRecorderStore ---------------------------
(***************************************************************************)
(* Instances of RecorderStore for TLC.                                     *)
(***************************************************************************)
EXTENDS RecorderStore, RecorderCodec

\* A client command, the Stop of the first configuration and the activation
\* barrier of the second after a Stop in the first slot.
OneClient == {Normal(1), Stop(1, 0), Activate(2, 1)}

-----------------------------------------------------------------------------
(***************************************************************************)
(* The codecs of a recorder over small records: what is written is read    *)
(* back, and nothing cut short, prolonged or altered is.                   *)
(***************************************************************************)

(***************************************************************************)
(* The records                                                             *)
(***************************************************************************)
SomeCluster == <<7>>
OtherCluster == <<7, 1>>
SomeMembers == <<<<1>>, <<1, 2>>, <<3>>>>
SomeCommands == {[entry_type |-> 1, payload |-> <<5>>], [entry_type |-> 5, payload |-> <<>>]}
SomeDigest == CanonicalMembershipDigest(SomeMembers)
ValueOf(command, slot) == FromCommand(SomeCluster, slot, 1, 1, 0, command)

MaxPriority == HalfPriority * HalfPriority - 1
ProposalOf(command, slot, priority) ==
    [priority |-> priority, proposer_id |-> <<1, 2>>, proposal_id |-> 3,
     value |-> Some(ValueOf(command, slot))]
NilProposal == [priority |-> 0, proposer_id |-> <<>>, proposal_id |-> 0, value |-> Nothing]

SummariesOf(first, prior, slot, step) ==
    [i \in 1 .. 2 |-> [recorder_id |-> SomeMembers[i], slot |-> slot, step |-> step,
                       first_current |-> first, aggregate_prior |-> prior]]
ProofOf(tag, cluster, slot, step, proposal) ==
    [tag |-> tag, cluster_id |-> cluster, slot |-> slot, epoch |-> 1, config_id |-> 1,
     config_digest |-> SomeDigest, step |-> step, proposal |-> Some(proposal),
     summaries |-> IF tag = 1 THEN SummariesOf(Some(proposal), Nothing, slot, step)
                   ELSE SummariesOf(Nothing, Some(proposal), slot, step)]
ProofsOf(command, slot) ==
    {ProofOf(1, SomeCluster, slot, FastPathStep, ProposalOf(command, slot, MaxPriority)),
     ProofOf(2, SomeCluster, slot, 6, ProposalOf(command, slot, HalfPriority + 3))}

StateOf(slot, promised, accepted, decided, first, prior, proof) ==
    [slot |-> slot, epoch |-> 1, config_id |-> 1, config_digest |-> SomeDigest,
     cluster_id |-> SomeCluster, highest_promised |-> promised, accepted |-> accepted,
     decided |-> decided, step |-> 4, first_current |-> first,
     aggregate_current |-> first, aggregate_prior |-> prior, decided_proof |-> proof]

\* Before and after a proof is installed: its certificate is stored with it.
OpenStates(command, slot) ==
    {StateOf(slot, Nothing, Nothing, Nothing, first, prior, Nothing) :
        first \in {Nothing, Some(NilProposal), Some(ProposalOf(command, slot, 2))},
        prior \in {Nothing, Some(ProposalOf(command, slot, MaxPriority))}}
DecidedStates(command, slot) ==
    {StateOf(slot, Nothing, Nothing, Some(CertificateFromProof(proof)), Nothing, Nothing, proof) :
        proof \in ProofsOf(command, slot)}
\* With the ballots of the earlier protocol.
BallotOf(round, proposer) == [round |-> round, priority |-> 1, proposer_id |-> proposer]
BallotStates(command, slot) ==
    {StateOf(slot, Some(BallotOf(2, <<1>>)),
             Some([ballot |-> BallotOf(round, proposer), value |-> ValueOf(command, slot)]),
             Nothing, Nothing, Nothing, Nothing) :
        round \in 1 .. 3, proposer \in {<<1>>, <<1, 2>>}}
States ==
    UNION {OpenStates(c, 1) \cup DecidedStates(c, 1) : c \in SomeCommands}
        \cup {s \in BallotStates([entry_type |-> 1, payload |-> <<5>>], 1) :
                 s.accepted.ballot.round = 1}

ConfigurationOf(members, max, seal) ==
    [config_id |-> 1, config_digest |-> SomeDigest, activated |-> Some(<<>>),
     max_slot |-> max, members |-> Named(members), predecessor |-> Nothing, seal |-> seal]
SomeSeal == Some([stop_slot |-> 4, command_hash |-> 5, prefix_hash |-> 6])
Configurations ==
    {ConfigurationOf(members, max, seal) :
        members \in {SomeMembers, <<>>}, max \in {Nothing, Some([slot |-> 3])},
        seal \in {Nothing, SomeSeal}}

Heads == {Nothing, Some([slot |-> 2]),
          [tag |-> 2, stop_slot |-> 3, prefix_hash |-> 4, recovered_tip |-> 5,
           recovered_hash |-> 6]}
RecentOf(states) == [i \in DOMAIN states |->
    [slot |-> states[i].slot, bytes |-> EncodeRecorderState(states[i])]]
RecordedHeadOf(head, recent) ==
    [cluster_id |-> SomeCluster, epoch |-> 1, config_id |-> 1,
     config_digest |-> SomeDigest, head |-> head, generation |-> 2,
     through_sequence |-> 0, recent |-> recent]
SomeState(slot) ==
    CHOOSE s \in OpenStates([entry_type |-> 1, payload |-> <<5>>], slot) :
        s.first_current.tag = 1 /\ s.aggregate_prior.tag = 1
RecordedHeads ==
    {RecordedHeadOf(head, recent) :
        head \in Heads,
        recent \in {<<>>, RecentOf(<<SomeState(1)>>), RecentOf(<<SomeState(1), SomeState(2)>>)}}

(***************************************************************************)
(* The checks                                                              *)
(***************************************************************************)
\* Not one of the sequences that differ from s by their length or in a token.
OnlyWhole(Decode(_), s) ==
    /\ \A n \in 0 .. Len(s) - 1 : ~ Decode(SubSeq(s, 1, n)).ok
    /\ \A t \in {0, 1, Last(s)} : ~ Decode(Append(s, t)).ok
    /\ \A i \in DOMAIN s : ~ Decode([s EXCEPT ![i] = @ + 1]).ok

\* A slot's state survives being written and read, and so does the state left
\* by the installation of a proof, whose conditions the decoder checks again
\* (encode_recorder_state, decode_recorder_state).
ASSUME StatesAreReadBack ==
    \A state \in States :
        LET s == EncodeRecorderState(state)
        IN  DecodeRecorderState(s) = Parsed(state, <<>>) /\ OnlyWhole(DecodeRecorderState, s)

\* A state is refused when it accepted above its promise, when its proof is of
\* another slot, of another cluster or of another value than its certificate,
\* and when a proof has no certificate.
ASSUME InconsistentStatesAreRefused ==
    LET refused(state) == ~ DecodeRecorderState(EncodeRecorderState(state)).ok
        command == [entry_type |-> 1, payload |-> <<5>>]
    IN  /\ \A state \in BallotStates(command, 1) :
              refused(state) <=> \/ state.accepted.ballot.round = 3
                                 \/ /\ state.accepted.ballot.round = 2
                                    /\ state.accepted.ballot.proposer_id = <<1, 2>>
        /\ \A state \in DecidedStates(command, 1) :
              /\ refused([state EXCEPT !.decided = Nothing])
              /\ refused([state EXCEPT !.slot = 2])
              /\ refused([state EXCEPT !.cluster_id = OtherCluster])
              /\ refused([state EXCEPT !.decided.value.entry_hash = @ + 1])
              /\ state.decided_proof.tag = 1 =>
                    refused([state EXCEPT !.decided_proof.step = 8])

\* The certificate kept of a proof is valid for the cluster of the proof and
\* for no other, although it holds the cluster's name and the proposer's as
\* one string (certificate_from_proof, DecisionCertificate::cluster_id).
ASSUME CertificatesNameTheirCluster ==
    \A command \in SomeCommands, cluster, other \in {<<7>>, <<7, 1>>, <<>>} :
        LET proposal == [ProposalOf(command, 1, MaxPriority) EXCEPT
                            !.proposer_id = IF cluster = <<7>> THEN <<1, 2>> ELSE <<2>>]
            proof == ProofOf(1, cluster, 1, FastPathStep, proposal)
        IN  CertificateValidFor(CertificateFromProof(proof), other, 1, SomeMembers)
                <=> other = cluster

\* A configuration survives being written and read; its members may have been
\* written in any order, and have to be the ones its digest is of.
ASSUME ConfigurationsAreReadBack ==
    /\ \A configuration \in Configurations :
          LET s == EncodeConfigurationState(configuration)
          IN  /\ DecodeConfigurationState(s) = Parsed(configuration, <<>>)
              /\ OnlyWhole(DecodeConfigurationState, s)
    /\ \A p \in Permutations(DOMAIN SomeMembers) :
          LET shuffled == ConfigurationOf([i \in DOMAIN SomeMembers |-> SomeMembers[p[i]]],
                                          Nothing, Nothing)
          IN  DecodeConfigurationState(EncodeConfigurationState(shuffled))
                = Parsed(ConfigurationOf(SomeMembers, Nothing, Nothing), <<>>)
    /\ \A members \in {<<<<1>>, <<1, 2>>, <<4>>>>, <<<<1>>, <<1, 2>>>>,
                       <<<<1>>, <<3>>, <<3>>>>, <<<<1>>, <<1, 2>>, <<3>>, <<>>>>} :
          ~ DecodeConfigurationState(
                EncodeConfigurationState(ConfigurationOf(members, Nothing, Nothing))).ok

\* The durable head is read back under the configuration it was written for
\* and under no other; two snapshots of one slot are refused.
ASSUME HeadsAreReadBack ==
    LET configuration == ConfigurationOf(SomeMembers, Nothing, Nothing)
        decode(s) == DecodeRecordedHead(s, SomeCluster, 1, configuration)
    IN  /\ \A head \in RecordedHeads :
              LET s == EncodeRecordedHead(head)
              IN  /\ decode(s) = Parsed(head, <<>>)
                  /\ OnlyWhole(decode, s)
                  /\ ~ DecodeRecordedHead(s, OtherCluster, 1, configuration).ok
                  /\ ~ DecodeRecordedHead(s, SomeCluster, 1,
                                          [configuration EXCEPT !.config_id = 2]).ok
        /\ ~ decode(EncodeRecordedHead(RecordedHeadOf(Nothing,
                RecentOf(<<SomeState(1), SomeState(1)>>)))).ok

\* Both intents and a command are read back whole or not at all.  The head
\* intent has no digest: it is refused when it is cut or prolonged, and an
\* altered token in it is left to the digests of its parts.
ASSUME IntentsAreReadBack ==
    /\ \A state \in {SomeState(1)}, configuration \in Configurations :
          LET intent == [slot |-> 1, slot_bytes |-> EncodeRecorderState(state),
                         configuration_bytes |-> EncodeConfigurationState(configuration)]
              s == EncodeTransitionIntent(intent)
          IN  /\ DecodeTransitionIntent(s) = Parsed(intent, <<>>)
              /\ OnlyWhole(DecodeTransitionIntent, s)
    /\ \A configuration \in Configurations, head \in RecordedHeads :
          LET intent == [configuration |-> EncodeConfigurationState(configuration),
                         head |-> EncodeRecordedHead(head)]
              s == EncodeConfigurationHeadIntent(intent)
              readable(t) ==
                  LET p == DecodeConfigurationHeadIntent(t)
                  IN  IF p.ok THEN DecodeConfigurationState(p.value.configuration).ok
                                   /\ DecodeRecordedHead(p.value.head, SomeCluster, 1,
                                                         configuration).ok
                      ELSE FALSE
          IN  /\ DecodeConfigurationHeadIntent(s) = Parsed(intent, <<>>)
              /\ \A n \in 0 .. Len(s) - 1 :
                    ~ DecodeConfigurationHeadIntent(SubSeq(s, 1, n)).ok
              /\ ~ DecodeConfigurationHeadIntent(Append(s, 0)).ok
              /\ \A i \in DOMAIN s : ~ readable([s EXCEPT ![i] = @ + 1])
    /\ \A command \in SomeCommands :
          /\ DecodeStoredCommand(EncodeStoredCommand(command)) = Parsed(command, <<>>)
          /\ OnlyWhole(DecodeStoredCommand, EncodeStoredCommand(command))

(***************************************************************************)
(* The log                                                                 *)
(***************************************************************************)
FrameOf(sequence, prev, head, command) ==
    [generation |-> 1, sequence |-> sequence, prev_digest |-> prev, slot |-> 1,
     slot_bytes |-> EncodeRecorderState(SomeState(1)),
     configuration_bytes |-> EncodeConfigurationState(ConfigurationOf(<<>>, Nothing, Nothing)),
     head |-> head,
     command |-> IF command = <<>> THEN Nothing
                 ELSE Some([hash |-> CommandHash(command[1]),
                            bytes |-> EncodeStoredCommand(command[1])])]
FirstFrame == FrameOf(1, 0, Nothing, <<[entry_type |-> 1, payload |-> <<5>>]>>)
SecondFrame ==
    FrameOf(2, Last(EncodeWalFrame(FirstFrame)), Some([slot |-> 1]), <<>>)
TwoFrames == EncodeWalFrame(FirstFrame) \o EncodeWalFrame(SecondFrame)

\* However an append is cut short, the frames wholly written are read and the
\* rest is taken for a torn tail (encode_wal_frame, decode_wal_frame).
ASSUME TornTailsKeepWholeFrames ==
    \A n \in 0 .. Len(TwoFrames) :
        LET whole == IF n = Len(TwoFrames) THEN <<FirstFrame, SecondFrame>>
                     ELSE IF n >= Len(EncodeWalFrame(FirstFrame)) THEN <<FirstFrame>>
                     ELSE <<>>
            read == WalFrames(SubSeq(TwoFrames, 1, n), 0)
        IN  /\ read.frames = whole
            /\ read.ends = IF n \in {0, Len(EncodeWalFrame(FirstFrame)), Len(TwoFrames)}
                           THEN "whole" ELSE "torn"

\* An altered token is reported, wherever it is, with one exception: a length
\* that now reaches past the end of the file reads as a torn tail, and hides
\* the frames behind it.
ASSUME DamageIsReportedExceptInALength ==
    \A i \in DOMAIN TwoFrames, by \in {-1, 1, 200} :
        LET read == WalFrames([TwoFrames EXCEPT ![i] = @ + by], 0)
            second == Len(EncodeWalFrame(FirstFrame))
        IN  /\ read.frames = IF i > second THEN <<FirstFrame>> ELSE <<>>
            /\ read.ends = IF \/ i = 3 /\ by = 200
                              \/ i = second + 3 /\ by > 0
                           THEN "torn" ELSE "damaged"

\* A snapshot is accepted only where the command of every value it mentions is
\* in the command files under its hash, unaltered, and gives that value in that
\* slot (validate_existing_snapshots, validate_existing_value).
ASSUME SnapshotsNeedTheirCommands ==
    LET configuration == ConfigurationOf(SomeMembers, Nothing, Nothing)
        valid(root, state) ==
            ValidateExistingSnapshots(root, RecentOf(<<state>>), SomeCluster, 1, configuration)
    IN  \A command, other \in SomeCommands :
            LET root == CommandHash(command) :> EncodeStoredCommand(command)
                wrong == CommandHash(command) :> EncodeStoredCommand(other)
            IN  \A state \in OpenStates(command, 1) \cup DecidedStates(command, 1) :
                    LET mentions == RecorderStateValues(state) # {}
                    IN  /\ valid(root, state)
                        /\ valid(NoCommands, state) <=> ~ mentions
                        /\ valid(wrong, state) <=> other = command \/ ~ mentions
                        /\ mentions => ~ valid(root, [state EXCEPT !.slot = 2])
=============================================================================
