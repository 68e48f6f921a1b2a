--------------------------- MODULE StorageChecks ----------------------------
(***************************************************************************)
(* The pure parts of a node's storage, checked against reference           *)
(* definitions over small sets of inputs: page effects, the payloads of    *)
(* log entries, and the log that peers hand to a starting node.            *)
(***************************************************************************)
EXTENDS NodeStorage, QwalEffect, PeerCatchUp

-----------------------------------------------------------------------------
(***************************************************************************)
(* The page-state cache and the capture of an effect, against what they    *)
(* are meant to compute, over every small database and every WAL.          *)
(***************************************************************************)

CONSTANT TreePages    \* the largest database of the checks of the tree

Trees == UNION {[1 .. n -> Image] : n \in 1 .. TreePages}
Difference(old, new) ==
    Restrict(new, {p \in DOMAIN new : p > Len(old) \/ new[p] # old[p]})

\* From any database to any other, of any size: patching the levels gives the
\* levels of the target, and the overlay predicts its identity (apply_patch,
\* overlay).
ASSUME PatchReachesTarget ==
    \A old, new \in Trees :
        LET patch == Difference(old, new)
        IN  /\ ValidPatch(FromPages(old), Len(new), patch)
            /\ ApplyPatch(FromPages(old), Len(new), patch) = FromPages(new)
            /\ Overlay(FromPages(old), Len(new), patch) = Identity(FromPages(new))

\* Two databases have the same identity only if they are the same.
ASSUME IdentityIsInjective ==
    \A old, new \in Trees :
        Identity(FromPages(old)) = Identity(FromPages(new)) => old = new

\* What is captured of a transaction is what a reader of the private copy
\* sees, and the effect takes the base there (capture_wal,
\* materialize_wal_capture, apply_preverified_qwal_in_place).
ASSUME CaptureIsCommitted ==
    \A base \in Databases : \A w \in Wal(base) :
        CaptureFits(w) /\ CaptureComplete(base, w) =>
            LET effect == Effect(1, FromPages(base), base, w)
            IN  /\ Materialized(base, w) = Committed(base, w)
                /\ ValidEffect(effect)
                /\ Patched(base, effect) = Committed(base, w)
                /\ effect.target = Identity(FromPages(Committed(base, w)))

-----------------------------------------------------------------------------
(***************************************************************************)
(* The payloads of log entries over small commands: each is read back as   *)
(* it was written, and in one way only.                                    *)
(***************************************************************************)

(***************************************************************************)
(* The commands                                                            *)
(***************************************************************************)
RequestIds == {<<1>>, <<1, 2>>}
Contents == {<<>>, <<3>>}
KvCommands ==
    {[request_id |-> id, operation |-> op] :
        id \in RequestIds,
        op \in {[tag |-> 1, key |-> k, value |-> v] : k \in {<<1>>, <<2, 1>>}, v \in Contents}
               \cup {[tag |-> 2, key |-> k] : k \in {<<1>>, <<2, 1>>}}}

GraphValues ==
    {[tag |-> t] : t \in 0 .. 2} \cup {[tag |-> t, number |-> 4] : t \in 3 .. 4}
        \cup {[tag |-> 5, bits |-> b] : b \in {PositiveZero, 1}}
        \cup {[tag |-> t, content |-> c] : t \in 6 .. 7, c \in Contents}
GraphCommands ==
    {[request_id |-> id, operation |-> op] :
        id \in RequestIds,
        op \in {[tag |-> 1, id |-> <<2>>, value |-> v] : v \in GraphValues}
               \cup {[tag |-> 2, id |-> i] : i \in {<<2>>, <<2, 1>>}}}

BatchesOf(commands) ==
    {b \in {<<c>> : c \in commands} \cup (commands \X commands) : ValidBatch(b)}

(***************************************************************************)
(* The checks                                                              *)
(***************************************************************************)
Altered(s) == {[s EXCEPT ![i] = t] : i \in DOMAIN s, t \in 0 .. 3 \cup {NegativeZero, NotFinite}}
Cut(s) == {SubSeq(s, 1, n) : n \in 0 .. Len(s) - 1}
Prolonged(s) == {Append(s, t) : t \in 0 .. 3}

\* Read back whole; an altered encoding is refused or is the encoding of what
\* it is now read as.
OneEncoding(Encode(_), Decode(_), record) ==
    LET s == Encode(record)
    IN  /\ Decode(s) = Parsed(record, <<>>)
        /\ \A t \in Cut(s) \cup Prolonged(s) : ~ Decode(t).ok
        /\ \A t \in Altered(s) : LET p == Decode(t) IN IF p.ok THEN Encode(p.value) = t ELSE TRUE

\* The envelope of a command has one encoding (ReplicatedCommandEnvelope).
ASSUME EnvelopesHaveOneEncoding ==
    \A p \in {SqlProfile, GraphProfile, KvProfile}, version \in 1 .. 2,
       id \in RequestIds, body \in {<<>>, <<1>>, <<2, 3>>} :
        OneEncoding(EncodeEnvelope, DecodeEnvelope,
                    [profile |-> p, command_version |-> version,
                     request_id |-> id, body |-> body])

\* So has every command, and every receipt and result (KvCommandV1,
\* GraphCommandV1, KvRequestRecord, GraphCommandResultV1).
ASSUME CommandsHaveOneEncoding ==
    /\ \A c \in KvCommands : OneEncoding(EncodeKvCommand, DecodeKvCommand, c)
    /\ \A c \in GraphCommands : OneEncoding(EncodeGraphCommand, DecodeGraphCommand, c)
    /\ \A tag \in 1 .. 2, flag \in {Nothing, Some(<<>>)} :
          LET result == [tag |-> tag, flag |-> flag]
          IN  /\ OneEncoding(EncodeGraphResult, DecodeGraphResult, [result |-> result])
              /\ OneEncoding(EncodeKvReceipt, DecodeKvReceipt,
                             [payload_hash |-> 1, log_index |-> 2, log_hash |-> 3,
                              result |-> result])

\* Negative zero and what is not finite never reach the log: a value is
\* canonical before it is encoded, and a payload that holds another is refused
\* (CanonicalF64::new, GraphValueV1::decode).
ASSUME DoublesAreCanonical ==
    \A bits \in {PositiveZero, NegativeZero, NotFinite, 1} :
        LET raw == [request_id |-> <<1>>,
                    operation |-> [tag |-> 1, id |-> <<2>>,
                                   value |-> [tag |-> 5, bits |-> bits]]]
            made == CanonicalF64(bits)
        IN  /\ made.ok <=> bits # NotFinite
            /\ made.ok => DecodeGraphCommand(EncodeGraphCommand(
                              [raw EXCEPT !.operation.value.bits = made.value])).ok
            /\ DecodeGraphCommand(EncodeGraphCommand(raw)).ok
                  <=> bits \notin {NegativeZero, NotFinite}

\* A request has one identity: whether it was committed alone or in a batch
\* with others, a node derives the payload under whose hash its receipt is
\* kept, and that payload is the one a lone request has
\* (decode_replicated_kv_commands, decode_replicated_graph_commands).
ASSUME BatchedRequestsKeepTheirIdentity ==
    /\ \A b \in BatchesOf(KvCommands) :
          LET members == [i \in DOMAIN b |->
                             [command |-> b[i], payload |-> EncodeReplicatedKvCommand(b[i])]]
          IN  DecodeReplicatedKvCommands(EncodeReplicatedKvBatch(b)) = Parsed(members, <<>>)
    /\ \A b \in BatchesOf(GraphCommands) :
          LET members == [i \in DOMAIN b |->
                             [command |-> b[i], payload |-> EncodeReplicatedGraphCommand(b[i])]]
          IN  /\ DecodeReplicatedGraphCommands(EncodeReplicatedGraphBatch(b))
                    = Parsed(members, <<>>)
              /\ ~ DecodeReplicatedKvCommands(EncodeReplicatedGraphBatch(b)).ok
    /\ \A c \in KvCommands :
          LET payload == EncodeReplicatedKvCommand(c)
          IN  /\ DecodeReplicatedKvCommands(payload)
                    = Parsed(<<[command |-> c, payload |-> payload]>>, <<>>)
              /\ ~ DecodeReplicatedGraphCommands(payload).ok

\* A payload that a node accepts is the encoding of the commands it found:
\* two nodes never keep different receipts for one entry, and no batch holds a
\* request twice.
ASSUME AcceptedPayloadsAreCanonical ==
    LET repeated(c) == EncodeReplicatedKvBatch(<<c, c>>)
        encodes(found, t) ==
            \/ t = EncodeReplicatedKvBatch([i \in DOMAIN found |-> found[i].command])
            \/ /\ Len(found) = 1
               /\ t = EncodeReplicatedKvCommand(found[1].command)
    IN  /\ \A c \in KvCommands : ~ DecodeReplicatedKvCommands(repeated(c)).ok
        /\ \A c, d \in {k \in KvCommands : k.operation.key = <<1>>} :
              \A t \in Altered(EncodeReplicatedKvBatch(<<c, d>>))
                          \cup Altered(EncodeReplicatedKvCommand(c)) :
                  LET p == DecodeReplicatedKvCommands(t)
                  IN  IF p.ok THEN encodes(p.value, t) ELSE TRUE

\* A snapshot is read back, and nothing cut, prolonged or altered is; a
\* snapshot of another binary or storage version is refused.
KvSnapshotOf(content) ==
    LET n == [cluster_id |-> <<7>>, created_by |-> <<1>>, epoch |-> 1, config_id |-> 1,
              applied_index |-> 2, applied_hash |-> 3, fingerprint |-> Fingerprint.kv,
              digest |-> 0, db_bytes |-> content]
    IN  [n EXCEPT !.digest = KvSnapshotDigest(n)]
GraphSnapshotOf(content, version) ==
    LET n == [storage_version |-> version] @@
             [KvSnapshotOf(content) EXCEPT !.fingerprint = Fingerprint.graph]
    IN  [n EXCEPT !.digest = GraphSnapshotDigest(n)]
ASSUME SnapshotsAreReadBack ==
    \A content \in Contents :
        LET ofKv == KvSnapshotOf(content)
            ofGraph == GraphSnapshotOf(content, StorageVersion)
            s == EncodeKvSnapshot(ofKv)
            g == EncodeGraphSnapshot(ofGraph)
        IN  /\ DecodeKvSnapshot(s) = Parsed([version |-> 1] @@ ofKv, <<>>)
            /\ DecodeGraphSnapshot(g) = Parsed([version |-> 1] @@ ofGraph, <<>>)
            /\ \A t \in (Cut(s) \cup Prolonged(s) \cup Altered(s)) \ {s} : ~ DecodeKvSnapshot(t).ok
            /\ \A t \in (Cut(g) \cup Prolonged(g) \cup Altered(g)) \ {g} :
                  ~ DecodeGraphSnapshot(t).ok
            /\ ~ DecodeGraphSnapshot(EncodeGraphSnapshot(
                    GraphSnapshotOf(content, StorageVersion + 1))).ok

(***************************************************************************)
(* Changes of the configuration                                            *)
(***************************************************************************)
SomeNames == <<<<2>>, <<1, 2>>, <<1>>>>
SomeSuccessor == SuccessorOf(<<7>>, 1, 9, 2, SomeNames).value
Changes ==
    {[version |-> 1, kind |-> 1, config_id |-> 1, config_digest |-> 9],
     [version |-> 1, kind |-> 2, config_id |-> 2, config_digest |-> 8,
      stop_slot |-> 3, prefix_hash |-> 4],
     [version |-> 2, kind |-> 1, successor |-> SomeSuccessor],
     [version |-> 2, kind |-> 2, successor |-> SomeSuccessor,
      stop_slot |-> 3, prefix_hash |-> 4, stop_command_hash |-> 5]}

\* A change has one encoding, and is one only as an entry of its type
\* (ConfigChange::to_stored_command, ConfigChange::recognize_parts).
ASSUME ChangesHaveOneEncoding ==
    \A change \in Changes :
        /\ OneEncoding(LAMBDA c : ToStoredCommand(c).payload,
                       LAMBDA s : RecognizeParts(ConfigChangeType, s), change)
        /\ ~ RecognizeParts(1, ToStoredCommand(change).payload).ok

\* A successor does not depend on the order its names were given in, which a
\* bound change fixes; the Stop and the barrier of one successor are entries of
\* two configurations that follow each other.
ASSUME SuccessorsAreCanonical ==
    /\ \A p \in Permutations(DOMAIN SomeNames) :
          SuccessorOf(<<7>>, 1, 9, 2, [i \in DOMAIN SomeNames |-> SomeNames[p[i]]]).value
              = SomeSuccessor
    /\ \A names \in {<<<<2>>, <<1>>>>, <<<<2>>, <<1>>, <<2>>, <<3>>>>, <<<<2>>, <<1>>, <<>>>>} :
          ~ SuccessorOf(<<7>>, 1, 9, 2, names).ok
    /\ \A p \in Permutations(1 .. 3) :
          LET shuffled == [SomeSuccessor EXCEPT !.members = [i \in 1 .. 3 |-> @[p[i]]]]
              stop == ToStoredCommand([version |-> 2, kind |-> 1, successor |-> shuffled])
          IN  RecognizeParts(ConfigChangeType, stop.payload).ok <=> shuffled = SomeSuccessor
    /\ \A stop, barrier \in {c \in Changes : c.version = 2} :
          stop.kind = 1 /\ barrier.kind = 2 =>
              Binding(barrier)[1] = Binding(stop)[1] + 1

-----------------------------------------------------------------------------
(***************************************************************************)
(* What starting from the other nodes' logs and from the recorders gives,  *)
(* over every prefix a node, its peers and the recorders can hold of a few *)
(* histories: commands and a Noop, a Stop bound to its successor with its  *)
(* activation, and an unbound one.                                         *)
(***************************************************************************)

ThisCluster == <<<<7>>, 1>>
FirstConfig == ActiveIn(1, 9)
Bound == SuccessorOf(<<7>>, 1, 9, 2, <<<<1>>, <<2>>, <<3>>>>).value

Hashed(e) == [e EXCEPT !.hash = RecomputeHash(e)]
Extended(h, config, type, payload) ==
    Append(h, Hashed([cluster_id |-> <<7>>, index |-> Len(h) + 1, epoch |-> 1,
                       config_id |-> config, entry_type |-> type, payload |-> payload,
                       prev_hash |-> IF h = <<>> THEN 0 ELSE Last(h).hash, hash |-> 0]))
Change(c) == ToStoredCommand(c).payload

Plain == Extended(Extended(Extended(Extended(<<>>, 1, 1, <<1>>), 1, 5, <<>>), 1, 1, <<2>>), 1, 1, <<1, 2>>)
WithStop(version) ==
    LET stop == Extended(Extended(<<>>, 1, 1, <<1>>), 1, ConfigChangeType,
                      Change(IF version = 1 THEN [version |-> 1, kind |-> 1, config_id |-> 1,
                                                  config_digest |-> 9]
                             ELSE [version |-> 2, kind |-> 1, successor |-> Bound]))
        at == [stop_slot |-> 2, prefix_hash |-> stop[2].hash]
    IN  Extended(Extended(stop, 2, ConfigChangeType,
                    Change(at @@ IF version = 1
                                 THEN [version |-> 1, kind |-> 2, config_id |-> 2, config_digest |-> 8]
                                 ELSE [version |-> 2, kind |-> 2, successor |-> Bound,
                                       stop_command_hash |-> BoundStopHash(Bound)])),
              2, 1, <<2>>)
Histories == {Plain, WithStop(1), WithStop(2)}

\* The log that keeps the entries after the first k of the first n.
LogOf(h, k, n) ==
    [anchor |-> IF k = 0 THEN <<0, 0>> ELSE <<k, h[k].hash>>,
     config |-> ConfigurationOf(FirstConfig, SubSeq(h, 1, k)).value,
     entries |-> SubSeq(h, k + 1, n)]
LogsOf(h, last) == {LogOf(h, 0, n) : n \in 0 .. last} \cup {LogOf(h, 2, n) : n \in 2 .. last}

Up(l) == [route |-> "up", log |-> l]
Down == [route |-> "down"]
AtGate == [route |-> "gate"]

Recorders(h, d, next) == [decided |-> SubSeq(h, 1, d), next |-> next, quorum |-> TRUE]
Barrier(h) ==
    LET config == ConfigurationOf(FirstConfig, h).value
    IN  Last(Extended(h, config.config_id, 5, <<>>))

\* All that a log stands for, given the history it comes from.
Whole(h, l) == SubSeq(h, 1, l.anchor[1]) \o l.entries

\* Whatever the peers hold and however they are ordered, the node takes only
\* decided entries, and if it opens it holds every one of them, the winner of
\* a pending slot included (recover_peer_candidates, recover_startup_decisions).
ASSUME OpensWithEveryDecision ==
    \A h \in Histories : \A d \in {2, 4} : \A next \in {"empty"} \cup (IF d = 4 THEN {"pending"} ELSE {}) :
        LET held == SubSeq(h, 1, d) \o (IF next = "empty" THEN <<>> ELSE <<Barrier(h)>>)
            peers == {Up(l) : l \in LogsOf(h, d)} \cup {Down, AtGate}
        IN  \A l \in LogsOf(h, d) : \A p, q \in peers :
                LET o == OpenLog(ThisCluster, Recorders(h, d, next), l, <<p, q>>, Barrier(h))
                IN  /\ IsPrefix(Whole(h, l), Whole(h, o.log))
                    /\ IsPrefix(Whole(h, o.log), held)
                    /\ o.how = "open" => Whole(h, o.log) = held

\* Peers that cannot be reached stop nobody, but the recorders alone give one
\* entry less than the bound says in one start: the loop has to see the empty
\* slot too.  What a failed start persisted stays, so that the next one ends.
ASSUME RecordersAreEnough ==
    \A h \in Histories : \A l \in LogsOf(h, 4) :
        LET missing == 4 - LogTip(l)[1]
            o == OpenLog(ThisCluster, Recorders(h, 4, "empty"), l, <<Down, Down>>, Barrier(h))
            again == OpenLog(ThisCluster, Recorders(h, 4, "empty"), o.log, <<Down, Down>>, Barrier(h))
        IN  /\ o.how = "open" <=> missing < MaxStartupRecoveryEntries
            /\ again.how = "open"

\* A start does fail on a peer whose gate has no permit left (its answer has no
\* body to decode, and open_runtime_with_retry does not try again), and on a
\* peer that has compacted further than the node, unless another one before it
\* has brought the node past that point.
ASSUME OnePeerCanStopAStart ==
    LET recorders == Recorders(Plain, 4, "empty")
        old == LogOf(Plain, 0, 0)
        compacted == Up(LogOf(Plain, 2, 4))
        whole == Up(LogOf(Plain, 0, 4))
        how(peers) == OpenLog(ThisCluster, recorders, old, peers, Barrier(Plain)).how
    IN  /\ how(<<whole>>) = "open"
        /\ how(<<AtGate, whole>>) = "failed" /\ how(<<whole, AtGate>>) = "failed"
        /\ how(<<compacted, whole>>) = "failed" /\ how(<<whole, compacted>>) = "open"

\* A page of another history, or one in which an entry is missing, repeated, out
\* of place or altered, its hash recomputed or not, is refused: whole when it is no chain of this
\* cluster, at the entry the recorders do not confirm otherwise
\* (validate_fetched_entries_with_configuration, recover_peer_candidates).
ChainOfCluster(page) ==
    \A i \in DOMAIN page :
        /\ page[i].index = i /\ <<page[i].cluster_id, page[i].epoch>> = ThisCluster
        /\ page[i].prev_hash = IF i = 1 THEN 0 ELSE page[i - 1].hash
        /\ page[i].hash = RecomputeHash(page[i]) /\ page[i].entry_type # 3
Edits(e) ==
    {[e EXCEPT !.cluster_id = <<8>>], [e EXCEPT !.epoch = 2], [e EXCEPT !.config_id = @ + 1],
     [e EXCEPT !.prev_hash = @ + 1], [e EXCEPT !.hash = @ + 1], [e EXCEPT !.entry_type = 3],
     [e EXCEPT !.payload = <<3>>], [e EXCEPT !.payload = <<1, 2, 3>>], [e EXCEPT !.index = @ + 1]}
WrongPages(h) ==
    LET page == SubSeq(h, 1, 2)
        edited == UNION {{[page EXCEPT ![i] = x], [page EXCEPT ![i] = Hashed(x)]} :
                         <<i, x>> \in UNION {{i} \X Edits(page[i]) : i \in 1 .. 2}}
    IN  {<<h[2], h[2]>>, <<h[1], h[3]>>, <<h[2], h[3]>>} \cup (edited \ {page})
            \cup {SubSeq(g, 1, 2) : g \in Histories \ {h}}
ASSUME WrongPagesAreRefused ==
    \A h \in Histories : \A page \in WrongPages(h) :
        LET peer == Up([LogOf(h, 0, 2) EXCEPT !.entries = page])
            o == RecoverPeerCandidates(ThisCluster, Recorders(h, 4, "empty"), LogOf(h, 0, 0), <<peer>>)
        IN  /\ o.how = "failed"
            /\ IsPrefix(o.log.entries, h)
            /\ ~ ChainOfCluster(page) => o.log.entries = <<>>

\* After a Stop only its own activation follows, in the next slot: of the
\* successor the Stop was bound to, or of the next number if it was bound to
\* none.  A Stop ends the active configuration and no other
\* (ConfigurationState::validate_entry).
OtherBound == SuccessorOf(<<7>>, 1, 9, 2, <<<<1>>, <<2>>, <<4>>>>).value
Foreign == SuccessorOf(<<7>>, 1, 8, 2, <<<<1>>, <<2>>, <<3>>>>).value
Activations(h) ==
    LET bound == {[version |-> 2, kind |-> 2, successor |-> s, stop_slot |-> n,
                   prefix_hash |-> p, stop_command_hash |-> BoundStopHash(c)] :
                  s \in {Bound, OtherBound, Foreign}, c \in {Bound, OtherBound},
                  n \in {2, 3}, p \in {h[1].hash, h[2].hash}}
        unbound == {[version |-> 1, kind |-> 2, config_id |-> i, config_digest |-> 8,
                     stop_slot |-> n, prefix_hash |-> p] :
                    i \in 1 .. 3, n \in {2, 3}, p \in {h[1].hash, h[2].hash}}
    IN  {Hashed([h[3] EXCEPT !.payload = Change(c), !.config_id = i, !.index = n]) :
         c \in bound \cup unbound, i \in 1 .. 3, n \in 3 .. 4}
Stops(h) ==
    {Hashed([h[2] EXCEPT !.payload = Change(c), !.config_id = i]) : i \in 1 .. 2,
     c \in {[version |-> 1, kind |-> 1, config_id |-> n, config_digest |-> d] :
             n \in 1 .. 2, d \in 8 .. 9}
           \cup {[version |-> 2, kind |-> 1, successor |-> s] : s \in {Bound, Foreign}}}
ASSUME OnlyTheSuccessorFollowsAStop ==
    \A version \in 1 .. 2 :
        LET h == WithStop(version)
            after == ConfigurationOf(FirstConfig, SubSeq(h, 1, 2)).value
        IN  /\ {e \in Activations(h) : ValidateEntry(after, e).ok} = {h[3]}
            /\ {e \in Stops(h) : ValidateEntry(FirstConfig, e).ok}
                  = {WithStop(1)[2], WithStop(2)[2]}
            /\ \A e \in {Plain[2], Plain[3], h[2], h[4]} : ~ ValidateEntry(after, e).ok

\* catch_up_missing_entries gives a continuation of the caller's log; it knows
\* no digest, so it stops short of a bound Stop that a start does cross.
ASSUME CatchUpStopsAtABoundStop ==
    \A h \in Histories : \A max \in 0 .. MaxFetchEntries + 1 : \A n \in {0, 1, 4} :
        LET tip == LogTip(LogOf(h, 0, n))
            l == LogOf(h, 0, 4)
            got == CatchUpMissingEntries(ThisCluster, tip, 1, Up(l), max)
            asked == SubSeq(h, n + 1, IF n + max < 4 THEN n + max ELSE 4)
        IN  IF got.error = "none" THEN got.entries = asked
            ELSE max > MaxFetchEntries \/ \E i \in DOMAIN asked : asked[i].entry_type = ConfigChangeType
=============================================================================
