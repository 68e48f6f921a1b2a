---------------------------- MODULE PeerCatchUp ----------------------------
(***************************************************************************)
(* How a starting node fills its qlog: it asks the other nodes for the     *)
(* entries it lacks, a page from each, takes from a page only what the     *)
(* recorders confirm, and asks the recorders for the rest.  An entry has   *)
(* all its fields, so that a page can be wrong in each of them.            *)
(*                                                                         *)
(* A log is [anchor, config, entries]: the entries after the compacted     *)
(* ones, and the configuration they begin in.  The recorders are           *)
(* [decided, next, quorum]: the decided entries from slot 1 on, whether    *)
(* the slot after them is "empty" or "pending", and whether enough of them *)
(* answer.                                                                 *)
(***************************************************************************)
EXTENDS CommandCodec

Recorder == INSTANCE RecorderCodec

MaxFetchEntries == 2            \* MAX_FETCH_ENTRIES
MaxStartupRecoveryEntries == 3  \* MAX_STARTUP_RECOVERY_ENTRIES
MaxCommand == 2                 \* MAX_COMMAND_BYTES

RecomputeHash(e) ==
    Recorder!CalculateHash(e.cluster_id, e.index, e.epoch, e.config_id,
                           e.entry_type, e.prev_hash, e.payload)

\* The tip of a log: index and hash of its last entry, or of its anchor.
LogTip(log) ==
    IF log.entries # <<>> THEN <<Last(log.entries).index, Last(log.entries).hash>>
    ELSE log.anchor

(***************************************************************************)
(* ConfigurationState::validate_entry                                      *)
(***************************************************************************)
ActiveIn(config, digest) == [phase |-> "active", config_id |-> config, digest |-> digest]
StoppedAt(config, digest, stop, binding) ==
    [phase |-> "stopped", config_id |-> config, digest |-> digest,
     stop |-> stop, binding |-> binding]

BoundStopHash(successor) ==
    Recorder!CommandHash(ToStoredCommand([version |-> 2, kind |-> 1, successor |-> successor]))

\* The Stop of the active configuration, bound to its successor or not.
StopsIt(state, e, c) ==
    /\ c.kind = 1 /\ e.config_id = state.config_id
    /\ IF c.version = 1
       THEN /\ c.config_id = state.config_id
            /\ state.digest # 0 => c.config_digest = state.digest
       ELSE /\ e.cluster_id = c.successor.cluster_id
            /\ c.successor.predecessor_config_id = state.config_id
            /\ c.successor.predecessor_config_digest = state.digest

\* The barrier right after the Stop, of the form the Stop had.
ActivatesNext(state, e, c) ==
    /\ c.kind = 2
    /\ e.index = state.stop[1] + 1 /\ e.prev_hash = state.stop[2]
    /\ c.stop_slot = state.stop[1] /\ c.prefix_hash = state.stop[2]
    /\ IF state.binding.bound
       THEN /\ c.version = 2 /\ c.successor = state.binding.successor
            /\ c.successor.predecessor_config_id = state.config_id
            /\ c.successor.predecessor_config_digest = state.digest
            /\ e.cluster_id = c.successor.cluster_id /\ e.config_id = c.successor.config_id
            /\ state.binding.stop_command_hash = BoundStopHash(state.binding.successor)
            /\ c.stop_command_hash = state.binding.stop_command_hash
       ELSE c.version = 1 /\ c.config_id = state.config_id + 1 /\ e.config_id = c.config_id

ValidateEntry(state, e) ==
    LET p == RecognizeParts(e.entry_type, e.payload)
        c == p.value
        change == e.entry_type = ConfigChangeType
    IN  CASE RecomputeHash(e) # e.hash -> Unreadable
          [] change /\ ~ p.ok -> Unreadable
          [] state.phase = "active" /\ ~ change ->
                IF e.config_id = state.config_id THEN Parsed(state, <<>>) ELSE Unreadable
          [] state.phase = "active" /\ change ->
                IF ~ StopsIt(state, e, c) THEN Unreadable
                ELSE Parsed(StoppedAt(state.config_id,
                                    IF c.version = 1 THEN c.config_digest ELSE state.digest,
                                    <<e.index, e.hash>>,
                                    IF c.version = 1 THEN [bound |-> FALSE]
                                    ELSE [bound |-> TRUE, successor |-> c.successor,
                                          stop_command_hash |-> BoundStopHash(c.successor)]),
                            <<>>)
          [] state.phase = "stopped" ->
                IF ~ change THEN Unreadable
                ELSE IF ~ ActivatesNext(state, e, c) THEN Unreadable
                ELSE Parsed(IF c.version = 1 THEN ActiveIn(c.config_id, c.config_digest)
                            ELSE ActiveIn(c.successor.config_id, c.successor.config_digest),
                            <<>>)

RECURSIVE ConfigurationOf(_, _)
ConfigurationOf(state, entries) ==
    IF entries = <<>> THEN Parsed(state, <<>>)
    ELSE LET p == ValidateEntry(state, Head(entries))
         IN  IF p.ok THEN ConfigurationOf(p.value, Tail(entries)) ELSE p

\* validate_entry_shape
ValidShape(e) ==
    CASE e.entry_type = 1 -> Len(e.payload) <= MaxCommand
      [] e.entry_type = 5 -> e.payload = <<>>
      [] e.entry_type = ConfigChangeType -> RecognizeParts(e.entry_type, e.payload).ok
      [] OTHER -> FALSE

\* validate_entry_envelope: the entry belongs at this place of this log.
ValidInPlace(identity, e, index, prev) ==
    /\ e.index = index
    /\ <<e.cluster_id, e.epoch>> = identity
    /\ e.prev_hash = prev
    /\ RecomputeHash(e) = e.hash
    /\ ValidShape(e)

(***************************************************************************)
(* A page, as its sender makes it and as its receiver tests it             *)
(***************************************************************************)
Fetched(entries, last) == [error |-> "none", entries |-> entries, last |-> last]
Refused(error) == [error |-> error]

\* fetch_runtime_log.
FetchRuntimeLog(log, from, max) ==
    LET last == LogTip(log)[1]
        first == log.anchor[1]
    IN  IF from = 0 \/ max > MaxFetchEntries THEN Refused("invalid request")
        ELSE IF first > 0 /\ from <= first THEN Refused("snapshot required")
        ELSE IF max = 0 \/ from > last THEN Fetched(<<>>, last)
        ELSE Fetched(SubSeq(log.entries, from - first,
                            (IF from + max - 1 < last THEN from + max - 1 ELSE last) - first),
                     last)

\* handle_fetch_log tests the bounds itself, and answers with a bare status.
HandleFetchLog(log, from, max) ==
    IF from = 0 \/ max > MaxFetchEntries THEN Refused("decode")
    ELSE FetchRuntimeLog(log, from, max)

\* What HttpLogPeer makes of it.  The gate of a peer that has no permit left or
\* refuses the caller answers with a status and no body.
HttpFetchLog(peer, from, max) ==
    CASE peer.route = "up" -> HandleFetchLog(peer.log, from, max)
      [] peer.route = "down" -> Refused("transport")
      [] peer.route = "gate" -> Refused("decode")

\* validate_fetched_entries_with_configuration: every entry, in this order of
\* tests; the first that fails gives the error.
RECURSIVE ValidatePage(_, _, _, _, _)
ValidatePage(identity, config, from, prev, entries) ==
    IF entries = <<>> THEN "none"
    ELSE LET e == Head(entries)
             next == ValidateEntry(config, e)
         IN  IF e.index # from THEN "gap"
             ELSE IF <<e.cluster_id, e.epoch>> # identity THEN "foreign identity"
             ELSE IF e.prev_hash # prev THEN "invalid anchor"
             ELSE IF RecomputeHash(e) # e.hash \/ ~ ValidShape(e) \/ ~ next.ok
                  THEN "invalid entry"
             ELSE ValidatePage(identity, next.value, from + 1, e.hash, Tail(entries))

\* catch_up_missing_entries: a caller that knows the number of its
\* configuration and not the digest.
CatchUpMissingEntries(identity, tip, config, peer, max) ==
    LET from == tip[1] + 1
        page == HttpFetchLog(peer, from, max)
    IN  IF max = 0 THEN Fetched(<<>>, tip[1])
        ELSE IF max > MaxFetchEntries \/ identity[1] = <<>> THEN Refused("invalid request")
        ELSE IF page.error # "none" THEN page
        ELSE IF Len(page.entries) > max THEN Refused("invalid request")
        ELSE IF page.last < tip[1] \/ (page.entries = <<>> /\ page.last >= from)
             THEN Refused("gap")
        ELSE LET error == ValidatePage(identity, ActiveIn(config, 0), from, tip[2], page.entries)
             IN  IF error = "none" THEN page ELSE Refused(error)

(***************************************************************************)
(* NodeRuntime::open, once the local storage is reconciled.  The outcome   *)
(* is the log and "open", "retry" (open_runtime_with_retry tries again) or *)
(* "failed" (the process ends).                                            *)
(***************************************************************************)
Outcome(log, how) == [log |-> log, how |-> how]

\* persist_startup_entry: append and apply; the tests repeat those of a page.
PersistStartupEntry(identity, log, e) ==
    LET config == ConfigurationOf(log.config, log.entries)
    IN  IF /\ config.ok
           /\ ValidInPlace(identity, e, LogTip(log)[1] + 1, LogTip(log)[2])
           /\ ValidateEntry(config.value, e).ok
        THEN Outcome([log EXCEPT !.entries = Append(@, e)], "open")
        ELSE Outcome(log, "failed")

\* The entries of one page, each against the recorders.
RECURSIVE TakeCandidates(_, _, _, _)
TakeCandidates(identity, recorders, log, page) ==
    IF page = <<>> THEN Outcome(log, "open")
    ELSE LET slot == LogTip(log)[1] + 1
             kept == PersistStartupEntry(identity, log, Head(page))
         IN  IF ~ recorders.quorum THEN Outcome(log, "retry")
             ELSE IF slot > Len(recorders.decided) THEN Outcome(log, "failed")
             ELSE IF recorders.decided[slot] # Head(page) \/ kept.how # "open"
             THEN Outcome(log, "failed")
             ELSE TakeCandidates(identity, recorders, kept.log, Tail(page))

RECURSIVE RecoverPeerCandidates(_, _, _, _)
RecoverPeerCandidates(identity, recorders, log, peers) ==
    IF peers = <<>> THEN Outcome(log, "open")
    ELSE LET tip == LogTip(log)
             page == HttpFetchLog(Head(peers), tip[1] + 1, MaxFetchEntries)
             config == ConfigurationOf(log.config, log.entries)
         IN  IF page.error = "transport"
             THEN RecoverPeerCandidates(identity, recorders, log, Tail(peers))
             ELSE IF page.error # "none" THEN Outcome(log, "failed")
             ELSE IF ValidatePage(identity, config.value, tip[1] + 1, tip[2], page.entries) # "none"
             THEN Outcome(log, "failed")
             ELSE LET taken == TakeCandidates(identity, recorders, log, page.entries)
                  IN  IF taken.how # "open" THEN taken
                      ELSE RecoverPeerCandidates(identity, recorders, taken.log, Tail(peers))

\* recover_startup_decisions: a bounded number of slots, and the loop has to
\* find the empty one within the bound.  A pending slot is decided by a
\* barrier proposal: barrier is what wins it.
RECURSIVE RecoverStartupDecisions(_, _, _, _, _)
RecoverStartupDecisions(identity, recorders, log, barrier, rounds) ==
    IF rounds = 0 THEN Outcome(log, "failed")
    ELSE LET slot == LogTip(log)[1] + 1
             e == IF slot <= Len(recorders.decided) THEN recorders.decided[slot] ELSE barrier
             kept == PersistStartupEntry(identity, log, e)
             later == [recorders EXCEPT !.next = "empty", !.decided = Append(@, barrier)]
         IN  IF ~ recorders.quorum THEN Outcome(log, "retry")
             ELSE IF slot > Len(recorders.decided) /\ recorders.next = "empty"
             THEN Outcome(log, "open")
             ELSE IF kept.how # "open" THEN kept
             ELSE RecoverStartupDecisions(identity,
                     IF slot <= Len(recorders.decided) THEN recorders ELSE later,
                     kept.log, barrier, rounds - 1)

OpenLog(identity, recorders, log, peers, barrier) ==
    LET found == RecoverPeerCandidates(identity, recorders, log, peers)
    IN  IF found.how # "open" THEN found
        ELSE RecoverStartupDecisions(identity, recorders, found.log, barrier,
                                     MaxStartupRecoveryEntries)
=============================================================================
