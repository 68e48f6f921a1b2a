---------------------------- MODULE NodeStorage ----------------------------
(***************************************************************************)
(* What a node keeps on its disk: the qlog and the materialized view, from *)
(* NodeRuntime::open to a crash.  The recorders hold every decision; the   *)
(* view and, under the SQL and KV profiles, the tail of the qlog are       *)
(* mirrors no one waits for.                                               *)
(***************************************************************************)
EXTENDS SqlMaterializer, KvMaterializer, GraphMaterializer

CONSTANT MaxFaults    \* how many faults a behaviour has

VARIABLES
    qlog,        \* FileLogStore: the anchor, the tip, and the synced tip
    node,        \* the phase of the process
    archive,     \* the checkpoint the archive holds
    acked,       \* history: the highest tip a caller was answered at
    faults

ledger == <<log, profile>>
tables == <<kv, graphVars>>
view == <<sqlVars, tables>>
vars == <<ledger, view, qlog, node, archive, acked, faults>>

\* "snapshot" and "refused" are the errors of NodeRuntime::open:
\* SnapshotRequired, and Reconciliation or Storage.
Phases == {"down", "opened", "reconciling", "recovering", "ready", "compacting",
           "fatal", "snapshot", "refused"}

NoArchive == [tip |-> 0]

Init ==
    /\ log = <<>>
    /\ profile \in {"sql", "kv", "graph"}
    /\ SqlInit /\ KvInit /\ GraphInit
    /\ qlog = [anchor |-> 0, tip |-> 0, synced |-> 0]
    /\ node = "down"
    /\ archive = NoArchive /\ acked = 0 /\ faults = 0

\* The dispatch of Materializer on the profile.
Tip ==
    CASE profile = "sql" -> control.tip
      [] profile = "kv" -> kv.tip
      [] profile = "graph" -> graph.tip
Mirrored(first, last) ==
    \/ profile = "sql" /\ Embeds(control, first, last)
    \/ profile = "kv" /\ KvEmbeds(first, last)
TipReadable ==
    CASE profile = "sql" -> sql.step = "idle"
      [] profile = "kv" -> kv.open
      [] profile = "graph" -> graph.open

\* ensure_materialized_tip: the tips of the qlog and of the view are equal.
Settled == TipReadable /\ qlog.tip = Tip

Fault == faults < MaxFaults /\ faults' = faults + 1

-----------------------------------------------------------------------------
\* The recorders decide an entry.
Decision ==
    /\ Decide
    /\ UNCHANGED <<view, qlog, node, archive, acked, faults>>

\* A writer prepares an effect under the commit lock, once the tips agree and
\* the configuration takes writes.
PrepareWrite ==
    /\ profile = "sql" /\ node = "ready" /\ Settled
    /\ ConfigAt(qlog.tip).status = "active"
    /\ Prepare
    /\ UNCHANGED <<ledger, tables, qlog, node, archive, acked, faults>>

\* It proposes the effect under the same lock; the proposal is decided unless
\* another takes the slot.
DecideOwn ==
    /\ profile = "sql" /\ node = "ready" /\ sql.prepared # <<>>
    /\ Len(log) = sql.prepared[1].effect.base /\ Len(log) < MaxIndex
    /\ log' = Append(log, CommandEntry(sql.prepared[1].effect))
    /\ UNCHANGED <<profile, view, qlog, node, archive, acked, faults>>

-----------------------------------------------------------------------------
\* Materializer::open for SQL.  An existing pair that fails validation sends
\* the node to a snapshot when the qlog was compacted; otherwise it is set
\* aside and a new view starts, with the configuration of the qlog's tip.
OpenSql ==
    LET config == ConfigAt(qlog.tip)
    IN  \/ db.pages = <<>> /\ ~control.exists /\ CreateNew(config) /\ node' = "opened"
        \/ OpenExisting /\ node' = "opened"
        \/ /\ ~CanOpen /\ (db.pages # <<>> \/ control.exists)
           /\ IF qlog.anchor > 0
              THEN node' = "snapshot" /\ UNCHANGED sqlVars
              ELSE node' = "opened" /\ CreateNew(config)

\* The same for KV.
OpenKvView ==
    \/ OpenKv(InitialConfig) /\ node' = "opened"
    \/ /\ ~KvCanOpen(InitialConfig)
       /\ IF qlog.anchor > 0 THEN node' = "snapshot" /\ UNCHANGED kv
          ELSE node' = "opened" /\ RebuildKv(InitialConfig)

\* A graph database that does not open is an error.
OpenGraphView ==
    \/ OpenGraph(InitialConfig) /\ node' = "opened" /\ UNCHANGED lookup
    \/ ~GraphCanOpen(InitialConfig) /\ node' = "refused" /\ UNCHANGED graphVars

OpenStorage ==
    /\ node = "down"
    /\ \/ profile = "sql" /\ OpenSql /\ UNCHANGED tables
       \/ profile = "kv" /\ OpenKvView /\ UNCHANGED <<sqlVars, graphVars>>
       \/ profile = "graph" /\ OpenGraphView /\ UNCHANGED <<sqlVars, kv>>
    /\ UNCHANGED <<ledger, qlog, archive, acked, faults>>

\* reconcile_local_storage: a view behind the anchor needs a snapshot; a view
\* ahead of the qlog gives the qlog its tail back from the mirrored entries.
Reconcile ==
    /\ node = "opened"
    /\ \/ Tip < qlog.anchor /\ node' = "snapshot" /\ UNCHANGED qlog
       \/ Tip \in qlog.anchor .. qlog.tip /\ node' = "reconciling" /\ UNCHANGED qlog
       \/ /\ Tip > qlog.tip
          /\ IF Mirrored(qlog.tip + 1, Tip)
             THEN node' = "reconciling" /\ qlog' = [qlog EXCEPT !.tip = Tip, !.synced = Tip]
             ELSE node' = "refused" /\ UNCHANGED qlog
    /\ UNCHANGED <<ledger, view, archive, acked, faults>>

\* Its last part, after the suffix of the qlog was replayed: the view and the
\* qlog agree on the configuration.
Reconciled ==
    /\ node = "reconciling" /\ Settled
    /\ node' = IF profile = "sql" /\ control.config # ConfigAt(qlog.tip)
               THEN "refused" ELSE "recovering"
    /\ UNCHANGED <<ledger, view, qlog, archive, acked, faults>>

\* persist_startup_entry, for a decision a peer or the recorders hold: the
\* entry is synced to the qlog and then applied.
PersistStartup ==
    /\ node = "recovering" /\ Settled
    /\ Len(log) > qlog.tip
    /\ qlog' = [qlog EXCEPT !.tip = @ + 1, !.synced = qlog.tip + 1]
    /\ UNCHANGED <<ledger, view, node, archive, acked, faults>>

\* recover_peer_candidates meets a peer that compacted past the local tip.
PeerCompacted ==
    /\ node = "recovering" /\ Settled
    /\ archive.tip > qlog.tip
    /\ node' = "snapshot"
    /\ UNCHANGED <<ledger, view, qlog, archive, acked, faults>>

\* A node that serves before it has every decision.
ReadyAtOnce ==
    /\ node = "recovering" /\ Settled
    /\ node' = "ready"
    /\ UNCHANGED <<ledger, view, qlog, archive, acked, faults>>

\* recover_startup_decisions ends at the first slot that is empty.
Ready ==
    /\ node = "recovering" /\ Settled
    /\ Len(log) = qlog.tip
    /\ node' = "ready"
    /\ UNCHANGED <<ledger, view, qlog, archive, acked, faults>>

\* An inspection does not reach a quorum: open fails and is tried again.
Unavailable ==
    /\ node = "recovering" /\ Settled
    /\ Fault
    /\ node' = "down"
    /\ SqlCrash /\ KvCrash /\ GraphCrash
    /\ UNCHANGED <<ledger, qlog, archive, acked>>

-----------------------------------------------------------------------------
\* persist_entry, for a decision of this node's proposal, of a round it lost,
\* of a barrier or of the background materializer: the append is synced for
\* the graph profile only.
Persist ==
    /\ node = "ready" /\ Settled
    /\ Len(log) > qlog.tip
    /\ qlog' = [qlog EXCEPT !.tip = @ + 1,
                            !.synced = IF profile = "graph" THEN qlog.tip + 1 ELSE @]
    /\ UNCHANGED <<ledger, view, node, archive, acked, faults>>

\* The tip of a graph view that is closed cannot be read: the node latches it.
TipUnreadable ==
    /\ node = "ready" /\ profile = "graph" /\ ~TipReadable
    /\ node' = "fatal"
    /\ UNCHANGED <<ledger, view, qlog, archive, acked, faults>>

Applying == node \in {"reconciling", "recovering", "ready"} /\ qlog.tip > Tip

SqlStep(i) ==
    \/ ApplyNoop(i)
    \/ BeginPending(i)
    \/ CommitPending(i)
    \/ InstallNothing(i)
    \/ Promote(i)
    \/ StartPatch(i)
    \/ PatchPage(i)
    \/ Publish(i)
    \/ CommitApply(i)

\* Materializer::apply_entry.  A caller is answered when the tip moves.
Apply ==
    /\ Applying
    /\ \/ profile = "sql" /\ SqlStep(Tip + 1) /\ UNCHANGED tables
       \/ profile = "kv" /\ ApplyKv(Tip + 1) /\ UNCHANGED <<sqlVars, graphVars>>
       \/ profile = "graph" /\ ApplyGraph(Tip + 1) /\ UNCHANGED <<sqlVars, kv>>
    /\ UNCHANGED <<ledger, qlog, node, archive, faults>>
    /\ acked' = IF node = "ready" THEN Tip' ELSE acked

\* apply_entry fails: NodeRuntime::open returns the error, a running node
\* latches it.
Failed == IF node = "ready" THEN "fatal" ELSE "refused"
ApplyRefused ==
    /\ Applying /\ sql.step = "idle"
    /\ CASE profile = "sql" -> ~Applicable(Tip + 1)
         [] profile = "kv" -> ~KvApplicable(Tip + 1)
         [] profile = "graph" -> ~GraphApplicable(Tip + 1)
    /\ node' = Failed
    /\ UNCHANGED <<ledger, view, qlog, archive, acked, faults>>
ApplyFails ==
    /\ Applying /\ CommitFails
    /\ Fault
    /\ node' = Failed
    /\ UNCHANGED <<ledger, tables, qlog, archive, acked>>

-----------------------------------------------------------------------------
\* What a peer that has applied the prefix up to i exports.
PeerSnapshot(i) ==
    LET s == [tip |-> i, config |-> ConfigAt(i).id, data |-> DataAt(i), receipts |-> ReceiptsAt(i)]
    IN  IF profile = "sql"
        THEN [tip |-> i, config |-> ConfigAt(i), data |-> DataAt(i), state |-> StateAt(i),
              receipts |-> ReceiptsAt(i)]
        ELSE s
PeerCheckpoint ==
    /\ \E i \in archive.tip + 1 .. Len(log) : archive' = PeerSnapshot(i)
    /\ UNCHANGED <<ledger, view, qlog, node, acked, faults>>

\* Materializer::create_snapshot, published for the applied tip.
OwnSnapshot ==
    CASE profile = "sql" -> SqlSnapshot
      [] profile = "kv" -> KvSnapshot
      [] profile = "graph" -> GraphSnapshot
Checkpoint ==
    /\ node = "ready" /\ Settled
    /\ qlog.tip > archive.tip
    /\ profile = "sql" => Serving
    /\ profile = "graph" => lookup.step # "missed"
    /\ archive' = OwnSnapshot
    /\ UNCHANGED <<ledger, view, qlog, node, acked, faults>>

SnapshotFails ==
    /\ node = "ready" /\ profile = "graph" /\ Settled
    /\ CloseGraph
    /\ Fault
    /\ UNCHANGED <<ledger, sqlVars, kv, qlog, node, archive, acked>>

\* Materializer::compact_embedded_log_before
DropMirror(anchor) ==
    \/ profile = "sql" /\ CompactEmbedded(anchor) /\ UNCHANGED <<db, sql, tables>>
    \/ profile = "kv" /\ CompactKv(anchor) /\ UNCHANGED <<sqlVars, graphVars>>
    \/ profile = "graph" /\ UNCHANGED view

\* A compaction that drops the mirrored entries before the qlog is anchored.
CompactMirrorFirst ==
    /\ node = "ready" /\ Settled
    /\ archive.tip = qlog.tip /\ qlog.anchor < qlog.tip
    /\ node' = "compacting"
    /\ DropMirror(qlog.tip)
    /\ UNCHANGED <<ledger, qlog, archive, acked, faults>>

\* compact_log: the checkpoint of the applied tip anchors the qlog durably ...
CompactLog ==
    /\ node = "ready" /\ Settled
    /\ archive.tip = qlog.tip /\ qlog.anchor < qlog.tip
    /\ node' = "compacting"
    /\ qlog' = [anchor |-> qlog.tip, tip |-> qlog.tip, synced |-> qlog.tip]
    /\ UNCHANGED <<ledger, view, archive, acked, faults>>

\* ... and compact_embedded_log_before drops what lies before the anchor.
CompactMirror ==
    /\ node = "compacting"
    /\ node' = "ready"
    /\ DropMirror(qlog.anchor)
    /\ UNCHANGED <<ledger, qlog, archive, acked, faults>>

-----------------------------------------------------------------------------
\* restore_for_rejoin_preserving_recorder: the view and the qlog are replaced
\* by the published checkpoint.
Restore ==
    /\ node = "snapshot" /\ archive.tip >= qlog.anchor /\ archive.tip > 0
    /\ node' = "down"
    /\ qlog' = [anchor |-> archive.tip, tip |-> archive.tip, synced |-> archive.tip]
    /\ \/ /\ profile = "sql" /\ SqlRestorable(archive, archive.tip)
          /\ RestorePair(archive) /\ UNCHANGED tables
       \/ /\ profile = "kv" /\ KvRestorable(archive, archive.tip)
          /\ RestoreKv(archive) /\ UNCHANGED <<sqlVars, graphVars>>
       \/ /\ profile = "graph" /\ GraphRestorable(archive, archive.tip)
          /\ RestoreGraph(archive) /\ UNCHANGED <<sqlVars, kv>>
    /\ UNCHANGED <<ledger, archive, acked, faults>>

\* The process ends on a fatal error or on an error of NodeRuntime::open and
\* is started again.
Restart ==
    /\ node \in {"fatal", "refused"}
    /\ node' = "down"
    /\ SqlCrash /\ KvCrash /\ GraphCrash
    /\ UNCHANGED <<ledger, qlog, archive, acked, faults>>

\* The process is killed: what was written to a file stays.
Crash ==
    /\ node \notin {"down", "fatal", "refused", "snapshot"}
    /\ Fault
    /\ node' = "down"
    /\ SqlCrash /\ KvCrash /\ GraphCrash
    /\ UNCHANGED <<ledger, qlog, archive, acked>>

\* The power fails: the unsynced tail of the qlog may be gone.
PowerLoss ==
    /\ node \notin {"down", "fatal", "refused", "snapshot"}
    /\ Fault
    /\ node' = "down"
    /\ \E t \in qlog.synced .. qlog.tip : qlog' = [qlog EXCEPT !.tip = t, !.synced = t]
    /\ SqlPowerLoss /\ KvCrash /\ GraphCrash
    /\ UNCHANGED <<ledger, archive, acked>>

Damage ==
    /\ node = "down" /\ Fault
    /\ \/ profile = "kv" /\ DamageKv /\ UNCHANGED <<sqlVars, graphVars>>
       \/ profile = "graph" /\ DamageGraph /\ UNCHANGED <<sqlVars, kv>>
    /\ UNCHANGED <<ledger, qlog, node, archive, acked>>

\* A reader of the graph, which holds no lock the writer takes.
ReadDocument ==
    /\ profile = "graph" /\ node \in {"ready", "compacting"}
    /\ (\E id \in Key : Lookup(id)) \/ LookupAgain \/ LookupReturns
    /\ UNCHANGED <<ledger, sqlVars, kv, qlog, node, archive, acked, faults>>

Next ==
    \/ Decision
    \/ PrepareWrite
    \/ DecideOwn
    \/ OpenStorage
    \/ Reconcile
    \/ Reconciled
    \/ PersistStartup
    \/ PeerCompacted
    \/ Ready
    \/ Unavailable
    \/ Persist
    \/ TipUnreadable
    \/ Apply
    \/ ApplyRefused
    \/ ApplyFails
    \/ PeerCheckpoint
    \/ Checkpoint
    \/ SnapshotFails
    \/ CompactLog
    \/ CompactMirror
    \/ Restore
    \/ Restart
    \/ Crash
    \/ PowerLoss
    \/ Damage
    \/ ReadDocument

Spec == Init /\ [][Next]_vars

-----------------------------------------------------------------------------
\* The types of the variables; the log is one the proposers can build.
TypeOK ==
    /\ node \in Phases
    /\ qlog \in [anchor : 0 .. MaxIndex, tip : 0 .. MaxIndex, synced : 0 .. MaxIndex]
    /\ qlog.anchor <= qlog.synced /\ qlog.synced <= qlog.tip /\ qlog.tip <= Len(log)
    /\ archive.tip \in 0 .. Len(log) /\ acked \in 0 .. Len(log) /\ faults \in 0 .. MaxFaults
    /\ sql.todo \subseteq 1 .. MaxPages
    /\ sql.step \in {"idle", "pending", "patch", "commit"}

\* The value of a key in a prefix of the log.
Answer(key, i) ==
    [found |-> IF key \in DOMAIN DataAt(i) THEN DataAt(i)[key] ELSE Absent, tip |-> i]

\* Whatever a node answers from is exactly the replay of the decided prefix up
\* to the tip it reports: the pages or rows, the receipts, the Merkle levels
\* held in memory and the state the sidecar names, after any mix of promoted
\* targets, in-place patches, rebuilds, restores and crashes (apply_qwal_entry,
\* open_existing_file, RedbStateMachine::apply_entry, restore_snapshot_file).
ViewMatchesReplay ==
    /\ TypeOK
    /\ profile = "sql" /\ Serving =>
            /\ db.pages = DataAt(control.tip)
            /\ sql.cache = FromPages(db.pages)
            /\ control.state = Identity(sql.cache)
            /\ control.receipts = ReceiptsAt(control.tip)
            /\ node = "ready" => control.config = ConfigAt(control.tip)
    /\ kv.open =>
            /\ kv.data = DataAt(kv.tip) /\ kv.receipts = ReceiptsAt(kv.tip)
            /\ \A k \in Key : KvGet(k) = Answer(k, kv.tip)
    /\ graph.open => graph.data = DataAt(graph.tip) /\ graph.receipts = ReceiptsAt(graph.tip)
    /\ lookup.step = "done" =>
            [found |-> lookup.found, tip |-> lookup.tip] = Answer(lookup.id, lookup.tip)

\* Opening never fails for good because of a crash or a power loss: a snapshot
\* is only asked for when one that covers the anchor was published, and the
\* errors left are a damaged graph database and a new SQL view opened at the
\* configuration of a qlog that has already left the first one
\* (Materializer::open, reconcile_local_storage, compact_log).
ReopensUnlessCompacted ==
    /\ node = "snapshot" => archive.tip > 0 /\ archive.tip >= qlog.anchor
    /\ node = "refused" =>
          \/ profile = "graph" /\ ~graph.readable
          \/ profile = "sql" /\ faults > 0 /\ sql.open /\ control.config # ConfigAt(control.tip)
          \/ sql.step = "idle" /\ sql.uncommitted # 0
          \/ sql.fence

\* A node that serves again after any crash or power loss has at least what it
\* answered before: the mirrored tail, the qlog and the recorders together
\* bring back the unsynced part (persist_entry, reconcile_local_storage,
\* recover_startup_decisions).
AcknowledgedStaysVisible == node \in {"ready", "compacting"} => Tip >= acked \/ ~Settled
=============================================================================
