------------------------ MODULE CheckpointCoordinator ------------------------
(***************************************************************************)
(* What a node does with the archive (rhiza-node, durability.rs): writes   *)
(* are confirmed once they are archived (DurabilityMode::Sync) or archived *)
(* by a worker behind a bounded lag (Bounded, Periodic), a checkpoint      *)
(* moves the archive's base and compacts the node's own log, and the       *)
(* health of the archive decides whether more writes are admitted.         *)
(*                                                                         *)
(* The archive is the one of module Checkpoint: a publication is one step  *)
(* on the current manifest, because its loop ends with the compare-and-    *)
(* swap that succeeds (CheckpointArchive has the steps).                   *)
(***************************************************************************)
EXTENDS Naturals, FiniteSets, FiniteSetsExt, Functions

CONSTANTS
    Node,         \* the nodes of the cluster
    MaxIndex,     \* bound on the decided log
    MaxFaults,    \* bound on failed archive calls and on process restarts
    Modes         \* the durability modes considered

ASSUME CoordinatorAssumption ==
    MaxIndex \in Nat /\ MaxFaults \in Nat /\ Modes \subseteq {"sync", "bounded"}

VARIABLES
    mode,         \* DurabilityMode of the cluster
    committed,    \* length of the decided log
    local,        \* each node's qlog: its anchor and its tip
    archive,      \* the manifest: base, tip, and where its segments end
    cached,       \* the manifest each node's publisher holds
    coord,        \* each node's CoordinatorState
    flush,        \* the flushes of each node: one of each confirmation, one of
                  \* the worker, one of the checkpoint
    faults        \* faults so far

vars == <<mode, committed, local, archive, cached, coord, flush, faults>>

Index == 0 .. MaxIndex
Entry == 1 .. MaxIndex
Worker == 0
Checkpointer == MaxIndex + 1
Job == Entry \cup {Worker, Checkpointer}

\* Where a flush is, the index it is for, and a checkpoint's snapshot.
NoFlush == [pc |-> "none", target |-> 0, snapshot |-> 0]

\* checkpoint_worker flushes the whole local log, again and again; there is none
\* in DurabilityMode::Sync.
NextTick == IF mode = "sync" THEN NoFlush ELSE [pc |-> "start", target |-> MaxIndex, snapshot |-> 0]
IdleJobs == [j \in Job |-> IF j = Worker THEN NextTick ELSE NoFlush]

Fault == faults < MaxFaults /\ faults' = faults + 1

Init ==
    /\ mode \in Modes
    /\ committed = 0
    /\ local = [n \in Node |-> [anchor |-> 0, tip |-> 0]]
    /\ archive = [base |-> 0, tip |-> 0, ends |-> {}]
    /\ cached = [n \in Node |-> archive]
    /\ coord = [n \in Node |-> [durable |-> 0, seen |-> 0, lag |-> "none", available |-> TRUE]]
    /\ flush = [n \in Node |-> IdleJobs]
    /\ faults = 0

-----------------------------------------------------------------------------
(* CoordinatorState. *)

\* note_committed, and note_recovered_committed with lag "recovered".
NoteCommitted(c, i, lag) ==
    LET d == [c EXCEPT !.seen = Max({@, i})]
    IN IF d.seen > d.durable /\ (i > c.seen \/ lag = "recovered")
                            /\ (d.lag = "none" \/ lag = "recovered")
       THEN [d EXCEPT !.lag = lag] ELSE d

\* The archive's tip is taken for the durable one even when it is older.
MarkDurableAny(c, tip) ==
    LET d == [c EXCEPT !.durable = tip]
    IN IF d.seen <= d.durable THEN [d EXCEPT !.lag = "none", !.available = TRUE] ELSE d

\* mark_durable_state: healthy again once every write it knows of is archived.
MarkDurable(c, tip) ==
    LET d == [c EXCEPT !.durable = Max({@, tip})]
    IN IF d.seen <= d.durable THEN [d EXCEPT !.lag = "none", !.available = TRUE] ELSE d

\* Any failed flush is an outage.
MarkUnavailableAlways(c) == [c EXCEPT !.available = FALSE]

\* mark_unavailable: a failed flush is an outage while a write waits for it.
MarkUnavailable(c) == IF c.seen > c.durable THEN [c EXCEPT !.available = FALSE] ELSE c

\* write_allowed.  The lag of new writes refuses more of them once max_lag has
\* passed, which a write that is not made covers.
WriteAllowed(n) ==
    LET c == coord[n] IN
    /\ mode = "sync" => c.available
    /\ mode = "bounded" => ~(c.seen > c.durable /\ c.lag = "recovered")

-----------------------------------------------------------------------------
(* The node. *)

\* ensure_ready: not while a checkpoint is under way.
Ready(n) == flush[n][Checkpointer].pc = "none"

\* confirm_write_durability: only synchronous writes wait for a flush.
Confirm(n, i) ==
    /\ coord' = [coord EXCEPT ![n] = NoteCommitted(@, i, "new")]
    /\ flush' = [flush EXCEPT ![n][i] =
                   IF mode = "sync" THEN [NoFlush EXCEPT !.pc = "start", !.target = i] ELSE @]

\* A write commits the next entry.
Write(n) ==
    /\ committed < MaxIndex /\ local[n].tip = committed
    /\ WriteAllowed(n) /\ Ready(n)
    /\ committed' = committed + 1
    /\ local' = [local EXCEPT ![n].tip = committed']
    /\ Confirm(n, committed')
    /\ UNCHANGED <<mode, archive, cached, faults>>

\* A request sent again is answered with its first index, which is confirmed here.
Resend(n, i) ==
    /\ i <= local[n].tip /\ flush[n][i].pc \in {"none", "error"}
    /\ WriteAllowed(n) /\ Ready(n)
    /\ Confirm(n, i)
    /\ UNCHANGED <<mode, committed, local, archive, cached, faults>>

\* materialize_next_decision: another node's entry.
Materialize(n) ==
    /\ local[n].tip < committed /\ Ready(n)
    /\ local' = [local EXCEPT ![n].tip = @ + 1]
    /\ UNCHANGED <<mode, committed, archive, cached, coord, flush, faults>>

-----------------------------------------------------------------------------
(* flush_runtime *)

\* A flush returns: to the confirmation, the worker or the checkpoint.
Returned(j, f) ==
    CASE j = Worker       -> NextTick
      [] j = Checkpointer -> [f EXCEPT !.pc = "snapshot"]
      [] OTHER            -> [NoFlush EXCEPT !.pc = "ok"]

\* A worker that any error stops.
FlushFailedStops(j, f, retried) ==
    IF j \in Entry THEN [f EXCEPT !.pc = IF retried THEN "start" ELSE "error"] ELSE NoFlush

\* It fails: the archive's errors are retried by a confirmation, the others
\* are its answer; the worker tries again and the checkpoint gives up.
FlushFailed(j, f, retried) ==
    IF j \in Entry THEN [f EXCEPT !.pc = IF retried THEN "start" ELSE "error"]
    ELSE IF j = Worker THEN NextTick ELSE NoFlush

Fails(n, j, retried) ==
    /\ flush' = [flush EXCEPT ![n][j] = FlushFailed(j, @, retried)]
    /\ coord' = [coord EXCEPT ![n] = MarkUnavailable(@)]

\* checkpoint_compact_inner, under the commit lock.
CheckpointStarts(n) ==
    /\ Ready(n) /\ local[n].tip > local[n].anchor
    /\ flush' = [flush EXCEPT ![n][Checkpointer] =
                   [pc |-> "start", target |-> local[n].tip, snapshot |-> local[n].tip]]
    /\ UNCHANGED <<mode, committed, local, archive, cached, coord, faults>>

Target(n, f) == Min({f.target, local[n].tip})

\* flush_runtime_inner up to the publication.
Flush(n, j) ==
    LET f == flush[n][j]
        last == Target(n, f)
    IN
    /\ f.pc = "start"
    /\ \/ /\ coord[n].durable > local[n].tip        \* ArchiveAheadOfLocal
          /\ Fails(n, j, FALSE)
       \/ /\ coord[n].durable <= local[n].tip /\ last <= coord[n].durable
          /\ flush' = [flush EXCEPT ![n][j] = Returned(j, @)]
          /\ UNCHANGED coord
       \/ /\ coord[n].durable <= local[n].tip /\ last > coord[n].durable
          /\ IF coord[n].durable < local[n].anchor  \* SnapshotRequired
             THEN Fails(n, j, FALSE)
             ELSE /\ flush' = [flush EXCEPT ![n][j] = [@ EXCEPT !.pc = "publish", !.target = last]]
                  /\ UNCHANGED coord
    /\ UNCHANGED <<mode, committed, local, archive, cached, faults>>

\* archived_hash_at
Tells(m, i) == i >= m.base /\ i <= m.tip

\* The manifest a publication up to last ends with, from the cached one when
\* that has it all, and otherwise from the current one.
Publication(n, last) ==
    IF cached[n].tip >= last THEN cached[n]
    ELSE IF archive.tip >= last THEN archive
    ELSE [archive EXCEPT !.tip = last, !.ends = @ \cup {last}]

\* publish_committed and what follows it.  The manifest is cached only on success.
Publish(n, j) ==
    LET f == flush[n][j]
        m == Publication(n, f.target)
    IN
    /\ f.pc = "publish"
    /\ IF Tells(m, f.target)
       THEN /\ archive' = IF m.tip > archive.tip THEN m ELSE archive
            /\ cached' = [cached EXCEPT ![n] = m]
            /\ coord' = [coord EXCEPT ![n] = MarkDurable(@, m.tip)]
            /\ flush' = [flush EXCEPT ![n][j] = Returned(j, @)]
       ELSE Fails(n, j, TRUE) /\ UNCHANGED <<archive, cached>>
    /\ UNCHANGED <<mode, committed, local, faults>>

\* An object-store error ends the publication.
PublishFails(n, j) ==
    /\ Fault
    /\ flush[n][j].pc = "publish"
    /\ Fails(n, j, TRUE)
    /\ UNCHANGED <<mode, committed, local, archive, cached>>

\* The head of publish_checkpoint_snapshot's loop for the manifest m: the base
\* moves forward, to the end of a segment.
Rebase(m, i) ==
    IF m.base = i THEN "done" ELSE IF m.base < i /\ i \in m.ends THEN "swap" ELSE "error"

\* publish_checkpoint_snapshot: from the cached manifest, or from the current
\* one when the swap of the cached one fails.
PublishSnapshot(n) ==
    LET i == flush[n][Checkpointer].snapshot
        m == IF Rebase(cached[n], i) = "swap" THEN archive ELSE cached[n]
    IN
    /\ flush[n][Checkpointer].pc = "snapshot"
    /\ flush' = [flush EXCEPT ![n][Checkpointer] =
                   IF Rebase(m, i) = "error" THEN NoFlush ELSE [@ EXCEPT !.pc = "verify"]]
    /\ archive' = IF Rebase(m, i) = "swap"
                  THEN [archive EXCEPT !.base = i, !.ends = {e \in @ : e > i}] ELSE archive
    /\ cached' = [cached EXCEPT ![n] = CASE Rebase(m, i) = "error" -> @
                                        [] Rebase(m, i) = "done"  -> m
                                        [] OTHER                  -> archive']
    /\ UNCHANGED <<mode, committed, local, coord, faults>>

\* The local log is compacted whatever is read back.
CompactUnverified(n) ==
    LET f == flush[n][Checkpointer] IN
    /\ f.pc \in {"snapshot", "verify"}
    /\ local' = [local EXCEPT ![n].anchor = f.snapshot]
    /\ coord' = [coord EXCEPT ![n] = MarkDurable(@, f.snapshot)]
    /\ flush' = [flush EXCEPT ![n][Checkpointer] = NoFlush]
    /\ UNCHANGED <<mode, committed, archive, cached, faults>>

\* The snapshot is read back; only then is the local log compacted.
Compact(n) ==
    LET f == flush[n][Checkpointer] IN
    /\ f.pc = "verify"
    /\ IF archive.base = f.snapshot
       THEN /\ local' = [local EXCEPT ![n].anchor = f.snapshot]
            /\ coord' = [coord EXCEPT ![n] = MarkDurable(@, f.snapshot)]
       ELSE UNCHANGED <<local, coord>>
    /\ flush' = [flush EXCEPT ![n][Checkpointer] = NoFlush]
    /\ UNCHANGED <<mode, committed, archive, cached, faults>>

\* refresh_durable_tip: an administrator's status request.
Refresh(n) ==
    /\ archive.tip > cached[n].tip
    /\ cached' = [cached EXCEPT ![n] = archive]
    /\ coord' = [coord EXCEPT ![n] = MarkDurable(@, archive.tip)]
    /\ UNCHANGED <<mode, committed, local, archive, flush, faults>>

\* The process stops and starts again: the confirmations are lost, the log is
\* brought up to the archive, from its snapshot if it ends before that, and the
\* coordinator opens on the manifest.
Restart(n) ==
    /\ Fault
    /\ local' = [local EXCEPT ![n] =
                   [anchor |-> IF @.tip < archive.base THEN archive.base ELSE @.anchor,
                    tip |-> Max({@.tip, archive.tip})]]
    /\ cached' = [cached EXCEPT ![n] = archive]
    /\ coord' = [coord EXCEPT ![n] =
                   NoteCommitted([durable |-> archive.tip, seen |-> archive.tip, lag |-> "none",
                                  available |-> TRUE], local'[n].tip, "recovered")]
    /\ flush' = [flush EXCEPT ![n] = [j \in Job |-> IF @[j].pc = "ok" THEN @[j] ELSE IdleJobs[j]]]
    /\ UNCHANGED <<mode, committed, archive>>

-----------------------------------------------------------------------------
Runs(n) ==
    \/ Materialize(n) \/ PublishSnapshot(n) \/ Compact(n)
    \/ \E j \in Job : Flush(n, j) \/ Publish(n, j)

Next ==
    \E n \in Node :
      \/ Runs(n) \/ Write(n) \/ \E i \in Entry : Resend(n, i)
      \/ CheckpointStarts(n)
      \/ \E j \in Job : PublishFails(n, j)
      \/ Refresh(n) \/ Restart(n)

\* The runtime goes on with every task that can: the materializer, a pending
\* confirmation, the worker and a checkpoint that was asked for.  Nobody is
\* bound to write, to resend, to ask for a status or to restart a node.
Fairness ==
    \A n \in Node :
      /\ WF_vars(Materialize(n)) /\ WF_vars(PublishSnapshot(n)) /\ WF_vars(Compact(n))
      /\ \A j \in Job : WF_vars(Flush(n, j)) /\ WF_vars(Publish(n, j))

Spec == Init /\ [][Next]_vars
FairSpec == Spec /\ Fairness

-----------------------------------------------------------------------------
\* The values of the variables; no log, archive or coordinator is ahead of
\* what was decided.
TypeOK ==
    /\ mode \in Modes /\ committed \in Index /\ faults \in 0 .. MaxFaults
    /\ local \in [Node -> [anchor : Index, tip : 0 .. committed]]
    /\ {archive} \cup Range(cached) \subseteq [base : Index, tip : 0 .. committed, ends : SUBSET Entry]
    /\ coord \in [Node -> [durable : 0 .. committed, seen : 0 .. committed,
                           lag : {"none", "new", "recovered"}, available : BOOLEAN]]
    /\ flush \in [Node -> [Job -> [pc : {"none", "start", "publish", "snapshot", "verify", "ok", "error"},
                                   target : Index, snapshot : Index]]]

\* DurabilityMode::Sync: a write that was confirmed is in the archive, whichever
\* node published it and whatever failed or was retried on the way.
ConfirmedIsArchived ==
    mode = "sync" => \A n \in Node, i \in Entry : flush[n][i].pc = "ok" => i <= archive.tip

\* A node drops entries from its own log only when a snapshot in the archive
\* has them, also when two nodes checkpoint at once.
CompactedIsArchived == \A n \in Node : local[n].anchor <= archive.base

\* What clients and nodes rely on is in the archive: every confirmed write, and
\* every entry a node no longer has.
ReliedOnIsArchived == ConfirmedIsArchived /\ CompactedIsArchived

\* The durable tip of a node never goes back, and the archive is never behind it.
DurableNeverRegresses ==
    [][\A n \in Node : coord[n].durable <= coord'[n].durable /\ coord'[n].durable <= archive'.tip]_vars

\* While a write the node acknowledged is not archived its lag is watched, so
\* that DurabilityMode::Bounded refuses writes once the lag is too long.
LagIsTracked == \A n \in Node : coord[n].seen > coord[n].durable => coord[n].lag # "none"

\* A node reports the archive unavailable, and in DurabilityMode::Sync refuses
\* writes, only while one of its writes really is not archived.
UnavailableMeansBehind ==
    \A n \in Node : ~coord[n].available => coord[n].seen > coord[n].durable

\* DurabilityMode::Bounded: the archive catches up with the decided log again
\* and again, although nodes publish and compact past one another and
\* publications fail.
EventuallyArchived == []<>(mode = "bounded" => archive.tip = committed)

\* The coordinator's view of the archive is consistent: nothing is ahead of what
\* was decided, an unarchived write is watched, and an outage is reported only
\* while there is one.
CoordinatorConsistent == TypeOK /\ LagIsTracked /\ UnavailableMeansBehind

=============================================================================
