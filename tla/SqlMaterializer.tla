--------------------------- MODULE SqlMaterializer ---------------------------
(***************************************************************************)
(* SqliteStateMachine: the canonical database file and the control sidecar *)
(* beside it, and how one decided entry is installed into the pair.  The   *)
(* lifecycle lock makes the operations of the running process exclude each *)
(* other; a crash falls between any two writes.  Neither file is synced,   *)
(* so a power loss may bring back an older one or none that can be read.   *)
(***************************************************************************)
EXTENDS ReplicatedLog

CONSTANTS Torn    \* the image of a page no transaction wrote: the zeroes of a
                  \* hole, or what a power loss leaves

VARIABLES
    db,        \* the canonical file: its pages (none when it does not exist)
               \* and whether -wal and -shm lie beside it
    control,   \* the control sidecar; embedded is the set of the indexes of
               \* the entries it mirrors, born the tip it was created with
    sql        \* SqliteStateMachine in memory

sqlVars == <<db, control, sql>>

NoDatabase == [pages |-> <<>>, sidecars |-> FALSE]
NoControl == [exists |-> FALSE, readable |-> FALSE, tip |-> 0, state |-> <<>>,
              config |-> InitialConfig, pending |-> 0, receipts |-> {},
              embedded |-> {}, born |-> 0]

\* No process: sql.open tells whether the state machine exists.
Closed == [open |-> FALSE, conn |-> FALSE, cache |-> <<>>, sealed |-> FALSE,
           fence |-> FALSE, uncommitted |-> 0, prepared |-> <<>>,
           step |-> "idle", todo |-> {}]

SqlInit == db = NoDatabase /\ control = NoControl /\ sql = Closed

Opened(pages, fence) ==
    [Closed EXCEPT !.open = TRUE, !.conn = TRUE, !.cache = FromPages(pages),
                   !.sealed = TRUE, !.fence = fence]

\* create_new: the file is made, hashed, and bound to a new sidecar that takes
\* the configuration the caller passes.
CreateNew(config) ==
    /\ db' = [pages |-> Genesis, sidecars |-> FALSE]
    /\ control' = [NoControl EXCEPT !.exists = TRUE, !.readable = TRUE,
                                    !.state = Identity(FromPages(Genesis)),
                                    !.config = config]
    /\ sql' = Opened(Genesis, FALSE)

\* rebuild_sealed_page_state: nothing may lie beside a closed database.
Readable(file) == file.pages # <<>> /\ ~file.sidecars

\* A validation that accepts whatever state the file is in.
PairValidUnchecked(file, c) == Readable(file) /\ c.readable

\* validate_control_database_pair
PairValid(file, c) ==
    /\ Readable(file)
    /\ c.readable
    /\ Identity(FromPages(file.pages)) = c.state

\* open_existing_file and the checks of open_with_configuration.
CanOpen == db.pages # <<>> /\ control.exists /\ PairValid(db, control)
OpenExisting ==
    /\ CanOpen
    /\ sql' = Opened(db.pages, control.pending # 0)
    /\ UNCHANGED <<db, control>>

\* insert_or_validate_embedded_entry: the entry is mirrored with the change.
Mirror(c, i) == [c EXCEPT !.embedded = @ \cup {i}]

\* lookup_requests: the requests of a batch have receipts.
Recorded(c, i) == i \in c.receipts

\* commit_applied_transaction: the tip, the configuration, the state, the
\* receipts and the end of the intent, in one transaction of the sidecar.
Applied(c, i) ==
    LET effect == log[i].type = "command"
    IN  [c EXCEPT !.tip = i, !.config = ConfigStep(@, log[i]), !.pending = 0,
                  !.state = IF effect THEN log[i].op.target ELSE @,
                  !.receipts = IF effect THEN @ \cup {i} ELSE @]

-----------------------------------------------------------------------------
\* What check_request, get_value, a query or a snapshot need.
Serving == sql.open /\ sql.conn /\ ~sql.fence /\ sql.step = "idle"

\* The closed base is the file the cached levels were computed from.
Sealed == sql.sealed /\ Identity(sql.cache) = control.state

\* prepare_qwal_effect: the transaction runs on a private copy of the closed
\* base, and the copy becomes the prepared target of the captured effect.
Prepare ==
    /\ Serving
    /\ Sealed
    /\ \E w \in Wal(db.pages) :
          /\ CaptureFits(w) /\ CaptureComplete(db.pages, w)
          /\ sql' = [sql EXCEPT !.prepared =
                        << [file |-> Materialized(db.pages, w),
                            effect |-> Effect(control.tip, sql.cache, db.pages, w)] >>]
    /\ UNCHANGED <<db, control>>

Prepares(effect) == sql.prepared # <<>> /\ sql.prepared[1].effect = effect

\* preverify_page_state_transition: the effect starts from the cached state
\* and leads where it says.
Preverified(i) ==
    LET e == log[i].op
        current == Identity(sql.cache)
    IN  IF current = e.target /\ current # e.from THEN sql.uncommitted = i
        ELSE /\ current = e.from
             /\ ValidPatch(sql.cache, e.count, e.patch)
             /\ Overlay(sql.cache, e.count, e.patch) = e.target

\* The checks of apply_entry_with_result and apply_qwal_entry before anything
\* is changed.
Applicable(i) ==
    LET e == log[i]
    IN  /\ sql.open /\ sql.sealed
        /\ sql.uncommitted # 0 => sql.uncommitted = i
        /\ sql.uncommitted = 0 /\ sql.fence => control.pending = i
        /\ i = control.tip + 1
        /\ ConfigStep(control.config, e) # Invalid
        /\ e.type = "command" =>
              /\ ValidEffect(e.op)
              /\ e.op.base = control.tip
              /\ e.op.from = control.state
              /\ ~Recorded(control, i)
              /\ Preverified(i)
              /\ sql.conn \/ Prepares(e.op) \/ e.op.target = e.op.from

\* commit_metadata_only_entry_with_log: a barrier moves the tip alone.
ApplyNoop(i) ==
    /\ Applicable(i) /\ log[i].type = "noop" /\ sql.step = "idle"
    /\ control.pending = 0
    /\ control' = Mirror([control EXCEPT !.tip = i], i)
    /\ sql' = [sql EXCEPT !.prepared = <<>>]
    /\ UNCHANGED db

\* begin_pending_with_entry: a change of configuration is announced first.
BeginPending(i) ==
    /\ Applicable(i) /\ log[i].type \in {"stop", "activate"} /\ sql.step = "idle"
    /\ control' = Mirror([control EXCEPT !.pending = i], i)
    /\ sql' = [sql EXCEPT !.prepared = <<>>, !.fence = TRUE, !.step = "pending"]
    /\ UNCHANGED db

\* commit_applied
CommitPending(i) ==
    /\ sql.step = "pending" /\ control.pending = i
    /\ control' = Applied(control, i)
    /\ sql' = [sql EXCEPT !.fence = FALSE, !.step = "idle"]
    /\ UNCHANGED db

\* install_qwal_effect on a database that is already at the target: nothing is
\* written.
InstallNothing(i) ==
    /\ Applicable(i) /\ log[i].type = "command" /\ sql.step = "idle"
    /\ Identity(sql.cache) = log[i].op.target
    /\ sql' = [sql EXCEPT !.fence = TRUE, !.uncommitted = i, !.conn = TRUE, !.step = "commit",
                          !.prepared = IF Prepares(log[i].op) THEN @ ELSE <<>>]
    /\ UNCHANGED <<db, control>>

\* promote_prepared_target: the prepared copy is renamed over the database and
\* the cached levels are patched.
Promote(i) ==
    /\ Applicable(i) /\ log[i].type = "command" /\ sql.step = "idle"
    /\ Identity(sql.cache) # log[i].op.target
    /\ Prepares(log[i].op)
    /\ db' = [pages |-> sql.prepared[1].file, sidecars |-> FALSE]
    /\ sql' = [sql EXCEPT !.fence = TRUE, !.uncommitted = i, !.conn = TRUE, !.step = "commit",
                          !.cache = ApplyPatch(@, log[i].op.count, log[i].op.patch),
                          !.prepared = <<>>]
    /\ UNCHANGED control

\* Without a prepared target, or when its seal is broken: the connection is
\* closed and the file is cut or extended to the size of the target.
StartPatch(i) ==
    /\ Applicable(i) /\ log[i].type = "command" /\ sql.step = "idle"
    /\ Identity(sql.cache) # log[i].op.target
    /\ db' = [db EXCEPT !.pages = Truncated(@, log[i].op.count, Torn)]
    /\ sql' = [sql EXCEPT !.fence = TRUE, !.conn = FALSE, !.sealed = FALSE, !.step = "patch",
                          !.prepared = <<>>, !.todo = DOMAIN log[i].op.patch]
    /\ UNCHANGED control

\* apply_preverified_qwal_in_place writes the pages in ascending order.
PatchPage(i) ==
    /\ sql.step = "patch" /\ sql.todo # {}
    /\ LET p == CHOOSE p \in sql.todo : \A q \in sql.todo : p <= q
       IN  /\ db' = [db EXCEPT !.pages[p] = log[i].op.patch[p]]
           /\ sql' = [sql EXCEPT !.todo = @ \ {p}]
    /\ UNCHANGED control

\* publish_page_state_after_install, and the connection opens again.
Publish(i) ==
    /\ sql.step = "patch" /\ sql.todo = {}
    /\ sql' = [sql EXCEPT !.cache = ApplyPatch(@, log[i].op.count, log[i].op.patch),
                          !.sealed = TRUE, !.uncommitted = i, !.conn = TRUE, !.step = "commit"]
    /\ UNCHANGED <<db, control>>

\* The target is published with its receipts and the mirrored entry in one
\* transaction of the sidecar: commit_rebuildable_apply.
CommitApply(i) ==
    /\ sql.step = "commit"
    /\ control' = Mirror(Applied(control, i), i)
    /\ sql' = [sql EXCEPT !.fence = FALSE, !.uncommitted = 0, !.step = "idle"]
    /\ UNCHANGED db

\* The transaction of the sidecar fails, the connection is closed, and the
\* effect stays installed and uncommitted.
CommitFails ==
    /\ sql.step \in {"commit", "pending"}
    /\ sql' = [sql EXCEPT !.conn = sql.step = "pending" /\ @, !.step = "idle"]
    /\ UNCHANGED <<db, control>>

-----------------------------------------------------------------------------
\* compact_embedded_log_before
CompactEmbedded(anchor) ==
    control' = [control EXCEPT !.embedded = {i \in @ : i >= anchor}]

\* embedded_log_entries: the whole interval, or an error.
Embeds(c, first, last) == first .. last \subseteq c.embedded

\* export_replicated_snapshot: what a snapshot takes from the sidecar.
Exported ==
    [tip |-> control.tip, config |-> control.config, state |-> control.state,
     receipts |-> control.receipts]

\* create_snapshot and create_recovery_snapshot: the checkpointed file, and the
\* sidecar's part.
SqlSnapshot == Exported @@ [data |-> db.pages]

\* decode_qwal_snapshot and the checks of restore_snapshot_file.
SqlRestorable(s, anchor) == s.tip = anchor /\ Identity(FromPages(s.data)) = s.state

\* import_replicated_snapshot: a new sidecar, with an empty mirror.
ImportedControl(s) ==
    [NoControl EXCEPT !.exists = TRUE, !.readable = TRUE, !.tip = s.tip, !.state = s.state,
                      !.config = s.config, !.receipts = s.receipts, !.born = s.tip]

\* restore_recovery_snapshot_file, in a directory where nothing is.
RestorePair(s) ==
    /\ db' = [pages |-> s.data, sidecars |-> FALSE]
    /\ control' = ImportedControl(s)
    /\ sql' = Closed

-----------------------------------------------------------------------------
\* The process dies: an open connection may leave its WAL files behind.
SqlCrash ==
    /\ sql' = Closed
    /\ \E left \in {FALSE, sql.conn \/ db.sidecars} : db' = [db EXCEPT !.sidecars = left]
    /\ UNCHANGED control

\* What an unsynced sidecar may come back as.
Older(c) ==
    {c} \cup {[c EXCEPT !.readable = FALSE]} \cup
    {[c EXCEPT !.tip = t, !.state = StateAt(t), !.config = ConfigAt(t), !.pending = 0,
               !.receipts = ReceiptsAt(t), !.embedded = @ \cap (1 .. t)] :
        t \in {u \in c.born .. c.tip : u < c.tip}}

\* The machine loses its power: both files are as old as they happen to be.
SqlPowerLoss ==
    /\ sql' = Closed
    /\ control' \in IF control.exists THEN Older(control) ELSE {control}
    /\ db' \in [pages : {db.pages} \cup (IF db.pages = <<>> THEN {}
                                          ELSE {<<Torn>>} \cup {DataAt(t) : t \in control.born .. control.tip}),
                sidecars : {FALSE}]
=============================================================================
