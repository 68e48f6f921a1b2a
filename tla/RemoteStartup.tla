--------------------------- MODULE RemoteStartup ---------------------------
(***************************************************************************)
(* The life of a node process that keeps its checkpoints in an object      *)
(* store (rhiza-cli, serve_remote_with_archive_until): it decides from its *)
(* data directory and the archive's checkpoint how to start, restores what *)
(* has to be restored, opens its recorder and its runtime, makes a new     *)
(* recorder learn the decisions of the others behind a gate, serves, and   *)
(* stops or is killed at any point.                                        *)
(***************************************************************************)
EXTENDS DataDirectory

CONSTANTS
    MaxIndex,    \* bound on the decided slots
    Generations  \* the recovery generations, from 1

VARIABLES
    engine,      \* "sql" (for SQL and KV) or "graph"
    dir,         \* the data directory
    node,        \* the process
    archive,     \* the checkpoint of each generation; its tip is None before it is initialised
    decided,     \* the last decided slot
    floor,       \* the peers' qlogs are compacted up to here
    forgotten,   \* the recorders were restored at this slot: they tell none up to it
    acked,       \* history: the slots of which the recorder answered for a vote
    left         \* the starts still to come, <<mode, generation>>, and how many of
                 \* each other kind of event

startupVars == <<engine, dir, node, archive, decided, floor, forgotten, acked, left>>

Slots == 1 .. MaxIndex
Checkpoint == [base : 0 .. MaxIndex, tip : None .. MaxIndex]

Down == [pc |-> "down", mode |-> "none", gen |-> 0, root |-> [base |-> 0, tip |-> 0],
         todo |-> <<>>, next |-> "none", prep |-> "none", create |-> FALSE,
         gate |-> "none", at |-> 0, cause |-> "none"]

\* One of the things the scenario lets happen.
Spend(kind) == left[kind] > 0 /\ left' = [left EXCEPT ![kind] = @ - 1]

Goes(pc) == node' = [node EXCEPT !.pc = pc]
Fails(cause) == node' = [Down EXCEPT !.pc = "failed", !.mode = node.mode, !.gen = node.gen,
                                     !.root = node.root, !.cause = cause]
Does(steps, next) == node' = [node EXCEPT !.pc = "steps", !.todo = steps, !.next = next]

World == <<engine, archive, decided, floor, forgotten, acked>>

-----------------------------------------------------------------------------
(* The preparation.  The archive's checkpoint is loaded first. *)

Modes == {"bootstrap", "rejoin", "disaster", "successor", "local"}

Start(mode, gen) ==
    /\ node.pc \in {"down", "failed"}
    /\ left.starts # <<>> /\ Head(left.starts) = <<mode, gen>>
    /\ left' = [left EXCEPT !.starts = Tail(@)]
    /\ mode # "local" => archive[gen].tip # None
    /\ node' = [Down EXCEPT !.pc = "prepare", !.mode = mode, !.gen = gen, !.root = archive[gen]]
    /\ UNCHANGED <<World, dir>>

\* recorder_open_policy_for_state: a valid recorder must be there, a missing
\* one is created.
Prepared(n, prep, d) == [n EXCEPT !.prep = prep, !.create = d.recorder = "missing"]

PrepareBootstrap ==
    /\ node.pc = "prepare" /\ node.mode = "bootstrap"
    /\ IF ~LocalDataIsFresh(dir) \/ node.root.tip # 0 THEN Fails("not fresh")
       ELSE node' = [node EXCEPT !.pc = "steps", !.next = "recorder", !.prep = "recorder-first",
                                 !.create = TRUE, !.todo = WriteIdentityMarker(dir, node.gen)]
    /\ UNCHANGED <<World, dir, left>>

\* Rejoin of a directory without local state.
PrepareFreshRejoin ==
    /\ node.pc = "prepare" /\ node.mode = "rejoin" /\ LocalDataIsFresh(dir)
    /\ node' = [node EXCEPT !.pc = "restore-fresh", !.prep = "runtime-first", !.create = TRUE]
    /\ UNCHANGED <<World, dir, left>>

Exact == dir.marker = node.gen
InProgress == RestoreInProgress(dir, node.gen, node.root, Exact)

\* preflight_local_recorder and recover_local_recorder_before_view_recovery.
Recovered(d) == [d EXCEPT !.recorder = IF @ = "recoverable" THEN "valid" ELSE @]

\* Rejoin of a directory with local state: a marker or an intent lets it in.
\* A recorder that a crash left recoverable is recovered before any view.
PrepareRejoin ==
    /\ node.pc = "prepare" /\ node.mode = "rejoin" /\ ~LocalDataIsFresh(dir)
    /\ IF MarkerRefused(dir, node.gen) \/ InProgress = "refused" \/ (~Exact /\ InProgress = "none")
          \/ dir.recorder = "torn"
       THEN Fails("rejoin") /\ UNCHANGED dir
       ELSE /\ dir' = Recovered(dir)
            /\ node' = [Prepared(node, "runtime-first", dir') EXCEPT
                          !.pc = CASE InProgress = "none" -> "validate"
                                   [] InProgress # "none" /\ engine = "graph" -> "restore-fresh"
                                   [] OTHER -> "restore-preserving"]
    /\ UNCHANGED <<World, left>>

PrepareDisaster ==
    /\ node.pc = "prepare" /\ node.mode = "disaster"
    /\ IF MarkerRefused(dir, node.gen) \/ InProgress = "refused"
          \/ (InProgress = "none" /\ ~LocalDataIsFresh(dir))
       THEN Fails("not fresh")
       ELSE node' = [node EXCEPT !.pc = "restore-fresh", !.prep = "recorder-first", !.create = TRUE]
    /\ UNCHANGED <<World, dir, left>>

\* A node of a successor configuration: its receipt stands for the marker.
PrepareSuccessor ==
    /\ node.pc = "prepare" /\ node.mode = "successor"
    /\ LET intent == dir.receipt # <<>> /\ dir.receipt[1] = "intent"
       IN  IF \/ MarkerRefused(dir, node.gen) \/ ~ReceiptMatches(dir.receipt, node.gen, node.root)
              \/ (~Exact /\ dir.receipt = <<>> /\ ~LocalDataIsFresh(dir))
              \/ (dir.recorder = "torn" /\ ~intent)
           THEN Fails("successor") /\ UNCHANGED dir
           ELSE /\ dir' = IF intent THEN dir ELSE Recovered(dir)
                /\ node' = [node EXCEPT !.pc = "restore-successor", !.prep = "recorder-first",
                                        !.create = FALSE]
    /\ UNCHANGED <<World, left>>

\* A node without an archive opens what it has.
PrepareLocal ==
    /\ node.pc = "prepare" /\ node.mode = "local"
    /\ IF dir.recorder = "torn" THEN Fails("local") /\ UNCHANGED dir
       ELSE /\ dir' = Recovered(dir)
            /\ node' = [Prepared(node, "recorder-first", dir') EXCEPT !.pc = "recorder"]
    /\ UNCHANGED <<World, left>>

\* validate_local_recovery_view: the artifacts of this very checkpoint are
\* removed, then the view is judged.
Validate ==
    /\ node.pc = "validate"
    /\ IF AllOwned(dir, RestoreOwner(node.gen, node.root)) THEN Does(Cleanup(dir), "judge")
       ELSE Goes("restore-preserving")
    /\ UNCHANGED <<World, dir, left>>

JudgeView ==
    /\ node.pc = "judge"
    /\ CASE ~ViewTrusted(dir, node.root, engine) -> Goes("restore-preserving")
         [] ViewTrusted(dir, node.root, engine) /\ dir.recorder = "missing" -> Goes("recorder")
         [] OTHER -> node' = [node EXCEPT !.pc = "recorder", !.prep = "verify"]
    /\ UNCHANGED <<World, dir, left>>

\* The restores read the archive again: its checkpoint may be newer.
RestoreIntoFresh ==
    /\ node.pc = "restore-fresh"
    /\ LET cp == archive[node.gen]
       IN  IF FreshRestoreAllowed(dir, node.gen, cp, dir.legacy /\ Exact)
           THEN node' = [node EXCEPT !.pc = "steps", !.next = "recorder", !.root = cp,
                                     !.todo = RestoreFresh(dir, node.gen, cp)]
           ELSE node' = [Down EXCEPT !.pc = "failed", !.mode = node.mode, !.gen = node.gen,
                                     !.root = cp, !.cause = "fresh restore"]
    /\ UNCHANGED <<World, dir, left>>

RestoreOverView ==
    /\ node.pc = "restore-preserving"
    /\ LET cp == archive[node.gen]
       IN  IF engine # "graph" /\ AllOwned(dir, RestoreOwner(node.gen, cp))
           THEN node' = [node EXCEPT !.pc = "steps", !.next = "recorder", !.root = cp,
                                     !.todo = RestorePreserving(dir, node.gen, cp)]
           ELSE node' = [Down EXCEPT !.pc = "failed", !.mode = node.mode, !.gen = node.gen,
                                     !.root = cp, !.cause = "preserving restore"]
    /\ UNCHANGED <<World, dir, left>>

Complete == dir.receipt # <<>> /\ dir.receipt[1] = "complete"
PrepareRoot ==
    /\ node.pc = "restore-successor"
    /\ IF SuccessorRootAllowed(dir, node.gen, node.root)
       THEN Does(PrepareSuccessorRoot(dir), "install-successor") ELSE Fails("successor")
    /\ UNCHANGED <<World, dir, left>>

\* The successor's restore refuses a checkpoint that changed meanwhile.
RestoreSuccessor ==
    /\ node.pc = "install-successor"
    /\ LET trusted == ViewTrusted(dir, node.root, engine)
       IN  IF \/ archive[node.gen] # node.root /\ ~(Complete /\ trusted)
              \/ Complete /\ ~trusted /\ engine = "graph"
           THEN Fails("successor")
           ELSE Does(IF Complete THEN SuccessorReopen(dir, node.gen, node.root, engine)
                     ELSE SuccessorRestore(dir, node.gen, node.root), "recorder")
    /\ UNCHANGED <<World, dir, left>>

DoStep ==
    /\ node.pc = "steps" /\ node.todo # <<>>
    /\ dir' = Perform(dir, Head(node.todo))
    /\ node' = [node EXCEPT !.todo = Tail(@)]
    /\ UNCHANGED <<World, left>>

StepsDone ==
    /\ node.pc = "steps" /\ node.todo = <<>>
    /\ node' = [node EXCEPT !.pc = node.next, !.next = "none"]
    /\ UNCHANGED <<World, dir, left>>

StepFails ==
    /\ node.pc = "steps" /\ node.todo # <<>> /\ node.next = "recorder" /\ Spend("fault")
    /\ dir' = StepError(dir, node.todo)
    /\ Fails("input or output")
    /\ UNCHANGED World
-----------------------------------------------------------------------------
(* The recorder, its server, the runtime. *)

\* open_recorder_at_policy.
OpenRecorder ==
    /\ node.pc = "recorder"
    /\ IF node.create = (dir.recorder = "missing")
       THEN Does(IF node.create THEN NewRecorder ELSE <<>>, "server")
       ELSE Fails("recorder")
    /\ UNCHANGED <<World, dir, left>>

\* The recorder answers from here on; StartupRecorderGate stands before it when
\* the runtime comes first.
StartServer ==
    /\ node.pc = "server"
    /\ node' = [node EXCEPT !.pc = "open-log",
                            !.gate = IF node.prep = "runtime-first" THEN "closed" ELSE "none"]
    /\ UNCHANGED <<World, dir, left>>

\* NodeRuntime::open: the lock and the qlog, then the view, which is made or
\* made again only for a qlog that starts at the beginning.
OpenLog ==
    /\ node.pc = "open-log"
    /\ dir' = [dir EXCEPT !.lock = TRUE, !.log = IF @ = <<>> THEN <<0, 0>> ELSE @]
    /\ Goes("open-view")
    /\ UNCHANGED <<World, left>>

\* reconcile_local_storage brings the view and the qlog to one tip.
OpenView ==
    /\ node.pc = "open-view"
    /\ LET view == IF dir.view < 0 THEN 0 ELSE dir.view
           tip == IF view > dir.log[2] THEN view ELSE dir.log[2]
       IN  IF view < dir.log[1] THEN Fails("snapshot required") /\ UNCHANGED dir
           ELSE dir' = [dir EXCEPT !.view = tip, !.log[2] = tip] /\ Goes("catch-up")
    /\ UNCHANGED <<World, left>>

Tip == dir.log[2]

\* recover_peer_candidates: the entries of a peer count once the recorders
\* certify them.  A peer that compacted them asks for a snapshot.
PeersRefuse ==
    /\ node.pc = "catch-up" /\ node.prep = "runtime-first"
    /\ Tip < Max({floor, forgotten})
    /\ Fails("peers")
    /\ UNCHANGED <<World, dir, left>>

\* recover_startup_decisions and persist_startup_entry.
CatchUp ==
    /\ node.pc = "catch-up" /\ forgotten <= Tip /\ Tip < decided
    /\ dir' = [dir EXCEPT !.log[2] = Tip + 1, !.view = Tip + 1]
    /\ UNCHANGED <<World, node, left>>

\* The recorders know nothing of the next slot.
CaughtUp ==
    /\ node.pc = "catch-up" /\ (Tip < forgotten \/ Tip = decided)
    /\ Goes("verify")
    /\ UNCHANGED <<World, dir, left>>

VerifyAlways ==
    /\ node.pc = "verify"
    /\ IF node.prep = "runtime-first" THEN node' = [node EXCEPT !.pc = "rehydrate", !.at = node.root.tip]
       ELSE Goes("publisher")
    /\ UNCHANGED <<World, dir, left>>

\* verify_local_rejoin_checkpoint, unless the recorder came first.
Verify ==
    /\ node.pc = "verify"
    /\ CASE node.prep = "recorder-first" -> Goes("publisher")
         [] node.prep # "recorder-first" /\ ~(dir.log[1] <= node.root.tip /\ node.root.tip <= Tip) ->
              Fails("behind")
         [] node.prep = "verify" /\ dir.log[1] <= node.root.tip /\ node.root.tip <= Tip ->
              Goes("publisher")
         [] OTHER -> node' = [node EXCEPT !.pc = "rehydrate", !.at = node.root.tip]
    /\ UNCHANGED <<World, dir, left>>

\* rehydrate_recorder_after_checkpoint: the command and the proof of each slot
\* the view has applied behind the checkpoint.
Rehydrate ==
    /\ node.pc = "rehydrate" /\ node.at < dir.view
    /\ dir' = [dir EXCEPT !.kept = @ \cup {node.at + 1}]
    /\ node' = [node EXCEPT !.at = @ + 1]
    /\ UNCHANGED <<World, left>>

Activate ==
    /\ node.pc = "rehydrate" /\ node.at = dir.view
    /\ node' = [node EXCEPT !.pc = "publisher", !.gate = "active"]
    /\ UNCHANGED <<World, dir, left>>

\* The coordinator and the client listener.
Serve ==
    /\ node.pc = "publisher"
    /\ Goes("serving")
    /\ UNCHANGED <<World, dir, left>>

-----------------------------------------------------------------------------
(* Serving. *)

\* StartupRecorderGate: what passes before the recorder is rehydrated.
Served(n) == n.pc \in {"open-log", "open-view", "catch-up", "verify", "rehydrate", "publisher", "serving",
                       "stopping"}
GateAdmits(kind, slot) ==
    CASE kind \in {"store", "record", "install"} -> node.gate # "closed"
      [] kind \in {"inspect", "fence"} -> node.gate = "closed" => slot > node.root.tip
      [] OTHER -> TRUE

\* The recorder records a vote and answers.
Record(slot) ==
    /\ Served(node) /\ GateAdmits("record", slot)
    /\ dir' = [dir EXCEPT !.kept = @ \cup {slot}]
    /\ acked' = acked \cup {slot}

AppendEntry ==
    /\ node.pc = "serving" /\ Tip < decided
    /\ dir' = [dir EXCEPT !.log[2] = @ + 1]
    /\ UNCHANGED <<World, node, left>>

ApplyEntry ==
    /\ node.pc = "serving" /\ dir.view < Tip
    /\ dir' = [dir EXCEPT !.view = @ + 1]
    /\ UNCHANGED <<World, node, left>>

\* checkpoint_compact drops the entries a published snapshot covers.
CompactLog ==
    /\ node.pc = "serving" /\ node.mode # "local"
    /\ dir.log[1] < archive[node.gen].base /\ archive[node.gen].base <= dir.view
    /\ dir' = [dir EXCEPT !.log[1] = archive[node.gen].base]
    /\ UNCHANGED <<World, node, left>>

-----------------------------------------------------------------------------
(* The rest of the cluster, the operator and the machine. *)

Decide ==
    /\ decided < MaxIndex /\ Spend("decide")
    /\ decided' = decided + 1
    /\ UNCHANGED <<engine, dir, node, archive, floor, forgotten, acked>>

\* Some node publishes: entries, or a snapshot at the tip as well.
Publish(gen) ==
    /\ archive[gen].tip # None /\ Spend("publish")
    /\ \E tip \in archive[gen].tip .. decided, snapshot \in BOOLEAN :
         archive' = [archive EXCEPT ![gen] = [base |-> IF snapshot THEN tip ELSE @.base, tip |-> tip]]
    /\ archive' # archive
    /\ UNCHANGED <<engine, dir, node, decided, floor, forgotten, acked>>

PeersCompact(gen) ==
    /\ floor < archive[gen].base /\ Spend("compact")
    /\ floor' = archive[gen].base
    /\ UNCHANGED <<engine, dir, node, archive, decided, forgotten, acked>>

\* The process is killed.  SQLite may be left with its side files, the recorder
\* with an unfinished write of its own.
Crash ==
    /\ node.pc \notin {"down", "failed"} /\ Spend("crash")
    /\ node' = Down
    /\ \E recorder \in {"valid", "recoverable"}, view \in {dir.view, Damaged} :
         /\ recorder = "recoverable" => Served(node)
         /\ view = Damaged => engine = "sql" /\ node.pc = "serving"
         /\ dir' = [dir EXCEPT !.recorder = IF @ \in {"valid", "recoverable"} /\ recorder = "recoverable"
                                            THEN recorder ELSE @,
                               !.view = view]
    /\ UNCHANGED World

\* The shutdown signal while the process waits.  A recorder that serves is
\* drained first; nothing else is written.
Waiting == {"prepare", "restore-fresh", "restore-preserving", "server", "open-log", "catch-up",
            "rehydrate", "publisher", "serving"}
Stop ==
    /\ node.pc \in Waiting /\ Spend("stop")
    /\ node' = IF Served(node) THEN [node EXCEPT !.pc = "stopping"] ELSE Down
    /\ UNCHANGED <<World, dir>>

Stopped ==
    /\ node.pc = "stopping"
    /\ node' = Down
    /\ UNCHANGED <<World, dir, left>>

\* The pod is replaced: its disk, with the recorder, is gone.
LoseDisk ==
    /\ node.pc = "down" /\ Spend("disk")
    /\ dir' = FreshDir /\ acked' = {}
    /\ UNCHANGED <<engine, node, archive, decided, floor, forgotten>>

-----------------------------------------------------------------------------
\* A vote the recorder answered for is never lost to what a startup, a repair
\* or a restore does with the directory: only with the disk itself.
RecorderVotesSurvive ==
    /\ acked \subseteq dir.kept
    /\ acked # {} => dir.recorder \in {"valid", "recoverable"}

\* A node that serves from its archive's generation bears that generation's
\* marker, has no restore left to finish, holds in its qlog everything between
\* its view and its tip, covers the checkpoint it started from, and its gated
\* recorder knows every decision behind that checkpoint.
ServingViewIsWhole ==
    node.pc = "serving" =>
        /\ node.mode # "local" => dir.marker = node.gen
        /\ dir.intent = <<>> /\ ~dir.legacy /\ dir.staging = {}
        /\ dir.receipt # <<>> => dir.receipt[1] = "complete"
        /\ dir.recorder = "valid" /\ dir.lock
        /\ dir.log[1] <= dir.view /\ dir.view <= Tip
        /\ node.mode # "local" => node.root.tip <= Tip
        /\ node.gate = "active" => node.root.tip + 1 .. node.at \subseteq dir.kept

\* The reasons for which a start may be refused.
Repeated ==
    \/ node.mode \in {"bootstrap", "disaster"} /\ ~LocalDataIsFresh(dir)
    \/ node.mode = "bootstrap" /\ node.root.tip > 0
OtherIdentity == dir.marker \notin {0, node.gen}
StaleIntent ==
    \/ dir.intent # <<>> /\ dir.intent # Intent(node.gen, node.root)
    \/ dir.receipt # <<>> /\ dir.receipt[1] = "intent" /\ dir.receipt[3] # node.root.tip
StaleArtifact ==
    \E a \in dir.staging \cup dir.quarantine : a # RestoreOwner(node.gen, node.root)
Leftover ==
    \/ "identity" \in dir.leftovers
    \/ LocalDataIsFresh(dir) /\ dir.quarantine # {}
TornRecorder == dir.recorder = "torn"
MovedOn ==
    \/ node.cause = "peers"
    \/ node.mode = "successor" /\ archive[node.gen] # node.root
    \/ engine = "graph" /\ dir.log # <<>> /\ Tip < forgotten

\* A start of a directory that only this program wrote, whatever it was killed
\* at, is refused for one of these reasons and no other: the operator asked
\* for a fresh start of a used directory; the directory is another
\* generation's; an intent or an artifact is bound to a checkpoint that is not
\* the archive's any more, or its ownership file is missing; a temporary file
\* or a quarantine stands in an otherwise fresh directory; the recorder was
\* half created; the peers have moved past what the directory holds.
StartsUnlessStale ==
    node.pc = "failed" /\ node.cause # "input or output" =>
        \/ Repeated \/ OtherIdentity \/ StaleIntent \/ StaleArtifact
        \/ Leftover \/ TornRecorder \/ MovedOn
=============================================================================
