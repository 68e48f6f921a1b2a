--------------------------- MODULE DataDirectory ----------------------------
(***************************************************************************)
(* The data directory of one node: what a startup finds there, and the     *)
(* file-system steps by which a checkpoint is restored into it             *)
(* (rhiza-node, durability.rs; the identity marker of rhiza-cli).  The     *)
(* process may die between any two steps, so a procedure is the sequence   *)
(* of the steps it has left.  What a killed process wrote stays written,   *)
(* in the order it was written.                                            *)
(*                                                                         *)
(* A checkpoint is [base, tip]: the index of its snapshot, 0 for none, and *)
(* the last index of its segments.  An artifact directory (staging or      *)
(* quarantine) is told by the identity in its ownership file, <<>> when    *)
(* the file is not there.                                                  *)
(***************************************************************************)
EXTENDS Integers, Sequences, FiniteSets, FiniteSetsExt

None == -1      \* no materialized view
Damaged == -2   \* a view its engine refuses to open

FreshDir ==
    [marker     |-> 0,          \* the generation the identity marker names, 0 for none
     intent     |-> <<>>,       \* the restore intent: <<generation, tip>>
     legacy     |-> FALSE,      \* the intent of format 1
     receipt    |-> <<>>,       \* the successor's: <<"intent" or "complete", generation, tip>>
     staging    |-> {},
     quarantine |-> {},
     view       |-> None,       \* the index the materialized view has applied
     log        |-> <<>>,       \* the qlog: <<anchor, tip>>
     recorder   |-> "missing",
     kept       |-> {},         \* the slots the recorder holds a vote or a proof of
     leftovers  |-> {},         \* temporary files of "restore" and "identity" markers
     lock       |-> FALSE]      \* .node.lock

Names(d) ==
    {n \in {"marker", "intent", "legacy", "receipt", "staging", "quarantine", "view",
            "log", "recorder", "restore", "identity", "lock"} :
        CASE n \in {"restore", "identity"} -> n \in d.leftovers
          [] n = "recorder" -> d.recorder # "missing"
          [] n = "marker" -> d.marker > 0
          [] n = "view" -> d.view # None
          [] n \in {"legacy", "lock"} -> d[n]
          [] n \in {"intent", "receipt", "log"} -> d[n] # <<>>
          [] OTHER -> d[n] # {}}

\* local_data_is_fresh looks at the state a node serves from, not at intents,
\* artifacts or temporary files.
LocalDataIsFresh(d) == Names(d) \cap {"marker", "log", "view", "recorder"} = {}

Intent(gen, cp) == <<gen, cp.tip>>
RestoreOwner(gen, cp) == <<"restore", gen, cp.tip>>
SuccessorOwner(gen, tip) == <<"successor", gen, tip>>

-----------------------------------------------------------------------------
(* What a startup reads. *)

\* The exact marker, or a refusal.
MarkerRefused(d, gen) == d.marker \notin {0, gen}

\* checkpoint_restore_in_progress: "none", "identity", "legacy" or "refused".
RestoreInProgress(d, gen, cp, exactMarker) ==
    CASE d.legacy /\ d.intent # <<>> -> "refused"
      [] d.legacy /\ d.intent = <<>> -> IF exactMarker THEN "legacy" ELSE "refused"
      [] ~d.legacy /\ d.intent = <<>> -> "none"
      [] OTHER -> IF d.intent = Intent(gen, cp) THEN "identity" ELSE "refused"

\* cleanup_owned_recovery_artifacts refuses unless all artifacts are the owner's.
AllOwned(d, owner) == d.staging \cup d.quarantine \subseteq {owner}

\* validate_local_materializer_identity: the view opens and is this node's.
MaterializerTrusted(d) == d.view \notin {None, Damaged}

\* validate_local_qlog: the checkpoint's root is the qlog's anchor or in it.
LogCovers(d, cp) ==
    IF d.log = <<>> THEN cp.tip = 0 ELSE d.log[1] <= cp.tip /\ cp.tip <= d.log[2]

\* The graph profile has neither check.
ViewTrusted(d, cp, engine) == engine # "graph" => MaterializerTrusted(d) /\ LogCovers(d, cp)

\* prepare_fresh_restore_data_dir.
FreshRestoreAllowed(d, gen, cp, resumeLegacy) ==
    \/ Names(d) \subseteq {"restore"}
    \/ /\ d.intent # <<>> \/ d.legacy
       /\ ~(d.intent # <<>> /\ d.legacy)
       /\ IF d.legacy THEN resumeLegacy /\ d.staging = {}
          ELSE d.intent = Intent(gen, cp) /\ d.staging \subseteq {RestoreOwner(gen, cp)}
       /\ Names(d) \subseteq {"intent", "legacy", "marker", "view", "log", "restore", "staging"}

\* completed_successor_identity_matches: the receipt's checkpoint may be older.
ReceiptMatches(receipt, gen, cp) ==
    CASE receipt = <<>> -> TRUE
      [] receipt # <<>> /\ receipt[1] = "intent" -> receipt = <<"intent", gen, cp.tip>>
      [] OTHER -> receipt[2] = gen /\ receipt[3] <= cp.tip

\* prepare_successor_restore_root: the names each state of the receipt allows.
SuccessorRootAllowed(d, gen, cp) ==
    /\ ReceiptMatches(d.receipt, gen, cp)
    /\ d.receipt # <<>> => AllOwned(d, SuccessorOwner(gen, d.receipt[3]))
    /\ LET common == {"restore"}
           views == {"receipt", "marker", "view", "log", "recorder", "staging", "quarantine"}
       IN  Names(d) \subseteq
             CASE d.receipt = <<>> -> common
               [] d.receipt # <<>> /\ d.receipt[1] = "intent" -> common \cup views
               [] OTHER -> common \cup views \cup {"lock"}

-----------------------------------------------------------------------------
(* The steps.  A step is [do |-> its name, with |-> its argument]. *)

Step(name, arg) == [do |-> name, with |-> arg]

\* A temporary file of a marker, and the artifact directories, are removed on
\* errors too.
RemoveTmp(d, kind) == [d EXCEPT !.leftovers = @ \ {kind}]
RemoveArtifact(d, role) == [d EXCEPT ![role] = {}]

PlaceView(d, cp) == [d EXCEPT !.view = cp.base]
PlaceLog(d, cp) == [d EXCEPT !.log = <<cp.base, cp.tip>>]

CompleteReceiptNever(d) == d

\* SuccessorRestorePreparation::complete.
CompleteReceipt(d) == [d EXCEPT !.receipt = [@ EXCEPT ![1] = "complete"]]

\* RecorderFileStore::new_with_membership writes several files; until the last
\* of them its preflight refuses the directory.
BeginRecorder(d) == [d EXCEPT !.recorder = "torn"]
CreateRecorder(d) == [d EXCEPT !.recorder = "valid"]

\* publish_restore_marker writes a temporary file and renames it; the identity
\* marker of the command line is linked instead, and its temporary file removed
\* after.  An artifact directory is made, then owned; remove_dir_all may take
\* the ownership file first.  The views are taken away (wiped, or moved to the
\* quarantine) and put in place.
Perform(d, s) ==
    CASE s.do = "tmp" -> [d EXCEPT !.leftovers = @ \cup {s.with}]
      [] s.do \in {"intent", "receipt", "marker"} ->
            RemoveTmp([d EXCEPT ![s.do] = s.with], "restore")
      [] s.do = "link" -> [d EXCEPT !.marker = s.with]
      [] s.do = "untmp" -> RemoveTmp(d, s.with)
      [] s.do = "make" -> [d EXCEPT ![s.with] = @ \cup {<<>>}]
      [] s.do = "own" -> [d EXCEPT ![s.with[1]] = (@ \ {<<>>}) \cup {s.with[2]}]
      [] s.do = "disown" -> [d EXCEPT ![s.with] = {<<>>}]
      [] s.do = "remove" -> RemoveArtifact(d, s.with)
      [] s.do = "take-view" -> [d EXCEPT !.view = None]
      [] s.do = "take-log" -> [d EXCEPT !.log = <<>>]
      [] s.do = "view" -> PlaceView(d, s.with)
      [] s.do = "log" -> PlaceLog(d, s.with)
      [] s.do = "unintent" -> [d EXCEPT !.intent = <<>>, !.legacy = FALSE]
      [] s.do = "complete" -> CompleteReceipt(d)
      [] s.do = "begin-recorder" -> BeginRecorder(d)
      [] s.do = "recorder" -> CreateRecorder(d)
      [] s.do = "wipe-recorder" -> [d EXCEPT !.recorder = "missing", !.kept = {}]

-----------------------------------------------------------------------------
(***************************************************************************)
(* The restore procedures of rhiza-node (durability.rs) and the identity   *)
(* marker of rhiza-cli, each as the sequence of the file-system steps it   *)
(* takes from a given directory.                                           *)
(***************************************************************************)

\* write_local_checkpoint_identity_marker keeps a marker that is there.
WriteIdentityMarker(d, gen) ==
    IF d.marker > 0 THEN <<>>
    ELSE <<Step("tmp", "identity"), Step("link", gen), Step("untmp", "identity")>>

\* cleanup_owned_recovery_artifacts, once it found every artifact owned.
RemoveAll(d, role) ==
    IF d[role] = {} THEN <<>> ELSE <<Step("disown", role), Step("remove", role)>>
Cleanup(d) == RemoveAll(d, "staging") \o RemoveAll(d, "quarantine")

RemoveMarkerTmps(d) == IF "restore" \in d.leftovers THEN <<Step("untmp", "restore")>> ELSE <<>>

\* create_restore_staging_dir; the snapshot and the qlog are written inside.
Stage(owner) == <<Step("make", "staging"), Step("own", <<"staging", owner>>)>>

\* quarantine_rebuildable_view: nothing to do when there is no view.
Quarantine(d, owner) ==
    IF d.view = None /\ d.log = <<>> THEN <<>>
    ELSE <<Step("make", "quarantine"), Step("own", <<"quarantine", owner>>),
           Step("take-view", {}), Step("take-log", {})>>

FinishIntentFirst(gen) == <<Step("unintent", {}), Step("tmp", "restore"), Step("marker", gen)>>

\* The end of publish_restore_staging: the completion marker, then the intent.
Finish(gen) == <<Step("tmp", "restore"), Step("marker", gen), Step("unintent", {})>>

\* publish_restore_staging: a checkpoint without a snapshot has no view, an
\* empty one no qlog.
PublishStaging(cp) ==
    (IF cp.base > 0 THEN <<Step("view", cp)>> ELSE <<>>)
    \o (IF cp.tip > 0 THEN <<Step("log", cp)>> ELSE <<>>)
    \o <<Step("disown", "staging"), Step("remove", "staging")>>

\* install_restored_checkpoint.
Install(d, cp, owner, replace) ==
    Stage(owner) \o (IF replace THEN Quarantine(d, owner) ELSE <<>>) \o PublishStaging(cp)

PublishIntent(gen, cp) == <<Step("tmp", "restore"), Step("intent", Intent(gen, cp))>>

\* The wipe of prepare_fresh_restore_data_dir when it resumes.
WipeViews == <<Step("take-view", {}), Step("take-log", {})>>
ResumeFresh(d) ==
    IF d.intent = <<>> /\ ~d.legacy THEN RemoveMarkerTmps(d)
    ELSE WipeViews \o RemoveAll(d, "staging") \o RemoveMarkerTmps(d) \o <<Step("unintent", {})>>

\* restore_checkpoint_to_fresh_data_dir_with_target.
RestoreFresh(d, gen, cp) ==
    ResumeFresh(d) \o PublishIntent(gen, cp)
    \o Install(d, cp, RestoreOwner(gen, cp), FALSE) \o Finish(gen)

\* restore_checkpoint_for_rejoin_preserving_recorder.
RestorePreserving(d, gen, cp) ==
    Cleanup(d)
    \o (IF d.legacy THEN <<Step("unintent", {})>> ELSE <<>>)
    \o PublishIntent(gen, cp)
    \o Install(d, cp, RestoreOwner(gen, cp), TRUE) \o Finish(gen)

\* prepare_successor_restore_root, once it found the names allowed: an
\* interrupted restore starts again from nothing.
PrepareSuccessorRoot(d) ==
    Cleanup(d) \o RemoveMarkerTmps(d)
    \o (IF d.receipt # <<>> /\ d.receipt[1] = "intent"
        THEN WipeViews \o <<Step("wipe-recorder", {})>> ELSE <<>>)

\* restore_successor_checkpoint_to_fresh_data_dir, with the recorder the
\* command line installs, the completion of the receipt and the marker.
NewRecorder == <<Step("begin-recorder", {}), Step("recorder", {})>>
SuccessorRestore(d, gen, cp) ==
    (IF d.receipt # <<>> THEN <<>>
     ELSE <<Step("tmp", "restore"), Step("receipt", <<"intent", gen, cp.tip>>)>>)
    \o Install(d, cp, SuccessorOwner(gen, cp.tip), FALSE)
    \o NewRecorder \o <<Step("complete", {})>> \o WriteIdentityMarker(d, gen)

\* The same of a completed restore: the view is repaired under the receipt's
\* identity, and a missing recorder is made again.
SuccessorReopen(d, gen, cp, engine) ==
    (IF ViewTrusted(d, cp, engine) THEN <<>>
     ELSE Install(d, cp, SuccessorOwner(gen, d.receipt[3]), TRUE))
    \o (IF d.recorder = "missing" THEN NewRecorder ELSE <<>>)
    \o WriteIdentityMarker(d, gen)

-----------------------------------------------------------------------------
\* A step that returns an error: what it made is removed where the code says
\* so, and once the staging directory was made that is removed too.
StepError(d, todo) ==
    LET s == Head(todo)
        e == CASE s.do = "own" -> RemoveArtifact(d, s.with[1])
               [] s.do = "link" \/ s = Step("untmp", "identity") -> RemoveTmp(d, "identity")
               [] OTHER -> d
    IN  IF \E i \in DOMAIN todo : todo[i] = Step("make", "staging") THEN e
        ELSE RemoveArtifact(e, "staging")
=============================================================================
