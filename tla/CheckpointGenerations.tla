------------------------ MODULE CheckpointGenerations ------------------------
(***************************************************************************)
(* How a new recovery generation comes to be (rhiza-archive, and           *)
(* rhiza-cli's commands): generation 1 is copied to generation 2, by       *)
(* roll-checkpoint for the same configuration or by fork-successor for the *)
(* configuration that a Stop is bound to, while publishers, restores and   *)
(* collections of module CheckpointArchive go on.                          *)
(*                                                                         *)
(* The copy has a reader's lease and a publisher's.  They are one here:    *)
(* either keeps every collection out, and they are renewed together.       *)
(***************************************************************************)
EXTENDS CheckpointArchive, TLC

VARIABLE copy    \* the command that copies

genVars == <<vars, copy>>

\* What the command has loaded is forgotten.
Ended(c, how) ==
    [c EXCEPT !.pc = "idle", !.work = Genesis, !.target = Genesis, !.todo = {}, !.outcome = how]

\* The command is over, and its lease released.
End(how) ==
    /\ copy' = Ended(copy, how)
    /\ leases' = [leases EXCEPT !["copy"] = 0]
    /\ UNCHANGED <<barrier, fence, plans>>

\* fork_stopped_successor: the source is the snapshot at the Stop and nothing
\* behind it.
StoppedRoot(m) == m.base = stop /\ m.tip = stop /\ m.segments = {}

\* load_valid_advanced_successor.
AdvancedSuccessor(m) == copy.kind = "fork" /\ m.via = "fork" /\ m.tip > stop

\* roll_checkpoint and fork_stopped_successor up to the copy: what the source
\* is, and, for a fork, whether the successor has gone on already.  before is
\* what the publishers had been told by then.
StartCopy ==
    /\ copy.pc = "idle" /\ copy.outcome = "none"
    /\ LET source == manifest[1]
           begun == [copy EXCEPT !.before = Max({pub[n].cache.tip : n \in
                                                   {m \in Node : pub[m].gen = 1}} \cup {0})]
       IN copy' = IF copy.kind = "fork"
                  THEN IF Retired(1) \/ ~StoppedRoot(source) THEN Ended(begun, "failed")
                       ELSE IF AdvancedSuccessor(manifest[2]) /\ ~Retired(2)
                            THEN Ended(begun, "ok")
                       ELSE [begun EXCEPT !.pc = "lease", !.work = source]
                  ELSE [begun EXCEPT !.work = source,
                                     !.pc = IF source.base > 0 THEN "lease" ELSE "verify"]
    /\ UNCHANGED vars

\* copy_checkpoint_to, and the head of copy_checkpoint_to_unleased: the leases,
\* and the source's manifest, whose objects are all read.
LoadSource ==
    /\ copy.pc = "lease" /\ ~Retired(1) /\ ~Retired(2)
    /\ AcquireLease("copy")
    /\ copy' = [copy EXCEPT !.pc = "objects", !.work = manifest[1],
                            !.todo = References(manifest[1])]
    /\ UNCHANGED <<manifest, objects, cluster, pub, gc, reader, faults>>

\* Object by object: the source's is downloaded, the target's created.
CopyObject ==
    /\ copy.pc = "objects" /\ copy.todo # {}
    /\ \E k \in copy.todo :
         IF objects[1][k] > 0
         THEN /\ RenewLease("copy")
              /\ objects' = Created(2, k)
              /\ copy' = [copy EXCEPT !.todo = @ \ {k}]
         ELSE End("failed") /\ UNCHANGED objects
    /\ UNCHANGED <<manifest, cluster, pub, gc, reader, faults>>

\* The target's manifest: the source's, with the transition of a fork.
Copied(m) ==
    [m EXCEPT !.rewrites = 0, !.via = IF copy.kind = "fork" THEN "fork" ELSE m.via]

AnyTarget(m) == TRUE

\* A manifest that is there must be the one the copy would create.
SameTarget(m) == [m EXCEPT !.rewrites = 0] = Copied(copy.work)

\* CheckpointTargetConflict, after which a fork looks again whether the
\* successor has gone on.
Conflict == IF AdvancedSuccessor(manifest[2]) /\ ~Retired(2) THEN "ok" ELSE "failed"

CreateTarget ==
    /\ copy.pc = "objects" /\ copy.todo = {}
    /\ IF manifest[2] = Missing
       THEN /\ manifest' = [manifest EXCEPT ![2] = Copied(copy.work)]
            /\ copy' = [copy EXCEPT !.pc = "confirm"]
            /\ UNCHANGED control
       ELSE /\ IF SameTarget(manifest[2])
               THEN copy' = [copy EXCEPT !.pc = "register"] /\ UNCHANGED control
               ELSE End(Conflict)
            /\ UNCHANGED manifest
    /\ UNCHANGED <<objects, cluster, pub, gc, reader, faults>>

\* The source is loaded again; a version it has got meanwhile, and be it by a
\* collection's rewrite, undoes the copy.
ConfirmSource ==
    /\ copy.pc = "confirm"
    /\ copy' = [copy EXCEPT !.pc = IF manifest[1] = copy.work THEN "register" ELSE "withdraw"]
    /\ UNCHANGED vars

\* delete_exact: not a target that a publisher has changed.
WithdrawTarget ==
    /\ copy.pc = "withdraw"
    /\ IF manifest[2] = Copied(copy.work)
       THEN End("failed") /\ manifest' = [manifest EXCEPT ![2] = Missing]
       ELSE End(Conflict) /\ UNCHANGED manifest
    /\ UNCHANGED <<objects, cluster, pub, gc, reader, faults>>

RegisterTarget ==
    /\ copy.pc = "register"
    /\ catalog' = Registered(2)
    /\ End("ok")
    /\ UNCHANGED <<manifest, objects, root, stop, pub, gc, reader, faults>>

-----------------------------------------------------------------------------
(* roll_checkpoint of a source without a snapshot: its entries are         *)
(* restored and published to the new generation as one segment.            *)

\* The restore, and the source's manifest before and after it.
VerifySource ==
    /\ copy.pc = "verify"
    /\ copy' = IF Retired(1) \/ manifest[1] # copy.work THEN Ended(copy, "failed")
               ELSE [copy EXCEPT !.pc = "initialize"]
    /\ UNCHANGED vars

\* initialize_checkpoint.  A roll of nothing ends here.
InitializeTarget ==
    /\ copy.pc = "initialize" /\ ~Retired(2)
    /\ AcquireLease("copy")
    /\ manifest' = [manifest EXCEPT ![2] = IF @ = Missing THEN Genesis ELSE @]
    /\ catalog' = Registered(2)
    /\ copy' = [copy EXCEPT !.pc = IF copy.work.tip = 0 THEN "compare" ELSE "entries"]
    /\ UNCHANGED <<objects, root, stop, pub, gc, reader, faults>>

\* publish_committed: what the target lacks of the entries is one segment.
Lacking(m) == Segment(m.tip + 1, copy.work.tip)

PublishEntries ==
    /\ copy.pc = "entries" /\ ~Retired(2)
    /\ RenewLease("copy")
    /\ IF manifest[2].tip >= copy.work.tip
       THEN copy' = [copy EXCEPT !.pc = "compare"] /\ UNCHANGED objects
       ELSE /\ objects' = Created(2, Lacking(manifest[2]))
            /\ copy' = [copy EXCEPT !.pc = "swap", !.target = manifest[2]]
    /\ UNCHANGED <<manifest, cluster, pub, gc, reader, faults>>

\* The compare-and-swap, which starts over with the target as it is by then.
SwapTarget ==
    /\ copy.pc = "swap"
    /\ IF manifest[2] = copy.target
       THEN /\ manifest' = [manifest EXCEPT ![2].tip = copy.work.tip,
                                            ![2].segments = @ \cup {Lacking(copy.target)}]
            /\ copy' = [copy EXCEPT !.pc = "compare"]
       ELSE /\ copy' = [copy EXCEPT !.pc = "entries"]
            /\ UNCHANGED manifest
    /\ UNCHANGED <<objects, control, cluster, pub, gc, reader, faults>>

\* The target restored: exactly the source's entries.
CompareTarget ==
    /\ copy.pc = "compare"
    /\ End(IF ~Retired(2) /\ manifest[2].base = 0 /\ manifest[2].tip = copy.work.tip
              /\ Restorable(2) = copy.work.tip
           THEN "ok" ELSE "failed")
    /\ UNCHANGED <<manifest, objects, cluster, pub, gc, reader, faults>>

-----------------------------------------------------------------------------
\* A generation that is retired, a barrier that is in the way, or an error of
\* the object store ends the command.
CopyRefused ==
    /\ \/ copy.pc = "lease" /\ (Retired(1) \/ Retired(2) \/ BarrierLive)
       \/ copy.pc = "initialize" /\ (Retired(2) \/ BarrierLive)
       \/ copy.pc = "entries" /\ Retired(2)
       \/ copy.pc \in {"objects", "entries"} /\ BarrierLive /\ barrier.phase = "deleting"
    /\ End("failed")
    /\ UNCHANGED <<manifest, objects, cluster, pub, gc, reader, faults>>

\* The command is stopped at any point, its lease runs out, and the operator
\* runs it again; or its answer is lost, and so does the operator.
CopyAgain ==
    /\ Fault
    /\ copy.pc \notin {"off", "lease", "verify"}
    /\ copy.pc # "idle" \/ copy.outcome # "none"
    /\ copy' = Ended(copy, "none")
    /\ UNCHANGED <<manifest, objects, control, cluster, pub, gc, reader>>

\* A node is started for the new generation once the copy has succeeded.
MoveOn(n) ==
    /\ pub[n].pc = "idle" /\ pub[n].gen = 1
    /\ copy.outcome = "ok"
    /\ Opens(n, 2)
    /\ UNCHANGED <<faults, copy>>

Copy ==
    \/ StartCopy \/ LoadSource \/ CopyObject \/ CreateTarget \/ ConfirmSource
    \/ WithdrawTarget \/ RegisterTarget
    \/ VerifySource \/ InitializeTarget \/ PublishEntries \/ SwapTarget \/ CompareTarget
    \/ CopyRefused \/ CopyAgain

NoCopy == [kind |-> "none", pc |-> "off", work |-> Genesis, target |-> Genesis, todo |-> {},
           before |-> 0, outcome |-> "none"]

\* All the nodes and no copy, or one node and a copy.
GenInit ==
    \/ Init /\ copy = NoCopy
    \/ \E n \in Node :
         \/ InitWith({n}, "off", 0) /\ copy = [NoCopy EXCEPT !.kind = "roll", !.pc = "idle"]
         \/ InitWith({n}, "idle", 1) /\ copy = [NoCopy EXCEPT !.kind = "fork", !.pc = "idle"]

GenNext ==
    \/ Next /\ UNCHANGED copy
    \/ Copy
    \/ \E n \in Node : MoveOn(n)

GenSpec == GenInit /\ [][GenNext]_genVars

-----------------------------------------------------------------------------
\* A copy that reports success hands over: the new generation can be restored
\* to everything that the publishers of the old one had been told was archived
\* when the command began, a fork to the Stop at least and with its transition,
\* and this stays so until the new generation is retired.
GenerationsHandOver ==
    copy.outcome = "ok" /\ ~Retired(2) =>
        /\ Restorable(2) >= Max({copy.before, stop})
        /\ copy.kind = "fork" <=> manifest[2].via = "fork"

\* The publishers are alike.
Symmetry == Permutations(Node)
=============================================================================
