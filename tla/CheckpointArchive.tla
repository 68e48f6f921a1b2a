-------------------------- MODULE CheckpointArchive --------------------------
(***************************************************************************)
(* The checkpoints of a cluster in the object store (rhiza-archive) and    *)
(* the nodes that publish to them through their CheckpointCoordinator      *)
(* (rhiza-node, durability.rs).  Every recovery generation has a manifest  *)
(* of its own: it names a base (genesis or a snapshot) and the log         *)
(* segments behind it, and is changed only by compare-and-swap.  All of    *)
(* them share one control object: every publisher and reader holds a lease *)
(* in it, it catalogues the generations, and a garbage collector deletes   *)
(* what its plan found superfluous once no lease is left.                  *)
(*                                                                         *)
(* Entries are the indices of the decided log.  Time is counted in ticks   *)
(* that run a lease and the collector's barrier down to zero.              *)
(***************************************************************************)
EXTENDS Integers, FiniteSets, FiniteSetsExt

CONSTANTS
    Node,        \* the nodes that publish
    MaxIndex,    \* bound on the decided log
    LeaseTime,   \* ticks of a lease (DEFAULT_LEASE_MS)
    MaxPlans,    \* bound on the collection plans made
    MaxSweeps,   \* bound on the executions of plans
    MaxFaults,   \* bound on failed object-store calls and stopped processes
    Slow         \* which of "sweep" and "snapshot" may outlast their time: a
                 \* sweep its barrier, a snapshot's publication its lease

ASSUME ArchiveAssumption ==
    /\ MaxIndex \in Nat /\ LeaseTime \in Nat \ {0} /\ MaxPlans \in Nat /\ MaxSweeps \in Nat
    /\ MaxFaults \in Nat /\ Slow \subseteq {"sweep", "snapshot"}

VARIABLES
    manifest,    \* each generation's manifest.json
    objects,     \* each object's version, 0 when there is none
    leases,      \* ticks left of each holder's lease, 0 when it has none
    barrier,     \* GcControl.active_gc
    fence,       \* GcControl.fence
    catalog,     \* GcControl.generations: the plan that retired each one
    root,        \* GcControl.root
    plans,       \* the stored plans
    pub,         \* each node's CheckpointPublisher
    gc,          \* the process that executes a plan
    reader,      \* a process that restores a checkpoint
    stop,        \* the Stop that ends generation 1's configuration, 0 for none
    faults       \* faults so far

control == <<leases, barrier, fence, plans>>
cluster == <<catalog, root, stop>>
vars == <<manifest, objects, control, cluster, pub, gc, reader, faults>>

Gen == 1 .. 2
Index == 0 .. MaxIndex

Fault == faults < MaxFaults /\ faults' = faults + 1
Holder == Node \cup {"reader", "copy"}

\* Objects are named by what they hold: a segment by its first and last
\* index, a snapshot by its index.
Segment(first, last) == <<first, last>>
Snapshot(i) == <<0, i>>
Key == {k \in Index \X (1 .. MaxIndex) : k[1] <= k[2]}

\* A manifest; via tells whether it carries a successor transition, or that
\* there is no manifest.
Manifest == [base : Index, segments : SUBSET Key, tip : Index, rewrites : 0 .. MaxSweeps,
             via : {"none", "fork", "missing"}]
Genesis == [base |-> 0, segments |-> {}, tip |-> 0, rewrites |-> 0, via |-> "none"]
Missing == [Genesis EXCEPT !.via = "missing"]

References(m) ==
    m.segments \cup (IF m.base = 0 THEN {} ELSE {Snapshot(m.base)})

\* ObjStore::create, which create_verified reads back: an object that is there with the same bytes is kept.
Created(g, k) ==
    IF objects[g][k] = 0 THEN [objects EXCEPT ![g][k] = 1 + Cardinality(plans)] ELSE objects

\* The catalogue: not in it, active, or retired by the plan of that number.
Uncatalogued == -1
Active == 0
Retired(g) == catalog[g] > 0

\* register_generation: an entry that is there is kept, whatever it says.
Registered(g) ==
    IF catalog[g] = Uncatalogued THEN [catalog EXCEPT ![g] = Active] ELSE catalog

-----------------------------------------------------------------------------
(* Leases.  expire_gc_state drops a barrier whose time is over. *)

NoBarrier == [phase |-> "none", left |-> 0, plan |-> 0]
BarrierLive == barrier.left > 0

AcquireLease(h) ==
    /\ ~BarrierLive
    /\ leases' = [leases EXCEPT ![h] = LeaseTime]
    /\ barrier' = NoBarrier
    /\ UNCHANGED <<fence, plans>>

\* A lease that is gone is taken again; a draining barrier waits for it.
RenewLease(h) ==
    /\ ~(BarrierLive /\ barrier.phase = "deleting")
    /\ leases' = [leases EXCEPT ![h] = LeaseTime]
    /\ barrier' = IF BarrierLive THEN [barrier EXCEPT !.left = 2 * LeaseTime] ELSE NoBarrier
    /\ UNCHANGED <<fence, plans>>

-----------------------------------------------------------------------------
(* The publisher.  ensure_generation_not_retired comes before every        *)
(* operation's first renewal.                                              *)

Idle(p) == [p EXCEPT !.pc = "idle", !.work = p.cache, !.first = 0, !.last = 0]

\* The operation returns the manifest m, which the publisher keeps.
Done(p, m) == Idle([p EXCEPT !.cache = m])

\* archived_hash_at: the manifest still tells the entry, and its object is there.
Tells(g, m, i) ==
    \/ i = m.base
    \/ i > m.base /\ \E k \in m.segments : k[1] <= i /\ i <= k[2] /\ objects[g][k] > 0

\* The head of the publication loop, with the manifest just loaded:
\* publication_suffix_start.
PublishFrom(p, m) ==
    IF m = Missing THEN Idle(p)
    ELSE IF m.tip >= p.last
    THEN IF Tells(p.gen, m, p.last) THEN Done(p, m) ELSE Idle(p)
    ELSE IF m.tip >= p.first /\ ~Tells(p.gen, m, m.tip) THEN Idle(p)
    ELSE [p EXCEPT !.pc = "segment", !.work = m, !.first = Max({p.first, m.tip + 1})]

\* The last entry of the log a generation's nodes decide.
LastOf(g) == IF g = 1 /\ stop > 0 THEN stop ELSE MaxIndex

\* publish_committed, drive_flushes: the waiting batches up to an index the
\* node has committed, cut to what the cached manifest lacks.
Flush(n) ==
    /\ pub[n].pc = "idle" /\ ~Retired(pub[n].gen)
    /\ \E last \in pub[n].cache.tip + 1 .. LastOf(pub[n].gen) :
         LET batch == [pub[n] EXCEPT !.first = pub[n].cache.tip + 1, !.last = last]
         IN pub' = [pub EXCEPT ![n] = PublishFrom(batch, batch.cache)]
    /\ RenewLease(n)
    /\ UNCHANGED <<manifest, objects, cluster, gc, reader, faults>>

\* The segment object, and the renewal before the manifest is swapped.
CreateSegment(n) ==
    /\ pub[n].pc = "segment"
    /\ objects' = Created(pub[n].gen, Segment(pub[n].first, pub[n].last))
    /\ RenewLease(n)
    /\ pub' = [pub EXCEPT ![n].pc = "swap"]
    /\ UNCHANGED <<manifest, cluster, gc, reader, faults>>

Extended(m, p) ==
    [m EXCEPT !.tip = p.last, !.segments = @ \cup {Segment(p.first, p.last)}]

SwapManifestBlind(n) ==
    LET p == pub[n] IN
    /\ p.pc = "swap"
    /\ manifest' = [manifest EXCEPT ![p.gen] = IF @ = p.work THEN Extended(@, p) ELSE @]
    /\ pub' = [pub EXCEPT ![n] = Done(p, Extended(p.work, p))]
    /\ UNCHANGED <<objects, control, cluster, gc, reader, faults>>

\* The compare-and-swap; when it fails the manifest is loaded again.
SwapManifest(n) ==
    LET p == pub[n] IN
    /\ p.pc = "swap"
    /\ IF manifest[p.gen] = p.work
       THEN /\ manifest' = [manifest EXCEPT ![p.gen] = Extended(@, p)]
            /\ pub' = [pub EXCEPT ![n] = Done(p, manifest'[p.gen])]
       ELSE /\ pub' = [pub EXCEPT ![n] = PublishFrom(p, manifest[p.gen])]
            /\ UNCHANGED manifest
    /\ UNCHANGED <<objects, control, cluster, gc, reader, faults>>

SnapshotFromNoOrder(p, m) ==
    IF m.base = p.last THEN Done(p, m)
    ELSE [p EXCEPT !.pc = "rebase", !.work = m]

\* publish_checkpoint_snapshot_from_loaded_unleased, the head of its loop: the
\* base only moves forward, and to the end of a segment.
SnapshotFrom(p, m) ==
    IF m.base = p.last THEN Done(p, m)
    ELSE IF m.base > p.last \/ \A k \in m.segments : k[2] # p.last THEN Idle(p)
    ELSE [p EXCEPT !.pc = "rebase", !.work = m]

\* The snapshot object, read back, and the renewal before the swap.
CreateSnapshot(n) ==
    /\ pub[n].pc = "idle" /\ ~Retired(pub[n].gen)
    /\ \E i \in 1 .. pub[n].cache.tip :
         /\ objects' = Created(pub[n].gen, Snapshot(i))
         /\ pub' = [pub EXCEPT ![n] = SnapshotFrom([@ EXCEPT !.last = i], @.cache)]
    /\ RenewLease(n)
    /\ UNCHANGED <<manifest, cluster, gc, reader, faults>>

\* A base of the generation's own configuration leaves no need for the
\* successor transition, which stays in the manifest all the same.
Rebased(m, i) ==
    [m EXCEPT !.base = i, !.segments = {k \in @ : k[1] > i}]

SwapBase(n) ==
    LET p == pub[n] IN
    /\ p.pc = "rebase"
    /\ IF manifest[p.gen] = p.work
       THEN /\ manifest' = [manifest EXCEPT ![p.gen] = Rebased(@, p.last)]
            /\ pub' = [pub EXCEPT ![n] = Done(p, manifest'[p.gen])]
            /\ UNCHANGED control
       ELSE /\ pub' = [pub EXCEPT ![n] = SnapshotFrom(p, manifest[p.gen])]
            /\ IF pub'[n].pc = "rebase" THEN RenewLease(n) ELSE UNCHANGED control
            /\ UNCHANGED manifest
    /\ UNCHANGED <<objects, cluster, gc, reader, faults>>

\* observe_checkpoint, cache_observed_checkpoint: only a longer log is cached.
Observe(n) ==
    LET m == manifest[pub[n].gen] IN
    /\ pub[n].pc = "idle" /\ m.tip > pub[n].cache.tip
    /\ RenewLease(n)
    /\ pub' = [pub EXCEPT ![n] = Done(@, m)]
    /\ UNCHANGED <<manifest, objects, cluster, gc, reader, faults>>

\* A refused renewal ends the operation.
LeaseRefused(n) ==
    /\ pub[n].pc \in {"segment", "rebase"}
    /\ BarrierLive /\ barrier.phase = "deleting"
    /\ pub' = [pub EXCEPT ![n] = Idle(@)]
    /\ UNCHANGED <<manifest, objects, control, cluster, gc, reader, faults>>

\* So does an object-store error; one before an object is created leaves
\* nothing behind.
PublisherFails(n) ==
    /\ Fault
    /\ pub[n].pc \in {"swap", "rebase"}
    /\ pub' = [pub EXCEPT ![n] = Idle(@)]
    /\ UNCHANGED <<manifest, objects, control, cluster, gc, reader>>

\* open_checkpoint_publisher: the manifest is made when there is none, and the
\* generation registered.
Opens(n, g) ==
    /\ ~Retired(g)
    /\ AcquireLease(n)
    /\ manifest' = [manifest EXCEPT ![g] = IF @ = Missing THEN Genesis ELSE @]
    /\ catalog' = Registered(g)
    /\ pub' = [pub EXCEPT ![n] = Done([@ EXCEPT !.gen = g], manifest'[g])]
    /\ UNCHANGED <<objects, root, stop, gc, reader>>

\* The process stops and starts again.
Restart(n) ==
    /\ Fault
    /\ pub[n].pc # "idle" \/ pub[n].cache # manifest[pub[n].gen]
    /\ Opens(n, pub[n].gen)

-----------------------------------------------------------------------------
(* Garbage collection.  A plan keeps the root generation's manifest and    *)
(* the catalogue it was made from, the generations it retires, and the     *)
(* version of every object it may delete.  Its minimum age and grace are   *)
(* over for everything: no plan names more.                                *)

Content(m) == <<m.base, m.segments, m.tip>>
Plan(id) == CHOOSE p \in plans : p.id = id

Stored(g) == {k \in Key : objects[g][k] > 0}

\* set_gc_root.
SetRoot ==
    /\ gc.pc # "off" /\ ~BarrierLive
    /\ \E g \in Gen : g # root /\ catalog[g] # Uncatalogued /\ root' = g
    /\ UNCHANGED <<manifest, objects, control, catalog, stop, pub, gc, reader, faults>>

\* plan_gc: what the root does not refer to, and all of the other generations
\* that the policy does not retain, whichever is the newer.
PlanGc ==
    /\ gc.pc # "off" /\ Cardinality(plans) < MaxPlans
    /\ ~BarrierLive
    /\ ~Retired(root) /\ manifest[root] # Missing
    /\ \E swept \in SUBSET {g \in Gen \ {root} : catalog[g] = Active} :
         LET found == UNION {{<<g, k, objects[g][k]>> :
                                k \in Stored(g) \ (IF g = root THEN References(manifest[g]) ELSE {})} :
                             g \in swept \cup {root}}
         IN /\ found # {}
            /\ plans' = plans \cup {[id |-> Cardinality(plans) + 1, fence |-> fence,
                                     root |-> root, content |-> Content(manifest[root]),
                                     catalog |-> catalog, swept |-> swept,
                                     candidates |-> found, evidence |-> {}, reported |-> FALSE]}
    /\ UNCHANGED <<manifest, objects, leases, barrier, fence, cluster,
                   pub, gc, reader, faults>>

Stopped == [pc |-> "idle", plan |-> 0, todo |-> {}]
Holds ==
    /\ barrier.phase # "none" /\ barrier.plan = gc.plan
    /\ root = Plan(gc.plan).root
LeasesIgnored == TRUE
NoLease == \A h \in Holder : leases[h] = 0

Amend(p, q) == (plans \ {p}) \cup {q}

\* catalog_matches_retired_plan: as after this plan's retirements.
RetiredBy(p) == [g \in Gen |-> IF g \in p.swept THEN p.id ELSE p.catalog[g]]

\* execute_gc, acquire_gc_barrier: a new barrier, or the one this plan left.
\* An execution that ended before it retired its generations cannot resume.
StartSweep ==
    /\ gc.pc = "idle" /\ \A g \in Gen : manifest[g].rewrites < MaxSweeps
    /\ \E p \in plans :
         /\ ~p.reported
         /\ gc' = [pc |-> "drain", plan |-> p.id, todo |-> p.candidates \ p.evidence]
         /\ \/ /\ ~BarrierLive /\ root = p.root
               /\ \/ fence = p.fence /\ catalog = p.catalog
                  \/ fence = p.fence + 1 /\ catalog = RetiredBy(p)
               /\ fence' = p.fence + 1
               /\ barrier' = [phase |-> "draining", left |-> LeaseTime, plan |-> p.id]
            \/ /\ BarrierLive /\ barrier.plan = p.id
               /\ UNCHANGED <<fence, barrier>>
    /\ UNCHANGED <<manifest, objects, leases, plans, cluster, pub, reader, faults>>

\* enter_delete_phase: refused while a lease is left.
EnterDeletePhase ==
    /\ gc.pc = "drain"
    /\ IF Holds /\ (barrier.phase = "deleting" \/ NoLease)
       THEN /\ barrier' = [barrier EXCEPT !.phase = "deleting"]
            /\ gc' = [gc EXCEPT !.pc = "fence"]
       ELSE /\ gc' = Stopped
            /\ UNCHANGED barrier
    /\ UNCHANGED <<manifest, objects, leases, fence, plans, cluster,
                   pub, reader, faults>>

Fenced(p) == [gc EXCEPT !.pc = IF p.swept = {} THEN "validate" ELSE "retire"]

FenceRootCheckOnly ==
    LET p == Plan(gc.plan) IN
    /\ gc.pc = "fence"
    /\ gc' = IF Content(manifest[p.root]) = p.content THEN Fenced(p) ELSE Stopped
    /\ UNCHANGED <<manifest, objects, control, cluster, pub, reader, faults>>

\* fence_gc_root: the same bytes get a new version.
FenceRoot ==
    LET p == Plan(gc.plan) IN
    /\ gc.pc = "fence"
    /\ IF Content(manifest[p.root]) = p.content
       THEN /\ manifest' = [manifest EXCEPT ![p.root].rewrites = @ + 1]
            /\ gc' = Fenced(p)
       ELSE /\ gc' = Stopped
            /\ UNCHANGED manifest
    /\ UNCHANGED <<objects, control, cluster, pub, reader, faults>>

\* retire_plan_generations.  The manifests stay as they are.
RetireGenerations ==
    LET p == Plan(gc.plan) IN
    /\ gc.pc = "retire"
    /\ IF Holds /\ barrier.phase = "deleting" /\ \A g \in p.swept : catalog[g] \in {Active, p.id}
       THEN /\ catalog' = [g \in Gen |-> IF g \in p.swept THEN p.id ELSE catalog[g]]
            /\ gc' = [gc EXCEPT !.pc = "validate"]
       ELSE /\ gc' = Stopped
            /\ UNCHANGED catalog
    /\ UNCHANGED <<manifest, objects, control, root, stop, pub, reader, faults>>

\* validate_gc_fence, before each deletion.  Its clock is the one execute_gc
\* was called with, so the barrier's time is never over for it.
ValidateFence ==
    /\ gc.pc = "validate" /\ gc.todo # {}
    /\ gc' = IF Holds /\ barrier.phase = "deleting" /\ NoLease
             THEN [gc EXCEPT !.pc = "delete"] ELSE Stopped
    /\ UNCHANGED <<manifest, objects, control, cluster, pub, reader, faults>>

\* The candidates are sorted by key: by generation, the segments first.
Position(c) ==
    LET first == IF c[2][1] = 0 THEN MaxIndex + 1 ELSE c[2][1]
    IN (c[1] * (MaxIndex + 2) + first) * (MaxIndex + 1) + c[2][2]
NextCandidate == CHOOSE c \in gc.todo : \A d \in gc.todo : Position(c) <= Position(d)

\* delete_exact: only the version of the plan.  The deletion leaves evidence.
DeleteObject ==
    /\ gc.pc = "delete"
    /\ LET c == NextCandidate IN
       IF objects[c[1]][c[2]] \in {0, c[3]}
       THEN /\ objects' = [objects EXCEPT ![c[1]][c[2]] = 0]
            /\ gc' = [gc EXCEPT !.pc = "validate", !.todo = @ \ {c}]
            /\ LET p == Plan(gc.plan) IN
               plans' = Amend(p, [p EXCEPT !.evidence = @ \cup {c}])
       ELSE /\ gc' = Stopped
            /\ UNCHANGED <<objects, plans>>
    /\ UNCHANGED <<manifest, leases, barrier, fence, cluster, pub, reader, faults>>

\* The report, and clear_gc_barrier.
FinishSweep ==
    /\ gc.pc = "validate" /\ gc.todo = {}
    /\ gc' = Stopped
    /\ barrier' = IF Holds THEN NoBarrier ELSE barrier
    /\ LET p == Plan(gc.plan) IN plans' = Amend(p, [p EXCEPT !.reported = TRUE])
    /\ UNCHANGED <<manifest, objects, leases, fence, cluster, pub, reader, faults>>

\* The job that executes the plan stops.
SweepStops ==
    /\ Fault /\ gc.pc \notin {"off", "idle"}
    /\ gc' = Stopped
    /\ UNCHANGED <<manifest, objects, control, cluster, pub, reader>>

-----------------------------------------------------------------------------
(* restore_checkpoint_v2: the objects of one manifest, one after another,  *)
(* each under a renewed lease.  A restore that outlives its lease is       *)
(* followed no further: nothing is promised to it.                         *)

NoRestore == [pc |-> "idle", gen |-> 1, todo |-> {}]

StartRestore ==
    /\ reader.pc = "idle"
    /\ AcquireLease("reader")
    /\ \E g \in Gen :
         /\ ~Retired(g) /\ References(manifest[g]) # {}
         /\ reader' = [pc |-> "read", gen |-> g, todo |-> References(manifest[g])]
    /\ UNCHANGED <<manifest, objects, cluster, pub, gc, faults>>

Download ==
    /\ reader.pc = "read" /\ reader.todo # {}
    /\ RenewLease("reader")
    /\ \E k \in reader.todo :
         reader' = [reader EXCEPT !.todo = IF objects[reader.gen][k] > 0 THEN @ \ {k} ELSE {}]
    /\ UNCHANGED <<manifest, objects, cluster, pub, gc, faults>>

\* release_gc_lease, after the last object or an error.
FinishRestore ==
    /\ reader.pc = "read"
    /\ reader.todo = {} \/ barrier.phase = "deleting"
    /\ reader' = NoRestore
    /\ leases' = [leases EXCEPT !["reader"] = 0]
    /\ UNCHANGED <<manifest, objects, barrier, fence, plans, cluster,
                   pub, gc, faults>>

\* Time passes.  A sweep that is not slow ends before its barrier does, and a
\* snapshot's publication before its lease does.
Tick ==
    /\ barrier.left > 0 \/ ~NoLease
    /\ "sweep" \notin Slow /\ gc.pc \notin {"off", "idle"} => barrier.left # 1
    /\ "snapshot" \notin Slow => \A n \in Node : pub[n].pc = "rebase" => leases[n] # 1
    /\ leases' = [h \in Holder |-> IF leases[h] = 0 THEN 0 ELSE leases[h] - 1]
    /\ barrier' = [barrier EXCEPT !.left = IF @ = 0 THEN 0 ELSE @ - 1]
    /\ reader' = IF reader.pc = "read" /\ leases'["reader"] = 0 THEN NoRestore ELSE reader
    /\ UNCHANGED <<manifest, objects, fence, plans, cluster, pub, gc, faults>>

-----------------------------------------------------------------------------
\* Generation 1 is made, and the nodes N publish to it.  others tells whether
\* there are restores and collections ("idle") or none ("off").
InitWith(N, others, s) ==
    /\ manifest = [g \in Gen |-> IF g = 1 THEN Genesis ELSE Missing]
    /\ objects = [g \in Gen |-> [k \in Key |-> 0]]
    /\ leases = [h \in Holder |-> IF h \in N THEN LeaseTime ELSE 0]
    /\ barrier = NoBarrier /\ fence = 0 /\ plans = {}
    /\ catalog = [g \in Gen |-> IF g = 1 THEN Active ELSE Uncatalogued] /\ root = 1
    /\ pub = [n \in Node |-> [pc |-> IF n \in N THEN "idle" ELSE "off", gen |-> 1,
                              cache |-> Genesis, work |-> Genesis, first |-> 0, last |-> 0]]
    /\ gc = [Stopped EXCEPT !.pc = others]
    /\ reader = [NoRestore EXCEPT !.pc = others] /\ stop = s /\ faults = 0

Init == InitWith(Node, "idle", 0)

Publisher(n) ==
    \/ Flush(n) \/ CreateSegment(n) \/ SwapManifest(n)
    \/ CreateSnapshot(n) \/ SwapBase(n) \/ Observe(n)
    \/ LeaseRefused(n) \/ PublisherFails(n) \/ Restart(n)

Collector ==
    \/ StartSweep \/ EnterDeletePhase \/ FenceRoot \/ RetireGenerations \/ ValidateFence
    \/ DeleteObject \/ FinishSweep

Next ==
    \/ \E n \in Node : Publisher(n)
    \/ Collector \/ SetRoot \/ PlanGc \/ SweepStops
    \/ StartRestore \/ Download \/ FinishRestore
    \/ Tick

Spec == Init /\ [][Next]_vars

-----------------------------------------------------------------------------
\* The values of the variables: no lease outlives LeaseTime, a barrier lives
\* at most twice as long, and a plan has one fence however often it is executed.
TypeOK ==
    /\ manifest \in [Gen -> Manifest] /\ \A g \in Gen : manifest[g].base <= manifest[g].tip
    /\ objects \in [Gen -> [Key -> 0 .. 1 + MaxPlans]]
    /\ leases \in [Holder -> 0 .. LeaseTime]
    /\ barrier \in [phase : {"none", "draining", "deleting"}, left : 0 .. 2 * LeaseTime,
                    plan : 0 .. MaxPlans]
    /\ fence \in 0 .. MaxPlans
    /\ catalog \in [Gen -> -1 .. MaxPlans] /\ root \in Gen
    /\ \A p \in plans : p.id \in 1 .. MaxPlans /\ p.evidence \subseteq p.candidates
    /\ pub \in [Node -> [pc : {"off", "idle", "segment", "swap", "rebase"}, gen : Gen,
                         cache : Manifest, work : Manifest, first : Index, last : Index]]
    /\ gc.pc \in {"off", "idle", "drain", "fence", "retire", "validate", "delete"}
    /\ reader.pc \in {"off", "idle", "read"} /\ reader.todo \subseteq Key
    /\ stop \in Index /\ faults \in 0 .. MaxFaults

\* No collection deletes an object that the manifest of a generation in use
\* refers to, whatever publishers with stale manifests, expired leases or reused
\* objects do meanwhile.
ReferencedObjectsExist ==
    \A g \in Gen : ~Retired(g) => \A k \in References(manifest[g]) : objects[g][k] > 0

\* A restore under its lease finds every object it still has to download, even
\* when publishers have replaced the manifest it read or its generation is
\* being retired.
LeasedReaderFindsObjects == \A k \in reader.todo : objects[reader.gen][k] > 0

\* The last index a restore of a generation gets to.
Restorable(g) ==
    LET m == manifest[g]
        reached == {i \in m.base .. MaxIndex : \A j \in m.base + 1 .. i :
                      \E k \in m.segments : k[1] <= j /\ j <= k[2] /\ objects[g][k] > 0}
    IN IF m.base > 0 /\ objects[g][Snapshot(m.base)] = 0 THEN 0 ELSE Max(reached)

\* What a publisher was told is durable, and what a node confirms its writes
\* with, can be restored from the manifest of this moment, as long as its
\* generation is not retired.
PublishedIsRestorable ==
    \A n \in Node : Retired(pub[n].gen) \/ pub[n].cache.tip <= Restorable(pub[n].gen)

Promise == INSTANCE Checkpoint WITH base <- manifest[1].base, tip <- Restorable(1),
                                    retired <- Retired(1)

\* Every step publishes entries, moves the base forward or changes nothing of
\* what can be restored: neither a race of publishers nor a collection takes
\* anything back before the generation is retired.
ImplementsCheckpoint == Promise!Spec

\* The archive is consistent: its values have their types, and no collection
\* has deleted an object that a manifest refers to or a leased restore needs.
ArchiveConsistent == TypeOK /\ ReferencedObjectsExist /\ LeasedReaderFindsObjects

=============================================================================
