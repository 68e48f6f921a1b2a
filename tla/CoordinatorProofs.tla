-------------------------- MODULE CoordinatorProofs --------------------------
(***************************************************************************)
(* What CheckpointCoordinator promises, proved for any number of nodes,    *)
(* entries and faults.                                                     *)
(***************************************************************************)
EXTENDS CheckpointCoordinator, TLAPS

\* CoordinatorState, with k entries decided.
Status(k) == [durable : 0 .. k, seen : 0 .. k, lag : {"none", "new", "recovered"},
              available : BOOLEAN]

\* LagIsTracked and UnavailableMeansBehind, of one coordinator.
Sound(c) ==
    /\ c.seen > c.durable => c.lag # "none"
    /\ ~c.available => c.seen > c.durable

\* The greater of two numbers.
LEMMA MaxOfTwo ==
    ASSUME NEW a \in Nat, NEW b \in Nat
    PROVE  /\ Max({a, b}) \in {a, b} /\ Max({a, b}) >= a /\ Max({a, b}) >= b
<1>1. \E x \in {a, b} : \A y \in {a, b} : x >= y
  <2>1. CASE a >= b BY <2>1
  <2>2. CASE ~(a >= b) BY <2>2
  <2> QED BY <2>1, <2>2
<1> QED BY <1>1 DEF Max

\* The smaller of two numbers.
LEMMA MinOfTwo ==
    ASSUME NEW a \in Nat, NEW b \in Nat
    PROVE  /\ Min({a, b}) \in {a, b} /\ Min({a, b}) <= a /\ Min({a, b}) <= b
<1>1. \E x \in {a, b} : \A y \in {a, b} : x <= y
  <2>1. CASE a <= b BY <2>1
  <2>2. CASE ~(a <= b) BY <2>2
  <2> QED BY <2>1, <2>2
<1> QED BY <1>1 DEF Min

\* A coordinator stays within a decided log that grows.
LEMMA StatusGrows ==
    ASSUME NEW k \in Nat, NEW l \in Nat, k <= l PROVE Status(k) \subseteq Status(l)
BY DEF Status

\* A function changed at one argument.
LEMMA OneChanges ==
    ASSUME NEW f, NEW g, NEW x \in DOMAIN f, NEW v, g = [f EXCEPT ![x] = v]
    PROVE  g[x] = v /\ g = [f EXCEPT ![x] = g[x]]
OBVIOUS

\* A function changed to what it was.
LEMMA NoneChanges ==
    ASSUME NEW f, NEW S, NEW x \in S, f = [y \in S |-> f[y]], NEW v, v = f[x]
    PROVE  f = [f EXCEPT ![x] = v]
OBVIOUS

\* note_committed and note_recovered_committed watch the lag they cause.
LEMMA NoteCommittedSound ==
    ASSUME NEW k \in Nat, NEW c \in Status(k), Sound(c), NEW i \in 0 .. k,
           NEW lag \in {"new", "recovered"}
    PROVE  /\ NoteCommitted(c, i, lag) \in Status(k) /\ Sound(NoteCommitted(c, i, lag))
           /\ NoteCommitted(c, i, lag).durable = c.durable
<1> DEFINE s == Max({c.seen, i})
           d == [c EXCEPT !.seen = s]
<1>1. c.seen \in 0 .. k /\ c.durable \in 0 .. k BY DEF Status
<1>2. s \in 0 .. k /\ s >= c.seen /\ (s = i \/ s = c.seen) BY <1>1, MaxOfTwo
<1> HIDE DEF s
<1>3. /\ d \in Status(k) /\ d.seen = s /\ d.durable = c.durable /\ d.lag = c.lag
      /\ d.available = c.available
  BY <1>2 DEF Status
<1>4. NoteCommitted(c, i, lag) =
        IF d.seen > d.durable /\ (i > c.seen \/ lag = "recovered")
                            /\ (d.lag = "none" \/ lag = "recovered")
        THEN [d EXCEPT !.lag = lag] ELSE d
  BY Zenon DEF NoteCommitted, s
<1> HIDE DEF d
<1>5. CASE NoteCommitted(c, i, lag) = d
  BY <1>1, <1>2, <1>3, <1>4, <1>5 DEF Sound, Status
<1>6. CASE NoteCommitted(c, i, lag) = [d EXCEPT !.lag = lag]
  BY <1>1, <1>2, <1>3, <1>4, <1>6 DEF Sound, Status
<1> QED BY <1>4, <1>5, <1>6

\* mark_durable_state moves the durable tip forward, and ends an outage only with
\* the lag.
LEMMA MarkDurableSound ==
    ASSUME NEW k \in Nat, NEW c \in Status(k), Sound(c), NEW tip \in 0 .. k
    PROVE  /\ MarkDurable(c, tip) \in Status(k) /\ Sound(MarkDurable(c, tip))
           /\ MarkDurable(c, tip).durable \in {c.durable, tip}
           /\ MarkDurable(c, tip).durable >= c.durable
<1> DEFINE t == Max({c.durable, tip})
           d == [c EXCEPT !.durable = t]
<1>1. c.seen \in 0 .. k /\ c.durable \in 0 .. k BY DEF Status
<1>2. t \in {c.durable, tip} /\ t >= c.durable BY <1>1, MaxOfTwo
<1> HIDE DEF t
<1>3. /\ d \in Status(k) /\ d.seen = c.seen /\ d.durable = t /\ d.lag = c.lag
      /\ d.available = c.available
  BY <1>2 DEF Status
<1>4. MarkDurable(c, tip) =
        IF d.seen <= d.durable THEN [d EXCEPT !.lag = "none", !.available = TRUE] ELSE d
  BY Zenon DEF MarkDurable, t
<1> HIDE DEF d
<1>5. CASE d.seen <= d.durable
  <2> DEFINE e == [d EXCEPT !.lag = "none", !.available = TRUE]
  <2>1. e \in Status(k) /\ e.available /\ e.seen = d.seen /\ e.durable = d.durable
    BY <1>3 DEF Status
  <2>2. MarkDurable(c, tip) = e BY <1>4, <1>5
  <2> HIDE DEF e
  <2> QED BY <1>1, <1>2, <1>3, <1>5, <2>1, <2>2 DEF Sound
<1>6. CASE ~(d.seen <= d.durable)
  BY <1>1, <1>2, <1>3, <1>4, <1>6 DEF Sound, Status
<1> QED BY <1>5, <1>6

\* mark_unavailable reports an outage only while a write waits.
LEMMA MarkUnavailableSound ==
    ASSUME NEW k \in Nat, NEW c \in Status(k), Sound(c)
    PROVE  /\ MarkUnavailable(c) \in Status(k) /\ Sound(MarkUnavailable(c))
           /\ MarkUnavailable(c).durable = c.durable
BY DEF MarkUnavailable, Sound, Status

-----------------------------------------------------------------------------
(* The inductive invariant, node by node. *)

Manifest == [base : Index, tip : 0 .. committed, ends : SUBSET Entry]
FlushType == [pc : {"none", "start", "publish", "snapshot", "verify", "ok", "error"},
              target : Index, snapshot : Index]

\* A confirmation under way is for an entry of the node's log, and one that is
\* done for an entry of the archive; nothing undecided is published.
JobInv(n, j, f) ==
    /\ f \in FlushType
    /\ f.pc = "publish" => f.target <= committed
    /\ j \in Entry => /\ f.pc \in {"start", "publish"} => f.target = j /\ j <= local[n].tip
                      /\ f.pc = "ok" => j <= archive.tip

\* What the node holds, in memory or in its log, is in the archive.
NodeInv(n) ==
    /\ local[n] \in [anchor : Index, tip : 0 .. committed] /\ local[n].anchor <= archive.base
    /\ cached[n] \in Manifest
    /\ cached[n].base <= archive.base /\ cached[n].tip <= archive.tip
    /\ coord[n] \in Status(committed) /\ coord[n].durable <= archive.tip /\ Sound(coord[n])
    /\ \A j \in Job : JobInv(n, j, flush[n][j])

ArchiveInv ==
    /\ archive \in Manifest /\ archive.base <= archive.tip
    /\ \A e \in archive.ends : e <= archive.tip

Shape ==
    /\ mode \in Modes /\ committed \in Index /\ faults \in 0 .. MaxFaults
    /\ DOMAIN local = Node /\ DOMAIN cached = Node /\ DOMAIN coord = Node
    /\ local = [n \in Node |-> local[n]]
    /\ cached = [n \in Node |-> cached[n]] /\ coord = [n \in Node |-> coord[n]]
    /\ flush \in [Node -> [Job -> FlushType]]

CInv == Shape /\ ArchiveInv /\ \A n \in Node : NodeInv(n)

\* A step of node n: the others stay as they are, the decided log and the
\* archive only grow.
StepOf(n) ==
    /\ mode' = mode /\ committed' >= committed
    /\ archive'.base >= archive.base /\ archive'.tip >= archive.tip
    /\ \A m \in Node \ {n} : /\ local'[m] = local[m] /\ cached'[m] = cached[m]
                             /\ coord'[m] = coord[m] /\ flush'[m] = flush[m]

\* What a node holds stays right when another one takes a step.
LEMMA OthersKeep ==
    ASSUME CInv, NEW n \in Node, StepOf(n), Shape', ArchiveInv', NodeInv(n)'
    PROVE  CInv'
<1>1. SUFFICES ASSUME NEW m \in Node \ {n} PROVE NodeInv(m)' BY <1>1 DEF CInv
<1>2. NodeInv(m) BY DEF CInv
<1>3. /\ local'[m] = local[m] /\ cached'[m] = cached[m]
      /\ coord'[m] = coord[m] /\ flush'[m] = flush[m]
  BY DEF StepOf
<1>4. /\ committed \in Nat /\ committed' \in Nat /\ committed' >= committed
      /\ archive.base \in Nat /\ archive.tip \in Nat /\ archive'.base \in Nat /\ archive'.tip \in Nat
      /\ archive'.base >= archive.base /\ archive'.tip >= archive.tip
  BY CoordinatorAssumption DEF CInv, Shape, ArchiveInv, Manifest, StepOf, Index
<1>5. local'[m] \in [anchor : Index, tip : 0 .. committed'] /\ local'[m].anchor <= archive'.base
  BY <1>2, <1>3, <1>4, CoordinatorAssumption DEF NodeInv, Index
<1>6. cached'[m] \in Manifest' /\ cached'[m].base <= archive'.base /\ cached'[m].tip <= archive'.tip
  BY <1>2, <1>3, <1>4, CoordinatorAssumption DEF NodeInv, Manifest, Index
<1>7. coord'[m] \in Status(committed') /\ coord'[m].durable <= archive'.tip /\ Sound(coord'[m])
  BY <1>2, <1>3, <1>4 DEF NodeInv, Status
<1>8. ASSUME NEW j \in Job PROVE JobInv(m, j, flush[m][j])'
  <2>1. JobInv(m, j, flush[m][j]) BY <1>2 DEF NodeInv
  <2>2. flush[m][j].target \in Nat /\ j \in Nat
    BY <2>1, CoordinatorAssumption DEF JobInv, FlushType, Index, Job, Entry, Worker, Checkpointer
  <2> QED BY <2>1, <2>2, <1>3, <1>4 DEF JobInv
<1> QED BY <1>5, <1>6, <1>7, <1>8 DEF NodeInv

\* The order of the indices that the invariant implies.
LEMMA Bounds ==
    ASSUME CInv, NEW n \in Node
    PROVE  /\ MaxIndex \in Nat /\ committed \in 0 .. MaxIndex
           /\ archive.base \in 0 .. archive.tip /\ archive.tip \in 0 .. committed
           /\ local[n].anchor \in 0 .. archive.base /\ local[n].tip \in 0 .. committed
           /\ cached[n].base \in 0 .. archive.base /\ cached[n].tip \in 0 .. archive.tip
           /\ coord[n].durable \in 0 .. archive.tip /\ coord[n].seen \in 0 .. committed
<1>1. MaxIndex \in Nat /\ committed \in 0 .. MaxIndex
  BY CoordinatorAssumption DEF CInv, Shape, Index
<1>2. archive.base \in 0 .. archive.tip /\ archive.tip \in 0 .. committed
  BY <1>1 DEF CInv, ArchiveInv, Manifest, Index
<1>3. local[n].anchor \in 0 .. archive.base /\ local[n].tip \in 0 .. committed
  BY <1>1, <1>2 DEF CInv, NodeInv, Index
<1>4. cached[n].base \in 0 .. archive.base /\ cached[n].tip \in 0 .. archive.tip
  BY <1>1, <1>2 DEF CInv, NodeInv, Manifest, Index
<1>5. coord[n].durable \in 0 .. archive.tip /\ coord[n].seen \in 0 .. committed
  BY <1>1, <1>2 DEF CInv, NodeInv, Status
<1> QED BY <1>1, <1>2, <1>3, <1>4, <1>5

\* The confirmations, the worker and the checkpoint are different jobs.
LEMMA Jobs ==
    /\ Worker \in Job /\ Checkpointer \in Job /\ Worker \notin Entry /\ Checkpointer \notin Entry
    /\ Entry \subseteq Job /\ \A j \in Job : j \in Nat
    /\ Worker # Checkpointer
BY CoordinatorAssumption DEF Job, Worker, Checkpointer, Entry

\* A step that changes one job of the node.
LEMMA OneJob ==
    ASSUME CInv, NEW n \in Node, NEW j \in Job, NEW g, StepOf(n), committed' \in Nat,
           archive'.tip \in Nat, local'[n].tip \in Nat, local'[n].tip >= local[n].tip,
           flush' = [flush EXCEPT ![n][j] = g], JobInv(n, j, g)'
    PROVE  /\ \A k \in Job : JobInv(n, k, flush[n][k])'
           /\ flush' \in [Node -> [Job -> FlushType]]
<1>1. flush \in [Node -> [Job -> FlushType]] /\ g \in FlushType BY DEF CInv, Shape, JobInv, FlushType, Index
<1>2. ASSUME NEW m \in Node, NEW k \in Job
      PROVE  flush'[m][k] = IF m = n /\ k = j THEN g ELSE flush[m][k]
  BY <1>1
<1>4. flush' \in [Node -> [Job -> FlushType]] BY <1>1
<1>5. ASSUME NEW k \in Job, k # j PROVE JobInv(n, k, flush[n][k])'
  <2>1. JobInv(n, k, flush[n][k]) BY DEF CInv, NodeInv
  <2>2. flush'[n][k] = flush[n][k] BY <1>2, <1>5
  <2>3. flush[n][k].target \in Nat /\ k \in Nat
    BY <2>1, CoordinatorAssumption, Jobs DEF JobInv, FlushType, Index
  <2> QED BY <2>1, <2>2, <2>3, Bounds DEF JobInv, StepOf
<1>6. JobInv(n, j, flush[n][j])' BY <1>2
<1> QED BY <1>4, <1>5, <1>6

\* A step that leaves the jobs alone.
LEMMA NoJob ==
    ASSUME CInv, NEW n \in Node, StepOf(n), committed' \in Nat,
           archive'.tip \in Nat, local'[n].tip \in Nat, local'[n].tip >= local[n].tip,
           flush' = flush
    PROVE  /\ \A k \in Job : JobInv(n, k, flush[n][k])'
           /\ flush' \in [Node -> [Job -> FlushType]]
<1>1. flush \in [Node -> [Job -> FlushType]] BY DEF CInv, Shape
<1>2. ASSUME NEW k \in Job PROVE JobInv(n, k, flush[n][k])'
  <2>1. JobInv(n, k, flush[n][k]) BY DEF CInv, NodeInv
  <2>2. flush[n][k].target \in Nat /\ k \in Nat
    BY <2>1, CoordinatorAssumption, Jobs DEF JobInv, FlushType, Index
  <2> QED BY <2>1, <2>2, Bounds DEF JobInv, StepOf
<1> QED BY <1>1, <1>2

-----------------------------------------------------------------------------
(* The steps, one by one. *)

\* confirm_write_durability of an entry the node has.
LEMMA ConfirmInv ==
    ASSUME CInv, NEW n \in Node, NEW i \in Entry, i <= committed', i <= local'[n].tip,
           committed' \in Index, committed' >= committed, archive' = archive,
           Confirm(n, i)
    PROVE  /\ coord' = [coord EXCEPT ![n] = coord'[n]]
           /\ coord'[n] \in Status(committed') /\ coord'[n].durable = coord[n].durable
           /\ Sound(coord'[n])
           /\ \E g : flush' = [flush EXCEPT ![n][i] = g] /\ JobInv(n, i, g)'
<1>1. committed' \in Nat /\ i \in 0 .. committed' /\ committed \in Nat
  BY CoordinatorAssumption, Bounds DEF Index, Entry
<1>2. coord[n] \in Status(committed') /\ Sound(coord[n])
  <2>1. coord[n] \in Status(committed) /\ Sound(coord[n]) BY DEF CInv, NodeInv
  <2> QED BY <1>1, <2>1, StatusGrows
<1>3. coord' = [coord EXCEPT ![n] = NoteCommitted(coord[n], i, "new")] BY DEF Confirm
<1>4. /\ coord'[n] = NoteCommitted(coord[n], i, "new")
      /\ coord' = [coord EXCEPT ![n] = coord'[n]]
  <2>1. n \in DOMAIN coord BY DEF CInv, Shape
  <2> QED BY <1>3, <2>1, OneChanges
<1>5. /\ coord'[n] \in Status(committed') /\ coord'[n].durable = coord[n].durable
      /\ Sound(coord'[n])
  BY <1>1, <1>2, <1>4, NoteCommittedSound
<1>6. \E g : g = IF mode = "sync" THEN [NoFlush EXCEPT !.pc = "start", !.target = i]
                 ELSE flush[n][i]
  OBVIOUS
<1>7. PICK g : g = IF mode = "sync" THEN [NoFlush EXCEPT !.pc = "start", !.target = i]
                   ELSE flush[n][i]
  BY <1>6
<1>8. flush' = [flush EXCEPT ![n][i] = g] BY <1>7, Zenon DEF Confirm
<1>9. JobInv(n, i, g)'
  <2>1. CASE mode = "sync"
    <3>1. g = [pc |-> "start", target |-> i, snapshot |-> 0] BY <1>7, <2>1 DEF NoFlush
    <3>2. g \in FlushType /\ g.pc = "start" /\ g.target = i
      BY <3>1, CoordinatorAssumption DEF FlushType, Index, Entry
    <3> QED BY <3>2 DEF JobInv, FlushType, Index
  <2>2. CASE mode # "sync"
    <3>1. g = flush[n][i] BY <1>7, <2>2
    <3>2. JobInv(n, i, g) BY <3>1, Jobs DEF CInv, NodeInv
    <3>3. g.target \in Nat BY <3>2, CoordinatorAssumption DEF JobInv, FlushType, Index
    <3> QED BY <3>2, <3>3, <1>1 DEF JobInv
  <2> QED BY <2>1, <2>2
<1> QED BY <1>4, <1>5, <1>8, <1>9

\* Write keeps the invariant.
LEMMA WriteInv ==
    ASSUME CInv, NEW n \in Node, Write(n) PROVE CInv'
<1>1. /\ committed < MaxIndex /\ local[n].tip = committed /\ committed' = committed + 1
      /\ local' = [local EXCEPT ![n].tip = committed'] /\ Confirm(n, committed')
      /\ UNCHANGED <<mode, archive, cached, faults>>
  BY DEF Write
<1>2. /\ local'[n].anchor = local[n].anchor /\ local'[n].tip = committed'
      /\ local'[n] \in [anchor : Index, tip : 0 .. committed']
      /\ local' = [local EXCEPT ![n] = local'[n]]
  BY <1>1, Bounds DEF CInv, Shape, NodeInv
<1>3. committed' \in Index /\ committed' \in Entry /\ committed' \in Nat /\ committed \in Nat
  BY <1>1, Bounds DEF Index, Entry
<1>4. PICK i \in Entry : i = committed' BY <1>3
<1>5. Confirm(n, i) BY <1>1, <1>4
<1>6. PICK g : /\ coord' = [coord EXCEPT ![n] = coord'[n]]
               /\ coord'[n] \in Status(committed') /\ coord'[n].durable = coord[n].durable
               /\ Sound(coord'[n])
               /\ flush' = [flush EXCEPT ![n][i] = g] /\ JobInv(n, i, g)'
  BY <1>1, <1>2, <1>3, <1>4, <1>5, ConfirmInv
<1>7. StepOf(n)
  BY <1>1, <1>2, <1>3, <1>6, Bounds DEF CInv, Shape, StepOf
<1>8. /\ \A k \in Job : JobInv(n, k, flush[n][k])'
      /\ flush' \in [Node -> [Job -> FlushType]]
  <2>1. /\ archive'.tip \in Nat /\ local'[n].tip \in Nat /\ local'[n].tip >= local[n].tip
        /\ i \in Job
    BY <1>1, <1>2, <1>3, Bounds, Jobs
  <2> QED BY <1>3, <1>6, <1>7, <2>1, OneJob
<1>9. Shape' BY <1>1, <1>2, <1>3, <1>6, <1>8 DEF CInv, Shape
<1>10. ArchiveInv' BY <1>1, <1>3 DEF CInv, ArchiveInv, Manifest
<1>11. NodeInv(n)'
  BY <1>1, <1>2, <1>3, <1>6, <1>8, Bounds DEF CInv, NodeInv, Manifest
<1> QED BY <1>7, <1>9, <1>10, <1>11, OthersKeep

\* Resend keeps the invariant.
LEMMA ResendInv ==
    ASSUME CInv, NEW n \in Node, NEW i \in Entry, Resend(n, i) PROVE CInv'
<1>1. i <= local[n].tip /\ Confirm(n, i) /\ UNCHANGED <<mode, committed, local, archive, cached, faults>>
  BY DEF Resend
<1>2. committed \in Index /\ i <= committed BY <1>1, Bounds DEF CInv, Shape, Index, Entry
<1>3. PICK g : /\ coord' = [coord EXCEPT ![n] = coord'[n]]
               /\ coord'[n] \in Status(committed') /\ coord'[n].durable = coord[n].durable
               /\ Sound(coord'[n])
               /\ flush' = [flush EXCEPT ![n][i] = g] /\ JobInv(n, i, g)'
  BY <1>1, <1>2, Bounds, ConfirmInv
<1>4. StepOf(n) BY <1>1, <1>3, Bounds DEF CInv, Shape, StepOf
<1>5. /\ \A k \in Job : JobInv(n, k, flush[n][k])'
      /\ flush' \in [Node -> [Job -> FlushType]]
  <2>1. /\ committed' \in Nat /\ archive'.tip \in Nat /\ local'[n].tip \in Nat
        /\ local'[n].tip >= local[n].tip /\ i \in Job
    BY <1>1, Bounds, Jobs
  <2> QED BY <1>3, <1>4, <2>1, OneJob
<1>6. Shape' /\ ArchiveInv'
  BY <1>1, <1>3, <1>5 DEF CInv, Shape, ArchiveInv, Manifest
<1>7. NodeInv(n)'
  <2>1. NodeInv(n) BY DEF CInv
  <2> QED BY <1>1, <1>3, <1>5, <2>1, Bounds DEF NodeInv, Manifest
<1> QED BY <1>4, <1>6, <1>7, OthersKeep

\* Materialize keeps the invariant.
LEMMA MaterializeInv ==
    ASSUME CInv, NEW n \in Node, Materialize(n) PROVE CInv'
<1>1. /\ local[n].tip < committed /\ local' = [local EXCEPT ![n].tip = @ + 1]
      /\ UNCHANGED <<mode, committed, archive, cached, coord, flush, faults>>
  BY DEF Materialize
<1>2. /\ local'[n].anchor = local[n].anchor /\ local'[n].tip = local[n].tip + 1
      /\ local'[n] \in [anchor : Index, tip : 0 .. committed]
      /\ local' = [local EXCEPT ![n] = local'[n]]
  BY <1>1, Bounds DEF CInv, Shape, NodeInv
<1>3. StepOf(n) BY <1>1, <1>2, Bounds DEF CInv, Shape, StepOf
<1>4. /\ \A k \in Job : JobInv(n, k, flush[n][k])'
      /\ flush' \in [Node -> [Job -> FlushType]]
  BY <1>1, <1>2, <1>3, Bounds, NoJob
<1>5. Shape' /\ ArchiveInv'
  BY <1>1, <1>2, <1>4 DEF CInv, Shape, ArchiveInv, Manifest
<1>6. NodeInv(n)'
  BY <1>1, <1>2, <1>4, Bounds DEF CInv, NodeInv, Manifest
<1> QED BY <1>3, <1>5, <1>6, OthersKeep

\* A flush of job j that changes the coordinator of n and the job alone.
LEMMA JobAndStatus ==
    ASSUME CInv, NEW n \in Node, NEW j \in Job, NEW g, NEW c,
           UNCHANGED <<mode, committed, local, archive, cached>>,
           faults' \in 0 .. MaxFaults,
           flush' = [flush EXCEPT ![n][j] = g], JobInv(n, j, g),
           coord' = [coord EXCEPT ![n] = c],
           c \in Status(committed), c.durable <= archive.tip, Sound(c)
    PROVE  CInv'
<1>1. /\ coord'[n] = c /\ coord' = [coord EXCEPT ![n] = coord'[n]]
  <2>1. n \in DOMAIN coord BY DEF CInv, Shape
  <2> QED BY <2>1, OneChanges
<1>2. StepOf(n) BY <1>1, Bounds DEF CInv, Shape, StepOf
<1>3. JobInv(n, j, g)' BY DEF JobInv
<1>4. /\ \A k \in Job : JobInv(n, k, flush[n][k])'
      /\ flush' \in [Node -> [Job -> FlushType]]
  <2>1. /\ committed' \in Nat /\ archive'.tip \in Nat /\ local'[n].tip \in Nat
        /\ local'[n].tip >= local[n].tip
    BY Bounds
  <2> QED BY <1>2, <1>3, <2>1, OneJob
<1>5. Shape' /\ ArchiveInv'
  BY <1>1, <1>4 DEF CInv, Shape, ArchiveInv, Manifest
<1>6. NodeInv(n)'
  <2>1. NodeInv(n) BY DEF CInv
  <2> QED BY <1>1, <1>4, <2>1, Bounds DEF NodeInv, Manifest
<1> QED BY <1>2, <1>5, <1>6, OthersKeep

\* The worker's next flush.
LEMMA NextTickType == NextTick \in FlushType /\ NextTick.pc \in {"none", "start"}
BY CoordinatorAssumption DEF NextTick, NoFlush, FlushType, Index

\* No flush.
LEMMA NoFlushType == NoFlush \in FlushType /\ NoFlush.pc = "none"
BY CoordinatorAssumption DEF NoFlush, FlushType, Index

\* What a flush leaves behind when it returns.
LEMMA ReturnedType ==
    ASSUME NEW j \in Job, NEW f \in FlushType
    PROVE  /\ Returned(j, f) \in FlushType
           /\ Returned(j, f).pc \in {"none", "start", "snapshot", "ok"}
           /\ j \in Entry => Returned(j, f).pc = "ok"
<1>1. CASE j = Worker BY <1>1, NextTickType, Jobs DEF Returned
<1>2. CASE j = Checkpointer
  <2>1. Returned(j, f) = [f EXCEPT !.pc = "snapshot"] BY <1>2, Jobs DEF Returned
  <2> QED BY <1>2, <2>1, Jobs DEF FlushType
<1>3. CASE j \in Entry
  <2>1. Returned(j, f) = [NoFlush EXCEPT !.pc = "ok"] BY <1>3, Jobs DEF Returned
  <2> QED BY <2>1, NoFlushType DEF FlushType
<1> QED BY <1>1, <1>2, <1>3 DEF Job

\* What a flush leaves behind when it fails.
LEMMA FailedJob ==
    ASSUME CInv, NEW n \in Node, NEW j \in Job, NEW f, JobInv(n, j, f),
           f.pc \in {"start", "publish"}, NEW retried \in BOOLEAN
    PROVE  JobInv(n, j, FlushFailed(j, f, retried))
<1>1. CASE j \in Entry
  <2> DEFINE pc == IF retried THEN "start" ELSE "error"
  <2>1. FlushFailed(j, f, retried) = [f EXCEPT !.pc = pc] BY <1>1 DEF FlushFailed
  <2>2. pc \in {"start", "error"} OBVIOUS
  <2> HIDE DEF pc
  <2> DEFINE g == [f EXCEPT !.pc = pc]
  <2>3. g \in FlushType /\ g.pc = pc /\ g.target = f.target BY <2>2 DEF JobInv, FlushType
  <2> HIDE DEF g
  <2> QED BY <1>1, <2>1, <2>2, <2>3 DEF JobInv, g
<1>2. CASE j = Worker
  BY <1>2, NextTickType, Jobs DEF FlushFailed, JobInv
<1>3. CASE j = Checkpointer
  BY <1>3, NoFlushType, Jobs DEF FlushFailed, JobInv
<1> QED BY <1>1, <1>2, <1>3 DEF Job

\* A failed flush keeps the invariant.
LEMMA FailsInv ==
    ASSUME CInv, NEW n \in Node, NEW j \in Job, NEW retried \in BOOLEAN,
           flush[n][j].pc \in {"start", "publish"}, Fails(n, j, retried),
           UNCHANGED <<mode, committed, local, archive, cached>>,
           faults' \in 0 .. MaxFaults
    PROVE  CInv'
<1>1. JobInv(n, j, flush[n][j]) BY DEF CInv, NodeInv
<1>2. PICK g : g = FlushFailed(j, flush[n][j], retried) OBVIOUS
<1>3. JobInv(n, j, g) BY <1>1, <1>2, FailedJob
<1>4. PICK c : c = MarkUnavailable(coord[n]) OBVIOUS
<1>5. c \in Status(committed) /\ c.durable <= archive.tip /\ Sound(c)
  <2>1. coord[n] \in Status(committed) /\ coord[n].durable <= archive.tip /\ Sound(coord[n])
    BY DEF CInv, NodeInv
  <2> QED BY <1>4, <2>1, Bounds, MarkUnavailableSound
<1>6. flush' = [flush EXCEPT ![n][j] = g] BY <1>2, Zenon DEF Fails
<1>7. coord' = [coord EXCEPT ![n] = c] BY <1>4, Zenon DEF Fails
<1> QED BY <1>3, <1>5, <1>6, <1>7, JobAndStatus

\* A step that changes one job of n alone.
LEMMA JobAlone ==
    ASSUME CInv, NEW n \in Node, NEW j \in Job, NEW g,
           UNCHANGED <<mode, committed, local, archive, cached, coord, faults>>,
           flush' = [flush EXCEPT ![n][j] = g], JobInv(n, j, g)
    PROVE  CInv'
<1>1. PICK c : c = coord[n] OBVIOUS
<1>2. c \in Status(committed) /\ c.durable <= archive.tip /\ Sound(c)
  BY <1>1 DEF CInv, NodeInv
<1>3. coord' = [coord EXCEPT ![n] = c] BY <1>1 DEF CInv, Shape
<1>4. faults' \in 0 .. MaxFaults BY DEF CInv, Shape
<1> QED BY <1>2, <1>3, <1>4, JobAndStatus

\* CheckpointStarts keeps the invariant.
LEMMA CheckpointStartsInv ==
    ASSUME CInv, NEW n \in Node, CheckpointStarts(n) PROVE CInv'
<1>1. PICK g : g = [pc |-> "start", target |-> local[n].tip, snapshot |-> local[n].tip]
  OBVIOUS
<1>2. JobInv(n, Checkpointer, g)
  BY <1>1, Bounds, Jobs DEF JobInv, FlushType, Index
<1>3. flush' = [flush EXCEPT ![n][Checkpointer] = g]
  BY <1>1 DEF CheckpointStarts
<1> QED BY <1>2, <1>3, Jobs, JobAlone DEF CheckpointStarts

\* Flush keeps the invariant: what it does not publish is archived already.
LEMMA FlushInv ==
    ASSUME CInv, NEW n \in Node, NEW j \in Job, Flush(n, j) PROVE CInv'
<1> DEFINE f == flush[n][j]
           last == Target(n, f)
<1>1. f.pc = "start" /\ UNCHANGED <<mode, committed, local, archive, cached, faults>>
  BY DEF Flush
<1>2. JobInv(n, j, f) BY DEF CInv, NodeInv
<1>3. f.target \in Nat /\ f \in FlushType BY <1>2, CoordinatorAssumption DEF JobInv, FlushType, Index
<1>4. last \in 0 .. committed /\ (j \in Entry => last = j)
  BY <1>1, <1>2, <1>3, Bounds, MinOfTwo DEF JobInv, Target
<1> HIDE DEF last
<1>5. faults' \in 0 .. MaxFaults BY <1>1 DEF CInv, Shape
<1>6. CASE Fails(n, j, FALSE) BY <1>1, <1>5, <1>6, FailsInv
<1>7. CASE /\ last <= coord[n].durable
           /\ flush' = [flush EXCEPT ![n][j] = Returned(j, @)] /\ UNCHANGED coord
  <2>1. PICK g : g = Returned(j, f) OBVIOUS
  <2>2. JobInv(n, j, g)
    <3>1. j \in Entry => j <= archive.tip BY <1>4, <1>7, Bounds, Jobs
    <3> QED BY <1>3, <2>1, <3>1, ReturnedType DEF JobInv
  <2>3. flush' = [flush EXCEPT ![n][j] = g] BY <1>7, <2>1, Zenon
  <2> QED BY <1>1, <1>7, <2>2, <2>3, JobAlone
<1>8. CASE /\ flush' = [flush EXCEPT ![n][j] = [@ EXCEPT !.pc = "publish", !.target = last]]
           /\ UNCHANGED coord
  <2>1. PICK g : g = [f EXCEPT !.pc = "publish", !.target = last] OBVIOUS
  <2>2. g \in FlushType /\ g.pc = "publish" /\ g.target = last
    <3>1. last \in Index BY <1>4, Bounds DEF Index
    <3> HIDE DEF f
    <3> QED BY <1>3, <2>1, <3>1 DEF FlushType
  <2>3. JobInv(n, j, g) BY <1>1, <1>2, <1>4, <2>2 DEF JobInv
  <2>4. flush' = [flush EXCEPT ![n][j] = g] BY <1>8, <2>1, Zenon
  <2> QED BY <1>1, <1>8, <2>3, <2>4, JobAlone
<1> QED BY <1>6, <1>7, <1>8, Zenon DEF Flush, last

\* PublishFails keeps the invariant.
LEMMA PublishFailsInv ==
    ASSUME CInv, NEW n \in Node, NEW j \in Job, PublishFails(n, j) PROVE CInv'
<1>1. faults' \in 0 .. MaxFaults
  BY CoordinatorAssumption DEF PublishFails, Fault, CInv, Shape
<1> QED BY <1>1, FailsInv DEF PublishFails

\* What a publication ends with: a manifest that has the last entry, or that
\* has lost sight of it behind its base; and the archive grows to it.
LEMMA PublicationInv ==
    ASSUME CInv, NEW n \in Node, NEW last \in 0 .. committed, NEW m, m = Publication(n, last)
    PROVE  /\ m \in Manifest /\ m.tip >= last /\ m.base <= archive.base
           /\ m.tip > archive.tip => m.base = archive.base /\ \A e \in m.ends : e <= m.tip
<1>1. archive \in Manifest /\ cached[n] \in Manifest /\ \A e \in archive.ends : e <= archive.tip
  BY DEF CInv, ArchiveInv, NodeInv
<1>2. CASE cached[n].tip >= last
  BY <1>1, <1>2, Bounds DEF Publication
<1>3. CASE ~(cached[n].tip >= last) /\ archive.tip >= last
  BY <1>1, <1>3, Bounds DEF Publication
<1>4. CASE ~(cached[n].tip >= last) /\ ~(archive.tip >= last)
  <2>1. m = [archive EXCEPT !.tip = last, !.ends = archive.ends \cup {last}]
    BY <1>4, Zenon DEF Publication
  <2>2. last \in Entry BY <1>4, Bounds DEF Entry
  <2>3. /\ m \in Manifest /\ m.tip = last /\ m.base = archive.base
        /\ m.ends = archive.ends \cup {last}
    BY <1>1, <2>1, <2>2 DEF Manifest
  <2>4. \A e \in archive.ends : e \in Nat BY <1>1 DEF Manifest, Entry
  <2> QED BY <1>1, <1>4, <2>3, <2>4, Bounds
<1> QED BY <1>2, <1>3, <1>4

\* A step of n that may move the archive forward.
LEMMA ArchiveStep ==
    ASSUME CInv, NEW n \in Node, NEW j \in Job, NEW g, NEW c, NEW q, NEW a, NEW l,
           UNCHANGED <<mode, committed, faults>>,
           archive' = a, a \in Manifest, a.base <= a.tip, \A e \in a.ends : e <= a.tip,
           a.base >= archive.base, a.tip >= archive.tip,
           local' = [local EXCEPT ![n] = l], l \in [anchor : Index, tip : 0 .. committed],
           l.anchor <= a.base, l.tip >= local[n].tip,
           cached' = [cached EXCEPT ![n] = q], q \in Manifest, q.base <= a.base, q.tip <= a.tip,
           coord' = [coord EXCEPT ![n] = c], c \in Status(committed), c.durable <= a.tip, Sound(c),
           flush' = [flush EXCEPT ![n][j] = g], JobInv(n, j, g)'
    PROVE  CInv'
<1>1. /\ coord'[n] = c /\ coord' = [coord EXCEPT ![n] = coord'[n]]
      /\ cached'[n] = q /\ cached' = [cached EXCEPT ![n] = cached'[n]]
      /\ local'[n] = l /\ local' = [local EXCEPT ![n] = local'[n]]
  <2>1. n \in DOMAIN coord /\ n \in DOMAIN cached /\ n \in DOMAIN local BY DEF CInv, Shape
  <2> QED BY <2>1, OneChanges
<1>2. StepOf(n) BY <1>1, Bounds DEF CInv, Shape, StepOf
<1>3. /\ committed' \in Nat /\ archive'.tip \in Nat /\ local'[n].tip \in Nat
      /\ local'[n].tip >= local[n].tip
  BY <1>1, Bounds DEF Manifest
<1>4. /\ \A k \in Job : JobInv(n, k, flush[n][k])'
      /\ flush' \in [Node -> [Job -> FlushType]]
  BY <1>2, <1>3, OneJob
<1>5. Shape' BY <1>1, <1>4 DEF CInv, Shape
<1>6. ArchiveInv' BY DEF ArchiveInv, Manifest
<1>7. NodeInv(n)' BY <1>1, <1>4 DEF NodeInv, Manifest
<1> QED BY <1>2, <1>5, <1>6, <1>7, OthersKeep

\* Publish keeps the invariant: a confirmation that returns is archived.
LEMMA PublishInv ==
    ASSUME CInv, NEW n \in Node, NEW j \in Job, Publish(n, j) PROVE CInv'
<1>1. PICK f, m : f = flush[n][j] /\ m = Publication(n, f.target) OBVIOUS
<1>2. f.pc = "publish" /\ UNCHANGED <<mode, committed, local, faults>> BY <1>1 DEF Publish
<1>3. JobInv(n, j, f) BY <1>1 DEF CInv, NodeInv
<1>4. f.target \in 0 .. committed /\ f \in FlushType
  BY <1>2, <1>3, CoordinatorAssumption, Bounds DEF JobInv, FlushType, Index
<1>5. /\ m \in Manifest /\ m.tip >= f.target /\ m.base <= archive.base
      /\ m.tip > archive.tip => m.base = archive.base /\ \A e \in m.ends : e <= m.tip
  BY <1>1, <1>4, PublicationInv
<1>6. m.tip \in 0 .. committed /\ m.base \in Nat
  BY <1>5, CoordinatorAssumption DEF Manifest, Index
<1>7. CASE Tells(m, f.target)
  <2>1. PICK a : a = IF m.tip > archive.tip THEN m ELSE archive OBVIOUS
  <2>2. PICK c : c = MarkDurable(coord[n], m.tip) OBVIOUS
  <2>3. PICK g : g = Returned(j, f) OBVIOUS
  <2>4. PICK l : l = local[n] OBVIOUS
  <2>5. /\ archive' = a /\ cached' = [cached EXCEPT ![n] = m]
        /\ coord' = [coord EXCEPT ![n] = c] /\ flush' = [flush EXCEPT ![n][j] = g]
    BY <1>1, <1>7, <2>1, <2>2, <2>3, Zenon DEF Publish
  <2>6. /\ a \in Manifest /\ a.base <= a.tip /\ \A e \in a.ends : e <= a.tip
        /\ a.base >= archive.base /\ a.tip >= archive.tip /\ m.tip <= a.tip /\ m.base <= a.base
    BY <1>5, <1>6, <2>1, Bounds DEF CInv, ArchiveInv
  <2>7. a.tip \in Nat BY <2>6, Bounds DEF Manifest
  <2>8. c \in Status(committed) /\ Sound(c) /\ c.durable <= a.tip
    <3>1. coord[n] \in Status(committed) /\ Sound(coord[n]) BY DEF CInv, NodeInv
    <3>2. /\ c \in Status(committed) /\ Sound(c)
          /\ c.durable \in {coord[n].durable, m.tip}
      BY <1>6, <2>2, <3>1, Bounds, MarkDurableSound
    <3> QED BY <1>6, <2>6, <2>7, <3>2, Bounds
  <2>9. JobInv(n, j, g)'
    <3>1. j \in Entry => j <= archive'.tip
      BY <1>2, <1>3, <1>4, <1>5, <1>6, <2>5, <2>6, <2>7 DEF JobInv
    <3>2. g \in FlushType' /\ g.pc \in {"none", "start", "snapshot", "ok"} /\ (j \in Entry => g.pc = "ok")
      BY <1>4, <2>3, ReturnedType DEF FlushType, Index
    <3> QED BY <3>1, <3>2 DEF JobInv
  <2>10. /\ l \in [anchor : Index, tip : 0 .. committed] /\ l.anchor <= a.base /\ l.tip >= local[n].tip
         /\ local' = [local EXCEPT ![n] = l]
    <3>1. NodeInv(n) /\ local = [k \in Node |-> local[k]] BY DEF CInv, Shape
    <3>2. a.base \in Nat BY <2>6, CoordinatorAssumption DEF Manifest, Index
    <3>3. local' = [local EXCEPT ![n] = l] BY <1>2, <2>4, <3>1, NoneChanges
    <3>4. l \in [anchor : Index, tip : 0 .. committed] BY <2>4, <3>1 DEF NodeInv
    <3>5. l.anchor <= a.base /\ l.tip >= local[n].tip BY <2>4, <2>6, <3>2, Bounds
    <3> QED BY <3>3, <3>4, <3>5
  <2> QED BY <1>2, <1>5, <2>5, <2>6, <2>8, <2>9, <2>10, ArchiveStep
<1>8. CASE ~Tells(m, f.target)
  <2>1. Fails(n, j, TRUE) /\ UNCHANGED <<archive, cached>>
    BY <1>1, <1>8, Zenon DEF Publish
  <2>2. faults' \in 0 .. MaxFaults BY <1>2 DEF CInv, Shape
  <2> QED BY <1>1, <1>2, <2>1, <2>2, FailsInv
<1> QED BY <1>7, <1>8

\* A manifest of the publisher that is not the current one is never swapped in:
\* the base that moves is the archive's own, and it moves forward.
LEMMA PublishSnapshotInv ==
    ASSUME CInv, NEW n \in Node, PublishSnapshot(n) PROVE CInv'
<1>1. PICK f, i, m : /\ f = flush[n][Checkpointer] /\ i = f.snapshot
                     /\ m = IF Rebase(cached[n], i) = "swap" THEN archive ELSE cached[n]
  OBVIOUS
<1>2. f.pc = "snapshot" /\ UNCHANGED <<mode, committed, local, coord, faults>>
  BY <1>1 DEF PublishSnapshot
<1>3. f \in FlushType /\ i \in Index
  BY <1>1, Jobs DEF CInv, Shape, FlushType
<1>4. /\ archive \in Manifest /\ cached[n] \in Manifest /\ \A e \in archive.ends : e <= archive.tip
      /\ n \in DOMAIN cached /\ n \in DOMAIN local /\ n \in DOMAIN coord
  BY DEF CInv, ArchiveInv, NodeInv, Shape
<1>5. PICK a : a = IF Rebase(m, i) = "swap"
                   THEN [archive EXCEPT !.base = i, !.ends = {e \in archive.ends : e > i}]
                   ELSE archive
  OBVIOUS
<1>6. archive' = a BY <1>1, <1>5, Zenon DEF PublishSnapshot
<1>7. /\ a \in Manifest /\ a.base <= a.tip /\ \A e \in a.ends : e <= a.tip
      /\ a.base >= archive.base /\ a.tip >= archive.tip
  <2>1. CASE Rebase(m, i) = "swap"
    <3>1. m = archive BY <1>1, <2>1
    <3>2. archive.base < i /\ i \in archive.ends BY <2>1, <3>1 DEF Rebase
    <3>3. /\ a.base = i /\ a.tip = archive.tip /\ a.ends = {e \in archive.ends : e > i}
          /\ a \in Manifest
      BY <1>3, <1>4, <1>5, <2>1 DEF Manifest
    <3> QED BY <1>3, <1>4, <3>2, <3>3, Bounds DEF Index
  <2>2. CASE Rebase(m, i) # "swap"
    BY <1>4, <1>5, <2>2, Bounds
  <2> QED BY <2>1, <2>2
<1>8. a.base \in Nat /\ a.tip \in Nat BY <1>7, Bounds DEF Manifest, Index
<1>9. PICK q : q = CASE Rebase(m, i) = "error" -> cached[n]
                     [] Rebase(m, i) = "done"  -> m
                     [] OTHER                  -> a
  OBVIOUS
<1>10. cached' = [cached EXCEPT ![n] = q] BY <1>1, <1>6, <1>9, Zenon DEF PublishSnapshot
<1>11. q \in Manifest /\ q.base <= a.base /\ q.tip <= a.tip
  <2>1. q \in {cached[n], archive, a} BY <1>1, <1>9
  <2> QED BY <1>4, <1>7, <1>8, <2>1, Bounds
<1>12. PICK g : g = IF Rebase(m, i) = "error" THEN NoFlush ELSE [f EXCEPT !.pc = "verify"]
  OBVIOUS
<1>13. flush' = [flush EXCEPT ![n][Checkpointer] = g]
  BY <1>1, <1>12, Zenon DEF PublishSnapshot
<1>14. JobInv(n, Checkpointer, g)'
  <2>1. g \in FlushType /\ g.pc \in {"none", "verify"}
    BY <1>3, <1>12, NoFlushType DEF FlushType
  <2> QED BY <2>1, Jobs DEF JobInv, FlushType, Index
<1>15. PICK l, c : l = local[n] /\ c = coord[n] OBVIOUS
<1>16. /\ local = [k \in Node |-> local[k]] /\ coord = [k \in Node |-> coord[k]]
  BY DEF CInv, Shape
<1>17. local' = [local EXCEPT ![n] = l] /\ coord' = [coord EXCEPT ![n] = c]
  BY <1>2, <1>15, <1>16, NoneChanges
<1>18. /\ l \in [anchor : Index, tip : 0 .. committed] /\ l.anchor <= a.base
       /\ l.tip >= local[n].tip
       /\ c \in Status(committed) /\ c.durable <= a.tip /\ Sound(c)
  <2>1. NodeInv(n) BY DEF CInv
  <2>2. l \in [anchor : Index, tip : 0 .. committed] /\ c \in Status(committed) /\ Sound(c)
    BY <1>15, <2>1 DEF NodeInv
  <2> QED BY <1>7, <1>8, <1>15, <2>2, Bounds
<1> QED BY <1>2, <1>6, <1>7, <1>10, <1>11, <1>13, <1>14, <1>17, <1>18, Jobs, ArchiveStep

\* Compact keeps the invariant: the base was read back before the log is cut.
LEMMA CompactInv ==
    ASSUME CInv, NEW n \in Node, Compact(n) PROVE CInv'
<1>1. PICK f : f = flush[n][Checkpointer] OBVIOUS
<1>2. UNCHANGED <<mode, committed, archive, cached, faults>> BY DEF Compact
<1>3. PICK g : g = NoFlush OBVIOUS
<1>4. flush' = [flush EXCEPT ![n][Checkpointer] = g] BY <1>3, Zenon DEF Compact
<1>5. JobInv(n, Checkpointer, g)
  BY <1>3, NoFlushType, Jobs DEF JobInv
<1>6. CASE archive.base = f.snapshot
  <2>1. PICK l, c, q, a : /\ l = [local[n] EXCEPT !.anchor = f.snapshot]
                          /\ c = MarkDurable(coord[n], f.snapshot)
                          /\ q = cached[n] /\ a = archive
    OBVIOUS
  <2>2. local' = [local EXCEPT ![n] = l] /\ coord' = [coord EXCEPT ![n] = c]
    BY <1>1, <1>6, <2>1, Zenon DEF Compact
  <2>3. cached = [k \in Node |-> cached[k]] BY DEF CInv, Shape
  <2>4. cached' = [cached EXCEPT ![n] = q] BY <1>2, <2>1, <2>3, NoneChanges
  <2>5. NodeInv(n) /\ ArchiveInv BY DEF CInv
  <2>6. f.snapshot \in Index /\ f.snapshot \in 0 .. archive.tip BY <1>6, Bounds DEF Index
  <2>7. /\ l \in [anchor : Index, tip : 0 .. committed] /\ l.anchor <= a.base
        /\ l.tip >= local[n].tip
    <3>1. local[n] \in [anchor : Index, tip : 0 .. committed] BY <2>5 DEF NodeInv
    <3>2. l \in [anchor : Index, tip : 0 .. committed] /\ l.anchor = f.snapshot /\ l.tip = local[n].tip
      BY <2>1, <2>6, <3>1
    <3> QED BY <1>6, <2>1, <3>2, Bounds
  <2>8. c \in Status(committed) /\ Sound(c) /\ c.durable <= a.tip
    <3>1. coord[n] \in Status(committed) /\ Sound(coord[n]) BY <2>5 DEF NodeInv
    <3>2. /\ c \in Status(committed) /\ Sound(c)
          /\ c.durable \in {coord[n].durable, f.snapshot}
      BY <2>1, <2>6, <3>1, Bounds, MarkDurableSound
    <3> QED BY <2>1, <2>6, <3>2, Bounds
  <2>9. /\ a \in Manifest /\ a.base <= a.tip /\ \A e \in a.ends : e <= a.tip
        /\ a.base >= archive.base /\ a.tip >= archive.tip /\ archive' = a
    BY <1>2, <2>1, <2>5, Bounds DEF ArchiveInv
  <2>10. q \in Manifest /\ q.base <= a.base /\ q.tip <= a.tip
    BY <2>1, <2>5 DEF NodeInv
  <2>11. JobInv(n, Checkpointer, g)'
    BY <1>3, NoFlushType, Jobs DEF JobInv, FlushType, Index
  <2> QED BY <1>2, <1>4, <2>2, <2>4, <2>7, <2>8, <2>9, <2>10, <2>11, Jobs, ArchiveStep
<1>7. CASE archive.base # f.snapshot
  <2>1. UNCHANGED <<local, coord>> BY <1>1, <1>7, Zenon DEF Compact
  <2> QED BY <1>2, <1>4, <1>5, <2>1, Jobs, JobAlone
<1> QED BY <1>6, <1>7

\* Refresh keeps the invariant.
LEMMA RefreshInv ==
    ASSUME CInv, NEW n \in Node, Refresh(n) PROVE CInv'
<1>1. UNCHANGED <<mode, committed, local, archive, flush, faults>> BY DEF Refresh
<1>2. PICK l, c, q, a, g : /\ l = local[n] /\ c = MarkDurable(coord[n], archive.tip)
                           /\ q = archive /\ a = archive /\ g = flush[n][Worker]
  OBVIOUS
<1>3. cached' = [cached EXCEPT ![n] = q] /\ coord' = [coord EXCEPT ![n] = c]
  BY <1>2 DEF Refresh
<1>4. NodeInv(n) /\ ArchiveInv /\ local = [k \in Node |-> local[k]]
      /\ flush \in [Node -> [Job -> FlushType]]
  BY DEF CInv, Shape
<1>5. local' = [local EXCEPT ![n] = l] BY <1>1, <1>2, <1>4, NoneChanges
<1>6. flush' = [flush EXCEPT ![n][Worker] = g] BY <1>1, <1>2, <1>4, Jobs
<1>7. /\ l \in [anchor : Index, tip : 0 .. committed] /\ l.anchor <= a.base
      /\ l.tip >= local[n].tip
  BY <1>2, <1>4, Bounds DEF NodeInv
<1>8. c \in Status(committed) /\ Sound(c) /\ c.durable <= a.tip
  <2>1. coord[n] \in Status(committed) /\ Sound(coord[n]) BY <1>4 DEF NodeInv
  <2>2. /\ c \in Status(committed) /\ Sound(c) /\ c.durable \in {coord[n].durable, archive.tip}
    BY <1>2, <2>1, Bounds, MarkDurableSound
  <2> QED BY <1>2, <2>2, Bounds
<1>9. /\ a \in Manifest /\ a.base <= a.tip /\ \A e \in a.ends : e <= a.tip
      /\ a.base >= archive.base /\ a.tip >= archive.tip /\ archive' = a
      /\ q \in Manifest /\ q.base <= a.base /\ q.tip <= a.tip
  BY <1>1, <1>2, <1>4, Bounds DEF ArchiveInv
<1>10. JobInv(n, Worker, g)'
  <2>1. JobInv(n, Worker, g) BY <1>2, <1>4, Jobs DEF NodeInv
  <2> QED BY <1>1, <2>1 DEF JobInv, FlushType, Index
<1> QED BY <1>1, <1>3, <1>5, <1>6, <1>7, <1>8, <1>9, <1>10, Jobs, ArchiveStep

\* Restart keeps the invariant.
LEMMA RestartInv ==
    ASSUME CInv, NEW n \in Node, Restart(n) PROVE CInv'
<1>1. /\ UNCHANGED <<mode, committed, archive>> /\ faults' \in 0 .. MaxFaults
  BY CoordinatorAssumption DEF Restart, Fault, CInv, Shape
<1>2. NodeInv(n) /\ ArchiveInv /\ n \in DOMAIN local /\ n \in DOMAIN cached /\ n \in DOMAIN coord
      /\ flush \in [Node -> [Job -> FlushType]]
  BY DEF CInv, Shape
<1>3. PICK l, q : /\ l = [anchor |-> IF local[n].tip < archive.base THEN archive.base
                                     ELSE local[n].anchor,
                          tip |-> Max({local[n].tip, archive.tip})]
                  /\ q = archive
  OBVIOUS
<1>4. /\ local'[n] = l /\ local' = [local EXCEPT ![n] = local'[n]]
      /\ cached'[n] = q /\ cached' = [cached EXCEPT ![n] = cached'[n]]
  <2>1. local' = [local EXCEPT ![n] = l] /\ cached' = [cached EXCEPT ![n] = q]
    BY <1>3, Zenon DEF Restart
  <2> QED BY <1>2, <2>1, OneChanges
<1>5. /\ l \in [anchor : Index, tip : 0 .. committed] /\ l.anchor <= archive.base
      /\ l.tip >= local[n].tip /\ l.tip \in 0 .. committed
  <2>1. /\ Max({local[n].tip, archive.tip}) \in {local[n].tip, archive.tip}
        /\ Max({local[n].tip, archive.tip}) >= local[n].tip
    BY Bounds, MaxOfTwo
  <2> QED BY <1>3, <2>1, Bounds DEF Index
<1>6. PICK b : b = [durable |-> archive.tip, seen |-> archive.tip, lag |-> "none", available |-> TRUE]
  OBVIOUS
<1>7. PICK c : c = NoteCommitted(b, l.tip, "recovered") OBVIOUS
<1>8. b \in Status(committed) /\ Sound(b) /\ b.durable = archive.tip
  BY <1>6, Bounds DEF Status, Sound
<1>9. c \in Status(committed) /\ Sound(c) /\ c.durable = archive.tip
  <2>1. committed \in Nat /\ l.tip \in 0 .. committed BY <1>5, Bounds
  <2>2. NoteCommitted(b, l.tip, "recovered") \in Status(committed)
    BY <1>8, <2>1, NoteCommittedSound
  <2>3. /\ Sound(NoteCommitted(b, l.tip, "recovered"))
        /\ NoteCommitted(b, l.tip, "recovered").durable = b.durable
    BY <1>8, <2>1, NoteCommittedSound
  <2> QED BY <1>7, <1>8, <2>2, <2>3
<1>10. coord'[n] = c /\ coord' = [coord EXCEPT ![n] = coord'[n]]
  <2>1. coord' = [coord EXCEPT ![n] = c] BY <1>4, <1>6, <1>7, Zenon DEF Restart
  <2> QED BY <1>2, <2>1, OneChanges
<1>11. PICK h : h = [j \in Job |-> IF flush[n][j].pc = "ok" THEN flush[n][j] ELSE IdleJobs[j]]
  OBVIOUS
<1>12. flush' = [flush EXCEPT ![n] = h] BY <1>11, Zenon DEF Restart
<1>13. ASSUME NEW j \in Job PROVE h[j] \in FlushType /\ JobInv(n, j, h[j])'
  <2>1. CASE flush[n][j].pc = "ok"
    BY <1>1, <1>2, <1>11, <2>1 DEF NodeInv, JobInv, FlushType, Index
  <2>2. CASE flush[n][j].pc # "ok"
    <3>1. h[j] = IF j = Worker THEN NextTick ELSE NoFlush BY <1>11, <2>2 DEF IdleJobs
    <3>2. PICK g : g = h[j] OBVIOUS
    <3>3. g \in FlushType /\ g.pc \in {"none", "start"} /\ (j \in Entry => g.pc = "none")
      BY <3>1, <3>2, NextTickType, NoFlushType, Jobs
    <3> QED BY <3>2, <3>3 DEF JobInv, FlushType, Index
  <2> QED BY <2>1, <2>2
<1>14. flush' \in [Node -> [Job -> FlushType]] /\ flush'[n] = h
       /\ \A m \in Node \ {n} : flush'[m] = flush[m]
  <2>1. h \in [Job -> FlushType] BY <1>11, <1>13
  <2> QED BY <1>2, <1>12, <2>1
<1>15. \A j \in Job : JobInv(n, j, flush[n][j])' BY <1>13, <1>14
<1>16. StepOf(n) BY <1>1, <1>4, <1>10, <1>14, Bounds DEF CInv, Shape, StepOf
<1>17. Shape' BY <1>1, <1>4, <1>10, <1>14 DEF CInv, Shape
<1>18. ArchiveInv' BY <1>1, <1>2 DEF ArchiveInv, Manifest
<1>19. NodeInv(n)'
  <2>1. q \in Manifest /\ q.base <= archive.base /\ q.tip <= archive.tip
    BY <1>2, <1>3, Bounds DEF ArchiveInv
  <2> QED BY <1>1, <1>4, <1>5, <1>9, <1>10, <1>15, <2>1, Bounds DEF NodeInv, Manifest
<1> QED BY <1>16, <1>17, <1>18, <1>19, OthersKeep

-----------------------------------------------------------------------------
\* The invariant holds at first.
LEMMA InitInv == Init => CInv
<1> SUFFICES ASSUME Init PROVE CInv OBVIOUS
<1>1. /\ committed = 0 /\ faults = 0 /\ mode \in Modes /\ 0 \in Index
      /\ archive = [base |-> 0, tip |-> 0, ends |-> {}]
  BY CoordinatorAssumption DEF Init, Index
<1>2. Shape
  <2>1. IdleJobs \in [Job -> FlushType] BY NextTickType, NoFlushType DEF IdleJobs
  <2> QED BY <1>1, <2>1, CoordinatorAssumption DEF Init, Shape
<1>3. ArchiveInv BY <1>1 DEF ArchiveInv, Manifest
<1>4. ASSUME NEW n \in Node PROVE NodeInv(n)
  <2>1. /\ local[n] = [anchor |-> 0, tip |-> 0] /\ cached[n] = archive
        /\ coord[n] = [durable |-> 0, seen |-> 0, lag |-> "none", available |-> TRUE]
        /\ flush[n] = IdleJobs
    BY DEF Init
  <2>2. coord[n] \in Status(committed) /\ coord[n].durable <= archive.tip /\ Sound(coord[n])
    BY <1>1, <2>1 DEF Status, Sound
  <2>3. ASSUME NEW j \in Job PROVE JobInv(n, j, flush[n][j])
    <3>1. flush[n][j] = IF j = Worker THEN NextTick ELSE NoFlush BY <2>1 DEF IdleJobs
    <3> QED BY <3>1, NextTickType, NoFlushType, Jobs DEF JobInv
  <2> QED BY <1>1, <1>3, <2>1, <2>2, <2>3 DEF NodeInv, ArchiveInv
<1> QED BY <1>2, <1>3, <1>4 DEF CInv

\* Every step keeps the invariant.
LEMMA NextInv == CInv /\ [Next]_vars => CInv'
<1> SUFFICES ASSUME CInv, [Next]_vars PROVE CInv' OBVIOUS
<1>1. CASE UNCHANGED vars
  BY <1>1 DEF vars, CInv, Shape, ArchiveInv, NodeInv, JobInv, Manifest, FlushType, Index, Entry, Status
<1>2. ASSUME NEW n \in Node, NEW j \in Job, Flush(n, j) \/ Publish(n, j) \/ PublishFails(n, j)
      PROVE  CInv'
  BY <1>2, FlushInv, PublishInv, PublishFailsInv
<1>3. ASSUME NEW n \in Node, Materialize(n) \/ PublishSnapshot(n) \/ Compact(n) \/ Write(n)
      PROVE  CInv'
  BY <1>3, MaterializeInv, PublishSnapshotInv, CompactInv, WriteInv
<1>4. ASSUME NEW n \in Node, CheckpointStarts(n) \/ Refresh(n) \/ Restart(n)
      PROVE  CInv'
  BY <1>4, CheckpointStartsInv, RefreshInv, RestartInv
<1>5. ASSUME NEW n \in Node, NEW i \in Entry, Resend(n, i) PROVE CInv'
  BY <1>5, ResendInv
<1> QED BY <1>1, <1>2, <1>3, <1>4, <1>5 DEF Next, Runs

\* The invariant always holds.
LEMMA Invariance == Spec => []CInv
BY InitInv, NextInv, PTL DEF Spec

\* The coordinator of every node is consistent: nothing it holds is ahead of the
\* decided log, an unarchived write is watched, and the archive is reported
\* unavailable only while a write waits for it (CoordinatorState).
THEOREM Consistent == Spec => []CoordinatorConsistent
<1>1. CInv => CoordinatorConsistent
  <2> SUFFICES ASSUME CInv PROVE CoordinatorConsistent OBVIOUS
  <2>1. /\ mode \in Modes /\ committed \in Index /\ faults \in 0 .. MaxFaults
        /\ flush \in [Node -> [Job -> FlushType]]
    BY DEF CInv, Shape
  <2>2. local \in [Node -> [anchor : Index, tip : 0 .. committed]]
    BY DEF CInv, Shape, NodeInv
  <2>3. {archive} \cup Range(cached) \subseteq Manifest
    BY DEF CInv, Shape, ArchiveInv, NodeInv, Range
  <2>4. coord \in [Node -> Status(committed)]
    BY DEF CInv, Shape, NodeInv
  <2>5. TypeOK BY <2>1, <2>2, <2>3, <2>4 DEF TypeOK, FlushType, Manifest, Status
  <2>6. LagIsTracked /\ UnavailableMeansBehind
    BY DEF CInv, NodeInv, Sound, LagIsTracked, UnavailableMeansBehind
  <2> QED BY <2>5, <2>6 DEF CoordinatorConsistent
<1> QED BY <1>1, Invariance, PTL

\* What clients and nodes rely on is in the archive, whichever node publishes,
\* checkpoints, fails or restarts: a write that DurabilityMode::Sync confirmed,
\* and the entries a node has compacted away.
THEOREM ReliedOn == Spec => []ReliedOnIsArchived
<1>1. CInv => ReliedOnIsArchived
  <2> SUFFICES ASSUME CInv PROVE ReliedOnIsArchived OBVIOUS
  <2>1. CompactedIsArchived BY DEF CInv, NodeInv, CompactedIsArchived
  <2>2. ConfirmedIsArchived
    BY Jobs DEF CInv, NodeInv, JobInv, ConfirmedIsArchived
  <2> QED BY <2>1, <2>2 DEF ReliedOnIsArchived
<1> QED BY <1>1, Invariance, PTL

-----------------------------------------------------------------------------
\* No durable tip goes back.
Grows == \A n \in Node : coord[n].durable <= coord'[n].durable

\* One durable tip that grows.
LEMMA OneGrows ==
    ASSUME CInv, NEW k \in Node, NEW c, coord' = [coord EXCEPT ![k] = c],
           c.durable >= coord[k].durable
    PROVE  Grows
BY Bounds DEF CInv, Shape, Grows

\* A failure leaves the durable tip alone.
LEMMA FailsGrows ==
    ASSUME CInv, NEW n \in Node, NEW j \in Job, NEW retried, Fails(n, j, retried) PROVE Grows
<1>1. MarkUnavailable(coord[n]).durable = coord[n].durable
  BY Bounds, MarkUnavailableSound DEF CInv, NodeInv
<1>2. PICK c : c = MarkUnavailable(coord[n]) OBVIOUS
<1>3. coord' = [coord EXCEPT ![n] = c] BY <1>2, Zenon DEF Fails
<1>4. c.durable >= coord[n].durable BY <1>1, <1>2, Bounds
<1> QED BY <1>3, <1>4, OneGrows

\* So does a confirmation.
LEMMA NoteGrows ==
    ASSUME CInv, NEW n \in Node, NEW i \in Entry, i <= committed', committed' >= committed,
           committed' \in Nat, Confirm(n, i)
    PROVE  Grows
<1>1. coord[n] \in Status(committed') /\ Sound(coord[n])
  <2>1. coord[n] \in Status(committed) /\ Sound(coord[n]) BY DEF CInv, NodeInv
  <2> QED BY <2>1, Bounds, StatusGrows
<1>2. i \in 0 .. committed' BY Jobs DEF Entry
<1>3. NoteCommitted(coord[n], i, "new").durable = coord[n].durable
  BY <1>1, <1>2, NoteCommittedSound
<1>4. PICK c : c = NoteCommitted(coord[n], i, "new") OBVIOUS
<1>5. coord' = [coord EXCEPT ![n] = c] BY <1>4, Zenon DEF Confirm
<1>6. c.durable >= coord[n].durable BY <1>3, <1>4, Bounds
<1> QED BY <1>5, <1>6, OneGrows

\* mark_durable_state takes it forward.
LEMMA MarkGrows ==
    ASSUME CInv, NEW n \in Node, NEW tip \in 0 .. committed,
           coord' = [coord EXCEPT ![n] = MarkDurable(coord[n], tip)]
    PROVE  Grows
<1>1. coord[n] \in Status(committed) /\ Sound(coord[n]) BY DEF CInv, NodeInv
<1>2. MarkDurable(coord[n], tip).durable >= coord[n].durable BY <1>1, Bounds, MarkDurableSound
<1>3. PICK c : c = MarkDurable(coord[n], tip) OBVIOUS
<1> QED BY <1>2, <1>3, OneGrows

\* No step takes a durable tip back.
LEMMA StepGrows ==
    ASSUME CInv, CInv', Next PROVE Grows
<1>1. ASSUME UNCHANGED coord PROVE Grows BY <1>1, Bounds DEF Grows
<1>2. ASSUME NEW n \in Node, NEW j \in Job, Flush(n, j) PROVE Grows
  <2>1. \/ Fails(n, j, FALSE) \/ UNCHANGED coord BY <1>2, Zenon DEF Flush
  <2> QED BY <2>1, <1>1, FailsGrows
<1>3. ASSUME NEW n \in Node, NEW j \in Job, Publish(n, j) PROVE Grows
  <2>1. PICK f, m : f = flush[n][j] /\ m = Publication(n, f.target) OBVIOUS
  <2>2. \/ coord' = [coord EXCEPT ![n] = MarkDurable(coord[n], m.tip)] \/ Fails(n, j, TRUE)
    BY <1>3, <2>1, Zenon DEF Publish
  <2>3. JobInv(n, j, f) /\ f.pc = "publish" BY <1>3, <2>1 DEF CInv, NodeInv, Publish
  <2>4. f.target \in 0 .. committed
    BY <2>3, CoordinatorAssumption, Bounds DEF JobInv, FlushType, Index
  <2>5. m.tip \in 0 .. committed BY <2>1, <2>4, PublicationInv DEF Manifest
  <2> QED BY <2>2, <2>5, FailsGrows, MarkGrows
<1>4. ASSUME NEW n \in Node, NEW j \in Job, PublishFails(n, j) PROVE Grows
  BY <1>4, FailsGrows DEF PublishFails
<1>5. ASSUME NEW n \in Node, Write(n) PROVE Grows
  <2>1. committed' = committed + 1 /\ committed < MaxIndex /\ Confirm(n, committed')
    BY <1>5 DEF Write
  <2>2. PICK i \in Entry : i = committed' BY <2>1, Bounds DEF Entry
  <2>3. Confirm(n, i) BY <2>1, <2>2
  <2> QED BY <2>1, <2>2, <2>3, Bounds, NoteGrows
<1>6. ASSUME NEW n \in Node, NEW i \in Entry, Resend(n, i) PROVE Grows
  <2>1. i <= local[n].tip /\ committed' = committed /\ Confirm(n, i) BY <1>6 DEF Resend
  <2>2. i <= committed BY <2>1, Bounds DEF Entry
  <2> QED BY <2>1, <2>2, Bounds, NoteGrows
<1>7. ASSUME NEW n \in Node, Compact(n) PROVE Grows
  <2>1. PICK f : f = flush[n][Checkpointer] OBVIOUS
  <2>2. CASE archive.base = f.snapshot
    <3>1. coord' = [coord EXCEPT ![n] = MarkDurable(coord[n], f.snapshot)]
      BY <1>7, <2>1, <2>2, Zenon DEF Compact
    <3>2. f.snapshot \in 0 .. committed BY <2>2, Bounds
    <3> QED BY <3>1, <3>2, MarkGrows
  <2>3. CASE archive.base # f.snapshot
    BY <1>1, <1>7, <2>1, <2>3, Zenon DEF Compact
  <2> QED BY <2>2, <2>3
<1>8. ASSUME NEW n \in Node, Refresh(n) PROVE Grows
  <2>1. coord' = [coord EXCEPT ![n] = MarkDurable(coord[n], archive.tip)] BY <1>8, Zenon DEF Refresh
  <2> QED BY <2>1, Bounds, MarkGrows
<1>9. ASSUME NEW n \in Node, Restart(n) PROVE Grows
  <2>1. PICK b : b = [durable |-> archive.tip, seen |-> archive.tip, lag |-> "none", available |-> TRUE]
    OBVIOUS
  <2>2. PICK c : c = NoteCommitted(b, local'[n].tip, "recovered") OBVIOUS
  <2>3. coord' = [coord EXCEPT ![n] = c] BY <1>9, <2>1, <2>2, Zenon DEF Restart
  <2>4. committed \in Nat /\ local'[n].tip \in 0 .. committed
    <3>1. NodeInv(n)' BY DEF CInv
    <3>2. committed' = committed BY <1>9 DEF Restart
    <3> QED BY <3>1, <3>2, Bounds DEF NodeInv
  <2>5. b \in Status(committed) /\ Sound(b) /\ b.durable = archive.tip
    BY <2>1, Bounds DEF Status, Sound
  <2>6. NoteCommitted(b, local'[n].tip, "recovered").durable = b.durable
    BY <2>4, <2>5, NoteCommittedSound
  <2>7. c.durable >= coord[n].durable BY <2>2, <2>5, <2>6, Bounds
  <2> QED BY <2>3, <2>7, OneGrows
<1>10. ASSUME NEW n \in Node, Materialize(n) \/ PublishSnapshot(n) \/ CheckpointStarts(n)
       PROVE  Grows
  BY <1>1, <1>10 DEF Materialize, PublishSnapshot, CheckpointStarts
<1> QED BY <1>2, <1>3, <1>4, <1>5, <1>6, <1>7, <1>8, <1>9, <1>10 DEF Next, Runs

\* The durable tip that a node reports (CoordinatorState::durable_index) never
\* goes back, through every outage and restart, and the archive is never behind it.
THEOREM DurableHolds == Spec => DurableNeverRegresses
<1> DEFINE A == \A n \in Node : coord[n].durable <= coord'[n].durable /\ coord'[n].durable <= archive'.tip
<1>1. CInv /\ CInv' /\ [Next]_vars => [A]_vars
  <2> SUFFICES ASSUME CInv, CInv', Next PROVE A OBVIOUS
  <2>1. Grows BY StepGrows
  <2> QED BY <2>1 DEF CInv, NodeInv, Grows
<1>2. Spec => [][A]_vars
  <2> HIDE DEF A
  <2> QED BY <1>1, Invariance, PTL DEF Spec
<1> QED BY <1>2 DEF DurableNeverRegresses
=============================================================================
