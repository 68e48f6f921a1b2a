------------------------- MODULE ClientCallsProofs -------------------------
(***************************************************************************)
(* ImplementsRequestLog of ClientCalls, for every number of nodes, calls,  *)
(* batches and administrative requests: the write path of a node offers an *)
(* entry for a slot only if it may follow the decided log.                 *)
(*                                                                         *)
(* A batch relies on receipts it looked up before.  The inductive invariant*)
(* says which of its members have none up to the applied entry, and that   *)
(* the members proposed together have different identifiers.               *)
(***************************************************************************)
EXTENDS WriteProofs, FiniteSetTheorems

-----------------------------------------------------------------------------
(* The inductive invariant *)

\* No receipt for the request among the first i entries.
Unknown(i, r) == \A j \in 1 .. i : r.id \notin IdsOf(log[j].requests)

\* What the scenario fixes.
ScenarioInv ==
    /\ profile \in {"sql", "kv", "graph"}
    /\ \A c \in Calls : request[c].id \in Ids => request[c] \in Request
    /\ \A k \in DOMAIN ask : ask[k] \in
          [at : Nodes, id : {ask[k].id}, kind : STRING, expect : Nat, next : Nat,
           to : Nat, root : Nat, cli : BOOLEAN]

\* The fields of what the commit mutex protects.
ExecFields(e) ==
    e \in [mode : {e.mode}, owner : {e.owner}, members : Seq(Request), results : {e.results},
           each : BOOLEAN, at : {e.at}, offered : SUBSET Entry]

\* The types of the variables the log depends on.
Shape ==
    /\ node \in [Nodes -> NodeType]
    /\ exec = [n \in Nodes |-> exec[n]]
    /\ queue \in [Nodes -> Seq(Request)]
    /\ task = [n \in Nodes |-> task[n]]

\* A node's configuration is that of the last entry it applied, or the successor
\* that entry stops for; an entry its materializer refused is decided.
NodeInv(w) ==
    LET i == w.applied
    IN  /\ i <= Len(log)
        /\ i > 0 => \/ w.config = log[i].config
                    \/ log[i].kind = "Stop" /\ w.config = log[i].config + 1
        /\ w.torn => i < Len(log) /\ log[i + 1].config = w.config

\* A payload gets its result after the earlier payloads of its identifier.
InTurn(e) ==
    \A j \in DOMAIN e.members : \A i \in 1 .. j - 1 :
        /\ e.members[i].id = e.members[j].id
        /\ CanonicalOf(e.members, i) = i /\ CanonicalOf(e.members, j) = j
        /\ e.results[i] = None
        => e.results[j] = None

\* The pending members of a batch that are proposed together have no receipt
\* and different identifiers.  When a typed batch has sent a member alone, its
\* receipts are old, and at most one more member is left.
BatchInv(e, i) ==
    e.mode \in {"batch", "single"} =>
        /\ DOMAIN e.results = DOMAIN e.members
        /\ profile # "sql" => ~e.each /\ \A k \in Pending(e) : ~Reused(e.members, k)
        /\ profile = "sql" /\ ~e.each =>
              /\ e.mode = "batch" /\ InTurn(e)
              /\ \A k \in Pending(e) : Unknown(i, e.members[k])
        /\ profile # "sql" /\ e.mode = "batch" =>
              \/ \A k \in Pending(e) : Unknown(i, e.members[k])
              \/ Cardinality(Pending(e)) <= 1
        /\ e.mode = "single" =>
              /\ e.at \in DOMAIN e.members /\ Unknown(i, e.members[e.at])
              /\ profile # "sql" => Cardinality(Pending(e) \ {e.at}) <= 1

\* The administrator's request behind a task.
TaskInv(t, e) ==
    /\ t \in [stage : {t.stage}, call : {t.call}, result : {t.result}, target : {t.target}]
    /\ t.stage # "none" => t.call \in DOMAIN ask
    /\ e.mode = "stop" => t.stage \in {"queued", "running"}

\* The inductive invariant.
CInv ==
    /\ IInv /\ ScenarioInv /\ Shape
    /\ \A n \in Nodes :
          /\ NodeInv(node[n]) /\ ExecFields(exec[n]) /\ BatchInv(exec[n], node[n].applied)
          /\ TornInv(node[n], exec[n]) /\ TaskInv(task[n], exec[n])

\* No typed batch with more than two members to go has two at its front that do
\* not fit into one entry.
FrontFits ==
    \A n \in Nodes :
        LET e == exec[n]
        IN  profile # "sql" /\ e.mode = "batch" /\ e.offered = {} /\ Alone(e)
                => Cardinality(Pending(e)) <= 2

-----------------------------------------------------------------------------
(* Facts about the operators *)

\* A lookup finds no receipt exactly when there is none.
LEMMA NoReceipt ==
    ASSUME NEW i, NEW r
    PROVE  CheckRequest(i, r) = None <=> Unknown(i, r)
<1>1. None # Ok(Min({j \in 1 .. i : r.id \in IdsOf(log[j].requests)})) /\ None # Err("conflict")
  BY DEF None, Ok, Err, Result
<1> QED
  BY <1>1 DEF CheckRequest, Unknown

-----------------------------------------------------------------------------
(* What the steps at one node have to establish *)

LEMMA InvOf ==
    ASSUME CInv, NEW n \in Nodes
    PROVE  /\ node[n] \in NodeType /\ ExecFields(exec[n])
           /\ NodeInv(node[n]) /\ BatchInv(exec[n], node[n].applied)
           /\ TornInv(node[n], exec[n]) /\ TaskInv(task[n], exec[n])
           /\ log \in Seq(Entry) /\ Len(log) \in Nat
           /\ profile \in {"sql", "kv", "graph"}
BY DEF CInv, Shape, ScenarioInv, IInv, TypeOK

Grown ==
    /\ Len(log) <= Len(log')
    /\ \A j \in 1 .. Len(log) : log'[j] = log[j]

\* What a node knows of the log stays true when the log grows.
LEMMA NodeKept ==
    ASSUME NEW w \in NodeType, NodeInv(w), Grown, Len(log) \in Nat, Len(log') \in Nat
    PROVE  NodeInv(w)'
<1>1. w.applied \in Nat /\ w.applied <= Len(log)
  BY DEF NodeType, NodeInv
<1>2. w.applied <= Len(log')
  BY <1>1 DEF Grown
<1>3. w.applied > 0 => log'[w.applied] = log[w.applied]
  BY <1>1 DEF Grown
<1>4. w.torn => w.applied + 1 \in 1 .. Len(log) /\ w.applied < Len(log')
  BY <1>1 DEF NodeInv, Grown
<1>5. w.torn => log'[w.applied + 1] = log[w.applied + 1]
  BY <1>4 DEF Grown
<1> QED
  BY <1>2, <1>3, <1>4, <1>5 DEF NodeInv

LEMMA BatchKept ==
    ASSUME NEW e, NEW i \in Nat, i <= Len(log), Len(log) \in Nat, Grown, profile' = profile,
           BatchInv(e, i)
    PROVE  BatchInv(e, i)'
<1>1. \A r : Unknown(i, r)' <=> Unknown(i, r)
  <2>1. \A j \in 1 .. i : log'[j] = log[j]
    BY DEF Grown
  <2> QED
    BY <2>1 DEF Unknown
<1>2. InTurn(e)' <=> InTurn(e)
  BY DEF InTurn
<1> QED
  BY <1>1, <1>2 DEF BatchInv

\* A step at one node that leaves the log or lets it grow.
LEMMA NodeStep ==
    ASSUME CInv, NEW n \in Nodes, NEW w \in NodeType, NEW v, ExecFields(v),
           node' = [node EXCEPT ![n] = w], exec' = [exec EXCEPT ![n] = v],
           log' = log, UNCHANGED <<profile, ask, request>>, [LogNext]_logVars,
           NodeInv(w), BatchInv(v, w.applied), TornInv(w, v),
           queue' \in [Nodes -> Seq(Request)],
           task' = [m \in Nodes |-> task'[m]],
           \A m \in Nodes : TaskInv(task'[m], exec'[m])
    PROVE  CInv'
<1>1. IInv'
  BY StepIInv DEF CInv
<1>2. ScenarioInv'
  BY DEF CInv, ScenarioInv
<1>3. Shape'
  BY Zenon DEF CInv, Shape
<1>4. Grown /\ Len(log) \in Nat /\ Len(log') \in Nat
  BY DEF Grown, CInv, IInv, TypeOK
<1>5. ASSUME NEW m \in Nodes
      PROVE  /\ NodeInv(node[m])' /\ ExecFields(exec[m])' /\ BatchInv(exec[m], node[m].applied)'
             /\ TornInv(node[m], exec[m])' /\ TaskInv(task[m], exec[m])'
  <2>1. PICK x : x = node'[m]
    OBVIOUS
  <2>2. PICK y : y = exec'[m]
    OBVIOUS
  <2>3. /\ x \in NodeType /\ NodeInv(x)
        /\ ExecFields(y) /\ BatchInv(y, x.applied) /\ TornInv(x, y)
    <3>1. CASE m = n
      BY <3>1, <2>1, <2>2 DEF CInv, Shape
    <3>2. CASE m # n
      <4>1. x = node[m] /\ y = exec[m]
        BY <3>2, <2>1, <2>2 DEF CInv, Shape
      <4> QED
        BY <4>1, InvOf
    <3> QED
      BY <3>1, <3>2
  <2>4. x.applied \in Nat /\ x.applied <= Len(log)
    BY <2>3 DEF NodeType, NodeInv
  <2>5. NodeInv(x)' /\ BatchInv(y, x.applied)'
    BY <1>4, <2>3, <2>4, NodeKept, BatchKept
  <2>6. TornInv(x, y)' /\ ExecFields(y)'
    BY <2>3 DEF TornInv, ExecFields
  <2>7. TaskInv(task[m], exec[m])'
    BY DEF TaskInv
  <2> QED
    BY <2>1, <2>2, <2>5, <2>6, <2>7
<1> QED
  BY <1>1, <1>2, <1>3, <1>5 DEF CInv

-----------------------------------------------------------------------------
(* What the steps make of a batch *)

\* Nothing is required of a node that executes no batch.
LEMMA Quiet ==
    ASSUME NEW e, NEW i, e.mode \notin {"batch", "single"}
    PROVE  BatchInv(e, i)
BY DEF BatchInv

LEMMA FreeIsQuiet ==
    /\ ExecFields(Free) /\ Free.mode = "free" /\ Free.offered = {}
    /\ \A i : BatchInv(Free, i)
    /\ \A w : TornInv(w, Free) <=> (w.torn => w.fatal)
<1>1. ExecFields(Free) /\ Free.mode = "free" /\ Free.offered = {}
  BY DEF ExecFields, Free
<1> QED
  BY <1>1, Quiet DEF TornInv

\* A batch with nothing to go.
LEMMA NonePending ==
    ASSUME NEW e, NEW i, e.mode = "batch", e.each \in BOOLEAN,
           DOMAIN e.results = DOMAIN e.members, e.members \in Seq(Request),
           profile # "sql" => ~e.each, Pending(e) = {}
    PROVE  BatchInv(e, i)
<1>1. ~e.each => InTurn(e)
  <2> SUFFICES ASSUME ~e.each, NEW j \in DOMAIN e.members, NEW k \in 1 .. j - 1,
                      CanonicalOf(e.members, k) = k, e.results[k] = None
               PROVE  FALSE
    BY DEF InTurn
  <2>1. k \in DOMAIN e.members
    OBVIOUS
  <2> QED
    BY <2>1 DEF Pending
<1> QED
  BY <1>1 DEF BatchInv

\* FailAll answers every pending member.
LEMMA FailAllIs ==
    ASSUME NEW e, NEW kind, ExecFields(e), e.mode = "batch", kind # "none",
           profile # "sql" => ~e.each
    PROVE  LET f == FailAll(e, kind)
           IN  /\ ExecFields(f) /\ f.mode = "batch" /\ f.offered = {} /\ Pending(f) = {}
               /\ \A i : BatchInv(f, i)
<1> DEFINE f == FailAll(e, kind)
           g == [i \in DOMAIN e.members |->
                     IF i \in Pending(e) THEN Err(kind) ELSE e.results[i]]
<1>2. ExecFields(f) /\ f.mode = "batch" /\ f.offered = {} /\ f.members = e.members
      /\ f.each = e.each /\ f.results = g
  BY Zenon DEF FailAll, ExecFields
<1>3. \A i \in DOMAIN e.members : g[i] = None =>
         ~(i \in Pending(e)) /\ e.results[i] = None
  BY Answers
<1>4. Pending(f) = {}
  <2> SUFFICES ASSUME NEW i \in Pending(f) PROVE FALSE
    OBVIOUS
  <2>1. i \in DOMAIN e.members /\ g[i] = None /\ (e.each \/ CanonicalOf(e.members, i) = i)
    BY <1>2 DEF Pending
  <2> QED
    BY <2>1, <1>3 DEF Pending
<1>5. DOMAIN f.results = DOMAIN f.members
  BY <1>2
<1>6. \A i : BatchInv(f, i)
  BY <1>2, <1>4, <1>5, NonePending DEF ExecFields
<1> QED
  BY <1>2, <1>4, <1>6

\* A member with the identifier of an unknown one is unknown.
LEMMA SameId ==
    ASSUME NEW i, NEW r, NEW q, Unknown(i, r), q.id = r.id
    PROVE  Unknown(i, q)
BY DEF Unknown

\* What a batch begins with.
LEMMA PreflightInv ==
    ASSUME NEW e, NEW i, ExecFields(e), e.mode = "batch", ~e.each,
           e.results = Preflight(i, e.members), profile \in {"sql", "kv", "graph"}
    PROVE  BatchInv(e, i)
<1> DEFINE m == e.members
<1>1. DOMAIN e.results = DOMAIN m
  BY DEF Preflight, SqlPreflight, GraphPreflight, KvPreflight
<1>2. \A k \in DOMAIN m : CheckRequest(i, m[k]) = None <=> Unknown(i, m[k])
  BY NoReceipt
<1>3. CASE profile = "sql"
  <2>1. \A k \in DOMAIN m :
           e.results[k] = IF CanonicalOf(m, k) # k THEN None ELSE CheckRequest(i, m[k])
    BY <1>3 DEF Preflight, SqlPreflight, Lookups
  <2>2. \A k \in Pending(e) : Unknown(i, m[k])
    BY <1>2, <2>1 DEF Pending
  <2>3. InTurn(e)
    <3> SUFFICES ASSUME NEW j \in DOMAIN m, NEW k \in 1 .. j - 1, m[k].id = m[j].id,
                        CanonicalOf(m, k) = k, CanonicalOf(m, j) = j, e.results[k] = None
                 PROVE  e.results[j] = None
      BY DEF InTurn
    <3>1. k \in DOMAIN m
      BY DEF ExecFields
    <3>2. Unknown(i, m[k])
      BY <1>2, <2>1, <3>1
    <3>3. Unknown(i, m[j])
      BY <3>2, SameId
    <3> QED
      BY <1>2, <2>1, <3>3
  <2> QED
    BY <1>1, <1>3, <2>2, <2>3 DEF BatchInv
<1>4. CASE profile # "sql"
  <2>1. \A k \in DOMAIN m : CanonicalOf(m, k) = k /\ e.results[k] = None
                               => Unknown(i, m[k]) /\ ~Reused(m, k)
    <3>1. Err("conflict") # None
      BY Answers
    <3>2. CASE profile = "graph"
      <4>1. e.results = GraphPreflight(i, m)
        BY <3>2 DEF Preflight
      <4> QED
        BY <1>2, <3>1, <4>1 DEF GraphPreflight
    <3>3. CASE profile = "kv"
      <4>1. e.results = KvPreflight(i, m)
        BY <3>3 DEF Preflight
      <4> QED
        BY <1>2, <3>1, <4>1 DEF KvPreflight
    <3> QED
      BY <1>4, <3>2, <3>3
  <2>2. \A k \in Pending(e) : Unknown(i, m[k]) /\ ~Reused(m, k)
    BY <2>1 DEF Pending
  <2> QED
    BY <1>1, <1>4, <2>2 DEF BatchInv
<1> QED
  BY <1>3, <1>4

LEMMA BeginIs ==
    ASSUME CInv, NEW n \in Nodes, NEW owner, NEW members \in Seq(Request),
           Begin(n, owner, members)
    PROVE  \E v : /\ exec' = [exec EXCEPT ![n] = v]
                  /\ ExecFields(v) /\ v.mode = "batch"
                  /\ BatchInv(v, node[n].applied) /\ TornInv(node[n], v)
<1>1. PICK each \in (IF profile = "sql" THEN BOOLEAN ELSE {FALSE}) :
         LET fresh == [Free EXCEPT !.mode = "batch", !.owner = owner, !.members = members,
                                   !.results = [i \in DOMAIN members |-> None],
                                   !.each = each]
         IN  exec' = [exec EXCEPT ![n] =
                CASE node[n].fatal -> FailAll(fresh, "fatal")
                  [] ~node[n].fatal /\ ~Writable(n) -> FailAll(fresh, "retry")
                  [] OTHER -> IF each THEN fresh
                              ELSE [fresh EXCEPT !.results = Preflight(node[n].applied, members)]]
  BY Zenon DEF Begin
<1>2. PICK fresh : fresh = [Free EXCEPT !.mode = "batch", !.owner = owner, !.members = members,
                                        !.results = [i \in DOMAIN members |-> None],
                                        !.each = each]
  OBVIOUS
<1>3. /\ ExecFields(fresh) /\ fresh.mode = "batch" /\ fresh.members = members
      /\ fresh.each = each /\ fresh.results = [i \in DOMAIN members |-> None]
  BY Zenon, <1>2, FreeIsQuiet DEF ExecFields
<1>4. profile \in {"sql", "kv", "graph"} /\ node[n] \in NodeType /\ TornInv(node[n], exec[n])
  BY InvOf
<1>5. node[n].torn => node[n].fatal
  BY <1>4 DEF TornInv
<1>6. profile # "sql" => ~each
  BY <1>1
<1>7. CASE node[n].fatal
  <2>1. exec' = [exec EXCEPT ![n] = FailAll(fresh, "fatal")]
    BY Zenon, <1>1, <1>2, <1>7
  <2>2. LET f == FailAll(fresh, "fatal")
        IN  /\ ExecFields(f) /\ f.mode = "batch" /\ f.offered = {} /\ Pending(f) = {}
            /\ \A i : BatchInv(f, i)
    BY <1>3, <1>6, FailAllIs
  <2>3. TornInv(node[n], FailAll(fresh, "fatal"))
    BY <1>7, <2>2 DEF TornInv
  <2> QED
    BY Zenon, <2>1, <2>2, <2>3
<1>8. CASE ~node[n].fatal /\ ~Writable(n)
  <2>1. exec' = [exec EXCEPT ![n] = FailAll(fresh, "retry")]
    BY Zenon, <1>1, <1>2, <1>8
  <2>2. LET f == FailAll(fresh, "retry")
        IN  /\ ExecFields(f) /\ f.mode = "batch" /\ \A i : BatchInv(f, i)
    BY <1>3, <1>6, FailAllIs
  <2>3. TornInv(node[n], FailAll(fresh, "retry"))
    BY <1>8, <1>5 DEF TornInv
  <2> QED
    BY Zenon, <2>1, <2>2, <2>3
<1>9. CASE ~node[n].fatal /\ Writable(n) /\ each
  <2>1. exec' = [exec EXCEPT ![n] = fresh]
    BY <1>1, <1>2, <1>9
  <2>2. TornInv(node[n], fresh)
    BY Zenon, <1>9, <1>5 DEF TornInv
  <2>3. BatchInv(fresh, node[n].applied)
    BY <1>3, <1>6, <1>9 DEF BatchInv
  <2> QED
    BY Zenon, <1>3, <2>1, <2>2, <2>3
<1>10. CASE ~node[n].fatal /\ Writable(n) /\ ~each
  <2>1. PICK v : v = [fresh EXCEPT !.results = Preflight(node[n].applied, members)]
    BY Zenon
  <2>2. exec' = [exec EXCEPT ![n] = v]
    BY <1>1, <1>2, <1>10, <2>1
  <2>3. /\ ExecFields(v) /\ v.mode = "batch" /\ v.members = members /\ ~v.each
        /\ v.results = Preflight(node[n].applied, members)
    BY ZenonT(20), <1>3, <1>10, <2>1 DEF ExecFields
  <2>4. BatchInv(v, node[n].applied)
    BY <1>4, <2>3, PreflightInv
  <2>5. TornInv(node[n], v)
    BY <1>10, <1>5 DEF TornInv
  <2> QED
    BY Zenon, <2>2, <2>3, <2>4, <2>5
<1> QED
  BY <1>7, <1>8, <1>9, <1>10

-----------------------------------------------------------------------------
(* What a node proposes may follow the log *)

LEMMA EntryIs ==
    ASSUME CInv, NEW n \in Nodes, NEW kind \in {"Command", "Stop", "Activation"},
           NEW R \in SUBSET Request, NEW successor \in Nat
    PROVE  LET e == EntryOf(n, kind, R, successor)
           IN  /\ e \in Entry /\ e.kind = kind /\ e.config = node[n].config
               /\ e.requests = R /\ e.successor = successor
<1>1. node[n].config \in Nat \ {0}
  BY InvOf DEF NodeType
<1> QED
  BY <1>1 DEF EntryOf, Entry

\* The gate of the recorders, as a node that has applied everything sees it.
LEMMA Tip ==
    ASSUME CInv, NEW n \in Nodes, node[n].applied = Len(log)
    PROVE  /\ IsActive(node[n].applied) <=> ~Stopped(log)
           /\ log # <<>> => /\ Len(log) \in Nat /\ Len(log) > 0
                            /\ \/ node[n].config = log[Len(log)].config
                               \/ /\ Stopped(log)
                                  /\ node[n].config = log[Len(log)].config + 1
<1>1. log \in Seq(Entry) /\ Len(log) \in Nat /\ NodeInv(node[n])
  BY InvOf
<1>2. log = <<>> <=> Len(log) = 0
  BY <1>1
<1>3. IsActive(node[n].applied) <=> ~Stopped(log)
  BY <1>1, <1>2 DEF IsActive, Stopped
<1> QED
  BY <1>1, <1>2, <1>3 DEF NodeInv, Stopped

\* A proposal is an offer of RequestLog, or nothing the log shows.
LEMMA Offered ==
    ASSUME NEW n, NEW entry \in Entry, Propose(n, entry), log' = log,
           node[n].applied = Len(log) /\ Admitted(n, entry) => MayFollow(entry)
    PROVE  [LogNext]_logVars
<1>1. CASE node[n].applied = Len(log) /\ Admitted(n, entry)
  <2>1. offers' = offers \cup {entry} /\ MayFollow(entry)
    BY <1>1 DEF Propose
  <2> QED
    BY <2>1 DEF LogNext, Offer
<1>2. CASE ~(node[n].applied = Len(log) /\ Admitted(n, entry))
  BY <1>2 DEF Propose, logVars
<1> QED
  BY <1>1, <1>2

-----------------------------------------------------------------------------
(* The steps of the runtime *)

Still == UNCHANGED <<ask, request, queue, task>>

LEMMA RuntimeInv ==
    ASSUME CInv, NEW n \in Nodes, NEW w \in NodeType, NEW v, ExecFields(v),
           node' = [node EXCEPT ![n] = w], exec' = [exec EXCEPT ![n] = v],
           log' = log, profile' = profile, Still, [LogNext]_logVars,
           NodeInv(w), BatchInv(v, w.applied), TornInv(w, v),
           v.mode = "stop" => exec[n].mode = "stop"
    PROVE  CInv'
<1>1. queue' \in [Nodes -> Seq(Request)] /\ task' = [m \in Nodes |-> task'[m]]
  BY DEF Still, CInv, Shape
<1>2. ASSUME NEW m \in Nodes PROVE TaskInv(task'[m], exec'[m])
  <2>1. TaskInv(task[m], exec[m]) /\ task'[m] = task[m]
    BY InvOf DEF Still
  <2>2. exec'[m].mode = "stop" => exec[m].mode = "stop"
    BY DEF CInv, Shape
  <2> QED
    BY <2>1, <2>2 DEF TaskInv
<1>3. UNCHANGED <<profile, ask, request>>
  BY DEF Still
<1> QED
  BY Zenon, <1>1, <1>2, <1>3, NodeStep

LEMMA ExecInv ==
    ASSUME CInv, NEW n \in Nodes, NEW v, ExecFields(v),
           node' = node, exec' = [exec EXCEPT ![n] = v],
           log' = log, profile' = profile, Still, [LogNext]_logVars,
           BatchInv(v, node[n].applied), TornInv(node[n], v),
           v.mode = "stop" => exec[n].mode = "stop"
    PROVE  CInv'
<1>1. node[n] \in NodeType /\ NodeInv(node[n])
  BY InvOf
<1>2. node' = [node EXCEPT ![n] = node[n]]
  BY DEF CInv, Shape
<1> QED
  BY Zenon, <1>1, <1>2, RuntimeInv

\* Nothing on offer, nothing decided.
LEMMA NoOffer == ASSUME UNCHANGED <<log, offers>> PROVE [LogNext]_logVars
BY DEF logVars

-----------------------------------------------------------------------------
(* The steps around the runtime *)

\* A step outside the runtime.
LEMMA Frame ==
    ASSUME CInv, UNCHANGED <<profile, node, exec, ask, request, log, offers>>,
           queue' \in [Nodes -> Seq(Request)], task' = [m \in Nodes |-> task'[m]],
           \A m \in Nodes : TaskInv(task'[m], exec[m])
    PROVE  CInv' /\ [LogNext]_logVars
<1>1. [LogNext]_logVars
  BY NoOffer
<1>2. IInv' /\ ScenarioInv' /\ Shape'
  BY <1>1, StepIInv DEF CInv, ScenarioInv, Shape
<1>3. Grown /\ Len(log) \in Nat /\ Len(log') \in Nat
  BY DEF Grown, CInv, IInv, TypeOK
<1>4. ASSUME NEW m \in Nodes
      PROVE  /\ NodeInv(node[m])' /\ ExecFields(exec[m])' /\ BatchInv(exec[m], node[m].applied)'
             /\ TornInv(node[m], exec[m])' /\ TaskInv(task[m], exec[m])'
  <2>1. PICK x, y : x = node[m] /\ y = exec[m]
    OBVIOUS
  <2>2. /\ x \in NodeType /\ NodeInv(x)
        /\ ExecFields(y) /\ BatchInv(y, x.applied) /\ TornInv(x, y)
    BY <2>1, InvOf
  <2>3. x.applied \in Nat /\ x.applied <= Len(log)
    BY <2>2 DEF NodeType, NodeInv
  <2>4. NodeInv(x)' /\ BatchInv(y, x.applied)'
    BY Zenon, <1>3, <2>2, <2>3, NodeKept, BatchKept
  <2>5. TornInv(x, y)' /\ ExecFields(y)'
    BY <2>2 DEF TornInv, ExecFields
  <2>6. TaskInv(task[m], exec[m])'
    BY SMTT(30) DEF TaskInv
  <2> QED
    BY Zenon, <2>1, <2>4, <2>5, <2>6
<1> QED
  BY <1>1, <1>2, <1>4 DEF CInv

\* A task changes its stage.
LEMMA TaskMoves ==
    ASSUME CInv, NEW n \in Nodes, NEW e, NEW stage, NEW t,
           task[n].call \in DOMAIN ask,
           e.mode = "stop" => stage \in {"queued", "running"},
           \/ \E r : t = [task[n] EXCEPT !.stage = stage, !.result = r]
           \/ \E r : t = [task[n] EXCEPT !.stage = stage, !.target = r]
    PROVE  TaskInv(t, e)
<1>1. TaskInv(task[n], exec[n])
  BY Zenon, InvOf
<1> QED
  BY Zenon, <1>1 DEF TaskInv

\* A checkpoint compaction begins or ends.
LEMMA CompactingStep ==
    ASSUME CInv, NEW n \in Nodes, NEW b \in BOOLEAN, NEW t, TaskInv(t, exec[n]),
           node' = [node EXCEPT ![n].compacting = b], task' = [task EXCEPT ![n] = t],
           UNCHANGED <<profile, exec, log, offers, ask, request, queue>>
    PROVE  CInv' /\ [LogNext]_logVars
<1>1. PICK w, v : w = [node[n] EXCEPT !.compacting = b] /\ v = exec[n]
  BY Zenon
<1>2. /\ node[n] \in NodeType /\ NodeInv(node[n]) /\ TornInv(node[n], v)
      /\ ExecFields(v) /\ BatchInv(v, node[n].applied)
  BY <1>1, InvOf
<1>3. /\ w \in NodeType /\ w.applied = node[n].applied /\ w.config = node[n].config
      /\ w.torn = node[n].torn /\ w.fatal = node[n].fatal
  BY ZenonT(20), <1>1, <1>2 DEF NodeType
<1>4. NodeInv(w) /\ TornInv(w, v) /\ BatchInv(v, w.applied)
  BY <1>2, <1>3 DEF NodeInv, TornInv
<1>5. exec' = [exec EXCEPT ![n] = v] /\ node' = [node EXCEPT ![n] = w]
  BY <1>1 DEF CInv, Shape
<1>6. queue' \in [Nodes -> Seq(Request)] /\ task' = [m \in Nodes |-> task'[m]]
  BY DEF CInv, Shape
<1>7. ASSUME NEW m \in Nodes PROVE TaskInv(task'[m], exec'[m])
  BY InvOf DEF CInv, Shape
<1> QED
  BY ZenonT(30), <1>2, <1>3, <1>4, <1>5, <1>6, <1>7, NoOffer, NodeStep

\* A batch begins.
LEMMA BeginStep ==
    ASSUME CInv, NEW n \in Nodes, NEW owner, NEW members \in Seq(Request),
           Begin(n, owner, members), UNCHANGED <<ask, request, task>>,
           queue' \in [Nodes -> Seq(Request)]
    PROVE  CInv' /\ [LogNext]_logVars
<1>1. PICK v : /\ exec' = [exec EXCEPT ![n] = v]
               /\ ExecFields(v) /\ v.mode = "batch"
               /\ BatchInv(v, node[n].applied) /\ TornInv(node[n], v)
  BY BeginIs
<1>2. UNCHANGED <<profile, node, log, offers>>
  BY DEF Begin
<1>3. PICK w : w = node[n]
  OBVIOUS
<1>4. w \in NodeType /\ NodeInv(w) /\ node' = [node EXCEPT ![n] = w]
  BY <1>2, <1>3, InvOf DEF CInv, Shape
<1>5. task' = [m \in Nodes |-> task'[m]]
  BY DEF CInv, Shape
<1>6. ASSUME NEW m \in Nodes PROVE TaskInv(task'[m], exec'[m])
  <2>1. TaskInv(task[m], exec[m]) /\ task'[m] = task[m]
    BY Zenon, InvOf
  <2>2. exec'[m].mode = "stop" => exec[m].mode = "stop"
    BY <1>1 DEF CInv, Shape
  <2> QED
    BY Zenon, <2>1, <2>2 DEF TaskInv
<1> QED
  BY ZenonT(30), <1>1, <1>2, <1>3, <1>4, <1>5, <1>6, NoOffer, NodeStep

LEMMA WriterStepStep ==
    ASSUME CInv, WriterStep
    PROVE  CInv' /\ [LogNext]_logVars
<1>FreeStep.
    ASSUME CInv, NEW n \in Nodes, exec' = [exec EXCEPT ![n] = Free],
           UNCHANGED <<profile, node, log, offers>>, Still
    PROVE  CInv' /\ [LogNext]_logVars
  <2> USE <1>FreeStep
  <2>1. TornInv(node[n], exec[n])
    BY SMTT(30), InvOf
  <2>2. TornInv(node[n], Free)
    BY Zenon, <2>1, FreeIsQuiet DEF TornInv
  <2> QED
    BY ZenonT(30), <2>2, FreeIsQuiet, NoOffer, ExecInv
<1>WriterTakeStep.
    ASSUME CInv, NEW n \in Nodes, WriterTake(n), UNCHANGED <<ask, task>>
    PROVE  CInv' /\ [LogNext]_logVars
  <2> USE <1>WriterTakeStep
  <2>1. PICK k \in 1 .. Min({Len(queue[n]), WriterBatchMax}) :
           /\ Begin(n, "http", SubSeq(queue[n], 1, k))
           /\ queue' = [queue EXCEPT ![n] = SubSeq(queue[n], k + 1, Len(queue[n]))]
           /\ request' = request
    BY Zenon DEF WriterTake
  <2>2. queue \in [Nodes -> Seq(Request)] /\ queue[n] \in Seq(Request) /\ Len(queue[n]) \in Nat
    BY DEF CInv, Shape
  <2>3. Min({Len(queue[n]), WriterBatchMax}) <= Len(queue[n])
        /\ Min({Len(queue[n]), WriterBatchMax}) \in Nat
    <3>1. {Len(queue[n]), WriterBatchMax} \in SUBSET Nat
      BY <2>2, BatchAssumption
    <3>2. /\ Min({Len(queue[n]), WriterBatchMax}) \in {Len(queue[n]), WriterBatchMax}
          /\ \A y \in {Len(queue[n]), WriterBatchMax} : Min({Len(queue[n]), WriterBatchMax}) <= y
      BY Zenon, <3>1, LeastExists
    <3> QED
      BY <3>1, <3>2
  <2>4. k \in Nat /\ k >= 1 /\ k <= Len(queue[n])
    BY <2>1, <2>2, <2>3
  <2>5. SubSeq(queue[n], 1, k) \in Seq(Request)
    BY <2>2, <2>4
  <2>6. SubSeq(queue[n], k + 1, Len(queue[n])) \in Seq(Request)
    BY <2>2, <2>4
  <2>7. queue' \in [Nodes -> Seq(Request)]
    BY <2>1, <2>2, <2>6
  <2> QED
    BY Zenon, <2>1, <2>5, <2>7, BeginStep
<1>1. PICK n \in Nodes : WriterTake(n) \/ WriterReturns(n) \/ EmbeddedReturns(n)
  BY DEF WriterStep
<1>2. UNCHANGED <<ask, task>>
  BY DEF WriterStep, adminVars
<1>3. CASE WriterTake(n)
  BY <1>2, <1>3, <1>WriterTakeStep
<1>4. CASE WriterReturns(n)
  <2>1. /\ exec' = [exec EXCEPT ![n] = Free] /\ UNCHANGED <<profile, node, log, offers>>
        /\ Still
    BY Zenon, <1>2, <1>4 DEF WriterReturns, Still
  <2> QED
    BY Zenon, <2>1, <1>FreeStep
<1>5. CASE EmbeddedReturns(n)
  <2>1. /\ exec' = [exec EXCEPT ![n] = Free] /\ UNCHANGED <<profile, node, log, offers>>
        /\ Still
    BY <1>2, <1>5 DEF EmbeddedReturns, Still
  <2> QED
    BY Zenon, <2>1, <1>FreeStep
<1> QED
  BY <1>1, <1>3, <1>4, <1>5

LEMMA EmbeddedStepStep ==
    ASSUME CInv, EmbeddedStep
    PROVE  CInv' /\ [LogNext]_logVars
<1>1. PICK n \in Nodes : EmbeddedBatch(n)
  BY DEF EmbeddedStep
<1>2. PICK members \in TypedBatches : Begin(n, "embedded", members)
  BY <1>1 DEF EmbeddedBatch
<1>3. UNCHANGED <<ask, request, task, queue>>
  BY <1>1 DEF EmbeddedStep, EmbeddedBatch, adminVars
<1>4. members \in Seq(Request) /\ queue' \in [Nodes -> Seq(Request)]
  BY <1>3, BatchAssumption DEF CInv, Shape
<1> QED
  BY <1>2, <1>3, <1>4, BeginStep

\* Steps that leave the runtime and the operations alone.
LEMMA OutsideStep ==
    ASSUME CInv, UNCHANGED <<logVars, executionVars, adminVars, request>>,
           queue' \in [Nodes -> Seq(Request)]
    PROVE  CInv' /\ [LogNext]_logVars
<1>1. UNCHANGED <<profile, node, exec, ask, request, log, offers, task>>
  BY DEF logVars, executionVars, adminVars
<1>2. task' = [m \in Nodes |-> task'[m]]
  BY Zenon, <1>1 DEF CInv, Shape
<1>3. \A m \in Nodes : TaskInv(task'[m], exec[m])
  BY <1>1, InvOf
<1> QED
  BY Zenon, <1>1, <1>2, <1>3, Frame

LEMMA ClientStepStep ==
    ASSUME CInv, ClientStep
    PROVE  CInv' /\ [LogNext]_logVars
<1>1. UNCHANGED <<logVars, executionVars, adminVars, request>> /\ queue' = queue
  BY DEF ClientStep
<1>2. queue' \in [Nodes -> Seq(Request)]
  BY <1>1 DEF CInv, Shape
<1> QED
  BY <1>1, <1>2, OutsideStep

LEMMA HttpStepStep ==
    ASSUME CInv, HttpStep
    PROVE  CInv' /\ [LogNext]_logVars
<1>1. UNCHANGED <<logVars, executionVars, adminVars>>
  BY DEF HttpStep
<1>2. queue \in [Nodes -> Seq(Request)]
  BY DEF CInv, Shape
<1>3. ASSUME NEW c \in Calls, NEW n \in Nodes, Admit(c, n)
      PROVE  request' = request /\ queue' \in [Nodes -> Seq(Request)]
  <2>1. /\ request' = request /\ request[c].id \in Ids
        /\ queue' = queue \/ queue' = [queue EXCEPT ![n] = Append(queue[n], request[c])]
    BY <1>3 DEF Admit
  <2>2. request[c] \in Request
    BY Zenon, <2>1 DEF CInv, ScenarioInv
  <2> QED
    BY SMTT(30), <1>2, <2>1, <2>2
<1>4. ASSUME NEW c \in Calls, NEW n \in Nodes,
             Refuse(c, n) \/ Disconnect(c, n) \/ HandlerTimeout(c, n) \/ Unready(c, n)
      PROVE  request' = request /\ queue' = queue
  BY <1>4 DEF Refuse, Disconnect, HandlerTimeout, Unready
<1>5. ASSUME NEW n \in Nodes, WriterConfirms(n) \/ WriterDelivers(n) \/ ConfirmFails(n)
      PROVE  request' = request /\ queue' = queue
  BY <1>5 DEF WriterConfirms, WriterDelivers, ConfirmFails
<1>6. ASSUME EmbeddedConfirms \/ EmbeddedShutdown
      PROVE  request' = request /\ queue' = queue
  BY <1>6 DEF EmbeddedConfirms, EmbeddedShutdown
<1>7. request' = request /\ queue' \in [Nodes -> Seq(Request)]
  BY Zenon, <1>2, <1>3, <1>4, <1>5, <1>6 DEF HttpStep
<1> QED
  BY <1>1, <1>7, OutsideStep

LEMMA ReadStepStep ==
    ASSUME CInv, ReadStep
    PROVE  CInv' /\ [LogNext]_logVars
<1>1. UNCHANGED <<logVars, executionVars, adminVars>>
  BY Zenon DEF ReadStep
<1>2. ASSUME NEW c, NEW n, NEW result, EndRead(c, n, result)
      PROVE  request' = request /\ queue' = queue
  BY <1>2 DEF EndRead
<1>3. ASSUME NEW c \in Calls, NEW n \in Nodes,
             \/ AdmitRead(c, n) \/ BarrierEstablished(c, n) \/ ReaderLeaves(c, n)
             \/ SqlReadReturns(c, n) \/ TypedReadReturns(c, n)
             \/ BarrierValidated(c, n) \/ BarrierFails(c, n)
      PROVE  request' = request /\ queue' = queue
  <2>1. CASE AdmitRead(c, n) \/ BarrierEstablished(c, n) \/ ReaderLeaves(c, n)
    BY <2>1 DEF AdmitRead, BarrierEstablished, ReaderLeaves, httpVars
  <2>2. CASE SqlReadReturns(c, n)
    BY ZenonT(30), <1>2, <2>2 DEF SqlReadReturns
  <2>3. CASE TypedReadReturns(c, n) \/ BarrierFails(c, n)
    BY <1>2, <2>3 DEF TypedReadReturns, BarrierFails
  <2>4. CASE BarrierValidated(c, n)
    BY <1>2, <2>4 DEF BarrierValidated, httpVars
  <2> QED
    BY Zenon, <1>3, <2>1, <2>2, <2>3, <2>4
<1>4. request' = request /\ queue' = queue
  BY Zenon, <1>3 DEF ReadStep
<1>5. queue' \in [Nodes -> Seq(Request)]
  BY <1>4 DEF CInv, Shape
<1> QED
  BY <1>1, <1>4, <1>5, OutsideStep

LEMMA RuntimeStepStep ==
    ASSUME CInv, FrontFits, RuntimeStep
    PROVE  CInv' /\ [LogNext]_logVars
<1>PendingMembers.
    ASSUME NEW e, ExecFields(e)
    PROVE  /\ Pending(e) \subseteq DOMAIN e.members
           /\ DOMAIN e.members = 1 .. Len(e.members) /\ Len(e.members) \in Nat
           /\ IsFiniteSet(Pending(e))
           /\ \A k \in DOMAIN e.members : e.members[k] \in Request
  <2> USE <1>PendingMembers
  <2>1. Pending(e) \subseteq DOMAIN e.members
    BY DEF Pending
  <2>2. DOMAIN e.members = 1 .. Len(e.members) /\ Len(e.members) \in Nat
    BY DEF ExecFields
  <2>3. IsFiniteSet(1 .. Len(e.members))
    BY <2>2, FS_Interval
  <2> QED
    BY <2>1, <2>2, <2>3, FS_Subset DEF ExecFields
<1>ConcludedIsQuiet.
    ASSUME NEW result
    PROVE  /\ ExecFields(Concluded(result)) /\ Concluded(result).mode = "concluded"
           /\ Concluded(result).offered = {}
           /\ \A i : BatchInv(Concluded(result), i)
  <2> USE <1>ConcludedIsQuiet
  <2>1. ExecFields(Concluded(result)) /\ Concluded(result).mode = "concluded"
        /\ Concluded(result).offered = {}
    BY Zenon, FreeIsQuiet DEF ExecFields, Concluded
  <2> QED
    BY <2>1, Quiet
\* Resolve answers one member.
<1>ResolveIs.
    ASSUME NEW e, NEW k, NEW result, ExecFields(e), e.mode \in {"batch", "single"},
           DOMAIN e.results = DOMAIN e.members, k \in DOMAIN e.members, result # None
    PROVE  LET f == Resolve(e, k, result)
           IN  /\ ExecFields(f) /\ f.mode = "batch" /\ f.offered = {}
               /\ f.members = e.members /\ f.each = e.each
               /\ DOMAIN f.results = DOMAIN f.members
               /\ Pending(f) = Pending(e) \ {k}
  <2> USE <1>ResolveIs
  <2> DEFINE f == Resolve(e, k, result)
             g == [e.results EXCEPT ![k] = result]
  <2>2. ExecFields(f) /\ f.mode = "batch" /\ f.offered = {} /\ f.members = e.members
        /\ f.each = e.each /\ f.results = g
    BY Zenon DEF Resolve, ExecFields
  <2>3. DOMAIN g = DOMAIN e.members /\ g[k] = result
        /\ \A i \in DOMAIN e.members : i # k => g[i] = e.results[i]
    OBVIOUS
  <2> HIDE DEF f, g
  <2>4. Pending(f) = Pending(e) \ {k}
    BY <2>2, <2>3 DEF Pending
  <2> QED
    BY Zenon, <2>2, <2>3, <2>4 DEF f
<1>ResolveInv.
    ASSUME NEW e, NEW k, NEW result, NEW i, ExecFields(e), BatchInv(e, i),
           e.mode \in {"batch", "single"}, k \in DOMAIN e.members, result # None,
           profile = "sql" => e.each,
           profile # "sql" => Cardinality(Pending(e) \ {k}) <= 1
    PROVE  \A j : BatchInv(Resolve(e, k, result), j)
  <2> USE <1>ResolveInv
  <2>1. DOMAIN e.results = DOMAIN e.members
        /\ (profile # "sql" => ~e.each /\ \A m \in Pending(e) : ~Reused(e.members, m))
    BY Zenon DEF BatchInv
  <2> DEFINE f == Resolve(e, k, result)
  <2>2. /\ f.mode = "batch" /\ f.members = e.members /\ f.each = e.each
        /\ DOMAIN f.results = DOMAIN f.members /\ Pending(f) = Pending(e) \ {k}
    BY <2>1, <1>ResolveIs
  <2> HIDE DEF f
  <2>3. \A j : BatchInv(f, j)
    BY Zenon, <2>1, <2>2 DEF BatchInv
  <2> QED
    BY Zenon, <2>3 DEF f
\* An error ends what the node does, or the member it works on.
<1>FailIs.
    ASSUME NEW e, NEW i, NEW kind, ExecFields(e), BatchInv(e, i), kind # "none"
    PROVE  LET f == Fail(e, kind)
           IN  /\ ExecFields(f) /\ f.offered = {} /\ f.mode \notin {"single", "stop"}
               /\ f.mode = "batch" /\ profile = "sql" /\ ~f.each => Pending(f) = {}
               /\ \A j : BatchInv(f, j)
  <2> USE <1>FailIs
  <2>1. CASE e.mode = "batch"
    <3>1. Fail(e, kind) = FailAll(e, kind) /\ (profile # "sql" => ~e.each)
      BY Zenon, <2>1 DEF Fail, BatchInv
    <3> QED
      BY <2>1, <3>1, FailAllIs
  <2>2. CASE e.mode = "single"
    <3>1. Fail(e, kind) = Resolve(e, e.at, Err(kind))
      BY Zenon, <2>2 DEF Fail
    <3>2. /\ DOMAIN e.results = DOMAIN e.members /\ e.at \in DOMAIN e.members
          /\ profile # "sql" => Cardinality(Pending(e) \ {e.at}) <= 1
      BY Zenon, <2>2 DEF BatchInv
    <3>3. (profile = "sql" => e.each) /\ Err(kind) # None
      BY Zenon, <2>2, Answers DEF BatchInv
    <3>4. \A j : BatchInv(Resolve(e, e.at, Err(kind)), j)
      BY Zenon, <2>2, <3>2, <3>3, <1>ResolveInv
    <3>5. LET f == Resolve(e, e.at, Err(kind))
          IN  ExecFields(f) /\ f.mode = "batch" /\ f.offered = {} /\ f.each = e.each
      BY <2>2, <3>2, <3>3, <1>ResolveIs
    <3> QED
      BY Zenon, <3>1, <3>3, <3>4, <3>5
  <2>3. CASE e.mode \in {"stop", "certify", "activate"}
    BY <2>3, <1>ConcludedIsQuiet DEF Fail
  <2>4. CASE e.mode \notin {"batch", "single", "stop", "certify", "activate"}
    BY Zenon, <2>4, FreeIsQuiet DEF Fail
  <2> QED
    BY Zenon, <2>1, <2>2, <2>3, <2>4
<1>AnswerIs.
    ASSUME NEW e, NEW f, NEW g, ExecFields(e), e.mode = "batch",
           IsAnswer(e, f, g)
    PROVE  /\ ExecFields(f) /\ f.mode = "batch" /\ f.offered = {}
           /\ f.members = e.members /\ f.each = e.each
           /\ DOMAIN f.results = DOMAIN f.members
           /\ \A k \in DOMAIN e.members :
                 f.results[k] = IF k \in Pending(e) THEN g[k] ELSE e.results[k]
           /\ Pending(f) = {k \in Pending(e) : g[k] = None}
  <2> USE <1>AnswerIs
  <2> DEFINE h == [k \in DOMAIN e.members |-> IF k \in Pending(e) THEN g[k] ELSE e.results[k]]
  <2>1. /\ ExecFields(f) /\ f.mode = "batch" /\ f.offered = {}
        /\ f.members = e.members /\ f.each = e.each /\ f.results = h
    BY Zenon DEF ExecFields, IsAnswer
  <2>2. Pending(f) = {k \in Pending(e) : g[k] = None}
    <3>1. ASSUME NEW k \in Pending(f) PROVE k \in Pending(e) /\ g[k] = None
      BY ZenonT(20), <2>1 DEF Pending
    <3>2. ASSUME NEW k \in Pending(e), g[k] = None PROVE k \in Pending(f)
      BY Zenon, <2>1, <3>2 DEF Pending
    <3> QED
      BY Zenon, <3>1, <3>2
  <2> QED
    BY <2>1, <2>2
\* Members that have no receipt and were not in the entry stay pending, and those
\* of an identifier stay or go together.
<1>AnswerInv.
    ASSUME NEW e, NEW f, NEW g, NEW i, NEW slot \in Nat \ {0}, ExecFields(e), BatchInv(e, i),
           e.mode = "batch",
           IsAnswer(e, f, g),
           \A k \in Pending(e) : g[k] = None <=> Unknown(slot, e.members[k])
    PROVE  BatchInv(f, slot)
  <2> USE <1>AnswerInv
  <2>1. /\ f.mode = "batch" /\ f.members = e.members /\ f.each = e.each
        /\ DOMAIN f.results = DOMAIN f.members
        /\ \A k \in DOMAIN e.members :
              f.results[k] = IF k \in Pending(e) THEN g[k] ELSE e.results[k]
        /\ Pending(f) = {k \in Pending(e) : g[k] = None}
    BY <1>AnswerIs
  <2>2. /\ profile # "sql" => ~e.each /\ \A m \in Pending(e) : ~Reused(e.members, m)
        /\ profile = "sql" /\ ~e.each => InTurn(e)
    BY Zenon DEF BatchInv
  <2>3. \A k \in Pending(f) : Unknown(slot, f.members[k])
    BY Zenon, <2>1
  <2>4. ASSUME profile = "sql", ~e.each PROVE InTurn(f)
    <3> SUFFICES ASSUME NEW j \in DOMAIN e.members, NEW k \in 1 .. j - 1,
                        e.members[k].id = e.members[j].id,
                        CanonicalOf(e.members, k) = k, CanonicalOf(e.members, j) = j,
                        f.results[k] = None
                 PROVE  f.results[j] = None
      BY ZenonT(20), <2>1 DEF InTurn
    <3>1. k \in DOMAIN e.members
      BY DEF ExecFields
    <3>2. k \in Pending(e) /\ g[k] = None
      BY Zenon, <2>1, <3>1, <2>4 DEF Pending
    <3>3. e.results[k] = None
      BY Zenon, <3>2 DEF Pending
    <3>4. e.results[j] = None
      BY Zenon, <3>3, <2>2, <2>4 DEF InTurn
    <3>5. j \in Pending(e)
      BY Zenon, <3>4 DEF Pending
    <3>6. Unknown(slot, e.members[k])
      BY Zenon, <3>2
    <3>7. Unknown(slot, e.members[j])
      BY <3>6, SameId
    <3> QED
      BY Zenon, <2>1, <3>5, <3>7
  <2> QED
    BY Zenon, <2>1, <2>2, <2>3, <2>4 DEF BatchInv
\* The lookup after an entry of another node.
<1>LookedUp.
    ASSUME NEW e, NEW slot, ExecFields(e)
    PROVE  \E g : /\ IsAnswer(e, Answer(e, LAMBDA r : CheckRequest(slot, r)), g)
                  /\ \A k \in Pending(e) : g[k] = None <=> Unknown(slot, e.members[k])
  <2> USE <1>LookedUp
  <2>1. PICK g : g = [k \in DOMAIN e.members |-> CheckRequest(slot, e.members[k])]
    BY Zenon
  <2>2. \A k \in Pending(e) : g[k] = CheckRequest(slot, e.members[k])
    BY Zenon, <2>1, <1>PendingMembers
  <2>3. [k \in DOMAIN e.members |->
            IF k \in Pending(e) THEN CheckRequest(slot, e.members[k]) ELSE e.results[k]]
        = [k \in DOMAIN e.members |-> IF k \in Pending(e) THEN g[k] ELSE e.results[k]]
    BY <2>2
  <2>4. IsAnswer(e, Answer(e, LAMBDA r : CheckRequest(slot, r)), g)
    BY Zenon, <2>3 DEF IsAnswer, Answer
  <2> QED
    BY Zenon, <2>2, <2>4, NoReceipt
\* The same after an entry that may be the node's own effect.
<1>LookedUpOrWon.
    ASSUME NEW e, NEW slot \in Nat \ {0}, ExecFields(e)
    PROVE  \E g : /\ IsAnswer(e, AfterSqlBatch(e, slot), g)
                  /\ \A k \in Pending(e) : g[k] = None <=> Unknown(slot, e.members[k])
  <2> USE <1>LookedUpOrWon
  <2> DEFINE won(r) == log[slot] \in e.offered /\ r \in log[slot].requests
             found(r) == IF won(r) THEN Ok(slot) ELSE CheckRequest(slot, r)
  <2>1. PICK g : g = [k \in DOMAIN e.members |-> found(e.members[k])]
    BY Zenon
  <2>2. \A k \in Pending(e) : g[k] = found(e.members[k])
    BY Zenon, <2>1, <1>PendingMembers
  <2>3. [k \in DOMAIN e.members |->
            IF k \in Pending(e) THEN found(e.members[k]) ELSE e.results[k]]
        = [k \in DOMAIN e.members |-> IF k \in Pending(e) THEN g[k] ELSE e.results[k]]
    BY <2>2
  <2>4. IsAnswer(e, AfterSqlBatch(e, slot), g)
    BY Zenon, <2>3 DEF IsAnswer, Answer, AfterSqlBatch
  <2>5. \A r : found(r) = None <=> Unknown(slot, r)
    <3> TAKE r
    <3>1. CASE won(r)
      <4>1. r.id \in IdsOf(log[slot].requests) /\ slot \in 1 .. slot
        BY <3>1 DEF IdsOf
      <4> QED
        BY Zenon, <3>1, <4>1, Answers DEF Unknown
    <3>2. CASE ~won(r)
      BY Zenon, <3>2, NoReceipt
    <3> QED
      BY Zenon, <3>1, <3>2
  <2> QED
    BY <2>2, <2>4, <2>5
\* What a node does with the entry of the next slot.
<1>AfterEntryIs.
    ASSUME NEW e, NEW i, NEW slot \in Nat \ {0}, ExecFields(e), BatchInv(e, i),
           profile \in {"sql", "kv", "graph"}
    PROVE  LET f == AfterEntry(e, slot)
           IN  /\ ExecFields(f) /\ BatchInv(f, slot) /\ f.offered = {}
               /\ f.mode = "stop" => e.mode = "stop"
  <2> USE <1>AfterEntryIs
  <2>1. CASE e.mode = "batch"
    <3>1. PICK f : f = AfterEntry(e, slot)
      OBVIOUS
    <3>2. PICK g : /\ IsAnswer(e, f, g)
                   /\ \A k \in Pending(e) : g[k] = None <=> Unknown(slot, e.members[k])
      <4>1. CASE profile = "sql"
        BY Zenon, <2>1, <3>1, <4>1, <1>LookedUpOrWon DEF AfterEntry, AfterBatch
      <4>2. CASE profile # "sql"
        <5>1. f = Answer(e, LAMBDA r : CheckRequest(slot, r))
          BY Zenon, <2>1, <3>1, <4>2 DEF AfterEntry, AfterBatch, AfterGraphBatch, AfterKvBatch
        <5> QED
          BY Zenon, <5>1, <1>LookedUp
      <4> QED
        BY <4>1, <4>2
    <3>3. ExecFields(f) /\ f.mode = "batch" /\ f.offered = {}
      BY Zenon, <2>1, <3>2, <1>AnswerIs
    <3>4. BatchInv(f, slot)
      BY Zenon, <2>1, <3>2, <1>AnswerInv
    <3> QED
      BY Zenon, <3>1, <3>3, <3>4
  <2>2. CASE e.mode = "single"
    <3>1. PICK found : found = CheckRequest(slot, e.members[e.at])
      OBVIOUS
    <3>2. /\ DOMAIN e.results = DOMAIN e.members /\ e.at \in DOMAIN e.members
          /\ profile # "sql" => Cardinality(Pending(e) \ {e.at}) <= 1
      BY Zenon, <2>2 DEF BatchInv
    <3>3. profile = "sql" => e.each
      BY Zenon, <2>2 DEF BatchInv, ExecFields
    <3>4. CASE found # None
      <4>1. AfterEntry(e, slot) = Resolve(e, e.at, found)
        BY <2>2, <3>1, <3>4 DEF AfterEntry, AfterSingle
      <4>2. BatchInv(Resolve(e, e.at, found), slot)
        BY Zenon, <2>2, <3>2, <3>3, <3>4, <1>ResolveInv
      <4>3. LET f == Resolve(e, e.at, found)
            IN  ExecFields(f) /\ f.mode = "batch" /\ f.offered = {}
        BY <2>2, <3>2, <3>4, <1>ResolveIs
      <4> QED
        BY Zenon, <4>1, <4>2, <4>3
    <3>5. CASE found = None
      <4>1. PICK f : f = [e EXCEPT !.offered = {}]
        BY Zenon
      <4>2. f = AfterEntry(e, slot)
        BY Zenon, <2>2, <3>1, <3>5, <4>1 DEF AfterEntry, AfterSingle
      <4>3. /\ ExecFields(f) /\ f.mode = "single" /\ f.offered = {} /\ f.members = e.members
            /\ f.results = e.results /\ f.each = e.each /\ f.at = e.at
        BY <2>2, <4>1 DEF ExecFields
      <4>4. Pending(f) = Pending(e) /\ Unknown(slot, e.members[e.at])
        BY Zenon, <3>1, <3>5, <4>3, NoReceipt DEF Pending
      <4>5. BatchInv(f, slot)
        BY Zenon, <2>2, <3>2, <3>3, <4>3, <4>4 DEF BatchInv
      <4> QED
        BY Zenon, <4>2, <4>3, <4>5
    <3> QED
      BY Zenon, <3>4, <3>5
  <2>3. CASE e.mode = "stop"
    <3>1. /\ ExecFields([e EXCEPT !.offered = {}]) /\ [e EXCEPT !.offered = {}].mode = "stop"
          /\ [e EXCEPT !.offered = {}].offered = {}
      BY <2>3 DEF ExecFields
    <3>2. LET f == [e EXCEPT !.mode = "certify", !.offered = {}]
          IN  ExecFields(f) /\ f.mode = "certify" /\ f.offered = {}
      BY Zenon DEF ExecFields
    <3>3. AfterEntry(e, slot) = AfterStop(e, slot)
      BY <2>3 DEF AfterEntry
    <3> QED
      BY Zenon, <2>3, <3>1, <3>2, <3>3, Quiet, <1>ConcludedIsQuiet DEF AfterStop
  <2>4. CASE e.mode = "activate"
    BY <2>4, <1>ConcludedIsQuiet DEF AfterEntry
  <2>5. CASE e.mode \notin {"batch", "single", "stop", "activate"}
    BY <2>5, FreeIsQuiet DEF AfterEntry
  <2> QED
    BY Zenon, <2>1, <2>2, <2>3, <2>4, <2>5
<1>Fresh.
    ASSUME CInv, NEW R, \A r \in R : Unknown(Len(log), r)
    PROVE  IdsOf(R) \cap Taken(log) = {}
  <2> USE <1>Fresh
  <2> SUFFICES ASSUME NEW r \in R, r.id \in Taken(log) PROVE FALSE
    BY DEF IdsOf
  <2>1. PICK j \in DOMAIN log : r.id \in IdsOf(log[j].requests)
    BY Zenon DEF Taken
  <2>2. j \in 1 .. Len(log)
    <3>1. log \in Seq(Entry)
      BY Zenon DEF CInv, IInv, TypeOK
    <3> QED
      BY <3>1
  <2> QED
    BY Zenon, <2>1, <2>2 DEF Unknown
<1>CommandFollows.
    ASSUME CInv, NEW n \in Nodes, NEW R \in SUBSET Request, OnePayloadEach(R),
           \A r \in R : Unknown(node[n].applied, r),
           node[n].applied = Len(log), Admitted(n, CommandOf(n, R))
    PROVE  MayFollow(CommandOf(n, R))
  <2> USE <1>CommandFollows
  <2>1. /\ CommandOf(n, R).kind = "Command" /\ CommandOf(n, R).config = node[n].config
        /\ CommandOf(n, R).requests = R
    BY EntryIs DEF CommandOf
  <2>2. ~Stopped(log)
    BY Zenon, <2>1, Tip DEF Admitted
  <2>3. IdsOf(R) \cap Taken(log) = {}
    BY Zenon, <1>Fresh
  <2>4. log # <<>> => node[n].config = log[Len(log)].config + 0
    <3>1. ASSUME log # <<>> PROVE node[n].config = log[Len(log)].config
      BY Zenon, <2>2, <3>1, Tip
    <3> QED
      BY <3>1, InvOf DEF NodeType
  <2> QED
    BY Zenon, <2>1, <2>2, <2>3, <2>4 DEF MayFollow
\* What is on offer is no part of the batch.
<1>OfferingInv.
    ASSUME NEW e, NEW S \in SUBSET Entry, NEW i, ExecFields(e), BatchInv(e, i)
    PROVE  LET f == [e EXCEPT !.offered = S]
           IN  /\ ExecFields(f) /\ BatchInv(f, i) /\ f.offered = S /\ f.mode = e.mode
               /\ f.members = e.members /\ f.each = e.each /\ Pending(f) = Pending(e)
  <2> USE <1>OfferingInv
  <2> DEFINE f == [e EXCEPT !.offered = S]
  <2>1. /\ ExecFields(f) /\ f.mode = e.mode /\ f.members = e.members /\ f.results = e.results
        /\ f.each = e.each /\ f.at = e.at /\ f.offered = S
    BY Zenon DEF ExecFields
  <2> HIDE DEF f
  <2>2. Pending(f) = Pending(e) /\ (InTurn(e) => InTurn(f))
    BY Zenon, <2>1 DEF Pending, InTurn
  <2>3. BatchInv(f, i)
    BY <2>1, <2>2 DEF BatchInv
  <2> QED
    BY Zenon, <2>1, <2>2, <2>3 DEF f
<1>FailStep.
    ASSUME CInv, NEW n \in Nodes, NEW kind, kind # "none",
           exec' = [exec EXCEPT ![n] = Fail(exec[n], kind)],
           UNCHANGED <<profile, node, log, offers>>, Still
    PROVE  CInv' /\ [LogNext]_logVars
  <2> USE <1>FailStep
  <2>1. PICK v : v = Fail(exec[n], kind)
    BY Zenon
  <2>2. ExecFields(exec[n]) /\ BatchInv(exec[n], node[n].applied) /\ TornInv(node[n], exec[n])
    BY Zenon, InvOf
  <2>3. /\ ExecFields(v) /\ v.offered = {} /\ v.mode \notin {"single", "stop"}
        /\ v.mode = "batch" /\ profile = "sql" /\ ~v.each => Pending(v) = {}
        /\ \A j : BatchInv(v, j)
    BY Zenon, <2>1, <2>2, <1>FailIs
  <2>4. TornInv(node[n], v)
    BY ZenonT(20), <2>2, <2>3 DEF TornInv
  <2> QED
    BY Zenon, <2>1, <2>3, <2>4, ExecInv, NoOffer
<1>GiveUpStep.
    ASSUME CInv, NEW n \in Nodes, GiveUp(n) \/ CertifyFails(n), Still
    PROVE  CInv' /\ [LogNext]_logVars
  <2> USE <1>GiveUpStep
  <2>1. /\ exec' = [exec EXCEPT ![n] = Fail(exec[n], "retry")]
        /\ UNCHANGED <<profile, node, log, offers>>
    BY Zenon DEF GiveUp, CertifyFails
  <2> QED
    BY Zenon, <2>1, <1>FailStep
<1>RejectedStep.
    ASSUME CInv, NEW n \in Nodes, Rejected(n), Still
    PROVE  CInv' /\ [LogNext]_logVars
  <2> USE <1>RejectedStep
  <2>1. PICK v : v = Fail(exec[n], "fatal")
    OBVIOUS
  <2>2. PICK w : w = [node[n] EXCEPT !.fatal = TRUE]
    BY Zenon
  <2>3. /\ exec' = [exec EXCEPT ![n] = v] /\ node' = [node EXCEPT ![n] = w]
        /\ UNCHANGED <<profile, log, offers>> /\ exec[n].offered # {}
    BY Zenon, <2>1, <2>2 DEF Rejected
  <2>4. /\ node[n] \in NodeType /\ NodeInv(node[n])
        /\ ExecFields(exec[n]) /\ BatchInv(exec[n], node[n].applied) /\ TornInv(node[n], exec[n])
    BY Zenon, InvOf
  <2>5. /\ ExecFields(v) /\ v.offered = {} /\ v.mode \notin {"single", "stop"}
        /\ \A j : BatchInv(v, j)
    BY ZenonT(20), <2>1, <2>4, <1>FailIs
  <2>6. w \in NodeType /\ w.applied = node[n].applied /\ w.config = node[n].config
        /\ w.torn = node[n].torn
    BY Zenon, <2>2, <2>4 DEF NodeType
  <2>7. NodeInv(w) /\ TornInv(w, v)
    BY Zenon, <2>3, <2>4, <2>6 DEF NodeInv, TornInv
  <2> QED
    BY Zenon, <2>3, <2>5, <2>6, <2>7, RuntimeInv, NoOffer
<1>ApplyFailsStep.
    ASSUME CInv, NEW n \in Nodes, ApplyFails(n), Still
    PROVE  CInv' /\ [LogNext]_logVars
  <2> USE <1>ApplyFailsStep
  <2>1. PICK v : v = Fail(exec[n], "fatal")
    OBVIOUS
  <2>2. PICK w : w = [node[n] EXCEPT !.fatal = TRUE, !.torn = TRUE]
    OBVIOUS
  <2>3. /\ exec' = [exec EXCEPT ![n] = v] /\ node' = [node EXCEPT ![n] = w]
        /\ UNCHANGED <<profile, log, offers>>
        /\ node[n].applied + 1 <= Len(log) /\ log[node[n].applied + 1].config = node[n].config
    BY Zenon, <2>1, <2>2 DEF ApplyFails
  <2>4. /\ node[n] \in NodeType /\ NodeInv(node[n]) /\ Len(log) \in Nat
        /\ ExecFields(exec[n]) /\ BatchInv(exec[n], node[n].applied)
    BY Zenon, InvOf
  <2>5. /\ ExecFields(v) /\ v.offered = {} /\ v.mode \notin {"single", "stop"}
        /\ v.mode = "batch" /\ profile = "sql" /\ ~v.each => Pending(v) = {}
        /\ \A j : BatchInv(v, j)
    BY Zenon, <2>1, <2>4, <1>FailIs
  <2>6. /\ w \in NodeType /\ w.applied = node[n].applied /\ w.config = node[n].config
        /\ w.fatal /\ node[n].applied \in Nat
    BY ZenonT(30), <2>2, <2>4 DEF NodeType
  <2>7. NodeInv(w)
    BY SMTT(30), <2>3, <2>4, <2>6 DEF NodeInv
  <2>8. TornInv(w, v)
    BY ZenonT(20), <2>5, <2>6 DEF TornInv
  <2> QED
    BY Zenon, <2>3, <2>5, <2>6, <2>7, <2>8, RuntimeInv, NoOffer
<1>LearnStep.
    ASSUME CInv, NEW n \in Nodes, Learn(n), Still
    PROVE  CInv' /\ [LogNext]_logVars
  <2> USE <1>LearnStep
  <2>1. PICK slot : slot = node[n].applied + 1
    OBVIOUS
  <2>2. PICK v : v = AfterEntry(exec[n], slot)
    OBVIOUS
  <2>3. PICK w : w = [node[n] EXCEPT !.applied = slot]
    BY Zenon
  <2>4. /\ exec' = [exec EXCEPT ![n] = v] /\ node' = [node EXCEPT ![n] = w]
        /\ UNCHANGED <<profile, log, offers>> /\ exec[n].offered # {}
        /\ slot <= Len(log) /\ log[slot].config = node[n].config
    BY Zenon, <2>1, <2>2, <2>3 DEF Learn
  <2>5. /\ node[n] \in NodeType /\ profile \in {"sql", "kv", "graph"}
        /\ ExecFields(exec[n]) /\ BatchInv(exec[n], node[n].applied) /\ TornInv(node[n], exec[n])
    BY Zenon, InvOf
  <2>6. slot \in Nat \ {0} /\ ~node[n].torn
    BY SMTT(30), <2>1, <2>4, <2>5 DEF NodeType, TornInv
  <2>7. ExecFields(v) /\ BatchInv(v, slot) /\ (v.mode = "stop" => exec[n].mode = "stop")
    BY Zenon, <2>2, <2>5, <2>6, <1>AfterEntryIs
  <2>8. /\ w \in NodeType /\ w.applied = slot /\ w.config = node[n].config
        /\ w.torn = node[n].torn
    BY Zenon, <2>3, <2>5, <2>6 DEF NodeType
  <2>9. NodeInv(w) /\ TornInv(w, v)
    BY Zenon, <2>4, <2>6, <2>8 DEF NodeInv, TornInv
  <2> QED
    BY ZenonT(30), <2>4, <2>7, <2>8, <2>9, RuntimeInv, NoOffer
<1>MaterializeStep.
    ASSUME CInv, NEW n \in Nodes, Materialize(n), Still
    PROVE  CInv' /\ [LogNext]_logVars
  <2> USE <1>MaterializeStep
  <2>1. PICK slot : slot = node[n].applied + 1
    OBVIOUS
  <2>2. PICK w : w = [node[n] EXCEPT !.applied = slot]
    BY Zenon
  <2>3. /\ exec' = exec /\ node' = [node EXCEPT ![n] = w] /\ exec[n].mode = "free"
        /\ UNCHANGED <<profile, log, offers>> /\ ~node[n].fatal
        /\ slot <= Len(log) /\ log[slot].config = node[n].config
    BY Zenon, <2>1, <2>2 DEF Materialize
  <2>4. node[n] \in NodeType /\ ExecFields(exec[n]) /\ TornInv(node[n], exec[n])
    BY Zenon, InvOf
  <2>5. slot \in Nat \ {0} /\ ~node[n].torn
    BY <2>1, <2>3, <2>4 DEF NodeType, TornInv
  <2>6. /\ w \in NodeType /\ w.applied = slot /\ w.config = node[n].config
        /\ w.torn = node[n].torn
    BY Zenon, <2>2, <2>4, <2>5 DEF NodeType
  <2>7. NodeInv(w) /\ TornInv(w, exec[n])
    BY Zenon, <2>3, <2>5, <2>6 DEF NodeInv, TornInv
  <2>8. BatchInv(exec[n], slot)
    BY <2>3, Quiet
  <2>9. PICK v : v = exec[n]
    OBVIOUS
  <2>10. exec' = [exec EXCEPT ![n] = v]
    BY <2>3, <2>9 DEF CInv, Shape
  <2> QED
    BY ZenonT(30), <2>3, <2>4, <2>6, <2>7, <2>8, <2>9, <2>10, RuntimeInv, NoOffer
<1>CertifyStep.
    ASSUME CInv, NEW n \in Nodes, Certify(n), Still
    PROVE  CInv' /\ [LogNext]_logVars
  <2> USE <1>CertifyStep
  <2>1. PICK v : v = Concluded(Ok(node[n].applied))
    OBVIOUS
  <2>2. exec' = [exec EXCEPT ![n] = v] /\ UNCHANGED <<profile, node, log, offers>>
    BY Zenon, <2>1 DEF Certify
  <2>3. TornInv(node[n], exec[n])
    BY Zenon, InvOf
  <2>4. ExecFields(v) /\ v.mode = "concluded" /\ v.offered = {} /\ \A i : BatchInv(v, i)
    BY Zenon, <2>1, <1>ConcludedIsQuiet
  <2>5. TornInv(node[n], v)
    BY Zenon, <2>3, <2>4 DEF TornInv
  <2> QED
    BY Zenon, <2>2, <2>4, <2>5, ExecInv, NoOffer
\* A member is answered without a proposal.
<1>ResolveStep.
    ASSUME CInv, NEW n \in Nodes, NEW k, NEW result, result # None,
           exec' = [exec EXCEPT ![n] = Resolve(exec[n], k, result)],
           exec[n].mode \in {"batch", "single"}, k \in DOMAIN exec[n].members,
           profile = "sql" => exec[n].each,
           profile # "sql" => Cardinality(Pending(exec[n]) \ {k}) <= 1,
           UNCHANGED <<profile, node, log, offers>>, Still
    PROVE  CInv' /\ [LogNext]_logVars
  <2> USE <1>ResolveStep
  <2>1. PICK e, v : e = exec[n] /\ v = Resolve(e, k, result)
    BY Zenon
  <2>2. ExecFields(e) /\ BatchInv(e, node[n].applied) /\ TornInv(node[n], e)
    BY Zenon, <2>1, InvOf
  <2>3. DOMAIN e.results = DOMAIN e.members
    BY Zenon, <2>1, <2>2 DEF BatchInv
  <2>4. /\ ExecFields(v) /\ v.mode = "batch" /\ v.offered = {} /\ v.each = e.each
    BY SMTT(30), <2>1, <2>2, <2>3, <1>ResolveIs
  <2>5. BatchInv(v, node[n].applied)
    BY Zenon, <2>1, <2>2, <1>ResolveInv
  <2>6. TornInv(node[n], v)
    BY <2>1, <2>2, <2>4 DEF TornInv
  <2> QED
    BY Zenon, <2>1, <2>4, <2>5, <2>6, ExecInv, NoOffer
<1>EnterSingleStep.
    ASSUME CInv, FrontFits, NEW n \in Nodes, EnterSingle(n), Still
    PROVE  CInv' /\ [LogNext]_logVars
  <2> USE <1>EnterSingleStep
  <2>1. PICK e, k, found : /\ e = exec[n] /\ k = Min(Pending(e))
                           /\ found = CheckRequest(node[n].applied, e.members[k])
    OBVIOUS
  <2>2. /\ e.mode = "batch" /\ e.offered = {} /\ Pending(e) # {} /\ Alone(e)
        /\ exec' = [exec EXCEPT ![n] =
              IF node[n].fatal THEN Resolve(e, k, Err("fatal"))
              ELSE IF ~Writable(n) THEN Resolve(e, k, Err("retry"))
              ELSE IF found # None THEN Resolve(e, k, found)
              ELSE [e EXCEPT !.mode = "single", !.at = k]]
        /\ UNCHANGED <<profile, node, log, offers>>
    BY SMTT(30), <2>1 DEF EnterSingle
  <2>3. ExecFields(e) /\ BatchInv(e, node[n].applied) /\ TornInv(node[n], e)
    BY SMTT(30), <2>1, InvOf
  <2>4. Pending(e) \subseteq DOMAIN e.members /\ IsFiniteSet(Pending(e))
        /\ Pending(e) \in SUBSET Nat
    BY <2>3, <1>PendingMembers
  <2>5. k \in Pending(e) /\ k \in DOMAIN e.members
    BY <2>1, <2>2, <2>4, LeastExists
  <2>6. (profile = "sql" => e.each) /\ (profile # "sql" => ~e.each)
    BY <2>2, <2>3 DEF Alone, BatchInv, ExecFields
  <2>7. profile # "sql" => Cardinality(Pending(e) \ {k}) <= 1
    <3> SUFFICES ASSUME profile # "sql" PROVE Cardinality(Pending(e) \ {k}) <= 1
      OBVIOUS
    <3>1. Cardinality(Pending(e)) <= 2
      BY <2>1, <2>2 DEF FrontFits
    <3>2. Cardinality(Pending(e) \ {k}) = Cardinality(Pending(e)) - 1
          /\ Cardinality(Pending(e)) \in Nat
      BY Zenon, <2>4, <2>5, FS_RemoveElement, FS_CardinalityType
    <3> QED
      BY <3>1, <3>2
  <2>8. ASSUME NEW result, result # None, exec' = [exec EXCEPT ![n] = Resolve(e, k, result)]
        PROVE  CInv' /\ [LogNext]_logVars
    BY Zenon, <2>1, <2>2, <2>5, <2>6, <2>7, <2>8, <1>ResolveStep
  <2>9. CASE ~node[n].fatal /\ Writable(n) /\ found = None
    <3>1. PICK v : v = [e EXCEPT !.mode = "single", !.at = k]
      OBVIOUS
    <3>2. exec' = [exec EXCEPT ![n] = v]
      BY Zenon, <2>2, <2>9, <3>1
    <3>3. /\ ExecFields(v) /\ v.mode = "single" /\ v.at = k /\ v.members = e.members
          /\ v.results = e.results /\ v.each = e.each /\ v.offered = e.offered
      BY Zenon, <2>3, <3>1 DEF ExecFields
    <3>4. Pending(v) = Pending(e)
      BY Zenon, <3>3 DEF Pending
    <3>5. Unknown(node[n].applied, e.members[k])
      BY Zenon, <2>1, <2>9, NoReceipt
    <3>6. BatchInv(v, node[n].applied)
      BY ZenonT(20), <2>2, <2>3, <2>5, <2>6, <2>7, <3>3, <3>4, <3>5 DEF BatchInv
    <3>7. TornInv(node[n], v)
      BY ZenonT(20), <2>3, <2>9 DEF TornInv
    <3> QED
      BY Zenon, <2>2, <3>2, <3>3, <3>6, <3>7, ExecInv, NoOffer
  <2>10. Err("fatal") # None /\ Err("retry") # None
    BY Answers
  <2>11. CASE node[n].fatal
    BY Zenon, <2>2, <2>8, <2>10, <2>11
  <2>12. CASE ~node[n].fatal /\ ~Writable(n)
    BY Zenon, <2>2, <2>8, <2>10, <2>12
  <2>13. CASE ~node[n].fatal /\ Writable(n) /\ found # None
    BY Zenon, <2>2, <2>8, <2>13
  <2> QED
    BY SMTT(30), <2>9, <2>11, <2>12, <2>13
\* A command of requests without receipts is proposed.
<1>CommandStep.
    ASSUME CInv, NEW n \in Nodes, NEW v, NEW R \in SUBSET Request, OnePayloadEach(R),
           \A r \in R : Unknown(node[n].applied, r),
           ExecFields(v), BatchInv(v, node[n].applied), ~node[n].torn,
           v.mode = "stop" => exec[n].mode = "stop",
           exec' = [exec EXCEPT ![n] = v], Propose(n, CommandOf(n, R)),
           UNCHANGED <<profile, node, log>>, Still
    PROVE  CInv' /\ [LogNext]_logVars
  <2> USE <1>CommandStep
  <2>1. CommandOf(n, R) \in Entry
    BY Zenon, EntryIs DEF CommandOf
  <2>2. node[n].applied = Len(log) /\ Admitted(n, CommandOf(n, R)) => MayFollow(CommandOf(n, R))
    BY ZenonT(20), <1>CommandFollows
  <2>3. [LogNext]_logVars
    BY <2>1, <2>2, Offered
  <2>4. TornInv(node[n], v)
    BY Zenon DEF TornInv
  <2> QED
    BY Zenon, <2>3, <2>4, ExecInv
<1>ProposeMemberStep.
    ASSUME CInv, NEW n \in Nodes, exec[n].mode = "single", ProposeMember(n),
           UNCHANGED <<profile, node, log>>, Still
    PROVE  CInv' /\ [LogNext]_logVars
  <2> USE <1>ProposeMemberStep
  <2>1. PICK e, r, v : /\ e = exec[n] /\ r = e.members[e.at]
                       /\ v = [e EXCEPT !.offered = {CommandOf(n, {r})}]
    BY Zenon
  <2>2. exec' = [exec EXCEPT ![n] = v] /\ Propose(n, CommandOf(n, {r}))
    BY <2>1 DEF ProposeMember
  <2>3. ExecFields(e) /\ BatchInv(e, node[n].applied) /\ TornInv(node[n], e)
    BY Zenon, <2>1, InvOf
  <2>4. e.at \in DOMAIN e.members /\ Unknown(node[n].applied, r) /\ ~node[n].torn
    BY Zenon, <2>1, <2>3 DEF BatchInv, TornInv
  <2>5. {r} \in SUBSET Request /\ OnePayloadEach({r})
    BY <2>1, <2>3, <2>4, <1>PendingMembers DEF OnePayloadEach
  <2>6. {CommandOf(n, {r})} \in SUBSET Entry
    BY <2>5, EntryIs DEF CommandOf
  <2>7. ExecFields(v) /\ BatchInv(v, node[n].applied) /\ v.mode = e.mode
    BY <2>1, <2>3, <2>6, <1>OfferingInv
  <2> QED
    BY Zenon, <2>1, <2>2, <2>4, <2>5, <2>7, <1>CommandStep
<1>ProposeTypedMemberStep.
    ASSUME CInv, NEW n \in Nodes, ProposeTypedMember(n), Still
    PROVE  CInv' /\ [LogNext]_logVars
  BY Zenon, <1>ProposeTypedMemberStep, <1>ProposeMemberStep DEF ProposeTypedMember
<1>ProposeSqlMemberStep.
    ASSUME CInv, NEW n \in Nodes, ProposeSqlMember(n), Still
    PROVE  CInv' /\ [LogNext]_logVars
  <2> USE <1>ProposeSqlMemberStep
  <2>1. /\ exec[n].mode = "single" /\ profile = "sql" /\ UNCHANGED <<profile, node, log>>
        /\ RefuseMember(n, "invalid") \/ RefuseMember(n, "exhausted") \/ ProposeMember(n)
    BY Zenon DEF ProposeSqlMember
  <2>2. ExecFields(exec[n]) /\ BatchInv(exec[n], node[n].applied)
    BY InvOf
  <2>3. exec[n].at \in DOMAIN exec[n].members /\ exec[n].each
    BY Zenon, <2>1, <2>2 DEF BatchInv, ExecFields
  <2>4. ASSUME NEW kind, kind # "none", RefuseMember(n, kind)
        PROVE  CInv' /\ [LogNext]_logVars
    <3>1. exec' = [exec EXCEPT ![n] = Resolve(exec[n], exec[n].at, Err(kind))] /\ offers' = offers
      BY <2>4 DEF RefuseMember
    <3>2. Err(kind) # None
      BY Zenon, <2>4, Answers
    <3> QED
      BY Zenon, <2>1, <2>3, <3>1, <3>2, <1>ResolveStep
  <2>5. CASE ProposeMember(n)
    BY Zenon, <2>1, <2>5, <1>ProposeMemberStep
  <2> QED
    BY Zenon, <2>1, <2>4, <2>5
\* A pending payload waits for an earlier one of its identifier.
<1>WaitsForEarlier.
    ASSUME NEW e, ExecFields(e), InTurn(e),
           NEW j \in DOMAIN e.members, NEW k \in 1 .. j - 1,
           e.members[k].id = e.members[j].id,
           CanonicalOf(e.members, k) = k, CanonicalOf(e.members, j) = j,
           e.results[k] = None
    PROVE  Blocked(e, j)
  <2> USE <1>WaitsForEarlier
  <2> DEFINE earlier == {i \in 1 .. j - 1 : /\ e.members[i].id = e.members[j].id
                                            /\ CanonicalOf(e.members, i) = i}
  <2>1. j \in Nat /\ earlier \in SUBSET (0 .. j) /\ k \in earlier
    BY DEF ExecFields
  <2>2. Max(earlier) \in earlier /\ Max(earlier) >= k
    BY Zenon, <2>1, GreatestExists
  <2>3. PICK m : m = Max(earlier)
    BY Zenon
  <2>4. /\ m \in 1 .. j - 1 /\ e.members[m].id = e.members[j].id
        /\ CanonicalOf(e.members, m) = m /\ m >= k
    BY Zenon, <2>2, <2>3
  <2>5. e.results[m] = None
    <3>1. CASE m = k
      BY Zenon, <3>1
    <3>2. CASE m # k
      <4>1. k \in 1 .. m - 1 /\ m \in DOMAIN e.members
        BY <2>1, <2>4, <3>2 DEF ExecFields
      <4> QED
        BY Zenon, <2>4, <4>1 DEF InTurn
    <3> QED
      BY Zenon, <3>1, <3>2
  <2> QED
    BY Zenon, <2>1, <2>3, <2>5 DEF Blocked
\* Members of one effect have different identifiers.
<1>ReadyApart.
    ASSUME NEW e, ExecFields(e), InTurn(e), ~e.each,
           NEW S, S \subseteq {i \in Pending(e) : ~Blocked(e, i)}
    PROVE  OnePayloadEach({e.members[i] : i \in S})
  <2> USE <1>ReadyApart
  <2> SUFFICES ASSUME NEW i \in S, NEW j \in S, e.members[i].id = e.members[j].id
               PROVE  e.members[i] = e.members[j]
    BY Zenon DEF OnePayloadEach
  <2>1. /\ i \in Nat /\ j \in Nat /\ i \in DOMAIN e.members /\ j \in DOMAIN e.members
        /\ i >= 1 /\ j >= 1 /\ ~Blocked(e, i) /\ ~Blocked(e, j)
    BY <1>PendingMembers
  <2>2. /\ e.results[i] = None /\ CanonicalOf(e.members, i) = i
        /\ e.results[j] = None /\ CanonicalOf(e.members, j) = j
    BY Zenon DEF Pending
  <2>3. CASE i < j
    <3>1. i \in 1 .. j - 1
      BY SMTT(30), <2>1, <2>3
    <3> QED
      BY Zenon, <2>1, <2>2, <3>1, <1>WaitsForEarlier
  <2>4. CASE j < i
    <3>1. j \in 1 .. i - 1
      BY <2>1, <2>4
    <3> QED
      BY Zenon, <2>1, <2>2, <3>1, <1>WaitsForEarlier
  <2> QED
    BY <2>1, <2>3, <2>4
\* Members of an SQL batch get results in turn.
<1>ResultsInv.
    ASSUME NEW e, NEW f, NEW i, ExecFields(e), BatchInv(e, i), e.mode = "batch",
           profile = "sql", ~e.each,
           NEW S, S \subseteq {k \in Pending(e) : ~Blocked(e, k)},
           f.mode = "batch", f.members = e.members, ~f.each,
           DOMAIN f.results = DOMAIN e.members,
           \A k \in DOMAIN e.members : k \notin S => f.results[k] = e.results[k]
    PROVE  BatchInv(f, i)
  <2> USE <1>ResultsInv
  <2>1. InTurn(e) /\ \A k \in Pending(e) : Unknown(i, e.members[k])
    BY Zenon DEF BatchInv
  <2>2. \A k \in DOMAIN e.members : f.results[k] = None => e.results[k] = None
    BY Zenon DEF Pending
  <2>3. Pending(f) \subseteq Pending(e)
    BY Zenon, <2>2 DEF Pending
  <2>4. InTurn(f)
    <3> SUFFICES ASSUME NEW j \in DOMAIN e.members, NEW k \in 1 .. j - 1,
                        e.members[k].id = e.members[j].id,
                        CanonicalOf(e.members, k) = k, CanonicalOf(e.members, j) = j,
                        f.results[k] = None
                 PROVE  f.results[j] = None
      BY Zenon DEF InTurn
    <3>1. k \in DOMAIN e.members
      BY DEF ExecFields
    <3>2. e.results[k] = None
      BY Zenon, <2>2, <3>1
    <3>3. e.results[j] = None
      BY Zenon, <2>1, <3>2 DEF InTurn
    <3>4. Blocked(e, j)
      BY Zenon, <2>1, <3>2, <1>WaitsForEarlier
    <3> QED
      BY Zenon, <3>3, <3>4
  <2> QED
    BY ZenonT(30), <2>1, <2>3, <2>4 DEF BatchInv
<1>ProposeSqlBatchStep.
    ASSUME CInv, NEW n \in Nodes, ProposeSqlBatch(n), Still
    PROVE  CInv' /\ [LogNext]_logVars
  <2> USE <1>ProposeSqlBatchStep
  <2> DEFINE e == exec[n]
             ready == Eligible(e)
             good(failing, k) == First(ready, k) \ failing
             fits(failing, k) == SizeOf(e, good(failing, k)) <= limit
             count(failing) == Max({k \in Halvings[Cardinality(ready)] : fits(failing, k)} \cup {1})
             results(failing) ==
                [i \in DOMAIN e.members |->
                    IF i \notin First(ready, count(failing)) THEN e.results[i]
                    ELSE IF i \in failing THEN Err("invalid")
                    ELSE IF ~fits(failing, count(failing)) THEN Err("exhausted")
                    ELSE None]
             entry(failing) == CommandOf(n, {e.members[i] : i \in good(failing, count(failing))})
  <2>1. PICK failing :
           IF good(failing, count(failing)) # {} /\ fits(failing, count(failing))
           THEN /\ exec' = [exec EXCEPT ![n] = [e EXCEPT !.results = results(failing),
                                                         !.offered = {entry(failing)}]]
                /\ Propose(n, entry(failing))
           ELSE /\ exec' = [exec EXCEPT ![n] = [e EXCEPT !.results = results(failing)]]
                /\ UNCHANGED offers
    BY Zenon DEF ProposeSqlBatch
  <2>2. /\ e.mode = "batch" /\ e.offered = {} /\ Pending(e) # {} /\ ~Alone(e)
        /\ profile = "sql" /\ UNCHANGED <<profile, node, log>>
    BY DEF ProposeSqlBatch
  <2>3. PICK x, S, g, R : /\ x = exec[n] /\ S = First(ready, count(failing))
                          /\ g = results(failing)
                          /\ R = {e.members[i] : i \in good(failing, count(failing))}
    BY ZenonT(30)
  <2>4. DOMAIN g = DOMAIN x.members /\ \A k \in DOMAIN x.members : k \notin S => g[k] = x.results[k]
    BY <2>3
  <2>5. S \subseteq {k \in Pending(x) : ~Blocked(x, k)}
    BY Zenon, <2>3 DEF Eligible, First
  <2>6. R = {x.members[i] : i \in S \ failing}
    BY Zenon, <2>3
  <2>7. \/ /\ exec' = [exec EXCEPT ![n] = [x EXCEPT !.results = g, !.offered = {CommandOf(n, R)}]]
           /\ Propose(n, CommandOf(n, R))
        \/ exec' = [exec EXCEPT ![n] = [x EXCEPT !.results = g]] /\ UNCHANGED offers
    BY Zenon, <2>1, <2>3
  <2>8. x.mode = "batch" /\ Pending(x) # {} /\ ~Alone(x)
    BY Zenon, <2>2, <2>3
  <2>9. x = exec[n]
    BY ZenonT(30), <2>3
  <2> HIDE DEF e, ready, good, fits, count, results, entry
  <2>10. ExecFields(x) /\ BatchInv(x, node[n].applied) /\ TornInv(node[n], x)
    BY Zenon, <2>9, InvOf
  <2>11. ~x.each /\ ~node[n].torn
    BY Zenon, <2>2, <2>8, <2>10 DEF Alone, TornInv
  <2>12. InTurn(x) /\ \A k \in Pending(x) : Unknown(node[n].applied, x.members[k])
    BY ZenonT(30), <2>2, <2>8, <2>10, <2>11 DEF BatchInv
  <2>13. /\ R \in SUBSET Request /\ OnePayloadEach(R)
         /\ \A r \in R : Unknown(node[n].applied, r)
    <3>1. S \ failing \subseteq {k \in Pending(x) : ~Blocked(x, k)}
      BY <2>5
    <3>2. OnePayloadEach(R)
      BY ZenonT(30), <2>6, <2>10, <2>11, <2>12, <3>1, <1>ReadyApart
    <3>3. R \in SUBSET Request
      BY ZenonT(20), <2>6, <2>10, <3>1, <1>PendingMembers
    <3> QED
      BY Zenon, <2>6, <2>12, <3>1, <3>2, <3>3
  <2>14. CASE exec' = [exec EXCEPT ![n] = [x EXCEPT !.results = g, !.offered = {CommandOf(n, R)}]]
              /\ Propose(n, CommandOf(n, R))
    <3>1. PICK v : v = [x EXCEPT !.results = g, !.offered = {CommandOf(n, R)}]
      OBVIOUS
    <3>2. {CommandOf(n, R)} \in SUBSET Entry
      BY <2>13, EntryIs DEF CommandOf
    <3>3. /\ ExecFields(v) /\ v.mode = "batch" /\ v.members = x.members /\ v.each = x.each
          /\ v.results = g
      BY ZenonT(30), <2>8, <2>10, <3>1, <3>2 DEF ExecFields
    <3>4. BatchInv(v, node[n].applied)
      BY Zenon, <2>2, <2>4, <2>5, <2>8, <2>10, <2>11, <3>3, <1>ResultsInv
    <3> QED
      BY ZenonT(30), <2>2, <2>11, <2>13, <2>14, <3>1, <3>3, <3>4, <1>CommandStep
  <2>15. CASE exec' = [exec EXCEPT ![n] = [x EXCEPT !.results = g]] /\ UNCHANGED offers
    <3>1. PICK v : v = [x EXCEPT !.results = g]
      BY Zenon
    <3>2. /\ ExecFields(v) /\ v.mode = "batch" /\ v.members = x.members /\ v.each = x.each
          /\ v.results = g
      BY ZenonT(20), <2>8, <2>10, <3>1 DEF ExecFields
    <3>3. BatchInv(v, node[n].applied)
      BY Zenon, <2>2, <2>4, <2>5, <2>8, <2>10, <2>11, <3>2, <1>ResultsInv
    <3>4. TornInv(node[n], v)
      BY Zenon, <2>11 DEF TornInv
    <3> QED
      BY ZenonT(30), <2>2, <2>15, <3>1, <3>2, <3>3, <3>4, ExecInv, NoOffer
  <2> QED
    BY Zenon, <2>7, <2>14, <2>15
\* A typed batch with several members to go has looked them up.
<1>ProposePrefixStep.
    ASSUME CInv, NEW n \in Nodes, profile # "sql", ProposePrefix(n), Still
    PROVE  CInv' /\ [LogNext]_logVars
  <2> USE <1>ProposePrefixStep
  <2>1. PICK e, S, R : /\ e = exec[n] /\ S = LongestPrefix(e)
                       /\ R = {e.members[i] : i \in S}
    BY Zenon
  <2>2. /\ e.mode = "batch" /\ e.offered = {} /\ Pending(e) # {} /\ ~Alone(e)
        /\ UNCHANGED <<profile, node, log>>
    BY Zenon, <2>1 DEF ProposePrefix
  <2>3. IF node[n].torn
        THEN exec' = [exec EXCEPT ![n] = FailAll(e, "fatal")] /\ UNCHANGED offers
        ELSE /\ exec' = [exec EXCEPT ![n] = [e EXCEPT !.offered = {CommandOf(n, R)}]]
             /\ Propose(n, CommandOf(n, R))
    BY Zenon, <2>1 DEF ProposePrefix
  <2>4. ExecFields(e) /\ BatchInv(e, node[n].applied) /\ TornInv(node[n], e)
    BY Zenon, <2>1, InvOf
  <2>5. CASE node[n].torn
    <3>1. exec' = [exec EXCEPT ![n] = Fail(exec[n], "fatal")] /\ UNCHANGED offers
      BY ZenonT(20), <2>1, <2>2, <2>3, <2>5 DEF Fail
    <3> QED
      BY Zenon, <2>2, <3>1, <1>FailStep
  <2>6. CASE ~node[n].torn
    <3>1. S \subseteq Pending(e)
      BY <2>1 DEF LongestPrefix, First
    <3>2. ~e.each /\ Cardinality(Pending(e)) > 1 /\ \A k \in Pending(e) : ~Reused(e.members, k)
      BY ZenonT(30), <2>2, <2>4 DEF Alone, BatchInv
    <3>3. Cardinality(Pending(e)) \in Nat
      BY Zenon, <2>4, <1>PendingMembers, FS_CardinalityType
    <3>4. \A k \in Pending(e) : Unknown(node[n].applied, e.members[k])
      <4>1. ~(Cardinality(Pending(e)) <= 1)
        BY <3>2, <3>3
      <4> QED
        BY Zenon, <2>2, <2>4, <4>1 DEF BatchInv
    <3>5. OnePayloadEach(R)
      <4> SUFFICES ASSUME NEW i \in S, NEW j \in S, e.members[i].id = e.members[j].id
                   PROVE  e.members[i] = e.members[j]
        BY SMTT(30), <2>1 DEF OnePayloadEach
      <4>1. i \in Nat /\ j \in Nat /\ i >= 1 /\ j >= 1 /\ ~Reused(e.members, i) /\ ~Reused(e.members, j)
        BY SMTT(30), <2>4, <3>1, <3>2, <1>PendingMembers
      <4>2. ~(i < j)
        BY <4>1 DEF Reused
      <4>3. ~(j < i)
        BY SMTT(30), <4>1 DEF Reused
      <4> QED
        BY <4>1, <4>2, <4>3
    <3>6. R \in SUBSET Request /\ \A r \in R : Unknown(node[n].applied, r)
      BY SMTT(30), <2>1, <2>4, <3>1, <3>4, <1>PendingMembers
    <3>7. {CommandOf(n, R)} \in SUBSET Entry
      BY <3>6, EntryIs DEF CommandOf
    <3>8. PICK v : v = [e EXCEPT !.offered = {CommandOf(n, R)}]
      BY Zenon
    <3>9. ExecFields(v) /\ BatchInv(v, node[n].applied) /\ v.mode = e.mode
      BY ZenonT(20), <2>4, <3>7, <3>8, <1>OfferingInv
    <3> QED
      BY ZenonT(30), <2>1, <2>2, <2>3, <2>6, <3>5, <3>6, <3>8, <3>9, <1>CommandStep
  <2> QED
    BY Zenon, <2>4, <2>5, <2>6
\* The recorders decide an offer.
<1>DecideStep.
    ASSUME CInv, DecideSlot, Still
    PROVE  CInv' /\ [LogNext]_logVars
  <2> USE <1>DecideStep
  <2>1. Decide /\ UNCHANGED <<profile, node, exec>>
    BY DEF DecideSlot, executionVars
  <2>2. [LogNext]_logVars
    BY Zenon, <2>1 DEF LogNext
  <2>3. IInv' /\ ScenarioInv' /\ Shape'
    BY Zenon, <2>1, <2>2, StepIInv DEF CInv, ScenarioInv, Shape, Still
  <2>4. Grown /\ Len(log) \in Nat /\ Len(log') \in Nat
    <3>1. log \in Seq(Entry) /\ offers \subseteq Entry
      BY Zenon DEF CInv, IInv, TypeOK
    <3>2. PICK entry \in Entry : log' = Append(log, entry)
      BY Zenon, <2>1, <3>1 DEF Decide
    <3> QED
      BY <3>1, <3>2 DEF Grown
  <2>5. ASSUME NEW m \in Nodes
        PROVE  /\ NodeInv(node[m])' /\ ExecFields(exec[m])' /\ BatchInv(exec[m], node[m].applied)'
               /\ TornInv(node[m], exec[m])' /\ TaskInv(task[m], exec[m])'
    <3>1. PICK x, y : x = node[m] /\ y = exec[m]
      BY Zenon
    <3>2. /\ x \in NodeType /\ NodeInv(x) /\ TaskInv(task[m], exec[m])
          /\ ExecFields(y) /\ BatchInv(y, x.applied) /\ TornInv(x, y)
      BY ZenonT(20), <3>1, InvOf
    <3>3. x.applied \in Nat /\ x.applied <= Len(log)
      BY SMTT(30), <3>2 DEF NodeType, NodeInv
    <3>4. NodeInv(x)' /\ BatchInv(y, x.applied)'
      BY ZenonT(30), <2>1, <2>4, <3>2, <3>3, NodeKept, BatchKept
    <3>5. TornInv(x, y)' /\ ExecFields(y)'
      BY ZenonT(20), <2>1, <3>2 DEF TornInv, ExecFields
    <3>6. TaskInv(task[m], exec[m])'
      BY Zenon, <2>1, <3>2 DEF TaskInv, Still
    <3> QED
      BY Zenon, <2>1, <3>1, <3>4, <3>5, <3>6
  <2> QED
    BY Zenon, <2>2, <2>3, <2>5 DEF CInv
<1>1. Still
  BY DEF RuntimeStep, Still, httpVars, adminVars
<1>2. CASE DecideSlot
  BY Zenon, <1>1, <1>2, <1>DecideStep
<1>3. ASSUME NEW n \in Nodes, BatchStep(n) PROVE CInv' /\ [LogNext]_logVars
  <2>1. CASE EnterSingle(n)
    BY Zenon, <1>1, <2>1, <1>EnterSingleStep
  <2>2. CASE ProposeSqlMember(n)
    BY Zenon, <1>1, <2>2, <1>ProposeSqlMemberStep
  <2>3. CASE ProposeTypedMember(n)
    BY ZenonT(20), <1>1, <2>3, <1>ProposeTypedMemberStep
  <2>4. CASE ProposeSqlBatch(n)
    BY <1>1, <2>4, <1>ProposeSqlBatchStep
  <2>5. CASE ProposeGraphBatch(n) \/ ProposeKvBatch(n)
    BY ZenonT(20), <1>1, <2>5, <1>ProposePrefixStep DEF ProposeGraphBatch, ProposeKvBatch
  <2>6. CASE Learn(n)
    BY <1>1, <2>6, <1>LearnStep
  <2>7. CASE Rejected(n)
    BY <1>1, <2>7, <1>RejectedStep
  <2>8. CASE Certify(n)
    BY <1>1, <2>8, <1>CertifyStep
  <2> QED
    BY ZenonT(20), <1>3, <2>1, <2>2, <2>3, <2>4, <2>5, <2>6, <2>7, <2>8 DEF BatchStep
<1>4. ASSUME NEW n \in Nodes, Materialize(n) PROVE CInv' /\ [LogNext]_logVars
  BY <1>1, <1>4, <1>MaterializeStep
<1>5. ASSUME NEW n \in Nodes, ApplyFails(n) PROVE CInv' /\ [LogNext]_logVars
  BY <1>1, <1>5, <1>ApplyFailsStep
<1>6. ASSUME NEW n \in Nodes, GiveUp(n) \/ CertifyFails(n) PROVE CInv' /\ [LogNext]_logVars
  BY Zenon, <1>1, <1>6, <1>GiveUpStep
<1> QED
  BY Zenon, <1>2, <1>3, <1>4, <1>5, <1>6 DEF RuntimeStep

LEMMA AdminStepStep ==
    ASSUME CInv, AdminStep
    PROVE  CInv' /\ [LogNext]_logVars
<1>StopFollows.
    ASSUME CInv, NEW n \in Nodes, NEW successor \in Nat,
           node[n].applied = Len(log), Admitted(n, StopOf(n, successor))
    PROVE  MayFollow(StopOf(n, successor))
  <2> USE <1>StopFollows
  <2>1. /\ StopOf(n, successor).kind = "Stop" /\ StopOf(n, successor).config = node[n].config
        /\ StopOf(n, successor).requests = {}
    BY EntryIs DEF StopOf
  <2>2. ~Stopped(log)
    BY Zenon, <2>1, Tip DEF Admitted
  <2>3. IdsOf({}) \cap Taken(log) = {} /\ OnePayloadEach({})
    BY Zenon DEF IdsOf, OnePayloadEach
  <2>4. log # <<>> => node[n].config = log[Len(log)].config + 0
    <3>1. ASSUME log # <<>> PROVE node[n].config = log[Len(log)].config
      BY Zenon, <2>2, <3>1, Tip
    <3> QED
      BY <3>1, InvOf DEF NodeType
  <2> QED
    BY Zenon, <2>1, <2>2, <2>3, <2>4 DEF MayFollow
<1>ActivationFollows.
    ASSUME CInv, NEW n \in Nodes, ~IsActive(node[n].applied),
           log[node[n].applied].config # node[n].config
    PROVE  /\ ActivationOf(n) \in Entry
           /\ node[n].applied = Len(log) => MayFollow(ActivationOf(n))
  <2> USE <1>ActivationFollows
  <2>1. /\ node[n].applied \in 1 .. Len(log) /\ log[node[n].applied].kind = "Stop"
        /\ log \in Seq(Entry)
    BY InvOf DEF IsActive, NodeType, NodeInv
  <2>2. log[node[n].applied] \in Entry
    BY <2>1
  <2>3. log[node[n].applied].successor \in Nat
    BY Zenon, <2>2 DEF Entry
  <2>4. LET e == ActivationOf(n)
        IN  /\ e \in Entry /\ e.kind = "Activation" /\ e.config = node[n].config
            /\ e.requests = {} /\ e.successor = log[node[n].applied].successor
    BY <2>3, EntryIs DEF ActivationOf
  <2>5. ASSUME node[n].applied = Len(log) PROVE MayFollow(ActivationOf(n))
    <3>1. Stopped(log) /\ log # <<>>
      BY <2>1, <2>5, Tip
    <3>2. node[n].config = log[Len(log)].config + 1
      BY ZenonT(20), <3>1, <2>5, Tip
    <3>3. IdsOf({}) \cap Taken(log) = {} /\ OnePayloadEach({})
      BY DEF IdsOf, OnePayloadEach
    <3> QED
      BY Zenon, <2>4, <2>5, <3>1, <3>2, <3>3 DEF MayFollow
  <2> QED
    BY Zenon, <2>4, <2>5
\* The administrator's request, as it is sent.
<1>SendsIs.
    ASSUME CInv, NEW k \in DOMAIN ask
    PROVE  Sends(k).to \in Nat
  <2> USE <1>SendsIs
  <2>1. ask[k] \in [at : Nodes, id : {ask[k].id}, kind : STRING, expect : Nat, next : Nat,
                    to : Nat, root : Nat, cli : BOOLEAN]
    BY Zenon DEF CInv, ScenarioInv
  <2> QED
    BY ZenonT(20), <2>1 DEF Sends
\* A stop is proposed.
<1>StopStep.
    ASSUME CInv, NEW n \in Nodes, NEW successor \in Nat, StopConfiguration(n, successor),
           UNCHANGED <<ask, request, queue>>, task' = [m \in Nodes |-> task'[m]],
           \A m \in Nodes : m # n => task'[m] = task[m],
           \A e : e.mode = "stop" => TaskInv(task'[n], e)
    PROVE  CInv' /\ [LogNext]_logVars
  <2> USE <1>StopStep
  <2>1. PICK v : v = [Free EXCEPT !.mode = "stop", !.owner = "admin",
                                  !.offered = {StopOf(n, successor)}]
    OBVIOUS
  <2>2. /\ exec' = [exec EXCEPT ![n] = v] /\ Propose(n, StopOf(n, successor))
        /\ UNCHANGED <<profile, node, log>>
        /\ exec[n].mode = "free" => ~node[n].fatal
        /\ exec[n].mode \in {"free", "stop"}
    BY Zenon, <2>1 DEF StopConfiguration
  <2>3. StopOf(n, successor) \in Entry
    BY Zenon, EntryIs DEF StopOf
  <2>4. [LogNext]_logVars
    BY ZenonT(20), <2>2, <2>3, <1>StopFollows, Offered
  <2>5. ExecFields(v) /\ v.mode = "stop"
    BY Zenon, <2>1, <2>3, FreeIsQuiet DEF ExecFields
  <2>6. node[n] \in NodeType /\ NodeInv(node[n]) /\ TornInv(node[n], exec[n])
    BY Zenon, InvOf
  <2>7. TornInv(node[n], v)
    BY Zenon, <2>2, <2>6 DEF TornInv
  <2>8. ASSUME NEW m \in Nodes PROVE TaskInv(task'[m], exec'[m])
    <3>1. CASE m = n
      BY Zenon, <2>2, <2>5, <3>1 DEF CInv, Shape
    <3>2. CASE m # n
      <4>1. task'[m] = task[m] /\ exec'[m] = exec[m]
        BY Zenon, <2>2, <3>2 DEF CInv, Shape
      <4> QED
        BY Zenon, <4>1, InvOf
    <3> QED
      BY Zenon, <3>1, <3>2
  <2>9. PICK w : w = node[n]
    OBVIOUS
  <2>10. node' = [node EXCEPT ![n] = w] /\ BatchInv(v, w.applied)
    BY ZenonT(20), <2>2, <2>5, <2>9, Quiet DEF CInv, Shape
  <2>11. queue' \in [Nodes -> Seq(Request)]
    BY Zenon DEF CInv, Shape
  <2> QED
    BY ZenonT(30), <2>2, <2>4, <2>5, <2>6, <2>7, <2>8, <2>9, <2>10, <2>11, NodeStep
\* The task ends, and nothing else the log depends on.
<1>EndsStep.
    ASSUME CInv, NEW n \in Nodes, NEW result, Ends(n, result), task[n].stage # "none",
           exec[n].mode # "stop",
           UNCHANGED <<profile, node, exec, ask, request, queue, log, offers>>
    PROVE  CInv' /\ [LogNext]_logVars
  <2> USE <1>EndsStep
  <2>1. PICK t : t = [task[n] EXCEPT !.stage = "finished", !.result = result]
    OBVIOUS
  <2>2. task' = [task EXCEPT ![n] = t]
    BY Zenon, <2>1 DEF Ends
  <2>3. task[n].call \in DOMAIN ask
    BY ZenonT(20), InvOf DEF TaskInv
  <2>4. TaskInv(t, exec[n])
    BY ZenonT(30), <2>1, <2>3, TaskMoves
  <2>5. ASSUME NEW m \in Nodes PROVE TaskInv(task'[m], exec[m])
    BY ZenonT(20), <2>2, <2>4, InvOf DEF CInv, Shape
  <2>6. queue' \in [Nodes -> Seq(Request)] /\ task' = [m \in Nodes |-> task'[m]]
    BY Zenon, <2>2 DEF CInv, Shape
  <2> QED
    BY Zenon, <2>5, <2>6, Frame
<1>BeginStopStep.
    ASSUME CInv, NEW n \in Nodes, BeginStop(n), UNCHANGED <<ask, request, queue>>
    PROVE  CInv' /\ [LogNext]_logVars
  <2> USE <1>BeginStopStep
  <2>1. task[n].stage = "queued" /\ exec[n].mode = "free" /\ UNCHANGED <<profile, node>>
    BY Zenon DEF BeginStop, Begins
  <2>2. task[n].call \in DOMAIN ask
    BY Zenon, <2>1, InvOf DEF TaskInv
  <2>3. Sends(task[n].call).to \in Nat
    BY Zenon, <2>2, <1>SendsIs
  <2>4. ASSUME NEW kind, Ends(n, Err(kind)), UNCHANGED <<logVars, exec>>
        PROVE  CInv' /\ [LogNext]_logVars
    BY Zenon, <2>1, <2>4, <1>EndsStep DEF logVars
  <2>5. CASE Runs(n, "running") /\ StopConfiguration(n, Sends(task[n].call).to)
    <3>1. PICK t : t = [task[n] EXCEPT !.stage = "running", !.target = node[n].applied]
      OBVIOUS
    <3>2. task' = [task EXCEPT ![n] = t]
      BY <2>5, <3>1 DEF Runs
    <3>3. \A e : e.mode = "stop" => TaskInv(t, e)
      BY Zenon, <2>2, <3>1, TaskMoves
    <3>4. /\ task' = [m \in Nodes |-> task'[m]] /\ task'[n] = t
          /\ \A m \in Nodes : m # n => task'[m] = task[m]
      BY <3>2 DEF CInv, Shape
    <3> QED
      BY ZenonT(20), <2>3, <2>5, <3>3, <3>4, <1>StopStep
  <2>6. \/ \E kind : Ends(n, Err(kind)) /\ UNCHANGED <<logVars, exec>>
        \/ Runs(n, "running") /\ StopConfiguration(n, Sends(task[n].call).to)
    BY Zenon DEF BeginStop
  <2> QED
    BY Zenon, <2>4, <2>5, <2>6
<1>StopAgainStep.
    ASSUME CInv, NEW n \in Nodes, StopAgain(n), UNCHANGED <<ask, request, queue>>
    PROVE  CInv' /\ [LogNext]_logVars
  <2> USE <1>StopAgainStep
  <2>1. /\ exec[n].mode = "stop" /\ task' = task
        /\ StopConfiguration(n, ask[task[n].call].to)
    BY Zenon DEF StopAgain
  <2>2. TaskInv(task[n], exec[n])
    BY Zenon, InvOf
  <2>3. task[n].call \in DOMAIN ask
    BY ZenonT(20), <2>1, <2>2 DEF TaskInv
  <2>4. ask[task[n].call].to \in Nat
    BY Zenon, <2>3 DEF CInv, ScenarioInv
  <2>5. \A e : e.mode = "stop" => TaskInv(task'[n], e)
    BY Zenon, <2>1, <2>2 DEF TaskInv
  <2>6. task' = [m \in Nodes |-> task'[m]] /\ \A m \in Nodes : m # n => task'[m] = task[m]
    BY <2>1 DEF CInv, Shape
  <2> QED
    BY Zenon, <2>1, <2>4, <2>5, <2>6, <1>StopStep
\* The commit mutex passes to or from an operation.
<1>OperationStep.
    ASSUME CInv, NEW n \in Nodes, NEW v, NEW t, ExecFields(v), TornInv(node[n], v),
           v.mode \in {"free", "activate"}, [LogNext]_logVars,
           exec' = [exec EXCEPT ![n] = v], task' = [task EXCEPT ![n] = t], TaskInv(t, v),
           UNCHANGED <<profile, node, log, ask, request, queue>>
    PROVE  CInv'
  <2> USE <1>OperationStep
  <2>1. PICK w : w = node[n]
    OBVIOUS
  <2>2. w \in NodeType /\ NodeInv(w) /\ node' = [node EXCEPT ![n] = w]
    BY Zenon, <2>1, InvOf DEF CInv, Shape
  <2>3. BatchInv(v, w.applied)
    BY Zenon, Quiet
  <2>4. queue' \in [Nodes -> Seq(Request)] /\ task' = [m \in Nodes |-> task'[m]]
    BY Zenon DEF CInv, Shape
  <2>5. ASSUME NEW m \in Nodes PROVE TaskInv(task'[m], exec'[m])
    <3>1. CASE m = n
      BY <3>1 DEF CInv, Shape
    <3>2. CASE m # n
      <4>1. task'[m] = task[m] /\ exec'[m] = exec[m]
        BY <3>2 DEF CInv, Shape
      <4> QED
        BY <4>1, InvOf
    <3> QED
      BY <3>1, <3>2
  <2> QED
    BY ZenonT(30), <2>1, <2>2, <2>3, <2>4, <2>5, NodeStep
<1>BeginActivateStep.
    ASSUME CInv, NEW n \in Nodes, BeginActivate(n), UNCHANGED <<ask, request, queue>>
    PROVE  CInv' /\ [LogNext]_logVars
  <2> USE <1>BeginActivateStep
  <2>1. task[n].stage = "queued" /\ exec[n].mode = "free" /\ UNCHANGED <<profile, node>>
    BY ZenonT(20) DEF BeginActivate, Begins
  <2>2. task[n].call \in DOMAIN ask
    BY <2>1, InvOf DEF TaskInv
  <2>3. ASSUME NEW kind, Ends(n, Err(kind)), UNCHANGED <<logVars, exec>>
        PROVE  CInv' /\ [LogNext]_logVars
    BY <2>1, <2>3, <1>EndsStep DEF logVars
  <2>4. CASE Runs(n, "running") /\ ActivateSuccessor(n)
    <3>1. PICK t, v : /\ t = [task[n] EXCEPT !.stage = "running", !.target = node[n].applied]
                      /\ v = [Free EXCEPT !.mode = "activate", !.owner = "admin",
                                          !.offered = {ActivationOf(n)}]
      OBVIOUS
    <3>2. /\ task' = [task EXCEPT ![n] = t] /\ exec' = [exec EXCEPT ![n] = v]
          /\ Propose(n, ActivationOf(n)) /\ log' = log /\ ~node[n].fatal
          /\ ~IsActive(node[n].applied) /\ log[node[n].applied].config # node[n].config
      BY Zenon, <2>4, <3>1 DEF Runs, ActivateSuccessor
    <3>3. /\ ActivationOf(n) \in Entry
          /\ node[n].applied = Len(log) => MayFollow(ActivationOf(n))
      BY Zenon, <3>2, <1>ActivationFollows
    <3>4. [LogNext]_logVars
      BY ZenonT(20), <3>2, <3>3, Offered
    <3>5. ExecFields(v) /\ v.mode = "activate"
      BY Zenon, <3>1, <3>3, FreeIsQuiet DEF ExecFields
    <3>6. TaskInv(t, v)
      BY Zenon, <2>2, <3>1, <3>5, TaskMoves
    <3>7. TornInv(node[n], v)
      BY ZenonT(30), <3>2, InvOf DEF TornInv
    <3> QED
      BY Zenon, <2>1, <3>2, <3>4, <3>5, <3>6, <3>7, <1>OperationStep
  <2>5. \/ \E kind : Ends(n, Err(kind)) /\ UNCHANGED <<logVars, exec>>
        \/ Runs(n, "running") /\ ActivateSuccessor(n)
    BY Zenon DEF BeginActivate
  <2> QED
    BY Zenon, <2>3, <2>4, <2>5
<1>OperationReturnsStep.
    ASSUME CInv, NEW n \in Nodes, OperationReturns(n), UNCHANGED <<ask, request, queue>>
    PROVE  CInv' /\ [LogNext]_logVars
  <2> USE <1>OperationReturnsStep
  <2>1. PICK t : t = [task[n] EXCEPT !.stage = "finished", !.result = exec[n].results[1]]
    OBVIOUS
  <2>2. /\ task' = [task EXCEPT ![n] = t] /\ exec' = [exec EXCEPT ![n] = Free]
        /\ task[n].stage = "running" /\ UNCHANGED <<profile, node, log, offers>>
    BY ZenonT(20), <2>1 DEF OperationReturns, Ends, logVars
  <2>3. task[n].call \in DOMAIN ask /\ TornInv(node[n], exec[n])
    BY <2>2, InvOf DEF TaskInv
  <2>4. TaskInv(t, Free)
    BY ZenonT(30), <2>1, <2>3, FreeIsQuiet, TaskMoves
  <2>5. TornInv(node[n], Free)
    BY Zenon, <2>3, FreeIsQuiet DEF TornInv
  <2> QED
    BY Zenon, <2>2, <2>4, <2>5, FreeIsQuiet, NoOffer, <1>OperationStep
<1>CompactBeginsStep.
    ASSUME CInv, NEW n \in Nodes, CompactBegins(n), UNCHANGED <<ask, request, queue>>
    PROVE  CInv' /\ [LogNext]_logVars
  <2> USE <1>CompactBeginsStep
  <2>1. PICK b : b = (~node[n].fatal /\ Sends(task[n].call).expect = StateConfig(n)
                      /\ Sends(task[n].call).root = node[n].applied)
    OBVIOUS
  <2>2. /\ b \in BOOLEAN /\ node' = [node EXCEPT ![n].compacting = b]
        /\ UNCHANGED <<profile, exec, log, offers>>
        /\ task[n].stage = "queued" /\ exec[n].mode = "free"
    BY <2>1 DEF CompactBegins, Begins, logVars
  <2>3. task[n].call \in DOMAIN ask
    BY <2>2, InvOf DEF TaskInv
  <2>4. \/ Runs(n, "publishing")
        \/ \E kind : Ends(n, Err(kind))
    BY DEF CompactBegins
  <2>5. PICK stage, r, t : /\ task' = [task EXCEPT ![n] = t]
                           /\ \/ t = [task[n] EXCEPT !.stage = stage, !.result = r]
                              \/ t = [task[n] EXCEPT !.stage = stage, !.target = r]
    BY Zenon, <2>4 DEF Runs, Ends
  <2>6. TaskInv(t, exec[n])
    BY Zenon, <2>2, <2>3, <2>5, TaskMoves
  <2> QED
    BY ZenonT(30), <2>2, <2>5, <2>6, CompactingStep
\* The handlers of the administration, and the tasks they start.
<1>AdminTaskStep.
    ASSUME CInv, UNCHANGED <<logVars, executionVars, httpVars, ask>>,
           \/ task' = task
           \/ \E n \in Nodes, k \in DOMAIN ask :
                 task' = [task EXCEPT ![n] = [NoOperation EXCEPT !.stage = "queued", !.call = k]]
           \/ \E n \in Nodes : /\ task' = [task EXCEPT ![n] = NoOperation]
                               /\ task[n].stage = "finished"
           \/ \E n \in Nodes : \E result : Ends(n, result) /\ Begins(n, "install")
    PROVE  CInv' /\ [LogNext]_logVars
  <2> USE <1>AdminTaskStep
  <2>1. UNCHANGED <<profile, node, exec, log, offers, request, queue>>
    BY Zenon DEF logVars, executionVars, httpVars
  <2>2. queue' \in [Nodes -> Seq(Request)]
    BY Zenon, <2>1 DEF CInv, Shape
  <2>3. CASE task' = task
    BY ZenonT(20), <2>1, <2>2, <2>3, Frame, InvOf DEF CInv, Shape
  <2>4. ASSUME NEW n \in Nodes, NEW t, task' = [task EXCEPT ![n] = t], TaskInv(t, exec[n])
        PROVE  CInv' /\ [LogNext]_logVars
    <3>1. task' = [m \in Nodes |-> task'[m]] /\ \A m \in Nodes : TaskInv(task'[m], exec[m])
      BY Zenon, <2>4, InvOf DEF CInv, Shape
    <3> QED
      BY Zenon, <2>1, <2>2, <3>1, Frame
  <2>5. ASSUME NEW n \in Nodes, NEW k \in DOMAIN ask,
               task' = [task EXCEPT ![n] = [NoOperation EXCEPT !.stage = "queued", !.call = k]]
        PROVE  CInv' /\ [LogNext]_logVars
    <3>1. PICK t : t = [NoOperation EXCEPT !.stage = "queued", !.call = k]
      BY Zenon
    <3>2. TaskInv(t, exec[n])
      BY Zenon, <3>1 DEF TaskInv, NoOperation
    <3> QED
      BY Zenon, <2>4, <2>5, <3>1, <3>2
  <2>6. ASSUME NEW n \in Nodes, task' = [task EXCEPT ![n] = NoOperation], task[n].stage = "finished"
        PROVE  CInv' /\ [LogNext]_logVars
    <3>1. TaskInv(NoOperation, exec[n])
      BY Zenon, <2>6, InvOf DEF TaskInv, NoOperation
    <3> QED
      BY Zenon, <2>4, <2>6, <3>1
  <2>7. ASSUME NEW n \in Nodes, NEW result, Ends(n, result), Begins(n, "install")
        PROVE  CInv' /\ [LogNext]_logVars
    BY ZenonT(30), <2>1, <2>7, <1>EndsStep DEF Begins
  <2> QED
    BY Zenon, <2>3, <2>5, <2>6, <2>7
<1>1. ASSUME UNCHANGED <<logVars, executionVars, httpVars>>,
             \/ \E k \in DOMAIN ask : \/ Enter(k) \/ CountIn(k) \/ AdmitOperation(k)
                                      \/ ShowStatus(k) \/ AnswerFromLedger(k)
                                      \/ OperationTimeout(k) \/ StatusFails(k)
             \/ \E n \in Nodes : Install(n) \/ RecordResult(n) \/ AdminIdle(n)
                                 \/ RecordFails(n) \/ Shutdown(n)
      PROVE  CInv' /\ [LogNext]_logVars
  <2>1. ASSUME NEW k \in DOMAIN ask,
               \/ Enter(k) \/ CountIn(k) \/ ShowStatus(k) \/ AnswerFromLedger(k)
               \/ OperationTimeout(k) \/ StatusFails(k)
        PROVE  ask' = ask /\ task' = task
    BY <2>1 DEF Enter, CountIn, ShowStatus, AnswerFromLedger, OperationTimeout, StatusFails
  <2>2. ASSUME NEW k \in DOMAIN ask, AdmitOperation(k)
        PROVE  CInv' /\ [LogNext]_logVars
    <3>1. ask[k].at \in Nodes
      BY Zenon DEF CInv, ScenarioInv
    <3>2. /\ ask' = ask
          /\ \/ task' = task
             \/ task' = [task EXCEPT ![ask[k].at] =
                            [NoOperation EXCEPT !.stage = "queued", !.call = k]]
      BY <2>2 DEF AdmitOperation, Turned
    <3> QED
      BY Zenon, <1>1, <3>1, <3>2, <1>AdminTaskStep
  <2>3. ASSUME NEW n \in Nodes, AdminIdle(n) \/ Shutdown(n)
        PROVE  ask' = ask /\ task' = task
    BY <2>3 DEF AdminIdle, Shutdown
  <2>4. ASSUME NEW n \in Nodes, RecordResult(n) \/ RecordFails(n)
        PROVE  CInv' /\ [LogNext]_logVars
    <3>1. ask' = ask /\ task' = [task EXCEPT ![n] = NoOperation] /\ task[n].stage = "finished"
      BY <2>4 DEF RecordResult, RecordFails, TaskEnds
    <3> QED
      BY ZenonT(30), <1>1, <3>1, <1>AdminTaskStep
  <2>5. ASSUME NEW n \in Nodes, Install(n)
        PROVE  CInv' /\ [LogNext]_logVars
    <3>1. ask' = ask /\ Begins(n, "install") /\ \E result : Ends(n, result)
      BY <2>5 DEF Install
    <3> QED
      BY Zenon, <1>1, <3>1, <1>AdminTaskStep
  <2>6. CASE ask' = ask /\ task' = task
    BY Zenon, <1>1, <2>6, <1>AdminTaskStep
  <2> QED
    BY ZenonT(20), <1>1, <2>1, <2>2, <2>3, <2>4, <2>5, <2>6
<1>2. ASSUME NEW n \in Nodes,
             \/ BeginStop(n) \/ StopAgain(n) \/ BeginActivate(n) \/ OperationReturns(n)
             \/ CompactBegins(n),
             UNCHANGED <<httpVars, ask>>
      PROVE  CInv' /\ [LogNext]_logVars
  <2>1. UNCHANGED <<ask, request, queue>>
    BY Zenon, <1>2 DEF httpVars
  <2> QED
    BY Zenon, <1>2, <2>1, <1>BeginStopStep, <1>StopAgainStep, <1>BeginActivateStep, <1>OperationReturnsStep,
       <1>CompactBeginsStep
<1>3. CASE UNCHANGED <<logVars, executionVars, httpVars, readVars, client>>
  BY ZenonT(20), <1>1, <1>2, <1>3 DEF AdminStep
<1>4. CASE UNCHANGED <<httpVars, readVars, client, left, ask, operation, ledger, gate, store>>
           /\ \E n \in Nodes : \/ BeginStop(n) \/ StopAgain(n) \/ BeginActivate(n)
                               \/ OperationReturns(n) \/ CompactBegins(n)
  BY <1>2, <1>4
<1> QED
  BY Zenon, <1>3, <1>4 DEF AdminStep

LEMMA ProcessStep ==
    ASSUME CInv, CompactStep \/ Crash \/ FlushAndExit \/ ReopenAsSuccessor
    PROVE  CInv' /\ [LogNext]_logVars
<1>CompactEndsStep.
    ASSUME CInv, NEW n \in Nodes, CompactPublishes(n) \/ CompactFails(n),
           UNCHANGED <<request, queue>>
    PROVE  CInv' /\ [LogNext]_logVars
  <2> USE <1>CompactEndsStep
  <2>1. /\ node' = [node EXCEPT ![n].compacting = FALSE]
        /\ UNCHANGED <<profile, exec, log, offers, ask>>
        /\ task[n].stage = "publishing"
        /\ \E r : Ends(n, r)
    BY DEF CompactPublishes, CompactFails, logVars
  <2>2. PICK r, t : /\ task' = [task EXCEPT ![n] = t]
                    /\ t = [task[n] EXCEPT !.stage = "finished", !.result = r]
    BY Zenon, <2>1 DEF Ends
  <2>3. task[n].call \in DOMAIN ask /\ exec[n].mode # "stop"
    BY <2>1, InvOf DEF TaskInv
  <2>4. TaskInv(t, exec[n])
    BY Zenon, <2>2, <2>3, TaskMoves
  <2> QED
    BY Zenon, <2>1, <2>2, <2>4, CompactingStep
\* The process starts again.
<1>RestartStep.
    ASSUME CInv, NEW n \in Nodes, NEW config, ProcessRestarts(n, config), AdminRestarts(n),
           \/ config = node[n].config
           \/ /\ config = node[n].config + 1
              /\ ~IsActive(node[n].applied) /\ node[n].config = log[node[n].applied].config
    PROVE  CInv' /\ [LogNext]_logVars
  <2> USE <1>RestartStep
  <2>1. PICK w : w = [applied |-> node[n].applied + (IF node[n].torn THEN 1 ELSE 0),
                      config |-> config, fatal |-> FALSE, torn |-> FALSE, compacting |-> FALSE]
    BY Zenon
  <2>2. /\ node' = [node EXCEPT ![n] = w] /\ exec' = [exec EXCEPT ![n] = Free]
        /\ queue' = [queue EXCEPT ![n] = <<>>] /\ task' = [task EXCEPT ![n] = NoOperation]
        /\ UNCHANGED <<profile, log, offers, request, ask>>
    BY Zenon, <2>1 DEF ProcessRestarts, Restarted, AdminRestarts
  <2>3. /\ node[n] \in NodeType /\ NodeInv(node[n]) /\ log \in Seq(Entry) /\ Len(log) \in Nat
    BY Zenon, InvOf
  <2>4. node[n].applied \in Nat /\ node[n].config \in Nat \ {0} /\ node[n].torn \in BOOLEAN
    BY ZenonT(30), <2>3 DEF NodeType
  <2>5. /\ w \in NodeType /\ w.config = config /\ ~w.torn /\ w.fatal = FALSE
        /\ w.applied = node[n].applied + (IF node[n].torn THEN 1 ELSE 0)
    BY <2>1, <2>4 DEF NodeType
  <2>6. NodeInv(w)
    <3>1. CASE ~node[n].torn /\ config = node[n].config
      <4>1. w.applied = node[n].applied
        BY <2>4, <2>5, <3>1
      <4> QED
        BY ZenonT(30), <2>3, <2>5, <3>1, <4>1 DEF NodeInv
    <3>2. CASE node[n].torn /\ config = node[n].config
      <4>1. w.applied = node[n].applied + 1
        BY Zenon, <2>4, <2>5, <3>2
      <4>2. node[n].applied < Len(log) /\ log[node[n].applied + 1].config = node[n].config
        BY ZenonT(30), <2>3, <3>2 DEF NodeInv
      <4>3. w.applied <= Len(log)
        BY <2>3, <2>4, <4>1, <4>2
      <4> QED
        BY ZenonT(30), <2>5, <3>2, <4>1, <4>2, <4>3 DEF NodeInv
    <3>3. CASE /\ config = node[n].config + 1
               /\ ~IsActive(node[n].applied) /\ node[n].config = log[node[n].applied].config
      <4>1. node[n].applied > 0 /\ log[node[n].applied].kind = "Stop"
        BY ZenonT(30), <3>3 DEF IsActive
      <4>2. ~node[n].torn
        <5> SUFFICES ASSUME node[n].torn PROVE FALSE
          BY Zenon
        <5>1. node[n].applied < Len(log)
              /\ log[node[n].applied + 1].config = log[node[n].applied].config
          BY ZenonT(30), <2>3, <3>3 DEF NodeInv
        <5>2. node[n].applied \in 1 .. Len(log) - 1
          BY <2>3, <2>4, <4>1, <5>1
        <5>3. log[node[n].applied + 1].config = log[node[n].applied].config + 1
          BY ZenonT(30), <4>1, <5>2 DEF CInv, IInv, StopEndsConfiguration
        <5>4. PICK k : k = log[node[n].applied].config
          OBVIOUS
        <5>5. k \in Nat /\ k = k + 1
          BY Zenon, <2>4, <3>3, <5>1, <5>3, <5>4
        <5> QED
          BY <5>5
      <4>3. w.applied = node[n].applied
        BY <2>4, <2>5, <4>2
      <4>4. node[n].applied <= Len(log)
        BY Zenon, <2>3 DEF NodeInv
      <4> QED
        BY Zenon, <2>5, <3>3, <4>1, <4>3, <4>4 DEF NodeInv
    <3> QED
      BY Zenon, <3>1, <3>2, <3>3
  <2>7. TornInv(w, Free)
    BY ZenonT(30), <2>5, FreeIsQuiet
  <2>8. TaskInv(NoOperation, Free)
    BY Zenon, FreeIsQuiet DEF TaskInv, NoOperation
  <2>9. queue' \in [Nodes -> Seq(Request)] /\ task' = [m \in Nodes |-> task'[m]]
    BY <2>2 DEF CInv, Shape
  <2>10. ASSUME NEW m \in Nodes PROVE TaskInv(task'[m], exec'[m])
    <3>1. CASE m = n
      BY Zenon, <2>2, <2>8, <3>1 DEF CInv, Shape
    <3>2. CASE m # n
      <4>1. task'[m] = task[m] /\ exec'[m] = exec[m]
        BY Zenon, <2>2, <3>2 DEF CInv, Shape
      <4> QED
        BY Zenon, <4>1, InvOf
    <3> QED
      BY Zenon, <3>1, <3>2
  <2> QED
    BY ZenonT(30), <2>2, <2>5, <2>6, <2>7, <2>9, <2>10, FreeIsQuiet, NoOffer, NodeStep
<1>1. CASE CompactStep
  <2>1. UNCHANGED <<request, queue>> /\ \E n \in Nodes : CompactPublishes(n) \/ CompactFails(n)
    BY ZenonT(20), <1>1 DEF CompactStep
  <2> QED
    BY Zenon, <2>1, <1>CompactEndsStep
<1>2. CASE Crash \/ FlushAndExit
  <2>1. \E n \in Nodes : ProcessRestarts(n, node[n].config) /\ AdminRestarts(n)
    BY ZenonT(30), <1>2 DEF Crash, FlushAndExit
  <2> QED
    BY <2>1, <1>RestartStep
<1>3. CASE ReopenAsSuccessor
  <2>1. \E n \in Nodes :
           /\ ~IsActive(node[n].applied) /\ node[n].config = log[node[n].applied].config
           /\ ProcessRestarts(n, node[n].config + 1) /\ AdminRestarts(n)
    BY Zenon, <1>3 DEF ReopenAsSuccessor
  <2> QED
    BY <2>1, <1>RestartStep
<1> QED
  BY <1>1, <1>2, <1>3

-----------------------------------------------------------------------------
(* The theorems *)

LEMMA InitCInv == Init => CInv /\ LogInit
<1> SUFFICES ASSUME Init PROVE CInv /\ LogInit
  OBVIOUS
<1>1. LogInit /\ IInv
  BY Zenon, InitIInv DEF Init, ExecutionInit
<1>2. PICK s \in Scenarios : profile = s.profile /\ request = s.request /\ ask = s.admin
  BY Zenon DEF Init
<1>3. ScenarioInv
  BY <1>2, ScenarioAssumption DEF ScenarioInv
<1>4. PICK w : w = [applied |-> 0, config |-> 1, fatal |-> FALSE, torn |-> FALSE,
                    compacting |-> FALSE]
  BY Zenon
<1>5. /\ node = [n \in Nodes |-> w] /\ exec = [n \in Nodes |-> Free]
      /\ queue = [n \in Nodes |-> <<>>] /\ task = [n \in Nodes |-> NoOperation]
  BY Zenon, <1>4 DEF Init, ExecutionInit, HttpInit, AdminInit
<1>6. w \in NodeType /\ w.applied = 0 /\ ~w.torn
  BY <1>4 DEF NodeType
<1>7. Shape
  BY <1>5, <1>6 DEF Shape
<1>8. NodeInv(w)
  BY <1>1, <1>6 DEF NodeInv, LogInit
<1>9. TaskInv(NoOperation, Free)
  BY ZenonT(30), FreeIsQuiet DEF TaskInv, NoOperation
<1>10. TornInv(w, Free)
  BY Zenon, <1>6, FreeIsQuiet
<1>11. ASSUME NEW n \in Nodes
       PROVE  /\ NodeInv(node[n]) /\ ExecFields(exec[n]) /\ BatchInv(exec[n], node[n].applied)
              /\ TornInv(node[n], exec[n]) /\ TaskInv(task[n], exec[n])
  BY ZenonT(30), <1>5, <1>8, <1>9, <1>10, FreeIsQuiet
<1> QED
  BY Zenon, <1>1, <1>3, <1>7, <1>11 DEF CInv

LEMMA NextCInv == CInv /\ FrontFits /\ [Next]_vars => CInv' /\ [LogNext]_logVars
<1> SUFFICES ASSUME CInv, FrontFits, [Next]_vars PROVE CInv' /\ [LogNext]_logVars
  OBVIOUS
<1>1. CASE UNCHANGED vars
  <2>1. UNCHANGED <<logVars, executionVars, adminVars, request>> /\ queue' = queue
    BY Zenon, <1>1 DEF vars, httpVars
  <2>2. queue' \in [Nodes -> Seq(Request)]
    BY Zenon, <2>1 DEF CInv, Shape
  <2> QED
    BY Zenon, <2>1, <2>2, OutsideStep
<1>2. CASE Next
  BY ZenonT(20), <1>2, ClientStepStep, HttpStepStep, ReadStepStep, RuntimeStepStep, WriterStepStep,
     EmbeddedStepStep, AdminStepStep, ProcessStep DEF Next
<1> QED
  BY <1>1, <1>2

\* Whatever clients, embedded callers and the administrator ask of however many
\* nodes, and whatever fails, the nodes together offer and decide what RequestLog
\* allows: an offer carries no request that is decided already, one payload for
\* an identifier, and follows the configuration the log is in.  The hypothesis
\* leaves out the batches of execute_graph_client_batch and
\* execute_kv_client_batch_locked with more than two commands to go whose first
\* two do not fit one entry.
THEOREM RequestLogImplemented == Spec /\ []FrontFits => ImplementsRequestLog
<1>1. Spec /\ []FrontFits => LogInit /\ [][LogNext]_logVars
  BY InitCInv, NextCInv, PTL DEF Spec
<1> QED
  BY <1>1 DEF ImplementsRequestLog, LogSpec

\* The inductive invariant itself.
THEOREM BatchesKnowTheLog == Spec /\ []FrontFits => []CInv
BY InitCInv, NextCInv, PTL DEF Spec

\* A request takes effect at most once, in the composed system, under the same
\* hypothesis.
THEOREM ExactlyOnceEverywhere == Spec /\ []FrontFits => []ExactlyOnce
<1>1. CInv => ExactlyOnce
  BY DEF CInv, IInv
<1> QED
  BY <1>1, BatchesKnowTheLog, PTL
=============================================================================
