--------------------------- MODULE AnswersProofs ----------------------------
(***************************************************************************)
(* AnswersAreTrue of ClientCalls, for every number of nodes, calls,        *)
(* batches and administrative requests, whatever fails.                    *)
(*                                                                         *)
(* A result travels from the receipts through the batch that holds the     *)
(* commit mutex, the writer task or the embedded handle, and a handler, to *)
(* the client.  The inductive invariant says what it means at each of      *)
(* these places, and whose request it belongs to.  A read relies on the    *)
(* index its task has to reach, which is no less than what was             *)
(* acknowledged before the call.                                           *)
(***************************************************************************)
EXTENDS WriteProofs

-----------------------------------------------------------------------------
(* The inductive invariant *)

Kinds == {"none", "ok", "retry", "exhausted", "invalid", "conflict", "fatal", "failed"}
Outcome == [kind : Kinds, index : Nat]

\* What a batch, the writer or the embedded handle holds for a request.
TrueResult(r, a) == a \in Outcome /\ a.index <= Len(log) /\ Committed(r, a)

\* What a handler or a client holds for a call.
TrueAnswer(c, a) ==
    /\ a \in Outcome /\ a.index <= Len(log)
    /\ IF IsRead(request[c]) THEN Recent(c, a) ELSE Committed(request[c], a) /\ Archived(a)

\* The log is a sequence; of what, does not matter here.
IsLog(l) == \E S : l \in Seq(S)

NodeA(w) == w \in NodeType /\ w.applied <= Len(log) /\ (w.torn => w.applied < Len(log))

TaskA(t) == t \in [stage : {t.stage}, call : {t.call}, result : {t.result}, target : Nat]

GateA(g) == g \in [accepting : {g.accepting}, active : {g.active}, busy : {g.busy},
                   flushing : {g.flushing}, target : Nat]

\* The log, the nodes, and what an administrative operation or a shutdown is
\* going to archive.
BaseA ==
    /\ IsLog(log) /\ archived \in Nat
    /\ \A c \in Calls : /\ request[c].id \in Ids => request[c] \in Request
                        /\ IsRead(request[c]) => request[c].id \notin Ids
    /\ node = [n \in Nodes |-> node[n]] /\ \A n \in Nodes : NodeA(node[n])
    /\ task = [n \in Nodes |-> task[n]] /\ \A n \in Nodes : TaskA(task[n])
    /\ gate = [n \in Nodes |-> gate[n]] /\ \A n \in Nodes : GateA(gate[n])

\* What holds the commit mutex: the results it has are true of its members.
IsBatch(e) == e.mode \in {"batch", "single"}
BatchA(e) ==
    /\ e \in [mode : {e.mode}, owner : {e.owner}, members : Seq(Request), results : {e.results},
              each : {e.each}, at : {e.at}, offered : {e.offered}]
    /\ IsBatch(e) =>
          /\ DOMAIN e.results = DOMAIN e.members
          /\ \A k \in DOMAIN e.members : TrueResult(e.members[k], e.results[k])
    /\ e.mode = "single" => e.at \in DOMAIN e.members /\ (profile = "sql" => e.each)

\* The batch is the one its owner waits for.
OwnerA(n, e, w, b) ==
    IsBatch(e) =>
        /\ e.owner = "http" => w.stage = "running" /\ w.batch = e.members
        /\ e.owner = "embedded" => b.stage = "running" /\ b.at = n /\ b.members = e.members

\* The writer task: the results are those of its batch, and are archived
\* before they are delivered.
WriterA(w) ==
    /\ w \in [stage : {w.stage}, batch : Seq(Request), results : {w.results}]
    /\ w.stage # "idle" => w.batch # <<>>
    /\ w.stage \in {"confirm", "deliver"} =>
          /\ w.results \in Seq(Outcome) /\ Len(w.results) = Len(w.batch)
          /\ \A i \in 1 .. Len(w.batch) : TrueResult(w.batch[i], w.results[i])
    /\ w.stage = "deliver" => \A i \in 1 .. Len(w.batch) : Archived(w.results[i])

\* The embedded handle.
EmbeddedA(b) ==
    /\ b \in [stage : {b.stage}, at : {b.at}, members : Seq(Request), results : {b.results}]
    /\ b.stage # "idle" => b.at \in Nodes
    /\ b.stage \in {"idle", "running", "indeterminate"} => b.results = <<>>
    /\ DOMAIN b.results \subseteq DOMAIN b.members
    /\ \A i \in DOMAIN b.results :
          /\ TrueResult(b.members[i], b.results[i])
          /\ b.stage \in {"done", "closed"} => Archived(b.results[i])

ExecA ==
    /\ exec = [n \in Nodes |-> exec[n]] /\ writer = [n \in Nodes |-> writer[n]]
    /\ queue \in [Nodes -> Seq(Request)]
    /\ \A n \in Nodes : /\ BatchA(exec[n]) /\ WriterA(writer[n])
                        /\ TornInv(node[n], exec[n])
                        /\ OwnerA(n, exec[n], writer[n], embedded)
    /\ EmbeddedA(embedded)

\* A handler of a call.
HandlerA(c, h) == TrueAnswer(c, h.answer) /\ (Waiting(h) => request[c].id \in Ids)

\* The task of a read: what it waits for covers what was acknowledged before.
ReadA(c, t) ==
    /\ t \in [stage : {t.stage}, required : Nat]
    /\ t.stage # "none" => IsRead(request[c])
    /\ t.stage \in {"ready", "anchored"} /\ request[c].payload \in {"applied", "barrier"} =>
          t.required >= floor[c]

\* A call: nothing has been sent before it starts.
CallA(c, k, h, t) ==
    /\ k \in [state : {k.state}, next : {k.next}, open : {k.open}, result : Outcome]
    /\ TrueAnswer(c, k.result)
    /\ \A n \in Nodes : HandlerA(c, h[n]) /\ ReadA(c, t[n])
    /\ k.state = "idle" =>
          /\ k.open = {} /\ k.result.kind # "ok"
          /\ \A n \in Nodes : h[n].state = "none" /\ h[n].answer.kind # "ok" /\ t[n].stage = "none"

CallsA ==
    /\ client = [c \in Calls |-> client[c]] /\ floor \in [Calls -> Nat]
    /\ handler = [c \in Calls |-> [n \in Nodes |-> handler[c][n]]]
    /\ read = [c \in Calls |-> [n \in Nodes |-> read[c][n]]]
    /\ \A c \in Calls : floor[c] <= Len(log) /\ CallA(c, client[c], handler[c], read[c])

\* The inductive invariant.
AInv == BaseA /\ ExecA /\ CallsA

-----------------------------------------------------------------------------
(* Results, and a log that grows *)

\* What every step does: the log and the archive grow, the requests stay.
GrowA ==
    /\ Len(log) \in Nat /\ Len(log') \in Nat /\ Len(log') >= Len(log)
    /\ \A i \in 1 .. Len(log) : log'[i] = log[i]
    /\ archived \in Nat /\ archived' \in Nat /\ archived' >= archived
    /\ request' = request /\ profile' = profile

LEMMA LogLength ==
    ASSUME NEW l, IsLog(l)
    PROVE  Len(l) \in Nat /\ DOMAIN l = 1 .. Len(l)
<1>1. PICK S : l \in Seq(S)
  BY DEF IsLog
<1> QED
  BY <1>1

LEMMA ResultLifts ==
    ASSUME NEW r, NEW a, TrueResult(r, a), GrowA
    PROVE  TrueResult(r, a)'
<1>1. a.index \in Nat
  BY DEF TrueResult, Outcome
<1> QED
  BY <1>1 DEF TrueResult, GrowA, Committed

LEMMA ArchivedLifts ==
    ASSUME NEW a \in Outcome, Archived(a), GrowA
    PROVE  Archived(a)'
<1>1. a.index \in Nat
  BY DEF Outcome
<1> QED
  BY <1>1 DEF Archived, GrowA

LEMMA AnswerLifts ==
    ASSUME NEW c, NEW a, TrueAnswer(c, a), GrowA, floor'[c] = floor[c]
    PROVE  TrueAnswer(c, a)'
<1>1. a.index \in Nat
  BY DEF TrueAnswer, Outcome
<1>2. IsRead(request[c])' <=> IsRead(request[c])
  BY DEF GrowA, IsRead
<1>3. Committed(request[c], a) => Committed(request[c], a)'
  BY <1>1 DEF GrowA, Committed
<1>4. Archived(a) => Archived(a)'
  BY <1>1 DEF GrowA, Archived
<1>5. Recent(c, a) => Recent(c, a)'
  BY DEF GrowA, Recent
<1> QED
  BY <1>1, <1>2, <1>3, <1>4, <1>5 DEF TrueAnswer, GrowA

\* An error is true of everything.
LEMMA ErrorIsTrue ==
    ASSUME Len(log) \in Nat, NEW kind \in Kinds \ {"ok"}
    PROVE  /\ Err(kind) \in Outcome /\ Err(kind).kind = kind /\ Err(kind).index = 0
           /\ \A r : TrueResult(r, Err(kind))
           /\ \A c : TrueAnswer(c, Err(kind))
<1>1. Err(kind) \in Outcome /\ Err(kind).kind = kind /\ Err(kind).index = 0
  BY DEF Err, Result, Outcome
<1>2. kind # "ok"
  OBVIOUS
<1>3. \A r : TrueResult(r, Err(kind))
  BY <1>1, <1>2 DEF TrueResult, Committed
<1>4. \A c : TrueAnswer(c, Err(kind))
  BY <1>1, <1>2 DEF TrueAnswer, Committed, Archived, Recent
<1> QED
  BY <1>1, <1>3, <1>4

LEMMA NoneIsTrue ==
    ASSUME Len(log) \in Nat
    PROVE  /\ None \in Outcome /\ None.kind = "none" /\ None.index = 0
           /\ \A r : TrueResult(r, None)
           /\ \A c : TrueAnswer(c, None)
<1>1. None = Err("none") /\ "none" \in Kinds \ {"ok"}
  BY DEF None, Err, Kinds
<1> QED
  BY <1>1, ErrorIsTrue

LEMMA OkIsTrue ==
    ASSUME Len(log) \in Nat, NEW i \in 1 .. Len(log), NEW r \in log[i].requests
    PROVE  TrueResult(r, Ok(i))
<1>1. Ok(i) \in Outcome /\ Ok(i).index = i
  BY DEF Ok, Result, Outcome, Kinds
<1> QED
  BY <1>1 DEF TrueResult, Committed

\* A receipt among the first i entries.
LEMMA ReceiptIsTrue ==
    ASSUME Len(log) \in Nat, NEW i \in 0 .. Len(log), NEW r
    PROVE  TrueResult(r, CheckRequest(i, r))
<1> DEFINE holders == {j \in 1 .. i : r.id \in IdsOf(log[j].requests)}
<1>1. CASE holders = {}
  <2>1. CheckRequest(i, r) = None
    BY <1>1 DEF CheckRequest
  <2> QED
    BY <2>1, NoneIsTrue
<1>2. CASE holders # {}
  <2>1. Min(holders) \in 1 .. Len(log)
    <3>1. holders \in SUBSET Nat
      OBVIOUS
    <3>2. Min(holders) \in holders
      BY Zenon, <1>2, <3>1, LeastExists
    <3> QED
      BY <3>2
  <2>2. CASE r \in log[Min(holders)].requests
    <3>1. CheckRequest(i, r) = Ok(Min(holders))
      BY <1>2, <2>2 DEF CheckRequest
    <3> QED
      BY <2>1, <2>2, <3>1, OkIsTrue
  <2>3. CASE r \notin log[Min(holders)].requests
    <3>1. CheckRequest(i, r) = Err("conflict")
      BY <1>2, <2>3 DEF CheckRequest
    <3>2. "conflict" \in Kinds \ {"ok"}
      BY DEF Kinds
    <3> QED
      BY <3>1, <3>2, ErrorIsTrue
  <2> QED
    BY <2>2, <2>3
<1> QED
  BY <1>1, <1>2

-----------------------------------------------------------------------------
(* What a growing log leaves in place *)

LEMMA BatchLifts ==
    ASSUME NEW e, BatchA(e), GrowA
    PROVE  BatchA(e)'
<1>1. IsBatch(e) => \A k \in DOMAIN e.members : TrueResult(e.members[k], e.results[k])'
  BY ResultLifts DEF BatchA
<1>2. profile' = profile
  BY DEF GrowA
<1> QED
  BY <1>1, <1>2 DEF BatchA, IsBatch

LEMMA WriterLifts ==
    ASSUME NEW w, WriterA(w), GrowA
    PROVE  WriterA(w)'
<1>1. w.stage \in {"confirm", "deliver"} =>
         \A i \in 1 .. Len(w.batch) : TrueResult(w.batch[i], w.results[i])'
  BY ResultLifts DEF WriterA
<1>2. w.stage = "deliver" => \A i \in 1 .. Len(w.batch) : Archived(w.results[i])'
  <2> SUFFICES ASSUME w.stage = "deliver", NEW i \in 1 .. Len(w.batch)
               PROVE  Archived(w.results[i])'
    OBVIOUS
  <2>1. w.results[i] \in Outcome /\ Archived(w.results[i])
    BY DEF WriterA, TrueResult
  <2> QED
    BY <2>1, ArchivedLifts
<1> QED
  BY <1>1, <1>2 DEF WriterA

LEMMA EmbeddedLifts ==
    ASSUME NEW b, EmbeddedA(b), GrowA
    PROVE  EmbeddedA(b)'
<1>1. \A i \in DOMAIN b.results : TrueResult(b.members[i], b.results[i])'
  BY ResultLifts DEF EmbeddedA
<1>2. b.stage \in {"done", "closed"} => \A i \in DOMAIN b.results : Archived(b.results[i])'
  <2> SUFFICES ASSUME b.stage \in {"done", "closed"}, NEW i \in DOMAIN b.results
               PROVE  Archived(b.results[i])'
    OBVIOUS
  <2>1. b.results[i] \in Outcome /\ Archived(b.results[i])
    BY DEF EmbeddedA, TrueResult
  <2> QED
    BY <2>1, ArchivedLifts
<1> QED
  BY <1>1, <1>2 DEF EmbeddedA

LEMMA HandlerLifts ==
    ASSUME NEW c, NEW h, HandlerA(c, h), GrowA, floor'[c] = floor[c]
    PROVE  HandlerA(c, h)'
<1>1. TrueAnswer(c, h.answer)'
  BY AnswerLifts DEF HandlerA
<1> QED
  BY <1>1 DEF HandlerA, GrowA, Waiting

LEMMA ReadLifts ==
    ASSUME NEW c, NEW t, ReadA(c, t), GrowA, floor'[c] = floor[c]
    PROVE  ReadA(c, t)'
BY DEF ReadA, GrowA, IsRead

LEMMA CallLifts ==
    ASSUME NEW c, NEW k, NEW h, NEW t, CallA(c, k, h, t), GrowA, floor'[c] = floor[c]
    PROVE  CallA(c, k, h, t)'
<1>1. TrueAnswer(c, k.result)'
  BY AnswerLifts DEF CallA
<1>2. \A n \in Nodes : HandlerA(c, h[n])' /\ ReadA(c, t[n])'
  BY HandlerLifts, ReadLifts DEF CallA
<1> QED
  BY <1>1, <1>2 DEF CallA

LEMMA NodeLifts ==
    ASSUME NEW w, NodeA(w), GrowA
    PROVE  NodeA(w)'
<1>1. w.applied \in Nat
  BY DEF NodeA, NodeType
<1> QED
  BY <1>1 DEF NodeA, GrowA

-----------------------------------------------------------------------------
(* What the commit mutex protects *)

\* The batch is still the same one, if it is one.
SameBatch(e, f) == IsBatch(f) => IsBatch(e) /\ f.owner = e.owner /\ f.members = e.members

LEMMA QuietA ==
    /\ BatchA(Free) /\ ~IsBatch(Free) /\ Free.offered = {} /\ Free.mode = "free"
    /\ \A result : LET f == Concluded(result)
                   IN  BatchA(f) /\ ~IsBatch(f) /\ f.offered = {} /\ f.mode = "concluded"
<1>1. /\ Free.mode = "free" /\ Free.offered = {}
      /\ Free \in [mode : {Free.mode}, owner : {Free.owner}, members : Seq(Request),
                   results : {Free.results}, each : {Free.each}, at : {Free.at},
                   offered : {Free.offered}]
  BY DEF Free
<1>2. BatchA(Free) /\ ~IsBatch(Free)
  BY <1>1 DEF BatchA, IsBatch
<1>3. ASSUME NEW result
      PROVE  LET f == Concluded(result)
             IN  BatchA(f) /\ ~IsBatch(f) /\ f.offered = {} /\ f.mode = "concluded"
  <2>1. PICK f : f = Concluded(result)
    OBVIOUS
  <2>2. /\ f.mode = "concluded" /\ f.offered = {}
        /\ f \in [mode : {f.mode}, owner : {f.owner}, members : Seq(Request),
                  results : {f.results}, each : {f.each}, at : {f.at}, offered : {f.offered}]
    BY Zenon, <1>1, <2>1 DEF Concluded
  <2>3. BatchA(f) /\ ~IsBatch(f)
    BY <2>2 DEF BatchA, IsBatch
  <2> QED
    BY <2>1, <2>2, <2>3
<1> QED
  BY <1>1, <1>2, <1>3

\* Members, by number.
LEMMA MembersA ==
    ASSUME NEW e, BatchA(e)
    PROVE  /\ DOMAIN e.members = 1 .. Len(e.members) /\ Len(e.members) \in Nat
           /\ e.members \in Seq(Request)
           /\ Pending(e) \subseteq DOMAIN e.members /\ Pending(e) \in SUBSET Nat
<1>1. e.members \in Seq(Request)
  BY DEF BatchA
<1> QED
  BY <1>1 DEF Pending

\* A batch whose results are replaced by true ones.
LEMMA WithResults ==
    ASSUME NEW e, NEW f, BatchA(e), e.mode = "batch",
           f.mode = "batch", f.owner = e.owner, f.members = e.members,
           f \in [mode : {f.mode}, owner : {f.owner}, members : {f.members}, results : {f.results},
                  each : {f.each}, at : {f.at}, offered : {f.offered}],
           DOMAIN f.results = DOMAIN e.members,
           \A k \in DOMAIN e.members : TrueResult(e.members[k], f.results[k])
    PROVE  BatchA(f) /\ SameBatch(e, f)
<1>1. e.members \in Seq(Request)
  BY DEF BatchA
<1> QED
  BY <1>1 DEF BatchA, SameBatch, IsBatch

LEMMA FailAllA ==
    ASSUME Len(log) \in Nat, NEW e, BatchA(e), e.mode = "batch",
           NEW kind \in Kinds \ {"ok", "none"}
    PROVE  LET f == FailAll(e, kind)
           IN  /\ BatchA(f) /\ SameBatch(e, f) /\ f.mode = "batch" /\ f.offered = {}
               /\ f.each = e.each /\ f.owner = e.owner /\ f.members = e.members
               /\ Pending(f) = {}
<1>1. PICK f : f = FailAll(e, kind)
  OBVIOUS
<1> DEFINE R == [i \in DOMAIN e.members |-> IF i \in Pending(e) THEN Err(kind) ELSE e.results[i]]
<1>2. f = [e EXCEPT !.results = R, !.offered = {}]
  BY <1>1 DEF FailAll
<1> HIDE DEF R
<1>3. /\ f.mode = "batch" /\ f.owner = e.owner /\ f.members = e.members /\ f.each = e.each
      /\ f.results = R /\ f.offered = {}
      /\ f \in [mode : {f.mode}, owner : {f.owner}, members : {f.members}, results : {f.results},
                each : {f.each}, at : {f.at}, offered : {f.offered}]
  BY Zenon, <1>2 DEF BatchA
<1>4. DOMAIN R = DOMAIN e.members
  BY DEF R
<1>5. \A r : TrueResult(r, Err(kind))
  BY ErrorIsTrue
<1>6. \A k \in DOMAIN e.members : TrueResult(e.members[k], R[k])
  BY <1>5 DEF R, BatchA, IsBatch
<1>7. BatchA(f) /\ SameBatch(e, f)
  BY <1>3, <1>4, <1>6, WithResults
<1>8. Err(kind) # None
  BY Answers
<1>9. Pending(f) = {}
  BY <1>3, <1>4, <1>8 DEF R, Pending
<1> QED
  BY <1>1, <1>3, <1>7, <1>9

-----------------------------------------------------------------------------
(* The parts of the invariant a step leaves alone *)

LEMMA NoGrowth ==
    ASSUME BaseA, UNCHANGED <<log, archived, request, profile>>
    PROVE  GrowA
<1>1. Len(log) \in Nat
  BY LogLength DEF BaseA
<1>2. Len(log') = Len(log) /\ archived \in Nat
  BY DEF BaseA
<1> QED
  BY <1>1, <1>2 DEF GrowA

\* A step at node n; what stays is node, task or gate of the others.
LEMMA BaseStep ==
    ASSUME BaseA, GrowA, IsLog(log)', NEW n \in Nodes, NEW w, NEW t, NEW g,
           node' = [node EXCEPT ![n] = w], NodeA(w)',
           task' = [task EXCEPT ![n] = t], TaskA(t),
           gate' = [gate EXCEPT ![n] = g], GateA(g)
    PROVE  BaseA'
<1>1. /\ node' = [m \in Nodes |-> node'[m]] /\ task' = [m \in Nodes |-> task'[m]]
      /\ gate' = [m \in Nodes |-> gate'[m]]
  BY Zenon DEF BaseA
<1>2. ASSUME NEW m \in Nodes
      PROVE  NodeA(node[m])' /\ TaskA(task[m])' /\ GateA(gate[m])'
  <2>1. CASE m = n
    <3>1. node'[m] = w /\ task'[m] = t /\ gate'[m] = g
      BY <2>1 DEF BaseA
    <3> QED
      BY <3>1
  <2>2. CASE m # n
    <3>1. node'[m] = node[m] /\ task'[m] = task[m] /\ gate'[m] = gate[m]
      BY Zenon, <2>2 DEF BaseA
    <3>2. PICK u : u = node[m]
      OBVIOUS
    <3>3. NodeA(u)'
      BY <3>2, NodeLifts DEF BaseA
    <3> QED
      BY Zenon, <3>1, <3>2, <3>3 DEF BaseA
  <2> QED
    BY <2>1, <2>2
<1>3. \A c \in Calls : /\ request'[c].id \in Ids => request'[c] \in Request
                       /\ IsRead(request[c])' => request'[c].id \notin Ids
  BY DEF BaseA, GrowA, IsRead
<1>4. archived' \in Nat
  BY DEF GrowA
<1> QED
  BY <1>1, <1>2, <1>3, <1>4 DEF BaseA

\* The same, when nothing of it changes.
LEMMA BaseKept ==
    ASSUME BaseA, UNCHANGED <<log, request, node, task, gate>>, archived' \in Nat
    PROVE  BaseA'
BY DEF BaseA, IsRead, NodeA

\* A step at node n that may change what holds the mutex, the writer task, the
\* queue and the embedded handle.
LEMMA ExecStep ==
    ASSUME ExecA, GrowA, NEW n \in Nodes, NEW e, NEW w, NEW b,
           exec' = [exec EXCEPT ![n] = e], BatchA(e)',
           writer' = [writer EXCEPT ![n] = w], WriterA(w)',
           embedded' = b, EmbeddedA(b)',
           queue' \in [Nodes -> Seq(Request)],
           TornInv(node'[n], e), OwnerA(n, e, w, b),
           \A m \in Nodes \ {n} : /\ node'[m] = node[m]
                                  /\ OwnerA(m, exec[m], writer[m], b)
    PROVE  ExecA'
<1>1. exec' = [m \in Nodes |-> exec'[m]] /\ writer' = [m \in Nodes |-> writer'[m]]
  BY Zenon DEF ExecA
<1>2. ASSUME NEW m \in Nodes
      PROVE  /\ BatchA(exec[m])' /\ WriterA(writer[m])'
             /\ TornInv(node[m], exec[m])'
             /\ OwnerA(m, exec[m], writer[m], embedded)'
  <2>1. CASE m = n
    <3>1. exec'[m] = e /\ writer'[m] = w
      BY <2>1 DEF ExecA
    <3>2. TornInv(node[m], exec[m])'
      BY Zenon, <2>1, <3>1 DEF TornInv, GrowA
    <3>3. OwnerA(m, exec[m], writer[m], embedded)'
      BY Zenon, <2>1, <3>1 DEF OwnerA
    <3> QED
      BY <3>1, <3>2, <3>3
  <2>2. CASE m # n
    <3>1. exec'[m] = exec[m] /\ writer'[m] = writer[m] /\ node'[m] = node[m]
      BY Zenon, <2>2 DEF ExecA
    <3>2. PICK u : u = exec[m]
      OBVIOUS
    <3>3. PICK v : v = writer[m]
      OBVIOUS
    <3>4. BatchA(u)' /\ WriterA(v)'
      BY Zenon, <3>2, <3>3, BatchLifts, WriterLifts DEF ExecA
    <3>5. TornInv(node[m], exec[m])'
      BY Zenon, <3>1 DEF TornInv, GrowA, ExecA
    <3>6. OwnerA(m, exec[m], writer[m], embedded)'
      BY <2>2, <3>1 DEF OwnerA
    <3> QED
      BY Zenon, <3>1, <3>2, <3>3, <3>4, <3>5, <3>6
  <2> QED
    BY <2>1, <2>2
<1> QED
  BY <1>1, <1>2 DEF ExecA

\* What holds the mutex and the writer tasks stay.
LEMMA ExecFrame ==
    ASSUME ExecA, GrowA, UNCHANGED <<exec, writer>>, NEW b, embedded' = b, EmbeddedA(b)',
           queue' \in [Nodes -> Seq(Request)],
           \A n \in Nodes : node'[n].torn = node[n].torn /\ node'[n].fatal = node[n].fatal,
           \A n \in Nodes : OwnerA(n, exec[n], writer[n], b)
    PROVE  ExecA'
<1>1. ASSUME NEW m \in Nodes
      PROVE  /\ BatchA(exec[m])' /\ WriterA(writer[m])'
             /\ TornInv(node[m], exec[m])'
  <2>1. PICK u : u = exec[m]
    OBVIOUS
  <2>2. PICK v : v = writer[m]
    OBVIOUS
  <2>3. BatchA(u)' /\ WriterA(v)'
    BY <2>1, <2>2, BatchLifts, WriterLifts DEF ExecA
  <2>4. TornInv(node[m], exec[m])'
    BY Zenon DEF TornInv, GrowA, ExecA
  <2> QED
    BY ZenonT(20), <2>1, <2>2, <2>3, <2>4
<1>2. \A m \in Nodes : OwnerA(m, exec[m], writer[m], embedded)'
  BY DEF OwnerA, IsBatch
<1> QED
  BY <1>1, <1>2 DEF ExecA

LEMMA ExecSame ==
    ASSUME ExecA, GrowA, UNCHANGED <<exec, writer, embedded>>,
           queue' \in [Nodes -> Seq(Request)],
           \A n \in Nodes : node'[n].torn = node[n].torn /\ node'[n].fatal = node[n].fatal
    PROVE  ExecA'
<1>1. PICK b : b = embedded
  OBVIOUS
<1>2. EmbeddedA(b)' /\ embedded' = b
  BY <1>1, EmbeddedLifts DEF ExecA
<1>3. \A n \in Nodes : OwnerA(n, exec[n], writer[n], b)
  BY <1>1 DEF ExecA
<1> QED
  BY <1>2, <1>3, ExecFrame

LEMMA ExecKept ==
    ASSUME ExecA, GrowA, UNCHANGED <<node, exec, writer, queue, embedded>>
    PROVE  ExecA'
<1>1. queue' \in [Nodes -> Seq(Request)]
  BY DEF ExecA
<1> QED
  BY <1>1, ExecSame

LEMMA CallsKept ==
    ASSUME CallsA, GrowA, UNCHANGED <<client, floor, handler, read>>
    PROVE  CallsA'
<1>1. ASSUME NEW c \in Calls
      PROVE  floor'[c] <= Len(log') /\ CallA(c, client[c], handler[c], read[c])'
  <2>1. PICK k : k = client[c]
    OBVIOUS
  <2>2. PICK h : h = handler[c]
    OBVIOUS
  <2>3. PICK t : t = read[c]
    OBVIOUS
  <2>4. CallA(c, k, h, t)'
    BY <2>1, <2>2, <2>3, CallLifts DEF CallsA
  <2>5. floor'[c] \in Nat /\ floor'[c] <= Len(log)
    BY Zenon DEF CallsA
  <2>6. floor'[c] <= Len(log')
    BY <2>5 DEF GrowA
  <2> QED
    BY <2>1, <2>2, <2>3, <2>4, <2>6
<1> QED
  BY Zenon, <1>1 DEF CallsA

-----------------------------------------------------------------------------
(* The steps of the runtime *)

LEMMA LengthAt ==
    ASSUME AInv
    PROVE  Len(log) \in Nat
BY LogLength DEF AInv, BaseA

LEMMA InvAt ==
    ASSUME AInv, NEW n \in Nodes
    PROVE  /\ node[n] \in NodeType /\ NodeA(node[n]) /\ BatchA(exec[n])
           /\ TornInv(node[n], exec[n]) /\ Len(log) \in Nat
           /\ node[n].applied \in 0 .. Len(log)
<1>1. NodeA(node[n]) /\ Len(log) \in Nat
  BY LogLength DEF AInv, BaseA
<1>2. node[n] \in NodeType /\ node[n].applied \in Nat /\ node[n].applied <= Len(log)
  BY <1>1 DEF NodeA, NodeType
<1> QED
  BY <1>1, <1>2 DEF AInv, ExecA

\* A function of the nodes, updated with what it is.
LEMMA Itself ==
    ASSUME NEW f, f = [m \in Nodes |-> f[m]], NEW n \in Nodes
    PROVE  f = [f EXCEPT ![n] = f[n]]
OBVIOUS

StillA == UNCHANGED <<profile, log, httpVars, readVars, client, gate>>

\* A step of the runtime, or of an operation that holds the mutex.
LEMMA RuntimeA ==
    ASSUME AInv, NEW n \in Nodes, NEW w, NEW v, NEW t,
           node' = [node EXCEPT ![n] = w], exec' = [exec EXCEPT ![n] = v],
           task' = [task EXCEPT ![n] = t],
           NodeA(w), BatchA(v), SameBatch(exec[n], v), TornInv(w, v), TaskA(t), StillA
    PROVE  AInv'
<1>1. BaseA /\ ExecA /\ CallsA
  BY DEF AInv
<1>2. /\ UNCHANGED <<log, archived, request, profile, handler, queue, writer, embedded>>
      /\ UNCHANGED <<floor, read, client, gate>>
  BY DEF StillA, httpVars, readVars
<1>3. GrowA
  BY <1>1, <1>2, NoGrowth
<1>4. BaseA'
  <2>1. IsLog(log)' /\ NodeA(w)'
    BY Zenon, <1>1, <1>2 DEF BaseA, NodeA, IsLog
  <2>2. PICK g : g = gate[n]
    OBVIOUS
  <2>3. gate' = [gate EXCEPT ![n] = g] /\ GateA(g)
    BY <1>1, <1>2, <2>2, Itself DEF BaseA
  <2> QED
    BY Zenon, <1>1, <1>3, <2>1, <2>3, BaseStep
<1>5. ExecA'
  <2>1. BatchA(v)'
    BY Zenon, <1>3, BatchLifts
  <2>2. PICK x, b : x = writer[n] /\ b = embedded
    OBVIOUS
  <2>3. WriterA(x) /\ EmbeddedA(b) /\ embedded' = b /\ writer' = [writer EXCEPT ![n] = x]
    BY <1>1, <1>2, <2>2, Itself DEF ExecA
  <2>4. WriterA(x)'
    BY <1>3, <2>3, WriterLifts
  <2>5. EmbeddedA(b)'
    BY <1>3, <2>3, EmbeddedLifts
  <2>6. queue' \in [Nodes -> Seq(Request)]
    BY <1>1, <1>2 DEF ExecA
  <2>7. node'[n] = w /\ \A m \in Nodes \ {n} : node'[m] = node[m]
    BY <1>1 DEF BaseA
  <2>8. OwnerA(n, v, x, b)
    BY <1>1, <2>2 DEF ExecA, OwnerA, SameBatch
  <2>9. \A m \in Nodes \ {n} : OwnerA(m, exec[m], writer[m], b)
    BY <1>1, <2>2 DEF ExecA
  <2> QED
    BY Zenon, <1>1, <1>3, <2>1, <2>3, <2>4, <2>5, <2>6, <2>7, <2>8, <2>9, ExecStep
<1>6. CallsA'
  BY Zenon, <1>1, <1>2, <1>3, CallsKept
<1> QED
  BY <1>4, <1>5, <1>6 DEF AInv

LEMMA OwnTask ==
    ASSUME AInv, NEW n \in Nodes, UNCHANGED task
    PROVE  TaskA(task[n]) /\ task' = [task EXCEPT ![n] = task[n]]
BY Itself DEF AInv, BaseA

LEMMA RuntimeStepA ==
    ASSUME AInv, RuntimeStep
    PROVE  AInv'
<1>ResolveA.
    ASSUME NEW e, BatchA(e), IsBatch(e), NEW k \in DOMAIN e.members, NEW result,
           TrueResult(e.members[k], result)
    PROVE  LET f == Resolve(e, k, result)
           IN  /\ BatchA(f) /\ SameBatch(e, f) /\ f.mode = "batch" /\ f.offered = {}
               /\ f.each = e.each
  <2> USE <1>ResolveA
  <2>1. PICK f : f = Resolve(e, k, result)
    OBVIOUS
  <2>2. /\ f.mode = "batch" /\ f.owner = e.owner /\ f.members = e.members /\ f.each = e.each
        /\ f.results = [e.results EXCEPT ![k] = result] /\ f.offered = {}
        /\ f \in [mode : {f.mode}, owner : {f.owner}, members : {f.members}, results : {f.results},
                  each : {f.each}, at : {f.at}, offered : {f.offered}]
    BY Zenon, <2>1 DEF Resolve, BatchA
  <2>3. /\ DOMAIN f.results = DOMAIN e.members
        /\ \A j \in DOMAIN e.members : f.results[j] = IF j = k THEN result ELSE e.results[j]
    BY <2>2 DEF BatchA
  <2>4. \A j \in DOMAIN e.members : TrueResult(e.members[j], f.results[j])
    BY <2>3 DEF BatchA
  <2>5. e.members \in Seq(Request)
    BY DEF BatchA
  <2>6. BatchA(f) /\ SameBatch(e, f)
    BY Zenon, <2>2, <2>3, <2>4, <2>5 DEF BatchA, SameBatch, IsBatch
  <2> QED
    BY <2>1, <2>2, <2>6
\* map_consensus_error and the like: a batch, a member or an operation fails.
<1>FailA.
    ASSUME Len(log) \in Nat, NEW e, BatchA(e), NEW kind \in Kinds \ {"ok", "none"}
    PROVE  LET f == Fail(e, kind)
           IN  /\ BatchA(f) /\ SameBatch(e, f)
               /\ f.offered = {} /\ f.mode \notin {"single", "stop"}
               /\ f.mode = "batch" /\ profile = "sql" /\ ~f.each => Pending(f) = {}
  <2> USE <1>FailA
  <2>1. CASE e.mode = "batch"
    <3>1. Fail(e, kind) = FailAll(e, kind)
      BY <2>1 DEF Fail
    <3>2. PICK f : f = FailAll(e, kind)
      OBVIOUS
    <3>3. BatchA(f) /\ SameBatch(e, f) /\ f.mode = "batch" /\ f.offered = {} /\ Pending(f) = {}
      BY Zenon, <2>1, <3>2, FailAllA
    <3> QED
      BY <3>1, <3>2, <3>3
  <2>2. CASE e.mode = "single"
    <3>1. Fail(e, kind) = Resolve(e, e.at, Err(kind))
      BY <2>2 DEF Fail
    <3>2. e.at \in DOMAIN e.members /\ IsBatch(e) /\ TrueResult(e.members[e.at], Err(kind))
      BY <2>2, ErrorIsTrue DEF BatchA, IsBatch
    <3>3. PICK f : f = Resolve(e, e.at, Err(kind))
      OBVIOUS
    <3>4. BatchA(f) /\ SameBatch(e, f) /\ f.mode = "batch" /\ f.offered = {} /\ f.each = e.each
      BY <3>2, <3>3, <1>ResolveA
    <3>5. profile = "sql" => f.each
      BY Zenon, <2>2, <3>4 DEF BatchA
    <3> QED
      BY <3>1, <3>3, <3>4, <3>5
  <2>3. CASE e.mode \in {"stop", "certify", "activate"}
    <3>1. Fail(e, kind) = Concluded(Err(kind))
      BY Zenon, <2>3 DEF Fail
    <3> QED
      BY <3>1, QuietA DEF SameBatch
  <2>4. CASE e.mode \notin {"batch", "single", "stop", "certify", "activate"}
    <3>1. Fail(e, kind) = Free
      BY <2>4 DEF Fail
    <3> QED
      BY <3>1, QuietA DEF SameBatch
  <2> QED
    BY Zenon, <2>1, <2>2, <2>3, <2>4
<1>ExecOnlyA.
    ASSUME AInv, NEW n \in Nodes, NEW v, exec' = [exec EXCEPT ![n] = v],
           BatchA(v), SameBatch(exec[n], v), TornInv(node[n], v),
           UNCHANGED <<node, task>>, StillA
    PROVE  AInv'
  <2> USE <1>ExecOnlyA
  <2>1. PICK w, t : w = node[n] /\ t = task[n]
    OBVIOUS
  <2>2. node' = [node EXCEPT ![n] = w] /\ NodeA(w)
    BY <2>1, Itself DEF AInv, BaseA
  <2>3. task' = [task EXCEPT ![n] = t] /\ TaskA(t)
    BY Zenon, <2>1, OwnTask
  <2>4. TornInv(w, v)
    BY <2>1
  <2> QED
    BY Zenon, <2>2, <2>3, <2>4, RuntimeA
<1>GiveUpA.
    ASSUME AInv, NEW n \in Nodes, NEW kind \in Kinds \ {"ok", "none"},
           exec' = [exec EXCEPT ![n] = Fail(exec[n], kind)], UNCHANGED <<node, task>>, StillA
    PROVE  AInv'
  <2> USE <1>GiveUpA
  <2>1. PICK v : v = Fail(exec[n], kind)
    OBVIOUS
  <2>2. BatchA(exec[n]) /\ TornInv(node[n], exec[n]) /\ Len(log) \in Nat
    BY Zenon, InvAt
  <2>3. /\ BatchA(v) /\ SameBatch(exec[n], v)
        /\ v.offered = {} /\ v.mode \notin {"single", "stop"}
        /\ v.mode = "batch" /\ profile = "sql" /\ ~v.each => Pending(v) = {}
    BY Zenon, <2>1, <2>2, <1>FailA
  <2>4. TornInv(node[n], v)
    BY <2>2, <2>3 DEF TornInv
  <2> QED
    BY Zenon, <2>1, <2>3, <2>4, <1>ExecOnlyA
<1>RejectedA.
    ASSUME AInv, NEW n \in Nodes, Rejected(n), UNCHANGED task, StillA
    PROVE  AInv'
  <2> USE <1>RejectedA
  <2>1. PICK v, w, t : /\ v = Fail(exec[n], "fatal") /\ w = [node[n] EXCEPT !.fatal = TRUE]
                       /\ t = task[n]
    BY Zenon
  <2>2. /\ exec' = [exec EXCEPT ![n] = v] /\ node' = [node EXCEPT ![n] = w]
        /\ exec[n].offered # {}
    BY ZenonT(20), <2>1 DEF Rejected
  <2>3. /\ node[n] \in NodeType /\ NodeA(node[n]) /\ BatchA(exec[n]) /\ TornInv(node[n], exec[n])
        /\ Len(log) \in Nat
    BY InvAt
  <2>4. "fatal" \in Kinds \ {"ok", "none"}
    BY DEF Kinds
  <2>5. BatchA(v) /\ SameBatch(exec[n], v)
    BY <2>1, <2>3, <2>4, <1>FailA
  <2>6. /\ w \in NodeType /\ w.applied = node[n].applied /\ w.torn = node[n].torn
    BY Zenon, <2>1, <2>3 DEF NodeType
  <2>7. NodeA(w) /\ TornInv(w, v)
    BY <2>2, <2>3, <2>6 DEF NodeA, TornInv
  <2>8. TaskA(t) /\ task' = [task EXCEPT ![n] = t]
    BY <2>1, OwnTask
  <2> QED
    BY Zenon, <2>2, <2>5, <2>7, <2>8, RuntimeA
<1>ApplyFailsA.
    ASSUME AInv, NEW n \in Nodes, ApplyFails(n), UNCHANGED task, StillA
    PROVE  AInv'
  <2> USE <1>ApplyFailsA
  <2>1. PICK v, w, t : /\ v = Fail(exec[n], "fatal")
                       /\ w = [node[n] EXCEPT !.fatal = TRUE, !.torn = TRUE]
                       /\ t = task[n]
    OBVIOUS
  <2>2. /\ exec' = [exec EXCEPT ![n] = v] /\ node' = [node EXCEPT ![n] = w]
        /\ node[n].applied + 1 <= Len(log)
    BY Zenon, <2>1 DEF ApplyFails
  <2>3. /\ node[n] \in NodeType /\ BatchA(exec[n]) /\ Len(log) \in Nat
    BY InvAt
  <2>4. "fatal" \in Kinds \ {"ok", "none"}
    BY DEF Kinds
  <2>5. /\ BatchA(v) /\ SameBatch(exec[n], v)
        /\ v.offered = {} /\ v.mode \notin {"single", "stop"}
        /\ v.mode = "batch" /\ profile = "sql" /\ ~v.each => Pending(v) = {}
    BY <2>1, <2>3, <2>4, <1>FailA
  <2>6. /\ w \in NodeType /\ w.applied = node[n].applied /\ w.fatal /\ node[n].applied \in Nat
    BY Zenon, <2>1, <2>3 DEF NodeType
  <2>7. NodeA(w)
    BY <2>2, <2>3, <2>6 DEF NodeA
  <2>8. TornInv(w, v)
    BY <2>5, <2>6 DEF TornInv
  <2>9. TaskA(t) /\ task' = [task EXCEPT ![n] = t]
    BY <2>1, OwnTask
  <2> QED
    BY Zenon, <2>2, <2>5, <2>7, <2>8, <2>9, RuntimeA
<1>MaterializeA.
    ASSUME AInv, NEW n \in Nodes, Materialize(n), UNCHANGED task, StillA
    PROVE  AInv'
  <2> USE <1>MaterializeA
  <2>1. PICK v, w, t : /\ v = exec[n] /\ w = [node[n] EXCEPT !.applied = node[n].applied + 1]
                       /\ t = task[n]
    BY Zenon
  <2>2. /\ exec' = exec /\ node' = [node EXCEPT ![n] = w] /\ ~node[n].fatal
        /\ node[n].applied + 1 <= Len(log)
    BY <2>1 DEF Materialize
  <2>3. /\ node[n] \in NodeType /\ BatchA(exec[n]) /\ TornInv(node[n], exec[n])
    BY Zenon, InvAt
  <2>4. node[n].applied + 1 \in Nat /\ ~node[n].torn
    BY <2>2, <2>3 DEF NodeType, TornInv
  <2>5. w \in NodeType /\ w.applied = node[n].applied + 1 /\ w.torn = node[n].torn
    BY Zenon, <2>1, <2>3, <2>4 DEF NodeType
  <2>6. NodeA(w) /\ TornInv(w, v) /\ SameBatch(exec[n], v) /\ BatchA(v)
    BY Zenon, <2>1, <2>2, <2>3, <2>4, <2>5 DEF NodeA, TornInv, SameBatch
  <2>7. exec' = [exec EXCEPT ![n] = v]
    BY <2>1, <2>2, Itself DEF AInv, ExecA
  <2>8. TaskA(t) /\ task' = [task EXCEPT ![n] = t]
    BY <2>1, OwnTask
  <2> QED
    BY Zenon, <2>2, <2>6, <2>7, <2>8, RuntimeA
<1>CertifyA.
    ASSUME AInv, NEW n \in Nodes, Certify(n), UNCHANGED task, StillA
    PROVE  AInv'
  <2> USE <1>CertifyA
  <2>1. PICK v : v = Concluded(Ok(node[n].applied))
    OBVIOUS
  <2>2. exec' = [exec EXCEPT ![n] = v] /\ UNCHANGED node
    BY Zenon, <2>1 DEF Certify
  <2>3. BatchA(v) /\ ~IsBatch(v) /\ v.offered = {} /\ v.mode = "concluded"
    BY Zenon, <2>1, QuietA
  <2>4. TornInv(node[n], v) /\ SameBatch(exec[n], v)
    BY <2>3, InvAt DEF TornInv, SameBatch
  <2> QED
    BY Zenon, <2>2, <2>3, <2>4, <1>ExecOnlyA
\* The pending members get true results.
<1>AnsweredA.
    ASSUME NEW e, NEW f, NEW g, BatchA(e), e.mode = "batch", IsAnswer(e, f, g),
           \A k \in Pending(e) : TrueResult(e.members[k], g[k])
    PROVE  BatchA(f) /\ SameBatch(e, f)
  <2> USE <1>AnsweredA
  <2> DEFINE h == [k \in DOMAIN e.members |-> IF k \in Pending(e) THEN g[k] ELSE e.results[k]]
  <2>1. f = [e EXCEPT !.offered = {}, !.results = h]
    BY DEF IsAnswer
  <2>2. DOMAIN h = DOMAIN e.members
    OBVIOUS
  <2>3. \A k \in DOMAIN e.members : TrueResult(e.members[k], h[k])
    BY DEF BatchA, IsBatch
  <2> HIDE DEF h
  <2>4. /\ f.mode = "batch" /\ f.owner = e.owner /\ f.members = e.members /\ f.results = h
        /\ f \in [mode : {f.mode}, owner : {f.owner}, members : {f.members}, results : {f.results},
                  each : {f.each}, at : {f.at}, offered : {f.offered}]
    BY Zenon, <2>1 DEF BatchA
  <2> QED
    BY Zenon, <2>2, <2>3, <2>4, WithResults
\* The lookup after an entry, which may be the node's own effect.
<1>AfterBatchA.
    ASSUME Len(log) \in Nat, NEW e, BatchA(e), e.mode = "batch", NEW slot \in 1 .. Len(log)
    PROVE  LET f == AfterBatch(e, slot) IN BatchA(f) /\ SameBatch(e, f)
  <2> USE <1>AfterBatchA
  <2>1. slot \in 0 .. Len(log)
    OBVIOUS
  <2>2. \A r : TrueResult(r, CheckRequest(slot, r))
    BY <2>1, ReceiptIsTrue
  <2>3. Pending(e) \subseteq DOMAIN e.members
    BY Zenon, MembersA
  <2>4. ASSUME NEW f, f = Answer(e, LAMBDA r : CheckRequest(slot, r))
        PROVE  BatchA(f) /\ SameBatch(e, f)
    <3>1. PICK g : g = [k \in DOMAIN e.members |-> CheckRequest(slot, e.members[k])]
      BY Zenon
    <3>2. \A k \in Pending(e) : g[k] = CheckRequest(slot, e.members[k])
      BY Zenon, <2>3, <3>1
    <3>3. [k \in DOMAIN e.members |->
              IF k \in Pending(e) THEN CheckRequest(slot, e.members[k]) ELSE e.results[k]]
          = [k \in DOMAIN e.members |-> IF k \in Pending(e) THEN g[k] ELSE e.results[k]]
      BY <3>2
    <3>4. IsAnswer(e, f, g)
      BY Zenon, <2>4, <3>3 DEF IsAnswer, Answer
    <3>5. \A k \in Pending(e) : TrueResult(e.members[k], g[k])
      BY Zenon, <2>2, <3>2
    <3> QED
      BY <3>4, <3>5, <1>AnsweredA
  <2>5. ASSUME NEW f, f = AfterSqlBatch(e, slot)
        PROVE  BatchA(f) /\ SameBatch(e, f)
    <3> DEFINE won(r) == log[slot] \in e.offered /\ r \in log[slot].requests
               found(r) == IF won(r) THEN Ok(slot) ELSE CheckRequest(slot, r)
    <3>1. PICK g : g = [k \in DOMAIN e.members |-> found(e.members[k])]
      BY Zenon
    <3>2. \A k \in Pending(e) : g[k] = found(e.members[k])
      BY Zenon, <2>3, <3>1
    <3>3. [k \in DOMAIN e.members |->
              IF k \in Pending(e) THEN found(e.members[k]) ELSE e.results[k]]
          = [k \in DOMAIN e.members |-> IF k \in Pending(e) THEN g[k] ELSE e.results[k]]
      BY <3>2
    <3>4. IsAnswer(e, f, g)
      BY Zenon, <2>5, <3>3 DEF IsAnswer, Answer, AfterSqlBatch
    <3>5. \A r : TrueResult(r, found(r))
      BY ZenonT(20), <2>2, OkIsTrue
    <3>6. \A k \in Pending(e) : TrueResult(e.members[k], g[k])
      BY <3>2, <3>5
    <3> QED
      BY <3>4, <3>6, <1>AnsweredA
  <2>6. PICK f : f = AfterBatch(e, slot)
    OBVIOUS
  <2>7. f = AfterSqlBatch(e, slot) \/ f = Answer(e, LAMBDA r : CheckRequest(slot, r))
    BY <2>6 DEF AfterBatch, AfterGraphBatch, AfterKvBatch
  <2> QED
    BY Zenon, <2>4, <2>5, <2>6, <2>7
\* An exec that changes in its offer, and in its mode if it is no batch.
<1>OfferingA.
    ASSUME NEW e, BatchA(e), NEW S
    PROVE  LET f == [e EXCEPT !.offered = S]
           IN  BatchA(f) /\ SameBatch(e, f) /\ f.mode = e.mode
  <2> USE <1>OfferingA
  <2>1. PICK f : f = [e EXCEPT !.offered = S]
    BY Zenon
  <2>2. /\ f.mode = e.mode /\ f.owner = e.owner /\ f.members = e.members /\ f.results = e.results
        /\ f.each = e.each /\ f.at = e.at
        /\ f \in [mode : {f.mode}, owner : {f.owner}, members : Seq(Request), results : {f.results},
                  each : {f.each}, at : {f.at}, offered : {f.offered}]
    BY <2>1 DEF BatchA
  <2>3. BatchA(f) /\ SameBatch(e, f)
    BY <2>2 DEF BatchA, SameBatch, IsBatch
  <2> QED
    BY <2>1, <2>2, <2>3
<1>CertifyingA.
    ASSUME NEW e, BatchA(e)
    PROVE  LET f == [e EXCEPT !.mode = "certify", !.offered = {}]
           IN  BatchA(f) /\ SameBatch(e, f)
  <2> USE <1>CertifyingA
  <2>1. PICK f : f = [e EXCEPT !.mode = "certify", !.offered = {}]
    OBVIOUS
  <2>2. /\ f.mode = "certify"
        /\ f \in [mode : {f.mode}, owner : {f.owner}, members : Seq(Request), results : {f.results},
                  each : {f.each}, at : {f.at}, offered : {f.offered}]
    BY Zenon, <2>1 DEF BatchA
  <2>3. BatchA(f) /\ SameBatch(e, f)
    BY <2>2 DEF BatchA, SameBatch, IsBatch
  <2> QED
    BY <2>1, <2>3
<1>AfterEntryA.
    ASSUME Len(log) \in Nat, NEW e, BatchA(e), NEW slot \in 1 .. Len(log)
    PROVE  LET f == AfterEntry(e, slot) IN BatchA(f) /\ SameBatch(e, f)
  <2> USE <1>AfterEntryA
  <2>1. CASE e.mode = "batch"
    <3>1. AfterEntry(e, slot) = AfterBatch(e, slot)
      BY <2>1 DEF AfterEntry
    <3> QED
      BY <2>1, <3>1, <1>AfterBatchA
  <2>2. CASE e.mode = "single"
    <3>1. PICK found : found = CheckRequest(slot, e.members[e.at])
      OBVIOUS
    <3>2. slot \in 0 .. Len(log)
      OBVIOUS
    <3>3. TrueResult(e.members[e.at], found) /\ e.at \in DOMAIN e.members /\ IsBatch(e)
      BY ZenonT(20), <2>2, <3>1, <3>2, ReceiptIsTrue DEF BatchA, IsBatch
    <3>4. LET f == Resolve(e, e.at, found) IN BatchA(f) /\ SameBatch(e, f)
      BY <3>3, <1>ResolveA
    <3>5. LET f == [e EXCEPT !.offered = {}] IN BatchA(f) /\ SameBatch(e, f)
      BY Zenon, <1>OfferingA
    <3>6. AfterEntry(e, slot) = IF found # None THEN Resolve(e, e.at, found)
                                ELSE [e EXCEPT !.offered = {}]
      BY <2>2, <3>1 DEF AfterEntry, AfterSingle
    <3> QED
      BY Zenon, <3>4, <3>5, <3>6
  <2>3. CASE e.mode = "stop"
    <3>1. \/ AfterEntry(e, slot) = [e EXCEPT !.offered = {}]
          \/ AfterEntry(e, slot) = [e EXCEPT !.mode = "certify", !.offered = {}]
          \/ AfterEntry(e, slot) = Concluded(Err("precondition"))
      BY <2>3 DEF AfterEntry, AfterStop
    <3>2. LET f == Concluded(Err("precondition")) IN BatchA(f) /\ SameBatch(e, f)
      BY QuietA DEF SameBatch
    <3>3. LET f == [e EXCEPT !.offered = {}] IN BatchA(f) /\ SameBatch(e, f)
      BY Zenon, <1>OfferingA
    <3>4. LET f == [e EXCEPT !.mode = "certify", !.offered = {}] IN BatchA(f) /\ SameBatch(e, f)
      BY Zenon, <1>CertifyingA
    <3> QED
      BY Zenon, <3>1, <3>2, <3>3, <3>4
  <2>4. CASE e.mode = "activate"
    <3>1. AfterEntry(e, slot) = Concluded(Ok(slot))
      BY <2>4 DEF AfterEntry
    <3> QED
      BY <3>1, QuietA DEF SameBatch
  <2>5. CASE e.mode \notin {"batch", "single", "stop", "activate"}
    <3>1. AfterEntry(e, slot) = Free
      BY <2>5 DEF AfterEntry
    <3> QED
      BY <3>1, QuietA DEF SameBatch
  <2> QED
    BY Zenon, <2>1, <2>2, <2>3, <2>4, <2>5
<1>LearnA.
    ASSUME AInv, NEW n \in Nodes, Learn(n), UNCHANGED task, StillA
    PROVE  AInv'
  <2> USE <1>LearnA
  <2>1. PICK slot : slot = node[n].applied + 1
    OBVIOUS
  <2>2. PICK v, w, t : /\ v = AfterEntry(exec[n], slot) /\ w = [node[n] EXCEPT !.applied = slot]
                       /\ t = task[n]
    BY Zenon
  <2>3. /\ exec' = [exec EXCEPT ![n] = v] /\ node' = [node EXCEPT ![n] = w]
        /\ exec[n].offered # {} /\ slot <= Len(log)
    BY Zenon, <2>1, <2>2 DEF Learn
  <2>4. /\ node[n] \in NodeType /\ BatchA(exec[n]) /\ TornInv(node[n], exec[n]) /\ Len(log) \in Nat
    BY Zenon, InvAt
  <2>5. slot \in 1 .. Len(log) /\ slot \in Nat /\ ~node[n].torn
    BY <2>1, <2>3, <2>4 DEF NodeType, TornInv
  <2>6. BatchA(v) /\ SameBatch(exec[n], v)
    BY Zenon, <2>2, <2>4, <2>5, <1>AfterEntryA
  <2>7. w \in NodeType /\ w.applied = slot /\ w.torn = node[n].torn
    BY Zenon, <2>2, <2>4, <2>5 DEF NodeType
  <2>8. NodeA(w) /\ TornInv(w, v)
    BY Zenon, <2>3, <2>5, <2>7 DEF NodeA, TornInv
  <2>9. TaskA(t) /\ task' = [task EXCEPT ![n] = t]
    BY Zenon, <2>2, OwnTask
  <2> QED
    BY Zenon, <2>3, <2>6, <2>8, <2>9, RuntimeA
\* A member is answered without a proposal.
<1>RefusedA.
    ASSUME AInv, NEW n \in Nodes, NEW k, NEW result,
           exec' = [exec EXCEPT ![n] = Resolve(exec[n], k, result)],
           IsBatch(exec[n]), k \in DOMAIN exec[n].members,
           TrueResult(exec[n].members[k], result),
           profile = "sql" => exec[n].each,
           UNCHANGED <<node, task>>, StillA
    PROVE  AInv'
  <2> USE <1>RefusedA
  <2>1. PICK e, v : e = exec[n] /\ v = Resolve(e, k, result)
    OBVIOUS
  <2>2. BatchA(e) /\ TornInv(node[n], e)
    BY Zenon, <2>1, InvAt
  <2>3. BatchA(v) /\ SameBatch(e, v) /\ v.mode = "batch" /\ v.offered = {} /\ v.each = e.each
    BY <2>1, <2>2, <1>ResolveA
  <2>4. TornInv(node[n], v)
    BY Zenon, <2>1, <2>2, <2>3 DEF TornInv
  <2> QED
    BY Zenon, <2>1, <2>3, <2>4, <1>ExecOnlyA
<1>EnterSingleA.
    ASSUME AInv, NEW n \in Nodes, EnterSingle(n), UNCHANGED task, StillA
    PROVE  AInv'
  <2> USE <1>EnterSingleA
  <2>1. PICK e, k, found : /\ e = exec[n] /\ k = Min(Pending(e))
                           /\ found = CheckRequest(node[n].applied, e.members[k])
    OBVIOUS
  <2>2. /\ e.mode = "batch" /\ e.offered = {} /\ Pending(e) # {} /\ Alone(e)
        /\ exec' = [exec EXCEPT ![n] =
              IF node[n].fatal THEN Resolve(e, k, Err("fatal"))
              ELSE IF ~Writable(n) THEN Resolve(e, k, Err("retry"))
              ELSE IF found # None THEN Resolve(e, k, found)
              ELSE [e EXCEPT !.mode = "single", !.at = k]]
        /\ UNCHANGED node
    BY Zenon, <2>1 DEF EnterSingle
  <2>3. /\ BatchA(e) /\ TornInv(node[n], e) /\ Len(log) \in Nat
        /\ node[n].applied \in 0 .. Len(log)
    BY <2>1, InvAt
  <2>4. k \in Pending(e) /\ k \in DOMAIN e.members
    <3>1. Pending(e) \subseteq DOMAIN e.members /\ Pending(e) \in SUBSET Nat
      BY <2>3, MembersA
    <3> QED
      BY Zenon, <2>1, <2>2, <3>1, LeastExists
  <2>5. (profile = "sql" => e.each) /\ IsBatch(e)
    BY <2>2 DEF Alone, IsBatch
  <2>6. ASSUME NEW result, TrueResult(e.members[k], result),
               exec' = [exec EXCEPT ![n] = Resolve(e, k, result)]
        PROVE  AInv'
    BY Zenon, <2>1, <2>2, <2>4, <2>5, <2>6, <1>RefusedA
  <2>7. CASE ~node[n].fatal /\ Writable(n) /\ found = None
    <3>1. PICK v : v = [e EXCEPT !.mode = "single", !.at = k]
      OBVIOUS
    <3>2. exec' = [exec EXCEPT ![n] = v]
      BY <2>2, <2>7, <3>1
    <3>3. /\ v.mode = "single" /\ v.at = k /\ v.members = e.members /\ v.owner = e.owner
          /\ v.results = e.results /\ v.each = e.each
          /\ v \in [mode : {v.mode}, owner : {v.owner}, members : Seq(Request), results : {v.results},
                    each : {v.each}, at : {v.at}, offered : {v.offered}]
      BY Zenon, <2>3, <3>1 DEF BatchA
    <3>4. BatchA(v) /\ SameBatch(e, v)
      BY Zenon, <2>3, <2>4, <2>5, <3>3 DEF BatchA, SameBatch, IsBatch
    <3>5. TornInv(node[n], v)
      BY Zenon, <2>3, <2>7 DEF TornInv
    <3> QED
      BY Zenon, <2>1, <2>2, <3>2, <3>4, <3>5, <1>ExecOnlyA
  <2>8. TrueResult(e.members[k], found)
    BY Zenon, <2>1, <2>3, ReceiptIsTrue
  <2>9. "fatal" \in Kinds \ {"ok"} /\ "retry" \in Kinds \ {"ok"}
    BY Zenon DEF Kinds
  <2>10. TrueResult(e.members[k], Err("fatal")) /\ TrueResult(e.members[k], Err("retry"))
    BY ZenonT(20), <2>3, <2>9, ErrorIsTrue
  <2>11. CASE node[n].fatal
    BY Zenon, <2>2, <2>6, <2>10, <2>11
  <2>12. CASE ~node[n].fatal /\ ~Writable(n)
    BY Zenon, <2>2, <2>6, <2>10, <2>12
  <2>13. CASE ~node[n].fatal /\ Writable(n) /\ found # None
    BY Zenon, <2>2, <2>6, <2>8, <2>13
  <2> QED
    BY Zenon, <2>7, <2>11, <2>12, <2>13
\* Something is offered for the next slot, by a node that may.
<1>OfferedA.
    ASSUME AInv, NEW n \in Nodes, NEW S, exec' = [exec EXCEPT ![n] = [exec[n] EXCEPT !.offered = S]],
           ~node[n].torn, UNCHANGED <<node, task>>, StillA
    PROVE  AInv'
  <2> USE <1>OfferedA
  <2>1. PICK e, v : e = exec[n] /\ v = [e EXCEPT !.offered = S]
    BY Zenon
  <2>2. BatchA(e)
    BY <2>1, InvAt
  <2>3. BatchA(v) /\ SameBatch(e, v)
    BY <2>1, <2>2, <1>OfferingA
  <2>4. TornInv(node[n], v)
    BY DEF TornInv
  <2> QED
    BY Zenon, <2>1, <2>3, <2>4, <1>ExecOnlyA
<1>ProposeMemberA.
    ASSUME AInv, NEW n \in Nodes, exec[n].mode = "single", ProposeMember(n),
           UNCHANGED <<node, task>>, StillA
    PROVE  AInv'
  <2> USE <1>ProposeMemberA
  <2>1. ~node[n].torn
    BY InvAt DEF TornInv
  <2>2. exec' = [exec EXCEPT ![n] = [exec[n] EXCEPT
                   !.offered = {CommandOf(n, {exec[n].members[exec[n].at]})}]]
    BY DEF ProposeMember
  <2> QED
    BY Zenon, <2>1, <2>2, <1>OfferedA
<1>ProposeSqlMemberA.
    ASSUME AInv, NEW n \in Nodes, ProposeSqlMember(n), UNCHANGED task, StillA
    PROVE  AInv'
  <2> USE <1>ProposeSqlMemberA
  <2>1. /\ exec[n].mode = "single" /\ UNCHANGED node
        /\ RefuseMember(n, "invalid") \/ RefuseMember(n, "exhausted") \/ ProposeMember(n)
    BY ZenonT(20) DEF ProposeSqlMember
  <2>2. /\ exec[n].at \in DOMAIN exec[n].members /\ (profile = "sql" => exec[n].each)
        /\ IsBatch(exec[n]) /\ Len(log) \in Nat
    BY <2>1, InvAt DEF BatchA, IsBatch
  <2>3. ASSUME NEW kind \in Kinds \ {"ok"}, RefuseMember(n, kind)
        PROVE  AInv'
    <3>1. exec' = [exec EXCEPT ![n] = Resolve(exec[n], exec[n].at, Err(kind))]
      BY Zenon, <2>3 DEF RefuseMember
    <3>2. TrueResult(exec[n].members[exec[n].at], Err(kind))
      BY <2>2, ErrorIsTrue
    <3> QED
      BY Zenon, <2>1, <2>2, <3>1, <3>2, <1>RefusedA
  <2>4. "invalid" \in Kinds \ {"ok"} /\ "exhausted" \in Kinds \ {"ok"}
    BY DEF Kinds
  <2>5. CASE ProposeMember(n)
    BY Zenon, <2>1, <2>5, <1>ProposeMemberA
  <2> QED
    BY Zenon, <2>1, <2>3, <2>4, <2>5
\* Some members of a batch are answered by errors, or stay as they are.
<1>ProposeSqlBatchA.
    ASSUME AInv, NEW n \in Nodes, ProposeSqlBatch(n), UNCHANGED task, StillA
    PROVE  AInv'
  <2> USE <1>ProposeSqlBatchA
  <2> DEFINE e == exec[n]
             ready == Eligible(e)
             good(failing, k) == First(ready, k) \ failing
             fits(failing, k) == SizeOf(e, good(failing, k)) <= limit
             count(failing) == Max({k \in Halvings[Cardinality(ready)] : fits(failing, k)} \cup {1})
             results(failing) ==
                [i \in DOMAIN e.members |->
                    IF i \notin First(ready, count(failing)) THEN e.results[i]
                    ELSE IF i \in failing THEN Err("invalid")
                    ELSE IF ~fits(failing, count(failing)) THEN Err("exhausted")
                    ELSE None]
             entry(failing) == CommandOf(n, {e.members[i] : i \in good(failing, count(failing))})
  <2>1. PICK failing :
           IF good(failing, count(failing)) # {} /\ fits(failing, count(failing))
           THEN /\ exec' = [exec EXCEPT ![n] = [e EXCEPT !.results = results(failing),
                                                         !.offered = {entry(failing)}]]
                /\ Propose(n, entry(failing))
           ELSE /\ exec' = [exec EXCEPT ![n] = [e EXCEPT !.results = results(failing)]]
                /\ UNCHANGED offers
    BY Zenon DEF ProposeSqlBatch
  <2>2. /\ e.mode = "batch" /\ Pending(e) # {} /\ ~Alone(e) /\ profile = "sql" /\ UNCHANGED node
    BY DEF ProposeSqlBatch
  <2>3. PICK x, g, S : x = exec[n] /\ g = results(failing) /\ S = {entry(failing)}
    BY ZenonT(30)
  <2>4. /\ DOMAIN g = DOMAIN x.members
        /\ \A k \in DOMAIN x.members : g[k] \in {x.results[k], Err("invalid"), Err("exhausted"), None}
    BY <2>3
  <2>5. \/ exec' = [exec EXCEPT ![n] = [x EXCEPT !.results = g, !.offered = S]]
        \/ exec' = [exec EXCEPT ![n] = [x EXCEPT !.results = g]]
    BY Zenon, <2>1, <2>3
  <2>6. x.mode = "batch" /\ Pending(x) # {} /\ ~Alone(x) /\ x = exec[n]
    BY ZenonT(30), <2>2, <2>3
  <2> HIDE DEF e, ready, good, fits, count, results, entry
  <2>7. BatchA(x) /\ TornInv(node[n], x) /\ Len(log) \in Nat
    BY Zenon, <2>6, InvAt
  <2>8. ~node[n].torn
    BY Zenon, <2>2, <2>6, <2>7 DEF Alone, TornInv
  <2>9. \A k \in DOMAIN x.members : TrueResult(x.members[k], g[k])
    <3>1. "invalid" \in Kinds \ {"ok"} /\ "exhausted" \in Kinds \ {"ok"}
      BY DEF Kinds
    <3>2. \A r : TrueResult(r, Err("invalid")) /\ TrueResult(r, Err("exhausted"))
      BY Zenon, <2>7, <3>1, ErrorIsTrue
    <3>3. \A r : TrueResult(r, None)
      BY ZenonT(20), <2>7, NoneIsTrue
    <3>4. \A k \in DOMAIN x.members : TrueResult(x.members[k], x.results[k])
      BY <2>6, <2>7 DEF BatchA, IsBatch
    <3> QED
      BY Zenon, <2>4, <3>2, <3>3, <3>4
  <2>10. ASSUME NEW v, exec' = [exec EXCEPT ![n] = v],
                v.mode = "batch", v.owner = x.owner, v.members = x.members, v.results = g,
                v \in [mode : {v.mode}, owner : {v.owner}, members : {v.members},
                       results : {v.results}, each : {v.each}, at : {v.at}, offered : {v.offered}]
         PROVE  AInv'
    <3>1. BatchA(v) /\ SameBatch(x, v)
      BY Zenon, <2>4, <2>6, <2>7, <2>9, <2>10, WithResults
    <3>2. TornInv(node[n], v)
      BY <2>8 DEF TornInv
    <3> QED
      BY ZenonT(30), <2>2, <2>6, <2>10, <3>1, <3>2, <1>ExecOnlyA
  <2>11. CASE exec' = [exec EXCEPT ![n] = [x EXCEPT !.results = g, !.offered = S]]
    <3>1. PICK v : v = [x EXCEPT !.results = g, !.offered = S]
      OBVIOUS
    <3>2. /\ v.mode = "batch" /\ v.owner = x.owner /\ v.members = x.members /\ v.results = g
          /\ v \in [mode : {v.mode}, owner : {v.owner}, members : {v.members},
                    results : {v.results}, each : {v.each}, at : {v.at}, offered : {v.offered}]
      BY Zenon, <2>6, <2>7, <3>1 DEF BatchA
    <3> QED
      BY Zenon, <2>10, <2>11, <3>1, <3>2
  <2>12. CASE exec' = [exec EXCEPT ![n] = [x EXCEPT !.results = g]]
    <3>1. PICK v : v = [x EXCEPT !.results = g]
      BY Zenon
    <3>2. /\ v.mode = "batch" /\ v.owner = x.owner /\ v.members = x.members /\ v.results = g
          /\ v \in [mode : {v.mode}, owner : {v.owner}, members : {v.members},
                    results : {v.results}, each : {v.each}, at : {v.at}, offered : {v.offered}]
      BY ZenonT(20), <2>6, <2>7, <3>1 DEF BatchA
    <3> QED
      BY Zenon, <2>10, <2>12, <3>1, <3>2
  <2> QED
    BY ZenonT(20), <2>5, <2>11, <2>12
<1>ProposePrefixA.
    ASSUME AInv, NEW n \in Nodes, ProposePrefix(n), UNCHANGED task, StillA
    PROVE  AInv'
  <2> USE <1>ProposePrefixA
  <2>1. PICK S : S = {CommandOf(n, {exec[n].members[i] : i \in LongestPrefix(exec[n])})}
    BY Zenon
  <2>2. /\ exec[n].mode = "batch" /\ UNCHANGED node
        /\ IF node[n].torn THEN exec' = [exec EXCEPT ![n] = FailAll(exec[n], "fatal")]
           ELSE exec' = [exec EXCEPT ![n] = [exec[n] EXCEPT !.offered = S]]
    BY <2>1 DEF ProposePrefix
  <2>3. CASE node[n].torn
    <3>1. "fatal" \in Kinds \ {"ok", "none"}
      BY DEF Kinds
    <3>2. exec' = [exec EXCEPT ![n] = Fail(exec[n], "fatal")]
      BY <2>2, <2>3 DEF Fail
    <3> QED
      BY Zenon, <2>2, <3>1, <3>2, <1>GiveUpA
  <2>4. CASE ~node[n].torn
    BY Zenon, <2>2, <2>4, <1>OfferedA
  <2> QED
    BY <2>3, <2>4
<1>BatchStepA.
    ASSUME AInv, NEW n \in Nodes, BatchStep(n), UNCHANGED task, StillA
    PROVE  AInv'
  <2> USE <1>BatchStepA
  <2>1. CASE ProposeTypedMember(n)
    BY <2>1, <1>ProposeMemberA DEF ProposeTypedMember
  <2>2. CASE ProposeGraphBatch(n) \/ ProposeKvBatch(n)
    BY <2>2, <1>ProposePrefixA DEF ProposeGraphBatch, ProposeKvBatch
  <2>3. CASE EnterSingle(n) \/ ProposeSqlMember(n) \/ ProposeSqlBatch(n)
    BY Zenon, <2>3, <1>EnterSingleA, <1>ProposeSqlMemberA, <1>ProposeSqlBatchA
  <2>4. CASE Learn(n) \/ Rejected(n) \/ Certify(n)
    BY Zenon, <2>4, <1>LearnA, <1>RejectedA, <1>CertifyA
  <2> QED
    BY Zenon, <2>1, <2>2, <2>3, <2>4 DEF BatchStep
\* An entry is decided.
<1>DecideA.
    ASSUME AInv, DecideSlot, UNCHANGED <<httpVars, readVars, client, task, gate>>
    PROVE  AInv'
  <2> USE <1>DecideA
  <2>1. BaseA /\ ExecA /\ CallsA
    BY DEF AInv
  <2>2. PICK e : log' = Append(log, e)
    BY DEF DecideSlot, Decide
  <2>3. /\ UNCHANGED <<profile, node, exec, request, archived, handler, queue, writer, embedded>>
        /\ UNCHANGED <<floor, read, client, task, gate>>
    BY DEF DecideSlot, executionVars, httpVars, readVars
  <2>4. PICK S : log \in Seq(S)
    BY <2>1 DEF BaseA, IsLog
  <2>5. PICK T : T = S \cup {e}
    BY Zenon
  <2>6. log \in Seq(T) /\ e \in T
    BY <2>4, <2>5
  <2>7. /\ log' \in Seq(T) /\ Len(log') = Len(log) + 1 /\ Len(log) \in Nat
        /\ \A i \in 1 .. Len(log) : log'[i] = log[i]
    BY <2>2, <2>6
  <2>8. GrowA
    BY <2>1, <2>3, <2>7 DEF GrowA, BaseA
  <2>9. BaseA'
    <3>1. \A n \in Nodes : NodeA(node[n])'
      <4> TAKE n \in Nodes
      <4>1. PICK w : w = node[n]
        OBVIOUS
      <4>2. NodeA(w)'
        BY Zenon, <2>1, <2>8, <4>1, NodeLifts DEF BaseA
      <4> QED
        BY Zenon, <2>3, <4>1, <4>2
    <3>2. IsLog(log)'
      BY Zenon, <2>7 DEF IsLog
    <3> QED
      BY Zenon, <2>1, <2>3, <3>1, <3>2 DEF BaseA, IsRead
  <2>10. ExecA'
    BY Zenon, <2>1, <2>3, <2>8, ExecKept
  <2>11. CallsA'
    BY Zenon, <2>1, <2>3, <2>8, CallsKept
  <2> QED
    BY Zenon, <2>9, <2>10, <2>11 DEF AInv
<1>1. UNCHANGED <<httpVars, readVars, client, task, gate>>
  BY DEF RuntimeStep, adminVars
<1>2. ASSUME UNCHANGED <<profile, log>> PROVE StillA
  BY Zenon, <1>1, <1>2 DEF StillA
<1>3. CASE DecideSlot
  BY Zenon, <1>1, <1>3, <1>DecideA
<1>4. ASSUME NEW n \in Nodes, BatchStep(n) PROVE AInv'
  <2>1. UNCHANGED <<profile, log>>
    BY Zenon, <1>4 DEF BatchStep, EnterSingle, ProposeSqlMember, ProposeTypedMember, ProposeSqlBatch,
                ProposeGraphBatch, ProposeKvBatch, ProposePrefix, Learn, Rejected, Certify
  <2> QED
    BY Zenon, <1>1, <1>2, <1>4, <2>1, <1>BatchStepA
<1>5. ASSUME NEW n \in Nodes, Materialize(n) PROVE AInv'
  <2>1. UNCHANGED <<profile, log>>
    BY ZenonT(20), <1>5 DEF Materialize
  <2> QED
    BY <1>1, <1>2, <1>5, <2>1, <1>MaterializeA
<1>6. ASSUME NEW n \in Nodes, ApplyFails(n) PROVE AInv'
  <2>1. UNCHANGED <<profile, log>>
    BY <1>6 DEF ApplyFails
  <2> QED
    BY <1>1, <1>2, <1>6, <2>1, <1>ApplyFailsA
<1>7. ASSUME NEW n \in Nodes, GiveUp(n) \/ CertifyFails(n) PROVE AInv'
  <2>1. /\ UNCHANGED <<profile, log, node>>
        /\ exec' = [exec EXCEPT ![n] = Fail(exec[n], "retry")]
    BY Zenon, <1>7 DEF GiveUp, CertifyFails
  <2>2. "retry" \in Kinds \ {"ok", "none"}
    BY Zenon DEF Kinds
  <2> QED
    BY Zenon, <1>1, <1>2, <2>1, <2>2, <1>GiveUpA
<1> QED
  BY Zenon, <1>3, <1>4, <1>5, <1>6, <1>7 DEF RuntimeStep

-----------------------------------------------------------------------------
(* A batch begins, and returns *)

LEMMA IdleWriterA ==
    /\ WriterA(IdleWriter) /\ IdleWriter.stage = "idle"
    /\ IdleWriter \in [stage : {IdleWriter.stage}, batch : {IdleWriter.batch},
                       results : {IdleWriter.results}]
<1>1. /\ IdleWriter.stage = "idle"
      /\ IdleWriter \in [stage : {IdleWriter.stage}, batch : Seq(Request),
                         results : {IdleWriter.results}]
      /\ IdleWriter \in [stage : {IdleWriter.stage}, batch : {IdleWriter.batch},
                         results : {IdleWriter.results}]
  BY DEF IdleWriter
<1> QED
  BY Zenon, <1>1 DEF WriterA

LEMMA BatchesA ==
    ASSUME AInv, WriterStep \/ EmbeddedStep
    PROVE  AInv'
<1>PreflightA.
    ASSUME Len(log) \in Nat, NEW i \in 0 .. Len(log), NEW members \in Seq(Request)
    PROVE  /\ DOMAIN Preflight(i, members) = DOMAIN members
           /\ \A k \in DOMAIN members : TrueResult(members[k], Preflight(i, members)[k])
  <2> USE <1>PreflightA
  <2>1. "conflict" \in Kinds \ {"ok"}
    BY Zenon DEF Kinds
  <2>2. \A r : /\ TrueResult(r, None) /\ TrueResult(r, Err("conflict"))
               /\ TrueResult(r, CheckRequest(i, r))
    BY Zenon, <2>1, NoneIsTrue, ErrorIsTrue, ReceiptIsTrue
  <2>3. PICK g : g = Preflight(i, members)
    OBVIOUS
  <2>4. /\ DOMAIN g = DOMAIN members
        /\ \A k \in DOMAIN members :
              g[k] \in {None, Err("conflict"), CheckRequest(i, members[k])}
    <3>1. CASE g = SqlPreflight(i, members)
      BY Zenon, <3>1 DEF SqlPreflight, Lookups
    <3>2. CASE g = GraphPreflight(i, members)
      BY <3>2 DEF GraphPreflight
    <3>3. CASE g = KvPreflight(i, members)
      BY Zenon, <3>3 DEF KvPreflight
    <3> QED
      BY Zenon, <2>3, <3>1, <3>2, <3>3 DEF Preflight
  <2> QED
    BY Zenon, <2>2, <2>3, <2>4
<1>BeginA.
    ASSUME AInv, NEW n \in Nodes, NEW owner, NEW members \in Seq(Request),
           Begin(n, owner, members)
    PROVE  \E v : /\ exec' = [exec EXCEPT ![n] = v]
                  /\ BatchA(v) /\ TornInv(node[n], v)
                  /\ IsBatch(v) /\ v.owner = owner /\ v.members = members
  <2> USE <1>BeginA
  <2>1. PICK each \in (IF profile = "sql" THEN BOOLEAN ELSE {FALSE}) :
           LET fresh == [Free EXCEPT !.mode = "batch", !.owner = owner, !.members = members,
                                     !.results = [i \in DOMAIN members |-> None],
                                     !.each = each]
           IN  exec' = [exec EXCEPT ![n] =
                  CASE node[n].fatal -> FailAll(fresh, "fatal")
                    [] ~node[n].fatal /\ ~Writable(n) -> FailAll(fresh, "retry")
                    [] OTHER -> IF each THEN fresh
                                ELSE [fresh EXCEPT !.results = Preflight(node[n].applied, members)]]
    BY Zenon DEF Begin
  <2>2. PICK fresh : fresh = [Free EXCEPT !.mode = "batch", !.owner = owner, !.members = members,
                                          !.results = [i \in DOMAIN members |-> None],
                                          !.each = each]
    OBVIOUS
  <2>3. /\ fresh.mode = "batch" /\ fresh.members = members /\ fresh.owner = owner
        /\ fresh.each = each /\ fresh.results = [i \in DOMAIN members |-> None]
        /\ fresh \in [mode : {fresh.mode}, owner : {fresh.owner}, members : Seq(Request),
                      results : {fresh.results}, each : {fresh.each}, at : {fresh.at},
                      offered : {fresh.offered}]
    BY ZenonT(30), <2>2, QuietA DEF BatchA
  <2>4. /\ TornInv(node[n], exec[n]) /\ Len(log) \in Nat /\ node[n].applied \in 0 .. Len(log)
    BY Zenon, InvAt
  <2>5. node[n].torn => node[n].fatal
    BY Zenon, <2>4 DEF TornInv
  <2>6. BatchA(fresh) /\ IsBatch(fresh)
    <3>1. \A k \in DOMAIN members : TrueResult(members[k], fresh.results[k])
      BY <2>3, <2>4, NoneIsTrue
    <3> QED
      BY Zenon, <2>3, <3>1 DEF BatchA, IsBatch
  <2>7. "fatal" \in Kinds \ {"ok", "none"} /\ "retry" \in Kinds \ {"ok", "none"}
    BY DEF Kinds
  <2>8. CASE node[n].fatal
    <3>1. PICK f : f = FailAll(fresh, "fatal")
      OBVIOUS
    <3>2. exec' = [exec EXCEPT ![n] = f]
      BY Zenon, <2>1, <2>2, <2>8, <3>1
    <3>3. /\ BatchA(f) /\ f.mode = "batch" /\ f.offered = {} /\ Pending(f) = {}
          /\ f.owner = owner /\ f.members = members
      BY SMTT(30), <2>3, <2>4, <2>6, <2>7, <3>1, FailAllA
    <3>4. TornInv(node[n], f) /\ IsBatch(f)
      BY Zenon, <2>8, <3>3 DEF TornInv, IsBatch
    <3> QED
      BY Zenon, <3>2, <3>3, <3>4
  <2>9. CASE ~node[n].fatal /\ ~Writable(n)
    <3>1. PICK f : f = FailAll(fresh, "retry")
      OBVIOUS
    <3>2. exec' = [exec EXCEPT ![n] = f]
      BY Zenon, <2>1, <2>2, <2>9, <3>1
    <3>3. BatchA(f) /\ f.mode = "batch" /\ f.owner = owner /\ f.members = members
      BY SMTT(30), <2>3, <2>4, <2>6, <2>7, <3>1, FailAllA
    <3>4. TornInv(node[n], f) /\ IsBatch(f)
      BY <2>5, <2>9, <3>3 DEF TornInv, IsBatch
    <3> QED
      BY Zenon, <3>2, <3>3, <3>4
  <2>10. CASE ~node[n].fatal /\ Writable(n) /\ each
    <3>1. exec' = [exec EXCEPT ![n] = fresh]
      BY Zenon, <2>1, <2>2, <2>10
    <3>2. TornInv(node[n], fresh)
      BY <2>5, <2>10 DEF TornInv
    <3> QED
      BY Zenon, <2>3, <2>6, <3>1, <3>2
  <2>11. CASE ~node[n].fatal /\ Writable(n) /\ ~each
    <3>1. PICK g : g = Preflight(node[n].applied, members)
      OBVIOUS
    <3>2. PICK v : v = [fresh EXCEPT !.results = g]
      BY Zenon
    <3>3. exec' = [exec EXCEPT ![n] = v]
      BY Zenon, <2>1, <2>2, <2>11, <3>1, <3>2
    <3>4. /\ v.mode = "batch" /\ v.members = members /\ v.owner = owner /\ v.results = g
          /\ v \in [mode : {v.mode}, owner : {v.owner}, members : {v.members}, results : {v.results},
                    each : {v.each}, at : {v.at}, offered : {v.offered}]
      BY Zenon, <2>3, <3>2
    <3>5. DOMAIN g = DOMAIN members /\ \A k \in DOMAIN members : TrueResult(members[k], g[k])
      BY Zenon, <2>4, <3>1, <1>PreflightA
    <3>6. BatchA(v) /\ IsBatch(v)
      BY Zenon, <3>4, <3>5 DEF BatchA, IsBatch
    <3>7. TornInv(node[n], v)
      BY Zenon, <2>5, <2>11 DEF TornInv
    <3> QED
      BY Zenon, <3>3, <3>4, <3>6, <3>7
  <2> QED
    BY Zenon, <2>8, <2>9, <2>10, <2>11
\* The results handed back: an alias is the same request as its canonical member.
<1>ResultsOfA.
    ASSUME AInv, NEW n \in Nodes, IsBatch(exec[n])
    PROVE  LET R == ResultsOf(n)
               M == exec[n].members
           IN  /\ M \in Seq(Request) /\ R \in Seq(Outcome) /\ Len(R) = Len(M)
               /\ \A i \in 1 .. Len(M) : TrueResult(M[i], R[i])
  <2> USE <1>ResultsOfA
  <2>1. PICK e, R : e = exec[n] /\ R = ResultsOf(n)
    OBVIOUS
  <2>2. BatchA(e)
    BY Zenon, <2>1, InvAt
  <2>3. /\ e.members \in Seq(Request) /\ DOMAIN e.members = 1 .. Len(e.members)
        /\ Len(e.members) \in Nat
        /\ \A k \in 1 .. Len(e.members) : TrueResult(e.members[k], e.results[k])
    BY Zenon, <2>1, <2>2, MembersA DEF BatchA
  <2>4. R = [i \in 1 .. Len(e.members) |->
                IF e.each THEN e.results[i] ELSE e.results[CanonicalOf(e.members, i)]]
    BY Zenon, <2>1, <2>3 DEF ResultsOf
  <2>5. ASSUME NEW i \in 1 .. Len(e.members)
        PROVE  TrueResult(e.members[i], R[i])
    <3>1. PICK k : k = CanonicalOf(e.members, i)
      OBVIOUS
    <3>2. k \in 1 .. i /\ e.members[k] = e.members[i]
      <4>1. PICK S : S = {j \in 1 .. i : e.members[j] = e.members[i]}
        BY Zenon
      <4>2. i \in S /\ S \in SUBSET Nat
        BY <2>3, <4>1
      <4>3. Min(S) \in S
        BY Zenon, <4>2, LeastExists
      <4>4. k = Min(S)
        BY Zenon, <3>1, <4>1 DEF CanonicalOf
      <4> QED
        BY <4>1, <4>3, <4>4
    <3>3. TrueResult(e.members[i], e.results[k]) /\ TrueResult(e.members[i], e.results[i])
      BY <2>3, <3>2
    <3> QED
      BY Zenon, <2>4, <3>1, <3>3
  <2>6. \A i \in 1 .. Len(e.members) : R[i] \in Outcome
    BY Zenon, <2>5 DEF TrueResult
  <2>7. R \in Seq(Outcome) /\ Len(R) = Len(e.members)
    BY <2>3, <2>4, <2>6
  <2> QED
    BY Zenon, <2>1, <2>3, <2>5, <2>7
\* Whoever waits for the batch at node n takes its turn.
<1>HandOverA.
    ASSUME AInv, NEW n \in Nodes, NEW e, NEW w, NEW b,
           exec' = [exec EXCEPT ![n] = e], BatchA(e),
           writer' = [writer EXCEPT ![n] = w], WriterA(w),
           embedded' = b, EmbeddedA(b),
           queue' \in [Nodes -> Seq(Request)],
           TornInv(node[n], e), OwnerA(n, e, w, b),
           \A m \in Nodes \ {n} : OwnerA(m, exec[m], writer[m], b),
           UNCHANGED <<log, profile, request, archived, node, task, gate>>,
           UNCHANGED <<client, floor, handler, read>>
    PROVE  AInv'
  <2> USE <1>HandOverA
  <2>1. BaseA /\ ExecA /\ CallsA
    BY Zenon DEF AInv
  <2>2. GrowA
    BY Zenon, <2>1, NoGrowth
  <2>3. BaseA'
    BY Zenon, <2>1, BaseKept DEF BaseA
  <2>4. BatchA(e)' /\ WriterA(w)' /\ EmbeddedA(b)'
    BY ZenonT(20), <2>2, BatchLifts, WriterLifts, EmbeddedLifts
  <2>5. TornInv(node'[n], e) /\ \A m \in Nodes \ {n} : node'[m] = node[m]
    OBVIOUS
  <2>6. ExecA'
    BY Zenon, <2>1, <2>2, <2>4, <2>5, ExecStep
  <2>7. CallsA'
    BY ZenonT(20), <2>1, <2>2, CallsKept
  <2> QED
    BY Zenon, <2>3, <2>6, <2>7 DEF AInv
<1>WriterTakeA.
    ASSUME AInv, NEW n \in Nodes, WriterTake(n),
           UNCHANGED <<read, floor, task, gate, client>>
    PROVE  AInv'
  <2> USE <1>WriterTakeA
  <2>1. PICK k \in 1 .. Min({Len(queue[n]), WriterBatchMax}) :
            /\ Begin(n, "http", SubSeq(queue[n], 1, k))
            /\ writer' = [writer EXCEPT ![n] = [IdleWriter EXCEPT !.stage = "running",
                                                         !.batch = SubSeq(queue[n], 1, k)]]
            /\ queue' = [queue EXCEPT ![n] = SubSeq(queue[n], k + 1, Len(queue[n]))]
    BY Zenon DEF WriterTake
  <2>2. UNCHANGED <<request, handler, embedded, archived, profile, node, log>>
    BY Zenon, <2>1 DEF WriterTake, Begin
  <2>3. PICK q : q = queue[n]
    OBVIOUS
  <2>4. q \in Seq(Request) /\ Len(q) \in Nat
    BY <2>3 DEF AInv, ExecA
  <2>5. k \in Nat /\ k >= 1 /\ k <= Len(q)
    <3>1. WriterBatchMax \in Nat
      BY Zenon, BatchAssumption
    <3>2. {Len(q), WriterBatchMax} \in SUBSET Nat
      BY Zenon, <2>4, <3>1
    <3>3. /\ Min({Len(q), WriterBatchMax}) \in {Len(q), WriterBatchMax}
          /\ Min({Len(q), WriterBatchMax}) <= Len(q)
      BY <3>2, LeastExists
    <3>4. k \in 1 .. Min({Len(q), WriterBatchMax})
      BY <2>1, <2>3
    <3> QED
      BY <2>4, <3>1, <3>3, <3>4
  <2>6. PICK M : M = SubSeq(q, 1, k)
    BY Zenon
  <2>7. M \in Seq(Request) /\ Len(M) = k /\ SubSeq(q, k + 1, Len(q)) \in Seq(Request)
    BY <2>4, <2>5, <2>6
  <2>8. M # <<>>
    BY <2>5, <2>7
  <2>9. Begin(n, "http", M)
    BY ZenonT(20), <2>1, <2>3, <2>6
  <2>10. PICK v : /\ exec' = [exec EXCEPT ![n] = v]
                  /\ BatchA(v) /\ TornInv(node[n], v)
                  /\ IsBatch(v) /\ v.owner = "http" /\ v.members = M
    BY <2>7, <2>9, <1>BeginA
  <2>11. PICK w, b : w = [IdleWriter EXCEPT !.stage = "running", !.batch = M] /\ b = embedded
    OBVIOUS
  <2>12. /\ w.stage = "running" /\ w.batch = M
         /\ w \in [stage : {w.stage}, batch : {w.batch}, results : {w.results}]
    BY Zenon, <2>11, IdleWriterA
  <2>13. WriterA(w) /\ writer' = [writer EXCEPT ![n] = w]
    BY ZenonT(30), <2>1, <2>3, <2>6, <2>7, <2>8, <2>11, <2>12 DEF WriterA
  <2>14. embedded' = b /\ EmbeddedA(b) /\ \A m \in Nodes : OwnerA(m, exec[m], writer[m], b)
    BY Zenon, <2>2, <2>11 DEF AInv, ExecA
  <2>15. OwnerA(n, v, w, b)
    BY ZenonT(20), <2>10, <2>12 DEF OwnerA
  <2>16. queue' \in [Nodes -> Seq(Request)]
    <3>1. queue' = [queue EXCEPT ![n] = SubSeq(q, k + 1, Len(q))]
      BY <2>1, <2>3
    <3> QED
      BY <2>7, <3>1 DEF AInv, ExecA
  <2> QED
    BY Zenon, <2>2, <2>10, <2>13, <2>14, <2>15, <2>16, <1>HandOverA
<1>WriterReturnsA.
    ASSUME AInv, NEW n \in Nodes, WriterReturns(n),
           UNCHANGED <<read, floor, task, gate, client>>
    PROVE  AInv'
  <2> USE <1>WriterReturnsA
  <2>1. PICK x, R : x = writer[n] /\ R = ResultsOf(n)
    OBVIOUS
  <2>2. /\ x.stage = "running" /\ exec[n].owner = "http" /\ exec[n].mode = "batch"
        /\ writer' = [writer EXCEPT ![n] = [x EXCEPT !.stage = "confirm", !.results = R]]
        /\ exec' = [exec EXCEPT ![n] = Free]
        /\ UNCHANGED <<request, handler, queue, embedded, archived, profile, node, log>>
    BY Zenon, <2>1 DEF WriterReturns, Finished
  <2>3. IsBatch(exec[n])
    BY <2>2 DEF IsBatch
  <2>4. WriterA(x) /\ x.batch = exec[n].members
    BY Zenon, <2>1, <2>2, <2>3 DEF AInv, ExecA, OwnerA
  <2>5. /\ x.batch \in Seq(Request) /\ R \in Seq(Outcome) /\ Len(R) = Len(x.batch)
        /\ \A i \in 1 .. Len(x.batch) : TrueResult(x.batch[i], R[i])
    BY Zenon, <2>1, <2>3, <2>4, <1>ResultsOfA
  <2>6. PICK w, b, e : /\ w = [x EXCEPT !.stage = "confirm", !.results = R] /\ b = embedded
                       /\ e = Free
    OBVIOUS
  <2>7. /\ w.stage = "confirm" /\ w.batch = x.batch /\ w.results = R
        /\ w \in [stage : {w.stage}, batch : Seq(Request), results : {w.results}]
    BY Zenon, <2>4, <2>6 DEF WriterA
  <2>8. WriterA(w) /\ writer' = [writer EXCEPT ![n] = w]
    <3>1. x.batch # <<>>
      BY <2>2, <2>4 DEF WriterA
    <3> QED
      BY Zenon, <2>2, <2>5, <2>6, <2>7, <3>1 DEF WriterA
  <2>9. /\ embedded' = b /\ EmbeddedA(b) /\ \A m \in Nodes : OwnerA(m, exec[m], writer[m], b)
        /\ queue' \in [Nodes -> Seq(Request)]
    BY <2>2, <2>6 DEF AInv, ExecA
  <2>10. BatchA(e) /\ OwnerA(n, e, w, b) /\ TornInv(node[n], e) /\ exec' = [exec EXCEPT ![n] = e]
    BY ZenonT(20), <2>2, <2>6, QuietA, InvAt DEF OwnerA, TornInv
  <2> QED
    BY Zenon, <2>2, <2>8, <2>9, <2>10, <1>HandOverA
<1>EmbeddedReturnsA.
    ASSUME AInv, NEW n \in Nodes, EmbeddedReturns(n),
           UNCHANGED <<read, floor, task, gate, client>>
    PROVE  AInv'
  <2> USE <1>EmbeddedReturnsA
  <2>1. PICK x, R, s : /\ x = embedded /\ R = ResultsOf(n)
                       /\ s = IF profile = "sql" THEN "confirm" ELSE "returned"
    OBVIOUS
  <2>2. /\ x.stage = "running" /\ exec[n].owner = "embedded" /\ exec[n].mode = "batch"
        /\ embedded' = [x EXCEPT !.stage = s, !.results = R]
        /\ exec' = [exec EXCEPT ![n] = Free]
        /\ UNCHANGED <<request, handler, queue, writer, archived, profile, node, log>>
    BY <2>1 DEF EmbeddedReturns, Finished
  <2>3. IsBatch(exec[n])
    BY <2>2 DEF IsBatch
  <2>4. EmbeddedA(x) /\ x.members = exec[n].members /\ x.at = n
    BY Zenon, <2>1, <2>2, <2>3 DEF AInv, ExecA, OwnerA
  <2>5. /\ x.members \in Seq(Request) /\ R \in Seq(Outcome) /\ Len(R) = Len(x.members)
        /\ \A i \in 1 .. Len(x.members) : TrueResult(x.members[i], R[i])
    BY Zenon, <2>1, <2>3, <2>4, <1>ResultsOfA
  <2>6. PICK w, b, e : /\ b = [x EXCEPT !.stage = s, !.results = R] /\ w = writer[n]
                       /\ e = Free
    OBVIOUS
  <2>7. /\ b.stage \in {"confirm", "returned"} /\ b.members = x.members /\ b.results = R
        /\ b.at = n
        /\ b \in [stage : {b.stage}, at : {b.at}, members : Seq(Request), results : {b.results}]
    BY Zenon, <2>1, <2>4, <2>6 DEF EmbeddedA
  <2>8. DOMAIN R = 1 .. Len(x.members) /\ DOMAIN x.members = 1 .. Len(x.members)
    BY <2>5
  <2>9. EmbeddedA(b) /\ embedded' = b
    BY Zenon, <2>2, <2>5, <2>6, <2>7, <2>8 DEF EmbeddedA
  <2>10. WriterA(w) /\ writer' = [writer EXCEPT ![n] = w] /\ queue' \in [Nodes -> Seq(Request)]
    BY Zenon, <2>2, <2>6, Itself DEF AInv, ExecA
  <2>11. BatchA(e) /\ OwnerA(n, e, w, b) /\ TornInv(node[n], e) /\ exec' = [exec EXCEPT ![n] = e]
    BY ZenonT(20), <2>2, <2>6, QuietA, InvAt DEF OwnerA, TornInv
  <2>12. \A m \in Nodes \ {n} : OwnerA(m, exec[m], writer[m], b)
    BY <2>1, <2>4 DEF AInv, ExecA, OwnerA
  <2> QED
    BY Zenon, <2>2, <2>9, <2>10, <2>11, <2>12, <1>HandOverA
<1>EmbeddedBatchA.
    ASSUME AInv, NEW n \in Nodes, EmbeddedBatch(n),
           UNCHANGED <<read, floor, task, gate, client>>
    PROVE  AInv'
  <2> USE <1>EmbeddedBatchA
  <2>1. PICK x : x = embedded
    OBVIOUS
  <2>2. PICK M \in TypedBatches :
            /\ Begin(n, "embedded", M)
            /\ embedded' = [x EXCEPT !.stage = "running", !.at = n, !.members = M]
    BY Zenon, <2>1 DEF EmbeddedBatch
  <2>3. /\ x.stage = "idle"
        /\ UNCHANGED <<request, handler, queue, writer, archived, profile, node, log>>
    BY <2>1, <2>2 DEF EmbeddedBatch, Begin
  <2>4. M \in Seq(Request)
    BY BatchAssumption
  <2>5. PICK v : /\ exec' = [exec EXCEPT ![n] = v]
                 /\ BatchA(v) /\ TornInv(node[n], v)
                 /\ IsBatch(v) /\ v.owner = "embedded" /\ v.members = M
    BY <2>2, <2>4, <1>BeginA
  <2>6. PICK w, b : b = [x EXCEPT !.stage = "running", !.at = n, !.members = M] /\ w = writer[n]
    OBVIOUS
  <2>7. EmbeddedA(x)
    BY <2>1 DEF AInv, ExecA
  <2>8. /\ b.stage = "running" /\ b.at = n /\ b.members = M /\ b.results = x.results
        /\ b \in [stage : {b.stage}, at : {b.at}, members : {b.members}, results : {b.results}]
    BY Zenon, <2>6, <2>7 DEF EmbeddedA
  <2>9. b.results = <<>> /\ DOMAIN b.results = {}
    BY <2>3, <2>7, <2>8 DEF EmbeddedA
  <2>10. EmbeddedA(b) /\ embedded' = b
    BY Zenon, <2>2, <2>4, <2>6, <2>8, <2>9 DEF EmbeddedA
  <2>11. WriterA(w) /\ writer' = [writer EXCEPT ![n] = w] /\ queue' \in [Nodes -> Seq(Request)]
    BY Zenon, <2>3, <2>6, Itself DEF AInv, ExecA
  <2>12. OwnerA(n, v, w, b)
    BY Zenon, <2>5, <2>8 DEF OwnerA
  <2>13. \A m \in Nodes \ {n} : OwnerA(m, exec[m], writer[m], b)
    BY Zenon, <2>1, <2>3 DEF AInv, ExecA, OwnerA
  <2> QED
    BY Zenon, <2>3, <2>5, <2>10, <2>11, <2>12, <2>13, <1>HandOverA
<1>1. UNCHANGED <<read, floor, task, gate, client>>
  BY DEF WriterStep, EmbeddedStep, readVars, adminVars
<1>2. PICK n \in Nodes : WriterTake(n) \/ WriterReturns(n) \/ EmbeddedReturns(n) \/ EmbeddedBatch(n)
  BY DEF WriterStep, EmbeddedStep
<1>3. CASE WriterTake(n)
  BY Zenon, <1>1, <1>3, <1>WriterTakeA
<1>4. CASE WriterReturns(n)
  BY Zenon, <1>1, <1>4, <1>WriterReturnsA
<1>5. CASE EmbeddedReturns(n)
  BY <1>1, <1>5, <1>EmbeddedReturnsA
<1>6. CASE EmbeddedBatch(n)
  BY <1>1, <1>6, <1>EmbeddedBatchA
<1> QED
  BY Zenon, <1>2, <1>3, <1>4, <1>5, <1>6

-----------------------------------------------------------------------------
(* Handlers and the tasks of reads *)

LEMMA HandlerIs ==
    ASSUME NEW s, NEW a
    PROVE  Handler(s, a).state = s /\ Handler(s, a).answer = a
BY DEF Handler

LEMMA AnsweredIsA ==
    ASSUME NEW c, NEW a, TrueAnswer(c, a)
    PROVE  HandlerA(c, Handler("answered", a))
<1>1. ~Waiting(Handler("answered", a))
  BY HandlerIs DEF Waiting
<1> QED
  BY <1>1, HandlerIs DEF HandlerA

LEMMA FailedIsA ==
    ASSUME Len(log) \in Nat, NEW c, NEW kind \in Kinds \ {"ok"}
    PROVE  HandlerA(c, Handler("answered", Err(kind)))
BY Zenon, ErrorIsTrue, AnsweredIsA

LEMMA SilentIsA ==
    ASSUME Len(log) \in Nat, NEW c
    PROVE  /\ HandlerA(c, Gone) /\ Gone.state = "gone"
           /\ \A s : s \in {"sent", "reading"} => HandlerA(c, Handler(s, None))
           /\ request[c].id \in Ids =>
                 \A s : s \in {"joined", "owner"} => HandlerA(c, Handler(s, None))
<1>1. TrueAnswer(c, None)
  BY NoneIsTrue
<1>2. \A s : Handler(s, None).state = s /\ Handler(s, None).answer = None
  BY HandlerIs
<1>3. Gone = Handler("gone", None)
  BY DEF Gone
<1>4. \A s : s \in {"sent", "reading", "gone"} => HandlerA(c, Handler(s, None))
  BY Zenon, <1>1, <1>2 DEF HandlerA, Waiting
<1>5. request[c].id \in Ids => \A s : HandlerA(c, Handler(s, None))
  BY Zenon, <1>1, <1>2 DEF HandlerA
<1> QED
  BY Zenon, <1>2, <1>3, <1>4, <1>5

\* Handlers that were sent something, and tasks of reads, move on.
LEMMA CallsStep ==
    ASSUME CallsA, GrowA, UNCHANGED <<client, floor>>,
           handler' = [c \in Calls |-> [n \in Nodes |-> handler'[c][n]]],
           read' = [c \in Calls |-> [n \in Nodes |-> read'[c][n]]],
           \A c \in Calls, n \in Nodes :
              \/ handler'[c][n] = handler[c][n]
              \/ handler[c][n].state # "none" /\ HandlerA(c, handler'[c][n]),
           \A c \in Calls, n \in Nodes :
              \/ read'[c][n] = read[c][n]
              \/ /\ \/ handler[c][n].state # "none"
                    \/ read[c][n].stage # "none"
                    \/ read'[c][n].stage = "none"
                 /\ ReadA(c, read'[c][n])
    PROVE  CallsA'
<1>1. ASSUME NEW c \in Calls
      PROVE  floor'[c] <= Len(log') /\ CallA(c, client[c], handler[c], read[c])'
  <2>1. floor[c] \in Nat /\ floor[c] <= Len(log) /\ CallA(c, client[c], handler[c], read[c])
    BY Zenon DEF CallsA
  <2>2. floor'[c] <= Len(log') /\ floor'[c] = floor[c]
    BY <2>1 DEF GrowA
  <2>3. PICK k : k = client[c]
    OBVIOUS
  <2>4. /\ k \in [state : {k.state}, next : {k.next}, open : {k.open}, result : Outcome]
        /\ TrueAnswer(c, k.result)
        /\ client'[c] = k
    BY Zenon, <2>1, <2>3 DEF CallA
  <2>5. TrueAnswer(c, k.result)'
    BY Zenon, <2>2, <2>4, AnswerLifts
  <2>6. ASSUME NEW n \in Nodes
        PROVE  HandlerA(c, handler[c][n])' /\ ReadA(c, read[c][n])'
    <3>1. PICK h, t : h = handler'[c][n] /\ t = read'[c][n]
      OBVIOUS
    <3>2. HandlerA(c, h) /\ ReadA(c, t)
      BY Zenon, <2>1, <3>1 DEF CallA
    <3>3. HandlerA(c, h)' /\ ReadA(c, t)'
      BY Zenon, <2>2, <3>2, HandlerLifts, ReadLifts
    <3> QED
      BY Zenon, <3>1, <3>3
  <2>7. ASSUME k.state = "idle"
        PROVE  /\ k.open = {} /\ k.result.kind # "ok"
               /\ \A n \in Nodes : /\ handler'[c][n].state = "none"
                                   /\ handler'[c][n].answer.kind # "ok"
                                   /\ read'[c][n].stage = "none"
    BY Zenon, <2>1, <2>3, <2>7 DEF CallA
  <2> QED
    BY Zenon, <2>2, <2>4, <2>5, <2>6, <2>7 DEF CallA
<1>2. client' = [c \in Calls |-> client'[c]] /\ floor' \in [Calls -> Nat]
  BY DEF CallsA
<1> QED
  BY Zenon, <1>1, <1>2 DEF CallsA

\* What the steps of a handler leave alone.
AsideA ==
    /\ UNCHANGED <<log, archived, request, profile, node, task, gate>>
    /\ UNCHANGED <<exec, writer, embedded, client, floor>>

LEMMA AsideKept ==
    ASSUME AInv, AsideA, queue' \in [Nodes -> Seq(Request)]
    PROVE  BaseA' /\ ExecA' /\ GrowA
<1>1. BaseA /\ ExecA
  BY Zenon DEF AInv
<1>2. GrowA
  BY Zenon, <1>1, NoGrowth DEF AsideA
<1>3. BaseA'
  BY Zenon, <1>1, BaseKept DEF BaseA, AsideA
<1>4. ExecA'
  BY Zenon, <1>1, <1>2, ExecSame DEF AsideA
<1> QED
  BY Zenon, <1>2, <1>3, <1>4

\* One handler moves on.
LEMMA OneHandlerA ==
    ASSUME AInv, NEW c \in Calls, NEW n \in Nodes, NEW x,
           handler' = [handler EXCEPT ![c][n] = x],
           handler[c][n].state # "none", HandlerA(c, x),
           AsideA, UNCHANGED read, queue' \in [Nodes -> Seq(Request)]
    PROVE  AInv'
<1>1. BaseA' /\ ExecA' /\ GrowA
  BY Zenon, AsideKept
<1>2. CallsA
  BY DEF AInv
<1>3. /\ handler' = [d \in Calls |-> [m \in Nodes |-> handler'[d][m]]]
      /\ handler'[c][n] = x
      /\ \A d \in Calls, m \in Nodes : d # c \/ m # n => handler'[d][m] = handler[d][m]
  BY ZenonT(30), <1>2 DEF CallsA
<1>4. read' = [d \in Calls |-> [m \in Nodes |-> read'[d][m]]]
  BY <1>2 DEF CallsA
<1>5. ASSUME NEW d \in Calls, NEW m \in Nodes
      PROVE  \/ handler'[d][m] = handler[d][m]
             \/ handler[d][m].state # "none" /\ HandlerA(d, handler'[d][m])
  <2>1. CASE d = c /\ m = n
    <3>1. handler'[d][m] = x /\ (HandlerA(c, x) => HandlerA(d, x))
      BY Zenon, <1>3, <2>1
    <3>2. x = handler[d][m] \/ (handler[d][m].state # "none" /\ HandlerA(d, x))
      BY Zenon, <2>1, <3>1
    <3> QED
      BY <3>1, <3>2
  <2>2. CASE d # c \/ m # n
    BY Zenon, <1>3, <2>2
  <2> QED
    BY <2>1, <2>2
<1>6. CallsA'
  BY Zenon, <1>1, <1>2, <1>3, <1>4, <1>5, CallsStep DEF AsideA
<1> QED
  BY Zenon, <1>1, <1>6 DEF AInv

-----------------------------------------------------------------------------
(* The steps of the HTTP service *)

\* What the steps of the HTTP service leave alone.
HttpFrame == UNCHANGED <<log, profile, node, exec, floor, read, task, gate, client>>

-----------------------------------------------------------------------------
(* The embedded handle archives *)

LEMMA ArchivesMore ==
    ASSUME archived \in Nat, NEW k \in Nat, archived' = Max({archived, k})
    PROVE  archived' \in Nat /\ archived' >= archived
<1>1. PICK T, b : T = {archived, k} /\ b = archived + k
  OBVIOUS
<1>2. b \in Nat /\ T \in SUBSET (0 .. b) /\ T # {}
  BY <1>1
<1>3. Max(T) \in T /\ \A y \in T : Max(T) >= y
  BY Zenon, <1>2, GreatestExists
<1> QED
  BY Zenon, <1>1, <1>3

LEMMA HttpStepA ==
    ASSUME AInv, HttpStep
    PROVE  AInv'
<1>TurnedAwayA.
    ASSUME AInv, HttpFrame, NEW c \in Calls, NEW n \in Nodes, NEW kind \in Kinds \ {"ok"},
           Answered(c, n, Err(kind)), handler[c][n].state # "none",
           UNCHANGED <<request, queue, writer, embedded, archived>>
    PROVE  AInv'
  <2> USE <1>TurnedAwayA
  <2>1. PICK x : x = Handler("answered", Err(kind))
    OBVIOUS
  <2>2. HandlerA(c, x)
    BY Zenon, <2>1, FailedIsA, InvAt
  <2>3. handler' = [handler EXCEPT ![c][n] = x]
    BY ZenonT(20), <2>1 DEF Answered
  <2>4. AsideA /\ UNCHANGED read /\ queue' \in [Nodes -> Seq(Request)]
    BY DEF AsideA, HttpFrame, AInv, ExecA
  <2> QED
    BY Zenon, <2>2, <2>3, <2>4, OneHandlerA
<1>RefuseA.
    ASSUME AInv, HttpFrame, NEW c \in Calls, NEW n \in Nodes,
           Refuse(c, n) \/ Unready(c, n) \/ HandlerTimeout(c, n)
    PROVE  AInv'
  <2> USE <1>RefuseA
  <2>1. /\ UNCHANGED <<request, queue, writer, embedded, archived>>
        /\ handler[c][n].state # "none"
        /\ Answered(c, n, Err("fatal")) \/ Answered(c, n, Err("retry"))
    BY DEF Refuse, Unready, HandlerTimeout, Waiting
  <2>2. "fatal" \in Kinds \ {"ok"} /\ "retry" \in Kinds \ {"ok"}
    BY DEF Kinds
  <2> QED
    BY ZenonT(30), <2>1, <2>2, <1>TurnedAwayA
<1>DisconnectA.
    ASSUME AInv, HttpFrame, NEW c \in Calls, NEW n \in Nodes, Disconnect(c, n)
    PROVE  AInv'
  <2> USE <1>DisconnectA
  <2>1. PICK x : x = Gone
    OBVIOUS
  <2>2. /\ handler' = [handler EXCEPT ![c][n] = x] /\ handler[c][n].state # "none"
        /\ UNCHANGED <<request, queue, writer, embedded, archived>>
    BY Zenon, <2>1 DEF Disconnect, Waiting
  <2>3. HandlerA(c, x)
    BY Zenon, <2>1, SilentIsA, InvAt
  <2>4. AsideA /\ UNCHANGED read /\ queue' \in [Nodes -> Seq(Request)]
    BY Zenon, <2>2 DEF AsideA, HttpFrame, AInv, ExecA
  <2> QED
    BY Zenon, <2>2, <2>3, <2>4, OneHandlerA
<1>AdmitA.
    ASSUME AInv, HttpFrame, NEW c \in Calls, NEW n \in Nodes, Admit(c, n)
    PROVE  AInv'
  <2> USE <1>AdmitA
  <2>1. /\ handler[c][n].state = "sent" /\ request[c].id \in Ids
        /\ UNCHANGED <<request, writer, embedded, archived>>
    BY Zenon DEF Admit
  <2>2. request[c] \in Request
    BY ZenonT(20), <2>1 DEF AInv, BaseA
  <2>3. CASE UNCHANGED queue /\ (Answered(c, n, Err("invalid")) \/ Answered(c, n, Err("conflict")))
    <3>1. "invalid" \in Kinds \ {"ok"} /\ "conflict" \in Kinds \ {"ok"}
      BY DEF Kinds
    <3> QED
      BY Zenon, <2>1, <2>3, <3>1, <1>TurnedAwayA
  <2>4. ASSUME NEW s \in {"joined", "owner"}, handler' = [handler EXCEPT ![c][n] = Handler(s, None)],
               queue' \in [Nodes -> Seq(Request)]
        PROVE  AInv'
    <3>1. PICK x : x = Handler(s, None)
      OBVIOUS
    <3>2. HandlerA(c, x)
      BY ZenonT(30), <2>1, <3>1, SilentIsA, InvAt
    <3>3. AsideA /\ UNCHANGED read /\ handler[c][n].state # "none"
      BY Zenon, <2>1 DEF AsideA, HttpFrame
    <3> QED
      BY Zenon, <2>4, <3>1, <3>2, <3>3, OneHandlerA
  <2>5. queue \in [Nodes -> Seq(Request)]
    BY DEF AInv, ExecA
  <2>6. CASE UNCHANGED queue /\ handler' = [handler EXCEPT ![c][n] = Handler("joined", None)]
    BY Zenon, <2>4, <2>5, <2>6
  <2>7. CASE /\ queue' = [queue EXCEPT ![n] = Append(@, request[c])]
             /\ handler' = [handler EXCEPT ![c][n] = Handler("owner", None)]
    <3>1. Append(queue[n], request[c]) \in Seq(Request)
      BY <2>2, <2>5
    <3>2. queue' \in [Nodes -> Seq(Request)]
      BY Zenon, <2>5, <2>7, <3>1
    <3> QED
      BY Zenon, <2>4, <2>7, <3>2
  <2> QED
    BY Zenon, <2>3, <2>6, <2>7 DEF Admit
\* confirm_write_durability: the highest index, so every index.
<1>ConfirmIs.
    ASSUME Len(log) \in Nat, archived \in Nat, NEW R,
           \A i \in DOMAIN R : R[i] \in Outcome /\ R[i].index <= Len(log), Confirm(R)
    PROVE  /\ archived' \in Nat /\ archived' >= archived
           /\ \A i \in DOMAIN R : Archived(R[i])'
  <2> USE <1>ConfirmIs
  <2>1. PICK S : S = CommittedIndexes(R)
    OBVIOUS
  <2>2. \A i \in DOMAIN R : R[i].kind = "ok" => R[i].index \in S
    BY Zenon, <2>1 DEF CommittedIndexes
  <2>3. archived' = IF S = {} THEN archived ELSE Max(S \cup {archived})
    BY Zenon, <2>1 DEF Confirm
  <2>4. CASE S = {}
    BY <2>2, <2>3, <2>4 DEF Archived
  <2>5. CASE S # {}
    <3>1. PICK T, b : T = S \cup {archived} /\ b = Len(log) + archived
      BY Zenon
    <3>2. \A s \in S : s \in Nat /\ s <= Len(log)
      BY Zenon, <2>1 DEF CommittedIndexes, Outcome
    <3>3. b \in Nat /\ T \in SUBSET (0 .. b) /\ T # {}
      BY <3>1, <3>2
    <3>4. Max(T) \in T /\ \A y \in T : Max(T) >= y
      BY Zenon, <3>3, GreatestExists
    <3>5. archived' = Max(T) /\ archived' \in Nat
      <4>1. archived' = Max(T)
        BY Zenon, <2>3, <2>5, <3>1
      <4>2. \A y \in 0 .. b : y \in Nat
        BY <3>3
      <4>3. Max(T) \in 0 .. b
        BY Zenon, <3>3, <3>4
      <4> QED
        BY Zenon, <4>1, <4>2, <4>3
    <3>6. archived' >= archived
      BY Zenon, <3>1, <3>4, <3>5
    <3>7. ASSUME NEW i \in DOMAIN R, R[i].kind = "ok"
          PROVE  R[i].index <= archived'
      <4>1. R[i].index \in T /\ R[i].index \in Nat
        BY Zenon, <2>2, <3>1, <3>2, <3>7
      <4> QED
        BY Zenon, <3>4, <3>5, <4>1
    <3> QED
      BY <3>5, <3>6, <3>7 DEF Archived
  <2> QED
    BY Zenon, <2>4, <2>5
\* The writer task of node n moves on.
<1>WriterMovesA.
    ASSUME AInv, GrowA, NEW n \in Nodes, NEW w, writer' = [writer EXCEPT ![n] = w], WriterA(w)',
           writer[n].stage # "running", CallsA',
           UNCHANGED <<log, request, profile, node, task, gate, exec, queue, embedded>>
    PROVE  AInv'
  <2> USE <1>WriterMovesA
  <2>1. BaseA /\ ExecA
    BY Zenon DEF AInv
  <2>2. BaseA'
    BY ZenonT(20), <2>1, BaseKept DEF GrowA
  <2>3. PICK e, b : e = exec[n] /\ b = embedded
    OBVIOUS
  <2>4. /\ exec' = [exec EXCEPT ![n] = e] /\ BatchA(e) /\ embedded' = b /\ EmbeddedA(b)
        /\ queue' \in [Nodes -> Seq(Request)] /\ TornInv(node'[n], e)
        /\ \A m \in Nodes \ {n} : node'[m] = node[m] /\ OwnerA(m, exec[m], writer[m], b)
    BY <2>1, <2>3, Itself DEF ExecA
  <2>5. BatchA(e)' /\ EmbeddedA(b)'
    BY Zenon, <2>4, BatchLifts, EmbeddedLifts
  <2>6. OwnerA(n, e, w, b)
    BY <2>1, <2>3 DEF ExecA, OwnerA
  <2>7. ExecA'
    BY Zenon, <2>1, <2>4, <2>5, <2>6, ExecStep
  <2> QED
    BY Zenon, <2>2, <2>7 DEF AInv
<1>WriterConfirmsA.
    ASSUME AInv, HttpFrame, NEW n \in Nodes, WriterConfirms(n)
    PROVE  AInv'
  <2> USE <1>WriterConfirmsA
  <2>1. PICK x, w : x = writer[n] /\ w = [x EXCEPT !.stage = "deliver"]
    BY Zenon
  <2>2. /\ x.stage = "confirm" /\ writer' = [writer EXCEPT ![n] = w] /\ Confirm(x.results)
        /\ UNCHANGED <<request, handler, queue, embedded>>
    BY Zenon, <2>1 DEF WriterConfirms
  <2>3. WriterA(x) /\ archived \in Nat /\ Len(log) \in Nat
    BY Zenon, <2>1, InvAt DEF AInv, BaseA, ExecA
  <2>4. /\ x.results \in Seq(Outcome) /\ Len(x.results) = Len(x.batch) /\ x.batch # <<>>
        /\ \A i \in 1 .. Len(x.batch) : TrueResult(x.batch[i], x.results[i])
    BY Zenon, <2>2, <2>3 DEF WriterA
  <2>5. \A i \in DOMAIN x.results : x.results[i] \in Outcome /\ x.results[i].index <= Len(log)
    BY <2>4 DEF TrueResult
  <2>6. /\ archived' \in Nat /\ archived' >= archived
        /\ \A i \in DOMAIN x.results : Archived(x.results[i])'
    BY Zenon, <2>2, <2>3, <2>5, <1>ConfirmIs
  <2>7. GrowA
    BY <2>2, <2>3, <2>6 DEF GrowA, HttpFrame
  <2>8. /\ w.stage = "deliver" /\ w.batch = x.batch /\ w.results = x.results
        /\ w \in [stage : {w.stage}, batch : Seq(Request), results : {w.results}]
    BY Zenon, <2>1, <2>3 DEF WriterA
  <2>9. WriterA(w)'
    <3>1. \A i \in 1 .. Len(x.batch) : TrueResult(x.batch[i], x.results[i])'
      BY Zenon, <2>4, <2>7, ResultLifts
    <3>2. \A i \in 1 .. Len(x.batch) : Archived(x.results[i])'
      BY <2>4, <2>6
    <3> QED
      BY Zenon, <2>4, <2>8, <3>1, <3>2 DEF WriterA
  <2>10. CallsA'
    BY ZenonT(20), <2>2, <2>7, CallsKept DEF AInv, HttpFrame
  <2> QED
    BY Zenon, <2>1, <2>2, <2>7, <2>9, <2>10, <1>WriterMovesA DEF HttpFrame
<1>ConfirmFailsA.
    ASSUME AInv, HttpFrame, NEW n \in Nodes, ConfirmFails(n)
    PROVE  AInv'
  <2> USE <1>ConfirmFailsA
  <2>1. PICK x : x = writer[n]
    OBVIOUS
  <2>2. PICK R, w : R = Unconfirmed(x.results) /\ w = [x EXCEPT !.stage = "deliver", !.results = R]
    BY Zenon
  <2>3. /\ x.stage = "confirm" /\ writer' = [writer EXCEPT ![n] = w]
        /\ UNCHANGED <<request, handler, queue, embedded, archived>>
    BY Zenon, <2>1, <2>2 DEF ConfirmFails
  <2>4. WriterA(x) /\ Len(log) \in Nat /\ BaseA
    BY Zenon, <2>1, InvAt DEF AInv, ExecA
  <2>5. /\ x.results \in Seq(Outcome) /\ Len(x.results) = Len(x.batch) /\ x.batch # <<>>
        /\ Len(x.batch) \in Nat
        /\ \A i \in 1 .. Len(x.batch) : TrueResult(x.batch[i], x.results[i])
    BY <2>3, <2>4 DEF WriterA
  <2>6. R = [i \in 1 .. Len(x.batch) |->
               IF x.results[i].kind = "ok" THEN Err("retry") ELSE x.results[i]]
    BY <2>2, <2>5 DEF Unconfirmed
  <2>7. "retry" \in Kinds \ {"ok"}
    BY Zenon DEF Kinds
  <2>8. Err("retry") \in Outcome /\ Err("retry").kind # "ok" /\ \A r : TrueResult(r, Err("retry"))
    BY Zenon, <2>4, <2>7, ErrorIsTrue
  <2>9. \A i \in 1 .. Len(x.batch) :
           R[i] \in Outcome /\ TrueResult(x.batch[i], R[i]) /\ R[i].kind # "ok"
    BY <2>5, <2>6, <2>8
  <2>10. R \in Seq(Outcome) /\ Len(R) = Len(x.batch)
    <3>1. PICK k \in Nat : k = Len(x.batch)
      BY <2>5
    <3>2. R \in [1 .. k -> Outcome]
      BY Zenon, <2>6, <2>9, <3>1
    <3> QED
      BY <3>1, <3>2
  <2>11. /\ w.stage = "deliver" /\ w.batch = x.batch /\ w.results = R
         /\ w \in [stage : {w.stage}, batch : Seq(Request), results : {w.results}]
    BY Zenon, <2>2, <2>4 DEF WriterA
  <2>12. WriterA(w)
    BY Zenon, <2>5, <2>9, <2>10, <2>11 DEF WriterA, Archived
  <2>13. GrowA
    BY Zenon, <2>3, <2>4, NoGrowth DEF HttpFrame
  <2>14. WriterA(w)' /\ CallsA'
    BY ZenonT(20), <2>3, <2>12, <2>13, WriterLifts, CallsKept DEF AInv, HttpFrame
  <2> QED
    BY Zenon, <2>1, <2>3, <2>13, <2>14, <1>WriterMovesA DEF HttpFrame
<1>WriterDeliversA.
    ASSUME AInv, HttpFrame, NEW n \in Nodes, WriterDelivers(n)
    PROVE  AInv'
  <2> USE <1>WriterDeliversA
  <2>1. PICK x : x = writer[n]
    OBVIOUS
  <2>2. PICK r, a, w :
           /\ r = Head(x.batch) /\ a = Head(x.results)
           /\ w = IF Len(x.batch) = 1 THEN IdleWriter
                  ELSE [x EXCEPT !.batch = Tail(x.batch), !.results = Tail(x.results)]
    OBVIOUS
  <2>3. PICK W : W = {c \in Calls : request[c] = r /\ Waiting(handler[c][n])}
    BY Zenon
  <2>4. /\ x.stage = "deliver" /\ writer' = [writer EXCEPT ![n] = w]
        /\ handler' = [c \in Calls |-> IF c \in W
                          THEN [handler[c] EXCEPT ![n] = Handler("answered", a)]
                          ELSE handler[c]]
        /\ UNCHANGED <<request, queue, embedded, archived>>
    <3>1. writer[n].stage = "deliver" /\ UNCHANGED <<request, queue, embedded, archived>>
      BY DEF WriterDelivers
    <3>3. writer' = [writer EXCEPT ![n] = w]
      BY <2>1, <2>2 DEF WriterDelivers
    <3>4. handler' = [c \in Calls |-> IF c \in W
                          THEN [handler[c] EXCEPT ![n] = Handler("answered", a)]
                          ELSE handler[c]]
      BY Zenon, <2>1, <2>2, <2>3 DEF WriterDelivers
    <3> QED
      BY Zenon, <2>1, <3>1, <3>3, <3>4
  <2>5. WriterA(x) /\ Len(log) \in Nat /\ CallsA /\ BaseA
    BY Zenon, <2>1, InvAt DEF AInv, ExecA
  <2>6. /\ x.results \in Seq(Outcome) /\ Len(x.results) = Len(x.batch) /\ x.batch # <<>>
        /\ x.batch \in Seq(Request)
        /\ \A i \in 1 .. Len(x.batch) : TrueResult(x.batch[i], x.results[i]) /\ Archived(x.results[i])
    BY Zenon, <2>4, <2>5 DEF WriterA
  <2>7. TrueResult(r, a) /\ Archived(a)
    <3>1. 1 \in 1 .. Len(x.batch) /\ r = x.batch[1] /\ a = x.results[1]
      BY <2>2, <2>6
    <3> QED
      BY <2>6, <3>1
  <2>8. GrowA
    BY Zenon, <2>4, <2>5, NoGrowth DEF HttpFrame
  <2>9. WriterA(w)
    <3>1. CASE Len(x.batch) = 1
      BY ZenonT(20), <2>1, <2>2, <3>1, IdleWriterA
    <3>2. CASE Len(x.batch) # 1
      <4>1. PICK B, R : B = Tail(x.batch) /\ R = Tail(x.results)
        BY Zenon
      <4>2. Len(x.batch) \in Nat /\ Len(x.batch) # 0
        BY <2>6
      <4>3. /\ B \in Seq(Request) /\ Len(B) = Len(x.batch) - 1
            /\ R \in Seq(Outcome) /\ Len(R) = Len(x.batch) - 1
            /\ B # <<>>
        <5>1. x.results # <<>>
          BY Zenon, <2>6, <4>2
        <5>2. B \in Seq(Request) /\ Len(B) = Len(x.batch) - 1
          BY <2>6, <4>1
        <5>3. R \in Seq(Outcome) /\ Len(R) = Len(x.batch) - 1
          BY <2>6, <4>1, <5>1
        <5>4. Len(B) # 0
          BY <3>2, <4>2, <5>2
        <5>5. B = <<>> => Len(B) = 0
          BY SMTT(30)
        <5> QED
          BY Zenon, <5>2, <5>3, <5>4, <5>5
      <4>4. ASSUME NEW i \in 1 .. Len(B)
            PROVE  TrueResult(B[i], R[i]) /\ Archived(R[i])
        <5>1. B[i] = x.batch[i + 1] /\ R[i] = x.results[i + 1] /\ i + 1 \in 1 .. Len(x.batch)
          BY <2>6, <4>1, <4>2, <4>3
        <5> QED
          BY Zenon, <2>6, <5>1
      <4>5. /\ w.stage = "deliver" /\ w.batch = B /\ w.results = R
            /\ w \in [stage : {w.stage}, batch : Seq(Request), results : {w.results}]
        BY ZenonT(30), <2>1, <2>2, <2>4, <2>5, <3>2, <4>1, <4>3 DEF WriterA
      <4> QED
        BY <4>3, <4>4, <4>5 DEF WriterA
    <3> QED
      BY <3>1, <3>2
  <2>10. WriterA(w)'
    BY Zenon, <2>8, <2>9, WriterLifts
  <2>11. PICK h : h = Handler("answered", a)
    OBVIOUS
  <2>12. ASSUME NEW d \in W
         PROVE  HandlerA(d, h) /\ handler[d][n].state # "none"
    <3>1. d \in Calls /\ request[d] = r /\ Waiting(handler[d][n])
      BY Zenon, <2>3
    <3>2. HandlerA(d, handler[d][n])
      BY Zenon, <2>5, <3>1 DEF CallsA, CallA
    <3>3. request[d].id \in Ids /\ ~IsRead(request[d])
      BY ZenonT(20), <2>5, <3>1, <3>2 DEF HandlerA, BaseA
    <3>4. TrueAnswer(d, a)
      BY Zenon, <2>7, <3>1, <3>3 DEF TrueAnswer, TrueResult
    <3> QED
      BY Zenon, <2>11, <3>1, <3>4, AnsweredIsA DEF Waiting
  <2>13. /\ handler = [d \in Calls |-> [m \in Nodes |-> handler[d][m]]]
         /\ read = [d \in Calls |-> [m \in Nodes |-> read[d][m]]]
    BY Zenon, <2>5 DEF CallsA
  <2>14. ASSUME NEW d \in Calls
         PROVE  /\ handler'[d] = [m \in Nodes |-> handler'[d][m]]
                /\ \A m \in Nodes : \/ handler'[d][m] = handler[d][m]
                                     \/ (d \in W /\ m = n /\ handler'[d][m] = h)
    <3>1. handler[d] = [m \in Nodes |-> handler[d][m]]
      BY Zenon, <2>13
    <3>2. handler'[d] = IF d \in W THEN [handler[d] EXCEPT ![n] = h] ELSE handler[d]
      BY Zenon, <2>4, <2>11
    <3>3. CASE d \in W
      BY Zenon, <3>1, <3>2, <3>3
    <3>4. CASE d \notin W
      BY Zenon, <3>1, <3>2, <3>4
    <3> QED
      BY Zenon, <3>3, <3>4
  <2>15. handler' = [d \in Calls |-> [m \in Nodes |-> handler'[d][m]]]
    <3>1. handler' = [d \in Calls |-> handler'[d]]
      BY Zenon, <2>4
    <3> QED
      BY Zenon, <2>14, <3>1
  <2>16. \A d \in Calls, m \in Nodes :
            \/ handler'[d][m] = handler[d][m]
            \/ (handler[d][m].state # "none" /\ HandlerA(d, handler'[d][m]))
    <3> SUFFICES ASSUME NEW d \in Calls, NEW m \in Nodes, handler'[d][m] # handler[d][m]
                 PROVE  handler[d][m].state # "none" /\ HandlerA(d, handler'[d][m])
      OBVIOUS
    <3>1. d \in W /\ m = n /\ handler'[d][m] = h
      BY Zenon, <2>14
    <3> QED
      BY Zenon, <2>12, <3>1
  <2>17. CallsA'
    BY ZenonT(20), <2>5, <2>8, <2>13, <2>15, <2>16, CallsStep DEF HttpFrame
  <2> QED
    BY ZenonT(30), <2>1, <2>4, <2>8, <2>10, <2>17, <1>WriterMovesA DEF HttpFrame
<1>EmbeddedMovesA.
    ASSUME AInv, HttpFrame, GrowA, NEW b, embedded' = b, EmbeddedA(b)',
           embedded.stage # "running", UNCHANGED <<request, handler, queue, writer>>
    PROVE  AInv'
  <2> USE <1>EmbeddedMovesA
  <2>1. BaseA /\ ExecA /\ CallsA
    BY Zenon DEF AInv
  <2>2. BaseA'
    BY Zenon, <2>1, BaseKept DEF GrowA, HttpFrame
  <2>3. \A n \in Nodes : OwnerA(n, exec[n], writer[n], b)
    BY Zenon, <2>1 DEF ExecA, OwnerA
  <2>4. queue' \in [Nodes -> Seq(Request)]
    BY <2>1 DEF ExecA
  <2>5. \A n \in Nodes : node'[n].torn = node[n].torn /\ node'[n].fatal = node[n].fatal
    BY Zenon DEF HttpFrame
  <2>6. ExecA'
    BY ZenonT(20), <2>1, <2>3, <2>4, <2>5, ExecFrame DEF HttpFrame
  <2>7. CallsA'
    BY <2>1, CallsKept DEF HttpFrame
  <2> QED
    BY Zenon, <2>2, <2>6, <2>7 DEF AInv
<1>EmbeddedConfirmsA.
    ASSUME AInv, HttpFrame, EmbeddedConfirms
    PROVE  AInv'
  <2> USE <1>EmbeddedConfirmsA
  <2>1. PICK x : x = embedded
    OBVIOUS
  <2>2. x.stage = "confirm" /\ UNCHANGED <<request, handler, queue, writer>>
    BY Zenon, <2>1 DEF EmbeddedConfirms
  <2>3. EmbeddedA(x) /\ archived \in Nat /\ Len(log) \in Nat /\ BaseA
    BY <2>1, LengthAt DEF AInv, BaseA, ExecA
  <2>4. CASE Confirm(x.results) /\ embedded' = [x EXCEPT !.stage = "done"]
    <3>1. \A i \in DOMAIN x.results : x.results[i] \in Outcome /\ x.results[i].index <= Len(log)
      BY <2>3 DEF EmbeddedA, TrueResult
    <3>2. /\ archived' \in Nat /\ archived' >= archived
          /\ \A i \in DOMAIN x.results : Archived(x.results[i])'
      BY Zenon, <2>3, <2>4, <3>1, <1>ConfirmIs
    <3>3. GrowA
      BY <2>2, <2>3, <3>2 DEF GrowA, HttpFrame
    <3>4. EmbeddedA(x)'
      BY <2>3, <3>3, EmbeddedLifts
    <3>5. PICK b : b = [x EXCEPT !.stage = "done"]
      BY Zenon
    <3>6. /\ b.stage = "done" /\ b.at = x.at /\ b.members = x.members /\ b.results = x.results
          /\ b \in [stage : {b.stage}, at : {b.at}, members : Seq(Request), results : {b.results}]
      BY Zenon, <2>3, <3>5 DEF EmbeddedA
    <3>7. EmbeddedA(b)'
      BY Zenon, <2>2, <3>2, <3>4, <3>6 DEF EmbeddedA
    <3> QED
      BY ZenonT(20), <2>1, <2>2, <2>4, <3>3, <3>5, <3>7, <1>EmbeddedMovesA
  <2>5. CASE UNCHANGED archived /\ embedded' = [x EXCEPT !.stage = "indeterminate", !.results = <<>>]
    <3>1. GrowA
      BY Zenon, <2>2, <2>3, <2>5, NoGrowth DEF HttpFrame
    <3>2. PICK b : b = [x EXCEPT !.stage = "indeterminate", !.results = <<>>]
      OBVIOUS
    <3>3. /\ b.stage = "indeterminate" /\ b.at = x.at /\ b.members = x.members /\ b.results = <<>>
          /\ b \in [stage : {b.stage}, at : {b.at}, members : Seq(Request), results : {b.results}]
      BY Zenon, <2>3, <3>2 DEF EmbeddedA
    <3>4. EmbeddedA(b)'
      BY <2>2, <2>3, <3>3 DEF EmbeddedA
    <3> QED
      BY Zenon, <2>1, <2>2, <2>5, <3>1, <3>2, <3>4, <1>EmbeddedMovesA
  <2> QED
    BY Zenon, <2>1, <2>4, <2>5 DEF EmbeddedConfirms
<1>EmbeddedShutdownA.
    ASSUME AInv, HttpFrame, EmbeddedShutdown
    PROVE  AInv'
  <2> USE <1>EmbeddedShutdownA
  <2>1. PICK x, k : x = embedded /\ k = node[embedded.at].applied
    OBVIOUS
  <2>2. PICK b : b = [x EXCEPT !.stage = "closed"]
    BY Zenon
  <2>3. /\ x.stage \in {"done", "indeterminate"} /\ archived' = Max({archived, k})
        /\ embedded' = b /\ UNCHANGED <<request, handler, queue, writer>>
    BY Zenon, <2>1, <2>2 DEF EmbeddedShutdown
  <2>4. EmbeddedA(x) /\ archived \in Nat /\ Len(log) \in Nat
    BY Zenon, <2>1, LengthAt DEF AInv, BaseA, ExecA
  <2>5. k \in Nat
    BY Zenon, <2>1, <2>3, <2>4 DEF AInv, BaseA, NodeA, NodeType, EmbeddedA
  <2>6. GrowA
    <3>1. archived' \in Nat /\ archived' >= archived
      BY Zenon, <2>3, <2>4, <2>5, ArchivesMore
    <3> QED
      BY <2>3, <2>4, <3>1 DEF GrowA, HttpFrame
  <2>7. EmbeddedA(x)'
    BY Zenon, <2>4, <2>6, EmbeddedLifts
  <2>8. /\ b.stage = "closed" /\ b.at = x.at /\ b.members = x.members /\ b.results = x.results
        /\ b \in [stage : {b.stage}, at : {b.at}, members : Seq(Request), results : {b.results}]
    BY Zenon, <2>2, <2>4 DEF EmbeddedA
  <2>9. EmbeddedA(b)'
    BY <2>3, <2>7, <2>8 DEF EmbeddedA
  <2> QED
    BY Zenon, <2>1, <2>3, <2>6, <2>9, <1>EmbeddedMovesA
<1>1. HttpFrame
  BY DEF HttpStep, HttpFrame, logVars, executionVars, readVars, adminVars
<1>2. ASSUME NEW c \in Calls, NEW n \in Nodes,
             \/ Refuse(c, n) \/ Unready(c, n) \/ HandlerTimeout(c, n)
             \/ Admit(c, n) \/ Disconnect(c, n)
      PROVE  AInv'
  BY Zenon, <1>1, <1>2, <1>RefuseA, <1>AdmitA, <1>DisconnectA
<1>3. ASSUME NEW n \in Nodes, WriterConfirms(n) \/ WriterDelivers(n) \/ ConfirmFails(n)
      PROVE  AInv'
  BY Zenon, <1>1, <1>3, <1>WriterConfirmsA, <1>WriterDeliversA, <1>ConfirmFailsA
<1>4. CASE EmbeddedConfirms \/ EmbeddedShutdown
  BY Zenon, <1>1, <1>4, <1>EmbeddedConfirmsA, <1>EmbeddedShutdownA
<1> QED
  BY Zenon, <1>2, <1>3, <1>4 DEF HttpStep

-----------------------------------------------------------------------------
(* The steps of the reads *)

\* What the steps of the reads leave alone.
ReadFrame == UNCHANGED <<log, profile, node, exec, task, gate, client, floor,
                         request, queue, writer, embedded, archived>>

LEMMA ReadAt ==
    ASSUME AInv, NEW c \in Calls, NEW n \in Nodes
    PROVE  /\ ReadA(c, read[c][n]) /\ floor[c] \in Nat /\ floor[c] <= Len(log)
           /\ node[n].applied \in Nat /\ node[n].applied <= Len(log)
<1>1. floor[c] \in Nat /\ floor[c] <= Len(log) /\ CallA(c, client[c], handler[c], read[c])
  BY Zenon DEF AInv, CallsA
<1>2. NodeA(node[n])
  BY Zenon DEF AInv, BaseA
<1> QED
  BY Zenon, <1>1, <1>2 DEF CallA, NodeA, NodeType

LEMMA ReadStepA ==
    ASSUME AInv, ReadStep
    PROVE  AInv'
\* One task of a read moves on, and its handler with it.
<1>OneReadA.
    ASSUME AInv, NEW c \in Calls, NEW n \in Nodes, NEW x, NEW t,
           handler' = [handler EXCEPT ![c][n] = x],
           x = handler[c][n] \/ (handler[c][n].state # "none" /\ HandlerA(c, x)),
           read' = [read EXCEPT ![c][n] = t], ReadA(c, t),
           handler[c][n].state # "none" \/ read[c][n].stage # "none",
           AsideA, UNCHANGED queue
    PROVE  AInv'
  <2> USE <1>OneReadA
  <2>1. CallsA /\ queue' \in [Nodes -> Seq(Request)]
    BY ZenonT(20) DEF AInv, ExecA
  <2>2. BaseA' /\ ExecA' /\ GrowA
    BY <2>1, AsideKept
  <2>3. /\ handler' = [d \in Calls |-> [m \in Nodes |-> handler'[d][m]]]
        /\ handler'[c][n] = x
        /\ \A d \in Calls, m \in Nodes : d # c \/ m # n => handler'[d][m] = handler[d][m]
    BY ZenonT(30), <2>1 DEF CallsA
  <2>4. /\ read' = [d \in Calls |-> [m \in Nodes |-> read'[d][m]]]
        /\ read'[c][n] = t
        /\ \A d \in Calls, m \in Nodes : d # c \/ m # n => read'[d][m] = read[d][m]
    BY Zenon, <2>1 DEF CallsA
  <2>5. ASSUME NEW d \in Calls, NEW m \in Nodes
        PROVE  \/ handler'[d][m] = handler[d][m]
               \/ handler[d][m].state # "none" /\ HandlerA(d, handler'[d][m])
    <3>1. CASE d = c /\ m = n
      <4>1. handler'[d][m] = x /\ (HandlerA(c, x) => HandlerA(d, x))
        BY Zenon, <2>3, <3>1
      <4>2. x = handler[d][m] \/ (handler[d][m].state # "none" /\ HandlerA(d, x))
        BY Zenon, <3>1, <4>1
      <4> QED
        BY Zenon, <4>1, <4>2
    <3>2. CASE d # c \/ m # n
      BY Zenon, <2>3, <3>2
    <3> QED
      BY <3>1, <3>2
  <2>6. ASSUME NEW d \in Calls, NEW m \in Nodes
        PROVE  \/ read'[d][m] = read[d][m]
               \/ /\ \/ handler[d][m].state # "none"
                     \/ read[d][m].stage # "none"
                     \/ read'[d][m].stage = "none"
                  /\ ReadA(d, read'[d][m])
    <3>1. CASE d = c /\ m = n
      <4>1. read'[d][m] = t /\ ReadA(d, t)
        BY Zenon, <2>4, <3>1
      <4> QED
        BY Zenon, <3>1, <4>1
    <3>2. CASE d # c \/ m # n
      BY ZenonT(20), <2>4, <3>2
    <3> QED
      BY Zenon, <3>1, <3>2
  <2>7. CallsA'
    BY Zenon, <2>1, <2>2, <2>3, <2>4, <2>5, <2>6, CallsStep DEF AsideA
  <2> QED
    BY Zenon, <2>2, <2>7 DEF AInv
<1>LocalReadIsTrue.
    ASSUME AInv, NEW c \in Calls, NEW n \in Nodes, read[c][n].stage \in {"ready", "anchored"}
    PROVE  TrueAnswer(c, LocalRead(n, read[c][n].required))
  <2> USE <1>LocalReadIsTrue
  <2>1. /\ ReadA(c, read[c][n]) /\ floor[c] \in Nat /\ node[n].applied \in Nat
        /\ node[n].applied <= Len(log) /\ Len(log) \in Nat
    BY Zenon, ReadAt, InvAt
  <2>2. TrueAnswer(c, Err("fatal")) /\ TrueAnswer(c, Err("retry"))
    BY ZenonT(20), <2>1, ErrorIsTrue DEF Kinds
  <2>3. ASSUME node[n].applied >= read[c][n].required
        PROVE  TrueAnswer(c, Ok(node[n].applied))
    <3>1. PICK t, k : t = read[c][n] /\ k = node[n].applied
      OBVIOUS
    <3>2. /\ t.required \in Nat /\ IsRead(request[c])
          /\ request[c].payload \in {"applied", "barrier"} => t.required >= floor[c]
      BY Zenon, <2>1, <3>1 DEF ReadA
    <3>3. Ok(k).kind = "ok" /\ Ok(k).index = k /\ Ok(k) \in Outcome
      BY Zenon, <2>1, <3>1 DEF Ok, Result, Outcome, Kinds
    <3>4. Recent(c, Ok(k))
      BY SMTT(30), <2>1, <2>3, <3>1, <3>2, <3>3 DEF Recent
    <3> QED
      BY ZenonT(30), <2>1, <3>1, <3>2, <3>3, <3>4 DEF TrueAnswer
  <2>4. read[c][n].required \in Nat
    BY <2>1 DEF ReadA
  <2> QED
    BY SMTT(30), <2>1, <2>2, <2>3, <2>4 DEF LocalRead
<1>EndReadA.
    ASSUME AInv, ReadFrame, NEW c \in Calls, NEW n \in Nodes, NEW a, TrueAnswer(c, a),
           EndRead(c, n, a), read[c][n].stage # "none"
    PROVE  AInv'
  <2> USE <1>EndReadA
  <2>1. PICK x, t : /\ x = IF handler[c][n].state # "reading" THEN handler[c][n]
                           ELSE Handler("answered", a)
                    /\ t = NoTask
    OBVIOUS
  <2>2. handler = [handler EXCEPT ![c][n] = handler[c][n]]
    BY Zenon DEF AInv, CallsA
  <2>3. handler' = [handler EXCEPT ![c][n] = x] /\ read' = [read EXCEPT ![c][n] = t]
    <3>1. CASE handler[c][n].state # "reading"
      BY Zenon, <2>1, <2>2, <3>1 DEF EndRead
    <3>2. CASE handler[c][n].state = "reading"
      BY Zenon, <2>1, <3>2 DEF EndRead
    <3> QED
      BY Zenon, <3>1, <3>2
  <2>4. x = handler[c][n] \/ (handler[c][n].state # "none" /\ HandlerA(c, x))
    BY ZenonT(20), <2>1, AnsweredIsA
  <2>5. ReadA(c, t)
    BY <2>1 DEF ReadA, NoTask
  <2>6. AsideA /\ UNCHANGED queue
    BY Zenon DEF AsideA, ReadFrame
  <2> QED
    BY ZenonT(30), <2>3, <2>4, <2>5, <2>6, <1>OneReadA
\* A task that goes on leaves its handler alone.
<1>TaskGoesOnA.
    ASSUME AInv, ReadFrame, UNCHANGED handler, NEW c \in Calls, NEW n \in Nodes, NEW t,
           read' = [read EXCEPT ![c][n] = t], ReadA(c, t), read[c][n].stage # "none"
    PROVE  AInv'
  <2> USE <1>TaskGoesOnA
  <2>1. PICK x : x = handler[c][n]
    OBVIOUS
  <2>2. handler' = [handler EXCEPT ![c][n] = x]
    BY Zenon, <2>1 DEF AInv, CallsA
  <2>3. AsideA /\ UNCHANGED queue
    BY DEF AsideA, ReadFrame
  <2> QED
    BY Zenon, <2>1, <2>2, <2>3, <1>OneReadA
<1>AdmitReadA.
    ASSUME AInv, ReadFrame, NEW c \in Calls, NEW n \in Nodes, AdmitRead(c, n)
    PROVE  AInv'
  <2> USE <1>AdmitReadA
  <2>1. PICK x, t :
           /\ x = Handler("reading", None)
           /\ t = [stage |-> IF request[c].payload = "barrier" THEN "asked" ELSE "ready",
                   required |-> IF request[c].payload = "applied" THEN floor[c] ELSE 0]
    BY Zenon
  <2>2. /\ handler[c][n].state = "sent" /\ IsRead(request[c])
        /\ handler' = [handler EXCEPT ![c][n] = x] /\ read' = [read EXCEPT ![c][n] = t]
    BY <2>1 DEF AdmitRead
  <2>3. floor[c] \in Nat /\ Len(log) \in Nat
    BY Zenon, ReadAt, InvAt
  <2>4. HandlerA(c, x)
    BY ZenonT(30), <2>1, <2>3, SilentIsA
  <2>5. ReadA(c, t)
    BY <2>1, <2>2, <2>3 DEF ReadA
  <2>6. AsideA /\ UNCHANGED queue
    BY DEF AsideA, ReadFrame
  <2> QED
    BY Zenon, <2>2, <2>4, <2>5, <2>6, <1>OneReadA
<1>BarrierEstablishedA.
    ASSUME AInv, ReadFrame, NEW c \in Calls, NEW n \in Nodes, BarrierEstablished(c, n)
    PROVE  AInv'
  <2> USE <1>BarrierEstablishedA
  <2>1. PICK t : t = [stage |-> "anchored", required |-> node[n].applied]
    BY Zenon
  <2>2. /\ read[c][n].stage = "asked" /\ node[n].applied = Len(log) /\ UNCHANGED handler
        /\ read' = [read EXCEPT ![c][n] = t]
    BY Zenon, <2>1 DEF BarrierEstablished, httpVars
  <2>3. ReadA(c, read[c][n]) /\ floor[c] <= Len(log) /\ node[n].applied \in Nat
    BY Zenon, ReadAt
  <2>4. IsRead(request[c])
    BY Zenon, <2>2, <2>3 DEF ReadA
  <2>5. ReadA(c, t)
    BY Zenon, <2>1, <2>2, <2>3, <2>4 DEF ReadA
  <2> QED
    BY Zenon, <2>2, <2>5, <1>TaskGoesOnA
<1>BarrierValidatedA.
    ASSUME AInv, ReadFrame, NEW c \in Calls, NEW n \in Nodes, BarrierValidated(c, n)
    PROVE  AInv'
  <2> USE <1>BarrierValidatedA
  <2>1. read[c][n].stage = "anchored" /\ Len(log) \in Nat
    BY Zenon, InvAt DEF BarrierValidated
  <2>2. TrueAnswer(c, Err("fatal")) /\ TrueAnswer(c, Err("retry"))
    BY Zenon, <2>1, ErrorIsTrue DEF Kinds
  <2>3. CASE EndRead(c, n, Err("fatal")) \/ EndRead(c, n, Err("retry"))
    BY ZenonT(20), <2>1, <2>2, <2>3, <1>EndReadA
  <2>4. CASE read' = [read EXCEPT ![c][n].stage = "ready"] /\ UNCHANGED <<httpVars, floor>>
    <3>1. PICK s, t : s = read[c][n] /\ t = [s EXCEPT !.stage = "ready"]
      BY Zenon
    <3>2. read' = [read EXCEPT ![c][n] = t] /\ UNCHANGED handler
      BY <2>4, <3>1 DEF httpVars
    <3>3. ReadA(c, s) /\ s.stage = "anchored"
      BY ZenonT(20), <2>1, <3>1, ReadAt
    <3>4. ReadA(c, t)
      BY <3>1, <3>3 DEF ReadA
    <3> QED
      BY Zenon, <2>1, <3>2, <3>4, <1>TaskGoesOnA
  <2> QED
    BY Zenon, <2>3, <2>4 DEF BarrierValidated
<1>ReadReturnsA.
    ASSUME AInv, ReadFrame, NEW c \in Calls, NEW n \in Nodes,
           SqlReadReturns(c, n) \/ TypedReadReturns(c, n) \/ BarrierFails(c, n)
    PROVE  AInv'
  <2> USE <1>ReadReturnsA
  <2>1. Len(log) \in Nat
    BY Zenon, InvAt
  <2>2. TrueAnswer(c, Err("fatal")) /\ TrueAnswer(c, Err("retry"))
    BY <2>1, ErrorIsTrue DEF Kinds
  <2>3. CASE /\ read[c][n].stage \in {"ready", "anchored"}
             /\ \/ EndRead(c, n, Err("retry"))
                \/ EndRead(c, n, LocalRead(n, read[c][n].required))
    <3>1. read[c][n].stage # "none"
      BY Zenon, <2>3
    <3>2. TrueAnswer(c, LocalRead(n, read[c][n].required))
      BY Zenon, <2>3, <1>LocalReadIsTrue
    <3>3. CASE EndRead(c, n, Err("retry"))
      BY Zenon, <2>2, <3>1, <3>3, <1>EndReadA
    <3>4. CASE EndRead(c, n, LocalRead(n, read[c][n].required))
      BY Zenon, <3>1, <3>2, <3>4, <1>EndReadA
    <3> QED
      BY ZenonT(30), <2>3, <3>3, <3>4
  <2>4. CASE /\ read[c][n].stage = "asked"
             /\ EndRead(c, n, Err("fatal")) \/ EndRead(c, n, Err("retry"))
    BY Zenon, <2>2, <2>4, <1>EndReadA
  <2> QED
    BY Zenon, <2>3, <2>4 DEF SqlReadReturns, TypedReadReturns, BarrierFails
<1>1. /\ UNCHANGED <<log, profile, node, exec, task, gate, client>>
      /\ \E c \in Calls, n \in Nodes :
            \/ AdmitRead(c, n) \/ BarrierEstablished(c, n) \/ SqlReadReturns(c, n)
            \/ BarrierValidated(c, n) \/ TypedReadReturns(c, n) \/ ReaderLeaves(c, n)
            \/ BarrierFails(c, n)
  BY Zenon DEF ReadStep, logVars, executionVars, adminVars
<1>2. PICK c \in Calls, n \in Nodes :
         \/ AdmitRead(c, n) \/ BarrierEstablished(c, n) \/ SqlReadReturns(c, n)
         \/ BarrierValidated(c, n) \/ TypedReadReturns(c, n) \/ ReaderLeaves(c, n)
         \/ BarrierFails(c, n)
  BY Zenon, <1>1
<1>3. UNCHANGED <<request, queue, writer, embedded, archived, floor>>
  BY ZenonT(20), <1>2 DEF AdmitRead, BarrierEstablished, SqlReadReturns, BarrierValidated, TypedReadReturns,
              ReaderLeaves, BarrierFails, EndRead, httpVars, readVars
<1>4. ReadFrame
  BY <1>1, <1>3 DEF ReadFrame
<1>5. CASE ReaderLeaves(c, n)
  <2>1. PICK x : x = Gone
    OBVIOUS
  <2>2. /\ handler' = [handler EXCEPT ![c][n] = x] /\ handler[c][n].state # "none"
        /\ UNCHANGED <<read, queue>>
    BY <1>5, <2>1 DEF ReaderLeaves, readVars
  <2>3. HandlerA(c, x)
    BY ZenonT(30), <2>1, SilentIsA, InvAt
  <2>4. AsideA /\ queue' \in [Nodes -> Seq(Request)]
    BY <1>4, <2>2 DEF AsideA, ReadFrame, AInv, ExecA
  <2> QED
    BY Zenon, <2>2, <2>3, <2>4, OneHandlerA
<1> QED
  BY Zenon, <1>2, <1>4, <1>5, <1>AdmitReadA, <1>BarrierEstablishedA, <1>BarrierValidatedA, <1>ReadReturnsA

-----------------------------------------------------------------------------
(* The steps of the client *)

\* What the steps of the client leave alone.
ClientFrame ==
    /\ UNCHANGED <<log, archived, request, profile, node, task, gate>>
    /\ UNCHANGED <<exec, writer, embedded, queue, read>>

HandlersA(c, h) == h = [n \in Nodes |-> h[n]] /\ \A n \in Nodes : HandlerA(c, h[n])

ClientA(c, k) ==
    /\ k \in [state : {k.state}, next : {k.next}, open : {k.open}, result : Outcome]
    /\ TrueAnswer(c, k.result) /\ k.state # "idle"

LEMMA CallAt ==
    ASSUME AInv, NEW c \in Calls
    PROVE  /\ CallA(c, client[c], handler[c], read[c]) /\ HandlersA(c, handler[c])
           /\ client[c].state # "idle" => ClientA(c, client[c])
<1>1. CallA(c, client[c], handler[c], read[c]) /\ handler[c] = [n \in Nodes |-> handler[c][n]]
  BY Zenon DEF AInv, CallsA
<1> QED
  BY Zenon, <1>1 DEF CallA, HandlersA, ClientA

LEMMA ClientStepA ==
    ASSUME AInv, ClientStep
    PROVE  AInv'
\* A call moves on; what is acknowledged before it may only change as it starts.
<1>OneCallA.
    ASSUME AInv, ClientFrame, NEW c \in Calls, NEW k, NEW h,
           client' = [client EXCEPT ![c] = k], handler' = [handler EXCEPT ![c] = h],
           floor' \in [Calls -> Nat], floor'[c] <= Len(log),
           \A d \in Calls \ {c} : floor'[d] = floor[d],
           ClientA(c, k)', HandlersA(c, h)', \A n \in Nodes : ReadA(c, read[c][n])'
    PROVE  AInv'
  <2> USE <1>OneCallA
  <2>1. BaseA /\ ExecA /\ CallsA
    BY Zenon DEF AInv
  <2>2. GrowA /\ BaseA' /\ ExecA'
    <3>1. GrowA
      BY Zenon, <2>1, NoGrowth DEF ClientFrame
    <3>2. BaseA'
      BY ZenonT(30), <2>1, <3>1, BaseKept DEF ClientFrame, GrowA
    <3>3. ExecA'
      BY Zenon, <2>1, <3>1, ExecKept DEF ClientFrame
    <3> QED
      BY ZenonT(20), <3>1, <3>2, <3>3
  <2>3. CallA(c, client[c], handler[c], read[c])'
    <3>1. client'[c] = k /\ handler'[c] = h
      BY Zenon, <2>1 DEF CallsA
    <3>2. k.state # "idle"
      BY ZenonT(20) DEF ClientA
    <3>3. CallA(c, k, h, read[c])'
      BY <3>2 DEF CallA, ClientA, HandlersA
    <3> QED
      BY Zenon, <3>1, <3>3
  <2>4. ASSUME NEW d \in Calls \ {c}
        PROVE  floor'[d] <= Len(log) /\ CallA(d, client[d], handler[d], read[d])'
    <3>1. PICK x, y, t : x = client[d] /\ y = handler[d] /\ t = read[d]
      BY Zenon
    <3>2. CallA(d, x, y, t) /\ floor[d] <= Len(log) /\ floor'[d] = floor[d]
      BY Zenon, <2>1, <3>1 DEF CallsA
    <3>3. CallA(d, x, y, t)'
      BY ZenonT(30), <2>2, <3>2, CallLifts
    <3>4. client'[d] = x /\ handler'[d] = y /\ read'[d] = t
      BY <2>1, <3>1 DEF CallsA, ClientFrame
    <3> QED
      BY Zenon, <3>2, <3>3, <3>4
  <2>5. /\ client' = [d \in Calls |-> client'[d]]
        /\ read' = [d \in Calls |-> [n \in Nodes |-> read'[d][n]]]
    BY Zenon, <2>1 DEF CallsA, ClientFrame
  <2>6. handler' = [d \in Calls |-> [n \in Nodes |-> handler'[d][n]]]
    <3>1. h = [n \in Nodes |-> h[n]]
      BY Zenon DEF HandlersA
    <3>2. \A d \in Calls : handler[d] = [n \in Nodes |-> handler[d][n]]
      BY <2>1 DEF CallsA
    <3>3. handler' = [d \in Calls |-> handler'[d]] /\ handler'[c] = h
      BY Zenon, <2>1 DEF CallsA
    <3>4. \A d \in Calls \ {c} : handler'[d] = handler[d]
      BY <2>1 DEF CallsA
    <3>5. \A d \in Calls : handler'[d] = [n \in Nodes |-> handler'[d][n]]
      BY Zenon, <3>1, <3>2, <3>3, <3>4
    <3> QED
      BY Zenon, <3>3, <3>5
  <2>7. Len(log') = Len(log)
    BY Zenon DEF ClientFrame
  <2>8. CallsA'
    BY Zenon, <2>3, <2>4, <2>5, <2>6, <2>7 DEF CallsA
  <2> QED
    BY Zenon, <2>2, <2>8 DEF AInv
\* ... once it has started.
<1>CallGoesOnA.
    ASSUME AInv, ClientFrame, UNCHANGED floor, NEW c \in Calls, NEW k, NEW h,
           client' = [client EXCEPT ![c] = k], handler' = [handler EXCEPT ![c] = h],
           ClientA(c, k), HandlersA(c, h)
    PROVE  AInv'
  <2> USE <1>CallGoesOnA
  <2>1. GrowA
    BY NoGrowth DEF AInv, ClientFrame
  <2>2. floor \in [Calls -> Nat] /\ floor[c] <= Len(log)
    BY Zenon DEF AInv, CallsA
  <2>3. ClientA(c, k)'
    BY Zenon, <2>1, AnswerLifts DEF ClientA
  <2>4. \A n \in Nodes : HandlerA(c, h[n])'
    BY Zenon, <2>1, HandlerLifts DEF HandlersA
  <2>5. HandlersA(c, h)'
    BY Zenon, <2>4 DEF HandlersA
  <2>6. ASSUME NEW n \in Nodes
        PROVE  ReadA(c, read[c][n])'
    <3>1. PICK t : t = read[c][n]
      BY Zenon
    <3>2. ReadA(c, t)
      BY Zenon, <3>1, ReadAt
    <3>3. ReadA(c, t)'
      BY Zenon, <2>1, <3>2, ReadLifts
    <3> QED
      BY Zenon, <3>1, <3>3 DEF ClientFrame
  <2> QED
    BY ZenonT(30), <2>2, <2>3, <2>5, <2>6, <1>OneCallA
<1>SentA.
    ASSUME Len(log) \in Nat, NEW c, NEW h, HandlersA(c, h), NEW k
    PROVE  HandlersA(c, Sent(h, k))
  <2> USE <1>SentA
  <2>1. PICK x, m : x = Handler("sent", None) /\ m = Endpoints[k.next + 1]
    OBVIOUS
  <2>2. HandlerA(c, x)
    BY Zenon, <2>1, SilentIsA
  <2>3. PICK g : g = [h EXCEPT ![m] = x]
    BY Zenon
  <2>4. g = [n \in Nodes |-> IF n = m THEN x ELSE h[n]]
    BY <2>3 DEF HandlersA
  <2>5. HandlersA(c, g)
    BY Zenon, <2>2, <2>4 DEF HandlersA
  <2> QED
    BY Zenon, <2>1, <2>3, <2>5 DEF Sent
<1>LeftA.
    ASSUME Len(log) \in Nat, NEW c, NEW h, HandlersA(c, h)
    PROVE  /\ HandlersA(c, Abandoned(h))
           /\ \A n \in Nodes : HandlersA(c, [h EXCEPT ![n] = Gone])
  <2> USE <1>LeftA
  <2>1. PICK x : x = Gone
    OBVIOUS
  <2>2. HandlerA(c, x)
    BY Zenon, <2>1, SilentIsA
  <2>3. HandlersA(c, Abandoned(h))
    BY Zenon, <2>1, <2>2 DEF HandlersA, Abandoned
  <2>4. ASSUME NEW n \in Nodes
        PROVE  HandlersA(c, [h EXCEPT ![n] = Gone])
    BY Zenon, <2>1, <2>2 DEF HandlersA
  <2> QED
    BY Zenon, <2>3, <2>4
<1>SpawnedA.
    ASSUME NEW c, NEW k, ClientA(c, k)
    PROVE  ClientA(c, Spawned(k))
  <2> USE <1>SpawnedA
  <2>1. PICK j : j = Spawned(k)
    OBVIOUS
  <2>2. /\ j.state = k.state /\ j.result = k.result
        /\ j \in [state : {j.state}, next : {j.next}, open : {j.open}, result : Outcome]
    BY Zenon, <2>1 DEF Spawned, ClientA
  <2> QED
    BY ZenonT(20), <2>1, <2>2 DEF ClientA
<1>ReturnA.
    ASSUME AInv, ClientFrame, UNCHANGED floor, NEW c \in Calls, NEW h, HandlersA(c, h),
           NEW a, TrueAnswer(c, a), Return(c, h, a)
    PROVE  AInv'
  <2> USE <1>ReturnA
  <2>1. PICK x, k, g : /\ x = client[c] /\ g = Abandoned(h)
                       /\ k = [x EXCEPT !.state = "done", !.open = {}, !.result = a]
    BY Zenon
  <2>2. client' = [client EXCEPT ![c] = k] /\ handler' = [handler EXCEPT ![c] = g]
    BY ZenonT(20), <2>1 DEF Return
  <2>3. a \in Outcome
    BY DEF TrueAnswer
  <2>4. x \in [state : {x.state}, next : {x.next}, open : {x.open}, result : Outcome]
    BY <2>1, CallAt DEF CallA
  <2>5. /\ k.state = "done" /\ k.result = a
        /\ k \in [state : {k.state}, next : {k.next}, open : {k.open}, result : Outcome]
    BY Zenon, <2>1, <2>3, <2>4
  <2>6. ClientA(c, k)
    BY <2>5 DEF ClientA
  <2>7. HandlersA(c, g)
    BY <2>1, <1>LeftA, LengthAt
  <2> QED
    BY Zenon, <2>2, <2>6, <2>7, <1>CallGoesOnA
<1>AttemptFailedA.
    ASSUME AInv, ClientFrame, UNCHANGED floor, NEW c \in Calls, NEW n \in client[c].open,
           NEW h, HandlersA(c, h), AttemptFailed(c, n, h)
    PROVE  AInv'
  <2> USE <1>AttemptFailedA
  <2>1. PICK x, k : x = client[c] /\ k = [x EXCEPT !.open = x.open \ {n}]
    BY Zenon
  <2>2. ClientA(c, x)
    BY <2>1, CallAt DEF CallA
  <2>3. /\ k.state = x.state /\ k.result = x.result
        /\ k \in [state : {k.state}, next : {k.next}, open : {k.open}, result : Outcome]
    BY ZenonT(20), <2>1, <2>2 DEF ClientA
  <2>4. ClientA(c, k)
    BY <2>2, <2>3 DEF ClientA
  <2>5. CASE client' = [client EXCEPT ![c] = Spawned(k)] /\ handler' = [handler EXCEPT ![c] = Sent(h, k)]
    <3>1. PICK j, g : j = Spawned(k) /\ g = Sent(h, k)
      OBVIOUS
    <3>2. ClientA(c, j) /\ HandlersA(c, g)
      BY ZenonT(30), <2>4, <3>1, <1>SpawnedA, <1>SentA, LengthAt
    <3> QED
      BY ZenonT(30), <2>5, <3>1, <3>2, <1>CallGoesOnA
  <2>6. CASE Return(c, h, Err("failed"))
    <3>1. TrueAnswer(c, Err("failed"))
      BY ErrorIsTrue, LengthAt DEF Kinds
    <3> QED
      BY ZenonT(20), <2>6, <3>1, <1>ReturnA
  <2>7. CASE client' = [client EXCEPT ![c] = k] /\ handler' = [handler EXCEPT ![c] = h]
    BY Zenon, <2>4, <2>7, <1>CallGoesOnA
  <2> QED
    BY Zenon, <2>1, <2>5, <2>6, <2>7 DEF AttemptFailed
<1>TakeAnswerA.
    ASSUME AInv, ClientFrame, UNCHANGED floor, NEW c \in Calls, NEW n \in Nodes, TakeAnswer(c, n)
    PROVE  AInv'
  <2> USE <1>TakeAnswerA
  <2>1. PICK h, a : h = [handler[c] EXCEPT ![n] = Gone] /\ a = handler[c][n].answer
    BY Zenon
  <2>2. HandlersA(c, h)
    BY Zenon, <2>1, CallAt, <1>LeftA, LengthAt
  <2>3. TrueAnswer(c, a)
    BY ZenonT(30), <2>1, CallAt DEF HandlersA, HandlerA
  <2>4. n \in client[c].open /\ (AttemptFailed(c, n, h) \/ Return(c, h, a))
    BY Zenon, <2>1 DEF TakeAnswer
  <2> QED
    BY Zenon, <2>2, <2>3, <2>4, <1>AttemptFailedA, <1>ReturnA
<1>AttemptTimeoutA.
    ASSUME AInv, ClientFrame, UNCHANGED floor, NEW c \in Calls, NEW n \in Nodes,
           AttemptTimeout(c, n)
    PROVE  AInv'
  <2> USE <1>AttemptTimeoutA
  <2>1. PICK h : h = IF handler[c][n].state = "answered"
                     THEN [handler[c] EXCEPT ![n] = Gone] ELSE handler[c]
    BY Zenon
  <2>2. HandlersA(c, h)
    BY ZenonT(30), <2>1, CallAt, <1>LeftA, LengthAt
  <2>3. n \in client[c].open /\ AttemptFailed(c, n, h)
    BY <2>1 DEF AttemptTimeout
  <2> QED
    BY ZenonT(20), <2>2, <2>3, <1>AttemptFailedA
<1>TransportFailsA.
    ASSUME AInv, ClientFrame, UNCHANGED floor, NEW c \in Calls, NEW n \in Nodes,
           TransportFails(c, n)
    PROVE  AInv'
  <2> USE <1>TransportFailsA
  <2>1. PICK x : x = IF n \in client[c].open THEN Handler("answered", Err("retry")) ELSE Gone
    OBVIOUS
  <2>2. /\ handler[c][n].state # "none" /\ UNCHANGED client
        /\ handler' = [handler EXCEPT ![c][n] = x]
    BY Zenon, <2>1 DEF TransportFails
  <2>3. HandlerA(c, x)
    <3>1. "retry" \in Kinds \ {"ok"} /\ Len(log) \in Nat
      BY Zenon, LengthAt DEF Kinds
    <3> QED
      BY Zenon, <2>1, <3>1, FailedIsA, SilentIsA
  <2>4. AsideA /\ UNCHANGED read /\ queue' \in [Nodes -> Seq(Request)]
    BY <2>2 DEF AsideA, ClientFrame, AInv, ExecA
  <2> QED
    BY ZenonT(30), <2>2, <2>3, <2>4, OneHandlerA
<1>HedgeA.
    ASSUME AInv, ClientFrame, UNCHANGED floor, NEW c \in Calls, Hedge(c) \/ Deadline(c)
    PROVE  AInv'
  <2> USE <1>HedgeA
  <2>1. client[c].state = "running"
    BY Zenon DEF Hedge, Deadline
  <2>2. ClientA(c, client[c]) /\ HandlersA(c, handler[c]) /\ Len(log) \in Nat
    BY Zenon, <2>1, CallAt, LengthAt
  <2>3. CASE Hedge(c)
    <3>1. PICK j, g : j = Spawned(client[c]) /\ g = Sent(handler[c], client[c])
      BY Zenon
    <3>2. ClientA(c, j) /\ HandlersA(c, g)
      BY Zenon, <2>2, <3>1, <1>SpawnedA, <1>SentA
    <3>3. client' = [client EXCEPT ![c] = j] /\ handler' = [handler EXCEPT ![c] = g]
      BY Zenon, <2>3, <3>1 DEF Hedge
    <3> QED
      BY ZenonT(30), <3>2, <3>3, <1>CallGoesOnA
  <2>4. CASE Deadline(c)
    <3>1. PICK h : h = handler[c]
      OBVIOUS
    <3>2. TrueAnswer(c, Err("failed"))
      BY ZenonT(30), <2>2, ErrorIsTrue DEF Kinds
    <3>3. HandlersA(c, h) /\ Return(c, h, Err("failed"))
      BY ZenonT(30), <2>2, <2>4, <3>1 DEF Deadline
    <3> QED
      BY ZenonT(20), <3>2, <3>3, <1>ReturnA
  <2> QED
    BY Zenon, <2>3, <2>4
\* What is no success does not depend on what was acknowledged before.
<1>NoSuccessLifts.
    ASSUME ClientFrame, NEW c, NEW a, TrueAnswer(c, a), a.kind # "ok"
    PROVE  TrueAnswer(c, a)'
  BY <1>NoSuccessLifts DEF ClientFrame, TrueAnswer, Recent, Committed, Archived, IsRead
<1>StartA.
    ASSUME AInv, ClientFrame, NEW c \in Calls, Start(c)
    PROVE  AInv'
  <2> USE <1>StartA
  <2>1. PICK x, h : x = client[c] /\ h = handler[c]
    OBVIOUS
  <2>2. PICK k, g : k = [Spawned(x) EXCEPT !.state = "running"] /\ g = Sent(h, x)
    BY Zenon
  <2>3. PICK T : T = {0} \cup {client[d].result.index : d \in Calls}
    BY Zenon
  <2>4. /\ x.state = "idle" /\ floor' = [floor EXCEPT ![c] = Max(T)]
        /\ client' = [client EXCEPT ![c] = k] /\ handler' = [handler EXCEPT ![c] = g]
    BY Zenon, <2>1, <2>2, <2>3 DEF Start
  <2>5. CallA(c, x, h, read[c]) /\ HandlersA(c, h) /\ Len(log) \in Nat
    BY Zenon, <2>1, CallAt, LengthAt
  <2>6. Max(T) \in Nat /\ Max(T) <= Len(log)
    <3>1. ASSUME NEW d \in Calls
          PROVE  client[d].result.index \in 0 .. Len(log)
      <4>1. TrueAnswer(d, client[d].result)
        BY Zenon, CallAt DEF CallA
      <4>2. client[d].result \in Outcome /\ client[d].result.index <= Len(log)
        BY Zenon, <4>1 DEF TrueAnswer
      <4> QED
        BY <2>5, <4>2 DEF Outcome
    <3>2. T \in SUBSET (0 .. Len(log)) /\ T # {}
      <4>1. 0 \in 0 .. Len(log)
        BY <2>5
      <4> QED
        BY Zenon, <2>3, <3>1, <4>1
    <3>3. Max(T) \in T
      BY Zenon, <2>5, <3>2, GreatestExists
    <3>4. Max(T) \in 0 .. Len(log)
      BY Zenon, <3>2, <3>3
    <3> QED
      BY <2>5, <3>4
  <2>7. /\ floor' \in [Calls -> Nat] /\ floor'[c] <= Len(log)
        /\ \A d \in Calls \ {c} : floor'[d] = floor[d]
    <3>1. floor \in [Calls -> Nat]
      BY DEF AInv, CallsA
    <3> QED
      BY Zenon, <2>4, <2>6, <3>1
  <2>8. ClientA(c, k)'
    <3>1. /\ x.result.kind # "ok" /\ TrueAnswer(c, x.result) /\ x.result \in Outcome
          /\ x \in [state : {x.state}, next : {x.next}, open : {x.open}, result : Outcome]
      BY Zenon, <2>4, <2>5 DEF CallA, TrueAnswer
    <3>2. TrueAnswer(c, x.result)'
      BY <3>1, <1>NoSuccessLifts
    <3>3. /\ k.state = "running" /\ k.result = x.result
          /\ k \in [state : {k.state}, next : {k.next}, open : {k.open}, result : Outcome]
      BY Zenon, <2>2, <3>1 DEF Spawned
    <3> QED
      BY Zenon, <3>2, <3>3 DEF ClientA
  <2>9. HandlersA(c, g)'
    <3>1. HandlersA(c, g)
      BY Zenon, <2>2, <2>5, <1>SentA
    <3>2. ASSUME NEW n \in Nodes
          PROVE  HandlerA(c, g[n])'
      <4>1. h[n].answer.kind # "ok"
        BY <2>4, <2>5 DEF CallA
      <4>2. g[n] = h[n] \/ g[n] = Handler("sent", None)
        BY <2>2, <2>5 DEF Sent, HandlersA
      <4>3. Handler("sent", None).answer = None /\ None.kind # "ok"
        BY ZenonT(30), <2>5, HandlerIs, NoneIsTrue
      <4>4. g[n].answer.kind # "ok"
        BY Zenon, <4>1, <4>2, <4>3
      <4>5. PICK y : y = g[n]
        OBVIOUS
      <4>6. HandlerA(c, y) /\ y.answer.kind # "ok"
        BY Zenon, <3>1, <4>4, <4>5 DEF HandlersA
      <4>7. TrueAnswer(c, y.answer)'
        BY Zenon, <4>6, <1>NoSuccessLifts DEF HandlerA
      <4>8. HandlerA(c, y)'
        BY Zenon, <4>6, <4>7 DEF HandlerA, ClientFrame
      <4> QED
        BY Zenon, <4>5, <4>8
    <3> QED
      BY <3>1, <3>2 DEF HandlersA
  <2>10. ASSUME NEW n \in Nodes
         PROVE  ReadA(c, read[c][n])'
    <3>1. read[c][n].stage = "none" /\ ReadA(c, read[c][n])
      BY Zenon, <2>4, <2>5 DEF CallA
    <3> QED
      BY Zenon, <3>1 DEF ReadA, ClientFrame
  <2> QED
    BY ZenonT(30), <2>4, <2>7, <2>8, <2>9, <2>10, <1>OneCallA
<1>1. ClientFrame
  BY DEF ClientStep, ClientFrame, logVars, executionVars, adminVars
<1>2. ASSUME NEW c \in Calls, Start(c)
      PROVE  AInv'
  BY Zenon, <1>1, <1>2, <1>StartA
<1>3. ASSUME UNCHANGED floor, NEW c \in Calls, Hedge(c) \/ Deadline(c)
      PROVE  AInv'
  BY Zenon, <1>1, <1>3, <1>HedgeA
<1>4. ASSUME UNCHANGED floor, NEW c \in Calls, NEW n \in Nodes,
             TakeAnswer(c, n) \/ AttemptTimeout(c, n) \/ TransportFails(c, n)
      PROVE  AInv'
  BY Zenon, <1>1, <1>4, <1>TakeAnswerA, <1>AttemptTimeoutA, <1>TransportFailsA
<1> QED
  BY Zenon, <1>2, <1>3, <1>4 DEF ClientStep

-----------------------------------------------------------------------------
(* The administrator's steps *)

LEMMA TaskMovesA ==
    ASSUME NEW t, TaskA(t)
    PROVE  \A stage, result : TaskA([t EXCEPT !.stage = stage, !.result = result])
BY Zenon DEF TaskA

LEMMA NoOperationA ==
    TaskA(NoOperation) /\ \A k : TaskA([NoOperation EXCEPT !.stage = "queued", !.call = k])
<1>1. TaskA(NoOperation)
  BY DEF TaskA, NoOperation
<1> QED
  BY Zenon, <1>1 DEF TaskA

\* Steps that only keep the books of the operations.
BooksFrame == UNCHANGED <<log, profile, node, exec, httpVars, readVars, client>>

-----------------------------------------------------------------------------
(* The operations that hold the commit mutex *)

LEMMA EndedA ==
    ASSUME AInv, NEW n \in Nodes, NEW result, Ends(n, result)
    PROVE  \E t : TaskA(t) /\ task' = [task EXCEPT ![n] = t]
<1>1. PICK y : y = task[n]
  OBVIOUS
<1>2. TaskA(y)
  BY <1>1 DEF AInv, BaseA
<1>3. PICK t : t = [y EXCEPT !.stage = "finished", !.result = result]
  BY SMTT(30)
<1>4. TaskA(t)
  BY Zenon, <1>2, <1>3, TaskMovesA
<1>5. task' = [task EXCEPT ![n] = t]
  BY Zenon, <1>1, <1>3 DEF Ends
<1> QED
  BY Zenon, <1>4, <1>5

LEMMA AdminStepA ==
    ASSUME AInv, AdminStep
    PROVE  AInv'
\* A gate keeps what its shutdown is going to archive.
<1>GateMoves.
    ASSUME NEW g, GateA(g)
    PROVE  /\ GateA([g EXCEPT !.active = @ + 1]) /\ GateA(Left(g)) /\ GateA(Released(g))
           /\ GateA([g EXCEPT !.busy = TRUE]) /\ GateA([g EXCEPT !.accepting = FALSE])
           /\ \A k \in Nat : GateA([g EXCEPT !.flushing = TRUE, !.target = k])
  <2> USE <1>GateMoves
  <2>1. GateA([g EXCEPT !.active = @ + 1])
    BY DEF GateA
  <2>2. GateA(Left(g))
    BY DEF GateA, Left
  <2>3. GateA(Released(g))
    BY Zenon, <2>2 DEF GateA, Released
  <2>4. GateA([g EXCEPT !.busy = TRUE]) /\ GateA([g EXCEPT !.accepting = FALSE])
    BY Zenon DEF GateA
  <2>5. \A k \in Nat : GateA([g EXCEPT !.flushing = TRUE, !.target = k])
    BY Zenon DEF GateA
  <2> QED
    BY Zenon, <2>1, <2>2, <2>3, <2>4, <2>5
<1>BooksA.
    ASSUME AInv, BooksFrame, NEW n, NEW g, NEW t, n \in Nodes => GateA(g) /\ TaskA(t),
           gate' = gate \/ gate' = [gate EXCEPT ![n] = g],
           task' = task \/ task' = [task EXCEPT ![n] = t]
    PROVE  AInv'
  <2> USE <1>BooksA
  <2>1. BaseA /\ ExecA /\ CallsA
    BY Zenon DEF AInv
  <2>2. /\ UNCHANGED <<log, archived, request, profile, node, exec, writer, queue, embedded>>
        /\ UNCHANGED <<client, floor, handler, read>>
    BY Zenon DEF BooksFrame, httpVars, readVars
  <2>3. GrowA
    BY Zenon, <2>1, <2>2, NoGrowth
  <2>4. gate' = [m \in Nodes |-> gate'[m]] /\ \A m \in Nodes : GateA(gate'[m])
    BY Zenon, <2>1 DEF BaseA
  <2>5. task' = [m \in Nodes |-> task'[m]] /\ \A m \in Nodes : TaskA(task'[m])
    BY Zenon, <2>1 DEF BaseA
  <2>6. BaseA'
    BY Zenon, <2>1, <2>2, <2>4, <2>5 DEF BaseA, IsRead, NodeA
  <2>7. ExecA' /\ CallsA'
    BY Zenon, <2>1, <2>2, <2>3, ExecKept, CallsKept
  <2> QED
    BY Zenon, <2>6, <2>7 DEF AInv
<1>GateOnlyA.
    ASSUME AInv, BooksFrame, NEW n, UNCHANGED task,
           \/ gate' = gate
           \/ gate' = [gate EXCEPT ![n].active = @ + 1]
           \/ gate' = [gate EXCEPT ![n] = Left(@)]
           \/ gate' = [gate EXCEPT ![n] = Released(@)]
           \/ gate' = [gate EXCEPT ![n].busy = TRUE]
           \/ gate' = [gate EXCEPT ![n].accepting = FALSE]
           \/ gate' = [gate EXCEPT ![n].flushing = TRUE, ![n].target = node[n].applied]
    PROVE  AInv'
  <2> USE <1>GateOnlyA
  <2>1. PICK x, t, k : x = gate[n] /\ t = task[n] /\ k = node[n].applied
    OBVIOUS
  <2>2. n \in Nodes => GateA(x) /\ TaskA(t) /\ k \in Nat
    BY <2>1 DEF AInv, BaseA, NodeA, NodeType
  <2>3. ASSUME NEW g, n \in Nodes => GateA(g), gate' = [gate EXCEPT ![n] = g]
        PROVE  AInv'
    BY Zenon, <2>2, <2>3, <1>BooksA
  <2>4. CASE gate' = gate
    BY ZenonT(20), <2>2, <2>4, <1>BooksA
  <2>5. CASE gate' = [gate EXCEPT ![n].active = @ + 1]
    <3>1. PICK g : g = [x EXCEPT !.active = @ + 1]
      BY ZenonT(30)
    <3>2. gate' = [gate EXCEPT ![n] = g]
      BY <2>1, <2>5, <3>1
    <3> QED
      BY ZenonT(30), <2>2, <2>3, <3>1, <3>2, <1>GateMoves
  <2>6. CASE gate' = [gate EXCEPT ![n] = Left(@)] \/ gate' = [gate EXCEPT ![n] = Released(@)]
    <3>1. PICK g : (g = Left(x) \/ g = Released(x)) /\ gate' = [gate EXCEPT ![n] = g]
      BY SMTT(30), <2>1, <2>6
    <3> QED
      BY Zenon, <2>2, <2>3, <3>1, <1>GateMoves
  <2>7. CASE gate' = [gate EXCEPT ![n].busy = TRUE]
    <3>1. PICK g : g = [x EXCEPT !.busy = TRUE]
      BY ZenonT(30)
    <3>2. gate' = [gate EXCEPT ![n] = g]
      BY ZenonT(20), <2>1, <2>7, <3>1
    <3> QED
      BY ZenonT(30), <2>2, <2>3, <3>1, <3>2, <1>GateMoves
  <2>8. CASE gate' = [gate EXCEPT ![n].accepting = FALSE]
    <3>1. PICK g : g = [x EXCEPT !.accepting = FALSE]
      BY ZenonT(30)
    <3>2. gate' = [gate EXCEPT ![n] = g]
      BY <2>1, <2>8, <3>1
    <3> QED
      BY Zenon, <2>2, <2>3, <3>1, <3>2, <1>GateMoves
  <2>9. CASE gate' = [gate EXCEPT ![n].flushing = TRUE, ![n].target = node[n].applied]
    <3>1. PICK g : g = [x EXCEPT !.flushing = TRUE, !.target = k]
      OBVIOUS
    <3>2. gate' = [gate EXCEPT ![n] = g]
      BY Zenon, <2>1, <2>9, <3>1
    <3> QED
      BY Zenon, <2>2, <2>3, <3>1, <3>2, <1>GateMoves
  <2> QED
    BY ZenonT(30), <2>4, <2>5, <2>6, <2>7, <2>8, <2>9
<1>AdmitOperationA.
    ASSUME AInv, BooksFrame, NEW k, AdmitOperation(k)
    PROVE  AInv'
  <2> USE <1>AdmitOperationA
  <2>1. PICK n : n = ask[k].at
    OBVIOUS
  <2>2. CASE /\ UNCHANGED task
             /\ \/ gate' = [gate EXCEPT ![n] = Left(@)]
                \/ gate' = [gate EXCEPT ![n].busy = TRUE]
    BY Zenon, <2>2, <1>GateOnlyA
  <2>3. CASE /\ gate' = [gate EXCEPT ![n].busy = TRUE]
             /\ task' = [task EXCEPT ![n] = [NoOperation EXCEPT !.stage = "queued", !.call = k]]
    <3>1. PICK x, t : x = gate[n] /\ t = [NoOperation EXCEPT !.stage = "queued", !.call = k]
      OBVIOUS
    <3>2. PICK g : g = [x EXCEPT !.busy = TRUE]
      BY ZenonT(30)
    <3>3. gate' = [gate EXCEPT ![n] = g] /\ task' = [task EXCEPT ![n] = t]
      BY Zenon, <2>3, <3>1, <3>2
    <3>4. n \in Nodes => GateA(x)
      BY <3>1 DEF AInv, BaseA
    <3>5. n \in Nodes => GateA(g) /\ TaskA(t)
      BY Zenon, <3>1, <3>2, <3>4, <1>GateMoves, NoOperationA
    <3> QED
      BY Zenon, <3>3, <3>5, <1>BooksA
  <2> QED
    BY Zenon, <2>1, <2>2, <2>3 DEF AdmitOperation, Turned
<1>EndsA.
    ASSUME AInv, BooksFrame, NEW n \in Nodes,
           Install(n) \/ RecordResult(n) \/ RecordFails(n)
    PROVE  AInv'
  <2> USE <1>EndsA
  <2>1. PICK x, y : x = gate[n] /\ y = task[n]
    OBVIOUS
  <2>2. GateA(x) /\ TaskA(y)
    BY <2>1 DEF AInv, BaseA
  <2>3. CASE UNCHANGED gate /\ \E result : Ends(n, result)
    <3>1. PICK result : Ends(n, result)
      BY <2>3
    <3>2. PICK t : t = [y EXCEPT !.stage = "finished", !.result = result]
      OBVIOUS
    <3>3. task' = [task EXCEPT ![n] = t]
      BY ZenonT(20), <2>1, <3>1, <3>2 DEF Ends
    <3>4. TaskA(t)
      BY Zenon, <2>2, <3>2, TaskMovesA
    <3> QED
      BY ZenonT(30), <2>2, <2>3, <3>3, <3>4, <1>BooksA
  <2>4. CASE TaskEnds(n)
    <3>1. PICK g, t : g = Released(x) /\ t = NoOperation
      OBVIOUS
    <3>2. gate' = [gate EXCEPT ![n] = g] /\ task' = [task EXCEPT ![n] = t]
      BY <2>1, <2>4, <3>1 DEF TaskEnds
    <3>3. GateA(g) /\ TaskA(t)
      BY Zenon, <2>2, <3>1, <1>GateMoves, NoOperationA
    <3> QED
      BY Zenon, <3>2, <3>3, <1>BooksA
  <2> QED
    BY Zenon, <2>3, <2>4 DEF Install, RecordResult, RecordFails
\* What an operation puts there.
<1>OfferedByAdmin.
    ASSUME NEW v, NEW mode \in {"stop", "activate"}, NEW o,
           v = [Free EXCEPT !.mode = mode, !.owner = "admin", !.offered = o]
    PROVE  BatchA(v) /\ ~IsBatch(v)
  <2> USE <1>OfferedByAdmin
  <2>1. BatchA(Free)
    BY QuietA
  <2>2. /\ v.mode = mode
        /\ v \in [mode : {v.mode}, owner : {v.owner}, members : Seq(Request),
                  results : {v.results}, each : {v.each}, at : {v.at}, offered : {v.offered}]
    BY Zenon, <2>1 DEF BatchA
  <2> QED
    BY <2>2 DEF BatchA, IsBatch
<1>RunsA.
    ASSUME AInv, NEW n \in Nodes, NEW stage, Runs(n, stage)
    PROVE  \E t : TaskA(t) /\ task' = [task EXCEPT ![n] = t]
  <2> USE <1>RunsA
  <2>1. PICK y, k : y = task[n] /\ k = node[n].applied
    OBVIOUS
  <2>2. TaskA(y) /\ k \in Nat
    BY <2>1 DEF AInv, BaseA, NodeA, NodeType
  <2>3. PICK t : t = [y EXCEPT !.stage = stage, !.target = k]
    OBVIOUS
  <2>4. TaskA(t)
    BY Zenon, <2>2, <2>3 DEF TaskA
  <2>5. task' = [task EXCEPT ![n] = t]
    BY <2>1, <2>3 DEF Runs
  <2> QED
    BY ZenonT(30), <2>4, <2>5
\* The operation is over, or begins with no batch in the way.
<1>OperationA.
    ASSUME AInv, StillA, UNCHANGED node, NEW n \in Nodes, NEW v, NEW t,
           exec' = [exec EXCEPT ![n] = v], BatchA(v), ~IsBatch(v),
           task' = [task EXCEPT ![n] = t], TaskA(t), TornInv(node[n], v)
    PROVE  AInv'
  <2> USE <1>OperationA
  <2>1. PICK w : w = node[n]
    OBVIOUS
  <2>2. node' = [node EXCEPT ![n] = w] /\ NodeA(w)
    BY Zenon, <2>1, Itself DEF AInv, BaseA
  <2>3. SameBatch(exec[n], v) /\ TornInv(w, v)
    BY SMTT(30), <2>1 DEF SameBatch
  <2> QED
    BY Zenon, <2>2, <2>3, RuntimeA
<1>RefusedOperationA.
    ASSUME AInv, StillA, UNCHANGED <<node, exec>>, NEW n \in Nodes, exec[n].mode = "free",
           NEW t, task' = [task EXCEPT ![n] = t], TaskA(t)
    PROVE  AInv'
  <2> USE <1>RefusedOperationA
  <2>1. PICK v : v = exec[n]
    OBVIOUS
  <2>2. exec' = [exec EXCEPT ![n] = v]
    BY Zenon, <2>1, Itself DEF AInv, ExecA
  <2>3. BatchA(v) /\ TornInv(node[n], v) /\ ~IsBatch(v)
    BY Zenon, <2>1, InvAt DEF IsBatch
  <2> QED
    BY ZenonT(30), <2>2, <2>3, <1>OperationA
<1>BeginStopA.
    ASSUME AInv, StillA, NEW n \in Nodes, BeginStop(n) \/ BeginActivate(n)
    PROVE  AInv'
  <2> USE <1>BeginStopA
  <2>1. exec[n].mode = "free" /\ UNCHANGED node
    BY ZenonT(30) DEF BeginStop, BeginActivate, Begins
  <2>2. CASE UNCHANGED exec /\ \E result : Ends(n, result)
    <3>1. PICK t : TaskA(t) /\ task' = [task EXCEPT ![n] = t]
      BY <2>2, EndedA
    <3> QED
      BY Zenon, <2>1, <2>2, <3>1, <1>RefusedOperationA
  <2>3. ASSUME NEW mode \in {"stop", "activate"}, NEW o, ~node[n].fatal, Runs(n, "running"),
               exec' = [exec EXCEPT ![n] = [Free EXCEPT !.mode = mode, !.owner = "admin",
                                                        !.offered = o]]
        PROVE  AInv'
    <3>1. PICK t : TaskA(t) /\ task' = [task EXCEPT ![n] = t]
      BY <2>3, <1>RunsA
    <3>2. PICK v : v = [Free EXCEPT !.mode = mode, !.owner = "admin", !.offered = o]
      BY SMTT(30)
    <3>3. BatchA(v) /\ ~IsBatch(v)
      BY Zenon, <3>2, <1>OfferedByAdmin
    <3>4. TornInv(node[n], v)
      BY ZenonT(20), <2>3, InvAt DEF TornInv
    <3> QED
      BY Zenon, <2>1, <2>3, <3>1, <3>2, <3>3, <3>4, <1>OperationA
  <2>4. CASE BeginStop(n) /\ ~(UNCHANGED exec /\ \E result : Ends(n, result))
    <3>1. PICK to : Runs(n, "running") /\ StopConfiguration(n, to) /\ ~node[n].fatal
      BY ZenonT(30), <2>4 DEF BeginStop, logVars
    <3> QED
      BY ZenonT(30), <2>3, <3>1 DEF StopConfiguration
  <2>5. CASE BeginActivate(n) /\ ~(UNCHANGED exec /\ \E result : Ends(n, result))
    <3>1. Runs(n, "running") /\ ActivateSuccessor(n)
      BY Zenon, <2>5 DEF BeginActivate, logVars
    <3> QED
      BY ZenonT(30), <2>3, <3>1 DEF ActivateSuccessor
  <2> QED
    BY ZenonT(20), <2>2, <2>4, <2>5
<1>StopAgainA.
    ASSUME AInv, StillA, NEW n \in Nodes, StopAgain(n)
    PROVE  AInv'
  <2> USE <1>StopAgainA
  <2>1. PICK to : StopConfiguration(n, to)
    BY DEF StopAgain
  <2>2. PICK v, o, t : /\ v = [Free EXCEPT !.mode = "stop", !.owner = "admin", !.offered = o]
                       /\ exec' = [exec EXCEPT ![n] = v] /\ t = task[n]
    BY Zenon, <2>1 DEF StopConfiguration
  <2>3. UNCHANGED <<task, node>> /\ exec[n].mode = "stop"
    BY SMTT(30), <2>1 DEF StopAgain, StopConfiguration
  <2>4. BatchA(v) /\ ~IsBatch(v)
    BY ZenonT(30), <2>2, <1>OfferedByAdmin
  <2>5. TornInv(node[n], v)
    BY Zenon, <2>3, InvAt DEF TornInv
  <2>6. TaskA(t) /\ task' = [task EXCEPT ![n] = t]
    BY Zenon, <2>2, <2>3, OwnTask
  <2> QED
    BY Zenon, <2>2, <2>3, <2>4, <2>5, <2>6, <1>OperationA
<1>OperationReturnsA.
    ASSUME AInv, StillA, NEW n \in Nodes, OperationReturns(n)
    PROVE  AInv'
  <2> USE <1>OperationReturnsA
  <2>1. /\ Ends(n, exec[n].results[1]) /\ exec' = [exec EXCEPT ![n] = Free] /\ UNCHANGED node
    BY Zenon DEF OperationReturns
  <2>2. PICK t : TaskA(t) /\ task' = [task EXCEPT ![n] = t]
    BY Zenon, <2>1, EndedA
  <2>3. PICK v : v = Free
    OBVIOUS
  <2>4. BatchA(v) /\ ~IsBatch(v) /\ v.offered = {} /\ v.mode = "free"
    BY ZenonT(20), <2>3, QuietA
  <2>5. TornInv(node[n], v)
    BY SMTT(30), <2>4, InvAt DEF TornInv
  <2> QED
    BY ZenonT(30), <2>1, <2>2, <2>3, <2>4, <2>5, <1>OperationA
<1>CompactBeginsA.
    ASSUME AInv, StillA, NEW n \in Nodes, CompactBegins(n)
    PROVE  AInv'
  <2> USE <1>CompactBeginsA
  <2>1. /\ exec[n].mode = "free" /\ UNCHANGED exec
        /\ \E b \in BOOLEAN : node' = [node EXCEPT ![n].compacting = b]
        /\ Runs(n, "publishing") \/ \E result : Ends(n, result)
    BY Zenon DEF CompactBegins, Begins
  <2>2. PICK t : TaskA(t) /\ task' = [task EXCEPT ![n] = t]
    BY <2>1, <1>RunsA, EndedA
  <2>3. PICK b \in BOOLEAN : node' = [node EXCEPT ![n].compacting = b]
    BY Zenon, <2>1
  <2>4. PICK x, v : x = node[n] /\ v = exec[n]
    OBVIOUS
  <2>5. PICK w : w = [x EXCEPT !.compacting = b]
    BY Zenon
  <2>6. node' = [node EXCEPT ![n] = w] /\ exec' = [exec EXCEPT ![n] = v]
    BY Zenon, <2>1, <2>3, <2>4, <2>5, Itself DEF AInv, ExecA
  <2>7. x \in NodeType /\ NodeA(x) /\ BatchA(v) /\ TornInv(x, v)
    BY <2>4, InvAt
  <2>8. w \in NodeType /\ w.applied = x.applied /\ w.torn = x.torn /\ w.fatal = x.fatal
    BY Zenon, <2>5, <2>7 DEF NodeType
  <2>9. NodeA(w) /\ TornInv(w, v) /\ SameBatch(exec[n], v)
    BY Zenon, <2>1, <2>4, <2>7, <2>8 DEF NodeA, TornInv, SameBatch, IsBatch
  <2> QED
    BY Zenon, <2>2, <2>6, <2>7, <2>9, RuntimeA
<1>1. ASSUME BooksFrame, NEW k,
             \/ Enter(k) \/ CountIn(k) \/ AdmitOperation(k) \/ ShowStatus(k)
             \/ AnswerFromLedger(k) \/ OperationTimeout(k) \/ StatusFails(k)
      PROVE  AInv'
  <2>1. CASE AdmitOperation(k)
    BY <1>1, <2>1, <1>AdmitOperationA
  <2>2. CASE ~AdmitOperation(k)
    <3>1. PICK n : n = ask[k].at
      OBVIOUS
    <3>2. /\ UNCHANGED task
          /\ \/ gate' = gate \/ gate' = [gate EXCEPT ![n].active = @ + 1]
             \/ gate' = [gate EXCEPT ![n] = Released(@)]
      BY Zenon, <1>1, <2>2, <3>1 DEF Enter, CountIn, ShowStatus, AnswerFromLedger, OperationTimeout,
                              StatusFails
    <3> QED
      BY Zenon, <1>1, <3>2, <1>GateOnlyA
  <2> QED
    BY Zenon, <2>1, <2>2
<1>2. ASSUME BooksFrame, NEW n \in Nodes,
             \/ Install(n) \/ RecordResult(n) \/ AdminIdle(n) \/ RecordFails(n) \/ Shutdown(n)
      PROVE  AInv'
  <2>1. CASE AdminIdle(n) \/ Shutdown(n)
    <3>1. /\ UNCHANGED task
          /\ \/ gate' = [gate EXCEPT ![n].accepting = FALSE]
             \/ gate' = [gate EXCEPT ![n].flushing = TRUE, ![n].target = node[n].applied]
      BY Zenon, <2>1 DEF AdminIdle, Shutdown
    <3> QED
      BY Zenon, <1>2, <3>1, <1>GateOnlyA
  <2> QED
    BY Zenon, <1>2, <2>1, <1>EndsA
<1>3. ASSUME NEW n \in Nodes, UNCHANGED <<httpVars, readVars, client, gate>>,
             \/ BeginStop(n) \/ StopAgain(n) \/ BeginActivate(n) \/ OperationReturns(n)
             \/ CompactBegins(n)
      PROVE  AInv'
  <2>1. UNCHANGED <<profile, log>>
    BY Zenon, <1>3 DEF BeginStop, StopAgain, BeginActivate, OperationReturns, CompactBegins,
                StopConfiguration, ActivateSuccessor, logVars
  <2>2. StillA
    BY Zenon, <1>3, <2>1 DEF StillA
  <2> QED
    BY Zenon, <1>3, <2>2, <1>BeginStopA, <1>StopAgainA, <1>OperationReturnsA, <1>CompactBeginsA
<1>4. CASE UNCHANGED <<logVars, executionVars, httpVars, readVars, client>>
  <2>1. BooksFrame
    BY <1>4 DEF BooksFrame, logVars, executionVars
  <2>2. UNCHANGED <<httpVars, readVars, client>>
    BY Zenon, <1>4
  <2> QED
    BY Zenon, <1>1, <1>2, <1>3, <2>1, <2>2 DEF AdminStep
<1>5. CASE /\ UNCHANGED <<httpVars, readVars, client, gate>>
           /\ \E n \in Nodes : \/ BeginStop(n) \/ StopAgain(n) \/ BeginActivate(n)
                               \/ OperationReturns(n) \/ CompactBegins(n)
  BY <1>3, <1>5
<1> QED
  BY <1>4, <1>5 DEF AdminStep

-----------------------------------------------------------------------------
(* Compaction, and the end of a process *)

LEMMA ProcessA ==
    ASSUME AInv, CompactStep \/ Crash \/ FlushAndExit \/ ReopenAsSuccessor
    PROVE  AInv'
<1>CompactEndsA.
    ASSUME AInv, NEW n \in Nodes, CompactPublishes(n) \/ CompactFails(n),
           UNCHANGED <<request, handler, queue, writer, embedded, readVars, client>>
    PROVE  AInv'
  <2> USE <1>CompactEndsA
  <2>1. BaseA /\ ExecA /\ CallsA /\ archived \in Nat /\ Len(log) \in Nat
    BY Zenon, LengthAt DEF AInv, BaseA
  <2>2. PICK x, y, g : x = node[n] /\ y = task[n] /\ g = gate[n]
    OBVIOUS
  <2>3. PICK w : w = [x EXCEPT !.compacting = FALSE]
    BY Zenon
  <2>4. /\ archived' = archived \/ archived' = Max({archived, y.target})
        /\ node' = [node EXCEPT ![n] = w] /\ \E result : Ends(n, result)
        /\ UNCHANGED <<profile, exec, log, gate>>
    BY Zenon, <2>2, <2>3 DEF CompactPublishes, CompactFails, logVars
  <2>5. TaskA(y) /\ GateA(g) /\ NodeA(x) /\ x \in NodeType
    BY Zenon, <2>1, <2>2 DEF BaseA, NodeA
  <2>6. y.target \in Nat
    BY Zenon, <2>5 DEF TaskA
  <2>7. archived' \in Nat /\ archived' >= archived
    BY SMTT(30), <2>1, <2>4, <2>6, ArchivesMore
  <2>8. GrowA
    BY <2>1, <2>4, <2>7 DEF GrowA
  <2>9. PICK t : TaskA(t) /\ task' = [task EXCEPT ![n] = t]
    BY <2>4, EndedA
  <2>10. w \in NodeType /\ w.applied = x.applied /\ w.torn = x.torn /\ w.fatal = x.fatal
    BY ZenonT(30), <2>3, <2>5 DEF NodeType
  <2>11. NodeA(w)' /\ IsLog(log)' /\ gate' = [gate EXCEPT ![n] = g]
    BY Zenon, <2>1, <2>2, <2>4, <2>5, <2>10, Itself DEF NodeA, BaseA, IsLog
  <2>12. BaseA'
    BY ZenonT(30), <2>1, <2>4, <2>5, <2>8, <2>9, <2>11, BaseStep
  <2>13. \A m \in Nodes : node'[m].torn = node[m].torn /\ node'[m].fatal = node[m].fatal
    BY Zenon, <2>1, <2>2, <2>4, <2>10 DEF BaseA
  <2>14. queue' \in [Nodes -> Seq(Request)]
    BY Zenon, <2>1 DEF ExecA
  <2>15. ExecA'
    BY Zenon, <2>1, <2>4, <2>8, <2>13, <2>14, ExecSame
  <2>16. CallsA'
    BY Zenon, <2>1, <2>8, CallsKept DEF readVars
  <2> QED
    BY Zenon, <2>12, <2>15, <2>16 DEF AInv
\* Requests at the node are answered with an error, its reads end.
<1>HandlersEnd.
    ASSUME AInv, GrowA, NEW n \in Nodes, UNCHANGED <<client, floor>>,
           handler' = [c \in Calls |->
                     IF handler[c][n].state \in {"sent", "joined", "owner", "reading"}
                     THEN [handler[c] EXCEPT ![n] = Handler("answered", Err("retry"))]
                     ELSE handler[c]],
           read' = [c \in Calls |-> [read[c] EXCEPT ![n] = NoTask]]
    PROVE  CallsA'
  <2> USE <1>HandlersEnd
  <2>1. PICK h, t : h = Handler("answered", Err("retry")) /\ t = NoTask
    OBVIOUS
  <2>2. "retry" \in Kinds \ {"ok"} /\ Len(log) \in Nat
    BY SMTT(30), LengthAt DEF Kinds
  <2>3. ASSUME NEW c \in Calls
        PROVE  /\ handler'[c] = [m \in Nodes |-> handler'[c][m]]
               /\ \A m \in Nodes : \/ handler'[c][m] = handler[c][m]
                                   \/ (handler[c][m].state # "none" /\ HandlerA(c, handler'[c][m]))
    <3>1. HandlerA(c, h)
      BY ZenonT(30), <2>1, <2>2, FailedIsA
    <3>2. handler[c] = [m \in Nodes |-> handler[c][m]]
      BY Zenon DEF AInv, CallsA
    <3>3. CASE handler[c][n].state \in {"sent", "joined", "owner", "reading"}
      <4>1. handler'[c] = [handler[c] EXCEPT ![n] = h]
        BY Zenon, <2>1, <3>3
      <4>2. handler'[c] = [m \in Nodes |-> IF m = n THEN h ELSE handler[c][m]]
        BY Zenon, <3>2, <4>1
      <4> QED
        BY Zenon, <3>1, <3>3, <4>2
    <3>4. CASE handler[c][n].state \notin {"sent", "joined", "owner", "reading"}
      <4>1. handler'[c] = handler[c]
        BY Zenon, <3>4
      <4> QED
        BY Zenon, <3>2, <4>1
    <3> QED
      BY ZenonT(30), <3>3, <3>4
  <2>4. ASSUME NEW c \in Calls
        PROVE  /\ read'[c] = [m \in Nodes |-> read'[c][m]]
               /\ \A m \in Nodes : \/ read'[c][m] = read[c][m]
                                   \/ read'[c][m].stage = "none" /\ ReadA(c, read'[c][m])
    <3>1. read[c] = [m \in Nodes |-> read[c][m]]
      BY Zenon DEF AInv, CallsA
    <3>2. read'[c] = [m \in Nodes |-> IF m = n THEN t ELSE read[c][m]]
      BY Zenon, <2>1, <3>1
    <3>3. t.stage = "none" /\ ReadA(c, t)
      BY SMTT(30), <2>1 DEF ReadA, NoTask
    <3> QED
      BY Zenon, <3>2, <3>3
  <2>5. /\ handler' = [c \in Calls |-> [m \in Nodes |-> handler'[c][m]]]
        /\ read' = [c \in Calls |-> [m \in Nodes |-> read'[c][m]]]
    <3>1. handler' = [c \in Calls |-> handler'[c]] /\ read' = [c \in Calls |-> read'[c]]
      OBVIOUS
    <3> QED
      BY ZenonT(30), <2>3, <2>4, <3>1
  <2>6. CallsA
    BY DEF AInv
  <2> QED
    BY ZenonT(30), <2>3, <2>4, <2>5, <2>6, CallsStep
\* What the end of the process leaves of the embedded handle.
<1>EmbeddedEnds.
    ASSUME AInv, NEW n \in Nodes,
           embedded' = IF embedded.at = n /\ embedded.stage \in {"running", "confirm"}
                       THEN [embedded EXCEPT !.stage = "indeterminate", !.results = <<>>]
                       ELSE embedded
    PROVE  \E b : /\ embedded' = b /\ EmbeddedA(b)
                  /\ \A m \in Nodes \ {n} : OwnerA(m, exec[m], writer[m], b)
  <2> USE <1>EmbeddedEnds
  <2>1. PICK x : x = embedded
    OBVIOUS
  <2>2. EmbeddedA(x) /\ \A m \in Nodes : OwnerA(m, exec[m], writer[m], x)
    BY <2>1 DEF AInv, ExecA
  <2>3. CASE ~(x.at = n /\ x.stage \in {"running", "confirm"})
    BY <2>1, <2>2, <2>3
  <2>4. CASE x.at = n /\ x.stage \in {"running", "confirm"}
    <3>1. PICK b : b = [x EXCEPT !.stage = "indeterminate", !.results = <<>>]
      OBVIOUS
    <3>2. /\ b.stage = "indeterminate" /\ b.at = x.at /\ b.members = x.members /\ b.results = <<>>
          /\ b \in [stage : {b.stage}, at : {b.at}, members : Seq(Request), results : {b.results}]
      BY Zenon, <2>2, <3>1 DEF EmbeddedA
    <3>3. EmbeddedA(b)
      BY <2>4, <3>2 DEF EmbeddedA
    <3>4. \A m \in Nodes \ {n} : OwnerA(m, exec[m], writer[m], b)
      BY <2>2, <2>4 DEF OwnerA
    <3>5. embedded' = b
      BY Zenon, <2>1, <2>4, <3>1
    <3> QED
      BY <3>3, <3>4, <3>5
  <2> QED
    BY Zenon, <2>3, <2>4
<1>RestartA.
    ASSUME AInv, NEW n \in Nodes, NEW config \in Nat \ {0}, ProcessRestarts(n, config),
           TasksEnd(n), AdminRestarts(n), UNCHANGED client,
           archived' \in Nat, archived' >= archived
    PROVE  AInv'
  <2> USE <1>RestartA
  <2>1. BaseA /\ ExecA /\ CallsA /\ archived \in Nat /\ Len(log) \in Nat
    BY SMTT(30), LengthAt DEF AInv, BaseA
  <2>2. PICK w : w = [applied |-> node[n].applied + (IF node[n].torn THEN 1 ELSE 0),
                      config |-> config, fatal |-> FALSE, torn |-> FALSE, compacting |-> FALSE]
    BY Zenon
  <2>3. PICK v, u, t, g : v = Free /\ u = IdleWriter /\ t = NoOperation /\ g = OpenGate
    BY SMTT(30)
  <2>4. /\ node' = [node EXCEPT ![n] = w] /\ exec' = [exec EXCEPT ![n] = v]
        /\ queue' = [queue EXCEPT ![n] = <<>>] /\ writer' = [writer EXCEPT ![n] = u]
        /\ task' = [task EXCEPT ![n] = t] /\ gate' = [gate EXCEPT ![n] = g]
        /\ UNCHANGED <<log, profile, request, floor, client>>
    BY ZenonT(30), <2>2, <2>3 DEF ProcessRestarts, Restarted, AdminRestarts, TasksEnd
  <2>5. GrowA
    BY SMTT(30), <2>1, <2>4 DEF GrowA
  <2>6. w \in NodeType /\ NodeA(w) /\ ~w.torn
    <3>1. NodeA(node[n]) /\ node[n].applied \in Nat /\ node[n].torn \in BOOLEAN
      BY Zenon, <2>1 DEF BaseA, NodeA, NodeType
    <3>2. w.applied \in Nat /\ w.applied <= Len(log)
      <4>1. PICK i, k : i = node[n].applied /\ k = Len(log)
        OBVIOUS
      <4>2. /\ i \in Nat /\ k \in Nat /\ i <= k /\ (node[n].torn => i < k)
            /\ w.applied = i + (IF node[n].torn THEN 1 ELSE 0)
        BY ZenonT(20), <2>1, <2>2, <3>1, <4>1 DEF NodeA
      <4>3. w.applied \in Nat /\ w.applied <= k
        BY <3>1, <4>2
      <4> QED
        BY Zenon, <4>1, <4>3
    <3> QED
      BY Zenon, <2>2, <3>2 DEF NodeA, NodeType
  <2>7. NodeA(w)' /\ IsLog(log)' /\ TaskA(t) /\ GateA(g)
    BY ZenonT(30), <2>1, <2>3, <2>4, <2>6, NoOperationA DEF NodeA, BaseA, IsLog, GateA, OpenGate
  <2>8. BaseA'
    BY ZenonT(30), <2>1, <2>4, <2>5, <2>7, BaseStep
  <2>9. BatchA(v) /\ ~IsBatch(v) /\ WriterA(u)
    BY Zenon, <2>3, QuietA, IdleWriterA
  <2>10. BatchA(v)' /\ WriterA(u)'
    BY Zenon, <2>5, <2>9, BatchLifts, WriterLifts
  <2>11. PICK b : /\ embedded' = b /\ EmbeddedA(b)
                  /\ \A m \in Nodes \ {n} : OwnerA(m, exec[m], writer[m], b)
    BY Zenon, <1>EmbeddedEnds DEF ProcessRestarts
  <2>12. EmbeddedA(b)'
    BY Zenon, <2>5, <2>11, EmbeddedLifts
  <2>13. queue' \in [Nodes -> Seq(Request)]
    BY SMTT(30), <2>1, <2>4 DEF ExecA
  <2>14. node'[n] = w /\ \A m \in Nodes \ {n} : node'[m] = node[m]
    BY Zenon, <2>1, <2>4 DEF BaseA
  <2>15. TornInv(node'[n], v) /\ OwnerA(n, v, u, b)
    BY Zenon, <2>6, <2>9, <2>14 DEF TornInv, OwnerA
  <2>16. ExecA'
    BY Zenon, <2>1, <2>4, <2>5, <2>10, <2>11, <2>12, <2>13, <2>14, <2>15, ExecStep
  <2>17. CallsA'
    BY Zenon, <2>4, <2>5, <1>HandlersEnd DEF ProcessRestarts, TasksEnd
  <2> QED
    BY Zenon, <2>8, <2>16, <2>17 DEF AInv
<1>1. archived \in Nat /\ \A n \in Nodes : /\ node[n].config \in Nat \ {0}
                                           /\ gate[n].target \in Nat
  BY Zenon DEF AInv, BaseA, NodeA, NodeType, GateA
<1>2. CASE CompactStep
  BY Zenon, <1>2, <1>CompactEndsA DEF CompactStep
<1>3. CASE Crash \/ ReopenAsSuccessor
  <2>1. PICK n \in Nodes : \E config \in {node[n].config, node[n].config + 1} :
           ProcessRestarts(n, config) /\ TasksEnd(n) /\ AdminRestarts(n)
    BY Zenon, <1>3 DEF Crash, ReopenAsSuccessor
  <2>2. PICK config \in Nat \ {0} : ProcessRestarts(n, config) /\ TasksEnd(n) /\ AdminRestarts(n)
    BY SMTT(30), <1>1, <2>1
  <2>3. UNCHANGED <<client, archived>> /\ archived' \in Nat /\ archived' >= archived
    BY SMTT(30), <1>1, <1>3 DEF Crash, ReopenAsSuccessor
  <2> QED
    BY Zenon, <2>2, <2>3, <1>RestartA
<1>4. CASE FlushAndExit
  <2>1. PICK n \in Nodes : /\ archived' = Max({archived, gate[n].target})
                           /\ ProcessRestarts(n, node[n].config) /\ TasksEnd(n)
                           /\ AdminRestarts(n)
    BY ZenonT(30), <1>4 DEF FlushAndExit
  <2>2. archived' \in Nat /\ archived' >= archived
    BY Zenon, <1>1, <2>1, ArchivesMore
  <2>3. UNCHANGED client
    BY Zenon, <1>4 DEF FlushAndExit
  <2>4. PICK config \in Nat \ {0} : config = node[n].config
    BY <1>1
  <2> QED
    BY Zenon, <2>1, <2>2, <2>3, <2>4, <1>RestartA
<1> QED
  BY Zenon, <1>2, <1>3, <1>4

-----------------------------------------------------------------------------
(* The theorem *)

LEMMA InitAInv == Init => AInv
<1> SUFFICES ASSUME Init PROVE AInv
  OBVIOUS
<1>1. PICK s \in Scenarios : request = s.request
  BY Zenon DEF Init
<1>2. \A c \in Calls : /\ request[c].id \in Ids => request[c] \in Request
                       /\ IsRead(request[c]) => request[c].id \notin Ids
  BY Zenon, <1>1, ScenarioAssumption
<1>3. PICK w, b, k : /\ w = [applied |-> 0, config |-> 1, fatal |-> FALSE, torn |-> FALSE,
                             compacting |-> FALSE]
                     /\ b = [stage |-> "idle", at |-> CHOOSE n \in Nodes : TRUE,
                             members |-> <<>>, results |-> <<>>]
                     /\ k = [state |-> "idle", next |-> 0, open |-> {}, result |-> None]
  BY ZenonT(30)
<1>4. /\ log = <<>> /\ archived = 0
      /\ node = [n \in Nodes |-> w] /\ exec = [n \in Nodes |-> Free]
      /\ queue = [n \in Nodes |-> <<>>] /\ writer = [n \in Nodes |-> IdleWriter]
      /\ embedded = b /\ task = [n \in Nodes |-> NoOperation]
      /\ gate = [n \in Nodes |-> OpenGate]
  BY Zenon, <1>3 DEF Init, ExecutionInit, HttpInit, AdminInit, LogInit
<1>5. /\ handler = [c \in Calls |-> [n \in Nodes |-> Unsent]]
      /\ read = [c \in Calls |-> [n \in Nodes |-> NoTask]]
      /\ floor = [c \in Calls |-> 0] /\ client = [c \in Calls |-> k]
  BY Zenon, <1>3 DEF Init, HttpInit, ReadInit
<1>6. log \in Seq({}) /\ Len(log) = 0
  BY <1>4
<1>7. BaseA
  <2>1. w \in NodeType /\ w.applied = 0 /\ ~w.torn
    BY SMTT(30), <1>3 DEF NodeType
  <2>2. NodeA(w) /\ TaskA(NoOperation) /\ GateA(OpenGate)
    <3>1. NodeA(w)
      BY <1>6, <2>1 DEF NodeA
    <3>2. GateA(OpenGate)
      BY DEF GateA, OpenGate
    <3> QED
      BY ZenonT(30), <3>1, <3>2, NoOperationA
  <2>3. IsLog(log)
    BY Zenon, <1>6 DEF IsLog
  <2> QED
    BY Zenon, <1>2, <1>4, <2>2, <2>3 DEF BaseA
<1>8. ExecA
  <2>1. EmbeddedA(b)
    BY SMTT(30), <1>3 DEF EmbeddedA
  <2>2. ~w.torn
    BY SMTT(30), <1>3
  <2>3. TornInv(w, Free) /\ \A n : OwnerA(n, Free, IdleWriter, b)
    BY ZenonT(30), <2>2, QuietA DEF TornInv, OwnerA
  <2>4. queue \in [Nodes -> Seq(Request)]
    BY <1>4
  <2>5. ASSUME NEW n \in Nodes
        PROVE  /\ BatchA(exec[n]) /\ WriterA(writer[n]) /\ TornInv(node[n], exec[n])
               /\ OwnerA(n, exec[n], writer[n], embedded)
    <3>1. exec[n] = Free /\ writer[n] = IdleWriter /\ node[n] = w /\ embedded = b
      BY Zenon, <1>4
    <3> QED
      BY Zenon, <2>3, <3>1, QuietA, IdleWriterA
  <2>6. exec = [n \in Nodes |-> exec[n]] /\ writer = [n \in Nodes |-> writer[n]]
    BY Zenon, <1>4
  <2> QED
    BY Zenon, <1>4, <2>1, <2>4, <2>5, <2>6 DEF ExecA
<1>9. CallsA
  <2>1. /\ None \in Outcome /\ None.kind # "ok" /\ \A c : TrueAnswer(c, None)
    BY <1>6, NoneIsTrue
  <2>2. Unsent.state = "none" /\ Unsent.answer = None
    BY Zenon, HandlerIs DEF Unsent
  <2>3. \A c : HandlerA(c, Unsent)
    BY Zenon, <2>1, <2>2 DEF HandlerA, Waiting
  <2>4. NoTask.stage = "none" /\ \A c : ReadA(c, NoTask)
    BY Zenon DEF ReadA, NoTask
  <2>5. /\ k.result = None /\ k.open = {}
        /\ k \in [state : {k.state}, next : {k.next}, open : {k.open}, result : Outcome]
    BY Zenon, <1>3, <2>1
  <2>6. ASSUME NEW c \in Calls
        PROVE  floor[c] <= Len(log) /\ CallA(c, client[c], handler[c], read[c])
    BY SMTT(30), <1>5, <1>6, <2>1, <2>2, <2>3, <2>4, <2>5 DEF CallA
  <2>7. floor \in [Calls -> Nat]
    BY <1>5
  <2> QED
    BY Zenon, <1>5, <2>6, <2>7 DEF CallsA
<1> QED
  BY Zenon, <1>7, <1>8, <1>9 DEF AInv

LEMMA NextAInv == AInv /\ [Next]_vars => AInv'
<1> SUFFICES ASSUME AInv, [Next]_vars PROVE AInv'
  OBVIOUS
<1>1. CASE UNCHANGED vars
  <2>1. /\ UNCHANGED <<log, archived, request, profile, node, task, gate>>
        /\ UNCHANGED <<exec, writer, queue, embedded, client, floor, handler, read>>
    BY Zenon, <1>1 DEF vars, logVars, executionVars, httpVars, readVars, adminVars
  <2>2. BaseA /\ ExecA /\ CallsA /\ archived \in Nat
    BY Zenon DEF AInv, BaseA
  <2>3. GrowA
    BY Zenon, <2>1, <2>2, NoGrowth
  <2> QED
    BY Zenon, <2>1, <2>2, <2>3, BaseKept, ExecKept, CallsKept DEF AInv
<1>2. CASE Next
  BY Zenon, <1>2, ClientStepA, HttpStepA, ReadStepA, RuntimeStepA, BatchesA, AdminStepA, ProcessA
     DEF Next
<1> QED
  BY <1>1, <1>2

\* Whatever clients, embedded callers and the administrator ask of however many
\* nodes, and whatever crashes, times out or is lost, a client that is told a
\* write succeeded finds it in the log at the index it was told, with the
\* payload it sent, and in the archive; and a read that asks for it shows every
\* write acknowledged before, at any node.
THEOREM AnswersAreTrueAlways == Spec => []AnswersAreTrue
<1>1. AInv => AnswersAreTrue
  <2> SUFFICES ASSUME AInv PROVE AnswersAreTrue
    BY SMTT(30)
  <2>1. ASSUME NEW c \in Calls
        PROVE  /\ TrueAnswer(c, client[c].result)
               /\ \A n \in Nodes : TrueAnswer(c, handler[c][n].answer)
    BY Zenon, CallAt DEF CallA, HandlerA
  <2>2. EmbeddedA(embedded)
    BY Zenon DEF AInv, ExecA
  <2>3. ASSUME NEW c \in Calls,
               NEW a \in {client[c].result} \cup {handler[c][n].answer : n \in Nodes}
        PROVE  IF IsRead(request[c]) THEN Recent(c, a)
               ELSE Committed(request[c], a) /\ Archived(a)
    <3>1. TrueAnswer(c, a)
      BY Zenon, <2>1
    <3> QED
      BY Zenon, <3>1 DEF TrueAnswer
  <2>4. \A i \in DOMAIN embedded.results :
           /\ Committed(embedded.members[i], embedded.results[i])
           /\ embedded.stage \in {"done", "closed"} => Archived(embedded.results[i])
    BY <2>2 DEF EmbeddedA, TrueResult
  <2> QED
    BY Zenon, <2>3, <2>4 DEF AnswersAreTrue
<1> QED
  BY <1>1, InitAInv, NextAInv, PTL DEF Spec
=============================================================================
