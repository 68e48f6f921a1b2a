---------------------------- MODULE HttpService -----------------------------
(***************************************************************************)
(* The write side of a node's HTTP service over WriteExecution: the client *)
(* gate with its permits, coordinate_write with its table of requests in   *)
(* flight, the writer task that batches them, confirms durability and      *)
(* hands the results to every handler that waits for the identifier.  The  *)
(* embedded handle's typed batch shares the runtime.                       *)
(***************************************************************************)
EXTENDS WriteExecution

CONSTANTS
    Calls,               \* the requests sent to a node, one per client call
    WriterBatchMax,      \* writer_batch_max
    TypedBatches         \* the member sequences an embedded caller may pass

ASSUME BatchAssumption ==
    /\ WriterBatchMax \in Nat \ {0}
    /\ TypedBatches \subseteq Seq(Request)

VARIABLES
    concurrency, \* client_concurrency: permits of the gate, places of the queue
    request,     \* per call: the request it carries to every endpoint
    handler,     \* per call and node: its handler, and the answer once there is one
    permits,     \* per node: free permits of the client gate
    inflight,    \* per node: write_operations
    queue,       \* per node: the channel to the writer task
    writer,      \* per node: what the writer task does, and its batch
    embedded,    \* the typed batch of the embedded handle
    archived     \* how many entries the archive holds

httpVars == <<concurrency, request, handler, permits, inflight, queue, writer, embedded, archived>>

\* A handler: not sent, sent, waiting for a request another handler queued,
\* waiting for the one it queued itself, answered, or without a client.
Handler(state, answer) == [state |-> state, answer |-> answer]
Unsent == Handler("none", None)
Gone == Handler("gone", None)
Waiting(h) == h.state \in {"joined", "owner"}

IdleWriter == [stage |-> "idle", batch |-> <<>>, results |-> <<>>]

HttpInit ==
    /\ handler = [c \in Calls |-> [n \in Nodes |-> Unsent]]
    /\ permits = [n \in Nodes |-> concurrency]
    /\ inflight = [n \in Nodes |-> {}]
    /\ queue = [n \in Nodes |-> <<>>]
    /\ writer = [n \in Nodes |-> IdleWriter]
    /\ embedded = [stage |-> "idle", at |-> CHOOSE n \in Nodes : TRUE,
                   members |-> <<>>, results |-> <<>>]
    /\ archived = 0

-----------------------------------------------------------------------------
\* client_gate and coordinate_write.

Answered(c, n, answer) == handler' = [handler EXCEPT ![c][n] = Handler("answered", answer)]

\* The gate refuses: fatal state, or no permit left.
Refuse(c, n) ==
    /\ handler[c][n].state = "sent"
    /\ \/ node[n].fatal /\ Answered(c, n, Err("fatal"))
       \/ ~node[n].fatal /\ permits[n] = 0 /\ Answered(c, n, Err("retry"))
    /\ UNCHANGED <<concurrency, request, permits, inflight, queue, writer, embedded, archived>>

\* The runtime is not ready, or the coordinator allows no writes now.
Unready(c, n) ==
    /\ handler[c][n].state = "sent" /\ ~node[n].fatal
    /\ Answered(c, n, Err("retry"))
    /\ UNCHANGED <<concurrency, request, permits, inflight, queue, writer, embedded, archived>>

\* The handler validates the command before it queues it.  (The weight of an
\* SQL payload is that of its effect, which only the proposer knows.)
GraphCommandFits(r) == Weight[r.payload] <= limit
KvCommandFits(r) == Weight[r.payload] <= limit
Validates(r) ==
    CASE profile = "graph" -> GraphCommandFits(r)
      [] profile = "kv" -> KvCommandFits(r)
      [] OTHER -> TRUE

\* coordinate_write: join the operation in flight, or conflict with it, or
\* become it.  The permit travels with the queued write.
Admit(c, n) ==
    LET r == request[c]
        same == {q \in inflight[n] : q.id = r.id}
    IN  /\ handler[c][n].state = "sent" /\ r.id \in Ids
        /\ ~node[n].fatal /\ permits[n] > 0
        /\ \/ /\ ~Validates(r)
              /\ Answered(c, n, Err("invalid"))
              /\ UNCHANGED <<permits, inflight, queue>>
           \/ /\ Validates(r) /\ \E q \in same : q # r
              /\ Answered(c, n, Err("conflict"))
              /\ UNCHANGED <<permits, inflight, queue>>
           \/ /\ Validates(r) /\ r \in same
              /\ handler' = [handler EXCEPT ![c][n] = Handler("joined", None)]
              /\ permits' = [permits EXCEPT ![n] = @ - 1]
              /\ UNCHANGED <<inflight, queue>>
           \/ /\ Validates(r) /\ same = {}
              /\ handler' = [handler EXCEPT ![c][n] = Handler("owner", None)]
              /\ permits' = [permits EXCEPT ![n] = @ - 1]
              /\ inflight' = [inflight EXCEPT ![n] = @ \cup {r}]
              /\ queue' = [queue EXCEPT ![n] = Append(@, r)]
        /\ UNCHANGED <<concurrency, request, writer, embedded, archived>>

\* A handler ends: one that joined gives its permit back, the one that queued
\* the write has passed it on.
Returned(n, ended) == Cardinality({c \in ended : handler[c][n].state = "joined"})

\* As HandlerTimeout, and the request leaves the table.
HandlerTimeoutForgets(c, n) ==
    /\ Waiting(handler[c][n])
    /\ Answered(c, n, Err("retry"))
    /\ permits' = [permits EXCEPT ![n] = @ + Returned(n, {c})]
    /\ inflight' = [inflight EXCEPT ![n] = @ \ {request[c]}]
    /\ UNCHANGED <<concurrency, request, queue, writer, embedded, archived>>

\* CLIENT_WRITE_WAIT_TIMEOUT passes: the write stays in flight.
HandlerTimeout(c, n) ==
    /\ Waiting(handler[c][n])
    /\ Answered(c, n, Err("retry"))
    /\ permits' = [permits EXCEPT ![n] = @ + Returned(n, {c})]
    /\ UNCHANGED <<concurrency, request, inflight, queue, writer, embedded, archived>>

-----------------------------------------------------------------------------
\* writer_loop.

\* What the batch window has brought together goes to execute_client_batch.
WriterTake(n) ==
    /\ writer[n].stage = "idle"
    /\ \E k \in 1 .. Min({Len(queue[n]), WriterBatchMax}) :
          /\ Begin(n, "http", SubSeq(queue[n], 1, k))
          /\ writer' = [writer EXCEPT ![n] = [IdleWriter EXCEPT !.stage = "running",
                                                       !.batch = SubSeq(queue[n], 1, k)]]
          /\ queue' = [queue EXCEPT ![n] = SubSeq(@, k + 1, Len(@))]
    /\ UNCHANGED <<concurrency, request, handler, permits, inflight, embedded, archived>>

\* The batch returns: the permits are dropped before durability is confirmed.
WriterReturns(n) ==
    /\ writer[n].stage = "running" /\ exec[n].owner = "http" /\ Finished(n)
    /\ writer' = [writer EXCEPT ![n].stage = "confirm", ![n].results = ResultsOf(n)]
    /\ permits' = [permits EXCEPT ![n] = @ + Len(writer[n].batch)]
    /\ exec' = [exec EXCEPT ![n] = Free]
    /\ UNCHANGED <<profile, limit, node, log, offers>>
    /\ UNCHANGED <<concurrency, request, handler, inflight, queue, embedded, archived>>

CommittedIndexes(results) == {results[i].index : i \in {j \in DOMAIN results : results[j].kind = "ok"}}

\* As Confirm, for the lowest index of the batch.
ConfirmLowest(results) ==
    LET indexes == CommittedIndexes(results)
    IN  archived' = IF indexes = {} THEN archived ELSE Max({Min(indexes), archived})

\* confirm_write_durability in Sync mode for the highest index of the batch.
Confirm(results) ==
    LET indexes == CommittedIndexes(results)
    IN  archived' = IF indexes = {} THEN archived ELSE Max(indexes \cup {archived})

Unconfirmed(results) ==
    [i \in DOMAIN results |-> IF results[i].kind = "ok" THEN Err("retry") ELSE results[i]]

WriterConfirms(n) ==
    /\ writer[n].stage = "confirm"
    /\ writer' = [writer EXCEPT ![n].stage = "deliver"]
    /\ Confirm(writer[n].results)
    /\ UNCHANGED <<concurrency, request, handler, permits, inflight, queue, embedded>>

\* Shutdown or a durability error: the committed members are not acknowledged.
ConfirmFails(n) ==
    /\ writer[n].stage = "confirm"
    /\ CommittedIndexes(writer[n].results) # {}
    /\ writer' = [writer EXCEPT ![n].stage = "deliver", ![n].results = Unconfirmed(@)]
    /\ UNCHANGED <<concurrency, request, handler, permits, inflight, queue, embedded, archived>>

\* One result goes to every handler that waits for it, then leaves the table.
WriterDelivers(n) ==
    LET r == Head(writer[n].batch)
        waiting == {c \in Calls : request[c] = r /\ Waiting(handler[c][n])}
    IN  /\ writer[n].stage = "deliver"
        /\ handler' = [c \in Calls |-> IF c \in waiting
                          THEN [handler[c] EXCEPT ![n] =
                                   Handler("answered", Head(writer[n].results))]
                          ELSE handler[c]]
        /\ permits' = [permits EXCEPT ![n] = @ + Returned(n, waiting)]
        /\ inflight' = [inflight EXCEPT ![n] = @ \ {r}]
        /\ writer' = [writer EXCEPT ![n] =
              IF Len(@.batch) = 1 THEN IdleWriter
              ELSE [@ EXCEPT !.batch = Tail(writer[n].batch), !.results = Tail(writer[n].results)]]
        /\ UNCHANGED <<concurrency, request, queue, embedded, archived>>

-----------------------------------------------------------------------------
\* A batch handed to the runtime by its own process: the embedded handle's for
\* SQL, mutate_graph_batch and mutate_kv_batch for the other profiles.

EmbeddedBatch(n) ==
    /\ embedded.stage = "idle"
    /\ \E members \in TypedBatches :
          /\ \A i \in DOMAIN members : Validates(members[i])
          /\ Begin(n, "embedded", members)
          /\ embedded' = [embedded EXCEPT !.stage = "running", !.at = n, !.members = members]
    /\ UNCHANGED <<concurrency, request, handler, permits, inflight, queue, writer, archived>>

\* Only the embedded handle confirms durability before it returns.
EmbeddedReturns(n) ==
    /\ embedded.stage = "running" /\ exec[n].owner = "embedded" /\ Finished(n)
    /\ embedded' = [embedded EXCEPT !.stage = IF profile = "sql" THEN "confirm" ELSE "returned",
                                    !.results = ResultsOf(n)]
    /\ exec' = [exec EXCEPT ![n] = Free]
    /\ UNCHANGED <<profile, limit, node, log, offers>>
    /\ UNCHANGED <<concurrency, request, handler, permits, inflight, queue, writer, archived>>

\* execute_typed_batch: without confirmation the whole batch is indeterminate.
EmbeddedConfirms ==
    /\ embedded.stage = "confirm"
    /\ \/ /\ Confirm(embedded.results)
          /\ embedded' = [embedded EXCEPT !.stage = "done"]
       \/ /\ CommittedIndexes(embedded.results) # {}
          /\ embedded' = [embedded EXCEPT !.stage = "indeterminate", !.results = <<>>]
          /\ UNCHANGED archived
    /\ UNCHANGED <<concurrency, request, handler, permits, inflight, queue, writer>>

\* shutdown waits for the operations begun, then flushes the applied tip.
EmbeddedShutdown ==
    /\ embedded.stage \in {"done", "indeterminate"} /\ profile = "sql"
    /\ ~node[embedded.at].fatal
    /\ embedded' = [embedded EXCEPT !.stage = "closed"]
    /\ archived' = Max({archived, node[embedded.at].applied})
    /\ UNCHANGED <<concurrency, request, handler, permits, inflight, queue, writer>>

-----------------------------------------------------------------------------
\* The process dies with its table, queue and handlers; connections are reset.
ProcessRestarts(n, config) ==
    /\ Restarted(n, config)
    /\ handler' = [c \in Calls |->
                     IF handler[c][n].state \in {"sent", "joined", "owner", "reading"}
                     THEN [handler[c] EXCEPT ![n] = Handler("answered", Err("retry"))]
                     ELSE handler[c]]
    /\ permits' = [permits EXCEPT ![n] = concurrency]
    /\ inflight' = [inflight EXCEPT ![n] = {}]
    /\ queue' = [queue EXCEPT ![n] = <<>>]
    /\ writer' = [writer EXCEPT ![n] = IdleWriter]
    /\ embedded' = IF embedded.at = n /\ embedded.stage \in {"running", "confirm"}
                   THEN [embedded EXCEPT !.stage = "indeterminate", !.results = <<>>]
                   ELSE embedded
    /\ UNCHANGED <<profile, limit, log, offers, concurrency, request>>

-----------------------------------------------------------------------------
(***************************************************************************)
(* The read side of a node's HTTP service.  A read runs as a blocking task *)
(* that goes on when its client has left.  What a read barrier establishes *)
(* is the subject of ReadBarrier; here it is one step that finds the node  *)
(* caught up with everything decided.                                      *)
(***************************************************************************)

CONSTANT Consistencies   \* the reads a call may be: "local", "applied", "barrier"

VARIABLES
    floor,    \* per call: the highest index acknowledged before it started
    read      \* per call and node: the blocking task of a read

readVars == <<floor, read>>

\* A read carries no request identifier.
IsRead(r) == r.payload \in Consistencies

NoTask == [stage |-> "none", required |-> 0]

ReadInit ==
    /\ floor = [c \in Calls |-> 0]
    /\ read = [c \in Calls |-> [n \in Nodes |-> NoTask]]

\* The gate admits a read: its permit goes to the task, for a graph query it
\* stays with the handler.
AdmitRead(c, n) ==
    /\ handler[c][n].state = "sent" /\ IsRead(request[c])
    /\ ~node[n].fatal /\ permits[n] > 0
    /\ handler' = [handler EXCEPT ![c][n] = Handler("reading", None)]
    /\ permits' = [permits EXCEPT ![n] = @ - 1]
    /\ read' = [read EXCEPT ![c][n] =
          [stage |-> IF request[c].payload = "barrier" THEN "asked" ELSE "ready",
           required |-> IF request[c].payload = "applied" THEN floor[c] ELSE 0]]
    /\ UNCHANGED <<concurrency, request, inflight, queue, writer, embedded, archived, floor>>

\* establish_read_barrier: under the commit mutex, with nothing left to learn.
BarrierEstablished(c, n) ==
    /\ read[c][n].stage = "asked"
    /\ exec[n].mode = "free" /\ ~node[n].fatal /\ Writable(n)
    /\ node[n].applied = Len(log)
    /\ read' = [read EXCEPT ![c][n] = [stage |-> "anchored", required |-> node[n].applied]]
    /\ UNCHANGED <<httpVars, floor>>

HoldsPermit(c, n) ==
    IF profile = "graph" THEN handler[c][n].state = "reading" ELSE read[c][n].stage # "none"

\* The task ends with a result, which its handler sends if it still waits.
EndRead(c, n, result) ==
    /\ read' = [read EXCEPT ![c][n] = NoTask]
    /\ handler' = IF handler[c][n].state # "reading" THEN handler
                  ELSE [handler EXCEPT ![c][n] = Handler("answered", result)]
    /\ permits' = [permits EXCEPT ![n] = @ + (IF HoldsPermit(c, n) THEN 1 ELSE 0)]
    /\ UNCHANGED <<concurrency, request, inflight, queue, writer, embedded, archived, floor>>

\* What the local materializer answers.
LocalRead(n, required) ==
    IF node[n].fatal THEN Err("fatal")
    ELSE IF node[n].compacting \/ node[n].applied < required THEN Err("retry")
    ELSE Ok(node[n].applied)

\* After a barrier the configuration is checked again under the commit mutex.
\* SQL reads before it lets the mutex go, ...
SqlReadReturns(c, n) ==
    LET barrier == read[c][n].stage = "anchored"
    IN  /\ profile = "sql" /\ read[c][n].stage \in {"ready", "anchored"}
        /\ barrier => exec[n].mode = "free"
        /\ EndRead(c, n, IF barrier /\ ~node[n].fatal /\ ~Writable(n)
                         THEN Err("retry") ELSE LocalRead(n, read[c][n].required))

\* ... graph and KV read afterwards.
BarrierValidated(c, n) ==
    /\ profile # "sql" /\ read[c][n].stage = "anchored"
    /\ exec[n].mode = "free"
    /\ IF node[n].fatal THEN EndRead(c, n, Err("fatal"))
       ELSE IF ~Writable(n) THEN EndRead(c, n, Err("retry"))
       ELSE /\ read' = [read EXCEPT ![c][n].stage = "ready"]
            /\ UNCHANGED <<httpVars, floor>>

TypedReadReturns(c, n) ==
    /\ profile # "sql" /\ read[c][n].stage = "ready"
    /\ EndRead(c, n, LocalRead(n, read[c][n].required))

\* The barrier fails: no quorum, a stopped configuration, a fatal node.
BarrierFails(c, n) ==
    /\ read[c][n].stage = "asked"
    /\ EndRead(c, n, Err(IF node[n].fatal THEN "fatal" ELSE "retry"))

\* The handler of a read ends without its task.
ReaderLeaves(c, n) ==
    /\ handler[c][n].state = "reading"
    /\ handler' = [handler EXCEPT ![c][n] = Gone]
    /\ permits' = [permits EXCEPT ![n] = @ + (IF profile = "graph" THEN 1 ELSE 0)]
    /\ UNCHANGED <<concurrency, request, inflight, queue, writer, embedded, archived, readVars>>

\* Every permit is free, carried by a queued or executing write, or held by a
\* handler that joined one or by a read; the table of operations holds exactly
\* the writes the queue or the writer still has, so no handler waits for a
\* result that nobody will send, and the queue has a place for every permit:
\* sending to it never waits.
ClientGateAccounted ==
    \A n \in Nodes :
        LET carried == Len(queue[n]) +
                       (IF writer[n].stage = "running" THEN Len(writer[n].batch) ELSE 0)
            held == {c \in Calls : handler[c][n].state = "joined" \/ HoldsPermit(c, n)}
            known == queue[n] \o writer[n].batch
        IN  /\ permits[n] + carried + Cardinality(held) = concurrency
            /\ inflight[n] = {known[i] : i \in DOMAIN known}
            /\ Cardinality(IdsOf(inflight[n])) = Len(known)
            /\ \A c \in Calls : Waiting(handler[c][n]) => request[c] \in inflight[n]
=============================================================================
