---------------------------- MODULE ClientCalls ----------------------------
(***************************************************************************)
(* The client library's write calls against several nodes: RhizaClient     *)
(* sends the same request to one endpoint after another, hedges when an    *)
(* attempt is slow, follows the server's retry guidance, and forgets the   *)
(* attempts it no longer needs, which the nodes may execute all the same.  *)
(***************************************************************************)
EXTENDS AdminOperations

CONSTANTS
    Endpoints,   \* the nodes in the order the client was given them
    Scenarios    \* profile, requests and bounds of a behaviour: the limit of a
                 \* command, the administrator's requests, and how many calls,
                 \* crashes, shutdowns, typed batches, timeouts and failures it
                 \* may have

\* What the callers send: a request that carries an identifier is one of Request,
\* and no read carries one.
ASSUME ScenarioAssumption ==
    \A s \in Scenarios :
        /\ s.profile \in {"sql", "kv", "graph"}
        /\ \A c \in Calls :
              /\ s.request[c].id \in Ids => s.request[c] \in Request
              /\ IsRead(s.request[c]) => s.request[c].id \notin Ids
        /\ \A k \in DOMAIN s.admin : s.admin[k] \in
              [at : Nodes, id : {s.admin[k].id}, kind : STRING, expect : Nat, next : Nat,
               to : Nat, root : Nat, cli : BOOLEAN]

VARIABLES
    client,      \* per call: its state, attempts spawned and open, and result
    left         \* what is left of the bounds

vars == <<logVars, executionVars, httpVars, readVars, adminVars, client, left>>

Init ==
    /\ \E s \in Scenarios :
          /\ profile = s.profile
          /\ request = s.request
          /\ limit = s.limit
          /\ concurrency = s.concurrency
          /\ ask = s.admin
          /\ left = s.left
    /\ ExecutionInit
    /\ HttpInit
    /\ ReadInit
    /\ AdminInit
    /\ client = [c \in Calls |-> [state |-> "idle", next |-> 0, open |-> {}, result |-> None]]

-----------------------------------------------------------------------------
\* json_request.

\* spawn_client_attempt on the next endpoint.
Spawned(k) == [k EXCEPT !.next = @ + 1, !.open = @ \cup {Endpoints[k.next + 1]}]
Sent(h, k) == [h EXCEPT ![Endpoints[k.next + 1]] = Handler("sent", None)]

Start(c) ==
    /\ client[c].state = "idle"
    /\ floor' = [floor EXCEPT ![c] = Max({0} \cup {client[d].result.index : d \in Calls})]
    /\ client' = [client EXCEPT ![c] = [Spawned(@) EXCEPT !.state = "running"]]
    /\ handler' = [handler EXCEPT ![c] = Sent(@, client[c])]

\* hedge_delay passes: the next endpoint is asked as well, unless the read
\* needs a barrier.
Hedge(c) ==
    /\ request[c].payload # "barrier"
    /\ client[c].state = "running" /\ client[c].next < Len(Endpoints)
    /\ client' = [client EXCEPT ![c] = Spawned(@)]
    /\ handler' = [handler EXCEPT ![c] = Sent(@, client[c])]

\* abort_all: answers nobody reads are dropped, handlers go on.
Abandoned(h) == [n \in Nodes |-> IF h[n].state = "answered" THEN Gone ELSE h[n]]

Return(c, h, result) ==
    /\ client' = [client EXCEPT ![c] = [@ EXCEPT !.state = "done", !.open = {}, !.result = result]]
    /\ handler' = [handler EXCEPT ![c] = Abandoned(h)]

\* A retryable error of one attempt: the next endpoint is tried at once, and
\* the call fails when there is none and no attempt is left.
AttemptFailed(c, n, h) ==
    LET k == [client[c] EXCEPT !.open = @ \ {n}]
    IN  IF k.next < Len(Endpoints)
        THEN /\ client' = [client EXCEPT ![c] = Spawned(k)]
             /\ handler' = [handler EXCEPT ![c] = Sent(h, k)]
        ELSE IF k.open = {} THEN Return(c, h, Err("failed"))
        ELSE /\ client' = [client EXCEPT ![c] = k]
             /\ handler' = [handler EXCEPT ![c] = h]

\* join_next: success and final errors end the call.
TakeAnswer(c, n) ==
    LET answer == handler[c][n].answer
        h == [handler[c] EXCEPT ![n] = Gone]
    IN  /\ n \in client[c].open /\ handler[c][n].state = "answered"
        /\ IF Retryable(answer.kind) THEN AttemptFailed(c, n, h) ELSE Return(c, h, answer)

\* attempt_timeout: the client stops listening, the handler does not know.
AttemptTimeout(c, n) ==
    /\ n \in client[c].open
    /\ AttemptFailed(c, n, IF handler[c][n].state = "answered"
                           THEN [handler[c] EXCEPT ![n] = Gone] ELSE handler[c])

\* operation_timeout.
Deadline(c) ==
    /\ client[c].state = "running"
    /\ Return(c, handler[c], Err("failed"))

\* The request does not reach the node, or its answer is lost.
TransportFails(c, n) ==
    /\ handler[c][n].state \in {"sent", "answered"}
    /\ handler' = [handler EXCEPT ![c][n] =
          IF n \in client[c].open THEN Handler("answered", Err("retry")) ELSE Gone]
    /\ UNCHANGED client

Spend(what) == left[what] > 0 /\ left' = [left EXCEPT ![what] = @ - 1]

ClientStep ==
    /\ \/ \E c \in Calls : Start(c) /\ Spend("calls")
       \/ /\ \/ \E c \in Calls : Hedge(c)
             \/ \E c \in Calls, n \in Nodes : TakeAnswer(c, n)
          /\ UNCHANGED <<left, floor>>
       \/ /\ \/ \E c \in Calls : Deadline(c)
             \/ \E c \in Calls, n \in Nodes : AttemptTimeout(c, n) \/ TransportFails(c, n)
          /\ Spend("lost")
          /\ UNCHANGED floor
    /\ UNCHANGED <<concurrency, request, permits, inflight, queue, writer, embedded, archived>>
    /\ UNCHANGED <<logVars, executionVars, adminVars, read>>

\* The server notices that the client of a waiting handler has gone.
Disconnect(c, n) ==
    /\ n \notin client[c].open /\ Waiting(handler[c][n])
    /\ handler' = [handler EXCEPT ![c][n] = Gone]
    /\ permits' = [permits EXCEPT ![n] = @ + Returned(n, {c})]
    /\ UNCHANGED <<concurrency, request, inflight, queue, writer, embedded, archived>>

-----------------------------------------------------------------------------
HttpStep ==
    /\ \/ /\ \/ \E c \in Calls, n \in Nodes : Refuse(c, n) \/ Admit(c, n) \/ Disconnect(c, n)
             \/ \E n \in Nodes : WriterConfirms(n) \/ WriterDelivers(n)
             \/ EmbeddedConfirms \/ EmbeddedShutdown
          /\ UNCHANGED left
       \/ \E c \in Calls, n \in Nodes : (HandlerTimeout(c, n) \/ Unready(c, n)) /\ Spend("lost")
       \/ \E n \in Nodes : ConfirmFails(n) /\ Spend("failed")
    /\ UNCHANGED <<logVars, executionVars, readVars, adminVars, client>>

ReadStep ==
    /\ \/ /\ \E c \in Calls, n \in Nodes :
                \/ AdmitRead(c, n) \/ BarrierEstablished(c, n) \/ SqlReadReturns(c, n)
                \/ BarrierValidated(c, n) \/ TypedReadReturns(c, n)
                \/ n \notin client[c].open /\ ReaderLeaves(c, n)
          /\ UNCHANGED left
       \/ \E c \in Calls, n \in Nodes : BarrierFails(c, n) /\ Spend("failed")
    /\ UNCHANGED <<logVars, executionVars, adminVars, client>>

RuntimeStep ==
    /\ \/ /\ DecideSlot \/ \E n \in Nodes : BatchStep(n) \/ Materialize(n)
          /\ UNCHANGED left
       \/ \E n \in Nodes : (ApplyFails(n) \/ GiveUp(n) \/ CertifyFails(n)) /\ Spend("failed")
    /\ UNCHANGED <<httpVars, readVars, adminVars, client>>

WriterStep ==
    /\ \E n \in Nodes : WriterTake(n) \/ WriterReturns(n) \/ EmbeddedReturns(n)
    /\ UNCHANGED <<readVars, adminVars, client, left>>

EmbeddedStep ==
    /\ Spend("embedded")
    /\ \E n \in Nodes : EmbeddedBatch(n)
    /\ UNCHANGED <<readVars, adminVars, client>>

\* The administrator sends a request when the ones before it are answered, or
\* at once.
AdminStep ==
    \/ /\ \/ /\ \/ \E k \in DOMAIN ask : \/ Enter(k) \/ CountIn(k) \/ AdmitOperation(k)
                                           \/ ShowStatus(k) \/ AnswerFromLedger(k)
                \/ \E n \in Nodes : Install(n) \/ RecordResult(n) \/ AdminIdle(n)
             /\ UNCHANGED left
          \/ \E k \in DOMAIN ask : OperationTimeout(k) /\ Spend("lost")
          \/ \E k \in DOMAIN ask : StatusFails(k) /\ Spend("failed")
          \/ \E n \in Nodes : RecordFails(n) /\ Spend("failed")
          \/ \E n \in Nodes : Shutdown(n) /\ Spend("shutdown")
       /\ UNCHANGED <<logVars, executionVars, httpVars, readVars, client>>
    \/ /\ \E n \in Nodes :
             \/ BeginStop(n) \/ StopAgain(n) \/ BeginActivate(n) \/ OperationReturns(n)
             \/ CompactBegins(n)
       /\ UNCHANGED <<httpVars, readVars, client, left, ask, operation, ledger, gate, store>>

CompactStep ==
    /\ \/ (\E n \in Nodes : CompactPublishes(n)) /\ UNCHANGED left
       \/ \E n \in Nodes : CompactFails(n) /\ Spend("failed")
    /\ UNCHANGED <<concurrency, request, handler, permits, inflight, queue, writer, embedded>>
    /\ UNCHANGED <<readVars, client>>

\* The tasks of a process end with it.
TasksEnd(n) ==
    /\ read' = [c \in Calls |-> [read[c] EXCEPT ![n] = NoTask]]
    /\ UNCHANGED floor

Crash ==
    /\ Spend("crash")
    /\ \E n \in Nodes :
          ProcessRestarts(n, node[n].config) /\ TasksEnd(n) /\ AdminRestarts(n)
    /\ UNCHANGED <<client, archived>>

\* The last step of an orderly shutdown, and the next start.
FlushAndExit ==
    /\ \E n \in Nodes :
          /\ gate[n].flushing
          /\ archived' = Max({archived, gate[n].target})
          /\ ProcessRestarts(n, node[n].config) /\ TasksEnd(n) /\ AdminRestarts(n)
    /\ UNCHANGED <<client, left>>

\* A node that has applied the Stop is reopened with the successor's bundle.
\* (The graph and KV materializers are bound to the configuration they were
\* opened with, and apply no Activation.)
ReopenAsSuccessor ==
    /\ profile = "sql"
    /\ \E n \in Nodes :
          /\ ~IsActive(node[n].applied)
          /\ node[n].config = log[node[n].applied].config
          /\ ProcessRestarts(n, node[n].config + 1) /\ TasksEnd(n) /\ AdminRestarts(n)
    /\ UNCHANGED <<client, left, archived>>

Next ==
    \/ ClientStep \/ HttpStep \/ ReadStep \/ RuntimeStep \/ WriterStep
    \/ EmbeddedStep \/ AdminStep \/ CompactStep \/ Crash \/ FlushAndExit \/ ReopenAsSuccessor

Spec == Init /\ [][Next]_vars

-----------------------------------------------------------------------------
\* The request is committed where the result says, with the payload sent.
Committed(r, result) ==
    result.kind = "ok" =>
        /\ result.index \in 1 .. Len(log)
        /\ r \in log[result.index].requests

Archived(result) == result.kind = "ok" => result.index <= archived

\* The tip a read shows has everything acknowledged before the call began.
Recent(c, result) ==
    result.kind = "ok" /\ request[c].payload \in {"applied", "barrier"} =>
        result.index >= floor[c]

\* An acknowledged request is committed, at the index the answer names, with
\* the payload that was sent, and archived as Sync mode promises; whichever
\* endpoint answered, and also when the answer comes from a receipt that an
\* earlier attempt left behind.  A read that asks for it shows every write that
\* was acknowledged before, at any node.
AnswersAreTrue ==
    /\ \A c \in Calls :
          LET answers == {client[c].result} \cup {handler[c][n].answer : n \in Nodes}
          IN  \A a \in answers : IF IsRead(request[c]) THEN Recent(c, a)
                                 ELSE Committed(request[c], a) /\ Archived(a)
    /\ \A i \in DOMAIN embedded.results :
          /\ Committed(embedded.members[i], embedded.results[i])
          /\ embedded.stage \in {"done", "closed"} => Archived(embedded.results[i])

\* The write path of all nodes together keeps the promise of RequestLog.
ImplementsRequestLog == LogSpec
=============================================================================
