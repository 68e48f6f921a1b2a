------------------------- MODULE RecorderTransports -------------------------
(***************************************************************************)
(* The recorder's side of the recorder transports (rhiza-node,             *)
(* recorder_tcp.rs and recorder_tcp/postcard_rpc.rs).  A connection task   *)
(* reads requests; each takes one of a fixed number of permits into a      *)
(* blocking thread that nobody can cancel: neither its deadline nor the    *)
(* end of its connection stops it, and only its end gives the permit back. *)
(* A connection of the first protocol serves one request at a time, one of *)
(* the second as many as permits allow, each answered under its own number.*)
(* Over HTTP (lib.rs, recorder_routes) a request has a connection of its   *)
(* own, no deadline at the server, and an orderly stop waits for those     *)
(* whose client still listens.                                             *)
(***************************************************************************)
EXTENDS Integers, Sequences, FiniteSets, FiniteSetsExt

CONSTANTS
    CallerGeneration,  \* the recovery generation of the callers
    Calls,           \* the calls, which are their request numbers too
    Conns,           \* connections
    Permits,         \* DEFAULT_PEER_CONCURRENCY
    MaxConnections   \* MAX_SERVER_CONNECTIONS

VARIABLES
    wire,            \* "pool" for recorder_tcp, "lane" for postcard_rpc, or "http"
    generation,      \* the recovery generation the server was started in
    server,          \* "off", "up", "draining" or "stopped"
    permits,         \* operation permits left
    running,         \* the requests in blocking threads
    executed,        \* what came of each request: "none" until it is executed
    conns            \* both ends of the connections

serverVars == <<server, generation, permits, running, executed, conns>>

Closed == [client |-> FALSE, server |-> FALSE, inbox |-> <<>>, outbox |-> <<>>, waits |-> {}]
Opened == [Closed EXCEPT !.client = TRUE, !.server = TRUE]

Failed == <<"error", 0>>
Overloaded == <<"overloaded", 0>>

\* What is sent to an end that is closed is lost.
Request(k, id) == [k EXCEPT !.inbox = IF k.server THEN Append(@, id) ELSE @]
Reply(k, id, body) == [k EXCEPT !.outbox = IF k.client THEN Append(@, <<id, body>>) ELSE @]
DropClient(k) == IF k.server THEN [k EXCEPT !.client = FALSE, !.outbox = <<>>] ELSE Closed
DropServer(k) == IF k.client THEN [k EXCEPT !.server = FALSE, !.inbox = <<>>, !.waits = {}] ELSE Closed

\* hello_authenticated: a caller of another recovery generation is turned away.
HelloAccepted == generation = CallerGeneration

\* A connection beyond the limit is dropped before its HELLO.
Accepts ==
    /\ server = "up" /\ HelloAccepted
    /\ Cardinality({k \in Conns : conns[k].server}) < MaxConnections

ServerStarts(gen) ==
    /\ server' = "up" /\ generation' = gen /\ permits' = Permits
    /\ UNCHANGED <<running, executed, conns>>

\* serve_connection, serve_postcard_rpc_connection, peer_gate: without a permit
\* the answer is that the recorder is overloaded; over HTTP, where a caller's
\* generation is looked at here, it has no body that a client could read.
ReadRequest(k) ==
    /\ conns[k].server /\ conns[k].inbox # <<>>
    /\ wire = "pool" => conns[k].waits = {}
    /\ LET id == Head(conns[k].inbox)
           read == [conns[k] EXCEPT !.inbox = Tail(@)]
       IN  IF permits = 0 \/ ~HelloAccepted
           THEN /\ conns' = [conns EXCEPT ![k] =
                              Reply(read, id, IF wire = "http" THEN Failed ELSE Overloaded)]
                /\ UNCHANGED <<permits, running>>
           ELSE /\ conns' = [conns EXCEPT ![k] = [read EXCEPT !.waits = @ \cup {id}]]
                /\ permits' = permits - 1
                /\ running' = running \cup {id}
    /\ UNCHANGED <<server, generation, executed>>

\* dispatch_with_deadline: the deadline is over before a thread is started.
RefuseExpired(k) ==
    /\ wire = "pool" /\ conns[k].server /\ conns[k].inbox # <<>> /\ conns[k].waits = {}
    /\ permits > 0
    /\ conns' = [conns EXCEPT ![k] = Reply([@ EXCEPT !.inbox = Tail(@)], Head(conns[k].inbox), Failed)]
    /\ UNCHANGED <<server, generation, permits, running, executed>>

\* dispatch, in its thread: the recorder carries the request out or refuses it.
Execute(id, outcome) ==
    /\ id \in running
    /\ executed' = [executed EXCEPT ![id] = outcome]
    /\ running' = running \ {id}
    /\ permits' = permits + 1
    /\ UNCHANGED <<server, generation, conns>>

\* A connection that HTTP's orderly stop kept ends with its answer.
Ended(k) == IF server = "draining" THEN DropServer(k) ELSE k

RespondToLatest(k, id) ==
    /\ id \in conns[k].waits \ running
    /\ conns' = [conns EXCEPT ![k] = Ended(Reply([@ EXCEPT !.waits = @ \ {id}],
                                                 Max(conns[k].waits), <<executed[id], id>>))]
    /\ UNCHANGED <<server, generation, permits, running, executed>>

Respond(k, id) ==
    /\ id \in conns[k].waits \ running
    /\ conns' = [conns EXCEPT ![k] = Ended(Reply([@ EXCEPT !.waits = @ \ {id}], id,
                                                 <<executed[id], id>>))]
    /\ UNCHANGED <<server, generation, permits, running, executed>>

DeadlineFreesPermit(k, id) ==
    /\ wire # "http" /\ id \in conns[k].waits \cap running
    /\ conns' = [conns EXCEPT ![k] = Reply([@ EXCEPT !.waits = @ \ {id}], id, Failed)]
    /\ permits' = permits + 1
    /\ UNCHANGED <<server, generation, running, executed>>

\* The answer at the deadline; the thread goes on, with its permit.
Deadline(k, id) ==
    /\ wire # "http" /\ id \in conns[k].waits \cap running
    /\ conns' = [conns EXCEPT ![k] = Reply([@ EXCEPT !.waits = @ \ {id}], id, Failed)]
    /\ UNCHANGED <<server, generation, permits, running, executed>>

\* The task reads the end of its connection; the calls it waited for go on.
HangUp(k) ==
    /\ conns[k].server /\ ~conns[k].client /\ conns[k].inbox = <<>>
    /\ wire = "pool" => conns[k].waits = {}
    /\ conns' = [conns EXCEPT ![k] = DropServer(@)]
    /\ UNCHANGED <<server, generation, permits, running, executed>>

\* The shutdown: connection tasks are aborted, then every permit is taken.  Over
\* HTTP the connections whose requests are being carried out are waited for.
StopAccepting ==
    /\ server' = IF server = "up" THEN "draining" ELSE server
    /\ conns' = [k \in Conns |-> IF wire = "http" /\ conns[k].waits # {} THEN conns[k]
                                 ELSE DropServer(conns[k])]
    /\ UNCHANGED <<generation, permits, running, executed>>

Drained ==
    /\ server = "draining"
    /\ IF wire = "http" THEN (\A k \in Conns : ~conns[k].server) /\ UNCHANGED permits
       ELSE permits = Permits /\ permits' = 0
    /\ server' = "stopped"
    /\ UNCHANGED <<generation, running, executed, conns>>

\* The process is gone, with its threads.
ServerKilled ==
    /\ server' = "off" /\ permits' = Permits /\ running' = {}
    /\ conns' = [k \in Conns |-> DropServer(conns[k])]
    /\ UNCHANGED <<generation, executed>>

-----------------------------------------------------------------------------
(***************************************************************************)
(* TcpPostcardRecorderClient (rhiza-node, recorder_tcp.rs): blocking       *)
(* callers share a few connections per lane.  A connection goes back to    *)
(* the pool only after the answer to the request just sent on it, and is   *)
(* dropped after anything else.                                            *)
(***************************************************************************)

CONSTANTS
    PerLane      \* CONNECTIONS_PER_LANE

VARIABLES
    calls,       \* the callers: [pc, kind, slot, conn, res]
    pool         \* per lane: the idle connections, the last one used first, and how many are open

Lanes == {"consensus", "control"}
NoCall == [pc |-> "idle", kind |-> "none", slot |-> 0, conn |-> 0, res |-> <<"none", 0>>]
EmptyPool == [idle |-> <<>>, open |-> 0]

PoolLane(c) == IF calls[c].kind \in {"record", "install"} THEN "consensus" ELSE "control"
In(l, pcs) == {c \in Calls : PoolLane(c) = l /\ calls[c].pc \in pcs}

Returns(c, res) == [calls EXCEPT ![c].pc = "done", ![c].conn = 0, ![c].res = res]

\* notify_one: some caller that waits for a connection of the lane looks again.
Notify(l, cs) ==
    IF In(l, {"waiting"}) = {} THEN {cs}
    ELSE {[cs EXCEPT ![w].pc = "checkout"] : w \in In(l, {"waiting"})}

Ask(c) ==
    /\ wire = "pool"
    /\ calls' = [calls EXCEPT ![c].pc = "checkout"]
    /\ UNCHANGED <<serverVars, pool>>

\* checkout, under the pool's lock.
Checkout(c) ==
    /\ wire = "pool" /\ calls[c].pc = "checkout"
    /\ LET l == PoolLane(c)
           p == pool[l]
       IN  \/ /\ p.idle # <<>>
              /\ pool' = [pool EXCEPT ![l].idle = SubSeq(@, 1, Len(@) - 1)]
              /\ calls' = [calls EXCEPT ![c].pc = "send", ![c].conn = p.idle[Len(p.idle)]]
           \/ /\ p.idle = <<>> /\ p.open < PerLane
              /\ pool' = [pool EXCEPT ![l].open = @ + 1]
              /\ calls' = [calls EXCEPT ![c].pc = "connecting"]
           \/ /\ p.idle = <<>> /\ p.open = PerLane
              /\ calls' = [calls EXCEPT ![c].pc = "waiting"]
              /\ UNCHANGED pool
    /\ UNCHANGED serverVars

WaitEnds(c) ==
    /\ wire = "pool" /\ calls[c].pc = "waiting"
    /\ \/ calls' = Returns(c, Failed)
       \/ calls' = [calls EXCEPT ![c].pc = "checkout"]
    /\ UNCHANGED <<serverVars, pool>>

Discard(c) ==
    /\ pool' = [pool EXCEPT ![PoolLane(c)].open = @ - 1]
    /\ calls' \in Notify(PoolLane(c), Returns(c, Failed))

\* connect, outside the lock.
Connect(c) ==
    /\ wire = "pool" /\ calls[c].pc = "connecting"
    /\ Accepts /\ \E k \in Conns : conns[k] = Closed
    /\ LET k == Min({j \in Conns : conns[j] = Closed})
       IN  /\ conns' = [conns EXCEPT ![k] = Opened]
           /\ calls' = [calls EXCEPT ![c].pc = "send", ![c].conn = k]
    /\ UNCHANGED <<server, generation, permits, running, executed, pool>>

ConnectFails(c) ==
    /\ wire = "pool" /\ calls[c].pc = "connecting"
    /\ Discard(c)
    /\ UNCHANGED serverVars

Send(c) ==
    /\ wire = "pool" /\ calls[c].pc = "send"
    /\ conns' = [conns EXCEPT ![calls[c].conn] = Request(@, c)]
    /\ calls' = [calls EXCEPT ![c].pc = "sent"]
    /\ UNCHANGED <<server, generation, permits, running, executed, pool>>

\* The answer counts when it bears the number of the request; checkin.
Receive(c) ==
    /\ wire = "pool" /\ calls[c].pc = "sent" /\ conns[calls[c].conn].outbox # <<>>
    /\ LET k == calls[c].conn
           frame == Head(conns[k].outbox)
       IN  IF frame[1] = c
           THEN /\ conns' = [conns EXCEPT ![k].outbox = Tail(@)]
                /\ pool' = [pool EXCEPT ![PoolLane(c)].idle = Append(@, k)]
                /\ calls' \in Notify(PoolLane(c), Returns(c, frame[2]))
           ELSE /\ conns' = [conns EXCEPT ![k] = DropClient(@)]
                /\ Discard(c)
    /\ UNCHANGED <<server, generation, permits, running, executed>>

\* The deadline, or the end of the connection.
ExchangeFails(c) ==
    /\ wire = "pool" /\ calls[c].pc \in {"send", "sent"}
    /\ conns' = [conns EXCEPT ![calls[c].conn] = DropClient(@)]
    /\ Discard(c)
    /\ UNCHANGED <<server, generation, permits, running, executed>>

-----------------------------------------------------------------------------
(***************************************************************************)
(* TcpPostcardRpcRecorderClient (rhiza-node, recorder_tcp/postcard_rpc.rs):*)
(* callers hand their requests to the worker of a lane through a bounded   *)
(* queue; the worker keeps one session and several requests in flight on   *)
(* it.  A caller stops waiting at its deadline, whatever the worker does.  *)
(***************************************************************************)

CONSTANTS
    InFlight,    \* LANE_IN_FLIGHT
    BridgeDepth  \* BRIDGE_DEPTH

VARIABLES
    lane         \* per lane: the queue, the connection of the session or 0, the calls in flight

EmptyLane == [queue |-> <<>>, session |-> 0, flight |-> {}]

RpcLane(kind) == IF kind \in {"store", "record", "install"} THEN "consensus" ELSE "control"

\* The reply channel: a caller that is gone does not hear it.
Answered(c, res) == IF calls[c].pc = "queued" THEN Returns(c, res) ELSE calls

Submit(c) ==
    /\ wire = "lane"
    /\ LET l == RpcLane(calls[c].kind)
       IN  IF Len(lane[l].queue) = BridgeDepth
           THEN calls' = Returns(c, Failed) /\ UNCHANGED lane
           ELSE /\ calls' = [calls EXCEPT ![c].pc = "queued"]
                /\ lane' = [lane EXCEPT ![l].queue = Append(@, c)]
    /\ UNCHANGED <<serverVars, pool>>

GivesUp(c) ==
    /\ wire = "lane" /\ calls[c].pc = "queued"
    /\ calls' = [calls EXCEPT ![c].pc = "done", ![c].res = Failed]
    /\ UNCHANGED <<serverVars, pool, lane>>

Takes(l) == wire = "lane" /\ lane[l].queue # <<>> /\ Cardinality(lane[l].flight) < InFlight
First(l) == Head(lane[l].queue)

\* run_lane: the request's deadline is over, or no session comes about.
RequestFails(l) ==
    /\ Takes(l)
    /\ calls' = Answered(First(l), Failed)
    /\ lane' = [lane EXCEPT ![l].queue = Tail(@)]
    /\ UNCHANGED <<serverVars, pool>>

\* connect_session.  A session's number is not one that a call in flight bears.
FreeConns ==
    {k \in Conns : /\ conns[k] = Closed
                   /\ \A l \in Lanes : \A c \in lane[l].flight : calls[c].conn # k}
ConnectSession(l) ==
    /\ Takes(l) /\ lane[l].session = 0
    /\ Accepts /\ FreeConns # {}
    /\ conns' = [conns EXCEPT ![Min(FreeConns)] = Opened]
    /\ lane' = [lane EXCEPT ![l].session = Min(FreeConns)]
    /\ UNCHANGED <<server, generation, permits, running, executed, calls, pool>>

\* The client noticed the end of its session.
LeaveSession(l) ==
    /\ Takes(l) /\ lane[l].session # 0
    /\ ~conns[lane[l].session].server /\ conns[lane[l].session].outbox = <<>>
    /\ conns' = [conns EXCEPT ![lane[l].session] = DropClient(@)]
    /\ lane' = [lane EXCEPT ![l].session = 0]
    /\ UNCHANGED <<server, generation, permits, running, executed, calls, pool>>

\* run_call, send_endpoint.
SendRequest(l) ==
    /\ Takes(l) /\ lane[l].session # 0
    /\ conns' = [conns EXCEPT ![lane[l].session] = Request(@, First(l))]
    /\ calls' = [calls EXCEPT ![First(l)].conn = lane[l].session]
    /\ lane' = [lane EXCEPT ![l].queue = Tail(@), ![l].flight = @ \cup {First(l)}]
    /\ UNCHANGED <<server, generation, permits, running, executed, pool>>

\* An answer goes to the call whose number it bears.
ReceiveAnswer(l) ==
    /\ wire = "lane" /\ lane[l].session # 0 /\ conns[lane[l].session].outbox # <<>>
    /\ LET k == lane[l].session
           frame == Head(conns[k].outbox)
       IN  /\ conns' = [conns EXCEPT ![k].outbox = Tail(@)]
           /\ IF frame[1] \in lane[l].flight
              THEN /\ calls' = [Answered(frame[1], frame[2]) EXCEPT ![frame[1]].conn = 0]
                   /\ lane' = [lane EXCEPT ![l].flight = @ \ {frame[1]}]
              ELSE UNCHANGED <<calls, lane>>
    /\ UNCHANGED <<server, generation, permits, running, executed, pool>>

\* finish_call after a deadline or a broken wire: the session goes with it,
\* unless the lane has another one by now.
CallFails(l, c) ==
    /\ wire = "lane" /\ c \in lane[l].flight
    /\ LET own == calls[c].conn = lane[l].session
       IN  /\ calls' = [Answered(c, Failed) EXCEPT ![c].conn = 0]
           /\ lane' = [lane EXCEPT ![l].flight = @ \ {c}, ![l].session = IF own THEN 0 ELSE @]
           /\ conns' = IF own THEN [conns EXCEPT ![calls[c].conn] = DropClient(@)] ELSE conns
    /\ UNCHANGED <<server, generation, permits, running, executed, pool>>
=============================================================================
