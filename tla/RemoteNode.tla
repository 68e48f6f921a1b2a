----------------------------- MODULE RemoteNode -----------------------------
(***************************************************************************)
(* A node that keeps its checkpoints in an object store, with the calls    *)
(* that reach its recorder: RemoteStartup and the recorder transports      *)
(* share the process.  The recorder's server lives from StartServer to the *)
(* end of the process, a request is carried out against the recorder       *)
(* through the startup gate, and an orderly stop waits for the requests    *)
(* that are being carried out.                                             *)
(***************************************************************************)
EXTENDS RemoteStartup, RecorderWorkers

CONSTANTS
    Scenarios    \* where a behaviour begins, and the bounds of its events

transportVars == <<wire, server, generation, permits, running, executed, conns, calls, pool, lane, worker, drain>>
clientVars == <<wire, calls, pool, lane, worker, drain>>
vars == <<startupVars, transportVars>>

\* A scenario begins with the process down, or with it waiting behind the gate.
Init ==
    /\ \E s \in Scenarios :
          /\ engine = s.engine /\ dir = s.dir /\ node = s.node
          /\ archive = [g \in Generations |-> s.archive[g]]
          /\ decided = s.decided /\ floor = 0 /\ forgotten = s.forgotten
          /\ left = s.left /\ wire = s.wire
          /\ server = IF Served(s.node) THEN "up" ELSE "off"
          /\ generation = s.node.gen
    /\ acked = {}
    /\ permits = Permits /\ running = {} /\ executed = [c \in Calls |-> "none"]
    /\ conns = [k \in Conns |-> Closed]
    /\ calls = [c \in Calls |-> NoCall]
    /\ pool = [l \in Lanes |-> EmptyPool] /\ lane = [l \in Lanes |-> EmptyLane]
    /\ worker = [w \in Workers |-> IdleWorker] /\ drain = "open"

\* The steps of the process between its start and its end.
Prepare ==
    \/ \E mode \in Modes, gen \in Generations : Start(mode, gen)
    \/ PrepareBootstrap \/ PrepareFreshRejoin \/ PrepareRejoin
    \/ PrepareDisaster \/ PrepareSuccessor \/ PrepareLocal
    \/ Validate \/ JudgeView \/ RestoreIntoFresh \/ RestoreOverView
    \/ PrepareRoot \/ RestoreSuccessor
    \/ DoStep \/ StepsDone \/ StepFails
    \/ OpenRecorder

OpenRuntime ==
    \/ OpenLog \/ OpenView \/ PeersRefuse \/ CatchUp \/ CaughtUp
    \/ Verify \/ Rehydrate \/ Activate \/ Serve

Work == AppendEntry \/ ApplyEntry \/ CompactLog

Environment ==
    \/ Decide \/ LoseDisk
    \/ \E gen \in Generations : Publish(gen) \/ PeersCompact(gen)

\* An error of the startup ends the process, and with it the server.
Alone == UNCHANGED transportVars
WithServer ==
    /\ OpenRuntime
    /\ UNCHANGED clientVars
    /\ IF node'.pc = "failed" THEN ServerKilled ELSE UNCHANGED serverVars

\* A vote of the node's own proposer, which calls its recorder directly.
RecordDirectly ==
    /\ Spend("vote")
    /\ \E slot \in Slots : Record(slot)
    /\ UNCHANGED <<engine, archive, decided, floor, forgotten, node>>

\* A request over a recorder connection is carried out.
CarryOut(c) ==
    /\ IF GateAdmits(calls[c].kind, calls[c].slot)
       THEN /\ Execute(c, "ok")
            /\ IF calls[c].kind = "record" THEN Record(calls[c].slot) ELSE UNCHANGED <<dir, acked>>
       ELSE /\ Execute(c, "refused")
            /\ UNCHANGED <<dir, acked>>
    /\ UNCHANGED <<engine, archive, decided, floor, forgotten, node, left, clientVars>>

Requests(c) == c \in DOMAIN left.asks /\ Dispatch(c, left.asks[c][1], left.asks[c][2])

PoolStep(c) ==
    /\ Checkout(c) \/ WaitEnds(c) \/ Connect(c) \/ ConnectFails(c)
       \/ Send(c) \/ Receive(c) \/ ExchangeFails(c)
    /\ UNCHANGED <<lane, workerVars>>

HttpStep(c) == PostConnects(c) \/ PostAnswered(c) \/ PostFails(c)

WorkerStep ==
    \/ \E w \in Workers : TakeJob(w) \/ SendResult(w) \/ JobDone(w)
    \/ left.asks # <<>> /\ (FinishPending \/ FinishTimesOut)

LaneStep(l) ==
    \/ RequestFails(l) \/ ConnectSession(l) \/ LeaveSession(l)
    \/ SendRequest(l) \/ ReceiveAnswer(l)
    \/ \E c \in Calls : CallFails(l, c)

ServerStep ==
    \/ \E k \in Conns : ReadRequest(k) \/ RefuseExpired(k) \/ HangUp(k)
    \/ \E k \in Conns, c \in Calls : Respond(k, c) \/ Deadline(k, c)
    \/ Drained

Next ==
    \/ Prepare /\ Alone
    \/ StartServer /\ ServerStarts(node.gen) /\ UNCHANGED clientVars
    \/ WithServer
    \/ Work /\ Alone
    \/ Environment /\ Alone
    \/ RecordDirectly /\ Alone
    \/ Crash /\ ServerKilled /\ UNCHANGED clientVars
    \/ Stop /\ StopAccepting /\ UNCHANGED clientVars
    \/ Stopped /\ server = "stopped" /\ running = {} /\ ServerKilled /\ UNCHANGED clientVars
    \/ \E c \in Calls : CarryOut(c)
    \/ (\E c \in Calls : Requests(c) \/ Enqueue(c) \/ PoolStep(c) \/ HttpStep(c))
          /\ UNCHANGED <<wire, startupVars>>
    \/ WorkerStep /\ UNCHANGED <<wire, startupVars>>
    \/ ((\E l \in Lanes : LaneStep(l)) \/ (\E c \in Calls : GivesUp(c)))
          /\ UNCHANGED <<wire, startupVars, workerVars>>
    \/ ServerStep /\ UNCHANGED <<clientVars, startupVars>>

Spec == Init /\ [][Next]_vars
=============================================================================
