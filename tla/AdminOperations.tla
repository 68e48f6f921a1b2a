-------------------------- MODULE AdminOperations --------------------------
(***************************************************************************)
(* The live administration of a node: admin_router's handlers, the ledger  *)
(* of operation identifiers, the tasks that outlive their request, and the *)
(* orderly shutdown that waits for them.  An operation is recorded before  *)
(* it is answered, and answered from the record ever after.                *)
(***************************************************************************)
EXTENDS HttpService

VARIABLES
    ask,         \* the administrator's requests, in the order they are numbered
    operation,   \* per request: how far its handler is, and its answer
    ledger,      \* per node: the operation records, in memory and in the file
    task,        \* per node: the detached task of the admitted operation
    gate,        \* per node: AdminTaskTracker, the semaphore, and the shutdown
    store        \* per node: the successor installed at the recorder, and the
                 \* entries compacted away from the qlog

adminVars == <<ask, operation, ledger, task, gate, store>>

NoOperation == [stage |-> "none", call |-> 0, result |-> None, target |-> 0]
OpenGate == [accepting |-> TRUE, active |-> 0, busy |-> FALSE, flushing |-> FALSE, target |-> 0]
Ledger(records) == [open |-> TRUE, memory |-> records, disk |-> records]

AdminInit ==
    /\ operation = [k \in DOMAIN ask |-> [state |-> "idle", looked |-> FALSE, root |-> 0, answer |-> None]]
    /\ ledger = [n \in Nodes |-> Ledger({})]
    /\ task = [n \in Nodes |-> NoOperation]
    /\ gate = [n \in Nodes |-> OpenGate]
    /\ store = [n \in Nodes |-> [installed |-> 0, base |-> 0]]

At(n, state) == {k \in DOMAIN ask : ask[k].at = n /\ operation[k].state = state}
Told(k, result) == [operation EXCEPT ![k].state = "answered", ![k].answer = result]
Moved(k, state) == [operation EXCEPT ![k].state = state]

\* finish_admin_task: the guard of a request or a task is dropped.
Left(g) == [g EXCEPT !.active = @ - 1]
Released(g) == [Left(g) EXCEPT !.busy = FALSE]

-----------------------------------------------------------------------------
\* A command of the rhiza binary looks at the status of the node first, and
\* compares it with its own configuration; other clients need not.
Looks(k) == ask[k].kind = "status" \/ (ask[k].cli /\ ~operation[k].looked)

\* The request as it is sent: a compaction names the root the status showed.
Sends(k) ==
    IF ask[k].cli /\ ask[k].kind = "compact" THEN [ask[k] EXCEPT !.root = operation[k].root]
    ELSE ask[k]

\* AdminTaskTracker::try_start looks at "accepting", counts the request in, and
\* looks again.
Enter(k) ==
    /\ operation[k].state = "idle"
    /\ operation' = IF gate[ask[k].at].accepting THEN Moved(k, "entering")
                    ELSE Told(k, Err("retry"))
    /\ UNCHANGED <<ask, ledger, task, gate, store>>

CountIn(k) ==
    /\ operation[k].state = "entering"
    /\ operation' = Moved(k, "counted")
    /\ gate' = [gate EXCEPT ![ask[k].at].active = @ + 1]
    /\ UNCHANGED <<ask, ledger, task, store>>

\* replay: what the records say of a request.
Replay(records, a) ==
    LET found == {r \in records : r.id = a.id}
    IN  IF found = {} THEN None
        ELSE LET r == CHOOSE r \in found : TRUE
             IN  IF r.ask = a THEN r.result ELSE Err("conflict")

Turned(k, result) ==
    /\ operation' = Told(k, result)
    /\ gate' = [gate EXCEPT ![ask[k].at] = Left(@)]
    /\ UNCHANGED task

\* The rest of admin_gate, and run_async_operation up to the detached task.
AdmitOperation(k) ==
    LET n == ask[k].at
        replayed == Replay(ledger[n].memory, Sends(k))
    IN  /\ operation[k].state = "counted"
        /\ IF ~gate[n].accepting \/ gate[n].busy THEN Turned(k, Err("retry"))
           ELSE IF Looks(k)
           THEN /\ operation' = Moved(k, "status")
                /\ gate' = [gate EXCEPT ![n].busy = TRUE]
                /\ UNCHANGED task
           ELSE IF ~ledger[n].open THEN Turned(k, Err("retry"))
           ELSE IF replayed # None THEN Turned(k, replayed)
           ELSE /\ operation' = Moved(k, "waiting")
                /\ gate' = [gate EXCEPT ![n].busy = TRUE]
                /\ task' = [task EXCEPT ![n] = [NoOperation EXCEPT !.stage = "queued", !.call = k]]
        /\ UNCHANGED <<ask, ledger, store>>

\* configuration_state.
StateConfig(n) == IF node[n].applied = 0 THEN node[n].config ELSE log[node[n].applied].config

\* status_response: active, stopped, or waiting for the successor's Activation.
StatusOf(n) ==
    IF IsActive(node[n].applied) THEN "Active"
    ELSE IF StateConfig(n) = node[n].config THEN "Stopped"
    ELSE "AwaitingActivation"

\* validate_live_admin_target: the node runs what the command was given.
TargetMatches(n, a) ==
    LET active == StateConfig(n) + (IF StatusOf(n) = "AwaitingActivation" THEN 1 ELSE 0)
    IN  CASE a.kind = "install" ->
                active = a.next /\ StateConfig(n) = a.expect /\ log[node[n].applied].successor = a.to
          [] a.kind = "activate" -> active = a.expect /\ StateConfig(n) \in {a.expect - 1, a.expect}
          [] OTHER -> active = a.expect /\ StateConfig(n) = a.expect

ShowStatus(k) ==
    LET n == ask[k].at
    IN  /\ operation[k].state = "status" /\ exec[n].mode = "free"
        /\ operation' =
              IF ask[k].kind = "status" THEN Told(k, Result(StatusOf(n), node[n].applied))
              ELSE IF ~TargetMatches(n, ask[k]) THEN Told(k, Err("mismatch"))
              ELSE [operation EXCEPT ![k] = [@ EXCEPT !.state = "idle", !.looked = TRUE,
                                                      !.root = node[n].applied]]
        /\ gate' = [gate EXCEPT ![n] = Released(@)]
        /\ UNCHANGED <<ask, ledger, task, store>>

\* The archive or the proof of the Stop is out of reach.
StatusFails(k) ==
    /\ operation[k].state = "status"
    /\ operation' = Told(k, Err("retry"))
    /\ gate' = [gate EXCEPT ![ask[k].at] = Released(@)]
    /\ UNCHANGED <<ask, ledger, task, store>>

-----------------------------------------------------------------------------
\* The operations, under the commit mutex.
Begins(n, kind) ==
    /\ task[n].stage = "queued" /\ ask[task[n].call].kind = kind
    /\ exec[n].mode = "free"

Ends(n, result) ==
    task' = [task EXCEPT ![n] = [@ EXCEPT !.stage = "finished", !.result = result]]
Runs(n, stage) ==
    task' = [task EXCEPT ![n] = [@ EXCEPT !.stage = stage, !.target = node[n].applied]]

\* handle_stop: validate_successor, then the stop.
BeginStop(n) ==
    LET a == Sends(task[n].call)
    IN  /\ Begins(n, "stop")
        /\ IF a.next # a.expect + 1 THEN Ends(n, Err("precondition")) /\ UNCHANGED <<logVars, exec>>
           ELSE IF node[n].fatal THEN Ends(n, Err("fatal")) /\ UNCHANGED <<logVars, exec>>
           ELSE IF ~IsActive(node[n].applied)
           THEN Ends(n, Err("precondition")) /\ UNCHANGED <<logVars, exec>>
           ELSE Runs(n, "running") /\ StopConfiguration(n, a.to)
        /\ UNCHANGED <<profile, limit, node>>

\* The stop's slot went to another entry and the configuration is still active.
StopAgain(n) ==
    /\ exec[n].mode = "stop"
    /\ StopConfiguration(n, ask[task[n].call].to)
    /\ UNCHANGED task

\* handle_activate: activate_successor_if.
BeginActivate(n) ==
    LET a == Sends(task[n].call)
        stop == log[node[n].applied]
    IN  /\ Begins(n, "activate")
        /\ IF node[n].fatal THEN Ends(n, Err("fatal")) /\ UNCHANGED <<logVars, exec>>
           ELSE IF \/ IsActive(node[n].applied)
                   \/ stop.config = node[n].config
                   \/ a.expect # stop.config + 1
           THEN Ends(n, Err("precondition")) /\ UNCHANGED <<logVars, exec>>
           ELSE Runs(n, "running") /\ ActivateSuccessor(n)
        /\ UNCHANGED <<profile, limit, node>>

\* The stop or the activation returns.
OperationReturns(n) ==
    /\ task[n].stage = "running" /\ exec[n].mode = "concluded"
    /\ Ends(n, exec[n].results[1])
    /\ exec' = [exec EXCEPT ![n] = Free]
    /\ UNCHANGED <<profile, limit, node, logVars>>

\* install_successor: the Stop has to be the one applied here, still in the
\* local qlog, and bound to the successor of the request.
InstallResult(n, a) ==
    LET i == node[n].applied
    IN  IF node[n].fatal THEN Err("fatal")
        ELSE IF IsActive(i) \/ log[i].config # a.expect \/ a.root # i THEN Err("precondition")
        ELSE IF i <= store[n].base THEN Err("internal")
        ELSE IF a.next # a.expect + 1 \/ log[i].successor # a.to THEN Err("precondition")
        ELSE Ok(i)

Install(n) ==
    LET a == Sends(task[n].call)
        result == InstallResult(n, a)
    IN  /\ Begins(n, "install")
        /\ Ends(n, result)
        /\ store' = [store EXCEPT ![n].installed = IF result.kind = "ok" THEN a.to ELSE @]
        /\ UNCHANGED <<ask, operation, ledger, gate>>

\* checkpoint_compact_fenced: its fence, and what it does until it lets go of
\* the commit mutex.  The runtime answers nothing until the archive has it.
CompactBegins(n) ==
    LET a == Sends(task[n].call)
        current == a.expect = StateConfig(n) /\ a.root = node[n].applied
    IN  /\ Begins(n, "compact")
        /\ IF ~node[n].fatal /\ current THEN Runs(n, "publishing")
           ELSE Ends(n, Err(IF node[n].fatal THEN "retry" ELSE "precondition"))
        /\ node' = [node EXCEPT ![n].compacting = ~node[n].fatal /\ current]
        /\ UNCHANGED <<profile, limit, exec, logVars>>

\* The checkpoint is published and read back, then the qlog is cut.
CompactPublishes(n) ==
    /\ task[n].stage = "publishing"
    /\ archived' = Max({archived, task[n].target})
    /\ store' = [store EXCEPT ![n].base = task[n].target]
    /\ node' = [node EXCEPT ![n].compacting = FALSE]
    /\ Ends(n, Ok(task[n].target))
    /\ UNCHANGED <<profile, limit, exec, logVars, ask, operation, ledger, gate>>

\* It fails before or after the archive has the checkpoint.
CompactFails(n) ==
    /\ task[n].stage = "publishing"
    /\ archived' \in {archived, Max({archived, task[n].target})}
    /\ node' = [node EXCEPT ![n].compacting = FALSE]
    /\ Ends(n, Err("retry"))
    /\ UNCHANGED <<profile, limit, exec, logVars, ask, operation, ledger, gate, store>>

-----------------------------------------------------------------------------
\* The end of the detached task: store_result, persist_operations, the permit.
RecordOf(n) ==
    [id |-> ask[task[n].call].id, ask |-> Sends(task[n].call), result |-> task[n].result]

TaskEnds(n) ==
    /\ task[n].stage = "finished"
    /\ task' = [task EXCEPT ![n] = NoOperation]
    /\ gate' = [gate EXCEPT ![n] = Released(@)]
    /\ UNCHANGED <<ask, operation, store>>

RecordInMemoryOnly(n) ==
    /\ TaskEnds(n)
    /\ ledger' = [ledger EXCEPT ![n].memory = IF ledger[n].open THEN @ \cup {RecordOf(n)} ELSE @]

RecordResult(n) ==
    /\ TaskEnds(n)
    /\ ledger' = IF ledger[n].open
                 THEN [ledger EXCEPT ![n] = Ledger(@.memory \cup {RecordOf(n)})]
                 ELSE ledger

\* The file is not written, or written and not known to be: the ledger is
\* closed until the process restarts.
RecordFails(n) ==
    /\ TaskEnds(n) /\ ledger[n].open
    /\ \E disk \in {ledger[n].disk, ledger[n].memory \cup {RecordOf(n)}} :
          ledger' = [ledger EXCEPT ![n] = [open |-> FALSE, memory |-> {}, disk |-> disk]]

\* The handler sees the task completed and answers from the ledger.
AnswerFromLedger(k) ==
    LET n == ask[k].at
        replayed == Replay(ledger[n].memory, Sends(k))
    IN  /\ operation[k].state = "waiting" /\ task[n].call # k
        /\ operation' = Told(k, IF ~ledger[n].open THEN Err("retry")
                                    ELSE IF replayed = None THEN Err("internal")
                                    ELSE replayed)
        /\ UNCHANGED <<ask, ledger, task, gate, store>>

\* The handler stops waiting; the task does not.
OperationTimeout(k) ==
    /\ operation[k].state = "waiting"
    /\ operation' = Told(k, Err("retry"))
    /\ UNCHANGED <<ask, ledger, task, gate, store>>

-----------------------------------------------------------------------------
\* serve_remote_until and finish_remote_shutdown: admission stops, the client
\* server and the admin tasks finish, the applied entries are archived, and the
\* process ends.
Shutdown(n) ==
    /\ gate[n].accepting
    /\ gate' = [gate EXCEPT ![n].accepting = FALSE]
    /\ UNCHANGED <<ask, operation, ledger, task, store>>

AdminIdle(n) ==
    /\ ~gate[n].accepting /\ ~gate[n].flushing /\ gate[n].active = 0
    /\ \A c \in Calls : ~Waiting(handler[c][n]) /\ handler[c][n].state # "reading"
    /\ gate' = [gate EXCEPT ![n].flushing = TRUE, ![n].target = node[n].applied]
    /\ UNCHANGED <<ask, operation, ledger, task, store>>

\* What a restart leaves of all this: load_operations and a new gate.
AdminRestarts(n) ==
    /\ operation' = [k \in DOMAIN ask |->
          IF ask[k].at = n /\ operation[k].state \notin {"idle", "answered"}
          THEN [operation[k] EXCEPT !.state = "answered", !.answer = Err("retry")]
          ELSE operation[k]]
    /\ ledger' = [ledger EXCEPT ![n] = Ledger(@.disk)]
    /\ task' = [task EXCEPT ![n] = NoOperation]
    /\ gate' = [gate EXCEPT ![n] = OpenGate]
    /\ UNCHANGED <<ask, store>>

-----------------------------------------------------------------------------
\* What an operation reported as done has done: its Stop or Activation is
\* decided, the successor is at the recorder, the archive holds the root.
Effective(a, result) ==
    result.kind = "ok" =>
        CASE a.kind \in {"stop", "activate"} ->
                /\ result.index \in 1 .. Len(log)
                /\ IF a.kind = "stop"
                   THEN log[result.index].kind = "Stop" /\ log[result.index].successor = a.to
                   ELSE log[result.index].kind = "Activation" /\ log[result.index].config = a.expect
          [] a.kind = "install" ->
                log[a.root].kind = "Stop" /\ log[a.root].successor = store[a.at].installed
          [] OTHER -> archived >= a.root

Final(result) == result.kind \in {"ok", "precondition", "fatal", "internal"}

\* An administrative operation that is reported, or recorded, as done has had
\* its effect.  An operation identifier stands for one request and one outcome
\* on a node, whatever crashed in between: it is recorded once, and two final
\* answers to the same request are the same, also when the first attempt was
\* given up by its handler and finished behind its back.
AdminAnswersAreTrue ==
    /\ \A k \in DOMAIN ask : Effective(Sends(k), operation[k].answer)
    /\ \A n \in Nodes :
          LET records == ledger[n].memory \cup ledger[n].disk
          IN  /\ \A r \in records : Effective(r.ask, r.result)
              /\ \A r, q \in records : r.id = q.id => r = q
    /\ \A k, j \in DOMAIN ask :
          LET a == operation[k].answer
              b == operation[j].answer
          IN  Sends(k) = Sends(j) /\ Final(a) /\ Final(b) => a = b

\* Every permit of the client gate, and every place in the table of writes, is
\* accounted for.  The administrative gate counts exactly the requests that are
\* being looked at and the task that still runs, one at a time, whoever still
\* waits for it; the final flush of an orderly shutdown finds no task running;
\* and nothing is proposed or applied during a checkpoint transition.
InFlightAccounted ==
    /\ ClientGateAccounted
    /\ \A n \in Nodes :
          LET running == task[n].stage # "none"
              looking == At(n, "status")
          IN  /\ gate[n].active = Cardinality(At(n, "counted") \cup looking)
                                  + (IF running THEN 1 ELSE 0)
              /\ gate[n].busy <=> running \/ looking # {}
              /\ ~(running /\ looking # {})
              /\ gate[n].flushing => ~running
              /\ node[n].compacting <=> task[n].stage = "publishing"
              /\ node[n].compacting => exec[n].offered = {} /\ node[n].applied = task[n].target
=============================================================================
