--------------------------- MODULE RecorderWorkers ---------------------------
(***************************************************************************)
(* The callers of one recorder in a proposer's process (rhiza-quepaxa,     *)
(* RecordWorker, ControlWorker and finish_pending_rpcs; rhiza-node,        *)
(* HttpRecorderClient).  Three threads per recorder each carry out one job *)
(* at a time from a queue that turns jobs away when it is full.  A proposal*)
(* leaves as soon as it has a quorum, so jobs outlive it; the count of the *)
(* accepted ones tells a shutdown when none is left.                       *)
(***************************************************************************)
EXTENDS RecorderTransports

CONSTANTS
    WorkerQueue  \* RECORD_WORKER_QUEUE_CAPACITY and CONTROL_WORKER_QUEUE_CAPACITY

VARIABLES
    worker,      \* per worker: the queue, the job in hand or 0, the count of accepted jobs
    drain        \* finish_pending_rpcs: "open", "quiet", "checked1", "checked2", "finished" or "late"

Workers == {"record", "control", "fence"}
IdleWorker == [queue |-> <<>>, job |-> 0, pending |-> 0]
workerVars == <<worker, drain>>

WorkerOf(c) ==
    CASE calls[c].kind = "record" -> "record"
      [] calls[c].kind = "fence" -> "fence"
      [] OTHER -> "control"

\* dispatch counts the job first, and takes the count back when the queue is full.
Dispatch(c, kind, slot) ==
    /\ calls[c].pc = "idle" /\ drain = "open"
    /\ calls' = [calls EXCEPT ![c].pc = "offered", ![c].kind = kind, ![c].slot = slot]
    /\ LET w == CASE kind = "record" -> "record" [] kind = "fence" -> "fence" [] OTHER -> "control"
       IN  worker' = [worker EXCEPT ![w].pending = @ + 1]
    /\ UNCHANGED <<serverVars, pool, lane, drain>>

Enqueue(c) ==
    /\ calls[c].pc = "offered"
    /\ LET w == WorkerOf(c)
       IN  IF Len(worker[w].queue) < WorkerQueue
           THEN /\ worker' = [worker EXCEPT ![w].queue = Append(@, c)]
                /\ calls' = [calls EXCEPT ![c].pc = "accepted"]
           ELSE /\ worker' = [worker EXCEPT ![w].pending = @ - 1]
                /\ calls' = [calls EXCEPT ![c].pc = "told", ![c].res = Failed]
    /\ UNCHANGED <<serverVars, pool, lane, drain>>

\* HttpRecorderClient::post_v2_with_timeout.
Post(c) ==
    /\ wire = "http"
    /\ calls' = [calls EXCEPT ![c].pc = "posting"]
    /\ UNCHANGED <<serverVars, pool>>

PostConnects(c) ==
    /\ wire = "http" /\ calls[c].pc = "posting" /\ server = "up"
    /\ \E k \in Conns : conns[k] = Closed
    /\ LET k == Min({j \in Conns : conns[j] = Closed})
       IN  /\ conns' = [conns EXCEPT ![k] = Request(Opened, c)]
           /\ calls' = [calls EXCEPT ![c].pc = "posted", ![c].conn = k]
    /\ UNCHANGED <<server, generation, permits, running, executed, pool, lane, workerVars>>

PostAnswered(c) ==
    /\ wire = "http" /\ calls[c].pc = "posted" /\ conns[calls[c].conn].outbox # <<>>
    /\ calls' = Returns(c, Head(conns[calls[c].conn].outbox)[2])
    /\ conns' = [conns EXCEPT ![calls[c].conn] = DropClient(@)]
    /\ UNCHANGED <<server, generation, permits, running, executed, pool, lane, workerVars>>

\* The timeout, or a connection that is refused or ends.
PostFails(c) ==
    /\ wire = "http" /\ calls[c].pc \in {"posting", "posted"}
    /\ calls' = Returns(c, Failed)
    /\ conns' = IF calls[c].conn = 0 THEN conns ELSE [conns EXCEPT ![calls[c].conn] = DropClient(@)]
    /\ UNCHANGED <<server, generation, permits, running, executed, pool, lane, workerVars>>

\* The worker's thread: recv, the call itself, its result, the count.
TakeJob(w) ==
    /\ worker[w].job = 0 /\ worker[w].queue # <<>>
    /\ LET c == Head(worker[w].queue)
       IN  \/ Ask(c) /\ UNCHANGED lane
           \/ Submit(c)
           \/ Post(c) /\ UNCHANGED lane
    /\ worker' = [worker EXCEPT ![w].job = Head(worker[w].queue), ![w].queue = Tail(@)]
    /\ UNCHANGED drain

SendResult(w) ==
    /\ worker[w].job # 0 /\ calls[worker[w].job].pc = "done"
    /\ calls' = [calls EXCEPT ![worker[w].job].pc = "told"]
    /\ UNCHANGED <<serverVars, pool, lane, workerVars>>

JobDone(w) ==
    /\ worker[w].job # 0 /\ calls[worker[w].job].pc = "told"
    /\ worker' = [worker EXCEPT ![w].job = 0, ![w].pending = @ - 1]
    /\ UNCHANGED <<serverVars, calls, pool, lane, drain>>

\* finish_pending_rpcs looks at the workers in turn, after the caller made sure
\* that nothing dispatches any more; a busy one sends it back to the first.
FinishPending ==
    /\ CASE drain = "open" -> /\ \A c \in Calls : calls[c].pc # "offered"
                              /\ drain' = "quiet"
         [] drain = "quiet" -> worker["record"].pending = 0 /\ drain' = "checked1"
         [] drain = "checked1" -> drain' = IF worker["control"].pending = 0 THEN "checked2" ELSE "quiet"
         [] drain = "checked2" -> drain' = IF worker["fence"].pending = 0 THEN "finished" ELSE "quiet"
         [] OTHER -> FALSE
    /\ UNCHANGED <<serverVars, calls, pool, lane, worker>>

FinishTimesOut ==
    /\ drain \in {"quiet", "checked1", "checked2"}
    /\ drain' = "late"
    /\ UNCHANGED <<serverVars, calls, pool, lane, worker>>

-----------------------------------------------------------------------------
\* A caller that gets an outcome gets the outcome of its own request, carried
\* out once; one that hears of an overload knows that its request was not
\* carried out and never will be.  A server never carries out what a caller of
\* another recovery generation asks.
AnswersMatchCalls ==
    /\ \A c \in Calls : calls[c].pc \in {"done", "told"} =>
          LET res == calls[c].res
          IN  /\ res[1] \in {"ok", "refused"} => res[2] = c /\ executed[c] = res[1]
              /\ res[1] = "overloaded" => c \notin running /\ executed[c] = "none"
    /\ generation # CallerGeneration => running = {}

\* Every permit is free or with a running request, and a server that reports
\* its end has none running (over HTTP, none that a client still waits for).
\* The pool counts its connections, shares none
\* between two callers, keeps none on which something is still to come, and no
\* caller sleeps on while a connection that it might take is left to nobody.
\* A worker's count of accepted jobs is exact, and once finish_pending_rpcs has
\* seen every worker idle no call is on its way.
TransportAccounted ==
    /\ IF server = "stopped" /\ wire # "http" THEN running = {}
       ELSE permits + Cardinality(running) = Permits
    /\ \A l \in Lanes :
         LET p == pool[l]
             users == In(l, {"send", "sent"})
             unused == Len(p.idle) + PerLane - p.open
         IN  /\ p.open = Len(p.idle) + Cardinality(In(l, {"connecting"}) \cup users)
             /\ p.open <= PerLane
             /\ Cardinality({p.idle[i] : i \in DOMAIN p.idle} \cup {calls[c].conn : c \in users})
                  = Len(p.idle) + Cardinality(users)
             /\ \A i \in DOMAIN p.idle :
                  conns[p.idle[i]].outbox = <<>> /\ conns[p.idle[i]].inbox = <<>>
                  /\ conns[p.idle[i]].waits = {}
             /\ In(l, {"waiting"}) # {} => Cardinality(In(l, {"checkout"})) >= unused
             /\ lane[l].session # 0 => conns[lane[l].session].client
    /\ \A k \in Conns : conns[k].server => server = "up" \/ (wire = "http" /\ server = "draining")
    /\ \A w \in Workers :
          worker[w].pending = Len(worker[w].queue) + (IF worker[w].job # 0 THEN 1 ELSE 0)
                              + Cardinality({c \in Calls : calls[c].pc = "offered" /\ WorkerOf(c) = w})
    /\ drain = "finished" => \A c \in Calls : calls[c].pc \in {"idle", "told"}
=============================================================================
