----------------------------- MODULE GroupCommit -----------------------------
(***************************************************************************)
(* The group commit queue of a node: callers put their write in a queue,   *)
(* one of them becomes the leader, takes the commit lock and executes the  *)
(* queue group by group, and everybody waits for their own result.  The    *)
(* SQL and the KV queue are the same algorithm with different limits.      *)
(*                                                                         *)
(* The queue's mutex makes enqueue, collect, drain and fail_pending atomic *)
(* steps; between them shutdown, a fatal error, a change of configuration  *)
(* and the other callers interfere.  Members and encoded bytes have limits *)
(* of the same shape: a call's size stands for both.                       *)
(***************************************************************************)
EXTENDS Naturals, Sequences, SequencesExt, FiniteSets, FiniteSetsExt

CONSTANTS
    Calls,        \* the calls of the callers, one thread each
    Capacity,     \* the queue's capacity in calls
    MaxBytes,     \* MAX_SQL_GROUP_COMMIT_PENDING_BYTES
    MaxMembers,   \* MAX_SQL_WRITE_BATCH_MEMBERS
    Sizes,        \* the members a call may bring, each one byte long
    Profiles,     \* the queues checked: "sql", "kv" or both
    Faults        \* whether storage fails and threads panic

ASSUME QueueAssumption ==
    /\ {Capacity, MaxBytes, MaxMembers} \subseteq Nat \ {0}
    /\ Sizes \subseteq 1 .. MaxMembers
    /\ Profiles \subseteq {"sql", "kv"}
    /\ Faults \in BOOLEAN
    /\ {"free", "poisoned"} \cap Calls = {}

VARIABLES
    pc,        \* where each call is
    size,      \* how many members it has
    result,    \* its job's published result
    returned,  \* what the caller got back
    group,     \* the jobs the call, as a leader, has drained and not published
    queue,     \* SqlGroupCommitQueueState
    lock,      \* the commit mutex: its holder, free or poisoned
    node,      \* cancelled, fatal and inactive, the flags of NodeRuntime; whether
               \* cancel_operations is under way; and the execution profile
    committed  \* history: the calls in the order their writes were committed

vars == <<pc, size, result, returned, group, queue, lock, node, committed>>

Leading == {"lock", "collect", "drain", "check", "execute", "publish"}

\* "ok" and "failed" are vectors of member results, the rest outer errors.
OuterErrors == {"unavailable", "fatal", "rejected"}
Results == {"none", "ok", "failed"} \cup OuterErrors

Init ==
    /\ pc = [c \in Calls |-> "idle"]
    /\ size \in [Calls -> Sizes]
    /\ result = [c \in Calls |-> "none"]
    /\ returned = [c \in Calls |-> "none"]
    /\ group = [c \in Calls |-> <<>>]
    /\ queue = [pending |-> <<>>, bytes |-> 0, leader |-> FALSE]
    /\ lock = "free"
    /\ node \in [cancelled : {FALSE}, fatal : {FALSE}, inactive : {FALSE},
                failing : {FALSE}, profile : Profiles]
    /\ committed = <<>>

\* The sum of the weights w of the calls of a sequence.
Total(w, q) ==
    LET total[n \in 0 .. Len(q)] ==
          IF n = 0 THEN 0 ELSE total[n - 1] + w[q[n]]
    IN  total[Len(q)]

Members(q) == Total(size, q)

\* Job::publish on every job of the sequence: the first result stays.
Published(q, r) ==
    [c \in Calls |-> IF c \in ToSet(q) /\ result[c] = "none" THEN r ELSE result[c]]

-----------------------------------------------------------------------------
\* enqueue, first half: the flag is read before the queue is locked.
Check(c) ==
    /\ pc[c] = "idle"
    /\ \/ /\ node.cancelled
          /\ pc' = [pc EXCEPT ![c] = "done"]
          /\ returned' = [returned EXCEPT ![c] = "rejected"]
       \/ /\ ~node.cancelled
          /\ pc' = [pc EXCEPT ![c] = "enqueue"]
          /\ UNCHANGED returned
    /\ UNCHANGED <<size, result, group, queue, lock, node, committed>>

Admits(c) ==
    /\ Len(queue.pending) < Capacity
    /\ queue.bytes + size[c] <= MaxBytes

\* enqueue, second half: the call is refused, or queued behind an active
\* leader, or queued and the leader.
Enqueue(c) ==
    /\ pc[c] = "enqueue"
    /\ \/ /\ ~Admits(c)
          /\ pc' = [pc EXCEPT ![c] = "done"]
          /\ returned' = [returned EXCEPT ![c] = "rejected"]
          /\ UNCHANGED queue
       \/ /\ Admits(c)
          /\ queue' = [pending |-> Append(queue.pending, c),
                       bytes |-> queue.bytes + size[c], leader |-> TRUE]
          /\ pc' = [pc EXCEPT ![c] = IF queue.leader THEN "wait" ELSE "lock"]
          /\ UNCHANGED returned
    /\ UNCHANGED <<size, result, group, lock, node, committed>>

\* A fail_pending that forgets the reservation of the jobs it drops.
FailKeepsBytes(r) ==
    /\ queue' = [queue EXCEPT !.pending = <<>>, !.leader = FALSE]
    /\ result' = Published(queue.pending, r)

\* fail_pending
FailPending(r) ==
    /\ queue' = [pending |-> <<>>, bytes |-> 0, leader |-> FALSE]
    /\ result' = Published(queue.pending, r)

\* The leader takes the commit lock, or finds it poisoned.
Lock(c) ==
    /\ pc[c] = "lock"
    /\ \/ /\ lock = "free"
          /\ lock' = c
          /\ pc' = [pc EXCEPT ![c] = "collect"]
          /\ UNCHANGED <<queue, result, node>>
       \/ /\ lock = "poisoned"
          /\ FailPending("fatal")
          /\ pc' = [pc EXCEPT ![c] = "wait"]
          /\ node' = [node EXCEPT !.fatal = TRUE]
          /\ UNCHANGED lock
    /\ UNCHANGED <<size, returned, group, committed>>

\* The leader leaves its loop and then waits for its own job.
StepDown(c) ==
    /\ lock' = "free"
    /\ pc' = [pc EXCEPT ![c] = "wait"]

\* A leader that leaves an empty queue and stays registered.
LeaveActive(c) ==
    /\ StepDown(c)
    /\ UNCHANGED queue

\* An empty queue ends the leader's term.
LeaveQueue(c) ==
    /\ StepDown(c)
    /\ queue' = [queue EXCEPT !.leader = FALSE]

\* collect_until_full_or_timeout: how long the leader waits for company is up
\* to the clock and the other callers.
Collect(c) ==
    /\ pc[c] = "collect"
    /\ \/ /\ queue.pending = <<>>
          /\ LeaveQueue(c)
       \/ /\ queue.pending # <<>>
          /\ pc' = [pc EXCEPT ![c] = "drain"]
          /\ UNCHANGED <<queue, lock>>
    /\ UNCHANGED <<size, result, returned, group, node, committed>>

\* The longest prefix within the limit of members, and at least one job.
GroupLength ==
    Max({1} \cup {n \in 1 .. Len(queue.pending) :
                    Members(SubSeq(queue.pending, 1, n)) <= MaxMembers})

\* A drain that looks at the jobs and leaves them in the queue.
DrainCopies(c) ==
    /\ group' = [group EXCEPT ![c] = SubSeq(queue.pending, 1, GroupLength)]
    /\ UNCHANGED queue

\* drain_next_group of a queue that is not empty.
Drained(c) ==
    LET taken == SubSeq(queue.pending, 1, GroupLength)
    IN  /\ group' = [group EXCEPT ![c] = taken]
        /\ queue' = [queue EXCEPT
                       !.pending = SubSeq(@, GroupLength + 1, Len(@)),
                       !.bytes = @ - Members(taken)]

Drain(c) ==
    /\ pc[c] = "drain"
    /\ \/ /\ queue.pending = <<>>
          /\ LeaveQueue(c)
          /\ UNCHANGED group
       \/ /\ queue.pending # <<>>
          /\ Drained(c)
          /\ pc' = [pc EXCEPT ![c] = "check"]
          /\ UNCHANGED lock
    /\ UNCHANGED <<size, result, returned, node, committed>>

\* The group and everything queued behind it fails with r.
GroupFails(c, r) ==
    /\ queue' = [pending |-> <<>>, bytes |-> 0, leader |-> FALSE]
    /\ result' = Published(group[c] \o queue.pending, r)
    /\ group' = [group EXCEPT ![c] = <<>>]
    /\ StepDown(c)

\* ensure_ready, ensure_writes_active and the first look at the shutdown flag.
Precheck(c) ==
    /\ pc[c] = "check"
    /\ \/ /\ node.fatal \/ node.inactive \/ node.cancelled
          /\ GroupFails(c, IF node.fatal THEN "fatal" ELSE "unavailable")
       \/ /\ ~(node.fatal \/ node.inactive \/ node.cancelled)
          /\ pc' = [pc EXCEPT ![c] = "execute"]
          /\ UNCHANGED <<queue, result, group, lock>>
    /\ UNCHANGED <<size, returned, node, committed>>

\* execute_sql_client_batch_locked: some prefix of the group commits and the
\* other members carry an error each, after which a storage error may have
\* latched the node; or the execution panics, before or after a commit.
Execute(c) ==
    /\ pc[c] = "execute"
    /\ \E n \in 0 .. Len(group[c]) : committed' = committed \o SubSeq(group[c], 1, n)
    /\ \/ /\ \/ UNCHANGED node
             \/ Faults /\ node' = [node EXCEPT !.fatal = TRUE]
          /\ pc' = [pc EXCEPT ![c] = "publish"]
          /\ UNCHANGED <<queue, result, group, lock>>
       \/ /\ Faults
          /\ GroupFails(c, "fatal")
          /\ node' = [node EXCEPT !.fatal = TRUE]
    /\ UNCHANGED <<size, returned>>

\* Each job gets the results of its own members.
MemberResults(c) ==
    [d \in Calls |->
       IF d \in ToSet(group[c]) /\ result[d] = "none"
       THEN IF d \in ToSet(committed) THEN "ok" ELSE "failed"
       ELSE result[d]]

\* Only the SQL leader looks at the flags again after executing.
Rechecks == node.profile = "sql"

\* A group that executed is published and the leader goes on; the SQL leader
\* reports it as an error if a shutdown or a fatal error came in between.
Publish(c) ==
    /\ pc[c] = "publish"
    /\ \/ /\ Rechecks /\ node.cancelled
          /\ GroupFails(c, "unavailable")
       \/ /\ Rechecks /\ node.fatal /\ ~node.cancelled
          /\ GroupFails(c, "fatal")
       \/ /\ Rechecks => ~node.cancelled /\ ~node.fatal
          /\ result' = MemberResults(c)
          /\ group' = [group EXCEPT ![c] = <<>>]
          /\ pc' = [pc EXCEPT ![c] = "collect"]
          /\ UNCHANGED <<queue, lock>>
    /\ UNCHANGED <<size, returned, node, committed>>

\* Job::wait finds the result.
Return(c) ==
    /\ pc[c] = "wait"
    /\ result[c] # "none"
    /\ returned' = [returned EXCEPT ![c] = result[c]]
    /\ pc' = [pc EXCEPT ![c] = "done"]
    /\ UNCHANGED <<size, result, group, queue, lock, node, committed>>

\* Job::wait finds the shutdown flag before it sleeps, or on a spurious wake.
GiveUp(c) ==
    /\ pc[c] = "wait"
    /\ result[c] = "none"
    /\ node.cancelled
    /\ returned' = [returned EXCEPT ![c] = "unavailable"]
    /\ pc' = [pc EXCEPT ![c] = "done"]
    /\ UNCHANGED <<size, result, group, queue, lock, node, committed>>

-----------------------------------------------------------------------------
\* cancel_operations: the flag first, then the queue.
Cancel ==
    /\ ~node.cancelled
    /\ node' = [node EXCEPT !.cancelled = TRUE, !.failing = TRUE]
    /\ UNCHANGED <<pc, size, result, returned, group, queue, lock, committed>>

CancelPending ==
    /\ node.failing
    /\ FailPending("unavailable")
    /\ node' = [node EXCEPT !.failing = FALSE]
    /\ UNCHANGED <<pc, size, returned, group, lock, committed>>

\* Another holder of the commit lock stops the configuration, latches an
\* error, or panics.
Disturb ==
    /\ Faults
    /\ lock = "free"
    /\ ~node.fatal /\ ~node.inactive
    /\ \/ /\ node' \in {[node EXCEPT !.fatal = TRUE], [node EXCEPT !.inactive = TRUE]}
          /\ UNCHANGED lock
       \/ /\ lock' = "poisoned"
          /\ UNCHANGED node
    /\ UNCHANGED <<pc, size, result, returned, group, queue, committed>>

Leader(c) ==
    Lock(c) \/ Collect(c) \/ Drain(c) \/ Precheck(c) \/ Execute(c) \/ Publish(c)

Next ==
    \/ \E c \in Calls : Check(c) \/ Enqueue(c) \/ Leader(c) \/ Return(c) \/ GiveUp(c)
    \/ Cancel
    \/ CancelPending
    \/ Disturb

\* A thread that can run runs, and consensus calls end: they have deadlines.
Fairness ==
    /\ \A c \in Calls : WF_vars(Enqueue(c)) /\ WF_vars(Leader(c)) /\ WF_vars(Return(c))
    /\ WF_vars(CancelPending)

Spec == Init /\ [][Next]_vars

FairSpec == Spec /\ Fairness

-----------------------------------------------------------------------------
(* Properties *)

\* Queue, lock and calls have their types, and the queue keeps its capacity.
TypeOK ==
    /\ pc \in [Calls -> Leading \cup {"idle", "enqueue", "wait", "done"}]
    /\ result \in [Calls -> Results] /\ returned \in [Calls -> Results]
    /\ lock \in Calls \cup {"free", "poisoned"}
    /\ ToSet(queue.pending) \subseteq Calls
    /\ Len(queue.pending) <= Capacity

\* The byte reservation is that of the queued jobs: drain_next_group's
\* checked_sub never fails, and a full queue empties to zero.
ReservationCoversPending == queue.bytes = Members(queue.pending)

\* A queued job is never orphaned: while the queue is not empty a leader is
\* registered, and some caller is in the leader's loop and will look again,
\* also when fail_pending or a second leader reset the registration.
PendingJobsHaveALeader ==
    /\ queue.pending # <<>> => queue.leader
    /\ queue.leader => \E c \in Calls : pc[c] \in Leading

\* No job is drained twice, so take_members never finds its members gone, and
\* no write is committed twice.
EachJobExecutedOnce ==
    /\ IsInjective(committed)
    /\ \A c, d \in Calls :
         LET held == ToSet(group[c])
         IN  /\ held \cap ToSet(queue.pending) = {}
             /\ c # d => held \cap ToSet(group[d]) = {}

\* A caller that is told its write was executed has a committed write.
AcknowledgedIsCommitted ==
    \A c \in Calls : returned[c] = "ok" => c \in ToSet(committed)

\* Jobs are executed once and reported truthfully, whichever caller leads.
ExecutedOnceAsReported == EachJobExecutedOnce /\ AcknowledgedIsCommitted

\* Every call returns, whatever shutdown, errors and other leaders do.
EveryCallReturns ==
    \A c \in Calls : pc[c] = "enqueue" ~> pc[c] = "done"

\* The queue is consistent at every step of callers, leader and shutdown: its
\* values have their types, its reservation counts exactly the pending jobs, and
\* a pending job always has a leader that will come to it.
QueueConsistent == TypeOK /\ ReservationCoversPending /\ PendingJobsHaveALeader

=============================================================================
