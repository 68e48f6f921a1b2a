--------------------------- MODULE WriteExecution ---------------------------
(***************************************************************************)
(* How a node executes a batch of write requests: NodeRuntime between      *)
(* lock_commit and the results it hands back, for the three profiles.  A   *)
(* request is looked up in the receipts, prepared on the applied tip,      *)
(* proposed for the next slot, and looked up again whenever another entry  *)
(* won the slot.  The administrative stop and activation hold the same     *)
(* lock.  Consensus is the decided log of RequestLog: a proposal stays on  *)
(* offer when its proposer gives up, and may still be decided.             *)
(***************************************************************************)
EXTENDS RequestLog, FiniteSets, FiniteSetsExt

CONSTANTS
    Nodes,
    Weight,            \* encoded size of a payload
    Fragile,           \* the payloads whose SQL may fail when it is prepared
    MaxBatchMembers,   \* MAX_SQL_WRITE_BATCH_MEMBERS
    MaxLog             \* bound: decided entries

VARIABLES
    profile,           \* "sql", "kv" or "graph"
    limit,             \* MAX_COMMAND_BYTES
    node,              \* per node: applied entries, configuration, fatal latch,
                       \* whether the qlog is ahead of the materializer, and
                       \* whether a checkpoint compaction is in progress
    exec               \* per node: what holds the commit mutex

executionVars == <<profile, limit, node, exec>>

-----------------------------------------------------------------------------
\* Results of a request.  "retry" stands for the retryable errors (unavailable,
\* configuration_transition, ...), "exhausted" for resource_exhausted.
Result(kind, index) == [kind |-> kind, index |-> index]
None == Result("none", 0)
Ok(index) == Result("ok", index)
Err(kind) == Result(kind, 0)
Retryable(kind) == kind \in {"retry", "exhausted"}

\* What the commit mutex protects.  "each" marks a batch executed one member at
\* a time, "at" the member the single-member loop works on, "offered" the entry
\* proposed and not yet answered, "members" and "owner" whom the results go to.
Free == [mode |-> "free", owner |-> "nobody", members |-> <<>>, results |-> <<>>,
         each |-> FALSE, at |-> 0, offered |-> {}]

ExecutionInit ==
    /\ LogInit
    /\ node = [n \in Nodes |-> [applied |-> 0, config |-> 1, fatal |-> FALSE, torn |-> FALSE,
                              compacting |-> FALSE]]
    /\ exec = [n \in Nodes |-> Free]

\* ConfigurationState after the first i entries.
IsActive(i) == i > 0 => log[i].kind # "Stop"

\* ensure_ready and ensure_writes_active of a node that is not fatal.
Writable(n) == ~node[n].compacting /\ IsActive(node[n].applied)

\* The receipt of a request among the first i entries.
CheckRequest(i, r) ==
    LET holders == {j \in 1 .. i : r.id \in IdsOf(log[j].requests)}
    IN  IF holders = {} THEN None
        ELSE IF r \in log[Min(holders)].requests THEN Ok(Min(holders))
        ELSE Err("conflict")

-----------------------------------------------------------------------------
\* Classification of a batch.

\* The first member that is the same request, itself if none precedes it.
CanonicalOf(members, i) == Min({j \in 1 .. i : members[j] = members[i]})

\* Another member before it uses the identifier for another payload.
Reused(members, i) == \E j \in 1 .. i - 1 : members[j].id = members[i].id

\* The receipts of the members that have one.
Lookups(i, members) == [k \in DOMAIN members |-> CheckRequest(i, members[k])]

\* An SQL batch lets the second payload of an identifier wait for the first, a
\* graph batch refuses it if it has no receipt, a KV batch in any case.
SqlPreflight(i, members) ==
    [k \in DOMAIN members |->
        IF CanonicalOf(members, k) # k THEN None ELSE Lookups(i, members)[k]]

GraphPreflight(i, members) ==
    [k \in DOMAIN members |->
        LET found == CheckRequest(i, members[k])
        IN  IF CanonicalOf(members, k) # k THEN None
            ELSE IF found = None /\ Reused(members, k) THEN Err("conflict")
            ELSE found]

KvPreflight(i, members) ==
    [k \in DOMAIN members |->
        IF CanonicalOf(members, k) # k THEN None
        ELSE IF Reused(members, k) THEN Err("conflict")
        ELSE CheckRequest(i, members[k])]

Preflight(i, members) ==
    CASE profile = "sql" -> SqlPreflight(i, members)
      [] profile = "graph" -> GraphPreflight(i, members)
      [] OTHER -> KvPreflight(i, members)

Pending(e) ==
    {i \in DOMAIN e.members :
        /\ e.results[i] = None
        /\ e.each \/ CanonicalOf(e.members, i) = i}

\* A later payload of an identifier waits until the previous one has a result.
Blocked(e, i) ==
    LET earlier == {j \in 1 .. i - 1 : /\ e.members[j].id = e.members[i].id
                                       /\ CanonicalOf(e.members, j) = j}
    IN  earlier # {} /\ e.results[Max(earlier)] = None

\* The first k of a set of members.
First(S, k) == {i \in S : Cardinality({j \in S : j <= i}) <= k}

\* The pending members that may be prepared together.
Eligible(e) == First({i \in Pending(e) : ~Blocked(e, i)}, MaxBatchMembers)

SizeOf(e, S) == MapThenSumSet(LAMBDA i : Weight[e.members[i].payload], S)

\* Every pending member gets the same error.
FailAll(e, kind) ==
    [e EXCEPT !.results = [i \in DOMAIN e.members |->
                              IF i \in Pending(e) THEN Err(kind) ELSE e.results[i]],
              !.offered = {}]

\* The single-member loop hands its result back to the batch.
Resolve(e, i, result) ==
    [e EXCEPT !.mode = "batch", !.at = 0, !.offered = {}, !.results[i] = result]

\* A stop or an activation is over; its caller takes the result.
Concluded(result) == [Free EXCEPT !.mode = "concluded", !.owner = "admin", !.results = <<result>>]

Fail(e, kind) ==
    CASE e.mode = "batch" -> FailAll(e, kind)
      [] e.mode = "single" -> Resolve(e, e.at, Err(kind))
      [] e.mode \in {"stop", "certify", "activate"} -> Concluded(Err(kind))
      [] OTHER -> Free

-----------------------------------------------------------------------------
\* Consensus as the runtime sees it.

\* As Admitted, without the gate.
AdmittedAlways(n, entry) == TRUE

\* The recorders' gate: only the Activation follows a Stop, and nothing else.
Admitted(n, entry) == IsActive(node[n].applied) <=> entry.kind # "Activation"

\* A proposal for a slot that is already decided only learns the decision.
Propose(n, entry) ==
    offers' = IF node[n].applied = Len(log) /\ Admitted(n, entry)
              THEN offers \cup {entry} ELSE offers

EntryOf(n, kind, R, successor) ==
    [kind |-> kind, config |-> node[n].config, requests |-> R, successor |-> successor]
CommandOf(n, R) == EntryOf(n, "Command", R, 0)
StopOf(n, successor) == EntryOf(n, "Stop", {}, successor)
ActivationOf(n) == EntryOf(n, "Activation", {}, log[node[n].applied].successor)

-----------------------------------------------------------------------------
\* The steps of one batch.

Begin(n, owner, members) ==
    /\ exec[n].mode = "free"
    /\ \E each \in (IF profile = "sql" THEN BOOLEAN ELSE {FALSE}) :
          LET fresh == [Free EXCEPT !.mode = "batch", !.owner = owner, !.members = members,
                                    !.results = [i \in DOMAIN members |-> None],
                                    !.each = each]
          IN  exec' = [exec EXCEPT ![n] =
                 CASE node[n].fatal -> FailAll(fresh, "fatal")
                   [] ~node[n].fatal /\ ~Writable(n) -> FailAll(fresh, "retry")
                   [] OTHER -> IF each THEN fresh
                               ELSE [fresh EXCEPT !.results = Preflight(node[n].applied, members)]]
    /\ UNCHANGED <<profile, limit, node, log, offers>>

\* One member is left, or no two fit together, or the members go one by one.
Alone(e) ==
    ~e.each =>
        /\ profile # "sql"
        /\ Cardinality(Pending(e)) > 1 => SizeOf(e, First(Pending(e), 2)) > limit

\* The single-member path checks readiness, configuration and receipts anew.
EnterSingle(n) ==
    LET e == exec[n]
        i == Min(Pending(e))
        found == CheckRequest(node[n].applied, e.members[i])
    IN  /\ e.mode = "batch" /\ e.offered = {} /\ Pending(e) # {} /\ Alone(e)
        /\ exec' = [exec EXCEPT ![n] =
              IF node[n].fatal THEN Resolve(e, i, Err("fatal"))
              ELSE IF ~Writable(n) THEN Resolve(e, i, Err("retry"))
              ELSE IF found # None THEN Resolve(e, i, found)
              ELSE [e EXCEPT !.mode = "single", !.at = i]]
        /\ UNCHANGED <<profile, limit, node, log, offers>>

\* The member's command becomes the proposal for the next slot.
ProposeMember(n) ==
    LET entry == CommandOf(n, {exec[n].members[exec[n].at]})
    IN  /\ exec' = [exec EXCEPT ![n].offered = {entry}]
        /\ Propose(n, entry)

\* A graph or KV command was sized before it entered the batch.
ProposeTypedMember(n) ==
    /\ exec[n].mode = "single" /\ exec[n].offered = {} /\ profile # "sql"
    /\ ProposeMember(n)
    /\ UNCHANGED <<profile, limit, node, log>>

RefuseMember(n, kind) ==
    /\ exec' = [exec EXCEPT ![n] = Resolve(@, @.at, Err(kind))]
    /\ UNCHANGED offers

\* prepare_sql_proposal on the materialized tip: the statement may fail, and
\* its effect may be too large.
ProposeSqlMember(n) ==
    LET e == exec[n]
        r == e.members[e.at]
    IN  /\ e.mode = "single" /\ e.offered = {} /\ profile = "sql"
        /\ \/ r.payload \in Fragile /\ RefuseMember(n, "invalid")
           \/ Weight[r.payload] > limit /\ RefuseMember(n, "exhausted")
           \/ Weight[r.payload] <= limit /\ ProposeMember(n)
        /\ UNCHANGED <<profile, limit, node, log>>

\* The sizes prepare_sql_batch_effect is tried with: half of them, rounded up.
Halvings[k \in 1 .. MaxBatchMembers] ==
    {k} \cup (IF k = 1 THEN {} ELSE Halvings[(k + 1) \div 2])

\* Members whose statement fails are answered and left out of the effect; an
\* effect over the limit is prepared again from half of the members.
ProposeSqlBatch(n) ==
    LET e == exec[n]
        ready == Eligible(e)
    IN  /\ e.mode = "batch" /\ e.offered = {} /\ Pending(e) # {} /\ ~Alone(e)
        /\ profile = "sql"
        /\ \E failing \in SUBSET {i \in Pending(e) : e.members[i].payload \in Fragile} :
              LET good(k) == First(ready, k) \ failing
                  fits(k) == SizeOf(e, good(k)) <= limit
                  count == Max({k \in Halvings[Cardinality(ready)] : fits(k)} \cup {1})
                  results == [i \in DOMAIN e.members |->
                                 IF i \notin First(ready, count) THEN e.results[i]
                                 ELSE IF i \in failing THEN Err("invalid")
                                 ELSE IF ~fits(count) THEN Err("exhausted")
                                 ELSE None]
                  entry == CommandOf(n, {e.members[i] : i \in good(count)})
              IN  IF good(count) # {} /\ fits(count)
                  THEN /\ exec' = [exec EXCEPT ![n] = [e EXCEPT !.results = results, !.offered = {entry}]]
                       /\ Propose(n, entry)
                  ELSE /\ exec' = [exec EXCEPT ![n] = [e EXCEPT !.results = results]]
                       /\ UNCHANGED offers
        /\ UNCHANGED <<profile, limit, node, log>>

\* The longest prefix of the pending commands that fits one entry.
LongestPrefix(e) ==
    LET lengths == 2 .. Cardinality(Pending(e))
    IN  First(Pending(e), Max({k \in lengths : SizeOf(e, First(Pending(e), k)) <= limit}))

\* The members left when one that went alone met a materializer's refusal find
\* in ensure_materialized_tip that the qlog is ahead.
ProposePrefix(n) ==
    LET e == exec[n]
        entry == CommandOf(n, {e.members[i] : i \in LongestPrefix(e)})
    IN  /\ e.mode = "batch" /\ e.offered = {} /\ Pending(e) # {} /\ ~Alone(e)
        /\ IF node[n].torn
           THEN exec' = [exec EXCEPT ![n] = FailAll(@, "fatal")] /\ UNCHANGED offers
           ELSE exec' = [exec EXCEPT ![n].offered = {entry}] /\ Propose(n, entry)
        /\ UNCHANGED <<profile, limit, node, log>>

ProposeGraphBatch(n) == profile = "graph" /\ ProposePrefix(n)
ProposeKvBatch(n) == profile = "kv" /\ ProposePrefix(n)

-----------------------------------------------------------------------------
\* The answer of consensus.

Answer(e, found(_)) ==
    [e EXCEPT !.offered = {},
              !.results = [i \in DOMAIN e.members |->
                  IF i \in Pending(e) THEN found(e.members[i]) ELSE e.results[i]]]

\* As AfterSqlBatch, with no second lookup when another entry won the slot.
AfterSqlBatchOwnOnly(e, slot) ==
    LET won(r) == log[slot] \in e.offered /\ r \in log[slot].requests
    IN  Answer(e, LAMBDA r : IF won(r) THEN Ok(slot) ELSE None)

\* An own effect that won the slot answers its members; every other member is
\* looked up again among the receipts, the new entry included.
AfterSqlBatch(e, slot) ==
    LET won(r) == log[slot] \in e.offered /\ r \in log[slot].requests
    IN  Answer(e, LAMBDA r : IF won(r) THEN Ok(slot) ELSE CheckRequest(slot, r))

\* Graph and KV look every member up.
AfterGraphBatch(e, slot) == Answer(e, LAMBDA r : CheckRequest(slot, r))
AfterKvBatch(e, slot) == Answer(e, LAMBDA r : CheckRequest(slot, r))

AfterBatch(e, slot) ==
    CASE profile = "sql" -> AfterSqlBatch(e, slot)
      [] profile = "graph" -> AfterGraphBatch(e, slot)
      [] OTHER -> AfterKvBatch(e, slot)

AfterSingle(e, slot) ==
    LET found == CheckRequest(slot, e.members[e.at])
    IN  IF found # None THEN Resolve(e, e.at, found) ELSE [e EXCEPT !.offered = {}]

\* A stop goes on until the configuration is stopped.  The one that is decided
\* looks for its proof, one that lost to another stop has failed.
AfterStop(e, slot) ==
    IF IsActive(slot) THEN [e EXCEPT !.offered = {}]
    ELSE IF log[slot] \in e.offered THEN [e EXCEPT !.mode = "certify", !.offered = {}]
    ELSE Concluded(Err("precondition"))

AfterEntry(e, slot) ==
    CASE e.mode = "batch" -> AfterBatch(e, slot)
      [] e.mode = "single" -> AfterSingle(e, slot)
      [] e.mode = "stop" -> AfterStop(e, slot)
      [] e.mode = "activate" -> Concluded(Ok(slot))
      [] OTHER -> Free

\* A graph or KV materializer refuses an entry with a request whose identifier
\* is recorded with another payload.
Applies(slot) ==
    profile # "sql" => \A r \in log[slot].requests : CheckRequest(slot - 1, r) # Err("conflict")

\* The slot is decided: the entry is persisted and applied, then looked at.
Learn(n) ==
    LET slot == node[n].applied + 1
    IN  /\ exec[n].offered # {}
        /\ slot <= Len(log)
        /\ log[slot].config = node[n].config /\ Applies(slot)
        /\ exec' = [exec EXCEPT ![n] = AfterEntry(@, slot)]
        /\ node' = [node EXCEPT ![n].applied = slot]
        /\ UNCHANGED <<profile, limit, log, offers>>

\* The entry is decided and appended, and the materializer refuses it, in a
\* batch or in the background.  The latch is set first, so that no later batch
\* meets the difference in ensure_materialized_tip.
ApplyFails(n) ==
    LET slot == node[n].applied + 1
    IN  /\ exec[n].mode = "free" => ~node[n].fatal
        /\ exec[n].mode # "free" => exec[n].offered # {}
        /\ slot <= Len(log)
        /\ log[slot].config = node[n].config
        /\ exec' = [exec EXCEPT ![n] = Fail(@, "fatal")]
        /\ node' = [node EXCEPT ![n].fatal = TRUE, ![n].torn = TRUE]
        /\ UNCHANGED <<profile, limit, log, offers>>

\* No quorum, cancellation or an I/O error: the proposal stays with the recorders.
GiveUp(n) ==
    /\ exec[n].offered # {}
    /\ exec' = [exec EXCEPT ![n] = Fail(@, "retry")]
    /\ UNCHANGED <<profile, limit, node, log, offers>>

\* The recorders reject a command proposed after a Stop; the rejection latches.
Rejected(n) ==
    /\ \E entry \in exec[n].offered : ~Admitted(n, entry)
    /\ exec' = [exec EXCEPT ![n] = Fail(@, "fatal")]
    /\ node' = [node EXCEPT ![n].fatal = TRUE]
    /\ UNCHANGED <<profile, limit, log, offers>>

-----------------------------------------------------------------------------
\* Stop, activation and the background materializer.

\* stop_current_configuration_for_successor and its loop.
StopConfiguration(n, successor) ==
    /\ exec[n].mode = "free" \/ (exec[n].mode = "stop" /\ exec[n].offered = {})
    /\ exec[n].mode = "free" => ~node[n].fatal /\ Writable(n)
    /\ exec' = [exec EXCEPT ![n] = [Free EXCEPT !.mode = "stop", !.owner = "admin",
                                                !.offered = {StopOf(n, successor)}]]
    /\ Propose(n, StopOf(n, successor))
    /\ UNCHANGED <<profile, limit, node, log>>

\* The proof of the decided Stop is found with a quorum of recorders ...
Certify(n) ==
    /\ exec[n].mode = "certify"
    /\ exec' = [exec EXCEPT ![n] = Concluded(Ok(node[n].applied))]
    /\ UNCHANGED <<profile, limit, node, log, offers>>

\* ... or not.
CertifyFails(n) ==
    /\ exec[n].mode = "certify"
    /\ exec' = [exec EXCEPT ![n] = Fail(@, "retry")]
    /\ UNCHANGED <<profile, limit, node, log, offers>>

\* activate_successor, on a node whose consensus is the successor's.
ActivateSuccessor(n) ==
    /\ exec[n].mode = "free"
    /\ ~node[n].fatal /\ ~node[n].compacting /\ ~IsActive(node[n].applied)
    /\ log[node[n].applied].config # node[n].config
    /\ exec' = [exec EXCEPT ![n] = [Free EXCEPT !.mode = "activate", !.owner = "admin",
                                                !.offered = {ActivationOf(n)}]]
    /\ Propose(n, ActivationOf(n))
    /\ UNCHANGED <<profile, limit, node, log>>

\* materialize_next_decision.
Materialize(n) ==
    LET slot == node[n].applied + 1
    IN  /\ exec[n].mode = "free" /\ ~node[n].fatal /\ ~node[n].compacting
        /\ slot <= Len(log)
        /\ log[slot].config = node[n].config /\ Applies(slot)
        /\ node' = [node EXCEPT ![n].applied = slot]
        /\ UNCHANGED <<profile, limit, exec, log, offers>>

\* The recorders decide one of the entries on offer.
DecideSlot ==
    /\ Len(log) < MaxLog
    /\ Decide
    /\ UNCHANGED executionVars

\* The process is restarted: the qlog is replayed into the materializer.
Restarted(n, config) ==
    /\ node' = [node EXCEPT ![n] = [applied |-> @.applied + (IF @.torn THEN 1 ELSE 0),
                                    config |-> config, fatal |-> FALSE, torn |-> FALSE,
                                    compacting |-> FALSE]]
    /\ exec' = [exec EXCEPT ![n] = Free]

BatchStep(n) ==
    \/ EnterSingle(n) \/ ProposeSqlMember(n) \/ ProposeTypedMember(n)
    \/ ProposeSqlBatch(n) \/ ProposeGraphBatch(n) \/ ProposeKvBatch(n)
    \/ Learn(n) \/ Rejected(n) \/ Certify(n)

\* The batch is finished; an alias takes the result of its canonical member.
Finished(n) ==
    exec[n].mode = "batch" /\ exec[n].offered = {} /\ Pending(exec[n]) = {}

ResultsOf(n) ==
    [i \in DOMAIN exec[n].members |->
        IF exec[n].each THEN exec[n].results[i]
        ELSE exec[n].results[CanonicalOf(exec[n].members, i)]]
=============================================================================
