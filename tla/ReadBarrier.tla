----------------------------- MODULE ReadBarrier -----------------------------
(***************************************************************************)
(* Linearizable reads of one node: readers share a round of the coalescer  *)
(* (ReadBarrierRounds), the round's leader takes the commit lock and asks  *)
(* the recorders for a read fence, and every reader then reads the         *)
(* materialized state under the anchor of its round.  Meanwhile other      *)
(* nodes fill slots of the log, the node applies decisions, and a shutdown *)
(* cancels the waits.                                                      *)
(*                                                                         *)
(* Consensus is abstract: a slot can be decided once a quorum has recorded *)
(* something for it (QuePaxa says which value).                            *)
(***************************************************************************)
EXTENDS Naturals, Sequences, FiniteSets, FiniteSetsExt, TLC

CONSTANTS
    Readers,       \* read calls, one thread each
    Recorders,     \* members of the configuration
    MaxSlot,       \* bound on the slots of the log
    Shutdown       \* whether cancel_operations may be called

ASSUME ReadAssumption ==
    /\ IsFiniteSet(Recorders) /\ Recorders # {}
    /\ MaxSlot \in Nat /\ Shutdown \in BOOLEAN
    /\ "free" \notin Readers

VARIABLES
    occupied,   \* occupied[r]: the slots recorder r has a record for
    chosen,     \* the kinds of the decided entries, in slot order
    applied,    \* the node's materialized tip
    rounds,     \* the rounds of the coalescer, oldest first
    lock,       \* the commit lock: its holder or "free"
    reader,     \* where each read call is
    node,       \* whether operations are cancelled, the configuration accepts
                \* writes, and every recorder supports the read fence
    sweep       \* the round cancel_waiters wakes next, 0 when it is not running

vars == <<occupied, chosen, applied, rounds, lock, reader, node, sweep>>

Kinds == {"write", "noop", "stop"}

IdleReader ==
    [pc |-> "idle", round |-> 0, leader |-> FALSE, empty |-> {}, busy |-> {},
     need |-> 0, anchor |-> 0, seen |-> 0, result |-> "none"]

Init ==
    /\ occupied = [r \in Recorders |-> {}]
    /\ chosen = <<>>
    /\ applied = 0
    /\ rounds = <<>>
    /\ lock = "free"
    /\ reader = [c \in Readers |-> IdleReader]
    /\ node \in [cancelled : {FALSE}, active : {TRUE}, contextFence : BOOLEAN]
    /\ sweep = 0

IsQuorum(Q) == Cardinality(Q) >= Cardinality(Recorders) \div 2 + 1

-----------------------------------------------------------------------------
(* The rest of the cluster. *)

\* Some proposer gets a record for the slot after a decided prefix to r.
Record(r, s) ==
    /\ s \in 1 .. Min({Len(chosen) + 1, MaxSlot})
    /\ s \notin occupied[r]
    /\ occupied' = [occupied EXCEPT ![r] = @ \cup {s}]
    /\ UNCHANGED <<chosen, applied, rounds, lock, reader, node, sweep>>

\* Consensus decides the next slot; nothing follows the Stop of a configuration.
Decide(kind) ==
    /\ IsQuorum({r \in Recorders : Len(chosen) + 1 \in occupied[r]})
    /\ \A s \in 1 .. Len(chosen) : chosen[s] # "stop"
    /\ chosen' = Append(chosen, kind)
    /\ UNCHANGED <<occupied, applied, rounds, lock, reader, node, sweep>>

\* persist_entry: the next decided entry is applied, and a Stop seals the
\* configuration.
ApplyNext ==
    /\ applied < Len(chosen)
    /\ applied' = applied + 1
    /\ node' = [node EXCEPT !.active = @ /\ chosen[applied + 1] # "stop"]

\* A writer of this node or materialize_next_decision applies the next entry.
Materialize ==
    /\ lock = "free"
    /\ ApplyNext
    /\ UNCHANGED <<occupied, chosen, rounds, lock, reader, sweep>>

-----------------------------------------------------------------------------
(* The coalescer. *)

At(c, pc) == reader[c].pc = pc

Goto(c, pc) == reader' = [reader EXCEPT ![c].pc = pc]

TailCollects == rounds # <<>> /\ rounds[Len(rounds)].phase = "collecting"

\* join: follow the tail while it collects, otherwise lead a new round.
Join(c) ==
    /\ At(c, "idle")
    /\ \/ /\ TailCollects
          /\ reader' = [reader EXCEPT ![c] =
               [IdleReader EXCEPT !.pc = "wait", !.round = Len(rounds), !.need = Len(chosen)]]
          /\ UNCHANGED rounds
       \/ /\ ~TailCollects
          /\ rounds' = Append(rounds, [phase |-> "collecting", anchor |-> 0, ok |-> FALSE,
                                       predecessor |-> rounds # <<>>])
          /\ reader' = [reader EXCEPT ![c] =
               [IdleReader EXCEPT !.pc = "turn", !.round = Len(rounds) + 1,
                                  !.leader = TRUE, !.need = Len(chosen)]]
    /\ UNCHANGED <<occupied, chosen, applied, lock, node, sweep>>

\* The round a call sleeps on: its own, or its predecessor's while it waits
\* for its turn.
Awaited(c) == IF reader[c].leader THEN reader[c].round - 1 ELSE reader[c].round

Complete(i) == i > 0 => rounds[i].phase = "complete"

\* changed.notify_all of a round, in a function of readers.
Woken(f, i) ==
    [c \in Readers |->
       IF f[c].pc = "asleep" /\ (IF f[c].leader THEN f[c].round - 1 ELSE f[c].round) = i
       THEN [f[c] EXCEPT !.pc = IF f[c].leader THEN "turn" ELSE "wait"]
       ELSE f[c]]

\* establish_read_barrier returns the anchor or an error.
Outcome(call, ok, anchor) ==
    IF ok THEN [IdleReader EXCEPT !.pc = "read", !.anchor = anchor, !.need = call.need]
          ELSE [IdleReader EXCEPT !.pc = "done", !.result = "error"]

\* A publication that leaves the round open when its leader has an error.
PublishSuccessOnly(c, ok, anchor) ==
    LET i == reader[c].round
        f == [reader EXCEPT ![c] = Outcome(@, ok, anchor)]
    IN  /\ rounds' = IF ok THEN [rounds EXCEPT ![i] = [@ EXCEPT !.phase = "complete",
                                                      !.ok = ok, !.anchor = anchor]]
                           ELSE rounds
        /\ reader' = IF ok THEN Woken(f, i) ELSE f

\* publish, also on an error: the round completes, its sleepers wake, and the
\* leader goes on with the result.
Publish(c, ok, anchor) ==
    LET i == reader[c].round
        f == [reader EXCEPT ![c] = Outcome(@, ok, anchor)]
    IN  /\ rounds' = [rounds EXCEPT ![i] = [@ EXCEPT !.phase = "complete", !.ok = ok,
                                                     !.anchor = anchor]]
        /\ reader' = Woken(f, i)

Fail(c) == Publish(c, FALSE, 0)

\* wait_turn: the predecessor has completed; the collection window is up to
\* the clock.
TakeTurn(c) ==
    /\ At(c, "turn")
    /\ Complete(Awaited(c))
    /\ \/ /\ node.cancelled
          /\ Fail(c)
       \/ /\ ~node.cancelled
          /\ rounds' = [rounds EXCEPT ![reader[c].round].predecessor = FALSE]
          /\ Goto(c, "lock")
    /\ UNCHANGED <<occupied, chosen, applied, lock, node, sweep>>

\* wait_complete and result: nothing yet, and nothing cancelled, so sleep.
Sleep(c) ==
    /\ reader[c].pc \in {"turn", "wait"}
    /\ ~Complete(Awaited(c))
    /\ ~node.cancelled
    /\ Goto(c, "asleep")
    /\ UNCHANGED <<occupied, chosen, applied, rounds, lock, node, sweep>>

\* wait_complete and result find the operations cancelled.
StopWaiting(c) ==
    /\ reader[c].pc \in {"turn", "wait"}
    /\ ~Complete(Awaited(c))
    /\ node.cancelled
    /\ \/ /\ reader[c].leader
          /\ Fail(c)
       \/ /\ ~reader[c].leader
          /\ reader' = [reader EXCEPT ![c] = Outcome(@, FALSE, 0)]
          /\ UNCHANGED rounds
    /\ UNCHANGED <<occupied, chosen, applied, lock, node, sweep>>

\* A follower takes the result of its round.
Follow(c) ==
    /\ At(c, "wait")
    /\ Complete(Awaited(c))
    /\ LET round == rounds[reader[c].round]
       IN  reader' = [reader EXCEPT ![c] = Outcome(@, round.ok, round.anchor)]
    /\ UNCHANGED <<occupied, chosen, applied, rounds, lock, node, sweep>>

\* A leader goes on at pc with nothing heard from the recorders.
Again(f, c, pc) == [f EXCEPT ![c] = [@ EXCEPT !.pc = pc, !.empty = {}, !.busy = {}]]

\* The leader owns the commit lock and starts its round, or finds the
\* operations cancelled or the configuration stopped.
Start(c) ==
    /\ At(c, "lock")
    /\ lock = "free"
    /\ \/ /\ node.cancelled \/ ~node.active
          /\ Fail(c)
          /\ UNCHANGED lock
       \/ /\ ~node.cancelled /\ node.active
          /\ lock' = c
          /\ rounds' = [rounds EXCEPT ![reader[c].round].phase = "running"]
          /\ reader' = Again(reader, c, "fence")
    /\ UNCHANGED <<occupied, chosen, applied, node, sweep>>

-----------------------------------------------------------------------------
(* commit_read_barrier_locked *)

NextSlot == applied + 1

\* observe_read_fence: no record for the slot and none above it; without the
\* fence inspect_record_summary looks at the slot alone.
FenceEmpty(r) ==
    /\ NextSlot \notin occupied[r]
    /\ node.contextFence => \A s \in occupied[r] : s < NextSlot

Heard(c) == reader[c].empty \cup reader[c].busy

\* One recorder's observation reaches the leader; one that never does has failed.
Observe(c, r) ==
    /\ At(c, "fence")
    /\ r \notin Heard(c)
    /\ \/ FenceEmpty(r) /\ reader' = [reader EXCEPT ![c].empty = @ \cup {r}]
       \/ ~FenceEmpty(r) /\ reader' = [reader EXCEPT ![c].busy = @ \cup {r}]
    /\ UNCHANGED <<occupied, chosen, applied, rounds, lock, node, sweep>>

\* A quorum saw nothing at the slot and nothing above it.
Fenced(c) == node.contextFence /\ IsQuorum(reader[c].empty)

FenceAnchor == applied

\* The read fence ends the round at the materialized tip, unless an entry the
\* loop applied has sealed the configuration.
FenceHolds(c) ==
    /\ At(c, "fence")
    /\ Fenced(c)
    /\ \/ node.active /\ Publish(c, TRUE, FenceAnchor)
       \/ ~node.active /\ Fail(c)
    /\ lock' = "free"
    /\ UNCHANGED <<occupied, chosen, applied, node, sweep>>

\* Too few recorders answered, or the inspection behind an occupied fence was
\* inconclusive.
Inconclusive(c) ==
    /\ At(c, "fence")
    /\ ~Fenced(c)
    /\ reader[c].busy # {} \/ ~IsQuorum(reader[c].empty)
    /\ Fail(c)
    /\ lock' = "free"
    /\ UNCHANGED <<occupied, chosen, applied, node, sweep>>

\* Inspection returns the committed entry: apply it and look at the next slot.
LearnCommitted(c) ==
    /\ At(c, "fence")
    /\ ~Fenced(c)
    /\ IsQuorum(Heard(c)) /\ reader[c].busy # {}
    /\ ApplyNext
    /\ reader' = Again(reader, c, "fence")
    /\ UNCHANGED <<occupied, chosen, rounds, lock, sweep>>

\* Inspection is pending, or without the fence the slot is empty everywhere:
\* propose a ReadBarrier at the slot.
ProposeBarrier(c) ==
    /\ At(c, "fence")
    /\ ~Fenced(c)
    /\ NextSlot <= MaxSlot
    /\ IsQuorum(Heard(c))
    /\ reader' = Again(reader, c, IF ~node.contextFence /\ reader[c].busy = {}
                                 THEN "barrier" ELSE "settle")
    /\ UNCHANGED <<occupied, chosen, applied, rounds, lock, node, sweep>>

\* A Noop always ends the round, whichever inspection led to the proposal.
AnyNoop(c, kind) == kind = "noop"

\* Only the Noop proposed into a slot found empty ends the round: a pending
\* slot may have been settled before the read began.
EndsRound(c, kind) == At(c, "barrier") /\ kind = "noop"

\* The proposal is decided, with this node's Noop or another node's entry.
Proposed(c) ==
    /\ reader[c].pc \in {"settle", "barrier"}
    /\ ApplyNext
    /\ IF EndsRound(c, chosen[NextSlot])
       THEN Publish(c, TRUE, NextSlot) /\ lock' = "free"
       ELSE reader' = Again(reader, c, "fence") /\ UNCHANGED <<rounds, lock>>
    /\ UNCHANGED <<occupied, chosen, sweep>>

\* The proposal is cancelled, or its command cannot be fetched.
ProposalFails(c) ==
    /\ reader[c].pc \in {"settle", "barrier"}
    /\ Fail(c)
    /\ lock' = "free"
    /\ UNCHANGED <<occupied, chosen, applied, node, sweep>>

-----------------------------------------------------------------------------
\* The read itself: under the lock again, and not before the anchor.
Read(c) ==
    /\ At(c, "read")
    /\ lock = "free"
    /\ \/ /\ ~node.active
          /\ reader' = [reader EXCEPT ![c] = Outcome(@, FALSE, 0)]
       \/ /\ node.active
          /\ applied >= reader[c].anchor
          /\ reader' = [reader EXCEPT ![c] =
               [IdleReader EXCEPT !.pc = "done", !.need = reader[c].need, !.seen = applied,
                                  !.result = "ok"]]
    /\ UNCHANGED <<occupied, chosen, applied, rounds, lock, node, sweep>>

\* cancel_operations: the flag, and then the sweep of cancel_waiters from the
\* tail to the oldest round a leader still waits for.
Cancel ==
    /\ Shutdown
    /\ ~node.cancelled
    /\ node' = [node EXCEPT !.cancelled = TRUE]
    /\ sweep' = Len(rounds)
    /\ UNCHANGED <<occupied, chosen, applied, rounds, lock, reader>>

Sweep ==
    /\ sweep > 0
    /\ reader' = Woken(reader, sweep)
    /\ sweep' = IF rounds[sweep].predecessor THEN sweep - 1 ELSE 0
    /\ UNCHANGED <<occupied, chosen, applied, rounds, lock, node>>

Step(c) ==
    \/ TakeTurn(c) \/ StopWaiting(c) \/ Follow(c) \/ Start(c) \/ Read(c)
    \/ FenceHolds(c) \/ Inconclusive(c) \/ LearnCommitted(c) \/ ProposeBarrier(c)
    \/ Proposed(c)
    \/ \E r \in Recorders : Observe(c, r)

Next ==
    \/ \E r \in Recorders, s \in 1 .. MaxSlot : Record(r, s)
    \/ \E kind \in Kinds : Decide(kind)
    \/ Materialize
    \/ \E c \in Readers : Join(c) \/ Sleep(c) \/ Step(c) \/ ProposalFails(c)
    \/ Cancel
    \/ Sweep

Spec == Init /\ [][Next]_vars

-----------------------------------------------------------------------------
(* Properties *)

\* Rounds, readers and the lock have their types, and no reader is past the log.
TypeOK ==
    /\ occupied \in [Recorders -> SUBSET (1 .. MaxSlot)]
    /\ chosen \in Seq(Kinds) /\ applied \in 0 .. Len(chosen)
    /\ lock \in Readers \cup {"free"}
    /\ \A c \in Readers : reader[c].round \in 0 .. Len(rounds)
    /\ sweep \in 0 .. Len(rounds)

\* Linearizability of ReadBarrier reads: a read that succeeds sees every entry
\* that was decided before it was called, whatever round it shared, on
\* whichever node the entry was written, and with other proposals in flight.
ReadsSeeEarlierWrites ==
    \A c \in Readers : reader[c].result = "ok" => reader[c].seen >= reader[c].need

\* The round's anchor never gets ahead of the node's own state, so the checks
\* of validate_read_barrier_descendant never latch the node.
AnchorsAreApplied ==
    \A c \in Readers : At(c, "read") => reader[c].anchor <= applied

\* A sleeping reader has somebody who will wake it: the round it sleeps on is
\* led by a call that has not returned, or the sweep of a shutdown is on its way.
SleepersHaveALeader ==
    \A c \in Readers :
      At(c, "asleep") =>
        \E l \in Readers : /\ reader[l].leader /\ reader[l].round = Awaited(c)
                           /\ reader[l].pc \notin {"read", "done"}

\* The rounds of the read barrier are in order: no anchor is ahead of the node,
\* and no reader sleeps on a round that nobody will complete.
RoundsConsistent == TypeOK /\ AnchorsAreApplied /\ SleepersHaveALeader

-----------------------------------------------------------------------------
(* Readers are interchangeable, and so are recorders. *)

Alike == Permutations(Readers) \cup Permutations(Recorders)

=============================================================================
