------------------------------ MODULE QuePaxa ------------------------------
(***************************************************************************)
(* One slot of the consensus engine of crates/rhiza-quepaxa: proposers     *)
(* that run ThreeNodeConsensus::propose_stored_at_until / drive, and       *)
(* recorders that run RecorderFileStore::record_proposal.                  *)
(*                                                                         *)
(* A logical step is 4 * round + phase; a call starts at step 4.  Record   *)
(* requests and their answers are kept in sets that only grow, so a        *)
(* request or an answer can be lost, delayed, duplicated and reordered.    *)
(* The record a recorder keeps is durable (RecorderStore models how).        *)
(***************************************************************************)
EXTENDS Proposals, FiniteSets

CONSTANTS
    Recorders,      \* members of the configuration
    Quorums,        \* its quorums: the sets of quorum_size() members
    Proposers,      \* node ids that run propose calls for this slot
    Preferred,      \* membership.members()[0], the proposer that may use MAX
    Offers,         \* Offers[p]: the commands p may offer for the slot
    Sampled,        \* priorities the PrioritySource may return
    MAX,            \* ProposalPriority::MAX
    StepLimit,      \* StepLimit[p]: bound on the steps p advances to by itself
    MaxSeq,         \* bound on the proposal ids of one process
    Failing,        \* proposers whose calls may return an error
    Restarting,     \* proposers whose process may restart
    Disseminate     \* whether decision proofs get installed at recorders

ASSUME QuorumAssumption ==
    /\ Quorums \subseteq SUBSET Recorders
    /\ \A Q1, Q2 \in Quorums : Q1 \cap Q2 # {}

ASSUME IdentityAssumption ==
    /\ Proposers \subseteq Nat
    /\ Offers \in [Proposers -> SUBSET Nat]
    /\ Preferred \in Nat

\* OsPrioritySource redraws ZERO and MAX.
ASSUME PriorityAssumption ==
    /\ MAX \in Nat \ {0}
    /\ Sampled \subseteq 1 .. (MAX - 1)

ASSUME BoundAssumption ==
    /\ StepLimit \in [Proposers -> Nat]
    /\ MaxSeq \in Nat
    /\ Disseminate \in BOOLEAN
    /\ Failing \subseteq Proposers
    /\ Restarting \subseteq Proposers

NoProof == [step |-> 0, proposal |-> Nil]

VARIABLES
    isr,        \* isr[r]: the register recorder r holds for the slot
    installed,  \* installed[r]: the decision proof cached at r, or NoProof
    sent,       \* every record request ever sent
    replies,    \* the answers to record requests that took part in their own step
    call,       \* call[p]: the propose call p runs
    seq,        \* seq[p]: proposal_sequence of p's process
    proofs      \* every decision proof a call has built

vars == <<isr, installed, sent, replies, call, seq, proofs>>

Request == [to : Recorders, step : Nat, proposal : Proposal]

Reply == [from : Recorders, step : Nat, proposal : Proposal,
          first : ProposalOrNil, prior : ProposalOrNil]

Proof == [step : Nat, proposal : Proposal]

Call == [status : {"idle", "running", "decided"}, step : Nat,
         proposal : ProposalOrNil, asked : [Recorders -> ProposalOrNil],
         heard : SUBSET Recorders, outcome : Proof \cup {NoProof}]

IdleCall == [status |-> "idle", step |-> 0, proposal |-> Nil,
             asked |-> [r \in Recorders |-> Nil], heard |-> {}, outcome |-> NoProof]

Phase(step) == step % 4

Init ==
    /\ isr = [r \in Recorders |-> EmptyIsr]
    /\ installed = [r \in Recorders |-> NoProof]
    /\ sent = {}
    /\ replies = {}
    /\ call = [p \in Proposers |-> IdleCall]
    /\ seq = [p \in Proposers |-> 1]
    /\ proofs = {}

-----------------------------------------------------------------------------
(* The proposer. *)

\* The priorities drive gives the proposal of a phase-0 broadcast: MAX for the
\* preferred proposer at step 4, a fresh draw for every recorder otherwise.
PhaseZeroPriorities(p, step) ==
    IF step = 4 /\ p = Preferred
    THEN {[r \in Recorders |-> MAX]}
    ELSE [Recorders -> Sampled]

\* What drive sends to each recorder for a proposal carried at a step.  A retry
\* after Pending sends the same requests: the drawn priorities are kept.
Asks(p, step, proposal) ==
    IF Phase(step) = 0
    THEN {[r \in Recorders |-> [proposal EXCEPT !.priority = d[r]]] :
             d \in PhaseZeroPriorities(p, step)}
    ELSE {[r \in Recorders |-> proposal]}

Broadcast(p, step, proposal) ==
    \E ask \in Asks(p, step, proposal) :
        /\ sent' = sent \cup {[to |-> r, step |-> step, proposal |-> ask[r]] :
                                 r \in Recorders}
        /\ call' = [call EXCEPT ![p] =
                       [status |-> "running", step |-> step, proposal |-> proposal,
                        asked |-> ask, heard |-> {}, outcome |-> NoProof]]

\* propose_stored_at_until: take a proposal id and start at step 4.
Propose(p, v) ==
    /\ call[p].status = "idle"
    /\ seq[p] <= MaxSeq
    /\ Broadcast(p, 4, [priority |-> MAX, proposer |-> p, id |-> seq[p], value |-> v])
    /\ seq' = [seq EXCEPT ![p] = @ + 1]
    /\ UNCHANGED <<isr, installed, replies, proofs>>

\* The answers p has to the requests of its current step.  One that is lost or
\* late is one that p leaves out of the quorum it concludes from.
Answers(p) ==
    {m \in replies : /\ m.from \in call[p].heard
                     /\ m.step = call[p].step
                     /\ m.proposal = call[p].asked[m.from]}

\* An answer from the very next step is not acted on.
CatchUpTooLate(p, r) ==
    /\ call[p].status = "running"
    /\ installed[r] = NoProof
    /\ isr[r].step > call[p].step + 1
    /\ Broadcast(p, isr[r].step, isr[r].first)
    /\ UNCHANGED <<isr, installed, replies, seq, proofs>>

\* drive, catch-up: a recorder that is already at a later step answers with it,
\* and the call goes there with the first proposal of that step.  The answer is
\* taken as soon as it is given: until then the call does nothing else.
CatchUp(p, r) ==
    /\ call[p].status = "running"
    /\ installed[r] = NoProof
    /\ isr[r].step > call[p].step
    /\ Broadcast(p, isr[r].step, isr[r].first)
    /\ UNCHANGED <<isr, installed, replies, seq, proofs>>

Finish(p, proof) ==
    call' = [call EXCEPT ![p] = [IdleCall EXCEPT !.status = "decided", !.outcome = proof]]

Decide(p, proposal) ==
    LET proof == [step |-> call[p].step, proposal |-> proposal]
    IN  /\ Finish(p, proof)
        /\ proofs' = proofs \cup {proof}
        /\ UNCHANGED sent

Advance(p, proposal) ==
    /\ call[p].step < StepLimit[p]
    /\ Broadcast(p, call[p].step + 1, proposal)
    /\ UNCHANGED proofs

Gathered(p, Q) == {m \in Answers(p) : m.from \in Q}

\* record_broadcast returned a quorum of answers at the call's own step.
HasQuorum(p, Q) == \A r \in Q : \E m \in Answers(p) : m.from = r

\* Faulty variants of the conclusions: a fast path from any MAX answer, a decision
\* without the check against greater aggregates, and a round that starts from the
\* proposer's own proposal.
FastPathFromAny(p, Q) ==
    \E best \in {m.first : m \in Gathered(p, Q)} :
        IF call[p].step = 4 /\ best.priority = MAX THEN Decide(p, best) ELSE Advance(p, best)

DecideUnchecked(p, Q) ==
    IF \E m \in Gathered(p, Q) : m.prior = call[p].proposal
    THEN Decide(p, call[p].proposal)
    ELSE Advance(p, call[p].proposal)

NextRoundWithOwn(p, Q) == Advance(p, call[p].proposal)

\* drive, phase 0: a quorum whose first proposal is one and the same MAX
\* proposal decides at step 4; otherwise the greatest first proposal is carried.
ConcludePhase0(p, Q) ==
    LET firsts == {m.first : m \in Gathered(p, Q)}
    IN  \E best \in firsts :
           /\ IsGreatest(best, firsts)
           /\ IF call[p].step = 4 /\ best.priority = MAX /\ firsts = {best}
              THEN Decide(p, best)
              ELSE Advance(p, best)

\* drive, phase 1: the carried proposal has now been recorded by a quorum.
ConcludePhase1(p) == Advance(p, call[p].proposal)

\* drive, phase 2: decide when no quorum member aggregated a greater proposal.
ConcludePhase2(p, Q) ==
    IF IsGreatest(call[p].proposal, {m.prior : m \in Gathered(p, Q)})
    THEN Decide(p, call[p].proposal)
    ELSE Advance(p, call[p].proposal)

\* drive, phase 3: carry the greatest aggregate of phase 2 into the next round.
\* Without any aggregate drive returns an error (PhaseThreeHasAggregate).
ConcludePhase3(p, Q) ==
    LET priors == {m.prior : m \in Gathered(p, Q)}
    IN  \E best \in priors \ {Nil} :
           IsGreatest(best, priors) /\ Advance(p, best)

Conclude(p) ==
    /\ call[p].status = "running"
    /\ \E Q \in Quorums :
          /\ HasQuorum(p, Q)
          /\ \/ Phase(call[p].step) = 0 /\ ConcludePhase0(p, Q)
             \/ Phase(call[p].step) = 1 /\ ConcludePhase1(p)
             \/ Phase(call[p].step) = 2 /\ ConcludePhase2(p, Q)
             \/ Phase(call[p].step) = 3 /\ ConcludePhase3(p, Q)
    /\ UNCHANGED <<isr, installed, replies, seq>>

\* drive: an answer that embeds an installed proof ends the call with it.
AdoptProof(p, r) ==
    /\ call[p].status = "running"
    /\ installed[r] # NoProof
    /\ Finish(p, installed[r])
    /\ UNCHANGED <<isr, installed, sent, replies, seq, proofs>>

\* The call returns an error (cancelled, command unavailable, worker failed) and
\* its caller may offer another command for the slot.
Abandon(p) ==
    /\ p \in Failing
    /\ call[p].status = "running"
    /\ call' = [call EXCEPT ![p] = IdleCall]
    /\ UNCHANGED <<isr, installed, sent, replies, seq, proofs>>

\* The proposer's process restarts: its proposal ids start again at 1.
Restart(p) ==
    /\ p \in Restarting
    /\ call[p].status # "idle" \/ seq[p] # 1
    /\ call' = [call EXCEPT ![p] = IdleCall]
    /\ seq' = [seq EXCEPT ![p] = 1]
    /\ UNCHANGED <<isr, installed, sent, replies, proofs>>

-----------------------------------------------------------------------------
(* The recorder. *)

\* p's call is waiting for the answer to m.
Awaits(p, m) ==
    /\ call[p].status = "running"
    /\ call[p].step = m.step
    /\ call[p].asked[m.to] = m.proposal

\* record_proposal: record in the register and answer from it.  An answer given
\* from a later step is the one CatchUp takes; with a decision proof installed
\* nothing is recorded and the answer carries the proof, which AdoptProof takes.
RecordProposal(m) ==
    LET r    == m.to
        next == Record(isr[r], m.step, m.proposal)
    IN  /\ installed[r] = NoProof
        /\ m.step >= isr[r].step
        /\ isr' = [isr EXCEPT ![r] = next]
        /\ replies' = replies \cup
              {[from |-> r, step |-> m.step, proposal |-> m.proposal,
                first |-> next.first, prior |-> next.prior]}
        /\ call' = [p \in Proposers |->
              IF Awaits(p, m) THEN [call[p] EXCEPT !.heard = @ \cup {r}] ELSE call[p]]
        /\ UNCHANGED <<installed, sent, seq, proofs>>

\* install_decision_proof_record: the first proof stays.
InstallProof(r, proof) ==
    /\ Disseminate
    /\ installed[r] = NoProof
    /\ installed' = [installed EXCEPT ![r] = proof]
    /\ UNCHANGED <<isr, sent, replies, call, seq, proofs>>

Next ==
    \/ \E p \in Proposers :
          \/ \E v \in Offers[p] : Propose(p, v)
          \/ Conclude(p)
          \/ \E r \in Recorders : CatchUp(p, r) \/ AdoptProof(p, r)
          \/ Abandon(p)
          \/ Restart(p)
    \/ \E m \in sent : RecordProposal(m)
    \/ \E r \in Recorders, proof \in proofs : InstallProof(r, proof)

Spec == Init /\ [][Next]_vars

\* The retry loop of propose_stored_at_until never gives up, so what it asks of
\* the recorders that stay up (a quorum) is answered, and what it hears is used.
Fairness(p, up) ==
    /\ WF_vars(Conclude(p))
    /\ \A r \in up :
          /\ WF_vars(CatchUp(p, r))
          /\ WF_vars(AdoptProof(p, r))
          /\ WF_vars(\E m \in sent : m.to = r /\ Awaits(p, m) /\ RecordProposal(m))

-----------------------------------------------------------------------------
\* The kinds of every variable.
TypeOK ==
    /\ isr \in [Recorders -> IsrState]
    /\ installed \in [Recorders -> Proof \cup {NoProof}]
    /\ sent \subseteq Request
    /\ replies \subseteq Reply
    /\ call \in [Proposers -> Call]
    /\ seq \in [Proposers -> Nat]
    /\ proofs \subseteq Proof

\* Agreement of the fast path and of every phase-2 decision of drive: no two
\* proofs built for the slot carry different values, whatever was delayed, lost,
\* duplicated or reordered and whoever restarted.
Agreement ==
    \A d, e \in proofs : d.proposal.value = e.proposal.value

\* Whatever ends a call of drive, a proof of its own or one a recorder has
\* cached, the value it returns is that of every other decision of the slot.
OutcomesAgree ==
    \A d \in proofs :
       /\ \A p \in Proposers :
             call[p].status = "decided" => call[p].outcome.proposal.value = d.proposal.value
       /\ \A r \in Recorders :
             installed[r] # NoProof => installed[r].proposal.value = d.proposal.value

\* Once drive has decided at some step, calls that are two or more steps later,
\* and the recorders they reach, only ever hold the decided value.
LaterRoundsKeepValue ==
    \A d \in proofs :
       /\ \A p \in Proposers :
             (call[p].status = "running" /\ call[p].step >= d.step + 2)
                => call[p].proposal.value = d.proposal.value
       /\ \A r \in Recorders :
             isr[r].step >= d.step + 2
                => isr[r].first.value = d.proposal.value /\ isr[r].agg.value = d.proposal.value

\* The error branch of drive's phase 3 is dead: a quorum that answers a phase-3
\* request always has an aggregate of phase 2 among its answers.
PhaseThreeHasAggregate ==
    \A p \in Proposers, Q \in Quorums :
       (call[p].status = "running" /\ Phase(call[p].step) = 3 /\ HasQuorum(p, Q))
          => \E m \in Gathered(p, Q) : m.prior # Nil

\* A proposer whose call keeps running while no other call does gets its decision
\* with a bare quorum of recorders up: nothing a stopped competitor left behind
\* (registers, delayed requests) can keep drive cycling through rounds.
LoneProposerDecides ==
    \A p \in Proposers \ (Failing \cup Restarting) :
       (<>[](/\ call[p].status # "idle"
             /\ \A q \in Proposers \ {p} : call[q].status # "running"))
          => <>(call[p].status = "decided")

\* The proofs of a slot implement the abstract choice of one offered value.
Slot == INSTANCE Consensus WITH
            Values <- UNION {Offers[p] : p \in Proposers},
            chosen <- {d.proposal.value : d \in proofs}

\* Seen from outside, the slot goes from undecided to one offered value and
\* stays there: the detailed protocol implements Consensus.
ImplementsConsensus == Slot!SlotSpec

=============================================================================
