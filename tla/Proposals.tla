----------------------------- MODULE Proposals -----------------------------
(***************************************************************************)
(* Proposals of rhiza-quepaxa, their total order, and the interval summary *)
(* register (ISR) a recorder keeps for every slot.                         *)
(*                                                                         *)
(* A proposal is a record of natural numbers.  Priorities, node ids,       *)
(* proposal ids and values are compared as bytes or strings by the code;   *)
(* only their order matters here.  Nil stands for Rust's None and for      *)
(* Proposal::nil(): it is below every real proposal, because a priority    *)
(* source never returns ZERO.                                              *)
(***************************************************************************)
EXTENDS Naturals

\* ProposalPriority, proposer_id, proposal_id and value of a real proposal.
Proposal ==
    [priority : Nat \ {0}, proposer : Nat, id : Nat, value : Nat]

Nil == [priority |-> 0, proposer |-> 0, id |-> 0, value |-> 0]

ProposalOrNil == Proposal \cup {Nil}

\* Ord for Proposal: lexicographic on (priority, proposer_id, proposal_id, value).
Less(a, b) ==
    \/ a.priority < b.priority
    \/ /\ a.priority = b.priority
       /\ \/ a.proposer < b.proposer
          \/ /\ a.proposer = b.proposer
             /\ \/ a.id < b.id
                \/ a.id = b.id /\ a.value < b.value

AtMost(a, b) == a = b \/ Less(a, b)

Larger(a, b) == IF Less(a, b) THEN b ELSE a

\* Iterator::max over a set of proposals returns x.
IsGreatest(x, S) == x \in S /\ \A y \in S : AtMost(y, x)

-----------------------------------------------------------------------------
\* IsrState: the current step, the first and the greatest proposal recorded at
\* it, and the greatest proposal recorded at the step just before it.
IsrState ==
    [step : Nat, first : ProposalOrNil, agg : ProposalOrNil, prior : ProposalOrNil]

EmptyIsr == [step |-> 0, first |-> Nil, agg |-> Nil, prior |-> Nil]

\* Faulty variant of Record: the prior aggregate is lost.
RecordDropsPrior(isr, step, p) ==
    IF step = isr.step
    THEN [isr EXCEPT !.first = IF @ = Nil THEN p ELSE @, !.agg = Larger(@, p)]
    ELSE [step |-> step, first |-> p, agg |-> p, prior |-> Nil]

\* IsrState::record: a stale step changes nothing, the current step keeps its
\* first proposal and raises the aggregate, a later step starts afresh and keeps
\* the old aggregate only when no step was skipped.
Record(isr, step, p) ==
    CASE step = isr.step ->
            [step  |-> step, first |-> IF isr.first = Nil THEN p ELSE isr.first,
             agg   |-> Larger(isr.agg, p), prior |-> isr.prior]
      [] step > isr.step ->
            [step  |-> step, first |-> p, agg |-> p,
             prior |-> IF step = isr.step + 1 THEN isr.agg ELSE Nil]
      [] OTHER -> isr
=============================================================================
