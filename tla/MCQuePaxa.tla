----------------------------- MODULE MCQuePaxa -----------------------------
(* QuePaxa for TLC: three recorders, majority quorums. *)
EXTENDS QuePaxa, TLC

MCQuorums == {Q \in SUBSET Recorders : Cardinality(Q) = Cardinality(Recorders) \div 2 + 1}
OwnValue == [p \in Proposers |-> {p}]
LimitTen == [p \in Proposers |-> 10]
LimitLive == [p \in Proposers |-> IF p = 1 THEN 14 ELSE 10]
UpQuorum == CHOOSE Q \in Quorums : TRUE
FairSpec == Spec /\ Fairness(1, UpQuorum)

(* Requests and answers of steps that are over for their reader have no effect
   any more: TLC identifies states that differ only in them. *)
Relevant ==
    <<isr, installed, call, seq, proofs,
      {m \in sent : m.step >= isr[m.to].step},
      [p \in Proposers |-> Answers(p)]>>

Symmetry == Permutations(Recorders)
=============================================================================
