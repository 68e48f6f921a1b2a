--------------------------- MODULE QuePaxaProofs ----------------------------
(***************************************************************************)
(* The inductive invariant behind the agreement of QuePaxa.  It speaks of  *)
(* the requests ever sent and the answers ever given: what justified a     *)
(* request, and which proposals a step can still decide.                   *)
(***************************************************************************)
EXTENDS QuePaxa, TLAPS

Sent(s, x) == \E m \in sent : m.step = s /\ m.proposal = x

\* r has answered a request (s, x) at step s.
Answered(r, s, x) ==
    \E n \in replies : n.from = r /\ n.step = s /\ n.proposal = x

\* A register holds what was sent at its step and, as prior, at the step before.
RegisterInv ==
    \A r \in Recorders :
       \/ isr[r] = EmptyIsr
       \/ /\ isr[r].step >= 4
          /\ Sent(isr[r].step, isr[r].first)
          /\ Sent(isr[r].step, isr[r].agg)
          /\ isr[r].prior # Nil => Sent(isr[r].step - 1, isr[r].prior)
          /\ \E n \in replies :
                n.from = r /\ n.step = isr[r].step /\ n.first = isr[r].first

\* An answer fixes the first proposal and the prior aggregate of its recorder's
\* step, and the prior of the next step covers every proposal recorded.
ReplyInv ==
    \A m \in replies :
       /\ m.step >= 4
       /\ m.step <= isr[m.from].step
       /\ Sent(m.step, m.proposal)
       /\ Sent(m.step, m.first)
       /\ m.prior # Nil => Sent(m.step - 1, m.prior)
       /\ m.step = isr[m.from].step =>
             /\ m.first = isr[m.from].first
             /\ m.prior = isr[m.from].prior
             /\ AtMost(m.proposal, isr[m.from].agg)
       /\ m.step + 1 = isr[m.from].step => AtMost(m.proposal, isr[m.from].prior)
       /\ \A n \in replies : n.from = m.from =>
             /\ n.step = m.step => n.first = m.first /\ n.prior = m.prior
             /\ n.step = m.step + 1 => AtMost(m.proposal, n.prior)

\* What drive had seen when it first sent x at step s, by the phase of s.
Justified(s, x) ==
    /\ s >= 4
    /\ Phase(s) = 1 =>
          /\ \E n \in replies : n.step = s - 1 /\ n.first = x
          /\ \E Q \in Quorums : \A r \in Q : \E n \in replies :
                n.from = r /\ n.step = s - 1 /\ AtMost(n.first, x)
    /\ Phase(s) \in {2, 3} => \E Q \in Quorums : \A r \in Q : Answered(r, s - 1, x)
    /\ (Phase(s) = 0 /\ s # 4) =>
          \E b \in replies :
             /\ b.step = s - 1 /\ b.prior # Nil /\ b.prior.value = x.value
             /\ \E Q \in Quorums : \A r \in Q : \E n \in replies :
                   n.from = r /\ n.step = s - 1 /\ AtMost(n.prior, b.prior)

RequestInv ==
    \A m \in sent :
       /\ Justified(m.step, m.proposal)
       /\ m.proposal.priority <= MAX
       /\ m.proposal.value \in UNION {Offers[p] : p \in Proposers}

CallInv ==
    \A p \in Proposers : call[p].status = "running" =>
       /\ call[p].proposal \in Proposal
       /\ call[p].proposal.value \in UNION {Offers[q] : q \in Proposers}
       /\ Justified(call[p].step, call[p].proposal)
       /\ \A r \in Recorders :
             /\ Sent(call[p].step, call[p].asked[r])
             /\ Phase(call[p].step) # 0 => call[p].asked[r] = call[p].proposal

\* The part of the invariant that holds whatever the proposers do.
BaseInv == TypeOK /\ RegisterInv /\ ReplyInv /\ RequestInv /\ CallInv

-----------------------------------------------------------------------------
\* A quorum may still answer step 4 with x as its first proposal.
FastOpen(x) ==
    \E Q \in Quorums : \A r \in Q :
       \/ isr[r].step < 4
       \/ \E n \in replies : n.from = r /\ n.step = 4 /\ n.first = x

\* A quorum may still answer (s, x) without a greater aggregate of step s - 1.
RoundOpen(s, x) ==
    \E Q \in Quorums : \A r \in Q :
       /\ isr[r].step <= s \/ Answered(r, s, x)
       /\ isr[r].step = s - 1 => AtMost(isr[r].agg, x)
       /\ isr[r].step = s => AtMost(isr[r].prior, x)
       /\ \A n \in replies : (n.from = r /\ n.step = s) => AtMost(n.prior, x)

\* Only one MAX proposal is ever sent at step 4.
MaxInv ==
    /\ \A m \in sent : (m.step = 4 /\ m.proposal.priority = MAX)
          => Preferred \in Proposers /\ call[Preferred].status # "idle"
    /\ \A m, n \in sent :
          (/\ m.step = 4 /\ m.proposal.priority = MAX
           /\ n.step = 4 /\ n.proposal.priority = MAX) => m.proposal = n.proposal

\* While step 4 may still decide x, whatever is sent later has its value.
FastInv ==
    \A x \in Proposal : (x.priority = MAX /\ FastOpen(x)) =>
       \A m \in sent : m.step >= 5 => m.proposal.value = x.value

\* While step s may still decide x, whatever later rounds send has its value.
RoundInv ==
    \A s \in Nat, x \in Proposal : (s >= 4 /\ Phase(s) = 2 /\ RoundOpen(s, x)) =>
       \A m \in sent : m.step >= s + 2 => m.proposal.value = x.value

\* The evidence drive has when it decides x at step s.
Evidence(s, x) ==
    /\ Sent(s, x)
    /\ \/ /\ s = 4 /\ x.priority = MAX
          /\ \E Q \in Quorums : \A r \in Q : \E n \in replies :
                n.from = r /\ n.step = 4 /\ n.first = x
       \/ /\ Phase(s) = 2
          /\ \E Q \in Quorums : \A r \in Q :
                /\ Answered(r, s, x)
                /\ \A n \in replies : (n.from = r /\ n.step = s) => AtMost(n.prior, x)

ProofInv == \A d \in proofs : Evidence(d.step, d.proposal)

\* Every decision a call returns or a recorder caches is one of the proofs.
CopyInv ==
    /\ \A p \in Proposers : call[p].status = "decided" => call[p].outcome \in proofs
    /\ \A r \in Recorders : installed[r] # NoProof => installed[r] \in proofs

\* The preferred proposer runs one call for the slot: it neither fails nor
\* restarts.  (Two of its calls would both use priority MAX at step 4.)
PreferredStays == Preferred \notin Failing \cup Restarting

SafetyInv ==
    /\ PreferredStays
    /\ BaseInv /\ MaxInv /\ FastInv /\ RoundInv /\ ProofInv /\ CopyInv

-----------------------------------------------------------------------------
(***************************************************************************)
(* Proofs about QuePaxa for any number of recorders, proposers, offers and *)
(* priorities, any intersecting quorums and no bound on the steps.         *)
(***************************************************************************)

(* The order on proposals. *)

\* Ord for Proposal is transitive.
LEMMA AtMostTransitive ==
    ASSUME NEW a \in ProposalOrNil, NEW b \in ProposalOrNil, NEW c \in ProposalOrNil,
           AtMost(a, b), AtMost(b, c)
    PROVE  AtMost(a, c)
BY DEF ProposalOrNil, Proposal, Nil, AtMost, Less

\* Ord for Proposal is antisymmetric: proposals that compare equal are equal.
LEMMA AtMostAntisymmetric ==
    ASSUME NEW a \in ProposalOrNil, NEW b \in ProposalOrNil,
           AtMost(a, b), AtMost(b, a)
    PROVE  a = b
BY DEF ProposalOrNil, Proposal, Nil, AtMost, Less

\* Larger returns one of its arguments, above both.
LEMMA LargerIsUpper ==
    ASSUME NEW a \in ProposalOrNil, NEW b \in ProposalOrNil
    PROVE  /\ Larger(a, b) \in {a, b}
           /\ AtMost(a, Larger(a, b))
           /\ AtMost(b, Larger(a, b))
BY DEF ProposalOrNil, Proposal, Nil, AtMost, Less, Larger

\* Nothing real is at most nil.
LEMMA NilIsLeast ==
    ASSUME NEW a \in Proposal
    PROVE  a # Nil /\ ~AtMost(a, Nil)
BY DEF Proposal, Nil, AtMost, Less

\* The phases follow each other.
LEMMA PhaseSuccessor ==
    ASSUME NEW s \in Nat
    PROVE  /\ Phase(s) \in {0, 1, 2, 3}
           /\ Phase(s + 1) = IF Phase(s) = 3 THEN 0 ELSE Phase(s) + 1
BY DEF Phase

LEMMA PhaseFour == Phase(4) = 0
BY DEF Phase

\* IsrState::record on a request that is not stale.
LEMMA RecordFields ==
    ASSUME NEW i \in IsrState, NEW s \in Nat, NEW x \in Proposal, s >= i.step
    PROVE  /\ Record(i, s, x) \in IsrState
           /\ Record(i, s, x).step = s
           /\ s = i.step =>
                /\ Record(i, s, x).first = IF i.first = Nil THEN x ELSE i.first
                /\ Record(i, s, x).agg = Larger(i.agg, x)
                /\ Record(i, s, x).prior = i.prior
           /\ s > i.step =>
                /\ Record(i, s, x).first = x
                /\ Record(i, s, x).agg = x
                /\ Record(i, s, x).prior = IF s = i.step + 1 THEN i.agg ELSE Nil
<1>1. CASE s = i.step
  <2>1. Record(i, s, x) = [step  |-> s, first |-> IF i.first = Nil THEN x ELSE i.first,
                           agg   |-> Larger(i.agg, x), prior |-> i.prior]
    BY <1>1 DEF Record, IsrState
  <2>2. Larger(i.agg, x) \in ProposalOrNil
    BY LargerIsUpper DEF IsrState, ProposalOrNil
  <2>3. QED BY <1>1, <2>1, <2>2 DEF IsrState, ProposalOrNil
<1>2. CASE s > i.step
  <2>1. Record(i, s, x) = [step |-> s, first |-> x, agg |-> x,
                           prior |-> IF s = i.step + 1 THEN i.agg ELSE Nil]
    BY <1>2 DEF Record, IsrState
  <2>2. QED BY <1>2, <2>1 DEF IsrState, ProposalOrNil
<1>3. QED BY <1>1, <1>2 DEF IsrState

-----------------------------------------------------------------------------
(* What a broadcast sends. *)

\* The requests drive builds for (s, x): only phase 0 changes the proposal, and
\* there only its priority.
Stamped(p, s, x, ask) ==
    /\ ask \in [Recorders -> Proposal]
    /\ \A r \in Recorders :
          /\ ask[r].value = x.value
          /\ x.priority <= MAX => ask[r].priority <= MAX
          /\ Phase(s) # 0 => ask[r] = x
          /\ Phase(s) = 0 =>
                ask[r] = [priority |-> ask[r].priority, proposer |-> x.proposer,
                          id |-> x.id, value |-> x.value]
          /\ (Phase(s) = 0 /\ ask[r].priority = MAX) => s = 4 /\ p = Preferred

\* What the broadcast of x under stamps ask does.
StampedBroadcast(p, s, x, ask) ==
    /\ Stamped(p, s, x, ask)
    /\ sent' = sent \cup {[to |-> r, step |-> s, proposal |-> ask[r]] : r \in Recorders}
    /\ call' = [call EXCEPT ![p] =
                   [status |-> "running", step |-> s, proposal |-> x,
                    asked |-> ask, heard |-> {}, outcome |-> NoProof]]

\* Every broadcast is stamped, and its call waits for nothing but its answers.
LEMMA BroadcastIsStamped ==
    ASSUME NEW p \in Proposers, NEW s \in Nat, NEW x \in Proposal,
           Broadcast(p, s, x)
    PROVE  \E ask : StampedBroadcast(p, s, x, ask)
<1>1. PICK ask \in Asks(p, s, x) :
         /\ sent' = sent \cup {[to |-> r, step |-> s, proposal |-> ask[r]] :
                                  r \in Recorders}
         /\ call' = [call EXCEPT ![p] =
                       [status |-> "running", step |-> s, proposal |-> x,
                        asked |-> ask, heard |-> {}, outcome |-> NoProof]]
  BY ZenonT(30) DEF Broadcast
<1>2. Stamped(p, s, x, ask)
  <2>1. CASE Phase(s) = 0
    <3>1. PICK d \in PhaseZeroPriorities(p, s) :
             ask = [r \in Recorders |-> [x EXCEPT !.priority = d[r]]]
      BY <2>1 DEF Asks
    <3>2. \A r \in Recorders :
             /\ d[r] \in Nat \ {0} /\ d[r] <= MAX
             /\ d[r] = MAX => s = 4 /\ p = Preferred
      <4>1. CASE s = 4 /\ p = Preferred
        <5>1. d = [r \in Recorders |-> MAX]
          BY <4>1 DEF PhaseZeroPriorities
        <5>2. QED BY <4>1, <5>1, PriorityAssumption
      <4>2. CASE ~(s = 4 /\ p = Preferred)
        <5>1. d \in [Recorders -> Sampled]
          BY <4>2 DEF PhaseZeroPriorities
        <5>2. \A z \in Sampled : z \in Nat \ {0} /\ z < MAX
          BY PriorityAssumption
        <5>3. ASSUME NEW r \in Recorders
              PROVE  d[r] \in Nat \ {0} /\ d[r] <= MAX /\ d[r] # MAX
          <6>1. d[r] \in Sampled
            BY <5>1
          <6>2. d[r] \in Nat \ {0} /\ d[r] < MAX
            BY <5>2, <6>1
          <6>3. MAX \in Nat
            BY PriorityAssumption
          <6>4. QED BY <6>2, <6>3
        <5>4. QED BY <4>2, <5>3
      <4>3. QED BY <4>1, <4>2
    <3>3. \A r \in Recorders :
             ask[r] = [priority |-> d[r], proposer |-> x.proposer,
                       id |-> x.id, value |-> x.value]
      BY <3>1 DEF Proposal
    <3>4. ask \in [Recorders -> Proposal]
      <4>1. ASSUME NEW r \in Recorders PROVE ask[r] \in Proposal
        <5>1. d[r] \in Nat \ {0}
          BY <3>2
        <5>2. x.proposer \in Nat /\ x.id \in Nat /\ x.value \in Nat
          BY DEF Proposal
        <5>3. ask[r] = [priority |-> d[r], proposer |-> x.proposer,
                        id |-> x.id, value |-> x.value]
          BY <3>3
        <5>4. QED BY <5>1, <5>2, <5>3 DEF Proposal
      <4>2. QED BY <3>1, <4>1
    <3>5. QED BY <2>1, <3>2, <3>3, <3>4 DEF Stamped
  <2>2. CASE Phase(s) # 0
    <3>1. ask = [r \in Recorders |-> x]
      BY <2>2 DEF Asks
    <3>2. QED BY <2>2, <3>1 DEF Stamped
  <2>3. QED BY <2>1, <2>2
<1>3. QED BY <1>1, <1>2, ZenonT(30) DEF StampedBroadcast

\* What justifies a request stays true: answers are never taken back.
LEMMA JustifiedIsStable ==
    ASSUME NEW s, NEW x, replies \subseteq replies', Justified(s, x)
    PROVE  Justified(s, x)'
BY DEF Justified, Answered

\* Sending a justified proposal keeps the invariant.
LEMMA SendKeepsBase ==
    ASSUME BaseInv, NEW p \in Proposers, NEW s \in Nat, NEW x \in Proposal,
           Broadcast(p, s, x), Justified(s, x), x.priority <= MAX,
           x.value \in UNION {Offers[q] : q \in Proposers},
           UNCHANGED <<isr, installed, replies, proofs>>, seq' \in [Proposers -> Nat]
    PROVE  BaseInv'
<1> USE DEF BaseInv
<1>1. PICK ask :
         /\ Stamped(p, s, x, ask)
         /\ sent' = sent \cup {[to |-> r, step |-> s, proposal |-> ask[r]] :
                                  r \in Recorders}
         /\ call' = [call EXCEPT ![p] =
                       [status |-> "running", step |-> s, proposal |-> x,
                        asked |-> ask, heard |-> {}, outcome |-> NoProof]]
  <2>1. PICK ask : StampedBroadcast(p, s, x, ask)
    BY BroadcastIsStamped, ZenonT(30)
  <2>2. QED BY <2>1, ZenonT(30) DEF StampedBroadcast
<1>2. \A m \in sent' \ sent : \E r \in Recorders :
         m = [to |-> r, step |-> s, proposal |-> ask[r]]
  BY <1>1
<1>3. TypeOK'
  <2>1. sent' \subseteq Request
    BY <1>1, <1>2 DEF TypeOK, Request, Stamped
  <2>2. call' \in [Proposers -> Call]
    BY <1>1 DEF TypeOK, Call, Stamped, ProposalOrNil
  <2>3. QED BY <2>1, <2>2 DEF TypeOK
<1>4. \A t, y : Sent(t, y) => Sent(t, y)'
  BY <1>1 DEF Sent
<1>5. RegisterInv'
  BY <1>4 DEF RegisterInv
<1>6. ReplyInv'
  BY <1>4 DEF ReplyInv
<1>7. RequestInv'
  <2>1. SUFFICES ASSUME NEW m \in sent' \ sent
                 PROVE  /\ Justified(m.step, m.proposal)'
                        /\ m.proposal.priority <= MAX
                        /\ m.proposal.value \in UNION {Offers[q] : q \in Proposers}
    BY JustifiedIsStable DEF RequestInv
  <2>2. PICK r \in Recorders : m = [to |-> r, step |-> s, proposal |-> ask[r]]
    BY <1>2
  <2>3. Justified(m.step, m.proposal)
    BY <1>1, <2>2 DEF Justified, Stamped
  <2>4. QED BY <1>1, <2>2, <2>3, JustifiedIsStable DEF Stamped
<1>8. CallInv'
  <2>1. SUFFICES ASSUME NEW q \in Proposers, call'[q].status = "running"
                 PROVE  (/\ call[q].proposal \in Proposal
                         /\ call[q].proposal.value \in UNION {Offers[o] : o \in Proposers}
                         /\ Justified(call[q].step, call[q].proposal)
                         /\ \A r \in Recorders :
                               /\ Sent(call[q].step, call[q].asked[r])
                               /\ Phase(call[q].step) # 0 =>
                                     call[q].asked[r] = call[q].proposal)'
    BY DEF CallInv
  <2>2. CASE q = p
    <3>1. call'[q] = [status |-> "running", step |-> s, proposal |-> x,
                      asked |-> ask, heard |-> {}, outcome |-> NoProof]
      BY <1>1, <2>2 DEF TypeOK
    <3>2. ASSUME NEW r \in Recorders PROVE Sent(call[q].step, call[q].asked[r])'
      <4>1. [to |-> r, step |-> s, proposal |-> ask[r]] \in sent'
        BY <1>1
      <4>2. QED BY <3>1, <4>1 DEF Sent
    <3>3. Justified(s, x)'
      BY JustifiedIsStable
    <3>4. Justified(call[q].step, call[q].proposal)'
      BY <3>1, <3>3 DEF Justified, Answered
    <3>5. QED BY <1>1, <3>1, <3>2, <3>4 DEF Stamped
  <2>3. CASE q # p
    <3>1. call'[q] = call[q]
      BY <1>1, <2>3 DEF TypeOK
    <3>2. Justified(call[q].step, call[q].proposal)'
      BY <2>1, <3>1, SMTT(30) DEF CallInv, Justified, Answered
    <3>3. \A r \in Recorders : Sent(call[q].step, call[q].asked[r])'
      BY <1>1, <2>1, <3>1 DEF CallInv, Sent
    <3>4. QED BY <2>1, <3>1, <3>2, <3>3 DEF CallInv
  <2>4. QED BY <2>2, <2>3
<1>9. QED BY <1>3, <1>5, <1>6, <1>7, <1>8

\* Recording a request that is not stale keeps the invariant.
LEMMA RecordKeepsBase ==
    ASSUME BaseInv, NEW m \in sent, RecordProposal(m)
    PROVE  BaseInv'
<1> DEFINE r  == m.to
           i  == isr[r]
           j  == Record(i, m.step, m.proposal)
           nw == [from |-> r, step |-> m.step, proposal |-> m.proposal,
                  first |-> j.first, prior |-> j.prior]
<1> USE DEF BaseInv
<1>1. /\ r \in Recorders /\ i \in IsrState
      /\ m.step \in Nat /\ m.step >= 4 /\ m.proposal \in Proposal
      /\ m.proposal \in ProposalOrNil
      /\ m.step >= i.step
      /\ Sent(m.step, m.proposal)
  BY DEF TypeOK, Request, RecordProposal, RequestInv, Justified, Sent, ProposalOrNil
<1>2. /\ isr' = [isr EXCEPT ![r] = j]
      /\ replies' = replies \cup {nw}
      /\ sent' = sent
      /\ UNCHANGED <<installed, seq, proofs>>
  BY DEF RecordProposal
<1>3. /\ isr'[r] = j
      /\ \A q \in Recorders : q # r => isr'[q] = isr[q]
  BY <1>1, <1>2 DEF TypeOK
<1>4. /\ j \in IsrState /\ j.step = m.step
      /\ m.step = i.step =>
            /\ j.first = IF i.first = Nil THEN m.proposal ELSE i.first
            /\ j.agg = Larger(i.agg, m.proposal)
            /\ j.prior = i.prior
      /\ m.step > i.step =>
            /\ j.first = m.proposal
            /\ j.agg = m.proposal
            /\ j.prior = IF m.step = i.step + 1 THEN i.agg ELSE Nil
  BY <1>1, RecordFields
<1> HIDE DEF j
<1>5. \A t, y : Sent(t, y)' = Sent(t, y)
  BY <1>2 DEF Sent
<1>6. \A t, y : Sent(t, y) => y \in Proposal
  BY DEF Sent, TypeOK, Request
<1>7. i.step # 0 =>
         /\ i.first # Nil /\ i.first \in Proposal
         /\ Sent(i.step, i.first) /\ Sent(i.step, i.agg)
         /\ i.prior # Nil => Sent(i.step - 1, i.prior)
  BY <1>1, <1>6, NilIsLeast DEF RegisterInv, EmptyIsr
<1>8. i.step = 0 => i.agg = Nil
  BY <1>1 DEF RegisterInv, EmptyIsr
<1>9. /\ Sent(m.step, j.first)
      /\ Sent(m.step, j.agg)
      /\ j.prior # Nil => Sent(m.step - 1, j.prior)
      /\ AtMost(m.proposal, j.agg)
  <2>1. CASE m.step = i.step
    <3>1. j.first = i.first /\ j.agg = Larger(i.agg, m.proposal) /\ j.prior = i.prior
      BY <1>1, <1>4, <1>7, <2>1
    <3>2. /\ Larger(i.agg, m.proposal) \in {i.agg, m.proposal}
          /\ AtMost(m.proposal, Larger(i.agg, m.proposal))
      BY <1>1, LargerIsUpper DEF IsrState
    <3>3. QED BY <1>1, <1>7, <2>1, <3>1, <3>2
  <2>2. CASE m.step > i.step
    <3>1. j.prior # Nil => Sent(m.step - 1, j.prior)
      BY <1>1, <1>4, <1>7, <1>8, <2>2 DEF IsrState
    <3>2. QED BY <1>1, <1>4, <2>2, <3>1 DEF AtMost
  <2>3. QED BY <1>1, <2>1, <2>2 DEF IsrState
<1>10. nw \in Reply
  BY <1>1, <1>4 DEF Reply, IsrState
<1>11. TypeOK'
  <2>1. isr' \in [Recorders -> IsrState]
    BY <1>1, <1>2, <1>4 DEF TypeOK
  <2>2. call' \in [Proposers -> Call]
    <3>1. \A p \in Proposers : [call[p] EXCEPT !.heard = @ \cup {r}] \in Call
      BY <1>1, ZenonT(30) DEF TypeOK, Call
    <3>2. QED BY <3>1 DEF RecordProposal, TypeOK
  <2>3. QED BY <1>2, <1>10, <2>1, <2>2 DEF TypeOK
<1>12. RegisterInv'
  <2>1. nw \in replies'
    BY <1>2
  <2>2. ASSUME NEW q \in Recorders, q # r
        PROVE  (\/ isr[q] = EmptyIsr
                \/ /\ isr[q].step >= 4
                   /\ Sent(isr[q].step, isr[q].first)
                   /\ Sent(isr[q].step, isr[q].agg)
                   /\ isr[q].prior # Nil => Sent(isr[q].step - 1, isr[q].prior)
                   /\ \E n \in replies :
                         n.from = q /\ n.step = isr[q].step /\ n.first = isr[q].first)'
    BY <1>2, <1>3, <2>2 DEF RegisterInv, Sent
  <2>3. (/\ isr[r].step >= 4
         /\ Sent(isr[r].step, isr[r].first)
         /\ Sent(isr[r].step, isr[r].agg)
         /\ isr[r].prior # Nil => Sent(isr[r].step - 1, isr[r].prior)
         /\ \E n \in replies :
               n.from = r /\ n.step = isr[r].step /\ n.first = isr[r].first)'
    BY <1>1, <1>2, <1>3, <1>4, <1>9, <2>1, ZenonT(30) DEF Sent
  <2>4. QED BY <2>2, <2>3 DEF RegisterInv
<1>13. ReplyInv'
  <2>1. ASSUME NEW n \in replies, n.from = r
        PROVE  /\ n.step <= i.step
               /\ n.step = m.step =>
                     n.first = j.first /\ n.prior = j.prior /\ AtMost(n.proposal, j.agg)
               /\ n.step + 1 = m.step => AtMost(n.proposal, j.prior)
    <3>1. /\ n.step \in Nat /\ n.proposal \in ProposalOrNil /\ i.step \in Nat
          /\ n.step >= 4 /\ n.step <= i.step
      BY <1>1, <2>1 DEF ReplyInv, TypeOK, Reply, ProposalOrNil, IsrState
    <3>2. /\ n.step = i.step => /\ n.first = i.first /\ n.prior = i.prior
                                /\ AtMost(n.proposal, i.agg)
          /\ n.step + 1 = i.step => AtMost(n.proposal, i.prior)
      BY <2>1 DEF ReplyInv
    <3>3. CASE m.step = i.step
      <4>1. j.first = i.first /\ j.agg = Larger(i.agg, m.proposal) /\ j.prior = i.prior
        BY <1>1, <1>4, <1>7, <3>3
      <4>2. AtMost(i.agg, j.agg) /\ i.agg \in ProposalOrNil /\ j.agg \in ProposalOrNil
        BY <1>1, <1>4, <4>1, LargerIsUpper DEF IsrState
      <4>3. n.step = i.step => AtMost(n.proposal, j.agg)
        BY <3>1, <3>2, <4>2, AtMostTransitive
      <4>4. QED BY <3>1, <3>2, <3>3, <4>1, <4>3
    <3>4. CASE m.step > i.step
      BY <1>1, <1>4, <3>1, <3>2, <3>4
    <3>5. QED BY <1>1, <3>1, <3>3, <3>4
  <2>2. SUFFICES ASSUME NEW a \in replies'
                 PROVE  (/\ a.step >= 4
                         /\ a.step <= isr[a.from].step
                         /\ Sent(a.step, a.proposal)
                         /\ Sent(a.step, a.first)
                         /\ a.prior # Nil => Sent(a.step - 1, a.prior)
                         /\ a.step = isr[a.from].step =>
                               /\ a.first = isr[a.from].first
                               /\ a.prior = isr[a.from].prior
                               /\ AtMost(a.proposal, isr[a.from].agg)
                         /\ a.step + 1 = isr[a.from].step =>
                               AtMost(a.proposal, isr[a.from].prior)
                         /\ \A n \in replies : n.from = a.from =>
                               /\ n.step = a.step => n.first = a.first /\ n.prior = a.prior
                               /\ n.step = a.step + 1 => AtMost(a.proposal, n.prior))'
    BY DEF ReplyInv
  <2>3. CASE a = nw
    <3>1. a.from = r /\ isr'[a.from] = j /\ a.step = m.step
      BY <1>3, <2>3
    <3>2. (/\ a.step >= 4 /\ a.step <= isr[a.from].step
           /\ a.step = isr[a.from].step =>
                 /\ a.first = isr[a.from].first
                 /\ a.prior = isr[a.from].prior
                 /\ AtMost(a.proposal, isr[a.from].agg)
           /\ a.step + 1 # isr[a.from].step)'
      BY <1>1, <1>4, <1>9, <2>3, <3>1
    <3>3. (/\ Sent(a.step, a.proposal)
           /\ Sent(a.step, a.first)
           /\ a.prior # Nil => Sent(a.step - 1, a.prior))'
      BY <1>1, <1>2, <1>9, <2>3 DEF Sent
    <3>4. ASSUME NEW n \in replies', n.from = a.from
          PROVE  /\ n.step = a.step => n.first = a.first /\ n.prior = a.prior
                 /\ n.step # a.step + 1
      <4>1. CASE n = nw
        BY <1>1, <2>3, <4>1, SMTT(30)
      <4>2. CASE n \in replies
        <5>1. n.step \in Nat /\ i.step \in Nat
          BY <1>1, <4>2 DEF TypeOK, Reply, IsrState
        <5>2. QED BY <1>1, <2>1, <2>3, <3>1, <3>4, <4>2, <5>1
      <4>3. QED BY <1>2, <4>1, <4>2
    <3>5. QED BY <3>2, <3>3, <3>4
  <2>4. CASE a \in replies
    <3>1. /\ a.step >= 4
          /\ a.step <= isr[a.from].step
          /\ Sent(a.step, a.proposal)
          /\ Sent(a.step, a.first)
          /\ a.prior # Nil => Sent(a.step - 1, a.prior)
          /\ a.step \in Nat /\ a.from \in Recorders /\ isr[a.from].step \in Nat
      BY <2>4 DEF ReplyInv, TypeOK, Reply, IsrState
    <3>2. (/\ Sent(a.step, a.proposal)
           /\ Sent(a.step, a.first)
           /\ a.prior # Nil => Sent(a.step - 1, a.prior))'
      BY <1>2, <3>1 DEF Sent
    <3>3. (/\ a.step <= isr[a.from].step
           /\ a.step = isr[a.from].step =>
                 /\ a.first = isr[a.from].first
                 /\ a.prior = isr[a.from].prior
                 /\ AtMost(a.proposal, isr[a.from].agg)
           /\ a.step + 1 = isr[a.from].step => AtMost(a.proposal, isr[a.from].prior))'
      <4>1. CASE a.from = r
        BY <1>1, <1>3, <1>4, <2>1, <2>4, <3>1, <4>1
      <4>2. CASE a.from # r
        BY <1>3, <2>4, <3>1, <4>2 DEF ReplyInv
      <4>3. QED BY <4>1, <4>2
    <3>4. ASSUME NEW n \in replies', n.from = a.from
          PROVE  /\ n.step = a.step => n.first = a.first /\ n.prior = a.prior
                 /\ n.step = a.step + 1 => AtMost(a.proposal, n.prior)
      <4>1. CASE n = nw
        BY <1>1, <2>1, <2>4, <3>1, <3>4, <4>1
      <4>2. CASE n \in replies
        BY <2>4, <3>4, <4>2 DEF ReplyInv
      <4>3. QED BY <1>2, <4>1, <4>2
    <3>5. QED BY <3>1, <3>2, <3>3, <3>4
  <2>5. QED BY <1>2, <2>3, <2>4
<1>14. RequestInv'
  BY <1>2, JustifiedIsStable DEF RequestInv
<1>15. CallInv'
  <2>1. SUFFICES ASSUME NEW q \in Proposers, call'[q].status = "running"
                 PROVE  (/\ call[q].proposal \in Proposal
                         /\ call[q].proposal.value \in UNION {Offers[o] : o \in Proposers}
                         /\ Justified(call[q].step, call[q].proposal)
                         /\ \A s \in Recorders :
                               /\ Sent(call[q].step, call[q].asked[s])
                               /\ Phase(call[q].step) # 0 =>
                                     call[q].asked[s] = call[q].proposal)'
    BY DEF CallInv
  <2>2. /\ call'[q].status = call[q].status
        /\ call'[q].step = call[q].step
        /\ call'[q].proposal = call[q].proposal
        /\ call'[q].asked = call[q].asked
    BY DEF RecordProposal, TypeOK, Call
  <2>3. Justified(call[q].step, call[q].proposal)
    BY <2>1, <2>2 DEF CallInv
  <2>4. Justified(call[q].step, call[q].proposal)'
    BY <1>2, <2>2, <2>3 DEF Justified, Answered
  <2>5. \A s \in Recorders : Sent(call[q].step, call[q].asked[s])'
    BY <1>2, <2>1, <2>2 DEF CallInv, Sent
  <2>6. QED BY <2>1, <2>2, <2>4, <2>5 DEF CallInv
<1>16. QED BY <1>11, <1>12, <1>13, <1>14, <1>15

-----------------------------------------------------------------------------
(* What a concluded step sends or decides. *)

\* Two quorums share a recorder.
LEMMA QuorumsMeet ==
    ASSUME NEW Q1 \in Quorums, NEW Q2 \in Quorums
    PROVE  \E r \in Recorders : r \in Q1 /\ r \in Q2
BY QuorumAssumption

\* What must have been seen at step s to send x at the next step.
LEMMA NextIsJustified ==
    ASSUME NEW s \in Nat, s >= 4, NEW x, NEW Q \in Quorums,
           Phase(s) = 0 =>
              /\ \E n \in replies : n.step = s /\ n.first = x
              /\ \A r \in Q : \E n \in replies :
                    n.from = r /\ n.step = s /\ AtMost(n.first, x),
           Phase(s) \in {1, 2} => \A r \in Q : Answered(r, s, x),
           Phase(s) = 3 =>
              \E b \in replies :
                 /\ b.step = s /\ b.prior # Nil /\ b.prior.value = x.value
                 /\ \A r \in Q : \E n \in replies :
                       n.from = r /\ n.step = s /\ AtMost(n.prior, b.prior)
    PROVE  Justified(s + 1, x)
<1>1. /\ Phase(s) \in {0, 1, 2, 3}
      /\ Phase(s + 1) = IF Phase(s) = 3 THEN 0 ELSE Phase(s) + 1
  BY PhaseSuccessor
<1>2. s + 1 - 1 = s /\ s + 1 >= 4
  OBVIOUS
<1>3. CASE Phase(s) = 0
  BY <1>1, <1>2, <1>3 DEF Justified
<1>4. CASE Phase(s) \in {1, 2}
  BY <1>1, <1>2, <1>4 DEF Justified
<1>5. CASE Phase(s) = 3
  BY <1>1, <1>2, <1>5 DEF Justified
<1>6. QED BY <1>1, <1>3, <1>4, <1>5

\* A concluded step of drive sends a justified proposal or decides on evidence.
LEMMA ConcludeIsJustified ==
    ASSUME BaseInv, NEW p \in Proposers, Conclude(p)
    PROVE  \E x \in Proposal :
              \/ /\ Advance(p, x)
                 /\ Justified(call[p].step + 1, x)
                 /\ x.priority <= MAX
                 /\ x.value \in UNION {Offers[q] : q \in Proposers}
              \/ Decide(p, x) /\ Evidence(call[p].step, x)
<1> DEFINE s == call[p].step
           c == call[p].proposal
<1> USE DEF BaseInv
<1>1. PICK Q \in Quorums :
         /\ HasQuorum(p, Q)
         /\ Phase(s) = 0 => ConcludePhase0(p, Q)
         /\ Phase(s) = 1 => ConcludePhase1(p)
         /\ Phase(s) = 2 => ConcludePhase2(p, Q)
         /\ Phase(s) = 3 => ConcludePhase3(p, Q)
  BY SMTT(30) DEF Conclude
<1>2. /\ call[p].status = "running" /\ s \in Nat /\ s >= 4
      /\ c \in Proposal
      /\ Justified(s, c)
      /\ \A r \in Recorders : Phase(s) # 0 => call[p].asked[r] = c /\ Sent(s, c)
  BY ZenonT(30) DEF Conclude, CallInv, TypeOK, Call, Justified
<1>3. \A t, y : Sent(t, y) =>
         /\ y \in Proposal /\ y.priority <= MAX
         /\ y.value \in UNION {Offers[q] : q \in Proposers}
  BY DEF Sent, RequestInv, TypeOK, Request
<1>4. PICK r0 \in Recorders : r0 \in Q
  BY QuorumsMeet
<1>5. \A r \in Q : \E m \in Gathered(p, Q) : m.from = r
  BY <1>1 DEF HasQuorum, Gathered
<1>6. \A m \in Gathered(p, Q) :
         /\ m \in replies /\ m.from \in Q /\ m.from \in Recorders
         /\ m.step = s /\ m.proposal = call[p].asked[m.from]
         /\ Sent(s, m.first)
         /\ m.prior # Nil => Sent(s - 1, m.prior)
         /\ Phase(s) # 0 => m.proposal = c
  BY <1>2 DEF Gathered, Answers, ReplyInv, TypeOK, Reply
<1>7. Phase(s) \in {0, 1, 2, 3}
  BY <1>2, PhaseSuccessor, SMTT(30)
<1>8. CASE Phase(s) = 0
  <2>1. PICK best \in {m.first : m \in Gathered(p, Q)} :
           /\ IsGreatest(best, {m.first : m \in Gathered(p, Q)})
           /\ IF s = 4 /\ best.priority = MAX /\ {m.first : m \in Gathered(p, Q)} = {best}
              THEN Decide(p, best)
              ELSE Advance(p, best)
    BY <1>1, <1>8, ZenonT(30) DEF ConcludePhase0
  <2>2. Sent(s, best) /\ best \in Proposal
    BY <1>3, <1>6
  <2>3. CASE s = 4 /\ best.priority = MAX /\ {m.first : m \in Gathered(p, Q)} = {best}
    <3>1. \A r \in Q : \E n \in replies : n.from = r /\ n.step = 4 /\ n.first = best
      BY <1>5, <1>6, <2>3
    <3>2. QED BY <2>1, <2>2, <2>3, <3>1 DEF Evidence
  <2>4. CASE ~(s = 4 /\ best.priority = MAX /\ {m.first : m \in Gathered(p, Q)} = {best})
    <3>1. \E n \in replies : n.step = s /\ n.first = best
      BY <1>6
    <3>2. \A r \in Q : \E n \in replies : n.from = r /\ n.step = s /\ AtMost(n.first, best)
      BY <1>5, <1>6, <2>1 DEF IsGreatest
    <3>3. Justified(s + 1, best)
      BY <1>2, <1>8, <3>1, <3>2, NextIsJustified, SMTT(30)
    <3>4. QED BY <1>3, <2>1, <2>2, <2>4, <3>3
  <2>5. QED BY <2>3, <2>4, SMTT(30)
<1>9. CASE Phase(s) # 0
  <2>1. Sent(s, c)
    BY <1>2, <1>4, <1>9
  <2>2. \A r \in Q : Answered(r, s, c)
    BY <1>5, <1>6, <1>9 DEF Answered
  <2>3. CASE Phase(s) = 1
    <3>1. Justified(s + 1, c)
      <4>1. Phase(s) \in {1, 2} /\ Phase(s) # 0 /\ Phase(s) # 3
        BY <2>3
      <4>2. QED BY <1>2, <2>2, <4>1, NextIsJustified, ZenonT(30)
    <3>2. Advance(p, c)
      BY <1>1, <2>3 DEF ConcludePhase1
    <3>3. QED BY <1>2, <1>3, <2>1, <3>1, <3>2
  <2>4. CASE Phase(s) = 2
    <3>1. CASE IsGreatest(c, {m.prior : m \in Gathered(p, Q)})
      <4>1. Decide(p, c)
        BY <1>1, <2>4, <3>1 DEF ConcludePhase2
      <4>2. ASSUME NEW r \in Q, NEW n \in replies, n.from = r, n.step = s
            PROVE  AtMost(n.prior, c)
        <5>1. PICK m \in Gathered(p, Q) : m.from = r
          BY <1>5
        <5>2. n.prior = m.prior
          BY <1>6, <4>2, <5>1 DEF ReplyInv
        <5>3. QED BY <3>1, <5>1, <5>2 DEF IsGreatest
      <4>3. QED BY <1>2, <2>1, <2>2, <2>4, <4>1, <4>2 DEF Evidence
    <3>2. CASE ~IsGreatest(c, {m.prior : m \in Gathered(p, Q)})
      <4>1. Advance(p, c)
        BY <1>1, <2>4, <3>2 DEF ConcludePhase2
      <4>2. Justified(s + 1, c)
        BY <1>2, <2>2, <2>4, NextIsJustified, SMTT(30)
      <4>3. QED BY <1>2, <1>3, <2>1, <4>1, <4>2
    <3>3. QED BY <3>1, <3>2
  <2>5. CASE Phase(s) = 3
    <3>1. PICK best \in {m.prior : m \in Gathered(p, Q)} \ {Nil} :
             /\ IsGreatest(best, {m.prior : m \in Gathered(p, Q)})
             /\ Advance(p, best)
      BY <1>1, <2>5, ZenonT(30) DEF ConcludePhase3
    <3>2. PICK b \in Gathered(p, Q) : b.prior = best
      BY <3>1
    <3>3. Sent(s - 1, best) /\ best \in Proposal
      BY <1>3, <1>6, <3>1, <3>2
    <3>4. \A r \in Q : \E n \in replies : n.from = r /\ n.step = s /\ AtMost(n.prior, best)
      BY <1>5, <1>6, <3>1 DEF IsGreatest
    <3>5. Justified(s + 1, best)
      BY <1>2, <1>6, <2>5, <3>1, <3>2, <3>4, NextIsJustified, SMTT(30)
    <3>6. QED BY <1>3, <3>1, <3>3, <3>5
  <2>6. QED BY <1>7, <1>9, <2>3, <2>4, <2>5
<1>10. QED BY <1>8, <1>9

-----------------------------------------------------------------------------
(* The invariant that holds whatever the proposers do. *)

LEMMA InitBase == Init => BaseInv
<1> SUFFICES ASSUME Init PROVE BaseInv
  OBVIOUS
<1>1. TypeOK
  BY SMTT(30) DEF Init, TypeOK, IsrState, EmptyIsr, ProposalOrNil, Call, IdleCall, Request,
         Reply, Proof
<1>2. RegisterInv /\ ReplyInv /\ RequestInv /\ CallInv
  BY DEF Init, RegisterInv, ReplyInv, RequestInv, CallInv, IdleCall
<1>3. QED BY <1>1, <1>2 DEF BaseInv

\* A step that ends calls and leaves registers, requests and answers alone.
LEMMA EndingCallsKeepsBase ==
    ASSUME BaseInv, UNCHANGED <<isr, sent, replies>>, TypeOK',
           \A p \in Proposers : call'[p].status = "running" => call'[p] = call[p]
    PROVE  BaseInv'
<1> USE DEF BaseInv
<1>1. RegisterInv' /\ ReplyInv'
  BY SMTT(30) DEF RegisterInv, ReplyInv, Sent
<1>2. RequestInv'
  BY SMTT(30) DEF RequestInv, Justified, Answered
<1>3. CallInv'
  BY DEF CallInv, Justified, Answered, Sent
<1>4. QED BY <1>1, <1>2, <1>3, SMTT(30)

\* A proof has the type of a proof, and ending a call keeps the types.
LEMMA FinishKeepsTypes ==
    ASSUME TypeOK, NEW p \in Proposers, NEW d \in Proof, Finish(p, d)
    PROVE  /\ call' \in [Proposers -> Call]
           /\ call'[p].status = "decided" /\ call'[p].outcome = d
           /\ \A q \in Proposers : q # p => call'[q] = call[q]
<1>1. [IdleCall EXCEPT !.status = "decided", !.outcome = d] \in Call
  BY ZenonT(30) DEF IdleCall, Call, ProposalOrNil
<1>2. /\ [IdleCall EXCEPT !.status = "decided", !.outcome = d].status = "decided"
      /\ [IdleCall EXCEPT !.status = "decided", !.outcome = d].outcome = d
  BY DEF IdleCall
<1>3. QED BY <1>1, <1>2 DEF Finish, TypeOK

LEMMA IdleCallIsCall == IdleCall \in Call /\ IdleCall.status = "idle"
BY DEF IdleCall, Call, ProposalOrNil

LEMMA BaseStep == BaseInv /\ [Next]_vars => BaseInv'
<1> SUFFICES ASSUME BaseInv, [Next]_vars PROVE BaseInv'
  BY SMTT(30)
<1> USE DEF BaseInv
<1>1. ASSUME NEW p \in Proposers, NEW v \in Offers[p], Propose(p, v)
      PROVE  BaseInv'
  <2> DEFINE x == [priority |-> MAX, proposer |-> p, id |-> seq[p], value |-> v]
  <2>1. /\ x \in Proposal /\ x.priority <= MAX
        /\ x.value \in UNION {Offers[q] : q \in Proposers}
    BY IdentityAssumption, PriorityAssumption DEF TypeOK, Proposal
  <2>2. Justified(4, x)
    BY PhaseFour, SMTT(30) DEF Justified
  <2>3. Broadcast(p, 4, x) /\ seq' \in [Proposers -> Nat]
    BY <1>1, SMTT(30) DEF Propose, TypeOK
  <2>4. QED BY <1>1, <2>1, <2>2, <2>3, SendKeepsBase, SMTT(30) DEF Propose
<1>2. ASSUME NEW p \in Proposers, Conclude(p)
      PROVE  BaseInv'
  <2>1. PICK x \in Proposal :
              \/ /\ Advance(p, x)
                 /\ Justified(call[p].step + 1, x)
                 /\ x.priority <= MAX
                 /\ x.value \in UNION {Offers[q] : q \in Proposers}
              \/ Decide(p, x) /\ Evidence(call[p].step, x)
    BY <1>2, ConcludeIsJustified
  <2>2. call[p].step \in Nat
    BY SMTT(30) DEF TypeOK, Call
  <2>3. CASE Advance(p, x) /\ Justified(call[p].step + 1, x) /\ x.priority <= MAX
             /\ x.value \in UNION {Offers[q] : q \in Proposers}
    BY <1>2, <2>2, <2>3, SendKeepsBase, SMTT(30) DEF Advance, Conclude, TypeOK
  <2>4. CASE Decide(p, x)
    <3> DEFINE d == [step |-> call[p].step, proposal |-> x]
    <3>1. d \in Proof /\ Finish(p, d) /\ proofs' = proofs \cup {d}
      BY <2>2, <2>4, SMTT(30) DEF Decide, Proof
    <3>2. TypeOK'
      BY <1>2, <2>4, <3>1, FinishKeepsTypes, ZenonT(30) DEF TypeOK, Conclude, Decide
    <3>3. QED BY <1>2, <2>4, <3>1, <3>2, FinishKeepsTypes, EndingCallsKeepsBase
             DEF Conclude, Decide
  <2>5. QED BY <2>1, <2>3, <2>4, SMTT(30)
<1>3. ASSUME NEW p \in Proposers, NEW r \in Recorders, CatchUp(p, r)
      PROVE  BaseInv'
  <2>1. isr[r].step \in Nat /\ call[p].step \in Nat /\ isr[r].step # 0
    BY <1>3, SMTT(30) DEF CatchUp, TypeOK, IsrState, Call
  <2>2. Sent(isr[r].step, isr[r].first)
    BY <2>1 DEF RegisterInv, EmptyIsr
  <2>3. /\ isr[r].first \in Proposal /\ isr[r].first.priority <= MAX
        /\ isr[r].first.value \in UNION {Offers[q] : q \in Proposers}
        /\ Justified(isr[r].step, isr[r].first)
    BY <2>2 DEF Sent, RequestInv, TypeOK, Request
  <2>4. QED BY <1>3, <2>1, <2>3, SendKeepsBase DEF CatchUp, TypeOK
<1>4. ASSUME NEW p \in Proposers, NEW r \in Recorders, AdoptProof(p, r)
      PROVE  BaseInv'
  <2>1. installed[r] \in Proof /\ Finish(p, installed[r])
    BY <1>4 DEF AdoptProof, TypeOK
  <2>2. TypeOK'
    BY <1>4, <2>1, FinishKeepsTypes DEF TypeOK, AdoptProof
  <2>3. QED BY <1>4, <2>1, <2>2, FinishKeepsTypes, EndingCallsKeepsBase DEF AdoptProof
<1>5. ASSUME NEW p \in Proposers, Abandon(p) \/ Restart(p)
      PROVE  BaseInv'
  <2>1. call' = [call EXCEPT ![p] = IdleCall] /\ UNCHANGED <<isr, installed, sent, replies, proofs>>
    BY <1>5 DEF Abandon, Restart
  <2>2. seq' \in [Proposers -> Nat]
    BY <1>5 DEF Abandon, Restart, TypeOK
  <2>3. TypeOK'
    BY <2>1, <2>2, IdleCallIsCall, ZenonT(30) DEF TypeOK
  <2>4. \A q \in Proposers : call'[q].status = "running" => call'[q] = call[q]
    BY <2>1, IdleCallIsCall DEF TypeOK
  <2>5. QED BY <2>1, <2>3, <2>4, EndingCallsKeepsBase
<1>6. ASSUME NEW m \in sent, RecordProposal(m)
      PROVE  BaseInv'
  BY <1>6, RecordKeepsBase
<1>7. ASSUME NEW r \in Recorders, NEW d \in proofs, InstallProof(r, d)
      PROVE  BaseInv'
  <2>1. TypeOK'
    BY <1>7 DEF InstallProof, TypeOK
  <2>2. QED BY <1>7, <2>1, EndingCallsKeepsBase DEF InstallProof
<1>8. CASE UNCHANGED vars
  <2>1. TypeOK'
    BY <1>8 DEF TypeOK, vars
  <2>2. QED BY <1>8, <2>1, EndingCallsKeepsBase DEF vars
<1>9. QED BY <1>1, <1>2, <1>3, <1>4, <1>5, <1>6, <1>7, <1>8, ZenonT(30) DEF Next

\* BaseInv is an invariant of every run, whichever proposers fail or restart.
THEOREM BaseInvariant == Spec => []BaseInv
BY InitBase, BaseStep, PTL DEF Spec

\* Every variable keeps its type.
THEOREM TypeCorrect == Spec => []TypeOK
BY BaseInvariant, PTL DEF BaseInv

\* drive never takes its phase-3 error branch: a phase-3 request is only sent
\* after a quorum has recorded a phase-2 proposal, and the two quorums meet.
THEOREM PhaseThreeNeverEmpty == Spec => []PhaseThreeHasAggregate
<1>1. BaseInv => PhaseThreeHasAggregate
  <2> SUFFICES ASSUME BaseInv, NEW p \in Proposers, NEW Q \in Quorums,
                      call[p].status = "running", Phase(call[p].step) = 3, HasQuorum(p, Q)
               PROVE  \E m \in Gathered(p, Q) : m.prior # Nil
    BY SMTT(30) DEF PhaseThreeHasAggregate
  <2> DEFINE s == call[p].step
             c == call[p].proposal
  <2>1. s \in Nat /\ c \in Proposal /\ Justified(s, c)
    BY DEF BaseInv, CallInv, TypeOK, Call
  <2>2. PICK Q2 \in Quorums : \A r \in Q2 : Answered(r, s - 1, c)
    BY <2>1 DEF Justified
  <2>3. PICK r \in Recorders : r \in Q /\ r \in Q2
    BY QuorumsMeet
  <2>4. PICK m \in Gathered(p, Q) : m.from = r /\ m.step = s
    BY <2>3 DEF HasQuorum, Gathered, Answers
  <2>5. PICK n \in replies : n.from = r /\ n.step = s - 1 /\ n.proposal = c
    BY <2>2, <2>3, SMTT(30) DEF Answered
  <2>6. AtMost(c, m.prior)
    BY <2>1, <2>4, <2>5, SMTT(30) DEF BaseInv, ReplyInv, Gathered, Answers
  <2>7. QED BY <2>1, <2>4, <2>6, NilIsLeast
<1>2. QED BY <1>1, BaseInvariant, PTL

-----------------------------------------------------------------------------
(* Agreement. *)

\* Recording never reopens a step of phase 2 for a proposal.
LEMMA RoundOpenOnlyCloses ==
    ASSUME BaseInv, NEW m \in sent, RecordProposal(m),
           NEW s \in Nat, NEW x \in Proposal, s >= 4, RoundOpen(s, x)'
    PROVE  RoundOpen(s, x)
<1> DEFINE r == m.to
           i == isr[r]
           j == Record(i, m.step, m.proposal)
           nw == [from |-> r, step |-> m.step, proposal |-> m.proposal,
                  first |-> j.first, prior |-> j.prior]
<1> USE DEF BaseInv
<1>1. /\ r \in Recorders /\ i \in IsrState /\ i.step \in Nat
      /\ m.step \in Nat /\ m.proposal \in Proposal
      /\ m.proposal \in ProposalOrNil
      /\ i.agg \in ProposalOrNil /\ x \in ProposalOrNil
      /\ m.step >= i.step
  BY DEF TypeOK, Request, RecordProposal, ProposalOrNil, IsrState
<1>2. isr' = [isr EXCEPT ![r] = j] /\ replies' = replies \cup {nw}
  BY SMTT(30) DEF RecordProposal
<1>3. isr'[r] = j /\ \A q \in Recorders : q # r => isr'[q] = isr[q]
  BY <1>1, <1>2, SMTT(30) DEF TypeOK
<1>4. /\ j \in IsrState /\ j.step = m.step
      /\ m.step = i.step => j.agg = Larger(i.agg, m.proposal) /\ j.prior = i.prior
      /\ m.step > i.step => j.prior = IF m.step = i.step + 1 THEN i.agg ELSE Nil
  BY <1>1, RecordFields, SMTT(30)
<1> HIDE DEF j
<1>5. PICK Q \in Quorums : \A q \in Q :
         (/\ isr[q].step <= s \/ Answered(q, s, x)
          /\ isr[q].step = s - 1 => AtMost(isr[q].agg, x)
          /\ isr[q].step = s => AtMost(isr[q].prior, x)
          /\ \A n \in replies : (n.from = q /\ n.step = s) => AtMost(n.prior, x))'
  BY DEF RoundOpen
<1>6. SUFFICES ASSUME NEW q \in Q
               PROVE  /\ isr[q].step <= s \/ Answered(q, s, x)
                      /\ isr[q].step = s - 1 => AtMost(isr[q].agg, x)
                      /\ isr[q].step = s => AtMost(isr[q].prior, x)
                      /\ \A n \in replies : (n.from = q /\ n.step = s) => AtMost(n.prior, x)
  BY SMTT(30) DEF RoundOpen
<1>7. \A n \in replies : (n.from = q /\ n.step = s) => AtMost(n.prior, x)
  BY <1>2, <1>5
<1>8. q \in Recorders
  BY QuorumAssumption, SMTT(30)
<1>9. CASE q # r
  <2>1. Answered(q, s, x)' => Answered(q, s, x)
    BY <1>2, <1>9, SMTT(30) DEF Answered
  <2>2. QED BY <1>3, <1>5, <1>7, <1>8, <1>9, <2>1
<1>10. CASE q = r
  <2>1. m.step # s => (Answered(r, s, x)' => Answered(r, s, x))
    BY <1>2, SMTT(30) DEF Answered
  <2>2. Answered(r, s, x) => s <= i.step /\ (i.step = s => AtMost(i.prior, x))
    BY <1>7, <1>10, SMTT(30) DEF Answered, ReplyInv
  <2>3. i.step <= s \/ Answered(r, s, x)
    BY <1>1, <1>3, <1>4, <1>5, <1>10, <2>1, SMTT(30)
  <2>4. i.step = s - 1 => AtMost(i.agg, x)
    <3>1. CASE m.step = i.step
      <4>1. AtMost(i.agg, j.agg) /\ j.agg \in ProposalOrNil
        BY <1>1, <1>4, <3>1, LargerIsUpper, SMTT(30) DEF IsrState
      <4>2. i.step = s - 1 => AtMost(j.agg, x)
        BY <1>3, <1>4, <1>5, <1>10, <3>1, SMTT(30)
      <4>3. QED BY <1>1, <4>1, <4>2, AtMostTransitive, SMTT(30)
    <3>2. CASE m.step > i.step /\ m.step <= s
      BY <1>1, <1>3, <1>4, <1>5, <1>10, <3>2, SMTT(30)
    <3>3. CASE m.step > s
      BY <1>1, <1>3, <1>4, <1>5, <1>10, <2>1, <2>2, <3>3, SMTT(30)
    <3>4. QED BY <1>1, <3>1, <3>2, <3>3
  <2>5. i.step = s => AtMost(i.prior, x)
    <3>1. CASE m.step = i.step
      BY <1>3, <1>4, <1>5, <1>10, <3>1, SMTT(30)
    <3>2. CASE m.step > i.step
      BY <1>1, <1>3, <1>4, <1>5, <1>10, <2>1, <2>2, <3>2, SMTT(30)
    <3>3. QED BY <1>1, <3>1, <3>2, SMTT(30)
  <2>6. QED BY <1>7, <1>10, <2>3, <2>4, <2>5
<1>11. QED BY <1>9, <1>10

\* Recording never reopens step 4 for a proposal.
LEMMA FastOpenOnlyCloses ==
    ASSUME BaseInv, NEW m \in sent, RecordProposal(m), NEW x \in Proposal, FastOpen(x)'
    PROVE  FastOpen(x)
<1> DEFINE r == m.to
           i == isr[r]
           j == Record(i, m.step, m.proposal)
           nw == [from |-> r, step |-> m.step, proposal |-> m.proposal,
                  first |-> j.first, prior |-> j.prior]
<1> USE DEF BaseInv
<1>1. /\ r \in Recorders /\ i \in IsrState /\ i.step \in Nat
      /\ m.step \in Nat /\ m.proposal \in Proposal /\ m.step >= i.step
  BY DEF TypeOK, Request, RecordProposal, IsrState
<1>2. isr' = [isr EXCEPT ![r] = j] /\ replies' = replies \cup {nw}
  BY DEF RecordProposal
<1>3. isr'[r] = j /\ \A q \in Recorders : q # r => isr'[q] = isr[q]
  BY <1>1, <1>2, SMTT(30) DEF TypeOK
<1>4. /\ j.step = m.step
      /\ m.step = i.step => j.first = IF i.first = Nil THEN m.proposal ELSE i.first
  BY <1>1, RecordFields
<1> HIDE DEF j
<1>5. PICK Q \in Quorums : \A q \in Q :
         (\/ isr[q].step < 4
          \/ \E n \in replies : n.from = q /\ n.step = 4 /\ n.first = x)'
  BY DEF FastOpen
<1>6. SUFFICES ASSUME NEW q \in Q
               PROVE  \/ isr[q].step < 4
                      \/ \E n \in replies : n.from = q /\ n.step = 4 /\ n.first = x
  BY DEF FastOpen
<1>7. q \in Recorders
  BY QuorumAssumption
<1>8. CASE q # r
  BY <1>2, <1>3, <1>5, <1>7, <1>8, SMTT(30)
<1>9. CASE q = r
  <2>1. CASE m.step < 4
    BY <1>1, <1>9, <2>1, SMTT(30)
  <2>2. CASE m.step > 4
    BY <1>1, <1>2, <1>3, <1>4, <1>5, <1>9, <2>2, SMTT(30)
  <2>3. CASE m.step = 4 /\ i.step = 4
    <3>1. /\ Sent(4, i.first)
          /\ \E n \in replies : n.from = r /\ n.step = 4 /\ n.first = i.first
      BY <1>1, <2>3, SMTT(30) DEF RegisterInv, EmptyIsr
    <3>2. i.first # Nil
      BY <3>1, NilIsLeast, SMTT(30) DEF Sent, TypeOK, Request
    <3>3. j.first = i.first
      BY <1>4, <2>3, <3>2, SMTT(30)
    <3>4. PICK n \in replies' : n.from = r /\ n.step = 4 /\ n.first = x
      BY <1>3, <1>4, <1>5, <1>9, <2>3
    <3>5. QED BY <1>2, <1>9, <3>1, <3>3, <3>4, SMTT(30)
  <2>4. CASE m.step = 4 /\ i.step < 4
    BY <1>9, <2>4, SMTT(30)
  <2>5. QED BY <1>1, <2>1, <2>2, <2>3, <2>4
<1>10. QED BY <1>8, <1>9

\* Whatever was sent at step s is at most a proposal that s may still decide:
\* a quorum recorded it at step s - 1 before.
LEMMA SentIsAtMostOpen ==
    ASSUME BaseInv, NEW s \in Nat, s >= 4, Phase(s) = 2, NEW x \in Proposal,
           RoundOpen(s, x), NEW g, Sent(s, g)
    PROVE  AtMost(g, x)
<1> USE DEF BaseInv
<1>1. PICK Q \in Quorums : \A r \in Q :
         /\ isr[r].step <= s \/ Answered(r, s, x)
         /\ isr[r].step = s - 1 => AtMost(isr[r].agg, x)
         /\ isr[r].step = s => AtMost(isr[r].prior, x)
         /\ \A n \in replies : (n.from = r /\ n.step = s) => AtMost(n.prior, x)
  BY DEF RoundOpen
<1>2. g \in Proposal /\ g \in ProposalOrNil /\ x \in ProposalOrNil /\ Justified(s, g)
  BY DEF Sent, RequestInv, TypeOK, Request, ProposalOrNil
<1>3. PICK Q2 \in Quorums : \A r \in Q2 : Answered(r, s - 1, g)
  BY <1>2 DEF Justified
<1>4. PICK r \in Recorders : r \in Q /\ r \in Q2
  BY QuorumsMeet
<1>5. PICK n \in replies : n.from = r /\ n.step = s - 1 /\ n.proposal = g
  BY <1>3, <1>4, SMTT(30) DEF Answered
<1>6. /\ s - 1 <= isr[r].step /\ isr[r].step \in Nat
      /\ isr[r].step = s - 1 => AtMost(g, isr[r].agg)
      /\ isr[r].step = s => AtMost(g, isr[r].prior)
      /\ isr[r].agg \in ProposalOrNil /\ isr[r].prior \in ProposalOrNil
  BY <1>5, SMTT(30) DEF ReplyInv, TypeOK, IsrState
<1>7. CASE isr[r].step = s - 1
  BY <1>1, <1>2, <1>4, <1>6, <1>7, AtMostTransitive, SMTT(30)
<1>8. CASE isr[r].step = s
  BY <1>1, <1>2, <1>4, <1>6, <1>8, AtMostTransitive
<1>9. CASE isr[r].step > s
  <2>1. PICK n2 \in replies : n2.from = r /\ n2.step = s /\ n2.proposal = x
    BY <1>1, <1>4, <1>6, <1>9, SMTT(30) DEF Answered
  <2>2. AtMost(g, n2.prior) /\ n2.prior \in ProposalOrNil
    BY <1>5, <2>1 DEF ReplyInv, TypeOK, Reply
  <2>3. AtMost(n2.prior, x)
    BY <1>1, <1>4, <2>1
  <2>4. QED BY <1>2, <2>2, <2>3, AtMostTransitive
<1>10. QED BY <1>6, <1>7, <1>8, <1>9

\* A justified proposal of a later round has the value a phase-2 step may still
\* decide: it descends from proposals that have it, or is the greatest aggregate.
LEMMA JustifiedKeepsRound ==
    ASSUME BaseInv, RoundInv, NEW s \in Nat, s >= 4, Phase(s) = 2, NEW x \in Proposal,
           RoundOpen(s, x), NEW t \in Nat, t >= s + 2, NEW y \in Proposal, Justified(t, y)
    PROVE  y.value = x.value
<1> USE DEF BaseInv
<1>1. \A m \in sent : m.step >= s + 2 => m.proposal.value = x.value
  BY DEF RoundInv
<1>2. \A u, g : Sent(u, g) => (u >= s + 2 => g.value = x.value)
  BY <1>1 DEF Sent
<1>3. Phase(s + 1) = 3 /\ Phase(s + 2) = 0 /\ Phase(s + 3) = 1
  <2>1. Phase(s + 1) = 3
    BY PhaseSuccessor
  <2>2. Phase(s + 1 + 1) = 0
    BY <2>1, PhaseSuccessor
  <2>3. Phase(s + 2) = 0
    BY <2>2
  <2>4. Phase(s + 2 + 1) = 1
    BY <2>3, PhaseSuccessor
  <2>5. QED BY <2>1, <2>3, <2>4
<1>4. Phase(t) \in {0, 1, 2, 3}
  BY PhaseSuccessor
<1>5. CASE Phase(t) = 1
  <2>1. PICK n \in replies : n.step = t - 1 /\ n.first = y
    BY <1>5, SMTT(30) DEF Justified
  <2>2. Sent(t - 1, y)
    BY <2>1 DEF ReplyInv
  <2>3. t # s + 2
    BY <1>3, <1>5
  <2>4. QED BY <1>2, <2>2, <2>3
<1>6. CASE Phase(t) \in {2, 3}
  <2>1. PICK Q \in Quorums : \A r \in Q : Answered(r, t - 1, y)
    BY <1>6 DEF Justified
  <2>2. PICK r \in Recorders : r \in Q
    BY QuorumsMeet, SMTT(30)
  <2>3. Sent(t - 1, y)
    BY <2>1, <2>2 DEF Answered, ReplyInv
  <2>4. t # s + 2
    BY <1>3, <1>6
  <2>5. QED BY <1>2, <2>3, <2>4
<1>7. CASE Phase(t) = 0
  <2>1. t # 4
    OBVIOUS
  <2>2. PICK b \in replies :
           /\ b.step = t - 1 /\ b.prior # Nil /\ b.prior.value = y.value
           /\ \E Q \in Quorums : \A r \in Q : \E n \in replies :
                 n.from = r /\ n.step = t - 1 /\ AtMost(n.prior, b.prior)
    BY <1>7, <2>1 DEF Justified
  <2>3. Sent(t - 2, b.prior)
    <3>1. Sent(b.step - 1, b.prior)
      BY <2>2, SMTT(30) DEF ReplyInv
    <3>2. b.step - 1 = t - 2
      BY <2>2
    <3>3. QED BY <3>1, <3>2, SMTT(30)
  <2>4. CASE t >= s + 4
    <3>1. t - 2 >= s + 2
      BY <2>4
    <3>2. QED BY <1>2, <2>2, <2>3, <3>1
  <2>5. CASE t = s + 2
    <3>1. Sent(s, b.prior) /\ t - 1 = s + 1
      BY <2>3, <2>5
    <3>2. b.prior \in Proposal /\ b.prior \in ProposalOrNil /\ x \in ProposalOrNil
      BY <3>1 DEF Sent, TypeOK, Request, ProposalOrNil
    <3>3. AtMost(b.prior, x)
      BY <3>1, SentIsAtMostOpen
    <3>4. AtMost(x, b.prior)
      <4>1. PICK Q \in Quorums : \A r \in Q : \E n \in replies :
               n.from = r /\ n.step = s + 1 /\ AtMost(n.prior, b.prior)
        BY <2>2, <3>1
      <4>2. PICK Q2 \in Quorums : \A r \in Q2 : isr[r].step <= s \/ Answered(r, s, x)
        BY DEF RoundOpen
      <4>3. PICK r \in Recorders : r \in Q /\ r \in Q2
        BY QuorumsMeet
      <4>4. PICK n \in replies : n.from = r /\ n.step = s + 1 /\ AtMost(n.prior, b.prior)
        BY <4>1, <4>3, SMTT(30)
      <4>5. s + 1 <= isr[r].step /\ isr[r].step \in Nat
        BY <4>4, SMTT(30) DEF ReplyInv, TypeOK, IsrState
      <4>6. PICK a \in replies : a.from = r /\ a.step = s /\ a.proposal = x
        BY <4>2, <4>3, <4>5, SMTT(30) DEF Answered
      <4>7. AtMost(x, n.prior) /\ n.prior \in ProposalOrNil
        BY <4>4, <4>6, ZenonT(30) DEF ReplyInv, TypeOK, Reply
      <4>8. QED BY <3>2, <4>4, <4>7, AtMostTransitive
    <3>5. QED BY <2>2, <3>2, <3>3, <3>4, AtMostAntisymmetric
  <2>6. t # s + 3
    BY <1>3, <1>7
  <2>7. QED BY <2>4, <2>5, <2>6
<1>8. QED BY <1>4, <1>5, <1>6, <1>7

\* A justified proposal after step 4 has the value the fast path may still decide.
LEMMA JustifiedKeepsFast ==
    ASSUME BaseInv, MaxInv, FastInv, NEW x \in Proposal, x.priority = MAX, FastOpen(x),
           NEW t \in Nat, t >= 5, NEW y \in Proposal, Justified(t, y)
    PROVE  y.value = x.value
<1> USE DEF BaseInv
<1>1. \A u, g : Sent(u, g) => (u >= 5 => g.value = x.value)
  BY DEF FastInv, Sent
<1>2. /\ Phase(4) = 0 /\ Phase(5) = 1 /\ Phase(6) = 2 /\ Phase(7) = 3
      /\ Phase(t) \in {0, 1, 2, 3}
  BY PhaseSuccessor DEF Phase
<1>3. CASE t = 5
  <2>1. /\ \E n \in replies : n.step = 4 /\ n.first = y
        /\ \E Q \in Quorums : \A r \in Q : \E n \in replies :
                n.from = r /\ n.step = 4 /\ AtMost(n.first, y)
    BY <1>2, <1>3, SMTT(30) DEF Justified
  <2>2. Sent(4, y)
    BY <2>1 DEF ReplyInv
  <2>3. PICK Q \in Quorums : \A r \in Q : \E n \in replies :
                n.from = r /\ n.step = 4 /\ AtMost(n.first, y)
    BY <2>1
  <2>4. PICK Q2 \in Quorums : \A r \in Q2 :
           \/ isr[r].step < 4
           \/ \E n \in replies : n.from = r /\ n.step = 4 /\ n.first = x
    BY DEF FastOpen
  <2>5. PICK r \in Recorders : r \in Q /\ r \in Q2
    BY QuorumsMeet
  <2>6. PICK n \in replies : n.from = r /\ n.step = 4 /\ AtMost(n.first, y)
    BY <2>3, <2>5, SMTT(30)
  <2>7. isr[r].step \in Nat /\ 4 <= isr[r].step
    BY <2>6 DEF ReplyInv, TypeOK, IsrState
  <2>8. PICK a \in replies : a.from = r /\ a.step = 4 /\ a.first = x
    BY <2>4, <2>5, <2>7, SMTT(30)
  <2>9. n.first = x /\ Sent(4, x)
    BY <2>6, <2>8 DEF ReplyInv
  <2>10. AtMost(x, y)
    BY <2>6, <2>9
  <2>11. y.priority <= MAX
    BY <2>2 DEF Sent, RequestInv
  <2>12. y.priority = MAX
    BY <2>10, <2>11, PriorityAssumption DEF AtMost, Less, Proposal
  <2>13. y = x
    BY <2>2, <2>9, <2>12 DEF MaxInv, Sent
  <2>14. QED BY <2>13
<1>4. CASE t # 5 /\ Phase(t) = 1
  <2>1. Sent(t - 1, y)
    BY <1>4 DEF Justified, ReplyInv
  <2>2. QED BY <1>1, <1>4, <2>1, SMTT(30)
<1>5. CASE Phase(t) \in {2, 3}
  <2>1. PICK Q \in Quorums : \A r \in Q : Answered(r, t - 1, y)
    BY <1>5 DEF Justified
  <2>2. PICK r \in Recorders : r \in Q
    BY QuorumsMeet, SMTT(30)
  <2>3. Sent(t - 1, y)
    BY <2>1, <2>2 DEF Answered, ReplyInv
  <2>4. t # 5
    BY <1>2, <1>5
  <2>5. QED BY <1>1, <2>3, <2>4
<1>6. CASE Phase(t) = 0
  <2>1. t # 4
    OBVIOUS
  <2>2. PICK b \in replies : b.step = t - 1 /\ b.prior # Nil /\ b.prior.value = y.value
    BY <1>6, <2>1 DEF Justified
  <2>3. Sent(t - 2, b.prior)
    <3>1. Sent(b.step - 1, b.prior)
      BY <2>2 DEF ReplyInv
    <3>2. b.step - 1 = t - 2
      BY <2>2
    <3>3. QED BY <3>1, <3>2, SMTT(30)
  <2>4. t >= 8
    BY <1>2, <1>6
  <2>5. QED BY <1>1, <2>2, <2>3, <2>4
<1>7. QED BY <1>2, <1>3, <1>4, <1>5, <1>6

\* Evidence keeps its step open for its proposal.
LEMMA EvidenceIsOpen ==
    ASSUME BaseInv, NEW s \in Nat, NEW x, Evidence(s, x)
    PROVE  /\ x \in Proposal /\ s >= 4
           /\ \/ s = 4 /\ x.priority = MAX /\ FastOpen(x)
              \/ Phase(s) = 2 /\ RoundOpen(s, x)
<1> USE DEF BaseInv
<1>1. x \in Proposal /\ s >= 4 /\ Sent(s, x)
  BY SMTT(30) DEF Evidence, Sent, RequestInv, Justified, TypeOK, Request
<1>2. CASE /\ s = 4 /\ x.priority = MAX
           /\ \E Q \in Quorums : \A r \in Q : \E n \in replies :
                 n.from = r /\ n.step = 4 /\ n.first = x
  BY <1>1, <1>2 DEF FastOpen
<1>3. CASE /\ Phase(s) = 2
           /\ \E Q \in Quorums : \A r \in Q :
                 /\ Answered(r, s, x)
                 /\ \A n \in replies : (n.from = r /\ n.step = s) => AtMost(n.prior, x)
  <2>1. PICK Q \in Quorums : \A r \in Q :
           /\ Answered(r, s, x)
           /\ \A n \in replies : (n.from = r /\ n.step = s) => AtMost(n.prior, x)
    BY <1>3
  <2>2. ASSUME NEW r \in Q
        PROVE  /\ isr[r].step # s - 1
               /\ isr[r].step = s => AtMost(isr[r].prior, x)
    <3>1. PICK n \in replies : n.from = r /\ n.step = s
      BY <2>1 DEF Answered
    <3>2. s <= isr[r].step /\ (isr[r].step = s => n.prior = isr[r].prior)
      BY <3>1 DEF ReplyInv
    <3>3. isr[r].step \in Nat
      BY QuorumAssumption DEF TypeOK, IsrState
    <3>4. QED BY <2>1, <3>1, <3>2, <3>3
  <2>3. RoundOpen(s, x)
    BY <2>1, <2>2 DEF RoundOpen
  <2>4. QED BY <1>1, <1>3, <2>3
<1>4. QED BY <1>2, <1>3, SMTT(30) DEF Evidence

\* Evidence is never lost: a quorum member repeats its prior aggregate.
LEMMA EvidenceIsStable ==
    ASSUME BaseInv', NEW s, NEW x, Evidence(s, x),
           sent \subseteq sent', replies \subseteq replies'
    PROVE  Evidence(s, x)'
<1>1. Sent(s, x)'
  BY DEF Evidence, Sent
<1>2. CASE /\ s = 4 /\ x.priority = MAX
           /\ \E Q \in Quorums : \A r \in Q : \E n \in replies :
                 n.from = r /\ n.step = 4 /\ n.first = x
  BY <1>1, <1>2 DEF Evidence
<1>3. CASE /\ Phase(s) = 2
           /\ \E Q \in Quorums : \A r \in Q :
                 /\ Answered(r, s, x)
                 /\ \A n \in replies : (n.from = r /\ n.step = s) => AtMost(n.prior, x)
  <2>1. PICK Q \in Quorums : \A r \in Q :
           /\ Answered(r, s, x)
           /\ \A n \in replies : (n.from = r /\ n.step = s) => AtMost(n.prior, x)
    BY <1>3
  <2>2. ASSUME NEW r \in Q, NEW a \in replies', a.from = r, a.step = s
        PROVE  AtMost(a.prior, x)
    <3>1. PICK n \in replies : n.from = r /\ n.step = s
      BY <2>1, SMTT(30) DEF Answered
    <3>2. a.prior = n.prior
      BY <2>2, <3>1 DEF BaseInv, ReplyInv
    <3>3. QED BY <2>1, <3>1, <3>2
  <2>3. \A r \in Q : Answered(r, s, x)'
    BY <2>1 DEF Answered
  <2>4. QED BY <1>1, <1>3, <2>2, <2>3 DEF Evidence
<1>4. QED BY <1>2, <1>3 DEF Evidence

\* Steps that reopen nothing and send only what is justified keep later rounds
\* on the value an open step may decide.
LEMMA OpenStepsKeepValue ==
    ASSUME BaseInv, MaxInv, FastInv, RoundInv, BaseInv',
           \A s \in Nat, x \in Proposal : (s >= 4 /\ RoundOpen(s, x)') => RoundOpen(s, x),
           \A x \in Proposal : FastOpen(x)' => FastOpen(x),
           \A m \in sent' \ sent : Justified(m.step, m.proposal)
    PROVE  FastInv' /\ RoundInv'
<1>1. \A m \in sent' : m.step \in Nat /\ m.proposal \in Proposal
  BY DEF BaseInv, TypeOK, Request
<1>2. FastInv'
  <2>1. SUFFICES ASSUME NEW x \in Proposal, x.priority = MAX, FastOpen(x)',
                        NEW m \in sent', m.step >= 5
                 PROVE  m.proposal.value = x.value
    BY DEF FastInv
  <2>2. FastOpen(x)
    BY <2>1
  <2>3. CASE m \in sent
    BY <2>1, <2>2, <2>3 DEF FastInv
  <2>4. CASE m \notin sent
    BY <1>1, <2>1, <2>2, <2>4, JustifiedKeepsFast
  <2>5. QED BY <2>3, <2>4
<1>3. RoundInv'
  <2>1. SUFFICES ASSUME NEW s \in Nat, NEW x \in Proposal, s >= 4, Phase(s) = 2,
                        RoundOpen(s, x)', NEW m \in sent', m.step >= s + 2
                 PROVE  m.proposal.value = x.value
    BY DEF RoundInv
  <2>2. RoundOpen(s, x)
    BY <2>1, SMTT(30)
  <2>3. CASE m \in sent
    BY <2>1, <2>2, <2>3 DEF RoundInv
  <2>4. CASE m \notin sent
    BY <1>1, <2>1, <2>2, <2>4, JustifiedKeepsRound
  <2>5. QED BY <2>3, <2>4
<1>4. QED BY <1>2, <1>3

\* Sending keeps the invariant once it keeps MaxInv.
LEMMA SendKeepsSafety ==
    ASSUME SafetyInv, NEW p \in Proposers, NEW s \in Nat, NEW x \in Proposal,
           Broadcast(p, s, x), UNCHANGED <<isr, installed, replies, proofs>>,
           BaseInv', MaxInv'
    PROVE  SafetyInv'
<1> USE DEF SafetyInv
<1>1. PICK ask :
         /\ Stamped(p, s, x, ask)
         /\ sent' = sent \cup {[to |-> r, step |-> s, proposal |-> ask[r]] :
                                  r \in Recorders}
         /\ call' = [call EXCEPT ![p] =
                       [status |-> "running", step |-> s, proposal |-> x,
                        asked |-> ask, heard |-> {}, outcome |-> NoProof]]
  <2>1. PICK ask : StampedBroadcast(p, s, x, ask)
    BY BroadcastIsStamped, ZenonT(30)
  <2>2. QED BY <2>1, ZenonT(30) DEF StampedBroadcast
<1>2. \A m \in sent' \ sent : Justified(m.step, m.proposal)
  <2>1. \A t, y : Justified(t, y)' => Justified(t, y)
    BY SMTT(30) DEF Justified, Answered
  <2>2. QED BY <2>1, SMTT(30) DEF BaseInv, RequestInv
<1>3. /\ \A t \in Nat, y \in Proposal : (t >= 4 /\ RoundOpen(t, y)') => RoundOpen(t, y)
      /\ \A y \in Proposal : FastOpen(y)' => FastOpen(y)
  BY DEF RoundOpen, FastOpen, Answered
<1>4. FastInv' /\ RoundInv'
  BY <1>2, <1>3, OpenStepsKeepValue, SMTT(30)
<1>5. ProofInv'
  BY <1>1, EvidenceIsStable, ZenonT(30) DEF ProofInv
<1>6. CopyInv'
  <2>1. \A q \in Proposers : call'[q].status = "decided" => call'[q] = call[q]
    BY <1>1, ZenonT(30) DEF BaseInv, TypeOK
  <2>2. QED BY <2>1, ZenonT(30) DEF CopyInv
<1>7. QED BY <1>4, <1>5, <1>6, SMTT(30) DEF PreferredStays

\* Requests after step 4 do not matter to MaxInv.
LEMMA LaterSendKeepsMax ==
    ASSUME SafetyInv, NEW p \in Proposers, NEW s \in Nat, NEW x \in Proposal,
           Broadcast(p, s, x), s > 4
    PROVE  MaxInv'
<1>1. PICK ask :
         /\ Stamped(p, s, x, ask)
         /\ sent' = sent \cup {[to |-> r, step |-> s, proposal |-> ask[r]] :
                                  r \in Recorders}
         /\ call' = [call EXCEPT ![p] =
                       [status |-> "running", step |-> s, proposal |-> x,
                        asked |-> ask, heard |-> {}, outcome |-> NoProof]]
  <2>1. PICK ask : StampedBroadcast(p, s, x, ask)
    BY BroadcastIsStamped, ZenonT(30)
  <2>2. QED BY <2>1, ZenonT(30) DEF StampedBroadcast
<1>2. ASSUME NEW m \in sent', m.step = 4
      PROVE  m \in sent
  <2>1. SUFFICES ASSUME m \notin sent
                 PROVE  FALSE
    OBVIOUS
  <2>2. PICK r \in Recorders : m = [to |-> r, step |-> s, proposal |-> ask[r]]
    BY <1>1, <2>1
  <2>3. m.step = s
    BY <2>2
  <2>4. QED BY <1>2, <2>3
<1>3. \A q \in Proposers : call[q].status # "idle" => call'[q].status # "idle"
  BY <1>1, ZenonT(30) DEF SafetyInv, BaseInv, TypeOK
<1>4. QED BY <1>2, <1>3, ZenonT(30) DEF SafetyInv, MaxInv

\* The first call of the preferred proposer is the only one to use MAX.
LEMMA ProposeKeepsMax ==
    ASSUME SafetyInv, NEW p \in Proposers, NEW v \in Offers[p], Propose(p, v)
    PROVE  MaxInv'
<1> DEFINE x == [priority |-> MAX, proposer |-> p, id |-> seq[p], value |-> v]
<1> USE DEF SafetyInv
<1>1. x \in Proposal /\ Broadcast(p, 4, x) /\ call[p].status = "idle"
  BY IdentityAssumption, PriorityAssumption, ZenonT(30) DEF Propose, BaseInv, TypeOK, Proposal
<1> HIDE DEF x
<1>2. PICK ask :
         /\ Stamped(p, 4, x, ask)
         /\ sent' = sent \cup {[to |-> r, step |-> 4, proposal |-> ask[r]] :
                                  r \in Recorders}
         /\ call' = [call EXCEPT ![p] =
                       [status |-> "running", step |-> 4, proposal |-> x,
                        asked |-> ask, heard |-> {}, outcome |-> NoProof]]
  <2>1. PICK ask : StampedBroadcast(p, 4, x, ask)
    BY <1>1, BroadcastIsStamped, ZenonT(30)
  <2>2. QED BY <2>1, ZenonT(30) DEF StampedBroadcast
<1>3. ASSUME NEW m \in sent' \ sent, m.proposal.priority = MAX
      PROVE  p = Preferred /\ m.proposal = x
  <2>1. PICK r \in Recorders : m = [to |-> r, step |-> 4, proposal |-> ask[r]]
    BY <1>2, SMTT(30)
  <2>2. ask[r] = [priority |-> ask[r].priority, proposer |-> x.proposer,
                  id |-> x.id, value |-> x.value]
    BY <1>2, PhaseFour, SMTT(30) DEF Stamped
  <2>3. p = Preferred
    BY <1>2, <1>3, <2>1, PhaseFour DEF Stamped
  <2>4. ask[r].priority = MAX
    BY <1>3, <2>1, SMTT(30)
  <2>5. ask[r] = x
    BY <2>2, <2>4, SMTT(30) DEF x
  <2>6. QED BY <2>1, <2>3, <2>5, SMTT(30)
<1>4. \A q \in Proposers : call[q].status # "idle" => call'[q].status # "idle"
  BY <1>2 DEF BaseInv, TypeOK
<1>5. CASE p = Preferred
  <2>1. \A m \in sent' : (m.step = 4 /\ m.proposal.priority = MAX) => m.proposal = x
    BY <1>1, <1>3, <1>5, SMTT(30) DEF MaxInv
  <2>2. call'[p].status # "idle"
    BY <1>2 DEF BaseInv, TypeOK
  <2>3. QED BY <1>5, <2>1, <2>2 DEF MaxInv
<1>6. CASE p # Preferred
  BY <1>3, <1>4, <1>6 DEF MaxInv
<1>7. QED BY <1>5, <1>6

\* Steps that end calls, install proofs or add a proof with evidence.
LEMMA QuietStepKeepsSafety ==
    ASSUME SafetyInv, BaseInv', UNCHANGED <<isr, sent, replies>>,
           proofs \subseteq proofs',
           \A d \in proofs' \ proofs : Evidence(d.step, d.proposal),
           \A p \in Proposers : (p = Preferred /\ call[p].status # "idle")
                                   => call'[p].status # "idle",
           CopyInv'
    PROVE  SafetyInv'
<1> USE DEF SafetyInv
<1>1. MaxInv'
  BY SMTT(30) DEF MaxInv
<1>2. /\ \A t \in Nat, y \in Proposal : (t >= 4 /\ RoundOpen(t, y)') => RoundOpen(t, y)
      /\ \A y \in Proposal : FastOpen(y)' => FastOpen(y)
  BY DEF RoundOpen, FastOpen, Answered
<1>3. FastInv' /\ RoundInv'
  BY <1>2, OpenStepsKeepValue
<1>4. ProofInv'
  BY EvidenceIsStable, SMTT(30) DEF ProofInv
<1>5. QED BY <1>1, <1>3, <1>4 DEF PreferredStays

LEMMA SafetyStep == SafetyInv /\ [Next]_vars => SafetyInv'
<1> SUFFICES ASSUME SafetyInv, [Next]_vars PROVE SafetyInv'
  OBVIOUS
<1> USE DEF SafetyInv
<1>0. BaseInv'
  BY BaseStep, SMTT(30)
<1>1. ASSUME NEW p \in Proposers, NEW v \in Offers[p], Propose(p, v)
      PROVE  SafetyInv'
  <2> DEFINE x == [priority |-> MAX, proposer |-> p, id |-> seq[p], value |-> v]
  <2>1. x \in Proposal /\ Broadcast(p, 4, x)
    BY <1>1, IdentityAssumption, PriorityAssumption, ZenonT(30) DEF Propose, BaseInv, TypeOK, Proposal
  <2>2. MaxInv'
    BY <1>1, ProposeKeepsMax
  <2>3. QED BY <1>0, <1>1, <2>1, <2>2, SendKeepsSafety, ZenonT(30) DEF Propose
<1>2. ASSUME NEW p \in Proposers, Conclude(p)
      PROVE  SafetyInv'
  <2>1. PICK x \in Proposal :
              \/ Advance(p, x)
              \/ Decide(p, x) /\ Evidence(call[p].step, x)
    BY <1>2, ConcludeIsJustified
  <2>2. call[p].step \in Nat /\ call[p].step >= 4
    BY <1>2, ZenonT(30) DEF BaseInv, TypeOK, Call, Conclude, CallInv, Justified
  <2>3. CASE Advance(p, x)
    <3>1. Broadcast(p, call[p].step + 1, x) /\ call[p].step + 1 > 4 /\ call[p].step + 1 \in Nat
      BY <2>2, <2>3 DEF Advance
    <3>2. MaxInv'
      BY <3>1, LaterSendKeepsMax, SMTT(30)
    <3>3. QED BY <1>0, <1>2, <2>3, <3>1, <3>2, SendKeepsSafety, ZenonT(30) DEF Advance, Conclude
  <2>4. CASE Decide(p, x) /\ Evidence(call[p].step, x)
    <3> DEFINE d == [step |-> call[p].step, proposal |-> x]
    <3>1. d \in Proof /\ Finish(p, d) /\ proofs' = proofs \cup {d}
      BY <2>2, <2>4, SMTT(30) DEF Decide, Proof
    <3>2. /\ call'[p].status = "decided" /\ call'[p].outcome = d
          /\ \A q \in Proposers : q # p => call'[q] = call[q]
      BY <3>1, FinishKeepsTypes, SMTT(30) DEF BaseInv
    <3>3. UNCHANGED <<isr, installed, sent, replies>>
      BY <1>2, <2>4, ZenonT(30) DEF Conclude, Decide
    <3>4. CopyInv'
      BY <3>1, <3>2, <3>3, ZenonT(30) DEF CopyInv
    <3>5. Evidence(d.step, d.proposal)
      BY <2>4, SMTT(30)
    <3>6. QED BY <1>0, <3>1, <3>2, <3>3, <3>4, <3>5, QuietStepKeepsSafety, SMTT(30)
  <2>5. QED BY <2>1, <2>3, <2>4
<1>3. ASSUME NEW p \in Proposers, NEW r \in Recorders, CatchUp(p, r)
      PROVE  SafetyInv'
  <2>1. isr[r].step \in Nat /\ call[p].step \in Nat
    BY SMTT(30) DEF BaseInv, TypeOK, IsrState, Call
  <2>2. call[p].step >= 4
    BY <1>3, ZenonT(30) DEF BaseInv, CallInv, Justified, CatchUp
  <2>3. isr[r].step > 4 /\ Broadcast(p, isr[r].step, isr[r].first)
    BY <1>3, <2>1, <2>2, SMTT(30) DEF CatchUp
  <2>4. Sent(isr[r].step, isr[r].first)
    BY <2>1, <2>3 DEF BaseInv, RegisterInv, EmptyIsr
  <2>5. isr[r].first \in Proposal
    BY <2>4 DEF BaseInv, Sent, TypeOK, Request
  <2>6. MaxInv'
    BY <2>1, <2>3, <2>5, LaterSendKeepsMax, SMTT(30)
  <2>7. QED BY <1>0, <1>3, <2>1, <2>3, <2>5, <2>6, SendKeepsSafety DEF CatchUp
<1>4. ASSUME NEW p \in Proposers, NEW r \in Recorders, AdoptProof(p, r)
      PROVE  SafetyInv'
  <2>1. installed[r] \in Proof /\ installed[r] \in proofs /\ Finish(p, installed[r])
    BY <1>4, SMTT(30) DEF AdoptProof, BaseInv, TypeOK, CopyInv
  <2>2. /\ call'[p].status = "decided" /\ call'[p].outcome = installed[r]
        /\ \A q \in Proposers : q # p => call'[q] = call[q]
    BY <2>1, FinishKeepsTypes DEF BaseInv
  <2>3. CopyInv'
    BY <1>4, <2>1, <2>2, SMTT(30) DEF CopyInv, AdoptProof
  <2>4. QED BY <1>0, <1>4, <2>2, <2>3, QuietStepKeepsSafety DEF AdoptProof
<1>5. ASSUME NEW p \in Proposers, Abandon(p) \/ Restart(p)
      PROVE  SafetyInv'
  <2>1. /\ call' = [call EXCEPT ![p] = IdleCall]
        /\ UNCHANGED <<isr, installed, sent, replies, proofs>>
        /\ p # Preferred
    BY <1>5 DEF Abandon, Restart, PreferredStays
  <2>2. CopyInv'
    BY <2>1, IdleCallIsCall DEF CopyInv, BaseInv, TypeOK
  <2>3. QED BY <1>0, <2>1, <2>2, QuietStepKeepsSafety DEF BaseInv, TypeOK
<1>6. ASSUME NEW m \in sent, RecordProposal(m)
      PROVE  SafetyInv'
  <2>1. /\ sent' = sent /\ replies \subseteq replies'
        /\ UNCHANGED <<installed, proofs>>
    BY <1>6 DEF RecordProposal
  <2>2. \A q \in Proposers :
           call'[q].status = call[q].status /\ call'[q].outcome = call[q].outcome
    BY <1>6 DEF RecordProposal, BaseInv, TypeOK, Call
  <2>3. MaxInv'
    BY <2>1, <2>2 DEF MaxInv
  <2>4. FastInv' /\ RoundInv'
    BY <1>0, <1>6, <2>1, RoundOpenOnlyCloses, FastOpenOnlyCloses, OpenStepsKeepValue
  <2>5. ProofInv'
    BY <1>0, <2>1, EvidenceIsStable DEF ProofInv
  <2>6. CopyInv'
    BY <2>1, <2>2 DEF CopyInv
  <2>7. QED BY <1>0, <2>3, <2>4, <2>5, <2>6 DEF PreferredStays
<1>7. ASSUME NEW r \in Recorders, NEW d \in proofs, InstallProof(r, d)
      PROVE  SafetyInv'
  <2>1. CopyInv'
    BY <1>7 DEF InstallProof, CopyInv, BaseInv, TypeOK
  <2>2. QED BY <1>0, <1>7, <2>1, QuietStepKeepsSafety DEF InstallProof
<1>8. CASE UNCHANGED vars
  <2>1. CopyInv'
    BY <1>8 DEF CopyInv, vars
  <2>2. QED BY <1>0, <1>8, <2>1, QuietStepKeepsSafety DEF vars
<1>9. QED BY <1>1, <1>2, <1>3, <1>4, <1>5, <1>6, <1>7, <1>8, ZenonT(30) DEF Next

\* The inductive invariant holds as long as the preferred proposer stays.
THEOREM SafetyInvariant == PreferredStays /\ Spec => []SafetyInv
<1>1. PreferredStays /\ Init => SafetyInv
  <2> SUFFICES ASSUME PreferredStays, Init PROVE SafetyInv
    OBVIOUS
  <2>1. BaseInv
    BY InitBase, SMTT(30)
  <2>2. MaxInv /\ FastInv /\ RoundInv /\ ProofInv /\ CopyInv
    BY DEF Init, MaxInv, FastInv, RoundInv, ProofInv, CopyInv, IdleCall
  <2>3. QED BY <2>1, <2>2 DEF SafetyInv
<1>2. QED BY <1>1, SafetyStep, PTL DEF Spec

\* Any two proofs with evidence carry one value.
LEMMA EvidenceAgrees ==
    ASSUME SafetyInv, NEW d \in proofs, NEW e \in proofs, d.step <= e.step
    PROVE  d.proposal.value = e.proposal.value
<1> USE DEF SafetyInv
<1>1. d.step \in Nat /\ e.step \in Nat
  BY SMTT(30) DEF BaseInv, TypeOK, Proof
<1>2. /\ Evidence(d.step, d.proposal) /\ Sent(d.step, d.proposal)
      /\ Evidence(e.step, e.proposal) /\ Sent(e.step, e.proposal)
  BY ZenonT(30) DEF ProofInv, Evidence
<1>3. /\ d.proposal \in Proposal /\ d.step >= 4
      /\ \/ d.step = 4 /\ d.proposal.priority = MAX /\ FastOpen(d.proposal)
         \/ Phase(d.step) = 2 /\ RoundOpen(d.step, d.proposal)
  BY <1>1, <1>2, EvidenceIsOpen
<1>4. /\ e.proposal \in Proposal /\ e.step >= 4
      /\ \/ e.step = 4 /\ e.proposal.priority = MAX /\ FastOpen(e.proposal)
         \/ Phase(e.step) = 2 /\ RoundOpen(e.step, e.proposal)
  BY <1>1, <1>2, EvidenceIsOpen
<1>5. CASE d.step = 4 /\ d.proposal.priority = MAX /\ FastOpen(d.proposal)
  <2>1. CASE e.step = 4 /\ e.proposal.priority = MAX
    BY <1>2, <1>5, <2>1, SMTT(30) DEF MaxInv, Sent
  <2>2. CASE Phase(e.step) = 2
    <3>1. e.step >= 5
      BY <1>1, <1>4, <2>2, PhaseFour
    <3>2. QED BY <1>2, <1>3, <1>5, <3>1 DEF FastInv, Sent
  <2>3. QED BY <1>4, <2>1, <2>2, SMTT(30)
<1>6. CASE Phase(d.step) = 2 /\ RoundOpen(d.step, d.proposal)
  <2>1. Phase(e.step) = 2 /\ RoundOpen(e.step, e.proposal)
    <3>1. d.step # 4
      BY <1>6, PhaseFour
    <3>2. QED BY <1>1, <1>3, <1>4, <3>1
  <2>2. CASE e.step = d.step
    <3>1. AtMost(d.proposal, e.proposal) /\ AtMost(e.proposal, d.proposal)
      BY <1>1, <1>2, <1>3, <1>4, <1>6, <2>1, <2>2, SentIsAtMostOpen, SMTT(30)
    <3>2. QED BY <1>3, <1>4, <3>1, AtMostAntisymmetric DEF ProposalOrNil
  <2>3. CASE e.step # d.step
    <3>1. e.step # d.step + 1
      BY <1>1, <1>6, <2>1, PhaseSuccessor
    <3>2. e.step >= d.step + 2
      BY <1>1, <2>3, <3>1
    <3>3. QED BY <1>1, <1>2, <1>3, <1>6, <3>2 DEF RoundInv, Sent
  <2>4. QED BY <2>2, <2>3
<1>7. QED BY <1>3, <1>5, <1>6

LEMMA SafetyImpliesAgreement == SafetyInv => Agreement
<1> SUFFICES ASSUME SafetyInv, NEW d \in proofs, NEW e \in proofs
             PROVE  d.proposal.value = e.proposal.value
  BY DEF Agreement
<1>1. d.step \in Nat /\ e.step \in Nat
  BY DEF SafetyInv, BaseInv, TypeOK, Proof
<1>2. CASE d.step <= e.step
  BY <1>2, EvidenceAgrees
<1>3. CASE e.step <= d.step
  BY <1>3, EvidenceAgrees
<1>4. QED BY <1>1, <1>2, <1>3

\* Agreement, for any members, quorums, offers, priorities and schedules: the
\* fast path and the phase-2 decisions of drive never decide two values.
THEOREM AgreementHolds == PreferredStays /\ Spec => []Agreement
BY SafetyInvariant, SafetyImpliesAgreement, PTL

\* Calls that end and proofs that get cached never disagree with a decision.
THEOREM OutcomesAgreeHolds == PreferredStays /\ Spec => []OutcomesAgree
<1>1. SafetyInv => OutcomesAgree
  BY SafetyImpliesAgreement DEF SafetyInv, CopyInv, Agreement, OutcomesAgree
<1>2. QED BY <1>1, SafetyInvariant, PTL

\* Once decided, later rounds of drive and the registers hold only that value.
THEOREM LaterRoundsHolds == PreferredStays /\ Spec => []LaterRoundsKeepValue
<1>1. SafetyInv => LaterRoundsKeepValue
  <2> SUFFICES ASSUME SafetyInv, NEW d \in proofs
               PROVE  /\ \A p \in Proposers :
                            (call[p].status = "running" /\ call[p].step >= d.step + 2)
                               => call[p].proposal.value = d.proposal.value
                      /\ \A r \in Recorders : isr[r].step >= d.step + 2 =>
                            /\ isr[r].first.value = d.proposal.value
                            /\ isr[r].agg.value = d.proposal.value
    BY DEF LaterRoundsKeepValue
  <2> USE DEF SafetyInv
  <2>1. d.step \in Nat /\ Evidence(d.step, d.proposal)
    BY DEF BaseInv, TypeOK, Proof, ProofInv
  <2>2. /\ d.proposal \in Proposal /\ d.step >= 4
        /\ \/ d.step = 4 /\ d.proposal.priority = MAX /\ FastOpen(d.proposal)
           \/ Phase(d.step) = 2 /\ RoundOpen(d.step, d.proposal)
    BY <2>1, EvidenceIsOpen
  <2>3. ASSUME NEW t \in Nat, NEW y \in Proposal, t >= d.step + 2, Justified(t, y)
        PROVE  y.value = d.proposal.value
    <3>1. CASE d.step = 4 /\ d.proposal.priority = MAX /\ FastOpen(d.proposal)
      <4>1. t >= 5
        BY <2>1, <2>3, <3>1
      <4>2. QED BY <2>2, <2>3, <3>1, <4>1, JustifiedKeepsFast
    <3>2. CASE Phase(d.step) = 2 /\ RoundOpen(d.step, d.proposal)
      BY <2>1, <2>2, <2>3, <3>2, JustifiedKeepsRound, SMTT(30)
    <3>3. QED BY <2>2, <3>1, <3>2
  <2>4. ASSUME NEW p \in Proposers, call[p].status = "running", call[p].step >= d.step + 2
        PROVE  call[p].proposal.value = d.proposal.value
    BY <2>3, <2>4 DEF BaseInv, CallInv, TypeOK, Call
  <2>5. ASSUME NEW r \in Recorders, isr[r].step >= d.step + 2
        PROVE  /\ isr[r].first.value = d.proposal.value
               /\ isr[r].agg.value = d.proposal.value
    <3>1. isr[r].step \in Nat /\ isr[r].step # 0
      BY <2>1, <2>2, <2>5, SMTT(30) DEF BaseInv, TypeOK, IsrState
    <3>2. Sent(isr[r].step, isr[r].first) /\ Sent(isr[r].step, isr[r].agg)
      BY <3>1, SMTT(30) DEF BaseInv, RegisterInv, EmptyIsr
    <3>3. /\ isr[r].first \in Proposal /\ Justified(isr[r].step, isr[r].first)
          /\ isr[r].agg \in Proposal /\ Justified(isr[r].step, isr[r].agg)
      BY <3>2, ZenonT(30) DEF BaseInv, Sent, RequestInv, TypeOK, Request
    <3>4. QED BY <2>3, <2>5, <3>1, <3>3
  <2>6. QED BY <2>4, <2>5
<1>2. QED BY <1>1, SafetyInvariant, PTL

\* The protocol implements the abstract choice of one offered value per slot.
THEOREM ConsensusImplemented == PreferredStays /\ Spec => ImplementsConsensus
<1> DEFINE Chosen == {d.proposal.value : d \in proofs}
           Offered == UNION {Offers[p] : p \in Proposers}
<1>1. Init => Slot!ChooseNothing
  BY DEF Init, Slot!ChooseNothing
<1>2. SafetyInv /\ SafetyInv' /\ [Next]_vars => [Slot!Choose]_Chosen
  <2> SUFFICES ASSUME SafetyInv, SafetyInv', [Next]_vars, Chosen' # Chosen
               PROVE  Slot!Choose
    BY ZenonT(30)
  <2>1. proofs \subseteq proofs'
    BY ZenonT(30) DEF Next, vars, Propose, Conclude, CatchUp, AdoptProof, Abandon, Restart,
           RecordProposal, InstallProof, ConcludePhase0, ConcludePhase1, ConcludePhase2,
           ConcludePhase3, Advance, Decide
  <2>2. /\ \A d, e \in proofs' : d.proposal.value = e.proposal.value
        /\ \A d \in proofs' : d.proposal.value \in Offered
    <3>1. Agreement'
      BY SafetyImpliesAgreement, PTL
    <3>2. \A d \in proofs' : Sent(d.step, d.proposal)'
      BY DEF SafetyInv, ProofInv, Evidence
    <3>3. \A m \in sent' : m.proposal.value \in Offered
      BY ZenonT(30) DEF SafetyInv, BaseInv, RequestInv
    <3>4. QED BY <3>1, <3>2, <3>3 DEF Agreement, Sent
  <2>3. proofs = {}
    BY <2>1, <2>2
  <2>4. PICK d \in proofs' : TRUE
    BY <2>1, <2>3
  <2>5. Chosen = {} /\ Chosen' = {d.proposal.value} /\ d.proposal.value \in Offered
    BY <2>2, <2>3, <2>4
  <2>6. QED BY <2>5, ZenonT(30) DEF Slot!Choose
<1>3. QED BY <1>1, <1>2, SafetyInvariant, PTL DEF Spec, ImplementsConsensus, Slot!SlotSpec
=============================================================================
