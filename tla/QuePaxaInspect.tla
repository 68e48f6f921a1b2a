--------------------------- MODULE QuePaxaInspect ---------------------------
(***************************************************************************)
(* The read side of a slot: a node that runs no call asks the recorders    *)
(* for their summaries (inspect_typed_record_summaries) and rebuilds a     *)
(* decision proof from a quorum of them (proof_from_record_summaries).     *)
(* The background materializer, the read barrier, startup recovery and     *)
(* peer catch-up all learn decisions this way.                             *)
(***************************************************************************)
EXTENDS MCQuePaxa

VARIABLES
    seen,     \* seen[r]: the summary the inspection under way got from r
    learned   \* the proofs inspections have rebuilt or found installed

inspectVars == <<vars, seen, learned>>

NoSummary == [step |-> 0, first |-> Nil, prior |-> Nil]

Summary(r) == [step |-> isr[r].step, first |-> isr[r].first, prior |-> isr[r].prior]

InspectInit ==
    /\ Init
    /\ seen = [r \in Recorders |-> NoSummary]
    /\ learned = {}

\* One recorder answers inspect_record_summary; the answers of one inspection
\* are given at different times.
ReadSummary(r) ==
    /\ seen' = [seen EXCEPT ![r] = Summary(r)]
    /\ UNCHANGED <<vars, learned>>

\* proof_from_record_summaries, step 4: one MAX proposal was first everywhere.
RebuiltFastPath(Q) ==
    {[step |-> 4, proposal |-> f] :
        f \in {seen[r].first : r \in {q \in Q :
                 /\ seen[q].first.priority = MAX
                 /\ \A q2 \in Q : seen[q2].step = 4 /\ seen[q2].first = seen[q].first}}}

\* proof_from_record_summaries, phase 2: the greatest aggregate of the prior step.
RebuiltPhase2(Q) ==
    LET steps  == {seen[r].step : r \in Q}
        priors == {seen[r].prior : r \in Q}
    IN  {[step |-> s, proposal |-> best] :
            s \in {x \in steps : steps = {x} /\ Phase(x) = 2},
            best \in {x \in priors \ {Nil} : IsGreatest(x, priors)}}

\* The proof DecisionProof::validate_for accepts ends the inspection.
Rebuild(Q) ==
    /\ \E proof \in RebuiltFastPath(Q) \cup RebuiltPhase2(Q) :
          learned' = learned \cup {proof}
    /\ seen' = [r \in Recorders |-> NoSummary]
    /\ UNCHANGED vars

\* A summary that carries an installed proof settles the inspection at once.
ReadInstalled(r) ==
    /\ installed[r] # NoProof
    /\ learned' = learned \cup {installed[r]}
    /\ seen' = [s \in Recorders |-> NoSummary]
    /\ UNCHANGED vars

InspectNext ==
    \/ Next /\ UNCHANGED <<seen, learned>>
    \/ \E r \in Recorders : ReadSummary(r) \/ ReadInstalled(r)
    \/ \E Q \in Quorums : Rebuild(Q)

InspectSpec == InspectInit /\ [][InspectNext]_inspectVars

\* What TLC keeps of a state, as Relevant does without inspections.
InspectRelevant == <<Relevant, seen, learned>>

\* An inspection returns the value the slot's calls decide: "reconstructs the
\* same certified decision".
InspectionAgreement ==
    \A d \in learned, e \in proofs : d.proposal.value = e.proposal.value
=============================================================================
