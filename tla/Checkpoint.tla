----------------------------- MODULE Checkpoint -----------------------------
(***************************************************************************)
(* What the archive promises: a checkpoint from which the decided log can  *)
(* be restored up to tip, starting from the state after base.  Publishing  *)
(* entries moves tip forward, publishing a snapshot moves base forward,    *)
(* and nothing takes back what was published until the generation it was   *)
(* published to is retired, for good.                                      *)
(***************************************************************************)
EXTENDS Naturals

VARIABLES base, tip, retired

Init == base = 0 /\ tip = 0 /\ ~retired

Publish == tip' > tip /\ UNCHANGED base
Rebase == base' > base /\ base' <= tip /\ UNCHANGED tip

Next ==
    \/ ~retired /\ ~retired' /\ (Publish \/ Rebase)
    \/ retired'

Spec == Init /\ [][Next]_<<base, tip, retired>>

=============================================================================
