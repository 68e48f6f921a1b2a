----------------------------- MODULE Consensus -----------------------------
(***************************************************************************)
(* What one slot of the log promises: at most one of the offered values is *)
(* ever chosen, and a choice is never taken back.  QuePaxa implements it.  *)
(***************************************************************************)
CONSTANT Values
VARIABLE chosen

ChooseNothing == chosen = {}

Choose == chosen = {} /\ \E v \in Values : chosen' = {v}

SlotSpec == ChooseNothing /\ [][Choose]_chosen
=============================================================================
