--------------------------- MODULE RecorderConfig ---------------------------
(***************************************************************************)
(* The configuration state a recorder keeps beside its slot registers, the *)
(* gate every record passes, and what an accepted value changes.           *)
(*                                                                         *)
(* A recorder belongs to one configuration at a time.  A Stop command      *)
(* seals the configuration at a slot; once the Stop is decided a successor *)
(* configuration is installed, which accepts nothing but an activation     *)
(* barrier in the slot after the Stop until that barrier is decided.       *)
(***************************************************************************)
EXTENDS Naturals, FiniteSets

\* A command is its kind, the configuration it is bound to and the slot of
\* the Stop it follows (0 where the kind has no such field).  "tag" tells
\* commands of one kind apart.
Kinds == {"normal", "stop", "activate"}

Normal(t) == [kind |-> "normal", config |-> 0, after |-> 0, tag |-> t]
Stop(c, t) == [kind |-> "stop", config |-> c, after |-> 0, tag |-> t]
Activate(c, k) == [kind |-> "activate", config |-> c, after |-> k, tag |-> 0]

\* The slot and the command of a Stop; the entry hash follows from the two.
NoSeal == [slot |-> 0, command |-> Normal(0)]
Seal(s, c) == [slot |-> s, command |-> c]

\* ConfigurationState; max is the highest slot with an accepted value (0: none).
InitialConfiguration(c) ==
    [id |-> c, predecessor |-> NoSeal, seal |-> NoSeal,
     activated |-> TRUE, max |-> 0]

\* Two configurations that differ in more than the highest accepted slot.
StructureChanged(a, b) == [a EXCEPT !.max = 0] # [b EXCEPT !.max = 0]

-----------------------------------------------------------------------------
\* A gate that looks only at the seal of the Stop being recorded, and lets
\* later slots of a sealed configuration through.
GateIgnoresSeal(cfg, s, c) ==
    /\ cfg.predecessor # NoSeal => s > cfg.predecessor.slot
    /\ c.kind = "stop" => cfg.max <= s
    /\ ~cfg.activated =>
          /\ cfg.predecessor # NoSeal
          /\ s = cfg.predecessor.slot + 1
          /\ c.kind # "stop"
          /\ c.kind = "activate" => c.after = cfg.predecessor.slot
    /\ cfg.activated => c.kind # "activate"
    /\ c.kind # "normal" => c.config = cfg.id

\* validate_slot_gate: slots up to the predecessor's Stop are closed, slots
\* after the seal are closed, a Stop may not undercut an accepted slot, and a
\* configuration that is not active takes its own activation barrier only.
ValidateSlotGate(cfg, s, c) ==
    /\ cfg.predecessor # NoSeal => s > cfg.predecessor.slot
    /\ cfg.seal # NoSeal => /\ s <= cfg.seal.slot
                            /\ c.kind = "stop" => s = cfg.seal.slot
    /\ c.kind = "stop" => cfg.max <= s
    /\ ~cfg.activated =>
          /\ cfg.predecessor # NoSeal
          /\ s = cfg.predecessor.slot + 1
          /\ c.kind # "stop"
          /\ c.kind = "activate" => c.after = cfg.predecessor.slot
    /\ cfg.activated => c.kind # "activate"
    /\ c.kind # "normal" => c.config = cfg.id

\* The seal after command c is applied at slot s; a decision for another value
\* at the sealed slot lifts the seal first.
SealBefore(cfg, s, c, decided) ==
    IF decided /\ cfg.seal # NoSeal /\ cfg.seal.slot = s /\ cfg.seal.command # c
    THEN NoSeal
    ELSE cfg.seal

\* transition_after_apply is an error when another Stop holds the seal.
CanTransition(cfg, s, c, decided) ==
    LET seal == SealBefore(cfg, s, c, decided)
    IN  c.kind = "stop" => seal \in {NoSeal, Seal(s, c)}

\* transition_after_apply, where it succeeds.
TransitionAfterApply(cfg, s, c, decided) ==
    [cfg EXCEPT
       !.max = IF cfg.max >= s THEN cfg.max ELSE s,
       !.seal = IF c.kind = "stop" THEN Seal(s, c)
                ELSE SealBefore(cfg, s, c, decided),
       !.activated = cfg.activated \/ (c.kind = "activate" /\ decided)]

-----------------------------------------------------------------------------
\* install_successor_from_proof with a proof that the Stop c was decided at
\* slot s of the current configuration.
CanInstallSuccessor(cfg, s, c) ==
    /\ cfg.predecessor # NoSeal => cfg.activated
    /\ c.kind = "stop" /\ c.config = cfg.id
    /\ cfg.seal \in {NoSeal, Seal(s, c)}

Successor(cfg, s, c) ==
    [id |-> cfg.id + 1, predecessor |-> Seal(s, c), seal |-> NoSeal,
     activated |-> FALSE, max |-> 0]

\* recover_successor_activation_from_checkpoint at a recovered tip t; on an
\* active configuration it changes nothing.
CanRecoverActivation(cfg, t) ==
    /\ cfg.predecessor # NoSeal
    /\ t > cfg.predecessor.slot
    /\ ~cfg.activated

Recovered(cfg, t) == [cfg EXCEPT !.activated = TRUE, !.max = t]
=============================================================================
