---------------------------- MODULE WriteProofs ----------------------------
(***************************************************************************)
(* ExactlyOnce and StopEndsConfiguration for every set of identifiers and  *)
(* payloads, and what the proofs about the write path share.               *)
(*                                                                         *)
(* Neither property is inductive: an offer outlives the state it was       *)
(* checked in.  The strengthening says that every offer may still follow   *)
(* the log; deciding one clears the others.                                *)
(***************************************************************************)
EXTENDS ClientCalls, WellFoundedInduction, TLAPS

-----------------------------------------------------------------------------
(* The request log *)

TypeOK ==
    /\ log \in Seq(Entry)
    /\ offers \in SUBSET Entry

IInv ==
    /\ TypeOK
    /\ \A e \in offers : MayFollow(e)
    /\ ExactlyOnce
    /\ StopEndsConfiguration

\* An identifier of a decided entry is taken.
LEMMA DecidedIsTaken ==
    ASSUME NEW i \in DOMAIN log
    PROVE  IdsOf(log[i].requests) \subseteq Taken(log)
BY DEF Taken

\* What may follow the log depends on nothing but the log.
LEMMA SameLog ==
    ASSUME log' = log, NEW e, MayFollow(e)
    PROVE  MayFollow(e)'
<1>1. Taken(log)' = Taken(log) /\ Stopped(log)' = Stopped(log)
    BY DEF Taken, Stopped
<1>2. OnePayloadEach(e.requests) /\ IdsOf(e.requests) \cap Taken(log)' = {}
    BY <1>1 DEF MayFollow
<1>3. Stopped(log)' <=> e.kind = "Activation"
    BY <1>1 DEF MayFollow
<1>4. Stopped(log)' => e.successor = log'[Len(log')].successor
    BY <1>1 DEF MayFollow
<1>5. log' # <<>> => e.config = log'[Len(log')].config + (IF Stopped(log)' THEN 1 ELSE 0)
    BY <1>1 DEF MayFollow
<1> QED
    BY <1>2, <1>3, <1>4, <1>5 DEF MayFollow

LEMMA InitIInv == LogInit => IInv
BY DEF LogInit, IInv, TypeOK, ExactlyOnce, StopEndsConfiguration

\* Offering leaves the log alone, and what is offered may follow it.
LEMMA OfferIInv == IInv /\ Offer => IInv'
<1> SUFFICES ASSUME IInv, Offer PROVE IInv'
    OBVIOUS
<1>1. log' = log
    BY DEF Offer
<1>2. TypeOK'
    BY <1>1 DEF IInv, TypeOK, Offer
<1>3. \A e \in offers' : MayFollow(e)
    BY DEF IInv, Offer
<1>4. \A e \in offers' : MayFollow(e)'
    BY <1>1, <1>3, SameLog
<1>5. ExactlyOnce' /\ StopEndsConfiguration'
    BY <1>1 DEF IInv, ExactlyOnce, StopEndsConfiguration
<1> QED
    BY <1>2, <1>4, <1>5 DEF IInv

\* Deciding an offer keeps identifiers unique because the offer's are not taken.
LEMMA DecideIInv == IInv /\ Decide => IInv'
<1> SUFFICES ASSUME IInv, Decide PROVE IInv'
    OBVIOUS
<1>1. PICK e \in offers : log' = Append(log, e)
    BY DEF Decide
<1>2. e \in Entry /\ MayFollow(e) /\ log \in Seq(Entry)
    BY DEF IInv, TypeOK
<1>3. /\ Len(log') = Len(log) + 1
      /\ log'[Len(log) + 1] = e
      /\ \A i \in 1 .. Len(log) : log'[i] = log[i]
      /\ log' \in Seq(Entry)
    BY <1>1, <1>2
<1>4. TypeOK' /\ \A d \in offers' : MayFollow(d)'
    BY <1>3 DEF Decide, TypeOK
<1>5. ExactlyOnce'
  <2>1. \A i \in 1 .. Len(log') : OnePayloadEach(log'[i].requests)
    <3> SUFFICES ASSUME NEW i \in 1 .. Len(log') PROVE OnePayloadEach(log'[i].requests)
        OBVIOUS
    <3>1. CASE i \in 1 .. Len(log)
        BY <3>1, <1>3 DEF IInv, ExactlyOnce
    <3>2. CASE i = Len(log) + 1
        BY <3>2, <1>2, <1>3 DEF MayFollow
    <3> QED
        BY <3>1, <3>2, <1>2, <1>3
  <2>2. \A i \in 1 .. Len(log) : IdsOf(log[i].requests) \cap IdsOf(e.requests) = {}
    <3> SUFFICES ASSUME NEW i \in 1 .. Len(log)
                 PROVE  IdsOf(log[i].requests) \cap IdsOf(e.requests) = {}
        OBVIOUS
    <3>1. i \in DOMAIN log
        BY <1>2
    <3>2. IdsOf(log[i].requests) \subseteq Taken(log)
        BY <3>1, DecidedIsTaken
    <3>3. IdsOf(e.requests) \cap Taken(log) = {}
        BY <1>2 DEF MayFollow
    <3> QED
        BY <3>2, <3>3
  <2>3. ASSUME NEW i \in 1 .. Len(log'), NEW j \in 1 .. Len(log'), i # j
        PROVE  IdsOf(log'[i].requests) \cap IdsOf(log'[j].requests) = {}
    <3>1. CASE i \in 1 .. Len(log) /\ j \in 1 .. Len(log)
        BY <3>1, <2>3, <1>3 DEF IInv, ExactlyOnce
    <3>2. CASE i \in 1 .. Len(log) /\ j = Len(log) + 1
        BY <3>2, <2>2, <1>3
    <3>3. CASE i = Len(log) + 1 /\ j \in 1 .. Len(log)
        BY <3>3, <2>2, <1>3
    <3> QED
        BY <3>1, <3>2, <3>3, <2>3, <1>2, <1>3
  <2> QED
    BY <2>1, <2>3 DEF ExactlyOnce
<1>6. StopEndsConfiguration'
  <2> SUFFICES ASSUME NEW i \in 1 .. Len(log') - 1
               PROVE  /\ log'[i].kind = "Stop" <=> log'[i + 1].kind = "Activation"
                      /\ log'[i].kind = "Stop" => log'[i + 1].successor = log'[i].successor
                      /\ log'[i + 1].config =
                            log'[i].config + (IF log'[i].kind = "Stop" THEN 1 ELSE 0)
    BY DEF StopEndsConfiguration
  <2>1. CASE i \in 1 .. Len(log) - 1
    BY <2>1, <1>2, <1>3 DEF IInv, StopEndsConfiguration
  <2>2. CASE i = Len(log)
    BY <2>2, <1>2, <1>3 DEF MayFollow, Stopped
  <2> QED
    BY <2>1, <2>2, <1>2, <1>3
<1> QED
    BY <1>4, <1>5, <1>6 DEF IInv

\* The inductive step.
LEMMA StepIInv == IInv /\ [LogNext]_logVars => IInv'
<1>1. ASSUME IInv, UNCHANGED logVars PROVE IInv'
  <2>1. log' = log /\ offers' = offers
    BY <1>1 DEF logVars
  <2>2. \A e \in offers' : MayFollow(e)'
    BY <1>1, <2>1, SameLog DEF IInv
  <2>3. TypeOK' /\ ExactlyOnce' /\ StopEndsConfiguration'
    BY <1>1, <2>1 DEF IInv, TypeOK, ExactlyOnce, StopEndsConfiguration
  <2> QED
    BY <2>2, <2>3 DEF IInv
<1> QED
    BY <1>1, OfferIInv, DecideIInv DEF LogNext

LEMMA Invariance == LogSpec => []IInv
BY StepIInv, InitIInv, PTL DEF LogSpec

\* Every request takes effect at most once, for any requests.
THEOREM ExactlyOnceHolds == LogSpec => []ExactlyOnce
<1>1. IInv => ExactlyOnce
    BY DEF IInv
<1> QED
    BY <1>1, Invariance, PTL

\* A Stop is the last entry of its configuration.
THEOREM StopIsLast == LogSpec => []StopEndsConfiguration
<1>1. IInv => StopEndsConfiguration
    BY DEF IInv
<1> QED
    BY <1>1, Invariance, PTL

-----------------------------------------------------------------------------
(* Definitions and facts of the write path *)

\* What a node knows of the log.
NodeType == [applied : Nat, config : Nat \ {0}, fatal : BOOLEAN, torn : BOOLEAN,
             compacting : BOOLEAN]

\* A node whose materializer refused an entry proposes nothing.
TornInv(w, e) ==
    w.torn =>
        /\ w.fatal
        /\ e.offered = {} /\ e.mode \notin {"single", "stop"}
        /\ e.mode = "batch" /\ profile = "sql" /\ ~e.each => Pending(e) = {}

\* New results for the pending members of a batch.
IsAnswer(e, f, g) ==
    f = [e EXCEPT !.offered = {},
                  !.results = [k \in DOMAIN e.members |->
                                  IF k \in Pending(e) THEN g[k] ELSE e.results[k]]]

\* A set of naturals has a least element.
LEMMA LeastExists ==
    ASSUME NEW S \in SUBSET Nat, S # {}
    PROVE  Min(S) \in S /\ \A y \in S : Min(S) <= y
<1> DEFINE R == OpToRel(<, Nat)
<1>1. \A x, y \in Nat : y < x => <<y, x>> \in R
  BY DEF OpToRel
<1>2. IsWellFoundedOn(R, Nat)
  BY Zenon, NatLessThanWellFounded
<1> HIDE DEF R
<1>3. PICK x \in S : \A y \in S : ~(<<y, x>> \in R)
  BY Zenon, <1>2, WFMin
<1>4. \A y \in S : x <= y
  <2> TAKE y \in S
  <2>1. x \in Nat /\ y \in Nat /\ ~(y < x)
    BY Zenon, <1>1, <1>3
  <2> QED
    BY <2>1
<1> QED
  BY Zenon, <1>4 DEF Min

\* A set of naturals below a bound has a greatest one.
LEMMA GreatestExists ==
    ASSUME NEW b \in Nat, NEW S \in SUBSET (0 .. b), S # {}
    PROVE  Max(S) \in S /\ \A y \in S : Max(S) >= y
<1> DEFINE T == {b - y : y \in S}
<1>1. T \in SUBSET Nat /\ T # {}
  <2>1. \A y \in 0 .. b : b - y \in Nat
    OBVIOUS
  <2> QED
    BY Zenon, <2>1
<1>2. Min(T) \in T /\ \A y \in T : Min(T) <= y
  BY Zenon, <1>1, LeastExists
<1>3. PICK x \in S : Min(T) = b - x
  BY <1>2
<1>4. \A y \in S : x >= y
  <2> TAKE y \in S
  <2>1. b - y \in T /\ x \in 0 .. b /\ y \in 0 .. b
    OBVIOUS
  <2>2. b - x <= b - y
    BY Zenon, <1>2, <1>3, <2>1
  <2> QED
    BY <2>1, <2>2
<1> QED
  BY Zenon, <1>4 DEF Max

\* An answered request has a result.
LEMMA Answers ==
    /\ \A kind : kind # "none" => Err(kind) # None
    /\ \A i : Ok(i) # None
BY DEF Err, Ok, Result, None
=============================================================================
