-------------------------- MODULE ReadBarrierProofs --------------------------
(***************************************************************************)
(* RoundsConsistent and ReadsSeeEarlierWrites of ReadBarrier, for every    *)
(* number of readers, recorders and slots.                                 *)
(*                                                                         *)
(* The argument: what a read needs was decided, hence recorded at a        *)
(* quorum, before it joined its round, and a round admits nobody once its  *)
(* leader asks the recorders.  While the slot after the tip is needed by   *)
(* somebody in the round, a quorum that holds it stays outside the         *)
(* recorders the leader found empty, so these are no quorum.               *)
(***************************************************************************)
EXTENDS ReadBarrier, FiniteSetTheorems, SequenceTheorems, TLAPS

-----------------------------------------------------------------------------
(* The inductive invariant *)

\* Where a leader owns the commit lock.
Running == {"fence", "settle", "barrier"}

\* Where it waits for it.
Collecting == {"turn", "asleep", "lock"}

\* A read call.
ReaderType ==
    [pc : {"idle", "wait", "read", "done"} \cup Collecting \cup Running,
     round : Nat, leader : BOOLEAN, empty : SUBSET Recorders, busy : SUBSET Recorders,
     need : Nat, anchor : Nat, seen : Nat, result : {"none", "ok", "error"}]

\* ReadBarrierRound
RoundType ==
    [phase : {"collecting", "running", "complete"}, anchor : Nat, ok : BOOLEAN,
     predecessor : BOOLEAN]

\* The types of the variables.
Shape ==
    /\ occupied \in [Recorders -> SUBSET (1 .. MaxSlot)]
    /\ chosen \in Seq(Kinds) /\ applied \in Nat /\ applied <= Len(chosen)
    /\ rounds \in Seq(RoundType)
    /\ lock \in Readers \cup {"free"}
    /\ reader \in [Readers -> ReaderType]
    /\ node \in [cancelled : BOOLEAN, active : BOOLEAN, contextFence : BOOLEAN]
    /\ sweep \in Nat /\ sweep <= Len(rounds)

\* The recorders that have a record for the slot.
Holders(s) == {r \in Recorders : s \in occupied[r]}

\* A decided slot is recorded at a quorum.
DecidedInv == \A s \in 1 .. Len(chosen) : IsQuorum(Holders(s))

\* Where a call is, in which round, and in which phase that is.
CallInv(c) ==
    /\ reader[c].round <= Len(rounds)
    /\ reader[c].pc \in {"turn", "lock"} \cup Running => reader[c].leader
    /\ reader[c].pc = "wait" => ~reader[c].leader
    /\ reader[c].leader => /\ reader[c].pc \in Collecting \cup Running
                           /\ reader[c].round >= 1
    /\ reader[c].leader /\ reader[c].pc \in Collecting =>
         rounds[reader[c].round].phase = "collecting"
    /\ reader[c].pc \in Running => /\ rounds[reader[c].round].phase = "running"
                                   /\ lock = c
    /\ reader[c].pc \in {"wait", "asleep"} => reader[c].round >= 1
    /\ reader[c].pc = "asleep" => /\ Awaited(c) >= 1
                                  /\ rounds[Awaited(c)].phase # "complete"

\* The same of every call.
CallsInv == \A c \in Readers : CallInv(c)

\* A round has at most one leader.
OneLeader ==
    \A c, d \in Readers :
      reader[c].leader /\ reader[d].leader /\ reader[c].round = reader[d].round => c = d

\* A round that is not complete has a leader.
LedInv ==
    \A i \in 1 .. Len(rounds) :
      rounds[i].phase # "complete" => \E l \in Readers : reader[l].leader /\ reader[l].round = i

\* While a round looks at the slot after the tip and one of its calls needs
\* that slot, a quorum outside the recorders found empty holds it.
FenceInv ==
    \A c, d \in Readers :
      (/\ reader[c].pc = "fence" /\ reader[d].round = reader[c].round
       /\ reader[d].need > applied) => IsQuorum(Holders(applied + 1) \ reader[c].empty)

\* A barrier is proposed when nobody in the round needs more than the tip.
BarrierInv ==
    \A c, d \in Readers :
      reader[c].pc = "barrier" /\ reader[d].round = reader[c].round => reader[d].need <= applied

\* A round that succeeded is complete, its anchor is applied, and nobody in it
\* needs more.
RoundInv ==
    \A i \in 1 .. Len(rounds) :
      rounds[i].ok => /\ rounds[i].phase = "complete" /\ rounds[i].anchor <= applied
                      /\ \A d \in Readers : reader[d].round = i => reader[d].need <= rounds[i].anchor

\* What a call needs is decided, and covered by its anchor and by what it read.
ReadInv ==
    \A d \in Readers :
      /\ reader[d].need <= Len(chosen)
      /\ reader[d].pc = "read" => /\ reader[d].need <= reader[d].anchor
                                  /\ reader[d].anchor <= applied
      /\ reader[d].result = "ok" => reader[d].seen >= reader[d].need

\* The inductive invariant.
RInv ==
    /\ Shape /\ DecidedInv /\ CallsInv /\ OneLeader /\ LedInv
    /\ FenceInv /\ BarrierInv /\ RoundInv /\ ReadInv

-----------------------------------------------------------------------------
(* Quorums *)

\* A majority and a few more is a majority.
LEMMA QuorumGrows ==
    ASSUME NEW A, NEW B, A \subseteq B, B \subseteq Recorders, IsQuorum(A)
    PROVE  IsQuorum(B)
<1>1. IsFiniteSet(Recorders) /\ IsFiniteSet(B) /\ A \in SUBSET B
  BY ReadAssumption, FS_Subset
<1>2. Cardinality(A) <= Cardinality(B) /\ IsFiniteSet(A)
  BY <1>1, FS_Subset
<1>3. Cardinality(A) \in Nat /\ Cardinality(B) \in Nat /\ Cardinality(Recorders) \in Nat
  BY <1>1, <1>2, FS_CardinalityType
<1>. QED  BY <1>2, <1>3 DEF IsQuorum

\* Two majorities share a recorder.
LEMMA QuorumsMeet ==
    ASSUME NEW A, NEW B, A \subseteq Recorders, B \subseteq Recorders,
           IsQuorum(A), IsQuorum(B), A \cap B = {}
    PROVE  FALSE
<1>1. IsFiniteSet(Recorders) /\ IsFiniteSet(A) /\ IsFiniteSet(B) /\ A \cup B \in SUBSET Recorders
  BY ReadAssumption, FS_Subset
<1>2. Cardinality(A \cup B) = Cardinality(A) + Cardinality(B) - Cardinality({})
  BY <1>1, FS_Union
<1>3. Cardinality({}) = 0
  BY FS_EmptySet
<1>4. Cardinality(A \cup B) <= Cardinality(Recorders)
  BY <1>1, FS_Subset
<1>5. Cardinality(A) \in Nat /\ Cardinality(B) \in Nat /\ Cardinality(Recorders) \in Nat
  BY <1>1, FS_CardinalityType
<1>. QED  BY <1>2, <1>3, <1>4, <1>5 DEF IsQuorum

-----------------------------------------------------------------------------
(* Every step keeps the invariant *)

\* The types of what the invariant compares.
LEMMA Types ==
    ASSUME Shape
    PROVE  /\ applied \in Nat /\ Len(chosen) \in Nat /\ Len(rounds) \in Nat
           /\ \A c \in Readers : /\ reader[c] \in ReaderType
                                 /\ reader[c].need \in Nat /\ reader[c].anchor \in Nat
                                 /\ reader[c].round \in Nat /\ reader[c].seen \in Nat
                                 /\ reader[c].leader \in BOOLEAN
                                 /\ reader[c].empty \subseteq Recorders
                                 /\ reader[c].busy \subseteq Recorders
           /\ \A i \in 1 .. Len(rounds) : /\ rounds[i] \in RoundType
                                          /\ rounds[i].anchor \in Nat
                                          /\ rounds[i].ok \in BOOLEAN
<1>1. applied \in Nat /\ Len(chosen) \in Nat /\ Len(rounds) \in Nat
  BY LenProperties DEF Shape
<1>2. \A c \in Readers : reader[c] \in ReaderType
  BY DEF Shape
<1>3. \A i \in 1 .. Len(rounds) : rounds[i] \in RoundType
  BY ElementOfSeq DEF Shape
<1>4. \A x \in ReaderType : /\ x.need \in Nat /\ x.anchor \in Nat /\ x.round \in Nat
                            /\ x.seen \in Nat /\ x.leader \in BOOLEAN
                            /\ x.empty \subseteq Recorders /\ x.busy \subseteq Recorders
  BY DEF ReaderType
<1>5. \A x \in RoundType : x.anchor \in Nat /\ x.ok \in BOOLEAN
  BY DEF RoundType
<1>. QED  BY <1>1, <1>2, <1>3, <1>4, <1>5

\* The invariant holds at first.
LEMMA InitInv == Init => RInv
<1>. SUFFICES ASSUME Init PROVE RInv
  OBVIOUS
<1>1. IdleReader \in ReaderType /\ IdleReader.pc = "idle" /\ IdleReader.round = 0
      /\ IdleReader.leader = FALSE /\ IdleReader.need = 0 /\ IdleReader.result = "none"
  BY DEF IdleReader, ReaderType
<1>2. \A c \in Readers : reader[c] = IdleReader
  BY DEF Init
<1>3. Shape
  <2>1. occupied \in [Recorders -> SUBSET (1 .. MaxSlot)]
    BY DEF Init
  <2>2. reader \in [Readers -> ReaderType]
    BY <1>1 DEF Init
  <2>3. chosen = <<>> /\ rounds = <<>> /\ Len(<<>>) = 0 /\ sweep = 0 /\ applied = 0
    BY DEF Init
  <2>4. node \in [cancelled : BOOLEAN, active : BOOLEAN, contextFence : BOOLEAN]
    BY DEF Init
  <2>. QED  BY <2>1, <2>2, <2>3, <2>4 DEF Init, Shape
<1>4. Len(chosen) = 0 /\ Len(rounds) = 0 /\ applied = 0
  BY DEF Init
<1>5. DecidedInv /\ LedInv /\ RoundInv
  BY <1>4 DEF DecidedInv, LedInv, RoundInv
<1>6. CallsInv
  BY <1>1, <1>2, <1>4 DEF CallsInv, CallInv, Running
<1>7. OneLeader /\ FenceInv /\ BarrierInv /\ ReadInv
  BY <1>1, <1>2, <1>4 DEF OneLeader, FenceInv, BarrierInv, ReadInv
<1>. QED  BY <1>3, <1>5, <1>6, <1>7 DEF RInv

\* Steps of the rest of the cluster and of other threads of the node: records
\* and decisions are added, and the tip moves only while nobody owns the lock.
LEMMA Elsewhere ==
    ASSUME RInv, Shape', UNCHANGED <<rounds, lock, reader>>,
           \A r \in Recorders : occupied[r] \subseteq occupied'[r],
           Len(chosen) <= Len(chosen'), applied <= applied',
           applied' = applied \/ lock = "free",
           DecidedInv'
    PROVE  RInv'
<1>0. applied \in Nat /\ applied' \in Nat /\ Len(chosen) \in Nat /\ Len(chosen') \in Nat
  BY LenProperties DEF RInv, Shape
<1>00. /\ \A c \in Readers : reader[c].need \in Nat /\ reader[c].anchor \in Nat
       /\ \A i \in 1 .. Len(rounds) : rounds[i].anchor \in Nat
  BY Types DEF RInv
<1>1. CallsInv' /\ OneLeader' /\ LedInv'
  BY DEF RInv, CallsInv, CallInv, OneLeader, LedInv, Awaited
<1>2. FenceInv' /\ BarrierInv'
  <2>1. CASE applied' = applied
    <3>1. ASSUME NEW c \in Readers, NEW d \in Readers, reader[c].pc = "fence",
                 reader[d].round = reader[c].round, reader[d].need > applied
          PROVE  IsQuorum(Holders(applied + 1)' \ reader[c].empty)
      <4>1. IsQuorum(Holders(applied + 1) \ reader[c].empty)
        BY <3>1 DEF RInv, FenceInv
      <4>2. /\ Holders(applied + 1) \ reader[c].empty \subseteq Holders(applied + 1)' \ reader[c].empty
            /\ Holders(applied + 1)' \ reader[c].empty \subseteq Recorders
        BY <2>1 DEF Holders
      <4>. QED  BY <4>1, <4>2, QuorumGrows
    <3>2. FenceInv'
      BY <2>1, <3>1 DEF FenceInv
    <3>3. BarrierInv'
      BY <2>1 DEF RInv, BarrierInv
    <3>. QED  BY <3>2, <3>3
  <2>2. CASE lock = "free"
    <3>1. \A c \in Readers : reader[c].pc \notin Running
      BY <2>2, ReadAssumption DEF RInv, CallsInv, CallInv
    <3>. QED  BY <3>1 DEF FenceInv, BarrierInv, Running
  <2>. QED  BY <2>1, <2>2
<1>4. RoundInv'
  BY <1>0, <1>00 DEF RInv, RoundInv
<1>5. ReadInv'
  BY <1>0, <1>00 DEF RInv, ReadInv
<1>. QED  BY <1>1, <1>2, <1>4, <1>5 DEF RInv

\* A recorder stores a record.
LEMMA RecordInv ==
    ASSUME RInv, NEW r \in Recorders, NEW s \in 1 .. MaxSlot, Record(r, s)
    PROVE  RInv'
<1>1. /\ occupied' = [occupied EXCEPT ![r] = occupied[r] \cup {s}]
      /\ UNCHANGED <<chosen, applied, rounds, lock, reader, node, sweep>>
  BY DEF Record
<1>2. occupied' \in [Recorders -> SUBSET (1 .. MaxSlot)]
  BY <1>1 DEF RInv, Shape
<1>3. \A q \in Recorders : occupied[q] \subseteq occupied'[q]
  BY <1>1 DEF RInv, Shape
<1>4. Shape'
  BY <1>1, <1>2 DEF RInv, Shape
<1>5. DecidedInv'
  <2>. SUFFICES ASSUME NEW t \in 1 .. Len(chosen) PROVE IsQuorum(Holders(t))'
    BY <1>1 DEF DecidedInv
  <2>1. IsQuorum(Holders(t))
    BY DEF RInv, DecidedInv
  <2>2. Holders(t) \subseteq Holders(t)' /\ Holders(t)' \subseteq Recorders
    BY <1>3 DEF Holders
  <2>3. IsQuorum(Holders(t)')
    BY <2>1, <2>2, QuorumGrows
  <2>. QED  BY <2>3 DEF IsQuorum
<1>6. Len(chosen) <= Len(chosen') /\ applied <= applied'
  BY <1>1, Types DEF RInv
<1>. QED  BY <1>1, <1>3, <1>4, <1>5, <1>6, Elsewhere

\* Consensus decides the next slot.
LEMMA DecideInv ==
    ASSUME RInv, NEW kind \in Kinds, Decide(kind)
    PROVE  RInv'
<1>1. /\ IsQuorum(Holders(Len(chosen) + 1)) /\ chosen' = Append(chosen, kind)
      /\ UNCHANGED <<occupied, applied, rounds, lock, reader, node, sweep>>
  BY DEF Decide, Holders
<1>2. chosen \in Seq(Kinds) /\ Len(chosen) \in Nat /\ applied \in Nat /\ applied <= Len(chosen)
  BY Types DEF RInv, Shape
<1>3. chosen' \in Seq(Kinds) /\ Len(chosen') = Len(chosen) + 1
  BY <1>1, <1>2, AppendProperties
<1>4. Len(chosen) <= Len(chosen') /\ applied <= Len(chosen') /\ applied <= applied'
  BY <1>1, <1>2, <1>3
<1>5. Shape'
  BY <1>1, <1>3, <1>4 DEF RInv, Shape
<1>6. DecidedInv'
  <2>. SUFFICES ASSUME NEW t \in 1 .. Len(chosen') PROVE IsQuorum(Holders(t))
    BY <1>1 DEF DecidedInv, Holders, IsQuorum
  <2>1. t \in 1 .. Len(chosen) \/ t = Len(chosen) + 1
    BY <1>2, <1>3
  <2>. QED  BY <1>1, <2>1 DEF RInv, DecidedInv
<1>. QED  BY <1>1, <1>4, <1>5, <1>6, Elsewhere

\* persist_entry keeps the types and moves the tip by one.
LEMMA ApplyFacts ==
    ASSUME RInv, ApplyNext
    PROVE  /\ applied' = applied + 1 /\ applied' \in Nat /\ applied' <= Len(chosen)
           /\ node' \in [cancelled : BOOLEAN, active : BOOLEAN, contextFence : BOOLEAN]
<1>1. applied \in Nat /\ Len(chosen) \in Nat
  BY Types DEF RInv
<1>2. applied' = applied + 1 /\ applied < Len(chosen)
  BY DEF ApplyNext
<1>3. PICK b : b = (node.active /\ chosen[applied + 1] # "stop")
  OBVIOUS
<1>4. node.active \in BOOLEAN
  BY DEF RInv, Shape
<1>5. b \in BOOLEAN
  BY <1>3, <1>4, Zenon
<1>6. node' = [node EXCEPT !.active = b]
  BY <1>3, Zenon DEF ApplyNext
<1>7. node' \in [cancelled : BOOLEAN, active : BOOLEAN, contextFence : BOOLEAN]
  BY <1>5, <1>6 DEF RInv, Shape
<1>. QED  BY <1>1, <1>2, <1>7

\* Another thread applies the next entry.
LEMMA MaterializeInv ==
    ASSUME RInv, Materialize
    PROVE  RInv'
<1>1. /\ ApplyNext /\ lock = "free" /\ UNCHANGED <<occupied, chosen, rounds, lock, reader, sweep>>
  BY DEF Materialize
<1>2. /\ applied' = applied + 1 /\ applied' \in Nat /\ applied' <= Len(chosen)
      /\ node' \in [cancelled : BOOLEAN, active : BOOLEAN, contextFence : BOOLEAN]
  BY <1>1, ApplyFacts
<1>3. Shape'
  BY <1>1, <1>2 DEF RInv, Shape
<1>4. DecidedInv'
  BY <1>1 DEF RInv, DecidedInv, Holders, IsQuorum
<1>5. Len(chosen) <= Len(chosen') /\ applied <= applied'
  BY <1>1, <1>2, Types DEF RInv
<1>. QED  BY <1>1, <1>3, <1>4, <1>5, Elsewhere

\* cancel_operations, and stuttering.
LEMMA CancelInv ==
    ASSUME RInv, Cancel \/ UNCHANGED vars
    PROVE  RInv'
<1>1. UNCHANGED <<occupied, chosen, applied, rounds, lock, reader>>
  BY DEF Cancel, vars
<1>2. /\ node' \in [cancelled : BOOLEAN, active : BOOLEAN, contextFence : BOOLEAN]
      /\ sweep' \in Nat /\ sweep' <= Len(rounds)
  <2>1. CASE UNCHANGED vars
    BY <2>1 DEF RInv, Shape, vars
  <2>2. CASE Cancel
    <3>1. node' = [node EXCEPT !.cancelled = TRUE] /\ sweep' = Len(rounds)
      BY <2>2 DEF Cancel
    <3>2. node' \in [cancelled : BOOLEAN, active : BOOLEAN, contextFence : BOOLEAN]
      BY <3>1 DEF RInv, Shape
    <3>. QED  BY <3>1, <3>2, Types DEF RInv
  <2>. QED  BY <2>1, <2>2
<1>3. Shape'
  BY <1>1, <1>2 DEF RInv, Shape
<1>4. DecidedInv'
  BY <1>1 DEF RInv, DecidedInv, Holders, IsQuorum
<1>5. Len(chosen) <= Len(chosen') /\ applied <= applied'
  BY <1>1, Types DEF RInv
<1>. QED  BY <1>1, <1>3, <1>4, <1>5, Elsewhere

-----------------------------------------------------------------------------
(* Steps of one call that completes no round *)

\* Rounds that keep their phases and results.
SameRounds ==
    /\ rounds' \in Seq(RoundType) /\ Len(rounds') = Len(rounds)
    /\ \A i \in 1 .. Len(rounds) :
         /\ rounds'[i].phase = rounds[i].phase /\ rounds'[i].ok = rounds[i].ok
         /\ rounds'[i].anchor = rounds[i].anchor

\* A call moves within its round.
LEMMA MoveInv ==
    ASSUME RInv, NEW c \in Readers, NEW v \in ReaderType,
           reader' = [reader EXCEPT ![c] = v],
           v.round = reader[c].round, v.leader = reader[c].leader,
           v.need = reader[c].need, v.seen = reader[c].seen, v.result = reader[c].result,
           v.pc # "read",
           SameRounds, UNCHANGED <<occupied, chosen, applied, lock, node, sweep>>,
           CallInv(c)',
           v.pc = "fence" => \A d \in Readers :
             reader[d].round = v.round /\ reader[d].need > applied =>
               IsQuorum(Holders(applied + 1) \ v.empty),
           v.pc = "barrier" => \A d \in Readers :
             reader[d].round = v.round => reader[d].need <= applied
    PROVE  RInv'
<1>0. reader'[c] = v /\ \A d \in Readers \ {c} : reader'[d] = reader[d]
  BY DEF RInv, Shape
<1>1. \A d \in Readers : /\ reader'[d].round = reader[d].round /\ reader'[d].leader = reader[d].leader
                         /\ reader'[d].need = reader[d].need /\ reader'[d].seen = reader[d].seen
                         /\ reader'[d].result = reader[d].result
  BY <1>0
<1>2. Shape'
  BY DEF RInv, Shape, SameRounds
<1>3. DecidedInv'
  BY DEF RInv, DecidedInv, Holders, IsQuorum
<1>4. CallsInv'
  <2>. SUFFICES ASSUME NEW d \in Readers \ {c} PROVE CallInv(d)'
    BY DEF CallsInv
  <2>1. CallInv(d) /\ reader'[d] = reader[d]
    BY <1>0 DEF RInv, CallsInv
  <2>2. reader[d].round \in Nat /\ Len(rounds) \in Nat
    BY Types DEF RInv
  <2>. QED  BY <2>1, <2>2 DEF CallInv, Awaited, SameRounds
<1>5. OneLeader' /\ LedInv'
  BY <1>1 DEF RInv, OneLeader, LedInv, SameRounds
<1>6. FenceInv'
  <2>. SUFFICES ASSUME NEW e \in Readers, NEW d \in Readers, reader'[e].pc = "fence",
                       reader[d].round = reader[e].round, reader[d].need > applied
                PROVE  IsQuorum(Holders(applied + 1) \ reader'[e].empty)
    BY <1>1 DEF FenceInv, Holders
  <2>1. CASE e = c
    BY <1>0, <2>1
  <2>2. CASE e # c
    BY <1>0, <2>2 DEF RInv, FenceInv
  <2>. QED  BY <2>1, <2>2
<1>7. BarrierInv'
  BY <1>0, <1>1 DEF RInv, BarrierInv
<1>8. RoundInv'
  BY <1>1 DEF RInv, RoundInv, SameRounds
<1>9. ReadInv'
  BY <1>0, <1>1 DEF RInv, ReadInv
<1>. QED  BY <1>2, <1>3, <1>4, <1>5, <1>6, <1>7, <1>8, <1>9 DEF RInv

\* A call that leads no round leaves its round, with an anchor or a result.
LEMMA LeaveInv ==
    ASSUME RInv, NEW c \in Readers, ~reader[c].leader, NEW v \in ReaderType,
           reader' = [reader EXCEPT ![c] = v],
           v.round = 0, ~v.leader, v.pc \in {"read", "done"}, v.need <= Len(chosen),
           v.pc = "read" => v.need <= v.anchor /\ v.anchor <= applied,
           v.result = "ok" => v.seen >= v.need,
           UNCHANGED <<occupied, chosen, applied, rounds, lock, node, sweep>>
    PROVE  RInv'
<1>0. reader'[c] = v /\ \A d \in Readers \ {c} : reader'[d] = reader[d]
  BY DEF RInv, Shape
<1>1. Shape'
  BY DEF RInv, Shape
<1>2. DecidedInv'
  BY DEF RInv, DecidedInv, Holders, IsQuorum
<1>3. CallsInv'
  <2>1. ASSUME NEW d \in Readers \ {c} PROVE CallInv(d)'
    <3>1. CallInv(d) /\ reader'[d] = reader[d]
      BY <1>0 DEF RInv, CallsInv
    <3>. QED  BY <3>1 DEF CallInv, Awaited
  <2>2. CallInv(c)'
    BY <1>0, Types DEF RInv, CallInv, Running
  <2>. QED  BY <2>1, <2>2 DEF CallsInv
<1>4. OneLeader'
  BY <1>0 DEF RInv, OneLeader
<1>5. LedInv'
  BY <1>0 DEF RInv, LedInv
<1>6. \A d \in Readers : reader[d].pc \in Running => reader[d].round >= 1
  BY DEF RInv, CallsInv, CallInv
<1>7. FenceInv'
  <2>. SUFFICES ASSUME NEW e \in Readers, NEW d \in Readers, reader'[e].pc = "fence",
                       reader'[d].round = reader'[e].round, reader'[d].need > applied
                PROVE  IsQuorum(Holders(applied + 1) \ reader'[e].empty)
    BY DEF FenceInv, Holders
  <2>1. e # c /\ d # c
    BY <1>0, <1>6 DEF Running
  <2>. QED  BY <1>0, <2>1 DEF RInv, FenceInv
<1>8. BarrierInv'
  BY <1>0, <1>6 DEF RInv, BarrierInv, Running
<1>9. RoundInv'
  BY <1>0 DEF RInv, RoundInv
<1>10. ReadInv'
  BY <1>0 DEF RInv, ReadInv
<1>. QED  BY <1>1, <1>2, <1>3, <1>4, <1>5, <1>7, <1>8, <1>9, <1>10 DEF RInv

\* A call that changes only where it is.
LEMMA GotoFacts ==
    ASSUME RInv, NEW c \in Readers, NEW x, Goto(c, x),
           x \in {"idle", "wait", "read", "done"} \cup Collecting \cup Running
    PROVE  \E v \in ReaderType :
             /\ reader' = [reader EXCEPT ![c] = v] /\ reader'[c] = v
             /\ v.pc = x /\ v.round = reader[c].round /\ v.leader = reader[c].leader
             /\ v.need = reader[c].need /\ v.seen = reader[c].seen
             /\ v.result = reader[c].result /\ v.empty = reader[c].empty
<1>1. PICK v : v = [reader[c] EXCEPT !.pc = x]
  OBVIOUS
<1>2. reader' = [reader EXCEPT ![c] = v]
  BY <1>1, Zenon DEF Goto
<1>3. reader'[c] = v
  BY <1>2 DEF RInv, Shape
<1>4. reader[c] \in ReaderType
  BY Types DEF RInv
<1>5. /\ v \in ReaderType
      /\ v.pc = x /\ v.round = reader[c].round /\ v.leader = reader[c].leader
      /\ v.need = reader[c].need /\ v.seen = reader[c].seen
      /\ v.result = reader[c].result /\ v.empty = reader[c].empty
  BY <1>1, <1>4 DEF ReaderType
<1>. QED  BY <1>2, <1>3, <1>5

\* Unchanged rounds.
LEMMA NoRounds == ASSUME RInv, UNCHANGED rounds PROVE SameRounds
BY DEF RInv, Shape, SameRounds

\* wait_complete and wait_turn go to sleep.
LEMMA SleepInv ==
    ASSUME RInv, NEW c \in Readers, Sleep(c)
    PROVE  RInv'
<1>1. /\ reader[c].pc \in {"turn", "wait"} /\ ~Complete(Awaited(c)) /\ Goto(c, "asleep")
      /\ UNCHANGED <<occupied, chosen, applied, rounds, lock, node, sweep>>
  BY DEF Sleep
<1>2. PICK v \in ReaderType :
        /\ reader' = [reader EXCEPT ![c] = v] /\ reader'[c] = v
        /\ v.pc = "asleep" /\ v.round = reader[c].round /\ v.leader = reader[c].leader
        /\ v.need = reader[c].need /\ v.seen = reader[c].seen
        /\ v.result = reader[c].result /\ v.empty = reader[c].empty
  BY <1>1, GotoFacts DEF Collecting
<1>3. Awaited(c) > 0 /\ rounds[Awaited(c)].phase # "complete"
  BY <1>1 DEF Complete
<1>4. CallInv(c)
  BY DEF RInv, CallsInv
<1>5. reader[c].round \in Nat /\ Len(rounds) \in Nat /\ reader[c].leader \in BOOLEAN
  BY Types DEF RInv
<1>6. Awaited(c)' = Awaited(c) /\ Awaited(c) \in Int
  BY <1>2, <1>5 DEF Awaited
<1>7. CallInv(c)'
  BY <1>1, <1>2, <1>3, <1>4, <1>5, <1>6 DEF CallInv, Collecting, Running
<1>8. SameRounds
  BY <1>1, NoRounds
<1>. QED  BY <1>1, <1>2, <1>7, <1>8, MoveInv

\* One round changes.
LEMMA RoundChanges ==
    ASSUME NEW s \in Seq(RoundType), NEW i \in 1 .. Len(s), NEW w \in RoundType,
           NEW t, t = [s EXCEPT ![i] = w]
    PROVE  /\ t \in Seq(RoundType) /\ Len(t) = Len(s)
           /\ \A j \in 1 .. Len(s) : t[j] = IF j = i THEN w ELSE s[j]
<1>. DEFINE S == RoundType
<1>1. w \in S /\ s \in Seq(S)
  OBVIOUS
<1>. HIDE DEF S
<1>2. t \in Seq(S) /\ Len(t) = Len(s)
  BY <1>1, ExceptSeq
<1>3. DOMAIN s = 1 .. Len(s)
  BY <1>1, LenProperties
<1>. QED  BY <1>2, <1>3 DEF S

\* The collection window of a leader ends.
LEMMA TurnInv ==
    ASSUME RInv, NEW c \in Readers, At(c, "turn"),
           rounds' = [rounds EXCEPT ![reader[c].round].predecessor = FALSE],
           Goto(c, "lock"), UNCHANGED <<occupied, chosen, applied, lock, node, sweep>>
    PROVE  RInv'
<1>2. PICK v \in ReaderType :
        /\ reader' = [reader EXCEPT ![c] = v] /\ reader'[c] = v
        /\ v.pc = "lock" /\ v.round = reader[c].round /\ v.leader = reader[c].leader
        /\ v.need = reader[c].need /\ v.seen = reader[c].seen
        /\ v.result = reader[c].result /\ v.empty = reader[c].empty
  BY GotoFacts DEF Collecting
<1>3. CallInv(c) /\ reader[c].pc = "turn"
  BY DEF RInv, CallsInv, At
<1>4. /\ reader[c].leader /\ reader[c].round \in 1 .. Len(rounds)
      /\ rounds[reader[c].round].phase = "collecting"
  BY <1>3, Types DEF RInv, CallInv, Collecting
<1>5. PICK i : i = reader[c].round
  OBVIOUS
<1>6. PICK w : w = [rounds[i] EXCEPT !.predecessor = FALSE]
  OBVIOUS
<1>7. rounds[i] \in RoundType /\ i \in 1 .. Len(rounds) /\ rounds \in Seq(RoundType)
  BY <1>4, <1>5, Types DEF RInv, Shape
<1>8. /\ w \in RoundType /\ w.phase = rounds[i].phase /\ w.ok = rounds[i].ok
      /\ w.anchor = rounds[i].anchor
  BY <1>6, <1>7 DEF RoundType
<1>9. rounds' = [rounds EXCEPT ![i] = w]
  BY <1>5, <1>6, Zenon
<1>10. /\ rounds' \in Seq(RoundType) /\ Len(rounds') = Len(rounds)
       /\ \A j \in 1 .. Len(rounds) : rounds'[j] = IF j = i THEN w ELSE rounds[j]
  <2>1. PICK t : t = rounds'
    OBVIOUS
  <2>2. t = [rounds EXCEPT ![i] = w]
    BY <1>9, <2>1
  <2>3. /\ t \in Seq(RoundType) /\ Len(t) = Len(rounds)
        /\ \A j \in 1 .. Len(rounds) : t[j] = IF j = i THEN w ELSE rounds[j]
    BY <1>7, <1>8, <2>2, RoundChanges
  <2>. QED  BY <2>1, <2>3
<1>11. SameRounds
  BY <1>8, <1>10 DEF SameRounds
<1>12. CallInv(c)'
  BY <1>2, <1>3, <1>4, <1>11 DEF CallInv, Collecting, Running, SameRounds
<1>. QED  BY <1>2, <1>11, <1>12, MoveInv

\* An observation of a recorder: one that has no record for the slot is not
\* among its holders.
LEMMA ObserveInv ==
    ASSUME RInv, NEW c \in Readers, NEW r \in Recorders, Observe(c, r)
    PROVE  RInv'
<1>0. /\ reader[c].pc = "fence" /\ UNCHANGED <<occupied, chosen, applied, rounds, lock, node, sweep>>
  BY DEF Observe, At
<1>1. reader[c] \in ReaderType /\ CallInv(c) /\ SameRounds
  BY <1>0, Types, NoRounds DEF RInv, CallsInv
<1>2. ASSUME NEW v \in ReaderType, reader' = [reader EXCEPT ![c] = v],
             v.pc = "fence", v.round = reader[c].round, v.leader = reader[c].leader,
             v.need = reader[c].need, v.seen = reader[c].seen, v.result = reader[c].result,
             Holders(applied + 1) \ v.empty = Holders(applied + 1) \ reader[c].empty
      PROVE  RInv'
  <2>1. reader'[c] = v
    BY <1>2 DEF RInv, Shape
  <2>2. CallInv(c)'
    BY <1>0, <1>1, <1>2, <2>1 DEF CallInv, Awaited
  <2>3. \A d \in Readers : reader[d].round = v.round /\ reader[d].need > applied =>
               IsQuorum(Holders(applied + 1) \ v.empty)
    BY <1>0, <1>2 DEF RInv, FenceInv
  <2>. QED  BY <1>0, <1>1, <1>2, <2>2, <2>3, MoveInv
<1>3. CASE FenceEmpty(r) /\ reader' = [reader EXCEPT ![c].empty = @ \cup {r}]
  <2>1. PICK v : v = [reader[c] EXCEPT !.empty = reader[c].empty \cup {r}]
    OBVIOUS
  <2>2. reader' = [reader EXCEPT ![c] = v]
    BY <1>3, <2>1, Zenon
  <2>3. /\ v \in ReaderType /\ v.pc = "fence" /\ v.round = reader[c].round
        /\ v.leader = reader[c].leader /\ v.need = reader[c].need
        /\ v.seen = reader[c].seen /\ v.result = reader[c].result
        /\ v.empty = reader[c].empty \cup {r}
    BY <1>0, <1>1, <2>1 DEF ReaderType
  <2>4. r \notin Holders(applied + 1)
    BY <1>3 DEF FenceEmpty, NextSlot, Holders
  <2>. QED  BY <1>2, <2>2, <2>3, <2>4
<1>4. CASE reader' = [reader EXCEPT ![c].busy = @ \cup {r}]
  <2>1. PICK v : v = [reader[c] EXCEPT !.busy = reader[c].busy \cup {r}]
    OBVIOUS
  <2>2. reader' = [reader EXCEPT ![c] = v]
    BY <1>4, <2>1, Zenon
  <2>3. /\ v \in ReaderType /\ v.pc = "fence" /\ v.round = reader[c].round
        /\ v.leader = reader[c].leader /\ v.need = reader[c].need
        /\ v.seen = reader[c].seen /\ v.result = reader[c].result
        /\ v.empty = reader[c].empty
    BY <1>0, <1>1, <2>1 DEF ReaderType
  <2>. QED  BY <1>2, <2>2, <2>3
<1>. QED  BY <1>3, <1>4 DEF Observe

\* A quorum that found the slot after the tip empty: nobody in the round needs it.
LEMMA EmptyQuorum ==
    ASSUME RInv, NEW c \in Readers, reader[c].pc = "fence", IsQuorum(reader[c].empty),
           NEW d \in Readers, reader[d].round = reader[c].round
    PROVE  reader[d].need <= applied
<1>. SUFFICES ASSUME reader[d].need > applied PROVE FALSE
  BY Types DEF RInv
<1>1. IsQuorum(Holders(applied + 1) \ reader[c].empty)
  BY DEF RInv, FenceInv
<1>2. /\ reader[c].empty \subseteq Recorders /\ Holders(applied + 1) \ reader[c].empty \subseteq Recorders
      /\ reader[c].empty \cap (Holders(applied + 1) \ reader[c].empty) = {}
  BY Types DEF RInv, Holders
<1>. QED  BY <1>1, <1>2, QuorumsMeet

\* A ReadBarrier is proposed.
LEMMA ProposeInv ==
    ASSUME RInv, NEW c \in Readers, ProposeBarrier(c)
    PROVE  RInv'
<1>0. /\ reader[c].pc = "fence" /\ UNCHANGED <<occupied, chosen, applied, rounds, lock, node, sweep>>
      /\ IsQuorum(reader[c].empty \cup reader[c].busy)
  BY DEF ProposeBarrier, At, Heard
<1>1. PICK x : x = IF ~node.contextFence /\ reader[c].busy = {} THEN "barrier" ELSE "settle"
  OBVIOUS
<1>2. PICK v : v = [reader[c] EXCEPT !.pc = x, !.empty = {}, !.busy = {}]
  OBVIOUS
<1>3. reader' = [reader EXCEPT ![c] = v]
  BY <1>1, <1>2, Zenon DEF ProposeBarrier, Again
<1>4. reader[c] \in ReaderType /\ CallInv(c) /\ SameRounds
  BY <1>0, Types, NoRounds DEF RInv, CallsInv
<1>5. x \in {"barrier", "settle"}
  BY <1>1
<1>6. /\ v \in ReaderType /\ v.pc = x /\ v.round = reader[c].round
      /\ v.leader = reader[c].leader /\ v.need = reader[c].need
      /\ v.seen = reader[c].seen /\ v.result = reader[c].result
  BY <1>2, <1>4, <1>5 DEF ReaderType, Running
<1>7. reader'[c] = v
  BY <1>3 DEF RInv, Shape
<1>8. CallInv(c)'
  BY <1>0, <1>4, <1>5, <1>6, <1>7 DEF CallInv, Running, Collecting
<1>9. v.pc = "barrier" => \A d \in Readers : reader[d].round = v.round => reader[d].need <= applied
  <2>. SUFFICES ASSUME v.pc = "barrier", NEW d \in Readers, reader[d].round = v.round
                PROVE  reader[d].need <= applied
    OBVIOUS
  <2>1. reader[c].busy = {}
    BY <1>1, <1>6
  <2>2. reader[c].empty \cup reader[c].busy = reader[c].empty
    BY <2>1
  <2>. QED  BY <1>0, <1>6, <2>2, EmptyQuorum
<1>. QED  BY <1>0, <1>3, <1>4, <1>5, <1>6, <1>8, <1>9, MoveInv

\* What establish_read_barrier returns.
LEMMA OutcomeFacts ==
    ASSUME NEW call \in ReaderType, NEW ok \in BOOLEAN, NEW anchor \in Nat,
           NEW v, v = Outcome(call, ok, anchor)
    PROVE  /\ v \in ReaderType /\ v.round = 0 /\ ~v.leader
           /\ ok => v.pc = "read" /\ v.need = call.need /\ v.anchor = anchor
           /\ ~ok => v.pc = "done" /\ v.need = 0
           /\ v.result \in {"none", "error"}
<1>1. CASE ok
  BY <1>1 DEF Outcome, IdleReader, ReaderType
<1>2. CASE ~ok
  BY <1>2 DEF Outcome, IdleReader, ReaderType
<1>. QED  BY <1>1, <1>2

\* A call that leads no round returns an error.
LEMMA ErrorInv ==
    ASSUME RInv, NEW c \in Readers, ~reader[c].leader,
           reader' = [reader EXCEPT ![c] = Outcome(@, FALSE, 0)],
           UNCHANGED <<occupied, chosen, applied, rounds, lock, node, sweep>>
    PROVE  RInv'
<1>1. PICK v : v = Outcome(reader[c], FALSE, 0)
  OBVIOUS
<1>2. reader' = [reader EXCEPT ![c] = v]
  BY <1>1
<1>3. reader[c] \in ReaderType /\ Len(chosen) \in Nat
  BY Types DEF RInv
<1>4. /\ v \in ReaderType /\ v.round = 0 /\ ~v.leader /\ v.pc = "done" /\ v.need = 0
      /\ v.result # "ok"
  <2>1. PICK ok \in BOOLEAN : ok = FALSE
    OBVIOUS
  <2>2. v = Outcome(reader[c], ok, 0) /\ 0 \in Nat
    BY <1>1, <2>1
  <2>3. /\ v \in ReaderType /\ v.round = 0 /\ ~v.leader
        /\ ~ok => v.pc = "done" /\ v.need = 0
        /\ v.result \in {"none", "error"}
    BY <1>3, <2>2, OutcomeFacts
  <2>. QED  BY <2>1, <2>3
<1>5. v.need <= Len(chosen)
  BY <1>3, <1>4
<1>. QED  BY <1>2, <1>4, <1>5, LeaveInv

\* A follower takes the result of its round.
LEMMA FollowInv ==
    ASSUME RInv, NEW c \in Readers, Follow(c)
    PROVE  RInv'
<1>0. /\ reader[c].pc = "wait" /\ UNCHANGED <<occupied, chosen, applied, rounds, lock, node, sweep>>
  BY DEF Follow, At
<1>1. PICK i : i = reader[c].round
  OBVIOUS
<1>2. PICK v : v = Outcome(reader[c], rounds[i].ok, rounds[i].anchor)
  OBVIOUS
<1>3. reader' = [reader EXCEPT ![c] = v]
  BY <1>1, <1>2 DEF Follow
<1>4. ~reader[c].leader /\ i \in 1 .. Len(rounds)
  BY <1>0, <1>1, Types DEF RInv, CallsInv, CallInv
<1>5. /\ reader[c] \in ReaderType /\ rounds[i].ok \in BOOLEAN /\ rounds[i].anchor \in Nat
      /\ Len(chosen) \in Nat
  BY <1>4, Types DEF RInv
<1>6. /\ v \in ReaderType /\ v.round = 0 /\ ~v.leader
      /\ rounds[i].ok => v.pc = "read" /\ v.need = reader[c].need /\ v.anchor = rounds[i].anchor
      /\ ~rounds[i].ok => v.pc = "done" /\ v.need = 0
      /\ v.result \in {"none", "error"}
  BY <1>2, <1>5, OutcomeFacts
<1>7. rounds[i].ok => reader[c].need <= rounds[i].anchor /\ rounds[i].anchor <= applied
  BY <1>1, <1>4 DEF RInv, RoundInv
<1>8. reader[c].need <= Len(chosen)
  BY DEF RInv, ReadInv
<1>9. /\ v.pc \in {"read", "done"} /\ v.need <= Len(chosen)
      /\ v.pc = "read" => v.need <= v.anchor /\ v.anchor <= applied
      /\ v.result # "ok"
  BY <1>5, <1>6, <1>7, <1>8
<1>. QED  BY <1>0, <1>3, <1>4, <1>6, <1>9, LeaveInv

\* The read.
LEMMA ReadStepInv ==
    ASSUME RInv, NEW c \in Readers, Read(c)
    PROVE  RInv'
<1>0. /\ reader[c].pc = "read" /\ UNCHANGED <<occupied, chosen, applied, rounds, lock, node, sweep>>
  BY DEF Read, At
<1>1. ~reader[c].leader
  BY <1>0 DEF RInv, CallsInv, CallInv, Collecting, Running
<1>2. CASE reader' = [reader EXCEPT ![c] = Outcome(@, FALSE, 0)]
  BY <1>0, <1>1, <1>2, ErrorInv
<1>3. CASE reader' = [reader EXCEPT ![c] =
             [IdleReader EXCEPT !.pc = "done", !.need = reader[c].need, !.seen = applied,
                                !.result = "ok"]]
  <2>1. PICK v : v = [IdleReader EXCEPT !.pc = "done", !.need = reader[c].need,
                                        !.seen = applied, !.result = "ok"]
    OBVIOUS
  <2>2. reader' = [reader EXCEPT ![c] = v]
    BY <1>3, <2>1
  <2>3. reader[c].need \in Nat /\ reader[c].anchor \in Nat /\ applied \in Nat
    BY Types DEF RInv
  <2>4. /\ v \in ReaderType /\ v.round = 0 /\ ~v.leader /\ v.pc = "done"
        /\ v.need = reader[c].need /\ v.seen = applied
    BY <2>1, <2>3 DEF IdleReader, ReaderType
  <2>5. reader[c].need <= applied /\ reader[c].need <= Len(chosen)
    BY <1>0, <2>3 DEF RInv, ReadInv
  <2>6. v.need <= Len(chosen) /\ v.seen >= v.need
    BY <2>3, <2>4, <2>5
  <2>. QED  BY <1>0, <1>1, <2>2, <2>4, <2>6, LeaveInv
<1>. QED  BY <1>2, <1>3 DEF Read

-----------------------------------------------------------------------------
(* Steps that wake sleepers *)

\* What the wake of round i leaves of a call.
Woke(f, g, i) ==
    /\ g \in [Readers -> ReaderType]
    /\ \A d \in Readers :
         /\ g[d].round = f[d].round /\ g[d].leader = f[d].leader
         /\ g[d].need = f[d].need /\ g[d].anchor = f[d].anchor /\ g[d].empty = f[d].empty
         /\ g[d].seen = f[d].seen /\ g[d].result = f[d].result
         /\ g[d].pc # f[d].pc => f[d].pc = "asleep" /\ g[d].pc = IF f[d].leader THEN "turn" ELSE "wait"
         /\ (f[d].pc = "asleep" /\ (IF f[d].leader THEN f[d].round - 1 ELSE f[d].round) = i)
              => g[d].pc # "asleep"

\* notify_all.
LEMMA WokenFacts ==
    ASSUME NEW f \in [Readers -> ReaderType], NEW i, NEW g, g = Woken(f, i)
    PROVE  Woke(f, g, i)
<1>1. ASSUME NEW d \in Readers
      PROVE  /\ g[d] \in ReaderType
             /\ g[d].round = f[d].round /\ g[d].leader = f[d].leader
             /\ g[d].need = f[d].need /\ g[d].anchor = f[d].anchor /\ g[d].empty = f[d].empty
             /\ g[d].seen = f[d].seen /\ g[d].result = f[d].result
             /\ g[d].pc # f[d].pc => f[d].pc = "asleep" /\ g[d].pc = IF f[d].leader THEN "turn" ELSE "wait"
             /\ (f[d].pc = "asleep" /\ (IF f[d].leader THEN f[d].round - 1 ELSE f[d].round) = i)
                  => g[d].pc # "asleep"
  <2>0. f[d] \in ReaderType
    OBVIOUS
  <2>1. CASE f[d].pc = "asleep" /\ (IF f[d].leader THEN f[d].round - 1 ELSE f[d].round) = i
    <3>1. PICK x : x = IF f[d].leader THEN "turn" ELSE "wait"
      OBVIOUS
    <3>2. g[d] = [f[d] EXCEPT !.pc = x] /\ x \in {"turn", "wait"}
      BY <2>1, <3>1 DEF Woken
    <3>3. /\ g[d] \in ReaderType /\ g[d].pc = x
          /\ g[d].round = f[d].round /\ g[d].leader = f[d].leader
          /\ g[d].need = f[d].need /\ g[d].anchor = f[d].anchor /\ g[d].empty = f[d].empty
          /\ g[d].seen = f[d].seen /\ g[d].result = f[d].result
      BY <2>0, <3>2 DEF ReaderType, Collecting
    <3>. QED  BY <2>1, <3>1, <3>2, <3>3
  <2>2. CASE ~(f[d].pc = "asleep" /\ (IF f[d].leader THEN f[d].round - 1 ELSE f[d].round) = i)
    <3>1. g[d] = f[d]
      BY <2>2 DEF Woken
    <3>. QED  BY <2>0, <2>2, <3>1
  <2>. QED  BY <2>1, <2>2
<1>2. g = [d \in Readers |-> g[d]]
  BY DEF Woken
<1>3. g \in [Readers -> ReaderType]
  BY <1>1, <1>2
<1>. QED  BY <1>1, <1>3 DEF Woke

\* A call that is woken, or not touched, keeps its place in rounds that keep
\* their phases, the round it sleeps on apart.
LEMMA WokeCall ==
    ASSUME RInv, NEW d \in Readers, NEW i,
           reader'[d].round = reader[d].round, reader'[d].leader = reader[d].leader,
           reader'[d].pc # reader[d].pc =>
             reader[d].pc = "asleep" /\ reader'[d].pc = IF reader[d].leader THEN "turn" ELSE "wait",
           reader[d].pc = "asleep" /\ Awaited(d) = i => reader'[d].pc # "asleep",
           Len(rounds') = Len(rounds),
           \A j \in 1 .. Len(rounds) : j # i => rounds'[j].phase = rounds[j].phase,
           reader[d].leader /\ reader[d].round = i => rounds'[i].phase = rounds[i].phase,
           reader[d].pc \in Running => lock' = d
    PROVE  CallInv(d)'
<1>0. CallInv(d) /\ reader[d].round \in Nat /\ Len(rounds) \in Nat /\ reader[d].leader \in BOOLEAN
  BY Types DEF RInv, CallsInv
<1>1. Awaited(d)' = Awaited(d)
  BY DEF Awaited
<1>2. reader[d].leader => reader[d].round \in 1 .. Len(rounds)
  BY <1>0 DEF CallInv
<1>3. reader[d].leader => rounds'[reader[d].round].phase = rounds[reader[d].round].phase
  BY <1>2
<1>4. CASE reader'[d].pc = "asleep"
  <2>1. reader[d].pc = "asleep" /\ Awaited(d) # i
    BY <1>4
  <2>2. Awaited(d) \in 1 .. Len(rounds)
    BY <1>0, <2>1 DEF CallInv, Awaited
  <2>3. rounds'[Awaited(d)].phase = rounds[Awaited(d)].phase
    BY <2>1, <2>2
  <2>. QED  BY <1>0, <1>1, <1>2, <1>3, <1>4, <2>1, <2>2, <2>3 DEF CallInv, Collecting, Running
<1>5. CASE reader'[d].pc # "asleep" /\ reader'[d].pc # reader[d].pc
  <2>1. reader[d].pc = "asleep" /\ reader'[d].pc = IF reader[d].leader THEN "turn" ELSE "wait"
    BY <1>5
  <2>2. CASE reader[d].leader
    BY <1>0, <1>2, <1>3, <2>1, <2>2 DEF CallInv, Collecting, Running
  <2>3. CASE ~reader[d].leader
    BY <1>0, <2>1, <2>3 DEF CallInv, Collecting, Running
  <2>. QED  BY <2>2, <2>3
<1>6. CASE reader'[d].pc # "asleep" /\ reader'[d].pc = reader[d].pc
  BY <1>0, <1>2, <1>3, <1>6 DEF CallInv, Collecting, Running
<1>. QED  BY <1>4, <1>5, <1>6

\* The sweep of a shutdown.
LEMMA SweepInv ==
    ASSUME RInv, Sweep
    PROVE  RInv'
<1>0. /\ sweep > 0 /\ reader' = Woken(reader, sweep)
      /\ UNCHANGED <<occupied, chosen, applied, rounds, lock, node>>
  BY DEF Sweep
<1>1. reader \in [Readers -> ReaderType] /\ sweep \in Nat /\ Len(rounds) \in Nat /\ sweep <= Len(rounds)
  BY Types DEF RInv, Shape
<1>2. PICK g : g = Woken(reader, sweep)
  OBVIOUS
<1>3. Woke(reader, g, sweep) /\ reader' = g
  BY <1>0, <1>1, <1>2, WokenFacts
<1>4. \A d \in Readers :
        /\ reader'[d].round = reader[d].round /\ reader'[d].leader = reader[d].leader
        /\ reader'[d].need = reader[d].need /\ reader'[d].anchor = reader[d].anchor
        /\ reader'[d].empty = reader[d].empty
        /\ reader'[d].seen = reader[d].seen /\ reader'[d].result = reader[d].result
        /\ reader'[d].pc # reader[d].pc =>
             reader[d].pc = "asleep" /\ reader'[d].pc = IF reader[d].leader THEN "turn" ELSE "wait"
  BY <1>3 DEF Woke
<1>5. sweep' \in Nat /\ sweep' <= Len(rounds)
  BY <1>0, <1>1 DEF Sweep
<1>6. Shape'
  BY <1>0, <1>3, <1>5 DEF RInv, Shape, Woke
<1>7. DecidedInv'
  BY <1>0 DEF RInv, DecidedInv, Holders, IsQuorum
<1>8. CallsInv'
  <2>. SUFFICES ASSUME NEW d \in Readers PROVE CallInv(d)'
    BY DEF CallsInv
  <2>1. PICK i : i = 0
    OBVIOUS
  <2>2. reader[d].pc = "asleep" => Awaited(d) # i
    BY <2>1 DEF RInv, CallsInv, CallInv
  <2>3. reader[d].pc \in Running => lock = d
    BY DEF RInv, CallsInv, CallInv
  <2>. QED  BY <1>0, <1>4, <2>2, <2>3, WokeCall
<1>9. OneLeader' /\ LedInv'
  BY <1>0, <1>4 DEF RInv, OneLeader, LedInv
<1>10. \A d \in Readers : reader'[d].pc \in {"fence", "barrier", "read"} => reader'[d].pc = reader[d].pc
  BY <1>4
<1>11. FenceInv'
  <2>. SUFFICES ASSUME NEW c \in Readers, NEW d \in Readers, reader[c].pc = "fence",
                       reader[d].round = reader[c].round, reader[d].need > applied
                PROVE  IsQuorum(Holders(applied + 1) \ reader[c].empty)
    BY <1>0, <1>4, <1>10 DEF FenceInv, Holders
  <2>. QED  BY DEF RInv, FenceInv
<1>12. BarrierInv'
  BY <1>0, <1>4, <1>10 DEF RInv, BarrierInv
<1>13. RoundInv'
  BY <1>0, <1>4 DEF RInv, RoundInv
<1>14. ReadInv'
  BY <1>0, <1>4, <1>10 DEF RInv, ReadInv
<1>. QED  BY <1>6, <1>7, <1>8, <1>9, <1>11, <1>12, <1>13, <1>14 DEF RInv

\* publish: the leader's round completes.  If it succeeds its anchor is applied
\* and covers what its calls need.
LEMMA PublishInv ==
    ASSUME RInv, NEW c \in Readers, reader[c].leader,
           NEW ok \in BOOLEAN, NEW anchor \in Nat, Publish(c, ok, anchor),
           UNCHANGED <<occupied, chosen, sweep>>,
           applied' \in Nat, applied <= applied', applied' <= Len(chosen),
           node' \in [cancelled : BOOLEAN, active : BOOLEAN, contextFence : BOOLEAN],
           lock' \in Readers \cup {"free"},
           \A d \in Readers \ {c} : reader[d].pc \in Running => lock' = d /\ applied' = applied,
           ok => anchor <= applied',
           ok => \A d \in Readers : reader[d].round = reader[c].round => reader[d].need <= anchor
    PROVE  RInv'
<1>1. PICK i : i = reader[c].round
  OBVIOUS
<1>2. PICK v : v = Outcome(reader[c], ok, anchor)
  OBVIOUS
<1>3. PICK f : f = [reader EXCEPT ![c] = v]
  OBVIOUS
<1>4. PICK w : w = [rounds[i] EXCEPT !.phase = "complete", !.ok = ok, !.anchor = anchor]
  OBVIOUS
<1>5. reader' = Woken(f, i) /\ rounds' = [rounds EXCEPT ![i] = w]
  BY <1>1, <1>2, <1>3, <1>4, Zenon DEF Publish
<1>6. /\ reader \in [Readers -> ReaderType] /\ reader[c] \in ReaderType /\ rounds \in Seq(RoundType)
      /\ applied \in Nat /\ Len(chosen) \in Nat
  BY Types DEF RInv, Shape
<1>7. i \in 1 .. Len(rounds) /\ i \in Nat /\ i >= 1
  BY <1>1, Types DEF RInv, CallsInv, CallInv
<1>8. rounds[i] \in RoundType
  BY <1>7, Types DEF RInv
<1>9. w \in RoundType /\ w.phase = "complete" /\ w.ok = ok /\ w.anchor = anchor
  BY <1>4, <1>8 DEF RoundType
<1>10. /\ v \in ReaderType /\ v.round = 0 /\ ~v.leader
       /\ ok => v.pc = "read" /\ v.need = reader[c].need /\ v.anchor = anchor
       /\ ~ok => v.pc = "done" /\ v.need = 0
       /\ v.result \in {"none", "error"}
  <2>1. reader[c] \in ReaderType /\ ok \in BOOLEAN /\ anchor \in Nat
    BY <1>6
  <2>. QED  BY ONLY <1>2, <2>1, OutcomeFacts
<1>11. /\ rounds' \in Seq(RoundType) /\ Len(rounds') = Len(rounds)
       /\ \A j \in 1 .. Len(rounds) : rounds'[j] = IF j = i THEN w ELSE rounds[j]
  <2>1. PICK t : t = rounds'
    OBVIOUS
  <2>2. t = [rounds EXCEPT ![i] = w]
    BY <1>5, <2>1
  <2>3. /\ t \in Seq(RoundType) /\ Len(t) = Len(rounds)
        /\ \A j \in 1 .. Len(rounds) : t[j] = IF j = i THEN w ELSE rounds[j]
    BY <1>6, <1>7, <1>9, <2>2, RoundChanges
  <2>. QED  BY <2>1, <2>3
<1>12. f \in [Readers -> ReaderType] /\ f[c] = v /\ \A d \in Readers \ {c} : f[d] = reader[d]
  BY <1>3, <1>6, <1>10
<1>13. PICK g : g = Woken(f, i)
  OBVIOUS
<1>14. Woke(f, g, i) /\ reader' = g
  BY <1>5, <1>12, <1>13, WokenFacts
<1>15. /\ reader' \in [Readers -> ReaderType]
       /\ reader'[c].round = 0 /\ ~reader'[c].leader /\ reader'[c].pc \in {"read", "done"}
       /\ ok => reader'[c].need = reader[c].need /\ reader'[c].anchor = anchor
       /\ ~ok => reader'[c].pc = "done" /\ reader'[c].need = 0
       /\ reader'[c].result # "ok"
  <2>1. /\ g \in [Readers -> ReaderType] /\ g[c].round = v.round /\ g[c].leader = v.leader
        /\ g[c].need = v.need /\ g[c].anchor = v.anchor /\ g[c].result = v.result
        /\ g[c].pc # v.pc => v.pc = "asleep"
    BY <1>12, <1>14 DEF Woke
  <2>2. v.pc \in {"read", "done"}
    BY <1>10
  <2>3. g[c].pc = v.pc
    BY <2>1, <2>2
  <2>. QED  BY <1>10, <1>14, <2>1, <2>2, <2>3
<1>16. \A d \in Readers \ {c} :
        /\ reader'[d].round = reader[d].round /\ reader'[d].leader = reader[d].leader
        /\ reader'[d].need = reader[d].need /\ reader'[d].anchor = reader[d].anchor
        /\ reader'[d].empty = reader[d].empty
        /\ reader'[d].seen = reader[d].seen /\ reader'[d].result = reader[d].result
        /\ reader'[d].pc # reader[d].pc =>
             reader[d].pc = "asleep" /\ reader'[d].pc = IF reader[d].leader THEN "turn" ELSE "wait"
        /\ reader[d].pc = "asleep" /\ Awaited(d) = i => reader'[d].pc # "asleep"
  BY <1>12, <1>14 DEF Woke, Awaited
<1>. HIDE DEF Publish
<1>17. Shape'
  BY <1>11, <1>15 DEF RInv, Shape
<1>18. DecidedInv'
  BY DEF RInv, DecidedInv, Holders, IsQuorum
<1>19. \A d \in Readers \ {c} : reader[d].leader => reader[d].round # i
  BY <1>1 DEF RInv, OneLeader
<1>20. CallsInv'
  <2>1. ASSUME NEW d \in Readers \ {c} PROVE CallInv(d)'
    <3>1. \A j \in 1 .. Len(rounds) : j # i => rounds'[j].phase = rounds[j].phase
      BY <1>11
    <3>2. /\ reader'[d].round = reader[d].round /\ reader'[d].leader = reader[d].leader
          /\ reader'[d].pc # reader[d].pc =>
               reader[d].pc = "asleep" /\ reader'[d].pc = IF reader[d].leader THEN "turn" ELSE "wait"
          /\ reader[d].pc = "asleep" /\ Awaited(d) = i => reader'[d].pc # "asleep"
          /\ ~(reader[d].leader /\ reader[d].round = i)
          /\ reader[d].pc \in Running => lock' = d
      BY <1>16, <1>19
    <3>3. Len(rounds') = Len(rounds) /\ d \in Readers
      BY <1>11
    <3>4. reader[d].leader /\ reader[d].round = i => rounds'[i].phase = rounds[i].phase
      BY <3>2
    <3>. QED  BY ONLY RInv, <3>1, <3>2, <3>3, <3>4, WokeCall, SMT
  <2>2. CallInv(c)'
    <3>1. Len(rounds') \in Nat
      BY <1>11, Types DEF RInv
    <3>. QED  BY <1>15, <3>1 DEF CallInv, Running
  <2>. QED  BY <2>1, <2>2 DEF CallsInv
<1>21. OneLeader'
  BY <1>15, <1>16 DEF RInv, OneLeader
<1>22. LedInv'
  <2>. SUFFICES ASSUME NEW j \in 1 .. Len(rounds), rounds'[j].phase # "complete"
                PROVE  \E l \in Readers : reader'[l].leader /\ reader'[l].round = j
    BY <1>11 DEF LedInv
  <2>1. j # i /\ rounds'[j] = rounds[j]
    BY <1>9, <1>11
  <2>2. PICK l \in Readers : reader[l].leader /\ reader[l].round = j
    BY <2>1 DEF RInv, LedInv
  <2>3. l # c
    BY <1>1, <2>1, <2>2
  <2>. QED  BY <1>16, <2>2, <2>3
<1>23. \A d \in Readers \ {c} :
         reader'[d].pc \in {"fence", "barrier", "read"} => reader'[d].pc = reader[d].pc
  BY <1>16
<1>24. \A d \in Readers : reader'[d].pc \in Running =>
         d # c /\ reader[d].pc = reader'[d].pc /\ reader[d].round >= 1 /\ applied' = applied
  <2>. SUFFICES ASSUME NEW d \in Readers, reader'[d].pc \in Running
                PROVE  /\ d # c /\ reader[d].pc = reader'[d].pc
                       /\ reader[d].round >= 1 /\ applied' = applied
    OBVIOUS
  <2>1. d # c
    BY <1>15 DEF Running
  <2>2. reader[d].pc = reader'[d].pc
    BY <1>16, <2>1 DEF Running
  <2>3. CallInv(d)
    BY DEF RInv, CallsInv
  <2>4. reader[d].round >= 1
    BY <2>2, <2>3 DEF CallInv, Running
  <2>. QED  BY <2>1, <2>2, <2>4
<1>25. FenceInv'
  <2>. SUFFICES ASSUME NEW e \in Readers, NEW d \in Readers, reader'[e].pc = "fence",
                       reader'[d].round = reader'[e].round, reader'[d].need > applied'
                PROVE  IsQuorum(Holders(applied' + 1) \ reader'[e].empty)
    BY DEF FenceInv, Holders
  <2>1. e # c /\ reader[e].pc = "fence" /\ reader[e].round >= 1 /\ applied' = applied
    BY <1>24 DEF Running
  <2>2. d # c
    BY <1>15, <1>16, <2>1
  <2>. QED  BY <1>16, <2>1, <2>2 DEF RInv, FenceInv
<1>26. BarrierInv'
  <2>. SUFFICES ASSUME NEW e \in Readers, NEW d \in Readers, reader'[e].pc = "barrier",
                       reader'[d].round = reader'[e].round
                PROVE  reader'[d].need <= applied'
    BY DEF BarrierInv
  <2>1. e # c /\ reader[e].pc = "barrier" /\ reader[e].round >= 1 /\ applied' = applied
    BY <1>24 DEF Running
  <2>2. d # c
    BY <1>15, <1>16, <2>1
  <2>. QED  BY <1>16, <2>1, <2>2 DEF RInv, BarrierInv
<1>27. RoundInv'
  <2>. SUFFICES ASSUME NEW j \in 1 .. Len(rounds), rounds'[j].ok
                PROVE  /\ rounds'[j].phase = "complete" /\ rounds'[j].anchor <= applied'
                       /\ \A d \in Readers : reader'[d].round = j => reader'[d].need <= rounds'[j].anchor
    BY <1>11 DEF RoundInv
  <2>0. j >= 1
    OBVIOUS
  <2>1. CASE j = i
    <3>1. rounds'[j] = w
      BY <1>11, <2>1
    <3>2. ok /\ rounds'[j].phase = "complete" /\ rounds'[j].anchor = anchor
      BY <1>9, <3>1
    <3>3. ASSUME NEW d \in Readers, reader'[d].round = j PROVE reader'[d].need <= anchor
      <4>1. d # c
        BY <1>15, <2>0, <3>3
      <4>2. reader[d].round = reader[c].round /\ reader'[d].need = reader[d].need
        BY <1>1, <1>16, <2>1, <3>3, <4>1
      <4>. QED  BY <3>2, <4>2
    <3>. QED  BY <3>2, <3>3
  <2>2. CASE j # i
    <3>1. rounds'[j] = rounds[j] /\ rounds[j].anchor \in Nat
      BY <1>11, <2>2, Types DEF RInv
    <3>2. /\ rounds[j].phase = "complete" /\ rounds[j].anchor <= applied
          /\ \A d \in Readers : reader[d].round = j => reader[d].need <= rounds[j].anchor
      BY <3>1 DEF RInv, RoundInv
    <3>3. rounds[j].anchor <= applied'
      BY <1>6, <3>1, <3>2
    <3>. QED  BY <1>15, <1>16, <2>0, <3>1, <3>2, <3>3
  <2>. QED  BY <2>1, <2>2
<1>28. ReadInv'
  <2>1. ASSUME NEW d \in Readers \ {c}
        PROVE  /\ reader'[d].need <= Len(chosen)
               /\ reader'[d].pc = "read" => reader'[d].need <= reader'[d].anchor /\ reader'[d].anchor <= applied'
               /\ reader'[d].result = "ok" => reader'[d].seen >= reader'[d].need
    <3>1. reader[d].anchor \in Nat
      BY Types DEF RInv
    <3>. QED  BY <1>6, <1>16, <1>23, <3>1 DEF RInv, ReadInv
  <2>2. /\ reader'[c].need <= Len(chosen)
        /\ reader'[c].pc = "read" => reader'[c].need <= reader'[c].anchor /\ reader'[c].anchor <= applied'
        /\ reader'[c].result # "ok"
    <3>1. reader[c].need <= Len(chosen)
      BY DEF RInv, ReadInv
    <3>2. CASE ok
      <4>1. reader[c].need <= anchor
        BY <3>2
      <4>. QED  BY <1>15, <3>1, <3>2, <4>1
    <3>3. CASE ~ok
      BY <1>6, <1>15, <3>3
    <3>. QED  BY <3>2, <3>3
  <2>. QED  BY <2>1, <2>2 DEF ReadInv
<1>. QED  BY <1>17, <1>18, <1>20, <1>21, <1>22, <1>25, <1>26, <1>27, <1>28 DEF RInv

\* Only the owner of the commit lock is running a round.
LEMMA OneRuns ==
    ASSUME RInv, NEW c \in Readers, reader[c].pc \in Running
    PROVE  reader[c].leader /\ \A d \in Readers \ {c} : reader[d].pc \notin Running
BY DEF RInv, CallsInv, CallInv

\* A round that fails, with or without the lock.
LEMMA FailInv ==
    ASSUME RInv, NEW c \in Readers, reader[c].leader, Fail(c),
           UNCHANGED <<occupied, chosen, applied, node, sweep>>,
           lock' = lock \/ (lock' = "free" /\ reader[c].pc \in Running)
    PROVE  RInv'
<1>1. PICK ok \in BOOLEAN : ok = FALSE
  OBVIOUS
<1>2. Publish(c, ok, 0) /\ 0 \in Nat /\ ~ok
  BY <1>1 DEF Fail
<1>3. /\ applied' \in Nat /\ applied <= applied' /\ applied' <= Len(chosen)
      /\ node' \in [cancelled : BOOLEAN, active : BOOLEAN, contextFence : BOOLEAN]
      /\ lock' \in Readers \cup {"free"}
  BY Types DEF RInv, Shape
<1>4. \A d \in Readers \ {c} : reader[d].pc \in Running => lock' = d /\ applied' = applied
  BY OneRuns DEF RInv, CallsInv, CallInv
<1>. QED  BY <1>2, <1>3, <1>4, PublishInv

\* wait_turn.
LEMMA TakeTurnInv ==
    ASSUME RInv, NEW c \in Readers, TakeTurn(c)
    PROVE  RInv'
<1>1. reader[c].leader
  BY DEF TakeTurn, At, RInv, CallsInv, CallInv
<1>2. CASE Fail(c)
  BY <1>1, <1>2, FailInv DEF TakeTurn
<1>3. CASE /\ rounds' = [rounds EXCEPT ![reader[c].round].predecessor = FALSE]
           /\ Goto(c, "lock")
  BY <1>3, TurnInv DEF TakeTurn
<1>. QED  BY <1>2, <1>3 DEF TakeTurn

\* A waiting call finds the operations cancelled.
LEMMA StopWaitingInv ==
    ASSUME RInv, NEW c \in Readers, StopWaiting(c)
    PROVE  RInv'
<1>1. CASE reader[c].leader /\ Fail(c)
  BY <1>1, FailInv DEF StopWaiting
<1>2. CASE ~reader[c].leader /\ reader' = [reader EXCEPT ![c] = Outcome(@, FALSE, 0)] /\ UNCHANGED rounds
  BY <1>2, ErrorInv DEF StopWaiting
<1>. QED  BY <1>1, <1>2 DEF StopWaiting

\* A leader goes on with nothing heard from the recorders.
LEMMA AgainFacts ==
    ASSUME RInv, NEW c \in Readers, NEW x \in Running, reader' = Again(reader, c, x)
    PROVE  \E v \in ReaderType :
             /\ reader' = [reader EXCEPT ![c] = v] /\ reader'[c] = v
             /\ v.pc = x /\ v.round = reader[c].round /\ v.leader = reader[c].leader
             /\ v.need = reader[c].need /\ v.seen = reader[c].seen
             /\ v.result = reader[c].result /\ v.empty = {}
<1>1. PICK v : v = [reader[c] EXCEPT !.pc = x, !.empty = {}, !.busy = {}]
  OBVIOUS
<1>2. reader' = [reader EXCEPT ![c] = v]
  BY <1>1, Zenon DEF Again
<1>3. reader'[c] = v
  BY <1>2 DEF RInv, Shape
<1>4. reader[c] \in ReaderType
  BY Types DEF RInv
<1>5. /\ v \in ReaderType
      /\ v.pc = x /\ v.round = reader[c].round /\ v.leader = reader[c].leader
      /\ v.need = reader[c].need /\ v.seen = reader[c].seen
      /\ v.result = reader[c].result /\ v.empty = {}
  BY <1>1, <1>4 DEF ReaderType, Running
<1>. QED  BY <1>2, <1>3, <1>5

\* A slot somebody needs is held by a quorum.
LEMMA NeededHeld ==
    ASSUME RInv, NEW d \in Readers, NEW a \in Nat, reader[d].need > a
    PROVE  IsQuorum(Holders(a + 1) \ {})
<1>1. reader[d].need \in Nat /\ Len(chosen) \in Nat /\ reader[d].need <= Len(chosen)
  BY Types DEF RInv, ReadInv
<1>2. a + 1 \in 1 .. Len(chosen)
  BY <1>1
<1>3. Holders(a + 1) \ {} = Holders(a + 1)
  OBVIOUS
<1>. QED  BY <1>2, <1>3 DEF RInv, DecidedInv

\* The leader owns the commit lock: its round is closed to others.
LEMMA StartInv ==
    ASSUME RInv, NEW c \in Readers, Start(c)
    PROVE  RInv'
<1>1. /\ reader[c].pc = "lock" /\ lock = "free" /\ CallInv(c)
      /\ UNCHANGED <<occupied, chosen, applied, node, sweep>>
  BY DEF Start, At, RInv, CallsInv
<1>2. reader[c].leader
  BY <1>1 DEF CallInv
<1>3. CASE Fail(c) /\ UNCHANGED lock
  BY <1>1, <1>2, <1>3, FailInv
<1>4. CASE /\ lock' = c
           /\ rounds' = [rounds EXCEPT ![reader[c].round].phase = "running"]
           /\ reader' = Again(reader, c, "fence")
  <2>1. PICK v \in ReaderType :
          /\ reader' = [reader EXCEPT ![c] = v] /\ reader'[c] = v
          /\ v.pc = "fence" /\ v.round = reader[c].round /\ v.leader = reader[c].leader
          /\ v.need = reader[c].need /\ v.seen = reader[c].seen
          /\ v.result = reader[c].result /\ v.empty = {}
    BY <1>4, AgainFacts DEF Running
  <2>2. PICK i : i = reader[c].round
    OBVIOUS
  <2>3. PICK w : w = [rounds[i] EXCEPT !.phase = "running"]
    OBVIOUS
  <2>4. /\ i \in 1 .. Len(rounds) /\ rounds[i] \in RoundType /\ rounds \in Seq(RoundType)
        /\ rounds[i].phase = "collecting" /\ Len(rounds) \in Nat
    BY <1>1, <1>2, <2>2, Types DEF RInv, Shape, CallInv, Collecting
  <2>5. w \in RoundType /\ w.phase = "running" /\ w.ok = rounds[i].ok /\ w.anchor = rounds[i].anchor
    BY <2>3, <2>4 DEF RoundType
  <2>6. /\ rounds' \in Seq(RoundType) /\ Len(rounds') = Len(rounds)
        /\ \A j \in 1 .. Len(rounds) : rounds'[j] = IF j = i THEN w ELSE rounds[j]
    <3>1. PICK t : t = rounds'
      OBVIOUS
    <3>2. t = [rounds EXCEPT ![i] = w]
      BY <1>4, <2>2, <2>3, <3>1, Zenon
    <3>3. /\ t \in Seq(RoundType) /\ Len(t) = Len(rounds)
          /\ \A j \in 1 .. Len(rounds) : t[j] = IF j = i THEN w ELSE rounds[j]
      BY <2>4, <2>5, <3>2, RoundChanges
    <3>. QED  BY <3>1, <3>3
  <2>7. \A d \in Readers \ {c} : reader'[d] = reader[d]
    BY <2>1 DEF RInv, Shape
  <2>8. \A d \in Readers : reader[d].pc \notin Running
    BY <1>1, ReadAssumption DEF RInv, CallsInv, CallInv
  <2>9. \A d \in Readers \ {c} : ~(reader[d].leader /\ reader[d].round = i)
    BY <1>2, <2>2 DEF RInv, OneLeader
  <2>10. Shape'
    BY <1>1, <1>4, <2>1, <2>6 DEF RInv, Shape
  <2>11. DecidedInv'
    BY <1>1 DEF RInv, DecidedInv, Holders, IsQuorum
  <2>12. CallsInv'
    <3>1. ASSUME NEW d \in Readers \ {c} PROVE CallInv(d)'
      <4>1. CallInv(d) /\ reader'[d] = reader[d] /\ Awaited(d)' = Awaited(d)
        BY <2>7 DEF RInv, CallsInv, Awaited
      <4>2. reader[d].round \in Nat
        BY Types DEF RInv
      <4>3. reader[d].leader => rounds'[reader[d].round].phase = rounds[reader[d].round].phase
        BY <2>6, <2>9, <4>1, <4>2 DEF CallInv
      <4>4. reader[d].pc = "asleep" => Awaited(d) \in 1 .. Len(rounds)
        BY <2>4, <4>1, <4>2 DEF CallInv, Awaited
      <4>5. reader[d].pc = "asleep" => rounds'[Awaited(d)].phase # "complete"
        BY <2>5, <2>6, <4>1, <4>4 DEF CallInv
      <4>. QED  BY <2>6, <2>8, <4>1, <4>3, <4>5 DEF CallInv
    <3>2. CallInv(c)'
      BY <1>1, <1>2, <1>4, <2>1, <2>2, <2>4, <2>5, <2>6 DEF CallInv, Running, Collecting
    <3>. QED  BY <3>1, <3>2 DEF CallsInv
  <2>13. \A d \in Readers : /\ reader'[d].round = reader[d].round /\ reader'[d].leader = reader[d].leader
                            /\ reader'[d].need = reader[d].need /\ reader'[d].seen = reader[d].seen
                            /\ reader'[d].result = reader[d].result
    BY <2>1, <2>7
  <2>14. OneLeader'
    BY <2>13 DEF RInv, OneLeader
  <2>15. LedInv'
    BY <2>4, <2>6, <2>13 DEF RInv, LedInv
  <2>16. FenceInv'
    <3>. SUFFICES ASSUME NEW e \in Readers, NEW d \in Readers, reader'[e].pc = "fence",
                         reader[d].need > applied
                  PROVE  IsQuorum(Holders(applied + 1) \ reader'[e].empty)
      BY <1>1, <2>13 DEF FenceInv, Holders
    <3>1. e = c
      BY <2>7, <2>8 DEF Running
    <3>. QED  BY <2>1, <3>1, NeededHeld, Types DEF RInv
  <2>17. BarrierInv'
    BY <2>1, <2>7, <2>8 DEF BarrierInv, Running
  <2>18. RoundInv'
    <3>1. ~rounds[i].ok
      BY <2>4 DEF RInv, RoundInv
    <3>. QED  BY <1>1, <2>5, <2>6, <2>13, <3>1 DEF RInv, RoundInv
  <2>19. ReadInv'
    BY <1>1, <2>1, <2>7, <2>13 DEF RInv, ReadInv
  <2>. QED  BY <2>10, <2>11, <2>12, <2>14, <2>15, <2>16, <2>17, <2>18, <2>19 DEF RInv
<1>. QED  BY <1>3, <1>4 DEF Start


\* The node learns the next entry and looks at the slot after it.
LEMMA AgainInv ==
    ASSUME RInv, NEW c \in Readers, reader[c].pc \in Running, ApplyNext,
           reader' = Again(reader, c, "fence"),
           UNCHANGED <<occupied, chosen, rounds, lock, sweep>>
    PROVE  RInv'
<1>1. PICK v \in ReaderType :
        /\ reader' = [reader EXCEPT ![c] = v] /\ reader'[c] = v
        /\ v.pc = "fence" /\ v.round = reader[c].round /\ v.leader = reader[c].leader
        /\ v.need = reader[c].need /\ v.seen = reader[c].seen
        /\ v.result = reader[c].result /\ v.empty = {}
  BY AgainFacts DEF Running
<1>2. /\ applied' = applied + 1 /\ applied' \in Nat /\ applied' <= Len(chosen)
      /\ node' \in [cancelled : BOOLEAN, active : BOOLEAN, contextFence : BOOLEAN]
  BY ApplyFacts
<1>3. \A d \in Readers \ {c} : reader'[d] = reader[d] /\ reader[d].pc \notin Running
  BY <1>1, OneRuns DEF RInv, Shape
<1>4. \A d \in Readers : /\ reader'[d].round = reader[d].round /\ reader'[d].leader = reader[d].leader
                         /\ reader'[d].need = reader[d].need /\ reader'[d].seen = reader[d].seen
                         /\ reader'[d].result = reader[d].result
  BY <1>1, <1>3
<1>5. Shape'
  BY <1>1, <1>2 DEF RInv, Shape
<1>6. DecidedInv'
  BY DEF RInv, DecidedInv, Holders, IsQuorum
<1>7. CallsInv'
  <2>1. ASSUME NEW d \in Readers \ {c} PROVE CallInv(d)'
    <3>1. CallInv(d) /\ reader'[d] = reader[d]
      BY <1>3 DEF RInv, CallsInv
    <3>. QED  BY <3>1 DEF CallInv, Awaited
  <2>2. CallInv(c)'
    <3>1. CallInv(c)
      BY DEF RInv, CallsInv
    <3>. QED  BY <1>1, <3>1 DEF CallInv, Running, Collecting
  <2>. QED  BY <2>1, <2>2 DEF CallsInv
<1>8. OneLeader' /\ LedInv'
  BY <1>4 DEF RInv, OneLeader, LedInv
<1>9. FenceInv'
  <2>. SUFFICES ASSUME NEW e \in Readers, NEW d \in Readers, reader'[e].pc = "fence",
                       reader[d].need > applied'
                PROVE  IsQuorum(Holders(applied' + 1) \ reader'[e].empty)
    BY <1>4 DEF FenceInv, Holders
  <2>1. e = c
    BY <1>3 DEF Running
  <2>. QED  BY <1>1, <1>2, <2>1, NeededHeld
<1>10. BarrierInv'
  BY <1>1, <1>3 DEF BarrierInv, Running
<1>11. applied \in Nat /\ \A i \in 1 .. Len(rounds) : rounds[i].anchor \in Nat
  BY Types DEF RInv
<1>12. RoundInv'
  BY <1>2, <1>4, <1>11 DEF RInv, RoundInv
<1>13. ReadInv'
  <2>1. \A d \in Readers : reader[d].anchor \in Nat
    BY Types DEF RInv
  <2>. QED  BY <1>1, <1>2, <1>3, <1>4, <1>11, <2>1 DEF RInv, ReadInv
<1>. QED  BY <1>5, <1>6, <1>7, <1>8, <1>9, <1>10, <1>12, <1>13 DEF RInv

\* A running round ends: its leader owned the lock.
LEMMA EndInv ==
    ASSUME RInv, NEW c \in Readers, reader[c].pc \in Running, NEW anchor \in Nat,
           Publish(c, TRUE, anchor), lock' = "free", UNCHANGED <<occupied, chosen, sweep>>,
           applied' \in Nat, applied <= applied', applied' <= Len(chosen),
           node' \in [cancelled : BOOLEAN, active : BOOLEAN, contextFence : BOOLEAN],
           anchor <= applied',
           \A d \in Readers : reader[d].round = reader[c].round => reader[d].need <= anchor
    PROVE  RInv'
<1>1. PICK ok \in BOOLEAN : ok = TRUE
  OBVIOUS
<1>2. Publish(c, ok, anchor)
  BY <1>1
<1>3. reader[c].leader /\ lock' \in Readers \cup {"free"}
  BY OneRuns
<1>4. \A d \in Readers \ {c} : reader[d].pc \in Running => lock' = d /\ applied' = applied
  BY OneRuns
<1>. HIDE DEF Publish
<1>. QED  BY <1>2, <1>3, <1>4, PublishInv

\* The fence holds at the tip, or the configuration is sealed.
LEMMA FenceHoldsInv ==
    ASSUME RInv, NEW c \in Readers, FenceHolds(c)
    PROVE  RInv'
<1>1. /\ reader[c].pc = "fence" /\ IsQuorum(reader[c].empty) /\ lock' = "free"
      /\ UNCHANGED <<occupied, chosen, applied, node, sweep>>
  BY DEF FenceHolds, At, Fenced
<1>2. reader[c].pc \in Running /\ reader[c].leader
  BY <1>1, OneRuns DEF Running
<1>3. CASE Publish(c, TRUE, FenceAnchor)
  <2>1. Publish(c, TRUE, applied)
    BY <1>3 DEF FenceAnchor
  <2>2. /\ applied' \in Nat /\ applied <= applied' /\ applied' <= Len(chosen) /\ applied \in Nat
        /\ node' \in [cancelled : BOOLEAN, active : BOOLEAN, contextFence : BOOLEAN]
    BY <1>1, Types DEF RInv, Shape
  <2>3. \A d \in Readers : reader[d].round = reader[c].round => reader[d].need <= applied
    BY <1>1, EmptyQuorum
  <2>. QED  BY <1>1, <1>2, <2>1, <2>2, <2>3, EndInv
<1>4. CASE Fail(c)
  BY <1>1, <1>2, <1>4, FailInv
<1>. QED  BY <1>3, <1>4 DEF FenceHolds

\* The round ends without an answer.
LEMMA EndsInErrorInv ==
    ASSUME RInv, NEW c \in Readers, Inconclusive(c) \/ ProposalFails(c)
    PROVE  RInv'
<1>1. /\ reader[c].pc \in Running /\ Fail(c) /\ lock' = "free"
      /\ UNCHANGED <<occupied, chosen, applied, node, sweep>>
  BY DEF Inconclusive, ProposalFails, At, Running
<1>2. reader[c].leader
  BY <1>1, OneRuns
<1>. QED  BY <1>1, <1>2, FailInv

\* Inspection returns the committed entry.
LEMMA LearnInv ==
    ASSUME RInv, NEW c \in Readers, LearnCommitted(c)
    PROVE  RInv'
<1>1. /\ reader[c].pc \in Running /\ ApplyNext /\ reader' = Again(reader, c, "fence")
      /\ UNCHANGED <<occupied, chosen, rounds, lock, sweep>>
  BY DEF LearnCommitted, At, Running
<1>. QED  BY <1>1, AgainInv

\* The proposal is decided.
LEMMA ProposedInv ==
    ASSUME RInv, NEW c \in Readers, Proposed(c)
    PROVE  RInv'
<1>1. reader[c].pc \in Running /\ ApplyNext /\ UNCHANGED <<occupied, chosen, sweep>>
  BY DEF Proposed, Running
<1>2. CASE /\ EndsRound(c, chosen[NextSlot]) /\ Publish(c, TRUE, NextSlot) /\ lock' = "free"
  <2>1. reader[c].pc = "barrier"
    BY <1>2 DEF EndsRound, At
  <2>2. /\ applied' = applied + 1 /\ applied' \in Nat /\ applied' <= Len(chosen)
        /\ node' \in [cancelled : BOOLEAN, active : BOOLEAN, contextFence : BOOLEAN]
        /\ applied \in Nat
    BY <1>1, ApplyFacts, Types DEF RInv
  <2>3. PICK anchor \in Nat : anchor = applied + 1
    BY <2>2
  <2>4. Publish(c, TRUE, anchor)
    BY <1>2, <2>3 DEF NextSlot
  <2>5. ASSUME NEW d \in Readers, reader[d].round = reader[c].round PROVE reader[d].need <= anchor
    <3>1. reader[d].need <= applied /\ reader[d].need \in Nat
      BY <2>1, <2>5, Types DEF RInv, BarrierInv
    <3>. QED  BY <2>2, <2>3, <3>1
  <2>6. anchor <= applied' /\ applied <= applied'
    BY <2>2, <2>3
  <2>. QED  BY <1>1, <1>2, <2>2, <2>4, <2>5, <2>6, EndInv
<1>3. CASE reader' = Again(reader, c, "fence") /\ UNCHANGED <<rounds, lock>>
  BY <1>1, <1>3, AgainInv
<1>. QED  BY <1>2, <1>3 DEF Proposed

\* A new read follows the collecting tail.
LEMMA FollowerInv ==
    ASSUME RInv, NEW c \in Readers, reader[c].pc = "idle", TailCollects,
           NEW v \in ReaderType, reader' = [reader EXCEPT ![c] = v],
           v.pc = "wait", v.round = Len(rounds), ~v.leader, v.need = Len(chosen), v.result = "none",
           UNCHANGED <<occupied, chosen, applied, rounds, lock, node, sweep>>
    PROVE  RInv'
<1>1. Len(rounds) \in Nat /\ Len(chosen) \in Nat /\ applied \in Nat
  BY Types DEF RInv
<1>2. PICK i \in 1 .. Len(rounds) : i = Len(rounds) /\ rounds[i].phase = "collecting"
  <2>1. Len(rounds) # 0
    BY EmptySeq DEF TailCollects, RInv, Shape
  <2>. QED  BY <1>1, <2>1 DEF TailCollects
<1>4. v.pc = "wait" /\ v.round = i /\ ~v.leader /\ v.need = Len(chosen) /\ v.result = "none"
  BY <1>2
<1>6. reader'[c] = v /\ \A d \in Readers \ {c} : reader'[d] = reader[d]
  BY DEF RInv, Shape
<1>7. ~reader[c].leader
  BY DEF RInv, CallsInv, CallInv, Collecting, Running
<1>8. Shape'
  BY <1>4 DEF RInv, Shape
<1>9. DecidedInv'
  BY DEF RInv, DecidedInv, Holders, IsQuorum
<1>10. CallsInv'
  <2>1. ASSUME NEW d \in Readers \ {c} PROVE CallInv(d)'
    <3>1. CallInv(d) /\ reader'[d] = reader[d]
      BY <1>6 DEF RInv, CallsInv
    <3>. QED  BY <3>1 DEF CallInv, Awaited
  <2>2. CallInv(c)'
    BY <1>1, <1>2, <1>4, <1>6 DEF CallInv, Running
  <2>. QED  BY <2>1, <2>2 DEF CallsInv
<1>11. OneLeader'
  BY <1>4, <1>6 DEF RInv, OneLeader
<1>12. LedInv'
  BY <1>6, <1>7 DEF RInv, LedInv
<1>13. \A e \in Readers : reader'[e].pc \in Running => e # c /\ reader[e].round # i
  BY <1>2, <1>4, <1>6 DEF RInv, CallsInv, CallInv, Running
<1>14. FenceInv'
  <2>. SUFFICES ASSUME NEW e \in Readers, NEW d \in Readers, reader'[e].pc = "fence",
                       reader'[d].round = reader'[e].round, reader'[d].need > applied
                PROVE  IsQuorum(Holders(applied + 1) \ reader'[e].empty)
    BY DEF FenceInv, Holders
  <2>1. e # c /\ d # c
    BY <1>4, <1>6, <1>13 DEF Running
  <2>. QED  BY <1>6, <2>1 DEF RInv, FenceInv
<1>15. BarrierInv'
  BY <1>4, <1>6, <1>13 DEF RInv, BarrierInv, Running
<1>16. RoundInv'
  <2>1. ~rounds[i].ok
    BY <1>2 DEF RInv, RoundInv
  <2>. QED  BY <1>4, <1>6, <2>1 DEF RInv, RoundInv
<1>17. ReadInv'
  BY <1>1, <1>4, <1>6 DEF RInv, ReadInv
<1>. QED  BY <1>8, <1>9, <1>10, <1>11, <1>12, <1>14, <1>15, <1>16, <1>17 DEF RInv

\* A new read leads a new round.
LEMMA LeaderInv ==
    ASSUME RInv, NEW c \in Readers, reader[c].pc = "idle",
           NEW w \in RoundType, w.phase = "collecting", ~w.ok, rounds' = Append(rounds, w),
           NEW v \in ReaderType, reader' = [reader EXCEPT ![c] = v],
           v.pc = "turn", v.round = Len(rounds) + 1, v.leader, v.need = Len(chosen),
           v.result = "none",
           UNCHANGED <<occupied, chosen, applied, lock, node, sweep>>
    PROVE  RInv'
<1>1. Len(rounds) \in Nat /\ Len(chosen) \in Nat /\ applied \in Nat
  BY Types DEF RInv
<1>2. /\ rounds' \in Seq(RoundType) /\ Len(rounds') = Len(rounds) + 1
      /\ rounds'[Len(rounds) + 1] = w
      /\ \A j \in 1 .. Len(rounds) : rounds'[j] = rounds[j]
  BY AppendProperties DEF RInv, Shape
<1>3. reader'[c] = v /\ \A d \in Readers \ {c} : reader'[d] = reader[d]
  BY DEF RInv, Shape
<1>4. ~reader[c].leader
  BY DEF RInv, CallsInv, CallInv, Collecting, Running
<1>5. \A d \in Readers : reader[d].round \in Nat /\ reader[d].round <= Len(rounds)
  BY Types DEF RInv, CallsInv, CallInv
<1>6. Shape'
  <2>1. sweep' \in Nat /\ sweep' <= Len(rounds')
    BY <1>1, <1>2 DEF RInv, Shape
  <2>. QED  BY <1>2, <2>1 DEF RInv, Shape
<1>7. DecidedInv'
  BY DEF RInv, DecidedInv, Holders, IsQuorum
<1>8. CallsInv'
  <2>1. ASSUME NEW d \in Readers \ {c} PROVE CallInv(d)'
    <3>1. CallInv(d) /\ reader'[d] = reader[d] /\ Awaited(d)' = Awaited(d)
      BY <1>3 DEF RInv, CallsInv, Awaited
    <3>2. reader[d].round \in Nat /\ reader[d].round <= Len(rounds) /\ reader[d].leader \in BOOLEAN
      BY <1>5, Types DEF RInv
    <3>3. reader[d].round >= 1 => rounds'[reader[d].round] = rounds[reader[d].round]
      BY <1>1, <1>2, <3>2
    <3>4. Awaited(d) >= 1 => rounds'[Awaited(d)] = rounds[Awaited(d)]
      BY <1>1, <1>2, <3>2 DEF Awaited
    <3>5. reader[d].round <= Len(rounds')
      BY <1>1, <1>2, <3>2
    <3>6. reader[d].pc \in Running => reader[d].round >= 1
      BY <3>1 DEF CallInv
    <3>. QED  BY <3>1, <3>3, <3>4, <3>5, <3>6 DEF CallInv
  <2>2. CallInv(c)'
    <3>1. /\ reader'[c].round = Len(rounds') /\ reader'[c].round >= 1 /\ reader'[c].leader
          /\ reader'[c].round <= Len(rounds')
          /\ reader'[c].pc = "turn" /\ rounds'[reader'[c].round].phase = "collecting"
      BY <1>1, <1>2, <1>3
    <3>. QED  BY ONLY <3>1 DEF CallInv, Running, Collecting
  <2>. QED  BY <2>1, <2>2 DEF CallsInv
<1>9. OneLeader'
  BY <1>1, <1>3, <1>5 DEF RInv, OneLeader
<1>10. LedInv'
  <2>. SUFFICES ASSUME NEW j \in 1 .. Len(rounds) + 1, rounds'[j].phase # "complete"
                PROVE  \E l \in Readers : reader'[l].leader /\ reader'[l].round = j
    BY <1>2 DEF LedInv
  <2>1. CASE j = Len(rounds) + 1
    BY <1>3, <2>1
  <2>2. CASE j \in 1 .. Len(rounds)
    BY <1>2, <1>3, <1>4, <2>2 DEF RInv, LedInv
  <2>. QED  BY <1>1, <2>1, <2>2
<1>11. FenceInv'
  <2>. SUFFICES ASSUME NEW e \in Readers, NEW d \in Readers, reader'[e].pc = "fence",
                       reader'[d].round = reader'[e].round, reader'[d].need > applied
                PROVE  IsQuorum(Holders(applied + 1) \ reader'[e].empty)
    BY DEF FenceInv, Holders
  <2>1. e # c
    BY <1>3
  <2>2. d # c
    BY <1>1, <1>3, <1>5, <2>1
  <2>. QED  BY <1>3, <2>1, <2>2 DEF RInv, FenceInv
<1>12. BarrierInv'
  <2>. SUFFICES ASSUME NEW e \in Readers, NEW d \in Readers, reader'[e].pc = "barrier",
                       reader'[d].round = reader'[e].round
                PROVE  reader'[d].need <= applied
    BY DEF BarrierInv
  <2>1. e # c
    BY <1>3
  <2>2. d # c
    BY <1>1, <1>3, <1>5, <2>1
  <2>. QED  BY <1>3, <2>1, <2>2 DEF RInv, BarrierInv
<1>13. RoundInv'
  <2>. SUFFICES ASSUME NEW j \in 1 .. Len(rounds) + 1, rounds'[j].ok
                PROVE  /\ rounds'[j].phase = "complete" /\ rounds'[j].anchor <= applied
                       /\ \A d \in Readers : reader'[d].round = j => reader'[d].need <= rounds'[j].anchor
    BY <1>2 DEF RoundInv
  <2>1. j \in 1 .. Len(rounds)
    BY <1>1, <1>2
  <2>2. rounds'[j] = rounds[j]
    BY <1>2, <2>1
  <2>3. reader'[c].round # j
    BY <1>1, <1>3, <2>1
  <2>. QED  BY <1>3, <2>1, <2>2, <2>3 DEF RInv, RoundInv
<1>14. ReadInv'
  BY <1>1, <1>3 DEF RInv, ReadInv
<1>. QED  BY <1>6, <1>7, <1>8, <1>9, <1>10, <1>11, <1>12, <1>13, <1>14 DEF RInv

\* join.
LEMMA JoinInv ==
    ASSUME RInv, NEW c \in Readers, Join(c)
    PROVE  RInv'
<1>1. reader[c].pc = "idle" /\ UNCHANGED <<occupied, chosen, applied, lock, node, sweep>>
  BY DEF Join, At
<1>2. Len(rounds) \in Nat /\ Len(chosen) \in Nat
  BY Types DEF RInv
<1>3. CASE /\ TailCollects /\ UNCHANGED rounds
           /\ reader' = [reader EXCEPT ![c] =
                [IdleReader EXCEPT !.pc = "wait", !.round = Len(rounds), !.need = Len(chosen)]]
  <2>1. PICK v : v = [IdleReader EXCEPT !.pc = "wait", !.round = Len(rounds), !.need = Len(chosen)]
    OBVIOUS
  <2>2. /\ v \in ReaderType /\ v.pc = "wait" /\ v.round = Len(rounds) /\ ~v.leader
        /\ v.need = Len(chosen) /\ v.result = "none"
    BY <1>2, <2>1 DEF IdleReader, ReaderType
  <2>3. reader' = [reader EXCEPT ![c] = v]
    BY <1>3, <2>1
  <2>. QED  BY <1>1, <1>3, <2>2, <2>3, FollowerInv
<1>4. CASE /\ rounds' = Append(rounds, [phase |-> "collecting", anchor |-> 0, ok |-> FALSE,
                                        predecessor |-> rounds # <<>>])
           /\ reader' = [reader EXCEPT ![c] =
                [IdleReader EXCEPT !.pc = "turn", !.round = Len(rounds) + 1,
                                   !.leader = TRUE, !.need = Len(chosen)]]
  <2>1. PICK v : v = [IdleReader EXCEPT !.pc = "turn", !.round = Len(rounds) + 1,
                                        !.leader = TRUE, !.need = Len(chosen)]
    OBVIOUS
  <2>2. /\ v \in ReaderType /\ v.pc = "turn" /\ v.round = Len(rounds) + 1 /\ v.leader
        /\ v.need = Len(chosen) /\ v.result = "none"
    <3>1. v = [pc |-> "turn", round |-> Len(rounds) + 1, leader |-> TRUE, empty |-> {},
               busy |-> {}, need |-> Len(chosen), anchor |-> 0, seen |-> 0, result |-> "none"]
      BY <2>1 DEF IdleReader
    <3>2. Len(rounds) + 1 \in Nat
      BY <1>2
    <3>. QED  BY <1>2, <3>1, <3>2 DEF ReaderType, Collecting
  <2>3. PICK b \in BOOLEAN : b = (rounds # <<>>)
    OBVIOUS
  <2>4. PICK w : w = [phase |-> "collecting", anchor |-> 0, ok |-> FALSE, predecessor |-> b]
    OBVIOUS
  <2>5. w \in RoundType /\ w.phase = "collecting" /\ ~w.ok
    BY <2>4 DEF RoundType
  <2>6. reader' = [reader EXCEPT ![c] = v] /\ rounds' = Append(rounds, w)
    <3>1. reader' = [reader EXCEPT ![c] = v]
      BY <1>4, <2>1
    <3>2. w = [phase |-> "collecting", anchor |-> 0, ok |-> FALSE, predecessor |-> rounds # <<>>]
      BY <2>3, <2>4, Zenon
    <3>. QED  BY <1>4, <3>1, <3>2, Zenon
  <2>. QED  BY <1>1, <2>2, <2>5, <2>6, LeaderInv
<1>. QED  BY <1>3, <1>4 DEF Join

-----------------------------------------------------------------------------
(* The theorems *)

\* Every step keeps the invariant.
LEMMA NextInv == RInv /\ [Next]_vars => RInv'
<1>. SUFFICES ASSUME RInv, [Next]_vars PROVE RInv'
  OBVIOUS
<1>1. ASSUME NEW r \in Recorders, NEW s \in 1 .. MaxSlot, Record(r, s) PROVE RInv'
  BY <1>1, RecordInv
<1>2. ASSUME NEW kind \in Kinds, Decide(kind) PROVE RInv'
  BY <1>2, DecideInv
<1>3. CASE Materialize
  BY <1>3, MaterializeInv
<1>4. ASSUME NEW c \in Readers, Join(c) PROVE RInv'
  BY <1>4, JoinInv
<1>5. ASSUME NEW c \in Readers, Sleep(c) PROVE RInv'
  BY <1>5, SleepInv
<1>6. ASSUME NEW c \in Readers, Step(c) PROVE RInv'
  <2>1. CASE TakeTurn(c)
    BY <2>1, TakeTurnInv
  <2>2. CASE StopWaiting(c)
    BY <2>2, StopWaitingInv
  <2>3. CASE Follow(c)
    BY <2>3, FollowInv
  <2>4. CASE Start(c)
    BY <2>4, StartInv
  <2>5. CASE Read(c)
    BY <2>5, ReadStepInv
  <2>6. CASE FenceHolds(c)
    BY <2>6, FenceHoldsInv
  <2>7. CASE Inconclusive(c)
    BY <2>7, EndsInErrorInv
  <2>8. CASE LearnCommitted(c)
    BY <2>8, LearnInv
  <2>9. CASE ProposeBarrier(c)
    BY <2>9, ProposeInv
  <2>10. CASE Proposed(c)
    BY <2>10, ProposedInv
  <2>11. ASSUME NEW r \in Recorders, Observe(c, r) PROVE RInv'
    BY <2>11, ObserveInv
  <2>. QED  BY <1>6, <2>1, <2>2, <2>3, <2>4, <2>5, <2>6, <2>7, <2>8, <2>9, <2>10, <2>11 DEF Step
<1>7. ASSUME NEW c \in Readers, ProposalFails(c) PROVE RInv'
  BY <1>7, EndsInErrorInv
<1>8. CASE Cancel
  BY <1>8, CancelInv
<1>9. CASE Sweep
  BY <1>9, SweepInv
<1>10. CASE UNCHANGED vars
  BY <1>10, CancelInv
<1>. QED  BY <1>1, <1>2, <1>3, <1>4, <1>5, <1>6, <1>7, <1>8, <1>9, <1>10 DEF Next

\* A sleeping call waits for a round whose leader has not returned.
LEMMA SleepersLed == RInv => SleepersHaveALeader
<1>. SUFFICES ASSUME RInv, NEW c \in Readers, reader[c].pc = "asleep"
              PROVE  \E l \in Readers : /\ reader[l].leader /\ reader[l].round = Awaited(c)
                                        /\ reader[l].pc \notin {"read", "done"}
  BY DEF SleepersHaveALeader, At
<1>1. CallInv(c) /\ reader[c].round \in Nat /\ Len(rounds) \in Nat /\ reader[c].leader \in BOOLEAN
  BY Types DEF RInv, CallsInv
<1>2. Awaited(c) \in 1 .. Len(rounds) /\ rounds[Awaited(c)].phase # "complete"
  BY <1>1 DEF CallInv, Awaited
<1>3. PICK l \in Readers : reader[l].leader /\ reader[l].round = Awaited(c)
  BY <1>2 DEF RInv, LedInv
<1>4. reader[l].pc \in Collecting \cup Running
  BY <1>3 DEF RInv, CallsInv, CallInv
<1>. QED  BY <1>3, <1>4 DEF Collecting, Running

\* The invariant holds of every state.
LEMMA Invariance == Spec => []RInv
BY InitInv, NextInv, PTL DEF Spec

\* ReadBarrierRounds stays consistent with any number of readers and rounds:
\* types, anchors that are applied, and nobody asleep on a round whose leader
\* has gone.
THEOREM RoundsConsistentHolds == Spec => []RoundsConsistent
<1>1. RInv => RoundsConsistent
  <2>. SUFFICES ASSUME RInv PROVE RoundsConsistent
    OBVIOUS
  <2>1. AnchorsAreApplied
    BY DEF RInv, ReadInv, AnchorsAreApplied, At
  <2>2. TypeOK
    <3>1. \A c \in Readers : reader[c].round \in 0 .. Len(rounds)
      BY Types DEF RInv, CallsInv, CallInv
    <3>2. applied \in 0 .. Len(chosen) /\ sweep \in 0 .. Len(rounds)
      BY Types DEF RInv, Shape
    <3>. QED  BY <3>1, <3>2 DEF RInv, Shape, TypeOK
  <2>. QED  BY <2>1, <2>2, SleepersLed DEF RoundsConsistent
<1>. QED  BY <1>1, Invariance, PTL

\* Linearizability of the reads that share a barrier round: a read that
\* succeeds sees everything decided before it was called, for any cluster and
\* any interleaving of rounds, proposals and decisions.
THEOREM ReadsSeeHolds == Spec => []ReadsSeeEarlierWrites
<1>1. RInv => ReadsSeeEarlierWrites
  BY DEF RInv, ReadInv, ReadsSeeEarlierWrites
<1>. QED  BY <1>1, Invariance, PTL

=============================================================================
