---------------------------- MODULE RecorderStore ----------------------------
(***************************************************************************)
(* The durable store of one recorder: slot files, command files, the       *)
(* configuration file, the recorded head, two intent files and the         *)
(* write-ahead log, what is kept of them in memory, and what happens when  *)
(* the process stops between any two of the writes.                        *)
(*                                                                         *)
(* Every operation runs under the store's lock, so the writes it will make *)
(* are fixed when it starts: "todo" is the sequence of images the disk and *)
(* the memory go through.  A step installs the next image; a crash drops   *)
(* the rest of them together with the memory; an I/O error drops the rest  *)
(* of them and keeps the memory.                                           *)
(*                                                                         *)
(* A rename that was not followed by a directory sync may be undone by a   *)
(* power loss.  Renames are taken to be undone in reverse order, so such a *)
(* disk is one that a crash of the process leaves a few writes earlier.    *)
(***************************************************************************)
EXTENDS RecorderConfig, Sequences, SequencesExt

CONSTANTS
    MaxSlot,       \* slots are 1 .. MaxSlot
    MaxConfig,     \* configurations are 1 .. MaxConfig
    Commands,      \* the commands clients and operators submit
    FrameLimit,    \* RECORDER_WAL_HARD_FRAME_LIMIT
    MaxOps,        \* bound on the operations of a behaviour
    MaxCrashes,    \* bound on its crashes
    MaxErrors      \* bound on its I/O errors

ASSUME StoreAssumption ==
    /\ {MaxSlot, MaxConfig, FrameLimit} \subseteq Nat \ {0}
    /\ {MaxOps, MaxCrashes, MaxErrors} \subseteq Nat

VARIABLES
    disk,      \* the files of the recorder root
    mem,       \* RecorderFileStore: configuration, recorded head, WAL index
    todo,      \* the images still to be installed by the running operation
    ack,       \* what the running operation acknowledges when it returns
    acked,     \* what has been acknowledged
    budget     \* operations, crashes and errors so far

vars == <<disk, mem, todo, ack, acked, budget>>

Slots == 1 .. MaxSlot
Configs == 1 .. MaxConfig

-----------------------------------------------------------------------------
\* RecorderSlotState: the values it refers to, how often it was changed, and
\* whether a decision proof is installed.
NoState == [config |-> 0, values |-> {}, rev |-> 0, proof |-> FALSE]

\* RecordedHeadProvenance and WalCheckpoint.
EmptyHead == [kind |-> "empty", slot |-> 0]
SlotBacked(s) == [kind |-> "slot", slot |-> s]
CheckpointBacked(t) == [kind |-> "checkpoint", slot |-> t]
FirstGeneration == [generation |-> 1, through |-> 0]

NoConfiguration == InitialConfiguration(0)
NoHead == [config |-> 0, provenance |-> EmptyHead, checkpoint |-> FirstGeneration]
NoIntent == [slot |-> 0, state |-> NoState, configuration |-> NoConfiguration]
NoHeadIntent == [configuration |-> NoConfiguration, head |-> NoHead]
ZeroDigest == <<0, 0>>

BlankDisk ==
    [temporary |-> FALSE, slots |-> [s \in Slots |-> NoState], commands |-> {},
     configuration |-> NoConfiguration, head |-> NoHead, intent |-> NoIntent,
     headIntent |-> NoHeadIntent, wal |-> <<>>, loose |-> FALSE]

\* A store that has not read its files: RecorderWal::default and no head.
Closed ==
    [up |-> FALSE, configuration |-> NoConfiguration, head |-> EmptyHead,
     checkpoint |-> FirstGeneration, next |-> 1, last |-> ZeroDigest, count |-> 0,
     slots |-> [s \in Slots |-> NoState], commands |-> {}, failed |-> FALSE]

Image(d, m) == [disk |-> d, mem |-> m]

\* The image the sequence ends with, or the one it starts from.
Final(images, d, m) == IF images = <<>> THEN Image(d, m) ELSE Last(images)

\* head_after_slot_state
HeadAfter(head, cfg, s, state) ==
    IF cfg.max = s /\ state.values # {} THEN SlotBacked(s) ELSE head

\* load_unlocked: the WAL's copy of the slot, else the slot file, else a new
\* state of the current configuration.
Loaded(s) ==
    CASE mem.slots[s] # NoState -> mem.slots[s]
      [] mem.slots[s] = NoState /\ disk.slots[s] # NoState -> disk.slots[s]
      [] OTHER -> [NoState EXCEPT !.config = mem.configuration.id]

\* fetch_command_unlocked finds the command.
Available(c) == c \in mem.commands \cup disk.commands

-----------------------------------------------------------------------------
(* Writing *)

\* The writes of checkpoint_wal_unlocked, given the commands it promotes: the
\* commands, the slots, the configuration and the head are replaced in this
\* order, then the WAL is truncated.  With no frame of the current generation
\* there is nothing to do, whatever the file holds.
CheckpointImages(d, m, cs) ==
    LET next == [generation |-> m.checkpoint.generation + 1, through |-> m.next - 1]
        d1 == [d EXCEPT !.commands = @ \cup cs]
        d2 == [d1 EXCEPT !.slots = [s \in Slots |-> IF m.slots[s] = NoState
                                                    THEN d.slots[s] ELSE m.slots[s]]]
        d3 == [d2 EXCEPT !.configuration = m.configuration]
        d4 == [d3 EXCEPT !.head = [config |-> m.configuration.id,
                                   provenance |-> m.head, checkpoint |-> next]]
        d5 == [d4 EXCEPT !.wal = <<>>]
        done == [m EXCEPT !.checkpoint = next, !.last = ZeroDigest, !.count = 0,
                          !.slots = Closed.slots, !.commands = {}]
    IN  IF m.count = 0 THEN <<>>
        ELSE <<Image(d1, m), Image(d2, m), Image(d3, m), Image(d4, m), Image(d5, done)>>

\* A checkpoint that leaves the inline commands of the frames behind.
CheckpointDropsCommands(d, m) == CheckpointImages(d, m, {})

\* checkpoint_wal_unlocked
CheckpointWal(d, m) == CheckpointImages(d, m, m.commands)

\* store_command_unlocked: nothing when the WAL holds the command.
StoreCommands(d, m, cs) ==
    IF cs \subseteq m.commands THEN <<>>
    ELSE <<Image([d EXCEPT !.commands = @ \cup cs], m)>>

\* The writes of append_wal_unlocked and the publication of the configuration
\* and the head: the frame is written, synced, and then visible.
AppendImages(d, m, s, state, cfg, cs, rotate) ==
    LET first == IF rotate THEN CheckpointWal(d, m) ELSE <<>>
        b == Final(first, d, m)
        head == HeadAfter(b.mem.head, cfg, s, state)
        frame == [generation |-> b.mem.checkpoint.generation, sequence |-> b.mem.next,
                  previous |-> b.mem.last, slot |-> s, state |-> state,
                  configuration |-> cfg, head |-> head, commands |-> cs]
        written == [b.disk EXCEPT !.wal = Append(@, frame), !.loose = TRUE]
        published ==
           [b.mem EXCEPT !.slots[s] = state, !.commands = @ \cup cs,
                         !.next = @ + 1, !.count = @ + 1,
                         !.last = <<frame.generation, frame.sequence>>,
                         !.configuration = cfg, !.head = head]
    IN  first \o <<Image(written, b.mem),
                   Image([written EXCEPT !.loose = FALSE], published)>>

\* An append whose sync is left out.
AppendWithoutSync(d, m, s, state, cfg, cs, rotate) ==
    LET q == AppendImages(d, m, s, state, cfg, cs, rotate)
    IN  [q EXCEPT ![Len(q)].disk.loose = TRUE]

\* append_wal_unlocked
AppendWal(d, m, s, state, cfg, cs, rotate) ==
    AppendImages(d, m, s, state, cfg, cs, rotate)

\* The writes of commit_transition_unlocked: the intent, the slot, the
\* configuration and the head are replaced, the intent is removed, and the
\* result is published.  recover_intent repeats all but the first.
TransitionImages(d, m, s, state, cfg) ==
    LET head == HeadAfter(m.head, cfg, s, state)
        d1 == [d EXCEPT !.intent = [slot |-> s, state |-> state, configuration |-> cfg]]
        d2 == [d1 EXCEPT !.slots[s] = state]
        d3 == [d2 EXCEPT !.configuration = cfg]
        d4 == [d3 EXCEPT !.head = [config |-> cfg.id, provenance |-> head,
                                   checkpoint |-> m.checkpoint]]
        d5 == [d4 EXCEPT !.intent = NoIntent]
        done == [m EXCEPT !.configuration = cfg, !.head = head]
    IN  <<Image(d1, m), Image(d2, m), Image(d3, m), Image(d4, m), Image(d5, done)>>

\* A transition that writes no intent first.
TransitionWithoutIntent(d, m, s, state, cfg) ==
    LET q == TransitionImages(d, m, s, state, cfg)
    IN  [i \in 1 .. 4 |-> Image([q[i + 1].disk EXCEPT !.intent = NoIntent], q[i + 1].mem)]

\* commit_transition_unlocked
CommitTransition(d, m, s, state, cfg) == TransitionImages(d, m, s, state, cfg)

\* The writes of commit_configuration_head_unlocked.
ConfigurationHeadImages(d, m, cfg, head) ==
    LET record == [config |-> cfg.id, provenance |-> head, checkpoint |-> m.checkpoint]
        d1 == [d EXCEPT !.temporary = FALSE,
                        !.headIntent = [configuration |-> cfg, head |-> record]]
        d2 == [d1 EXCEPT !.configuration = cfg]
        d3 == [d2 EXCEPT !.head = record]
        d4 == [d3 EXCEPT !.headIntent = NoHeadIntent]
    IN  <<Image(d1, m), Image(d2, m), Image(d3, m), Image(d4, m)>>

\* A commit of configuration and head that writes no intent first.
ConfigurationHeadWithoutIntent(d, m, cfg, head) ==
    LET q == ConfigurationHeadImages(d, m, cfg, head)
    IN  [i \in 1 .. 4 |-> Image([q[i].disk EXCEPT !.headIntent = NoHeadIntent], m)]

\* commit_configuration_head_unlocked; publishing is left to the caller.
CommitConfigurationHead(d, m, cfg, head) == ConfigurationHeadImages(d, m, cfg, head)

\* recover_configuration_head_intent
RecoverHeadIntent(d, m) ==
    LET d1 == [d EXCEPT !.configuration = d.headIntent.configuration]
        d2 == [d1 EXCEPT !.head = d.headIntent.head]
        d3 == [d2 EXCEPT !.headIntent = NoHeadIntent]
    IN  IF d.headIntent = NoHeadIntent THEN <<>>
        ELSE <<Image(d1, m), Image(d2, m), Image(d3, m)>>

\* recover_intent: the head intent first, then the transition intent.
RecoverIntent(d, m) ==
    LET first == RecoverHeadIntent(d, m)
        b == Final(first, d, m).disk
    IN  IF b.intent = NoIntent THEN first
        ELSE first \o Tail(TransitionImages(b, m, b.intent.slot, b.intent.state,
                                            b.intent.configuration))

\* persist_state_transition_with_command_unlocked
Persist(d, m, s, state, cfg, cs, rotate) ==
    IF StructureChanged(m.configuration, cfg)
    THEN LET one == CheckpointWal(d, m)
             b == Final(one, d, m)
             two == StoreCommands(b.disk, b.mem, cs)
             c == Final(two, b.disk, b.mem)
         IN  one \o two \o CommitTransition(c.disk, c.mem, s, state, cfg)
    ELSE AppendWal(d, m, s, state, cfg, cs, rotate)

-----------------------------------------------------------------------------
(* Opening *)

\* The checks open_or_replay_wal makes of one frame, on the state the frames
\* before it lead to; frames of an older generation are skipped.
FrameFits(d, a, f) ==
    LET cached == d.commands \cup a.commands \cup f.commands
    IN  /\ f.generation = a.checkpoint.generation
        /\ f.sequence = a.next
        /\ f.previous = a.last
        /\ f.state.config = f.configuration.id
        /\ ~StructureChanged(a.configuration, f.configuration)
        /\ f.state.values \subseteq cached
        /\ f.head = HeadAfter(a.head, f.configuration, f.slot, f.state)

\* Applies one frame to the memory; "up" turns FALSE at the first misfit.
ReplayFrame(d, a, f) ==
    IF ~a.up \/ f.generation < a.checkpoint.generation THEN a
    ELSE [a EXCEPT !.up = FrameFits(d, a, f),
                   !.slots[f.slot] = f.state,
                   !.commands = @ \cup f.commands,
                   !.next = @ + 1, !.count = @ + 1,
                   !.last = <<f.generation, f.sequence>>,
                   !.configuration = f.configuration,
                   !.head = f.head]

\* open_or_replay_wal, from the memory that install_recorded_head leaves.
ReplayWal(d, m) == FoldLeft(LAMBDA a, f : ReplayFrame(d, a, f), m, d.wal)

\* What install_recorded_head demands of the head and the configuration.
HeadFits(d) ==
    LET head == d.head.provenance
        cfg == d.configuration
        state == d.slots[head.slot]
    IN  /\ head.kind = "slot" =>
             /\ state.config = cfg.id
             /\ state.values # {}
             /\ state.values \subseteq d.commands
        /\ head.kind = "checkpoint" =>
             /\ cfg.activated
             /\ cfg.predecessor # NoSeal
             /\ head.slot > cfg.predecessor.slot
             /\ cfg.max = head.slot

\* The memory after install_recorded_head and open_or_replay_wal; it is up
\* when neither returned an error.
Opened(d) ==
    ReplayWal(d, [Closed EXCEPT
                    !.up = HeadFits(d),
                    !.configuration = [d.configuration EXCEPT
                                         !.max = d.head.provenance.slot],
                    !.head = d.head.provenance,
                    !.checkpoint = d.head.checkpoint,
                    !.next = d.head.checkpoint.through + 1])

\* preflight_existing_with_membership_outcome for configuration c: an intent
\* needs an empty WAL, and without an intent the configuration, the head and
\* every frame must fit together.
Preflight(d, c) ==
    CASE d = BlankDisk -> TRUE
      [] d.intent # NoIntent ->
           /\ d.headIntent = NoHeadIntent
           /\ d.intent.configuration.id = c
           /\ d.intent.state.config = c
           /\ d.intent.state.values \subseteq d.commands
           /\ d.wal = <<>>
      [] d.intent = NoIntent /\ d.headIntent # NoHeadIntent ->
           /\ d.headIntent.configuration.id = c
           /\ d.headIntent.head.config = c
           /\ d.wal = <<>>
      [] OTHER ->
           /\ d.configuration.id = c
           /\ d.head.config = c
           /\ ReplayWal(d, [Closed EXCEPT !.up = TRUE,
                                          !.configuration = d.configuration,
                                          !.head = d.head.provenance,
                                          !.checkpoint = d.head.checkpoint,
                                          !.next = d.head.checkpoint.through + 1]).up

\* The writes of open_with_membership before the head and the WAL are read: a
\* new root is initialised, a pending intent is carried out.
OpenImages(d, c) ==
    IF d = BlankDisk
    THEN <<Image([d EXCEPT !.temporary = TRUE], Closed)>>
         \o CommitConfigurationHead(d, Closed, InitialConfiguration(c), EmptyHead)
    ELSE RecoverIntent(d, Closed)

\* open_with_membership succeeds.
Opens(d, c) ==
    /\ Preflight(d, c)
    /\ Opened(Final(OpenImages(d, c), d, Closed).disk).up

-----------------------------------------------------------------------------
(* Behaviour *)

NoAck == [slot |-> 0, rev |-> 0, configuration |-> NoConfiguration]

Init ==
    /\ disk = BlankDisk
    /\ mem = Closed
    /\ todo = <<>>
    /\ ack = NoAck
    /\ acked = [slots |-> [s \in Slots |-> NoAck], configuration |-> NoConfiguration]
    /\ budget = [ops |-> 0, crashes |-> 0, errors |-> 0]

Idle == mem.up /\ todo = <<>>

\* An intent that an I/O error left behind is recovered before anything else.
Settled == disk.intent = NoIntent /\ disk.headIntent = NoHeadIntent

\* Starts an operation that goes through the images and then acknowledges a.
Run(images, a) ==
    /\ budget.ops < MaxOps
    /\ budget' = [budget EXCEPT !.ops = @ + 1]
    /\ todo' = images
    /\ ack' = a
    /\ UNCHANGED <<disk, mem, acked>>

\* The WAL is checkpointed before an append at the frame limit, and at the
\* byte limit, which depends on the sizes of the commands.
Rotations == {r \in BOOLEAN : mem.count >= FrameLimit => r}

\* The step every operation takes first when it finds an intent.
RecoverPending ==
    /\ Idle
    /\ ~Settled
    /\ todo' = RecoverIntent(disk, mem)
    /\ ack' = NoAck
    /\ UNCHANGED <<disk, mem, acked, budget>>

\* record_proposal of command c at slot s, with the command in the request or
\* stored before.  A slot with a decision proof only answers.
RecordProposal(s, c, inline) ==
    LET cfg == mem.configuration
        old == Loaded(s)
        new == [old EXCEPT !.values = @ \cup {c}, !.rev = @ + 1]
        next == TransitionAfterApply(cfg, s, c, FALSE)
    IN  /\ Idle /\ Settled /\ ~mem.failed
        /\ inline \/ Available(c)
        /\ cfg.activated \/ c.kind # "normal"
        /\ ValidateSlotGate(cfg, s, c)
        /\ old.config = cfg.id
        /\ ~old.proof
        /\ CanTransition(cfg, s, c, FALSE)
        /\ \E rotate \in Rotations :
              Run(Persist(disk, mem, s, new, next, IF inline THEN {c} ELSE {}, rotate),
                  [slot |-> s, rev |-> new.rev, configuration |-> next])

\* install_decision_proof_record for a proof that c was decided at slot s.
InstallDecisionProof(s, c) ==
    LET cfg == mem.configuration
        old == Loaded(s)
        new == [old EXCEPT !.values = @ \cup {c}, !.rev = @ + 1, !.proof = TRUE]
        next == TransitionAfterApply(cfg, s, c, TRUE)
    IN  /\ Idle /\ Settled /\ ~mem.failed
        /\ Available(c)
        /\ old.config = cfg.id
        /\ ~old.proof
        /\ ValidateSlotGate(cfg, s, c)
        /\ CanTransition(cfg, s, c, TRUE)
        /\ \E rotate \in Rotations :
              Run(Persist(disk, mem, s, new, next, {}, rotate),
                  [slot |-> s, rev |-> new.rev, configuration |-> next])

\* store_command
StoreCommand(c) ==
    /\ Idle
    /\ ~Available(c)
    /\ Run(StoreCommands(disk, mem, {c}), NoAck)

\* A change of configuration that is committed through the head intent and
\* then published.
ChangeConfiguration(cfg, head, cs) ==
    LET one == CheckpointWal(disk, mem)
        b == Final(one, disk, mem)
        two == StoreCommands(b.disk, b.mem, cs)
        c == Final(two, b.disk, b.mem)
        three == CommitConfigurationHead(c.disk, c.mem, cfg, head)
        published == [c.mem EXCEPT !.configuration = cfg, !.head = head]
    IN  /\ Idle /\ Settled /\ ~mem.failed
        /\ Run(one \o two \o [three EXCEPT ![4].mem = published],
               [slot |-> 0, rev |-> 0, configuration |-> cfg])

\* install_successor_from_proof for a proof that the Stop c was decided at s.
\* A decided Stop is the last slot of its configuration, so the recorder has
\* no later value of it.
InstallSuccessor(s, c) ==
    /\ mem.configuration.id < MaxConfig
    /\ CanInstallSuccessor(mem.configuration, s, c)
    /\ mem.configuration.max <= s
    /\ ChangeConfiguration(Successor(mem.configuration, s, c), EmptyHead, {c})

\* recover_successor_activation_from_checkpoint at tip t
RecoverActivation(t) ==
    /\ CanRecoverActivation(mem.configuration, t)
    /\ ChangeConfiguration(Recovered(mem.configuration, t), CheckpointBacked(t), {})

\* The running operation makes its next write; after the last one it returns.
Write ==
    LET last == Len(todo) = 1
    IN  /\ todo # <<>>
        /\ disk' = Head(todo).disk
        /\ mem' = Head(todo).mem
        /\ todo' = Tail(todo)
        /\ acked' = IF ~last THEN acked
                    ELSE [slots |-> [s \in Slots |-> IF s = ack.slot THEN ack
                                                     ELSE acked.slots[s]],
                          configuration |-> IF ack.configuration = NoConfiguration
                                            THEN acked.configuration
                                            ELSE ack.configuration]
        /\ ack' = IF last THEN NoAck ELSE ack
        /\ UNCHANGED budget

\* The next write of the running operation fails before or after it took
\* effect, and the operation returns an error.  A failed write of the WAL file
\* disables it until the store is opened again.
WriteFails ==
    /\ mem.up
    /\ todo # <<>>
    /\ budget.errors < MaxErrors
    /\ budget' = [budget EXCEPT !.errors = @ + 1]
    /\ disk' \in {disk, Head(todo).disk}
    /\ mem' = [mem EXCEPT !.failed =
                  \/ mem.failed
                  \/ Head(todo).disk.wal # disk.wal
                  \/ Head(todo).disk.loose # disk.loose]
    /\ todo' = <<>>
    /\ ack' = NoAck
    /\ UNCHANGED acked

\* The process stops; a frame that was not synced is there or is lost.
Crash ==
    /\ mem.up \/ todo # <<>>
    /\ budget.crashes < MaxCrashes
    /\ budget' = [budget EXCEPT !.crashes = @ + 1]
    /\ \E kept \in {disk.wal} \cup (IF disk.loose THEN {Front(disk.wal)} ELSE {}) :
          disk' = [disk EXCEPT !.wal = kept, !.loose = FALSE]
    /\ mem' = Closed
    /\ todo' = <<>>
    /\ ack' = NoAck
    /\ UNCHANGED acked

\* open_with_membership for configuration c: a new root is created for the
\* first configuration only.
Open(c) ==
    LET images == OpenImages(disk, c)
        final == Final(images, disk, Closed).disk
    IN  /\ ~mem.up
        /\ todo = <<>>
        /\ Preflight(disk, c)
        /\ disk = BlankDisk => c = 1
        /\ todo' = IF Opened(final).up
                   THEN Append(images, Image(final, Opened(final)))
                   ELSE images
        /\ todo' # <<>>
        /\ UNCHANGED <<disk, mem, ack, acked, budget>>

Next ==
    \/ \E s \in Slots, c \in Commands :
          \/ \E inline \in BOOLEAN : RecordProposal(s, c, inline)
          \/ InstallDecisionProof(s, c)
          \/ InstallSuccessor(s, c)
    \/ \E c \in Commands : StoreCommand(c)
    \/ \E t \in Slots : RecoverActivation(t)
    \/ RecoverPending
    \/ Write
    \/ WriteFails
    \/ Crash
    \/ \E c \in Configs : Open(c)

Spec == Init /\ [][Next]_vars

-----------------------------------------------------------------------------
(* Properties *)

SlotStates ==
    [config : 0 .. MaxConfig, values : SUBSET Commands, rev : 0 .. MaxOps,
     proof : BOOLEAN]

\* The files and the memory index hold what their encodings can express, and
\* the WAL never holds more live frames than RECORDER_WAL_HARD_FRAME_LIMIT.
TypeOK ==
    /\ disk.slots \in [Slots -> SlotStates]
    /\ mem.slots \in [Slots -> SlotStates]
    /\ disk.commands \subseteq Commands
    /\ mem.commands \subseteq Commands
    /\ {disk.configuration.id, mem.configuration.id} \subseteq 0 .. MaxConfig
    /\ {disk.configuration.max, mem.configuration.max} \subseteq 0 .. MaxSlot
    /\ mem.count <= FrameLimit

\* No write has been reported as failed so far.
NoErrors == budget.errors = 0

\* A record or a proof that was acknowledged is still there when the store
\* answers again, through any crashes: record_proposal and
\* install_decision_proof_record return only after their state is durable.
AcknowledgedRecordsSurvive ==
    NoErrors /\ Idle =>
      \A s \in Slots :
        LET a == acked.slots[s]
        IN  a # NoAck /\ a.configuration.id = mem.configuration.id =>
              Loaded(s).config = a.configuration.id /\ Loaded(s).rev >= a.rev

\* An acknowledged seal, activation or successor is never taken back: only a
\* decision for another value at the sealed slot lifts a seal.
AcknowledgedConfigurationSurvives ==
    LET a == acked.configuration
        now == mem.configuration
    IN  Idle =>
          /\ now.id >= a.id
          /\ now.id = a.id =>
               /\ a.activated => now.activated
               /\ a.seal # NoSeal =>
                    now.seal = a.seal \/ Loaded(a.seal.slot).proof

\* What the store acknowledged is never lost or taken back, through any crashes:
\* no record, no proof, no seal, no activation and no successor.
AcknowledgedSurvives == AcknowledgedRecordsSurvive /\ AcknowledgedConfigurationSurvives

\* The highest accepted slot, which decides whether a Stop may be recorded, is
\* never below a slot that holds a value, and the recorded head agrees with it.
HighestSlotIsKnown ==
    LET cfg == mem.configuration
        used == {s \in Slots : Loaded(s).config = cfg.id /\ Loaded(s).values # {}}
    IN  NoErrors /\ Idle =>
          /\ \A s \in used : s <= cfg.max
          /\ cfg.max = mem.head.slot
          /\ mem.head.kind = "slot" => cfg.max \in used

\* Every value of a slot state can be resolved to its command, which
\* record_proposal, the proofs and the next opening of the store rely on.
CommandsStayAvailable ==
    Idle => \A s \in Slots :
              Loaded(s).config = mem.configuration.id =>
                \A c \in Loaded(s).values : Available(c)

\* While the configuration is sealed at a slot, no later slot of it holds a
\* value: what validate_slot_gate is for, before and after a restart.
NothingAfterTheSeal ==
    LET cfg == mem.configuration
    IN  NoErrors /\ Idle /\ cfg.seal # NoSeal =>
          \A s \in Slots : s > cfg.seal.slot /\ Loaded(s).config = cfg.id =>
                             Loaded(s).values = {}

Stopped == ~mem.up /\ todo = <<>>

Openable == \E c \in Configs : Opens(disk, c)

\* An intent is on disk together with frames of an earlier generation.
IntentOverStaleFrames ==
    /\ disk.intent # NoIntent \/ disk.headIntent # NoHeadIntent
    /\ \E i \in DOMAIN disk.wal : TRUE

\* The configuration was replaced by a checkpoint, the head was not.
ConfigurationAheadOfHead ==
    /\ disk.head.provenance.kind = "checkpoint"
    /\ disk.configuration.max > disk.head.provenance.slot

\* The root holds nothing but the temporary file of its first write.
OnlyATemporaryFile == disk.temporary /\ disk.configuration = NoConfiguration

\* Whatever two writes a crash falls between, the store opens again, except
\* in three states of the files: the ones named above.
ReopensOutsideThreeStates ==
    NoErrors /\ Stopped =>
      \/ Openable
      \/ IntentOverStaleFrames
      \/ ConfigurationAheadOfHead
      \/ OnlyATemporaryFile

\* The store is consistent between any two writes: its files and its memory have
\* their types, and the highest slot it ever recorded is known to it.
StoreConsistent == TypeOK /\ HighestSlotIsKnown

=============================================================================
