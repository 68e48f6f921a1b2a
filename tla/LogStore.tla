------------------------------ MODULE LogStore ------------------------------
(***************************************************************************)
(* FileLogStore of rhiza-log: closed segments, one open segment, the       *)
(* recovery anchor and the two intents are files of one directory.  An     *)
(* operation is a sequence of file-system steps, and a crash may come      *)
(* between any two of them, in reopening too.  What a crash leaves of a    *)
(* name is its entry at the last directory sync or its latest one, and of  *)
(* the open segment a prefix that covers the last data sync (a partial     *)
(* frame behind it is cut by recover_open_segment_file).                   *)
(***************************************************************************)
EXTENDS Naturals, Sequences, FiniteSets, SequencesExt

CONSTANTS
    MaxIndex,        \* bound on the index of an entry
    SegmentEntries,  \* OPEN_SEGMENT_MAX_ENTRIES
    MaxBatch         \* bound on the entries of one append

ASSUME LogAssumption ==
    /\ MaxIndex \in Nat /\ SegmentEntries \in Nat \ {0}
    /\ MaxBatch \in Nat \ {0}

VARIABLES
    disk,      \* the files of the directory
    stable,    \* the files of the directory at its last sync
    tail,      \* the open segment's data: all of it, and how much is synced
    mem,       \* FileLogStoreInner
    todo,      \* the steps the running operation has left
    acked      \* the chain a caller was told is durable

vars == <<disk, stable, tail, mem, todo, acked>>

Entries == {"put", "stop", "activate"}

\* ConfigurationState::validate_entry: after a Stop only the activation of the
\* successor, and that only after a Stop.
Chains ==
    {c \in BoundedSeq(Entries, MaxIndex) :
       \A i \in DOMAIN c : c[i] = "activate" <=> i > 1 /\ c[i - 1] = "stop"}

\* The configuration an entry belongs to: an activation opens the next one.
ConfigAt(chain, i) == 1 + Cardinality({k \in 1 .. i : chain[k] = "activate"})

-----------------------------------------------------------------------------
(* Files.  A segment holds the entries from start to the end of its chain. *)

Closed(start, chain) == [kind |-> "closed", start |-> start, chain |-> chain]
Temp(segment) == [segment EXCEPT !.kind = "temp"]
Open(start, config) == [kind |-> "open", start |-> start, config |-> config]
Anchor(chain) == [kind |-> "anchor", chain |-> chain]

\* A file's name.
Name(f) ==
    IF f.kind \in {"closed", "temp"} THEN <<f.kind, f.start, Len(f.chain)>>
    ELSE IF f.kind = "open" THEN <<f.kind, f.start, 0>>
    ELSE <<f.kind, 0, 0>>

Put(dir, f) == {g \in dir : Name(g) # Name(f)} \cup {f}

Without(dir, names) == {g \in dir : Name(g) \notin names}

OfKind(dir, kind) == {f \in dir : f.kind = kind}

Prev(segment) == SubSeq(segment.chain, 1, segment.start - 1)

\* read_anchor
AnchorOf(dir) ==
    IF OfKind(dir, "anchor") = {} THEN <<>> ELSE (CHOOSE f \in OfKind(dir, "anchor") : TRUE).chain

-----------------------------------------------------------------------------
(* Reading the directory. *)

\* scan_closed_segments sorts by start and end, and each segment has to
\* continue the one before.
Before(a, b) == a.start < b.start \/ (a.start = b.start /\ Len(a.chain) < Len(b.chain))

TipOf(segments, anchor) ==
    IF segments = {} THEN anchor
    ELSE (CHOOSE s \in segments : \A t \in segments \ {s} : Before(t, s)).chain

ClosedTip(dir) == TipOf(OfKind(dir, "closed"), AnchorOf(dir))

ClosedFit(dir) ==
    \A s \in OfKind(dir, "closed") :
      Prev(s) = TipOf({t \in OfKind(dir, "closed") : Before(t, s)}, AnchorOf(dir))

\* scan_open_segment: the open segment is the copy of a closed one ...
OpenIsCopy(dir, data) ==
    \E o \in OfKind(dir, "open"), s \in OfKind(dir, "closed") :
      s.start = o.start /\ s.chain = data

\* ... or starts at the retained tip.
OpenFits(dir, data) ==
    /\ Cardinality(OfKind(dir, "open")) <= 1
    /\ \A o \in OfKind(dir, "open") :
         /\ o.start = Len(ClosedTip(dir)) + 1
         /\ Len(data) >= o.start => SubSeq(data, 1, o.start - 1) = ClosedTip(dir)

Down == [up |-> FALSE, anchor |-> <<>>, closed |-> {}, open |-> {}, chain |-> <<>>]

\* The state open_with_configuration builds from what it scanned.
Scanned(dir, data) ==
    LET o == IF OpenIsCopy(dir, data) THEN {} ELSE OfKind(dir, "open")
    IN  [up |-> TRUE, anchor |-> AnchorOf(dir), closed |-> OfKind(dir, "closed"), open |-> o,
         chain |-> IF \E f \in o : Len(data) >= f.start THEN data ELSE ClosedTip(dir)]

Scans(dir, data) == ClosedFit(dir) /\ (OpenIsCopy(dir, data) \/ OpenFits(dir, data))

-----------------------------------------------------------------------------
(* Steps of an operation.  The last three kinds expand into steps that     *)
(* depend on the state the earlier ones have left.                         *)

PutFile(f) == [do |-> "put", file |-> f]
RemoveFiles(names) == [do |-> "remove", names |-> names]
InstallReplacement(new) == [do |-> "install", new |-> new]
SyncDirectory == [do |-> "sync_directory"]
SyncData == [do |-> "sync_data"]
Write(chain) == [do |-> "write", chain |-> chain]
SetMem(m) == [do |-> "mem", mem |-> m]
Return(chain) == [do |-> "return", chain |-> chain]
AppendRest(chain, sync) == [do |-> "append", chain |-> chain, sync |-> sync]
CompactTo(chain) == [do |-> "compact", chain |-> chain]
TruncateFrom(from) == [do |-> "truncate", from |-> from]
RecoverTruncate == [do |-> "recover_truncate"]
RecoverCompact == [do |-> "recover_compact"]
Scan == [do |-> "scan"]

\* seal_open_segment that drops the open file before its closed copy is there.
SealRemovesFirst(m) ==
    IF m.open = {} THEN <<>>
    ELSE LET o == CHOOSE f \in m.open : TRUE
         IN  IF Len(m.chain) < o.start
             THEN <<SyncData, RemoveFiles({Name(o)}), SetMem([m EXCEPT !.open = {}]), SyncDirectory>>
             ELSE <<SyncData, RemoveFiles({Name(o)}), SyncDirectory, PutFile(Closed(o.start, m.chain)),
                    SetMem([m EXCEPT !.open = {}, !.closed = @ \cup {Closed(o.start, m.chain)}]),
                    SyncDirectory>>

\* seal_open_segment: publish the closed copy, then drop the open file.
Seal(m) ==
    IF m.open = {} THEN <<>>
    ELSE LET o == CHOOSE f \in m.open : TRUE
         IN  IF Len(m.chain) < o.start
             THEN <<SyncData, RemoveFiles({Name(o)}), SetMem([m EXCEPT !.open = {}]), SyncDirectory>>
             ELSE <<SyncData, PutFile(Closed(o.start, m.chain)), SyncDirectory, RemoveFiles({Name(o)}),
                    SetMem([m EXCEPT !.open = {}, !.closed = @ \cup {Closed(o.start, m.chain)}]),
                    SyncDirectory>>

Sealed(m) ==
    [m EXCEPT !.open = {},
              !.closed = IF \E o \in m.open : Len(m.chain) >= o.start
                         THEN @ \cup {Closed((CHOOSE o \in m.open : TRUE).start, m.chain)}
                         ELSE @]

\* ensure_open_segment, after the seal of another configuration's segment.
CreateOpen(m, chain) ==
    LET next == Len(m.chain) + 1
        o    == Open(next, ConfigAt(chain, next))
    IN  <<PutFile(o), SyncDirectory, SetMem([Sealed(m) EXCEPT !.open = {o}])>>

\* The longest part of chain that open_segment_chunk_len lets into segment o.
Chunk(m, chain, o) ==
    LET room == {i \in Len(m.chain) + 1 .. Len(chain) :
                   /\ i - o.start < SegmentEntries
                   /\ \A k \in Len(m.chain) + 1 .. i : ConfigAt(chain, k) = o.config}
    IN  IF room = {} THEN m.chain ELSE SubSeq(chain, 1, CHOOSE i \in room : \A k \in room : k <= i)

\* append_batch_to_open_segment: one chunk after the other.
AppendSteps(m, chain, sync) ==
    IF m.chain = chain THEN (IF sync THEN <<SyncData>> ELSE <<>>)
    ELSE IF \E o \in m.open : o.config = ConfigAt(chain, Len(m.chain) + 1)
    THEN LET chunk == Chunk(m, chain, CHOOSE o \in m.open : TRUE)
         IN  (IF chunk = m.chain THEN Seal(m)
              ELSE <<Write(chunk), SetMem([m EXCEPT !.chain = chunk])>>)
             \o <<AppendRest(chain, sync)>>
    ELSE Seal(m) \o CreateOpen(m, chain) \o <<AppendRest(chain, sync)>>

\* The replacement of an intent, written to a temporary file first.
Prepare(new) ==
    IF new = {} THEN <<>> ELSE <<PutFile(Temp(CHOOSE s \in new : TRUE)), SyncDirectory>>

Publish(intent) == <<PutFile(intent), SyncDirectory>>

\* apply_truncate_intent
ApplyTruncate(intent) ==
    <<RemoveFiles(intent.old), InstallReplacement(intent.new), SyncDirectory,
      RemoveFiles({<<"truncate", 0, 0>>}), SyncDirectory>>

\* apply_compact_intent: the anchor first, unless it is there already.
ApplyCompact(intent) ==
    <<PutFile(Anchor(intent.anchor)), SyncDirectory, RemoveFiles(intent.old),
      InstallReplacement(intent.new), SyncDirectory,
      RemoveFiles({<<"compact", 0, 0>>}), SyncDirectory>>

\* truncate_suffix_with_hook: the segments from the one that holds `from` on go,
\* and its entries before `from` come back as a segment.
TruncateSteps(m, from) ==
    LET old    == {s \in m.closed : Len(s.chain) >= from}
        new    == {Closed(s.start, SubSeq(s.chain, 1, from - 1)) : s \in {t \in old : t.start < from}}
        intent == [kind |-> "truncate", old |-> {Name(s) : s \in old}, new |-> new]
    IN  IF old = {} THEN <<Scan>>
        ELSE Prepare(new) \o Publish(intent) \o ApplyTruncate(intent) \o <<Scan>>

\* A compaction that leaves the segments in memory as they were.
CompactWithoutScan(m, target) ==
    LET old    == {s \in m.closed : s.start <= Len(target)}
        new    == {Closed(Len(target) + 1, s.chain) : s \in {t \in old : Len(t.chain) > Len(target)}}
        intent == [kind |-> "compact", previous |-> m.anchor, anchor |-> target,
                   old |-> {Name(s) : s \in old}, new |-> new]
    IN  Prepare(new) \o Publish(intent) \o ApplyCompact(intent)
        \o <<SetMem([m EXCEPT !.anchor = target])>>

\* compact_prefix_with_hook: the segments that start at or before the target
\* go, and what the last one holds above it comes back as a segment.
CompactSteps(m, target) ==
    LET old    == {s \in m.closed : s.start <= Len(target)}
        new    == {Closed(Len(target) + 1, s.chain) : s \in {t \in old : Len(t.chain) > Len(target)}}
        intent == [kind |-> "compact", previous |-> m.anchor, anchor |-> target,
                   old |-> {Name(s) : s \in old}, new |-> new]
    IN  Prepare(new) \o Publish(intent) \o ApplyCompact(intent) \o <<Scan>>

-----------------------------------------------------------------------------
(* The steps. *)

Finish == todo' = Tail(todo)

Change(dir) == disk' = dir /\ Finish /\ UNCHANGED <<stable, tail, mem, acked>>

Expand(steps) == todo' = steps \o Tail(todo) /\ UNCHANGED <<disk, stable, tail, mem, acked>>

At(kind) == todo # <<>> /\ Head(todo).do = kind

\* A created open segment has no data yet.
DoPut ==
    /\ At("put")
    /\ disk' = Put(disk, Head(todo).file)
    /\ tail' = IF Head(todo).file.kind = "open"
               THEN [chain |-> mem.chain, synced |-> Len(mem.chain)] ELSE tail
    /\ Finish
    /\ UNCHANGED <<stable, mem, acked>>

DoRemove == At("remove") /\ Change(Without(disk, Head(todo).names))

\* install_replacement: rename the temporary file, unless that is done.
Replaced(dir, new) ==
    {f \in dir : f \notin {Temp(s) : s \in new}} \cup new

Replaceable(dir, new) == \A s \in new : s \in dir \/ Temp(s) \in dir

DoInstall ==
    /\ At("install")
    /\ Replaceable(disk, Head(todo).new)
    /\ Change(Replaced(disk, Head(todo).new))

DoSyncDirectory ==
    /\ At("sync_directory")
    /\ stable' = disk
    /\ Finish
    /\ UNCHANGED <<disk, tail, mem, acked>>

DoSyncData ==
    /\ At("sync_data")
    /\ tail' = [tail EXCEPT !.synced = Len(tail.chain)]
    /\ Finish
    /\ UNCHANGED <<disk, stable, mem, acked>>

DoWrite ==
    /\ At("write")
    /\ tail' = [tail EXCEPT !.chain = Head(todo).chain]
    /\ Finish
    /\ UNCHANGED <<disk, stable, mem, acked>>

DoMem ==
    /\ At("mem")
    /\ mem' = Head(todo).mem
    /\ Finish
    /\ UNCHANGED <<disk, stable, tail, acked>>

\* The operation returns, and what it wrote is promised.
DoReturn ==
    /\ At("return")
    /\ acked' = Head(todo).chain
    /\ Finish
    /\ UNCHANGED <<disk, stable, tail, mem>>

DoAppend == At("append") /\ Expand(AppendSteps(mem, Head(todo).chain, Head(todo).sync))

DoTruncate == At("truncate") /\ Expand(TruncateSteps(mem, Head(todo).from))

DoCompact == At("compact") /\ Expand(CompactSteps(mem, Head(todo).chain))

DoRecoverTruncate ==
    /\ At("recover_truncate")
    /\ Expand(IF OfKind(disk, "truncate") = {} THEN <<>>
              ELSE ApplyTruncate(CHOOSE f \in OfKind(disk, "truncate") : TRUE))

DoRecoverCompact ==
    /\ At("recover_compact")
    /\ Expand(IF OfKind(disk, "compact") = {} THEN <<>>
              ELSE ApplyCompact(CHOOSE f \in OfKind(disk, "compact") : TRUE))

\* The scans, which also drop an open copy of a closed segment.
DoScan ==
    /\ At("scan")
    /\ Scans(disk, tail.chain)
    /\ todo' = (IF OpenIsCopy(disk, tail.chain)
                THEN <<RemoveFiles({Name(f) : f \in OfKind(disk, "open")}), SyncDirectory>>
                ELSE <<>>)
               \o <<SetMem(Scanned(disk, tail.chain))>> \o Tail(todo)
    /\ UNCHANGED <<disk, stable, tail, mem, acked>>

Step ==
    \/ DoPut \/ DoRemove \/ DoInstall \/ DoSyncDirectory \/ DoSyncData \/ DoWrite \/ DoMem \/ DoReturn
    \/ DoAppend \/ DoTruncate \/ DoCompact \/ DoRecoverTruncate \/ DoRecoverCompact \/ DoScan

-----------------------------------------------------------------------------
(* The operations and the environment. *)

Idle == mem.up /\ todo = <<>>

Begin(steps) == todo' = steps /\ UNCHANGED <<disk, stable, tail, mem, acked>>

\* An append_batch that never syncs.
AppendBatchUnsynced(chain, sync) ==
    /\ Idle
    /\ IsStrictPrefix(mem.chain, chain)
    /\ Len(chain) <= Len(mem.chain) + MaxBatch
    /\ Begin(<<AppendRest(chain, FALSE)>> \o (IF sync THEN <<Return(chain)>> ELSE <<>>))

\* append, append_batch and append_batch_buffered of entries that continue the
\* log (validate_append refuses others).
AppendBatch(chain, sync) ==
    /\ Idle
    /\ IsStrictPrefix(mem.chain, chain)
    /\ Len(chain) <= Len(mem.chain) + MaxBatch
    /\ Begin(<<AppendRest(chain, sync)>> \o (IF sync THEN <<Return(chain)>> ELSE <<>>))

\* sync
Sync == Idle /\ mem.open # {} /\ tail.synced < Len(tail.chain) /\ Begin(<<SyncData, Return(mem.chain)>>)

\* truncate_suffix; a compacted prefix cannot be truncated.
TruncateSuffix(from) ==
    /\ Idle
    /\ from > Len(mem.anchor)
    /\ todo' = Seal(mem) \o <<TruncateFrom(from)>>
    /\ acked' = IF Len(acked) < from THEN acked ELSE SubSeq(acked, 1, from - 1)
    /\ UNCHANGED <<disk, stable, tail, mem>>

\* compact_prefix: validate_compaction lets the anchor only advance, to an
\* entry of the log.
CompactPrefix(i) ==
    /\ Idle
    /\ i > Len(mem.anchor) /\ i <= Len(mem.chain)
    /\ Begin(Seal(mem) \o <<CompactTo(SubSeq(mem.chain, 1, i)), Return(mem.chain)>>)

\* install_recovery_anchor, on an empty store only.
InstallRecoveryAnchor(chain) ==
    /\ Idle
    /\ mem.anchor = <<>> /\ mem.closed = {} /\ mem.open = {}
    /\ chain # <<>>
    /\ Begin(<<PutFile(Anchor(chain)), SyncDirectory,
               SetMem([mem EXCEPT !.anchor = chain, !.chain = chain]), Return(chain)>>)

\* recover_truncate_intent, recover_compact_intent and the two scans.
OpenStore ==
    /\ ~mem.up
    /\ todo = <<>>
    /\ Begin(<<RecoverTruncate, RecoverCompact, Scan>>)

\* What a crash may leave of the directory: per name the synced or the latest
\* entry; a rename moves both of its names or none.
Images ==
    LET changed  == {Name(f) : f \in (disk \ stable) \cup (stable \ disk)}
        renamed  == {s \in OfKind(disk, "closed") : Temp(s) \in stable /\ Temp(s) \notin disk}
        coherent == {K \in SUBSET changed :
                       \A s \in renamed : Name(s) \in K <=> Name(Temp(s)) \in K}
    IN  {Without(disk, K) \cup {f \in stable : Name(f) \in K} : K \in coherent}

Tails == {SubSeq(tail.chain, 1, i) : i \in tail.synced .. Len(tail.chain)}

\* Temporary files that no intent names are never looked at again.
Orphans(dir) ==
    {f \in OfKind(dir, "temp") :
       \A t \in OfKind(dir, "truncate") \cup OfKind(dir, "compact") : f \notin {Temp(s) : s \in t.new}}

Crash ==
    /\ mem.up \/ todo # <<>>
    /\ \E dir \in Images, data \in Tails :
         /\ disk' = dir \ Orphans(dir) /\ stable' = disk'
         /\ tail' = [chain |-> data, synced |-> Len(data)]
    /\ mem' = Down
    /\ todo' = <<>>
    /\ UNCHANGED acked

Init ==
    /\ disk = {} /\ stable = {}
    /\ tail = [chain |-> <<>>, synced |-> 0]
    /\ mem = Down
    /\ todo = <<>>
    /\ acked = <<>>

Next ==
    \/ Step
    \/ \E chain \in Chains, sync \in BOOLEAN : AppendBatch(chain, sync)
    \/ Sync
    \/ \E i \in 1 .. MaxIndex + 1 : TruncateSuffix(i) \/ CompactPrefix(i)
    \/ \E chain \in Chains : InstallRecoveryAnchor(chain)
    \/ OpenStore
    \/ Crash

Spec == Init /\ [][Next]_vars

-----------------------------------------------------------------------------
(* Properties *)

\* What the two intents in a directory make of it.
Settled(dir) ==
    LET cut == IF OfKind(dir, "truncate") = {} THEN dir
               ELSE LET t == CHOOSE f \in OfKind(dir, "truncate") : TRUE
                    IN  Replaced(Without(dir, t.old), t.new) \ {t}
    IN  IF OfKind(cut, "compact") = {} THEN cut
        ELSE LET c == CHOOSE f \in OfKind(cut, "compact") : TRUE
             IN  Put(Replaced(Without(cut, c.old), c.new), Anchor(c.anchor)) \ {c}

Recoverable(dir, data) ==
    /\ \A t \in OfKind(dir, "truncate") \cup OfKind(dir, "compact") : Replaceable(dir, t.new)
    /\ \A c \in OfKind(dir, "compact") : AnchorOf(dir) \in {c.previous, c.anchor}
    /\ Scans(Settled(dir), data)

Lost == [anchor |-> <<>>, chain |-> <<"lost">>]

\* The log that reopening the directory would find.
ContentOf(dir, data) ==
    IF Recoverable(dir, data)
    THEN LET m == Scanned(Settled(dir), data) IN [anchor |-> m.anchor, chain |-> m.chain]
    ELSE Lost

Content == ContentOf(disk, tail.chain)

Fallback == {ContentOf(dir, data) : dir \in Images, data \in Tails}

Log == INSTANCE DurableLog WITH content <- Content, fallback <- Fallback

\* The files, at every instant of every operation, stand for one log that only
\* grows, is cut or is compacted as a whole, and a crash at any instant falls
\* back to a log the directory stood for since the last sync: nothing synced is
\* lost, nothing truncated comes back, and reopening never fails.
ImplementsLog == Log!Spec

\* The steps, the directory and the open segment have their types; there is
\* never more than one open segment.
TypeOK ==
    /\ tail.chain \in Chains /\ tail.synced \in 0 .. Len(tail.chain)
    /\ mem.chain \in Chains /\ mem.up \in BOOLEAN
    /\ Cardinality(OfKind(disk, "open")) <= 1

\* Between operations the store in memory is what a reopen would build, so
\* read, read_range and logical_state answer from the files' content.
MemoryMatchesFiles ==
    Idle => /\ Recoverable(disk, tail.chain)
            /\ mem = Scanned(disk, tail.chain)

\* No two closed segments overlap and no intent is left behind when an
\* operation returns, whatever crashes it went through.
NothingLeftBehind ==
    Idle => /\ OfKind(disk, "truncate") \cup OfKind(disk, "compact") = {}
            /\ \A a, b \in OfKind(disk, "closed") :
                 a # b => Len(a.chain) < b.start \/ Len(b.chain) < a.start

\* What an operation with a sync has returned for survives every crash, one in
\* the middle of a later operation or of a reopening too.
ReturnedIsDurable ==
    \A c \in Fallback : IsPrefix(acked, c.chain)

\* The store is consistent: an open store remembers what its files say, and an
\* operation that returned leaves no intent or temporary file behind.
FilesConsistent == TypeOK /\ MemoryMatchesFiles /\ NothingLeftBehind

=============================================================================
