----------------------------- MODULE QwalEffect -----------------------------
(***************************************************************************)
(* PageStateCacheV3: the Merkle tree over the pages of a closed database.  *)
(* The materializer never rehashes the file while it runs: it derives the  *)
(* root of a target with an overlay, and after an install it patches the   *)
(* cached levels in place.  Only opening a file builds them from scratch.  *)
(*                                                                         *)
(* A database is the sequence of its page images.  A digest is the term it *)
(* digests: equal digests mean equal contents.                             *)
(***************************************************************************)
EXTENDS Naturals, Sequences, SequencesExt, FiniteSets, Functions

Leaf(page, image) == <<"leaf", page, image>>
Internal(height, left, right) == <<"internal", height, left, right>>

\* tree_height: the least height whose tree has a leaf for every page.
TreeHeight(count) == CHOOSE h \in 0 .. count : 2 ^ h >= count /\ \A k \in 0 .. h - 1 : 2 ^ k < count

DivCeil(n, d) == (n + d - 1) \div d

\* empty_subtrees, by height.
Empty[height \in Nat] ==
    IF height = 0 THEN <<>> ELSE Internal(height, Empty[height - 1], Empty[height - 1])

\* The child of a level, or the empty subtree that fills its right edge.
Child(children, i, height) == IF i <= Len(children) THEN children[i] ELSE Empty[height]

Parent(children, i, height) ==
    Internal(height, children[2 * i - 1], Child(children, 2 * i, height - 1))

Upwards(height) == [h \in 1 .. height |-> h]

\* from_pages: levels[1] holds the leaves, every later level the parents of
\* the one before it.
FromPages(pages) ==
    FoldLeft(LAMBDA levels, h :
                 Append(levels, [i \in 1 .. DivCeil(Len(Last(levels)), 2) |->
                                    Parent(Last(levels), i, h)]),
             << [i \in 1 .. Len(pages) |-> Leaf(i, pages[i])] >>,
             Upwards(TreeHeight(Len(pages))))

PageCount(levels) == Len(levels[1])

\* StateIdentityV3: it binds the page count and the root.
Identity(levels) == [count |-> PageCount(levels), root |-> Last(levels)[1]]

\* validate_and_hash: a patch maps page numbers to after-images.
ValidPatch(levels, count, patch) ==
    /\ count > 0
    /\ DOMAIN patch \subseteq 1 .. count
    /\ PageCount(levels) + 1 .. count \subseteq DOMAIN patch

\* overlay: the identity of the target, from the patched leaves and from the
\* cached subtrees no patch reaches.
Overlay(levels, count, patch) ==
    LET Node[height \in 0 .. TreeHeight(count), k \in 0 .. count] ==
            LET start == k * 2 ^ height
                end == start + 2 ^ height
            IN  IF start >= count THEN Empty[height]
                ELSE IF /\ DOMAIN patch \cap (start + 1 .. end) = {}
                        /\ end <= PageCount(levels)
                        /\ end <= count
                     THEN levels[height + 1][k + 1]
                ELSE IF height = 0 THEN Leaf(start + 1, patch[start + 1])
                ELSE Internal(height, Node[height - 1, 2 * k], Node[height - 1, 2 * k + 1])
    IN  [count |-> count, root |-> Node[TreeHeight(count), 0]]

\* Vec::resize of a level that may not exist yet.
Resized(levels, at, length, filler) ==
    [i \in 1 .. length |->
        IF at <= Len(levels) /\ i <= Len(levels[at]) THEN levels[at][i] ELSE filler]

\* The leaves whose path is hashed again: the patched pages, and the new last
\* page of a database that shrinks.
Dirty(levels, count, patch) ==
    DOMAIN patch \cup (IF count < PageCount(levels) THEN {count} ELSE {})

\* apply_patch: every level is resized, and the path above each dirty leaf is
\* hashed again, level by level.
ApplyPatch(levels, count, patch) ==
    LET leaves == [i \in 1 .. count |->
                      IF i \in DOMAIN patch THEN Leaf(i, patch[i])
                      ELSE Resized(levels, 1, count, Empty[0])[i]]
        Up(acc, h) ==
            LET parents == {DivCeil(i, 2) : i \in acc.dirty}
                old == Resized(levels, h + 1, DivCeil(count, 2 ^ h), Empty[h])
            IN  [levels |-> Append(acc.levels,
                                   [i \in DOMAIN old |-> IF i \in parents
                                                         THEN Parent(Last(acc.levels), i, h)
                                                         ELSE old[i]]),
                 dirty |-> parents]
    IN  FoldLeft(Up, [levels |-> <<leaves>>, dirty |-> Dirty(levels, count, patch)],
                 Upwards(TreeHeight(count))).levels

-----------------------------------------------------------------------------
(***************************************************************************)
(* The physical effect of a SQL batch: what the speculative transaction    *)
(* left in the WAL of a private copy of the database, captured into the    *)
(* after-images of the pages that changed.                                 *)
(***************************************************************************)

CONSTANTS
    Image,      \* the images a page can have
    MaxPages,   \* the largest database
    MaxFrames   \* MAX_QWAL_V3_BYTES, in frames

Databases == UNION {[1 .. n -> Image] : n \in 1 .. MaxPages}

\* What SQLite may write to the WAL of one transaction on a base: frames in
\* the order of their writes, the last one carrying the size of the database.
\* Pages the transaction allocates are all written; a page may be written
\* several times, with the image it had, or beyond the final end of the file.
Frame == [page : 1 .. MaxPages, image : Image]
Wal(base) ==
    {w \in [frames : BoundedSeq(Frame, MaxFrames) \ {<<>>}, commit : 1 .. MaxPages] :
        \A p \in Len(base) + 1 .. w.commit : \E k \in DOMAIN w.frames : w.frames[k].page = p}

\* What a reader of the database sees once the transaction has committed.
Committed(base, wal) ==
    [p \in 1 .. wal.commit |->
        LET written == {k \in DOMAIN wal.frames : wal.frames[k].page = p}
        IN  IF written = {} THEN base[p]
            ELSE wal.frames[CHOOSE k \in written : \A j \in written : j <= k].image]

\* capture_wal: the last image of every page up to the final end of the file.
Capture(wal) ==
    LET Insert(pages, f) == (f.page :> f.image) @@ pages
        all == FoldLeft(Insert, <<>>, wal.frames)
    IN  Restrict(all, DOMAIN all \cap (1 .. wal.commit))

\* The limits of capture_wal: a WAL with too many frames exhausts the effect,
\* and a growth must bring every new page.
CaptureFits(wal) == Len(wal.frames) <= MaxFrames
CaptureComplete(base, wal) == Len(base) + 1 .. wal.commit \subseteq DOMAIN Capture(wal)

\* materialize_wal_capture: the captured pages are written into the private
\* copy, cut to the committed size; the effect keeps those that differ.
Materialized(base, wal) ==
    [p \in 1 .. wal.commit |->
        IF p \in DOMAIN Capture(wal) THEN Capture(wal)[p] ELSE base[p]]
Changed(base, wal) ==
    LET pages == Capture(wal)
    IN  Restrict(pages, {p \in DOMAIN pages : p > Len(base) \/ pages[p] # base[p]})

\* QwalEnvelopeV3: the effect binds the index and the state it starts from and
\* the state it leads to.
Effect(index, levels, base, wal) ==
    [base |-> index, from |-> Identity(levels), count |-> wal.commit,
     patch |-> Changed(base, wal), target |-> Overlay(levels, wal.commit, Changed(base, wal))]

\* QwalEnvelopeV3::validate
ValidEffect(e) ==
    /\ e.from.count > 0 /\ e.count > 0 /\ e.target.count = e.count
    /\ DOMAIN e.patch \subseteq 1 .. e.count
    /\ e.from.count + 1 .. e.count \subseteq DOMAIN e.patch
    /\ Cardinality(DOMAIN e.patch) <= MaxFrames

\* set_len, the first step of an install in place.
Truncated(pages, count, hole) ==
    [p \in 1 .. count |-> IF p <= Len(pages) THEN pages[p] ELSE hole]

\* The whole effect on a database.
Patched(pages, e) ==
    [p \in 1 .. e.count |-> IF p \in DOMAIN e.patch THEN e.patch[p] ELSE pages[p]]
=============================================================================
