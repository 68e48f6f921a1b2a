--------------------------- MODULE KvMaterializer ---------------------------
(***************************************************************************)
(* RedbStateMachine: the rows, the request records, the applied tip and a  *)
(* mirror of the entries are tables of one redb database.  A write         *)
(* transaction is durable when it commits and readers see one snapshot.    *)
(***************************************************************************)
EXTENDS ReplicatedLog

VARIABLE kv

NoKv == [exists |-> FALSE, readable |-> FALSE, open |-> FALSE, tip |-> 0, config |-> 0,
         data |-> <<>>, receipts |-> {}, embedded |-> {}]

KvInit == kv = NoKv

\* initialize_or_validate: a new database is bound to the configuration in one
\* transaction; afterwards any other is refused.
EmptyKv(config) == [NoKv EXCEPT !.exists = TRUE, !.readable = TRUE, !.config = config.id]
KvFits(config) == kv.readable /\ kv.config = config.id

\* open
KvCanOpen(config) == kv.exists => KvFits(config)
OpenKv(config) ==
    /\ KvCanOpen(config)
    /\ kv' = [(IF kv.exists THEN kv ELSE EmptyKv(config)) EXCEPT !.open = TRUE]

\* The database is set aside and a new one is opened.
RebuildKv(config) == kv' = [EmptyKv(config) EXCEPT !.open = TRUE]

\* check_request_in_table: the record of a request.
KvRecord(view, request) == {r \in view.receipts : r.request = request}

\* One command inside the transaction: a request that has a record only
\* returns it.
KvExecute(view, c, i) ==
    IF KvRecord(view, c.request) # {} THEN view
    ELSE [view EXCEPT
            !.data = IF c.value = Absent THEN Restrict(@, DOMAIN @ \ {c.key})
                     ELSE (c.key :> c.value) @@ @,
            !.receipts = @ \cup {[request |-> c.request, at |-> i,
                                  existed |-> c.key \in DOMAIN view.data]}]

\* The checks of apply_entry: the identity of the entry and its place.
KvApplicable(i) ==
    /\ kv.open
    /\ log[i].config = kv.config
    /\ i = kv.tip + 1
    /\ i \notin kv.embedded

\* apply_entry: the commands, the mirrored entry and the tip in one commit.
ApplyKv(i) ==
    /\ KvApplicable(i)
    /\ LET Execute(view, c) == KvExecute(view, c, i)
       IN  kv' = [FoldLeft(Execute, kv, log[i].op) EXCEPT !.tip = i, !.embedded = @ \cup {i}]

\* embedded_log_entries: the whole interval, or an error.
KvEmbeds(first, last) == first .. last \subseteq kv.embedded

\* compact_embedded_log_before
CompactKv(anchor) ==
    /\ anchor <= kv.tip
    /\ kv' = [kv EXCEPT !.embedded = {i \in @ : i >= anchor}]

\* get_with_tip: the row and the tip of one read transaction.
KvGet(key) == [found |-> IF key \in DOMAIN kv.data THEN kv.data[key] ELSE Absent, tip |-> kv.tip]

\* create_snapshot copies the rows, the records and the tip of one read
\* transaction; the mirror of the copy starts empty.
KvSnapshot == [tip |-> kv.tip, config |-> kv.config, data |-> kv.data, receipts |-> kv.receipts]

\* validate_restored_database
KvRestorable(s, anchor) == s.tip = anchor

\* restore_snapshot_file, to a path where nothing is.
RestoreKv(s) ==
    kv' = [exists |-> TRUE, readable |-> TRUE, open |-> FALSE, tip |-> s.tip,
           config |-> s.config, data |-> s.data, receipts |-> s.receipts, embedded |-> {}]

KvCrash == kv' = [kv EXCEPT !.open = FALSE]

\* The file is damaged on the disk.
DamageKv == kv.exists /\ kv' = [kv EXCEPT !.open = FALSE, !.readable = FALSE]

-----------------------------------------------------------------------------
(***************************************************************************)
(* Paged scans of the KV profile: the keys of a range or of a prefix, in   *)
(* order, a page at a time.                                                *)
(***************************************************************************)

CONSTANTS
    MaxByte,        \* u8::MAX
    KeyBytes,       \* MAX_KV_KEY_BYTES
    ScanRows,       \* MAX_KV_SCAN_ROWS
    ScanBytes,      \* MAX_KV_SCAN_RESULT_BYTES
    RowBytes        \* the sizes a row can have

None == [i \in 1 .. KeyBytes + 1 |-> 0]    \* no string: longer than any

\* Byte strings, and their order.
Strings == BoundedSeq(0 .. MaxByte, KeyBytes)
Less(a, b) ==
    \/ Len(a) < Len(b) /\ IsPrefix(a, b)
    \/ \E i \in DOMAIN a \cap DOMAIN b :
          a[i] < b[i] /\ \A j \in 1 .. i - 1 : a[j] = b[j]

\* validate_key
Keys == Strings \ {<<>>}

\* prefix_successor: the least string above every string with the prefix.
PrefixSuccessor(prefix) ==
    LET low == {i \in DOMAIN prefix : prefix[i] # MaxByte}
        last == CHOOSE i \in low : \A j \in low : j <= i
    IN  IF low = {} THEN None
        ELSE [SubSeq(prefix, 1, last) EXCEPT ![last] = @ + 1]

\* The rows of a scan, as the database's range iterator gives them: rows maps
\* keys to sizes.
RangeOf(rows, start, end, cursor) ==
    SetToSortSeq({k \in DOMAIN rows :
                     /\ IF cursor = None THEN ~Less(k, start) ELSE Less(cursor, k)
                     /\ end # None => Less(k, end)}, Less)

\* The longest page that keeps to the limits.
Taken(rows, keys, limit) ==
    LET Bytes(n) == FoldLeft(LAMBDA sum, k : sum + rows[k], 0, SubSeq(keys, 1, n))
        fit == {n \in 0 .. Len(keys) : n <= limit /\ Bytes(n) <= ScanBytes}
    IN  SubSeq(keys, 1, CHOOSE n \in fit : \A m \in fit : m <= n)

\* scan_snapshot: a page, and the cursor of the next one when rows are left;
\* a row that does not fit alone is an error.
Page(rows, start, end, limit, cursor) ==
    LET keys == IF end # None /\ ~Less(start, end) THEN <<>>
                ELSE RangeOf(rows, start, end, cursor)
        page == Taken(rows, keys, limit)
    IN  IF Len(page) < Len(keys) /\ page = <<>> THEN [error |-> TRUE, rows |-> <<>>, next |-> None]
        ELSE [error |-> FALSE, rows |-> page,
              next |-> IF Len(page) < Len(keys) THEN Last(page) ELSE None]

\* scan_range: the cursor is a key of the range.
ScanRange(rows, start, end, limit, cursor) ==
    IF cursor # None /\ (Less(cursor, start) \/ (end # None /\ ~Less(cursor, end)))
    THEN [error |-> TRUE, rows |-> <<>>, next |-> None]
    ELSE Page(rows, start, end, limit, cursor)

\* scan_prefix
ScanPrefix(rows, prefix, limit, cursor) ==
    IF cursor # None /\ ~IsPrefix(prefix, cursor)
    THEN [error |-> TRUE, rows |-> <<>>, next |-> None]
    ELSE Page(rows, prefix, PrefixSuccessor(prefix), limit, cursor)

-----------------------------------------------------------------------------
\* All pages of a scan, one after the other.
Pages(Scan(_), count) ==
    LET Step(all, n) ==
            IF all.done THEN all
            ELSE LET page == Scan(all.cursor)
                 IN  [rows |-> all.rows \o page.rows, cursor |-> page.next,
                      error |-> page.error, done |-> page.error \/ page.next = None]
    IN  FoldLeft(Step, [rows |-> <<>>, cursor |-> None, error |-> FALSE, done |-> FALSE],
                 [n \in 1 .. count |-> n])

Tables == UNION {[K -> RowBytes] : K \in SUBSET Keys}
Sorted(K) == SetToSortSeq(K, Less)
Fits(rows, K) == \A k \in K : rows[k] <= ScanBytes

\* The pages of a scan, put together, are the keys of the range in order, each
\* one once, and the scan ends, unless a row is larger than a page
\* (scan_range, scan_snapshot).
ASSUME RangePagesComplete ==
    \A rows \in Tables : \A start \in Strings : \A end \in Strings \cup {None} :
        LET wanted == {k \in DOMAIN rows : ~Less(k, start) /\ (end # None => Less(k, end))}
        IN  \A limit \in 1 .. ScanRows :
                LET all == Pages(LAMBDA c : ScanRange(rows, start, end, limit, c),
                                 Cardinality(DOMAIN rows) + 1)
                IN  /\ all.done
                    /\ all.error = ~Fits(rows, wanted)
                    /\ IF all.error THEN IsPrefix(all.rows, Sorted(wanted))
                       ELSE all.rows = Sorted(wanted)

\* The pages of a prefix scan are the keys that start with the prefix, at the
\* end of the key space too (scan_prefix, prefix_successor).
ASSUME PrefixPagesComplete ==
    \A rows \in Tables : \A prefix \in Strings :
        LET wanted == {k \in DOMAIN rows : IsPrefix(prefix, k)}
        IN  Fits(rows, wanted) =>
                \A limit \in 1 .. ScanRows :
                    Pages(LAMBDA c : ScanPrefix(rows, prefix, limit, c),
                          Cardinality(DOMAIN rows) + 1).rows = Sorted(wanted)
=============================================================================
