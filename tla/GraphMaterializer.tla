-------------------------- MODULE GraphMaterializer --------------------------
(***************************************************************************)
(* LadybugStateMachine: the documents, the request records and the applied *)
(* tip of the graph profile.  Writers hold a mutex and share the database  *)
(* handle with readers; a snapshot takes the handle away, closes the       *)
(* database, copies its file and opens it again.                           *)
(***************************************************************************)
EXTENDS ReplicatedLog

VARIABLES
    graph,    \* the database; open is the handle
    lookup    \* a get_document_with_tip in progress

graphVars == <<graph, lookup>>

NoGraph == [exists |-> FALSE, readable |-> FALSE, open |-> FALSE, tip |-> 0, config |-> 0,
            data |-> <<>>, receipts |-> {}]
NoLookup == [step |-> "none", id |-> Absent, found |-> Absent, tip |-> 0]

GraphInit == graph = NoGraph /\ lookup = NoLookup

\* initialize_or_validate in one transaction.
EmptyGraph(config) == [NoGraph EXCEPT !.exists = TRUE, !.readable = TRUE, !.config = config.id]
GraphFits(config) == graph.readable /\ graph.config = config.id

\* open
GraphCanOpen(config) == graph.exists => GraphFits(config)
OpenGraph(config) ==
    /\ GraphCanOpen(config)
    /\ graph' = [(IF graph.exists THEN graph ELSE EmptyGraph(config)) EXCEPT !.open = TRUE]

\* matching_request
GraphRecord(view, request) == {r \in view.receipts : r.request = request}

\* apply_command and record_request.
GraphExecute(view, c, i) ==
    IF GraphRecord(view, c.request) # {} THEN view
    ELSE LET existed == c.key \in DOMAIN view.data
         IN  [view EXCEPT
                !.data = IF c.value # Absent THEN (c.key :> c.value) @@ @
                         ELSE IF existed THEN Restrict(@, DOMAIN @ \ {c.key}) ELSE @,
                !.receipts = @ \cup {[request |-> c.request, at |-> i, existed |-> existed]}]

GraphApplicable(i) == graph.open /\ log[i].config = graph.config /\ i = graph.tip + 1

\* apply_entry: apply_in_transaction, committed or rolled back as a whole.
ApplyGraph(i) ==
    /\ GraphApplicable(i)
    /\ LET Execute(view, c) == GraphExecute(view, c, i)
       IN  graph' = [FoldLeft(Execute, graph, log[i].op) EXCEPT !.tip = i]
    /\ UNCHANGED lookup

-----------------------------------------------------------------------------
\* get_document_with_tip: a query joins the document with the tip.  Only when
\* it finds nothing does a read transaction look for the document again, and
\* then for the tip.
Lookup(id) ==
    /\ graph.open /\ lookup.step = "none"
    /\ lookup' = IF id \in DOMAIN graph.data
                 THEN [step |-> "done", id |-> id, found |-> graph.data[id], tip |-> graph.tip]
                 ELSE [step |-> "missed", id |-> id, found |-> Absent, tip |-> 0]
    /\ UNCHANGED graph

LookupAgain ==
    /\ graph.open /\ lookup.step = "missed"
    /\ lookup' = [lookup EXCEPT !.step = "done", !.tip = graph.tip,
                     !.found = IF lookup.id \in DOMAIN graph.data
                               THEN graph.data[lookup.id] ELSE Absent]
    /\ UNCHANGED graph

LookupReturns ==
    /\ lookup.step = "done"
    /\ lookup' = NoLookup
    /\ UNCHANGED graph

-----------------------------------------------------------------------------
\* create_snapshot waits for the readers and writers, and returns the copy.
GraphSnapshot ==
    [tip |-> graph.tip, config |-> graph.config, data |-> graph.data, receipts |-> graph.receipts]

\* The database does not open again after it was copied: the handle is gone.
CloseGraph ==
    /\ graph.open /\ lookup.step # "missed"
    /\ graph' = [graph EXCEPT !.open = FALSE]
    /\ UNCHANGED lookup

\* validate_snapshot_database
GraphRestorable(s, anchor) == s.tip = anchor

\* restore_snapshot_file
RestoreGraph(s) ==
    /\ graph' = [exists |-> TRUE, readable |-> TRUE, open |-> FALSE, tip |-> s.tip,
                 config |-> s.config, data |-> s.data, receipts |-> s.receipts]
    /\ lookup' = NoLookup

GraphCrash == graph' = [graph EXCEPT !.open = FALSE] /\ lookup' = NoLookup

\* The file is damaged on the disk.
DamageGraph ==
    /\ graph.exists
    /\ graph' = [graph EXCEPT !.open = FALSE, !.readable = FALSE]
    /\ lookup' = NoLookup
=============================================================================
