---------------------------- MODULE ReplicatedLog ----------------------------
(***************************************************************************)
(* The decided log a node materializes, as the recorders hold it: what an  *)
(* entry is under each execution profile, how it moves the configuration,  *)
(* and what replaying a prefix gives.  Deciding an entry is left to the    *)
(* consensus modules: here the log only grows.                             *)
(***************************************************************************)
EXTENDS QwalEffect

CONSTANTS
    Key,        \* the keys of the KV commands, the documents of the graph
    Request,    \* request ids
    MaxBatch,   \* MAX_REPLICATED_KV_BATCH_MEMBERS, MAX_GRAPH_BATCH_MEMBERS
    MaxIndex    \* the longest log

VARIABLES
    log,        \* the decided entries
    profile     \* the execution profile: "sql", "kv" or "graph"

Invalid == [id |-> 0, status |-> "invalid"]
InitialConfig == [id |-> 1, status |-> "active"]

\* ConfigurationState::validate_entry
ConfigStep(config, entry) ==
    CASE /\ config.status = "active" /\ entry.config = config.id
         /\ entry.type = "stop" -> [config EXCEPT !.status = "stopped"]
      [] /\ config.status = "active" /\ entry.config = config.id
         /\ entry.type \in {"command", "noop"} -> config
      [] /\ config.status = "stopped" /\ entry.config = config.id + 1
         /\ entry.type = "activate" -> [id |-> entry.config, status |-> "active"]
      [] OTHER -> Invalid

ConfigAt(i) == FoldLeft(ConfigStep, InitialConfig, SubSeq(log, 1, i))

\* The database a new SQL view starts from.
Genesis == <<CHOOSE v \in Image : TRUE>>

\* A KV or graph command writes one key or, with no value, deletes it.
Absent == "absent"
Operation == [request : Request, key : Key, value : Image \cup {Absent}]

\* The batches the codecs of the two profiles accept.
Batches ==
    {b \in BoundedSeq(Operation, MaxBatch) \ {<<>>} :
        \A i, j \in DOMAIN b : b[i].request = b[j].request => i = j}

\* What a prefix of the log means, command by command.
Performed(view, c, i) ==
    [data |-> IF c.value = Absent THEN Restrict(view.data, DOMAIN view.data \ {c.key})
              ELSE (c.key :> c.value) @@ view.data,
     receipts |-> view.receipts \cup
         {[request |-> c.request, at |-> i, existed |-> c.key \in DOMAIN view.data]}]
RowsAt(i) ==
    LET Entry(view, j) ==
            LET Command(v, c) == Performed(v, c, j) IN FoldLeft(Command, view, log[j].op)
    IN  FoldLeft(Entry, [data |-> <<>>, receipts |-> {}], [j \in 1 .. i |-> j])

Effects(i) == SelectSeq(SubSeq(log, 1, i), LAMBDA e : e.type = "command")
PagesAt(i) ==
    LET Entry(pages, e) == Patched(pages, e.op) IN FoldLeft(Entry, Genesis, Effects(i))

DataAt(i) == IF profile = "sql" THEN PagesAt(i) ELSE RowsAt(i).data
StateAt(i) == Identity(FromPages(PagesAt(i)))
ReceiptsAt(i) ==
    IF profile = "sql" THEN {j \in 1 .. i : log[j].type = "command"} ELSE RowsAt(i).receipts

CommandEntry(op) == [type |-> "command", config |-> ConfigAt(Len(log)).id, op |-> op]
Marker(type, config) == [type |-> type, config |-> config, op |-> <<>>]

\* The entries that may follow the log: what the proposers of any node derive
\* from the whole prefix.  A request that has a receipt is not proposed again;
\* a KV or graph cluster never activates a successor.
Successors ==
    LET config == ConfigAt(Len(log))
        pages == PagesAt(Len(log))
        settled == {r.request : r \in RowsAt(Len(log)).receipts}
    IN  IF config.status = "stopped"
        THEN IF profile = "sql" THEN {Marker("activate", config.id + 1)} ELSE {}
        ELSE {Marker("noop", config.id), Marker("stop", config.id)} \cup
             {CommandEntry(op) : op \in
                IF profile = "sql" THEN {Effect(Len(log), FromPages(pages), pages, w) : w \in Wal(pages)}
                ELSE {b \in Batches : \A i \in DOMAIN b : b[i].request \notin settled}}

\* A decision reached by proposers of other nodes.
Decide ==
    /\ Len(log) < MaxIndex
    /\ \E e \in Successors : log' = Append(log, e)
    /\ UNCHANGED profile
=============================================================================
