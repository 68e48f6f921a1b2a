----------------------------- MODULE RequestLog -----------------------------
(***************************************************************************)
(* What the write path of a node promises about the decided log, without   *)
(* nodes, batches, queues or clients.  An entry is decided among the ones  *)
(* offered for its slot; an offer carries no request whose identifier an   *)
(* earlier entry already carries; a Stop is followed by the Activation of  *)
(* the successor configuration and by nothing else.                        *)
(***************************************************************************)
EXTENDS Integers, Sequences

CONSTANTS
    Ids,       \* request identifiers
    Payloads   \* what a request asks for: its encoded command

VARIABLES
    log,       \* the decided entries, slot after slot
    offers     \* the entries proposed for the slot after the last decided one

logVars == <<log, offers>>

Request == [id : Ids, payload : Payloads]

\* An entry of the log.  A command carries requests (with their receipts, for
\* SQL); the other kinds carry none.  A Stop is bound to the successor that an
\* Activation then begins.
Entry == [kind : {"Command", "Noop", "Stop", "Activation"},
          config : Nat \ {0},
          requests : SUBSET Request,
          successor : Nat]

IdsOf(R) == {r.id : r \in R}

\* The identifiers some decided entry carries.
Taken(entries) == UNION {IdsOf(entries[i].requests) : i \in DOMAIN entries}

\* One payload for an identifier.
OnePayloadEach(R) == \A r, q \in R : r.id = q.id => r = q

Stopped(entries) ==
    /\ entries # <<>>
    /\ entries[Len(entries)].kind = "Stop"

\* The entries that may follow the decided ones.
MayFollow(e) ==
    /\ OnePayloadEach(e.requests)
    /\ IdsOf(e.requests) \cap Taken(log) = {}
    /\ Stopped(log) <=> e.kind = "Activation"
    /\ Stopped(log) => e.successor = log[Len(log)].successor
    /\ log # <<>> =>
          e.config = log[Len(log)].config + (IF Stopped(log) THEN 1 ELSE 0)

LogInit ==
    /\ log = <<>>
    /\ offers = {}

Offer ==
    /\ \E e \in offers' :
          /\ e \in Entry
          /\ MayFollow(e)
          /\ offers' = offers \cup {e}
    /\ UNCHANGED log

Decide ==
    /\ \E e \in offers : log' = Append(log, e)
    /\ offers' = {}

LogNext == Offer \/ Decide

LogSpec == LogInit /\ [][LogNext]_logVars

\* A request identifier takes effect at most once in the whole history: in one
\* entry, with one payload, whoever sent it, to however many nodes.
ExactlyOnce ==
    /\ \A i \in 1 .. Len(log) : OnePayloadEach(log[i].requests)
    /\ \A i, j \in 1 .. Len(log) :
          i # j => IdsOf(log[i].requests) \cap IdsOf(log[j].requests) = {}

\* Between a Stop and the Activation of the next configuration nothing is
\* decided, no entry of a configuration is decided after its Stop, and what is
\* activated is the successor the Stop was bound to.
StopEndsConfiguration ==
    \A i \in 1 .. Len(log) - 1 :
        /\ log[i].kind = "Stop" <=> log[i + 1].kind = "Activation"
        /\ log[i].kind = "Stop" => log[i + 1].successor = log[i].successor
        /\ log[i + 1].config = log[i].config + (IF log[i].kind = "Stop" THEN 1 ELSE 0)
=============================================================================
