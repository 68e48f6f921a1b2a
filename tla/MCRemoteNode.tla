---------------------------- MODULE MCRemoteNode ----------------------------
(***************************************************************************)
(* The histories of a data directory, each a sequence of starts with one   *)
(* publication, one compaction, one decision and two crashes in between;   *)
(* and a node behind its gate whose recorder is called by two callers.     *)
(***************************************************************************)
EXTENDS RemoteNode

Point(base, tip) == [base |-> base, tip |-> tip]
NoPoint == Point(0, None)

Budget(starts) ==
    [starts |-> starts, fault |-> 1, decide |-> 1, publish |-> 1, compact |-> 1,
     crash |-> 2, stop |-> 0, disk |-> 0, vote |-> 1, asks |-> <<>>]
Times(n, mode) == [i \in 1 .. n |-> <<mode, 1>>]

History(e, d, cp, at, lost, starts) ==
    [engine |-> e, dir |-> d, node |-> Down, archive |-> <<cp, NoPoint>>, decided |-> at,
     forgotten |-> lost, left |-> Budget(starts), wire |-> "http"]

Engines == {"sql", "graph"}
Histories ==
    UNION {{History(e, FreshDir, Point(0, 0), 0, 0, <<<<"bootstrap", 1>>>> \o Times(3, "rejoin")),
            History(e, FreshDir, Point(1, 1), 1, 0, Times(3, "rejoin")),
            History(e, FreshDir, Point(0, 1), 1, 0, Times(3, "rejoin")),
            History(e, FreshDir, Point(1, 1), 1, 1, Times(3, "rejoin")),
            History(e, FreshDir, Point(1, 1), 1, 1, Times(2, "disaster") \o Times(2, "rejoin")),
            History(e, FreshDir, Point(1, 1), 1, 1, Times(3, "successor")),
            History(e, FreshDir, Point(0, 0), 0, 0, Times(3, "local")),
            History(e, [FreshDir EXCEPT !.marker = 1, !.legacy = TRUE], Point(1, 1), 1, 1,
                    Times(3, "rejoin"))} : e \in Engines}

\* A stop, a lost disk, and a start in the next recovery generation, which
\* refuses a caller of the one before.
Vote == <<"record", 1>>
Orderly ==
    {[History("sql", FreshDir, Point(0, 0), 0, 0, <<<<"bootstrap", 1>>, <<"rejoin", 1>>, <<"rejoin", 2>>>>)
        EXCEPT !.archive = <<Point(0, 0), Point(0, 0)>>, !.wire = w,
               !.left = [@ EXCEPT !.crash = 0, !.fault = 0, !.stop = 2, !.disk = 1, !.decide = 0,
                                  !.publish = 0, !.compact = 0, !.asks = <<Vote>>]]
        : w \in {"pool", "lane", "http"}}

\* The directory of a node that rejoined an empty cluster.
JoinedDir == [FreshDir EXCEPT !.marker = 1, !.view = 0, !.log = <<0, 0>>, !.recorder = "valid",
                              !.lock = TRUE]
Behind == [Down EXCEPT !.pc = "rehydrate", !.mode = "rejoin", !.gen = 1, !.prep = "runtime-first",
                       !.gate = "closed"]
Calling(w, asks, crash, stop) ==
    [engine |-> "sql", dir |-> JoinedDir, node |-> Behind,
     archive |-> <<Point(0, 0), NoPoint>>, decided |-> 0, forgotten |-> 0, wire |-> w,
     left |-> [Budget(Times(1, "rejoin")) EXCEPT !.fault = 0, !.decide = 0, !.publish = 0,
                 !.compact = 0, !.crash = crash, !.stop = stop, !.vote = 0, !.asks = asks]]

Proof == <<"install", 1>>
Callers ==
    {Calling("lane", <<Vote, Proof>>, 0, 0)}
    \cup UNION {{Calling(w, <<Vote, Vote>>, 0, 1),
                 Calling(w, <<<<"inspect", 0>>, <<"store", 1>>>>, 0, 0),
                 Calling(w, <<<<"store", 1>>, <<"fence", 1>>>>, 0, 0)} : w \in {"pool", "lane", "http"}}
    \cup {Calling(w, <<Vote, Proof>>, 1, 0) : w \in {"pool", "http"}}

MCScenarios == Histories \cup Orderly \cup Callers
=============================================================================
