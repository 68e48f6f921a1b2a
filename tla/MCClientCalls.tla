--------------------------- MODULE MCClientCalls ---------------------------
(***************************************************************************)
(* Two nodes and two client calls over three requests, two of which use    *)
(* one identifier for different payloads.                                  *)
(***************************************************************************)
EXTENDS ClientCalls

CONSTANTS n1, n2, o1, o2, o3, i1, i2, x, y, z, anon

MCEndpoints == <<n1, n2>>
MCWeight == [p \in {x, y, z} |-> IF p = y THEN 2 ELSE 1]
MCa == [id |-> i1, payload |-> x]
MCb == [id |-> i1, payload |-> y]
MCc == [id |-> i2, payload |-> z]

MCTypedBatches == {<<MCa, MCc, MCa>>, <<MCa, MCb, MCc>>}

\* The same request twice, a conflicting one, and an unrelated one.
Same == <<MCa, MCa>>
Conflicting == <<MCa, MCb>>
Unrelated == <<MCa, MCc>>
ThenRead(consistency) == <<MCa, [id |-> anon, payload |-> consistency]>>

Quiet == [calls |-> 2, crash |-> 0, shutdown |-> 0, embedded |-> 0, lost |-> 0, failed |-> 0]
Crashing == [Quiet EXCEPT !.crash = 1, !.failed = 1]
Losing == [Quiet EXCEPT !.lost = 1]
Sharing(k) == [Quiet EXCEPT !.embedded = 1, !.calls = k]

\* The administrator's requests.
Ask(n, o, kind, expect, to, root) ==
    [at |-> n, id |-> o, kind |-> kind, expect |-> expect, next |-> expect + 1,
     to |-> to, root |-> root, cli |-> FALSE]
Command(a) == [a EXCEPT !.cli = TRUE]
Stop(n, o, to) == Ask(n, o, "stop", 1, to, 0)
Activate(n, o) == Ask(n, o, "activate", 2, 0, 0)

MCStops == <<Stop(n1, o1, 7), Stop(n1, o1, 7)>>
MCRivals == <<Stop(n1, o1, 7), Stop(n2, o1, 8), Ask(n1, o2, "install", 1, 7, 1)>>
MCSuccession == <<Stop(n1, o1, 7), Activate(n1, o2), Activate(n1, o2)>>
MCReused == <<Stop(n1, o1, 7), Ask(n1, o1, "compact", 1, 0, 1), [Stop(n1, o2, 7) EXCEPT !.next = 3]>>
MCCompactions == <<Ask(n1, o1, "compact", 1, 0, 1), Ask(n1, o2, "status", 0, 0, 0)>>
MCCommands ==
    <<Command(Stop(n1, o1, 7)), Command(Ask(n1, o2, "install", 1, 7, 1)), Command(Activate(n1, o3))>>
MCCompactTwice == <<Command(Ask(n1, o1, "compact", 1, 0, 0)), Command(Ask(n1, o1, "compact", 1, 0, 0))>>
MCLateInstall ==
    <<Stop(n1, o1, 7), Ask(n1, o2, "compact", 1, 0, 1), Ask(n1, o3, "install", 1, 7, 1)>>

Scenario(p, r, l, k, w) ==
    [profile |-> p, request |-> r, left |-> l, limit |-> k, concurrency |-> w, admin |-> <<>>]
Admin(p, asks, l) ==
    [profile |-> p, request |-> Same, left |-> l, limit |-> 2, concurrency |-> 2, admin |-> asks]
Idle == [Quiet EXCEPT !.calls = 0]
One == [Quiet EXCEPT !.calls = 1]

MCScenarios ==
    {Scenario("sql", Same, Crashing, 2, 2),
     Scenario("kv", Conflicting, Crashing, 2, 2), Scenario("graph", Same, Crashing, 2, 2),
     Scenario("sql", Same, Losing, 2, 2), Scenario("kv", Unrelated, Quiet, 2, 2),
     Scenario("graph", Unrelated, Quiet, 1, 2),
     Scenario("sql", Same, Sharing(1), 2, 2), Scenario("sql", Conflicting, Sharing(1), 1, 2),
     Scenario("kv", Unrelated, Sharing(1), 2, 2), Scenario("graph", Conflicting, Sharing(1), 2, 2),
     Scenario("kv", Conflicting, Sharing(1), 1, 2),
     Scenario("kv", ThenRead("barrier"), Crashing, 2, 2), Scenario("graph", ThenRead("barrier"), Losing, 2, 1),
     Scenario("kv", ThenRead("applied"), Losing, 2, 1), Scenario("kv", ThenRead("local"), Losing, 2, 2),
     Scenario("sql", ThenRead("barrier"), Quiet, 2, 2),
     [Scenario("kv", ThenRead("barrier"), One, 2, 2) EXCEPT !.admin = <<Stop(n1, o1, 7)>>],
     Admin("sql", <<Stop(n1, o1, 7), Activate(n1, o2)>>, One),
     Admin("kv", MCStops, [Idle EXCEPT !.crash = 1, !.lost = 1, !.failed = 1]),
     Admin("graph", MCRivals, [Idle EXCEPT !.failed = 1]),
     Admin("sql", MCSuccession, [Idle EXCEPT !.crash = 1, !.failed = 1]),
     Admin("sql", MCReused, [Idle EXCEPT !.failed = 1]),
     Admin("kv", MCCompactions, [One EXCEPT !.shutdown = 1]),
     Admin("kv", MCLateInstall, [Idle EXCEPT !.failed = 1]),
     Admin("sql", MCCommands, [Idle EXCEPT !.failed = 1]),
     Admin("graph", MCCompactTwice, One),
     Admin("kv", MCLateInstall, [Idle EXCEPT !.lost = 1, !.shutdown = 1])}
=============================================================================
