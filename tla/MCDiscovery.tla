---------------------------- MODULE MCDiscovery ------------------------------
EXTENDS Discovery

CONSTANTS n1, n2, c1

Plan(founders, met, msgs, f, s) ==
    [founders |-> founders, met |-> met, msgs |-> msgs, faults |-> f, stops |-> s]

Both == {n1, n2}
MCPlans == {Plan(Both, {}, {c1}, 2, 1), Plan({}, {}, {}, 0, 0),
            Plan({n1}, {}, {}, 1, 0), Plan({n1}, {}, {}, 0, 1),
            Plan(Both, Both, {DelNode(n2), c1}, 0, 0)}
=============================================================================
