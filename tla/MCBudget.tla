------------------------------ MODULE MCBudget ------------------------------
(***************************************************************************)
(* Instances of Budget for TLC: a pot shared by the use case and one       *)
(* person's own budget, capped by requests and by cost.                    *)
(***************************************************************************)
EXTENDS Budget

CONSTANTS r1, r2, r3, g1, g2, pot, own

Two == {r1, r2}
Three == {r1, r2, r3}
One == {r1}
Nobody == {}

MCDims == {"requests", "cost"}

Costs(requests, cost) ==
    [d \in MCDims |-> IF d = "requests" THEN requests ELSE cost]

\* The first request is bound by both budgets, the others by the pot alone.
MCBinding == [r \in Requests |-> IF r = r1 THEN Budgets ELSE {pot}]
MCHome == [r \in Requests |-> IF r = r1 THEN g1 ELSE g2]

\* The pot caps cost, the person's own budget caps requests.
MCLimit == [b \in Budgets |-> IF b = pot THEN Costs(-1, 3) ELSE Costs(1, -1)]

MCEstimate == [r \in Requests |-> Costs(1, 2)]
\* An answer costs less than the estimate, as much, or more.
MCAnswers ==
    [r \in Requests |-> CASE r = r1 -> {Costs(1, 1), Costs(1, 3)}
                          [] r = r2 -> {Costs(1, 2), Costs(1, 3)}
                          [] OTHER -> {Costs(1, 1), Costs(1, 2)}]
MCStepAmount == Costs(1, 1)

Allowed(o, c, p, e, S) ==
    [outages |-> o, cancels |-> c, periods |-> p, expiry |-> e, calls |-> S]

\* One failure and one cancellation while counters expire; and, where Redis
\* answers throughout, pipeline calls, a cancellation and the end of a period.
FaultsOrCalm == {Allowed(1, 1, 1, TRUE, {}), Allowed(0, 1, 2, FALSE, {r1})}
OneFault == {Allowed(1, 1, 1, TRUE, {})}
Expiring == {Allowed(0, 0, 1, TRUE, {})}
=============================================================================
