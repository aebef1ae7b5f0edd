----------------------------- MODULE MCWorkKernel -----------------------------
(* Instances of WorkKernel for TLC: one Bot, two plans, a ticket of the first. *)
EXTENDS WorkKernel

CONSTANTS b1, p, q, p1

MCPlanOf == [j \in Jobs |-> IF j = p1 THEN p ELSE j]

AStop(kind, turn, firm) ==
    [kind |-> kind, bot |-> b1, plan |-> p, turn |-> turn, firm |-> firm]

\* The stop button on work on p, the app's stop on everything (the spend cap's).
ButtonAndCap == {AStop("bot_plan", 1, FALSE), AStop("global", 1, TRUE)}

\* The stop button at the desk, on its first turn, and the app's stop on everything.
DeskAndCap == {AStop("turn", 1, FALSE), AStop("global", 1, TRUE)}

\* No stop at all.
NoStops == {}
=============================================================================
