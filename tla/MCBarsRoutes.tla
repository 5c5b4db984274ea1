---------------------------- MODULE MCBarsRoutes ----------------------------
(***************************************************************************)
(* The bonus bars and the catalogue's routes in one run. They share no     *)
(* row: part says which of them moves.                                     *)
(***************************************************************************)
EXTENDS MCBonus, Routes

VARIABLE part

MCIdOrder == <<"a", "c", "b">>
MCOwnerOf == [m \in Shelf |-> IF m = "c" THEN "q" ELSE "p"]

BarsRoutesInit ==
    /\ part \in {"bars", "routes"}
    /\ Init /\ RoutesInit
    \* Of the three models, one has yet to be made.
    /\ entry["c"].at = "unborn"

Bars == part = "bars" /\ UNCHANGED <<part, routeVars>>

\* Next of Bonus, an action at a time.
BarsRoutesNext ==
    \/ Bars /\ Tick
    \/ \E t \in Turns :
         \/ \E phase \in Phases, want \in Wants : Bars /\ Take(t, phase, want)
         \/ \E cost \in Bills : Bars /\ Settle(t, cost)
         \/ Bars /\ Release(t)
    \/ \E g \in GrantsOf : Bars /\ Revoke(g)
    \/ \E p \in PoolsOf, amount \in Adjustments : Bars /\ AdjustPool(p, amount)
    \/ \E p \in PoolsOf, period \in NewPeriods : Bars /\ UpdatePoolRules(p, period)
    \/ /\ part = "routes" /\ RoutesNext /\ UNCHANGED <<part, vars>>
       \* The second writer competes for routes.
       /\ (work["e2"].kind)' \in {"none", "route", "delete", "provider"}

BarsRoutesSpec == BarsRoutesInit /\ [][BarsRoutesNext]_<<part, vars, routeVars>>
=============================================================================
