------------------------------ MODULE MCBonus ------------------------------
\* Instances of Bonus for TLC.
EXTENDS Bonus, TLC

CONSTANTS a1, a2, t1, t2, t3, p1, p2, g1, g2

TurnSymmetry == Permutations(Turns)

MCOneOwner == [t \in Turns |-> a1]
MCNone == << >>
MCOnePool == <<p1>>
MCTwoPools == <<p1, p2>>
MCTwoGrants == <<g1, g2>>
MCHolder == [g \in GrantsOf |-> a1]
\* The first grant runs out before the second, which never does.
MCExpires == [g \in GrantsOf |-> IF g = g1 THEN 2 ELSE 0]
MCModeOn == [p \in PoolsOf |-> "on"]
MCModeOnly == [p \in PoolsOf |-> IF p = p1 THEN "only" ELSE "on"]
MCOpening == [s \in Sources |-> IF s \in PoolsOf THEN 3 ELSE 2]
MCResetAmount == [p \in PoolsOf |-> 2]
MCDaily == [p \in PoolsOf |-> 1]
\* The last pool is never reset, until an administrator has it reset daily.
MCOneDaily == [p \in PoolsOf |-> IF p = p1 THEN 1 ELSE 0]
MCOneCap == [p \in PoolsOf |-> IF p = p1 THEN 2 ELSE 0]
MCCap == [p \in PoolsOf |-> 2]

\* A pool's balance and rules are changed only while a turn holds some of it: before
\* that they are another opening.
WhileHeld == turn' = turn =>
    \A p \in PoolsOf : pool'[p] # pool[p] =>
        \E t \in Turns : turn[t].pc = "held" /\ ~ turn[t].released /\ turn[t].hold[p] > 0

\* One pool's rules change: the first comes to be reset every other day, or the second
\* daily.
OneChange ==
    \A p \in PoolsOf : pool'[p].period # pool[p].period =>
        /\ \A q \in PoolsOf : pool[q].period = Period[q]
        /\ pool'[p].period = IF p = p1 THEN 2 ELSE 1

\* Where a pool has other rules turns are paid by the pools, and where a period is of
\* two days there is a third one.
LongPeriods ==
    /\ now' = 3 => \E p \in PoolsOf : pool[p].period = 2
    /\ (\E p \in PoolsOf : pool'[p].period # Period[p]) =>
         \A g \in GrantsOf : grant'[g].used = 0 /\ ~ grant'[g].revoked
=============================================================================
