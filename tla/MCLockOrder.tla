---------------------------- MODULE MCLockOrder ----------------------------
\* Instances of LockOrder for TLC.
EXTENDS LockOrder, TLC

CONSTANTS a1, a2, t1, t2, t3, p1, p2, g1, g2, c1, c2

TxnSymmetry == Permutations(Txns)

MCNone == << >>
MCKinds == <<"rpm", "tpm", "5h", "month">>
MCAllowance == <<"5h", "month">>
\* In another moment a transaction has counters of its own: it meets no row more.
MCOneMoment == {[k \in {Kinds[i] : i \in 1 .. Len(Kinds)} |-> 0]}
MCTwoPools == <<p1, p2>>
MCTwoGrants == <<g1, g2>>
MCGrantsReversed == <<g2, g1>>
MCTwoCards == <<c1, c2>>
=============================================================================
