------------------------------ MODULE MCQuota ------------------------------
\* Instances of Quota for TLC.
EXTENDS Quota, TLC

CONSTANTS a1, a2, t1, t2, t3, c1, c2

TurnSymmetry == Permutations(Turns)
\* The turns that are alike in a burst: t3 is asked under an unlimited policy.
BurstSymmetry == Permutations({t1, t2})

MCOneOwner == [t \in Turns |-> a1]
MCAllowance == <<"5h", "month">>
MCLength == [w \in {"5h", "month"} |-> IF w = "5h" THEN 1 ELSE 2]
MCKeep == [w \in {"rpm", "tpm", "5h", "month"} |-> IF w = "month" THEN 2 ELSE 1]
\* No retention at all: the prune may take a row a running turn still holds.
MCKeepNone == [w \in {"rpm", "tpm", "5h", "month"} |-> 0]
MCRequestLimit == [w \in {"5h", "month"} |-> IF w = "5h" THEN 2 ELSE 0]
MCAmountLimit == [w \in {"5h", "month"} |-> IF w = "5h" THEN 2 ELSE 3]
\* One unit dries the five-hour window up.
MCOneUnit == [w \in {"5h", "month"} |-> IF w = "5h" THEN 1 ELSE 2]
MCAllKinds == {{"rpm", "tpm", "5h", "month"}}
MCCreated == [a \in Accounts |-> 0]
MCHolder == [c \in Cards |-> a1]
MCCovers == [c \in Cards |-> {"5h"}]
=============================================================================
