---------------------------- MODULE BonusProofs ----------------------------
(***************************************************************************)
(* The bonus bars, for any number of accounts, turns, pools and grants and *)
(* any balances, shares and periods.                                       *)
(*                                                                         *)
(* The argument. A turn takes from its sources one after another. What a   *)
(* walk gives of a source is at most the room it found there, and nothing  *)
(* of a source it did not reach (WalkGives): by induction over the order   *)
(* of the sources, as the least place that breaks it (InOrder). Each       *)
(* action is first reduced to what it writes in each row (the lemmas named *)
(* ...Steps). Two parts are inductive. LedgerStands: a live grant counts   *)
(* what was charged to it and what open turns hold of it, and past its     *)
(* amount there are only holds of settled turns (GrantStands); the same of *)
(* what an account draws in a day (DayStands). PeriodsStand: a pool knows  *)
(* a hold of the period under way by the start the hold remembers. Every   *)
(* start a pool has was the start of the period of some day, and no turn   *)
(* remembers a start past that day (PeriodStands); so a period that is due *)
(* starts after every start that is remembered (LaterPeriod, DuePast), and *)
(* a reset makes a pool forget all holds whatever new rules did before it. *)
(* New rules may move a start on, and then the pool forgets its holds, or  *)
(* back, and then it may take a hold of a past period for one of this one. *)
(* While they have not moved it back a pool counts at least its charges    *)
(* and the holds it knows; while they have not moved it at all the holds   *)
(* it knows are those since the reset, and it counts exactly them          *)
(* (HoldStands, PoolStands).                                               *)
(***************************************************************************)
EXTENDS Bonus, FiniteSetTheorems, SequenceTheorems, WellFoundedInduction, TLAPS

(***************************************************************************)
(* Walks down the sources                                                  *)
(***************************************************************************)

LEMMA BonusConstants ==
    /\ IsFiniteSet(Turns) /\ MaxUnit \in Nat /\ MaxTime \in Nat \ {0}
    /\ \A t \in Turns : Owner[t] \in Accounts
    /\ PoolsOf \cap GrantsOf = {} /\ PoolsOf \subseteq Sources /\ GrantsOf \subseteq Sources
    /\ Opening \in [Sources -> Nat] /\ ResetAmount \in [PoolsOf -> Nat] /\ Period \in [PoolsOf -> Nat]
    /\ NewPeriods \subseteq Nat /\ DailyCap \in [PoolsOf -> Nat] /\ Adjustments \subseteq Nat
    /\ Wants \subseteq Units /\ Bills \subseteq Units
    /\ \A n \in Units : n \in Nat /\ n <= MaxUnit
    /\ 0 \in Units /\ \A n \in Times : n \in Nat \ {0}
  BY ConstantsAssumption DEF ConstantsAssumption, Sources, Units, Times

\* Every place of the order is a source, and every source has a place.
LEMMA PlacesOfSources ==
    /\ Len(Order) \in Nat
    /\ \A i \in 1 .. Len(Order) : Order[i] \in Sources
    /\ \A s \in Sources : \E i \in 1 .. Len(Order) : Order[i] = s
  <1>1. PoolOrder \in Seq(PoolsOf) /\ GrantOrder \in Seq(GrantsOf)
    BY ConstantsAssumption DEF ConstantsAssumption
  <1>2. Len(PoolOrder) \in Nat /\ Len(GrantOrder) \in Nat
    BY <1>1, LenProperties
  <1>3. /\ Len(Order) = Len(PoolOrder) + Len(GrantOrder)
        /\ \A i \in 1 .. Len(PoolOrder) + Len(GrantOrder) :
             Order[i] = IF i <= Len(PoolOrder) THEN PoolOrder[i] ELSE GrantOrder[i - Len(PoolOrder)]
    <2>1. PoolOrder \in Seq(Sources) /\ GrantOrder \in Seq(Sources)
      <3>1. PoolsOf \subseteq Sources /\ GrantsOf \subseteq Sources  BY DEF Sources
      <3> HIDE DEF PoolsOf, GrantsOf, Sources
      <3> QED  BY <1>1, <3>1
    <2> QED  BY <2>1, ConcatProperties DEF Order
  <1>4. ASSUME NEW i \in 1 .. Len(Order) PROVE Order[i] \in Sources
    <2>1. CASE i <= Len(PoolOrder)
      <3>1. i \in 1 .. Len(PoolOrder) /\ Order[i] = PoolOrder[i]  BY <1>2, <1>3, <2>1
      <3> QED  BY <3>1 DEF Sources, PoolsOf
    <2>2. CASE ~ (i <= Len(PoolOrder))
      <3>1. i - Len(PoolOrder) \in 1 .. Len(GrantOrder) /\ Order[i] = GrantOrder[i - Len(PoolOrder)]
        BY <1>2, <1>3, <2>2
      <3> QED  BY <3>1 DEF Sources, GrantsOf
    <2> QED  BY <2>1, <2>2
  <1>5. ASSUME NEW s \in Sources PROVE \E i \in 1 .. Len(Order) : Order[i] = s
    <2>1. ASSUME NEW i \in 1 .. Len(PoolOrder), PoolOrder[i] = s PROVE \E j \in 1 .. Len(Order) : Order[j] = s
      <3>1. i \in 1 .. Len(Order) /\ Order[i] = PoolOrder[i]  BY <1>2, <1>3
      <3> QED  BY <2>1, <3>1
    <2>2. ASSUME NEW i \in 1 .. Len(GrantOrder), GrantOrder[i] = s PROVE \E j \in 1 .. Len(Order) : Order[j] = s
      <3> DEFINE j == Len(PoolOrder) + i
      <3>1. j \in 1 .. Len(Order) /\ ~ (j <= Len(PoolOrder)) /\ j - Len(PoolOrder) = i  BY <1>2, <1>3
      <3>2. Order[j] = GrantOrder[i]  BY <1>3, <3>1
      <3> QED  BY <2>2, <3>1, <3>2
    <2>3. s \in PoolsOf \/ s \in GrantsOf  BY DEF Sources
    <2>4. (\E i \in 1 .. Len(PoolOrder) : PoolOrder[i] = s) \/ \E i \in 1 .. Len(GrantOrder) : GrantOrder[i] = s
      BY <2>3 DEF PoolsOf, GrantsOf
    <2> QED  BY <2>1, <2>2, <2>4
  <1> QED  BY <1>2, <1>3, <1>4, <1>5

\* What holds of 0 and of the next of each place holds of every place: the least
\* place without it would have a predecessor with it.
LEMMA InOrder ==
    ASSUME NEW m \in Nat, NEW S \in SUBSET (0 .. m), 0 \in S, \A i \in 1 .. m : i - 1 \in S => i \in S
    PROVE  S = 0 .. m
  <1> DEFINE T == (0 .. m) \ S
  <1>1. CASE T = {}
    BY <1>1
  <1>2. CASE T # {}
    <2>1. T \in SUBSET Nat  OBVIOUS
    <2> HIDE DEF T
    <2>2. PICK n \in T : \A k \in T : ~ (<<k, n>> \in OpToRel(<, Nat))
      BY <1>2, <2>1, NatLessThanWellFounded, WFMin, Zenon
    <2>3. \A k \in T : k \in Nat /\ n \in Nat /\ ~ (k < n)
      BY <2>1, <2>2 DEF OpToRel
    <2>4. n \in 1 .. m /\ n - 1 \in 0 .. m  BY DEF T
    <2>5. n - 1 \notin T  BY <2>3, <2>4
    <2>6. n - 1 \in S  BY <2>4, <2>5 DEF T
    <2>7. n \in S  BY <2>4, <2>6
    <2> QED  BY <2>7 DEF T
  <1> QED  BY <1>1, <1>2

\* A source gives no more than is needed, nor than it has.
LEMMA GivesLeast ==
    ASSUME NEW r \in Int, NEW n \in Nat
    PROVE  /\ n - Least(Floor0(r), n) \in 0 .. n
           /\ Least(Floor0(r), n) \in 0 .. n /\ Least(Floor0(r), n) <= Floor0(r)
  BY DEF Least, Floor0

\* The walk is what its equation says: it exists up to each place in turn.
LEMMA WalkExists ==
    ASSUME NEW n \in Nat, NEW room \in [Sources -> Int]
    PROVE  \E f : f = [i \in 0 .. Len(Order) |->
                         IF i = 0 THEN n ELSE f[i - 1] - Least(Floor0(room[Order[i]]), f[i - 1])]
  <1> DEFINE Next1(i, x) == x - Least(Floor0(room[Order[i]]), x)
             Goes(f, m) == \A i \in 0 .. m : f[i] = IF i = 0 THEN n ELSE Next1(i, f[i - 1])
             S == {m \in 0 .. Len(Order) : \E f : Goes(f, m)}
  <1>0. Len(Order) \in Nat  BY PlacesOfSources
  <1> HIDE DEF Next1
  <1>1. 0 \in S
    <2>1. PICK f : f = [i \in {0} |-> n]  OBVIOUS
    <2>2. \A i \in 0 .. 0 : f[i] = IF i = 0 THEN n ELSE Next1(i, f[i - 1])  BY <2>1
    <2> QED  BY <1>0, <2>2
  <1>2. ASSUME NEW m \in 1 .. Len(Order), m - 1 \in S PROVE m \in S
    <2>1. PICK f : Goes(f, m - 1)  BY <1>2
    <2> DEFINE g == [i \in 0 .. m |-> IF i = m THEN Next1(m, f[m - 1]) ELSE f[i]]
    <2>2. ASSUME NEW i \in 0 .. m PROVE g[i] = IF i = 0 THEN n ELSE Next1(i, g[i - 1])
      <3>1. CASE i = m
        <4>1. g[i] = Next1(m, f[m - 1]) /\ g[m - 1] = f[m - 1] /\ i # 0  BY <1>0, <3>1
        <4> QED  BY <3>1, <4>1
      <3>2. CASE i # m
        <4>1. i \in 0 .. m - 1 /\ g[i] = f[i]  BY <1>0, <3>2
        <4>2. i # 0 => g[i - 1] = f[i - 1]  BY <1>0, <3>2
        <4> QED  BY <2>1, <4>1, <4>2
      <3> QED  BY <3>1, <3>2
    <2> HIDE DEF g
    <2>3. Goes(g, m)  BY <2>2
    <2> HIDE DEF Goes
    <2> QED  BY <1>0, <2>3
  <1>3. S = 0 .. Len(Order)
    <2>1. S \in SUBSET (0 .. Len(Order))  OBVIOUS
    <2> HIDE DEF S
    <2> QED  BY <1>0, <1>1, <1>2, <2>1, InOrder
  <1>4. PICK f : Goes(f, Len(Order))
    <2>1. Len(Order) \in S  BY <1>0, <1>3
    <2> HIDE DEF Goes
    <2> QED  BY <2>1
  <1> DEFINE g == [i \in 0 .. Len(Order) |-> f[i]]
  <1>5. g = [i \in 0 .. Len(Order) |-> IF i = 0 THEN n ELSE Next1(i, g[i - 1])]
    <2>1. ASSUME NEW i \in 0 .. Len(Order) PROVE f[i] = IF i = 0 THEN n ELSE Next1(i, g[i - 1])
      <3>1. i # 0 => g[i - 1] = f[i - 1]  BY <1>0
      <3> QED  BY <1>4, <3>1
    <2> QED  BY <2>1
  <1> QED  BY <1>5 DEF Next1

\* What is still needed falls from place to place, by what each gives.
LEMMA WalkFalls ==
    ASSUME NEW n \in Nat, NEW room \in [Sources -> Int]
    PROVE  /\ Remains(n, room) \in [0 .. Len(Order) -> 0 .. n]
           /\ Remains(n, room)[0] = n
           /\ \A i \in 1 .. Len(Order) :
                Remains(n, room)[i] = Remains(n, room)[i - 1] - Least(Floor0(room[Order[i]]), Remains(n, room)[i - 1])
  <1> DEFINE left == Remains(n, room)
             S == {i \in 0 .. Len(Order) : left[i] \in 0 .. n}
  <1>0. Len(Order) \in Nat  BY PlacesOfSources
  <1>1. left = [i \in 0 .. Len(Order) |->
                  IF i = 0 THEN n ELSE left[i - 1] - Least(Floor0(room[Order[i]]), left[i - 1])]
    BY WalkExists DEF Remains
  <1> HIDE DEF left
  <1>2. left[0] = n  BY <1>0, <1>1
  <1>3. \A i \in 1 .. Len(Order) : left[i] = left[i - 1] - Least(Floor0(room[Order[i]]), left[i - 1])
    BY <1>0, <1>1
  <1>4. 0 \in S  BY <1>0, <1>2
  <1>5. ASSUME NEW i \in 1 .. Len(Order), i - 1 \in S PROVE i \in S
    <2>1. left[i - 1] \in Nat /\ left[i - 1] <= n  BY <1>5
    <2>2. room[Order[i]] \in Int  BY PlacesOfSources
    <2>3. left[i] \in 0 .. left[i - 1]  BY <1>3, <2>1, <2>2, GivesLeast
    <2>4. left[i] \in 0 .. n  BY <2>1, <2>3
    <2> QED  BY <1>0, <2>4
  <1>6. S = 0 .. Len(Order)
    <2>1. S \in SUBSET (0 .. Len(Order))  OBVIOUS
    <2> HIDE DEF S
    <2> QED  BY <1>0, <1>4, <1>5, <2>1, InOrder
  <1>7. \A i \in 0 .. Len(Order) : left[i] \in 0 .. n  BY <1>6
  <1>8. left \in [0 .. Len(Order) -> 0 .. n]  BY <1>1, <1>7
  <1> QED  BY <1>2, <1>3, <1>8 DEF left

\* A walk takes no more of a source than it has room, and nothing of one it did not
\* reach; what nobody gave is still needed.
LEMMA WalkGives ==
    ASSUME NEW n \in Nat, NEW room \in [Sources -> Int]
    PROVE  LET left == Remains(n, room)
           IN  /\ Gives(left) \in [Sources -> 0 .. n]
               /\ \A s \in Sources : Gives(left)[s] <= Floor0(room[s])
               /\ \A s \in Sources : ~ Reached(s, left) => Gives(left)[s] = 0
               /\ left[Len(Order)] \in 0 .. n
  <1> DEFINE left == Remains(n, room)
  <1>0. Len(Order) \in Nat  BY PlacesOfSources
  <1>1. /\ left \in [0 .. Len(Order) -> 0 .. n]
        /\ \A i \in 1 .. Len(Order) : left[i] = left[i - 1] - Least(Floor0(room[Order[i]]), left[i - 1])
    BY WalkFalls
  <1> HIDE DEF left
  <1>2. left[Len(Order)] \in 0 .. n  BY <1>0, <1>1
  <1>3. ASSUME NEW s \in Sources
        PROVE  /\ Gives(left)[s] \in 0 .. n /\ Gives(left)[s] <= Floor0(room[s])
               /\ ~ Reached(s, left) => Gives(left)[s] = 0
    <2> DEFINE i == CHOOSE j \in 1 .. Len(Order) : Order[j] = s
    <2>1. i \in 1 .. Len(Order) /\ Order[i] = s  BY PlacesOfSources
    <2>2. Gives(left)[s] = left[i - 1] - left[i]  BY DEF Gives
    <2> HIDE DEF i
    <2>3. i - 1 \in 0 .. Len(Order) /\ left[i - 1] \in 0 .. n /\ left[i - 1] \in Nat
      <3>1. i - 1 \in 0 .. Len(Order)  BY <1>0, <2>1
      <3>2. left[i - 1] \in 0 .. n  BY <1>1, <3>1
      <3> QED  BY <3>1, <3>2
    <2>4. left[i] = left[i - 1] - Least(Floor0(room[s]), left[i - 1])  BY <1>1, <2>1
    <2> DEFINE given == Least(Floor0(room[s]), left[i - 1])
    <2>5. given \in 0 .. left[i - 1] /\ given <= Floor0(room[s])  BY <2>3, GivesLeast
    <2>6. Gives(left)[s] = given
      <3> HIDE DEF given
      <3> QED  BY <2>2, <2>3, <2>4, <2>5 DEF given
    <2>7. ~ Reached(s, left) => left[i - 1] = 0
      BY <2>1, <2>3 DEF Reached
    <2> HIDE DEF given
    <2> QED  BY <2>3, <2>5, <2>6, <2>7
  <1>4. DOMAIN Gives(left) = Sources /\ Gives(left) = [s \in Sources |-> Gives(left)[s]]  BY DEF Gives
  <1>5. Gives(left) \in [Sources -> 0 .. n]  BY <1>3, <1>4
  <1> QED  BY <1>2, <1>3, <1>5 DEF left

(***************************************************************************)
(* What turns hold                                                         *)
(***************************************************************************)

TurnRow == [pc : {"new", "held", "refused"}, phase : Phases, want : Units, hold : [Sources -> Units],
            start : [PoolsOf -> Nat], day : 0 .. MaxTime, settled : BOOLEAN, released : BOOLEAN,
            covered : Units, cost : Units, made : [PoolsOf -> Nat]]
GrantRow == [amount : Nat, used : Nat, revoked : BOOLEAN]
PoolRow == [amount : Nat, used : Nat, period : Nat, start : Nat]
Marks == {"no", "on", "back"}

LEMMA BonusRows ==
    TypeOK <=> /\ now \in Times
               /\ grant \in [GrantsOf -> GrantRow] /\ pool \in [PoolsOf -> PoolRow]
               /\ drawn \in [PoolsOf \X Accounts \X Times -> Nat] /\ turn \in [Turns -> TurnRow]
               /\ epoch \in [PoolsOf -> Nat] /\ charged \in [Sources -> Nat] /\ moved \in [PoolsOf -> Marks]
  BY DEF TypeOK, TurnRow, GrantRow, PoolRow, Marks

\* The fields of the rows, as the steps below look into them.
LEMMA BonusFields ==
    ASSUME TypeOK
    PROVE  /\ \A g \in GrantsOf : grant[g].amount \in Nat /\ grant[g].used \in Nat /\ grant[g].revoked \in BOOLEAN
           /\ \A p \in PoolsOf : /\ pool[p].amount \in Nat /\ pool[p].used \in Nat /\ pool[p].period \in Nat
                                 /\ pool[p].start \in Nat /\ epoch[p] \in Nat /\ moved[p] \in Marks
           /\ \A s \in Sources : charged[s] \in Nat
           /\ \A t \in Turns : /\ turn[t].hold \in [Sources -> Units] /\ turn[t].start \in [PoolsOf -> Nat]
                               /\ turn[t].made \in [PoolsOf -> Nat] /\ turn[t].settled \in BOOLEAN
                               /\ turn[t].released \in BOOLEAN /\ turn[t].phase \in Phases
                               /\ turn[t].want \in Units /\ turn[t].day \in 0 .. MaxTime
           /\ \A t \in Turns, s \in Sources : turn[t].hold[s] \in Nat /\ turn[t].hold[s] <= MaxUnit
  <1>1. \A g \in GrantsOf : grant[g] \in GrantRow  BY BonusRows
  <1>2. \A p \in PoolsOf : pool[p] \in PoolRow /\ epoch[p] \in Nat /\ moved[p] \in Marks  BY BonusRows
  <1>3. \A s \in Sources : charged[s] \in Nat  BY BonusRows
  <1>4. \A t \in Turns : turn[t] \in TurnRow  BY BonusRows
  <1>5. \A t \in Turns : turn[t].hold \in [Sources -> Units]  BY <1>4 DEF TurnRow
  <1>6. \A t \in Turns, s \in Sources : turn[t].hold[s] \in Nat /\ turn[t].hold[s] <= MaxUnit
    BY <1>5, BonusConstants
  <1> QED  BY <1>1, <1>2, <1>3, <1>4, <1>5, <1>6 DEF GrantRow, PoolRow, TurnRow

\* What a set of turns holds, when each holds f of it.
HeldBy(f, T) == Cardinality({c \in T \X (1 .. MaxUnit) : c[2] <= f[c[1]]})

LEMMA CountTo ==
    ASSUME NEW n \in Nat PROVE IsFiniteSet(1 .. n) /\ Cardinality(1 .. n) = n
  <1>1. 1 \in Int /\ n \in Int  OBVIOUS
  <1>2. IsFiniteSet(1 .. n) /\ Cardinality(1 .. n) = IF 1 > n THEN 0 ELSE n - 1 + 1
    BY <1>1, FS_Interval
  <1> QED  BY <1>2

LEMMA HeldByCounts ==
    ASSUME NEW f, NEW T \in SUBSET Turns
    PROVE  /\ IsFiniteSet({c \in T \X (1 .. MaxUnit) : c[2] <= f[c[1]]})
           /\ HeldBy(f, T) \in Nat
  <1>1. IsFiniteSet(T)  BY BonusConstants, FS_Subset
  <1>2. IsFiniteSet(1 .. MaxUnit)  BY BonusConstants, FS_Interval
  <1>3. IsFiniteSet(T \X (1 .. MaxUnit))  BY <1>1, <1>2, FS_Product
  <1> DEFINE units == {c \in T \X (1 .. MaxUnit) : c[2] <= f[c[1]]}
  <1>4. units \in SUBSET (T \X (1 .. MaxUnit))  OBVIOUS
  <1>5. HeldBy(f, T) = Cardinality(units)  BY DEF HeldBy
  <1> HIDE DEF units
  <1>6. IsFiniteSet(units)  BY <1>3, <1>4, FS_Subset
  <1>7. Cardinality(units) \in Nat  BY <1>6, FS_CardinalityType
  <1> QED  BY <1>5, <1>6, <1>7 DEF units

\* A turn that joins adds what it holds.
LEMMA HeldByJoined ==
    ASSUME NEW f, NEW g, NEW T \in SUBSET Turns, NEW t \in Turns, t \notin T,
           \A u \in T : g[u] = f[u], g[t] \in Nat, g[t] <= MaxUnit
    PROVE  HeldBy(g, T \cup {t}) = HeldBy(f, T) + g[t]
  <1> DEFINE units == {c \in T \X (1 .. MaxUnit) : c[2] <= f[c[1]]}
             own == {t} \X (1 .. g[t])
             all == {c \in (T \cup {t}) \X (1 .. MaxUnit) : c[2] <= g[c[1]]}
  <1>1. MaxUnit \in Nat  BY BonusConstants
  <1>2. all = units \cup own
    <2>1. ASSUME NEW c, c \in all PROVE c \in units \cup own
      <3>1. c \in (T \cup {t}) \X (1 .. MaxUnit) /\ c[2] <= g[c[1]]  BY <2>1
      <3>2. c = <<c[1], c[2]>> /\ c[1] \in T \cup {t} /\ c[2] \in 1 .. MaxUnit  BY <3>1
      <3>3. CASE c[1] = t
        <4>1. c[2] \in 1 .. g[t]  BY <1>1, <3>1, <3>2, <3>3
        <4> QED  BY <3>2, <3>3, <4>1
      <3>4. CASE c[1] # t
        <4>1. c[1] \in T /\ c[2] <= f[c[1]]  BY <3>1, <3>2, <3>4
        <4> QED  BY <3>2, <4>1
      <3> QED  BY <3>3, <3>4
    <2>2. ASSUME NEW c, c \in units PROVE c \in all
      <3>1. c \in T \X (1 .. MaxUnit) /\ c[2] <= f[c[1]]  BY <2>2
      <3>2. c = <<c[1], c[2]>> /\ c[1] \in T /\ c[2] \in 1 .. MaxUnit  BY <3>1
      <3> QED  BY <3>1, <3>2
    <2>3. ASSUME NEW c, c \in own PROVE c \in all
      <3>1. c = <<c[1], c[2]>> /\ c[1] = t /\ c[2] \in 1 .. g[t]  BY <2>3
      <3>2. c[2] \in 1 .. MaxUnit /\ c[2] <= g[t]  BY <1>1, <3>1
      <3> QED  BY <3>1, <3>2
    <2> HIDE DEF all, units, own
    <2> QED  BY <2>1, <2>2, <2>3
  <1>3. units \cap own = {}
    <2>1. ASSUME NEW c, c \in units, c \in own PROVE FALSE
      <3>1. c[1] \in T  BY <2>1
      <3>2. c[1] = t  BY <2>1
      <3> QED  BY <3>1, <3>2
    <2> HIDE DEF units, own
    <2> QED  BY <2>1
  <1>4. IsFiniteSet(units) /\ Cardinality(units) = HeldBy(f, T) /\ HeldBy(f, T) \in Nat
    <2>1. IsFiniteSet(units) /\ HeldBy(f, T) \in Nat  BY HeldByCounts
    <2>2. Cardinality(units) = HeldBy(f, T)  BY DEF HeldBy
    <2> QED  BY <2>1, <2>2
  <1>5. IsFiniteSet(own) /\ Cardinality(own) = g[t]
    <2>1. IsFiniteSet(1 .. g[t]) /\ Cardinality(1 .. g[t]) = g[t]
      <3>1. PICK n \in Nat : n = g[t]  OBVIOUS
      <3>2. IsFiniteSet(1 .. n) /\ Cardinality(1 .. n) = n  BY CountTo
      <3> QED  BY <3>1, <3>2
    <2>2. IsFiniteSet({t}) /\ Cardinality({t}) = 1  BY FS_Singleton
    <2>3. IsFiniteSet({t} \X (1 .. g[t])) /\ Cardinality({t} \X (1 .. g[t])) = Cardinality({t}) * Cardinality(1 .. g[t])
      BY <2>1, <2>2, FS_Product, Zenon
    <2> QED  BY <2>1, <2>2, <2>3
  <1>6. HeldBy(g, T \cup {t}) = Cardinality(all)  BY DEF HeldBy
  <1> HIDE DEF units, own, all
  <1>7. Cardinality(units \cup own) = Cardinality(units) + Cardinality(own) - Cardinality(units \cap own)
    BY <1>4, <1>5, FS_Union
  <1>8. Cardinality(units \cap own) = 0  BY <1>3, FS_EmptySet
  <1> QED  BY <1>2, <1>4, <1>5, <1>6, <1>7, <1>8

\* What is held of a source is what each turn holds of it.
Share(s) == [t \in Turns |-> turn[t].hold[s]]

LEMMA UnitsByTurn ==
    ASSUME NEW s \in Sources, NEW T \in SUBSET Turns
    PROVE  HeldUnits(s, T) = HeldBy(Share(s), T)
  <1>1. \A c \in T \X (1 .. MaxUnit) : turn[c[1]].hold[s] = Share(s)[c[1]]  BY DEF Share
  <1>2. {c \in T \X (1 .. MaxUnit) : c[2] <= turn[c[1]].hold[s]}
          = {c \in T \X (1 .. MaxUnit) : c[2] <= Share(s)[c[1]]}
    BY <1>1
  <1> QED  BY <1>2 DEF HeldUnits, HeldBy

LEMMA UnitsCounted ==
    ASSUME NEW s \in Sources, NEW T \in SUBSET Turns
    PROVE  HeldUnits(s, T) \in Nat /\ HeldUnits(s, {}) = 0
  <1>1. HeldUnits(s, T) \in Nat  BY UnitsByTurn, HeldByCounts
  <1>2. {c \in {} \X (1 .. MaxUnit) : c[2] <= turn[c[1]].hold[s]} = {}  OBVIOUS
  <1>3. HeldUnits(s, {}) = 0  BY <1>2, FS_EmptySet DEF HeldUnits
  <1> QED  BY <1>1, <1>3

\* Turns whose holds stay hold the same.
LEMMA UnitsKept ==
    ASSUME NEW s \in Sources, NEW T \in SUBSET Turns, \A u \in T : turn'[u].hold = turn[u].hold
    PROVE  HeldUnits(s, T)' = HeldUnits(s, T)
  <1>1. \A c \in T \X (1 .. MaxUnit) : turn'[c[1]].hold[s] = turn[c[1]].hold[s]  OBVIOUS
  <1>2. {c \in T \X (1 .. MaxUnit) : c[2] <= turn'[c[1]].hold[s]}
          = {c \in T \X (1 .. MaxUnit) : c[2] <= turn[c[1]].hold[s]}
    BY <1>1
  <1> QED  BY <1>2 DEF HeldUnits

\* A turn that joins a set adds its hold to what the set holds.
LEMMA UnitsJoin ==
    ASSUME TypeOK', NEW s \in Sources, NEW T \in SUBSET Turns, NEW t \in Turns, t \notin T,
           \A u \in T : turn'[u].hold = turn[u].hold
    PROVE  HeldUnits(s, T \cup {t})' = HeldUnits(s, T) + turn'[t].hold[s]
  <1>1. PICK f : f = Share(s)  OBVIOUS
  <1>2. PICK g : g = Share(s)'  OBVIOUS
  <1>3. HeldUnits(s, T) = HeldBy(f, T)  BY <1>1, UnitsByTurn
  <1>4. HeldUnits(s, T \cup {t})' = HeldBy(g, T \cup {t})
    <2>1. \A c \in (T \cup {t}) \X (1 .. MaxUnit) : turn'[c[1]].hold[s] = g[c[1]]  BY <1>2 DEF Share
    <2>2. {c \in (T \cup {t}) \X (1 .. MaxUnit) : c[2] <= turn'[c[1]].hold[s]}
            = {c \in (T \cup {t}) \X (1 .. MaxUnit) : c[2] <= g[c[1]]}
      BY <2>1
    <2> QED  BY <2>2 DEF HeldUnits, HeldBy
  <1>5. \A u \in T : g[u] = f[u]  BY <1>1, <1>2 DEF Share
  <1>6. g[t] = turn'[t].hold[s]  BY <1>2 DEF Share
  <1>7. turn'[t].hold[s] \in Nat /\ turn'[t].hold[s] <= MaxUnit
    <2>1. turn'[t].hold \in [Sources -> Units]  BY DEF TypeOK
    <2> QED  BY <2>1, BonusConstants
  <1> QED  BY <1>3, <1>4, <1>5, <1>6, <1>7, HeldByJoined

\* A turn that leaves a set takes its hold away.
LEMMA UnitsLeave ==
    ASSUME TypeOK, NEW s \in Sources, NEW T \in SUBSET Turns, NEW t \in T,
           \A u \in T : turn'[u].hold = turn[u].hold
    PROVE  HeldUnits(s, T) = HeldUnits(s, T \ {t})' + turn[t].hold[s]
  <1>1. PICK f : f = Share(s)  OBVIOUS
  <1>2. HeldUnits(s, T) = HeldBy(f, T)  BY <1>1, UnitsByTurn
  <1>3. HeldUnits(s, T \ {t})' = HeldUnits(s, T \ {t})
    <2>1. T \ {t} \in SUBSET Turns  OBVIOUS
    <2> QED  BY <2>1, UnitsKept
  <1>4. HeldUnits(s, T \ {t}) = HeldBy(f, T \ {t})  BY <1>1, UnitsByTurn
  <1>5. f[t] = turn[t].hold[s] /\ turn[t].hold[s] \in Nat /\ turn[t].hold[s] <= MaxUnit
    BY <1>1, BonusFields DEF Share
  <1>6. HeldBy(f, (T \ {t}) \cup {t}) = HeldBy(f, T \ {t}) + f[t]
    <2>1. T \ {t} \in SUBSET Turns /\ t \notin T \ {t} /\ t \in Turns  OBVIOUS
    <2> QED  BY <1>5, <2>1, HeldByJoined
  <1>7. (T \ {t}) \cup {t} = T  OBVIOUS
  <1> QED  BY <1>2, <1>3, <1>4, <1>5, <1>6, <1>7

(***************************************************************************)
(* The shape of the rows                                                   *)
(***************************************************************************)

\* A period starts on a day that has begun.
LEMMA PeriodStartType ==
    ASSUME TypeOK, NEW period \in Nat
    PROVE  PeriodStart(period) \in Nat /\ (period # 0 => PeriodStart(period) >= 1)
  <1>1. now \in Nat /\ now >= 1  BY BonusConstants DEF TypeOK
  <1>2. CASE period = 0
    BY <1>2 DEF PeriodStart
  <1>3. CASE period # 0
    <2> DEFINE n == now - 1
    <2>1. n \in Nat /\ period \in Nat \ {0}  BY <1>1, <1>3
    <2> HIDE DEF n
    <2>2. n % period \in 0 .. period - 1  BY <2>1
    <2>3. n = period * (n \div period) + (n % period)  BY <2>1
    <2>4. n \div period \in Nat  BY <2>1
    <2>5. period * (n \div period) \in Nat  BY <2>1, <2>4
    <2>6. n % period \in 0 .. n  BY <2>1, <2>2, <2>3, <2>5
    <2>7. PeriodStart(period) = now - (n % period)  BY <1>3 DEF PeriodStart, n
    <2>8. n = now - 1  BY DEF n
    <2> QED  BY <1>1, <2>6, <2>7, <2>8
  <1> QED  BY <1>2, <1>3

\* A pool as a transaction finds it: opened by a new period, or as it stood.
LEMMA CurrentPool ==
    ASSUME TypeOK, NEW p \in PoolsOf
    PROVE  /\ Current(p).amount \in Nat /\ Current(p).used \in Nat /\ Current(p).start \in Nat
           /\ Current(p).period = pool[p].period /\ Current(p) \in PoolRow
           /\ Due(p) => /\ Current(p).amount = ResetAmount[p] /\ Current(p).used = 0
                        /\ Current(p).start > pool[p].start
                        /\ Current(p).start = PeriodStart(pool[p].period)
           /\ ~ Due(p) => Current(p) = pool[p]
  <1>1. pool[p] \in PoolRow /\ pool[p].period \in Nat /\ pool[p].start \in Nat  BY BonusRows, BonusFields
  <1>2. ResetAmount[p] \in Nat  BY BonusConstants
  <1>3. PeriodStart(pool[p].period) \in Nat  BY <1>1, PeriodStartType
  <1>4. CASE Due(p)
    <2>1. Current(p) = [amount |-> ResetAmount[p], used |-> 0, period |-> pool[p].period,
                        start |-> PeriodStart(pool[p].period)]
      BY <1>1, <1>4 DEF Current, PoolRow
    <2>2. PeriodStart(pool[p].period) > pool[p].start  BY <1>1, <1>3, <1>4 DEF Due
    <2> QED  BY <1>1, <1>2, <1>3, <1>4, <2>1, <2>2 DEF PoolRow
  <1>5. CASE ~ Due(p)
    <2>1. Current(p) = pool[p]  BY <1>5 DEF Current
    <2> QED  BY <1>1, <1>5, <2>1 DEF PoolRow
  <1> QED  BY <1>4, <1>5

\* The room of a source is a figure, and a source that may not be asked has none.
LEMMA TakeRoomType ==
    ASSUME TypeOK, NEW t \in Turns, NEW phase \in Phases, NEW s \in Sources
    PROVE  /\ TakeRoom(t, phase, s) \in Int
           /\ ~ Eligible(t, phase, s) => TakeRoom(t, phase, s) = 0
  <1>1. CASE ~ Eligible(t, phase, s)
    BY <1>1 DEF TakeRoom
  <1>2. CASE Eligible(t, phase, s) /\ s \in GrantsOf
    BY <1>2, BonusFields DEF TakeRoom
  <1>3. CASE Eligible(t, phase, s) /\ s \notin GrantsOf
    <2>1. s \in PoolsOf  BY <1>3 DEF Sources
    <2>2. Current(s).amount \in Nat /\ Current(s).used \in Nat  BY <2>1, CurrentPool
    <2>3. drawn[<<s, Owner[t], now>>] \in Nat
      <3>1. <<s, Owner[t], now>> \in PoolsOf \X Accounts \X Times  BY <2>1, BonusConstants DEF TypeOK
      <3> QED  BY <3>1 DEF TypeOK
    <2>4. DailyCap[s] \in Nat  BY <2>1, BonusConstants
    <2> QED  BY <1>3, <2>2, <2>3, <2>4 DEF TakeRoom, Least, Floor0
  <1> QED  BY <1>1, <1>2, <1>3

LEMMA SettleRoomType ==
    ASSUME TypeOK, NEW t \in Turns, NEW s \in Sources, turn[t].day \in Times
    PROVE  /\ SettleRoom(t, s) \in Int
           /\ turn[t].hold[s] = 0 => SettleRoom(t, s) = 0
  <1>0. turn[t].hold[s] \in Nat /\ turn[t].released \in BOOLEAN  BY BonusFields
  <1>1. CASE turn[t].hold[s] = 0
    BY <1>1 DEF SettleRoom
  <1>2. CASE turn[t].hold[s] # 0 /\ s \in GrantsOf
    BY <1>0, <1>2, BonusFields DEF SettleRoom
  <1>3. CASE turn[t].hold[s] # 0 /\ s \notin GrantsOf
    <2>1. s \in PoolsOf  BY <1>3 DEF Sources
    <2>2. Current(s).amount \in Nat /\ Current(s).used \in Nat  BY <2>1, CurrentPool
    <2>3. drawn[<<s, Owner[t], turn[t].day>>] \in Nat
      <3>1. <<s, Owner[t], turn[t].day>> \in PoolsOf \X Accounts \X Times  BY <2>1, BonusConstants
      <3> QED  BY <3>1 DEF TypeOK
    <2>4. DailyCap[s] \in Nat  BY <2>1, BonusConstants
    <2> QED  BY <1>0, <1>3, <2>2, <2>3, <2>4 DEF SettleRoom, Least
  <1> QED  BY <1>1, <1>2, <1>3

\* The pool as a draw leaves it, without what it takes.
Opened(p, reached) == IF p \in reached THEN Current(p) ELSE pool[p]

\* What it leaves in the grants, in the pools and in the accounts' days.
DrawnGrants(gives) ==
    \A g \in GrantsOf : /\ grant'[g].used = grant[g].used + gives[g] /\ grant'[g].amount = grant[g].amount
                        /\ grant'[g].revoked = grant[g].revoked
DrawnPools(reached, gives) ==
    \A p \in PoolsOf : /\ pool'[p].used = Opened(p, reached).used + gives[p]
                       /\ pool'[p].amount = Opened(p, reached).amount
                       /\ pool'[p].start = Opened(p, reached).start
                       /\ pool'[p].period = pool[p].period
                       /\ epoch'[p] = IF p \in reached /\ Due(p) THEN epoch[p] + 1 ELSE epoch[p]
                       /\ moved'[p] = IF p \in reached /\ Due(p) THEN "no" ELSE moved[p]
DrawnDays(t, day, gives) ==
    \A p \in PoolsOf, a \in Accounts, d \in Times :
        drawn'[<<p, a, d>>] = drawn[<<p, a, d>>] + (IF a = Owner[t] /\ d = day THEN gives[p] ELSE 0)

\* What a draw writes: each source is given what was taken of it.
LEMMA DrawWrites ==
    ASSUME TypeOK, NEW t \in Turns, NEW day, NEW reached \in SUBSET PoolsOf, NEW gives \in [Sources -> Nat],
           \A p \in PoolsOf \ reached : gives[p] = 0, Draw(t, day, reached, gives)
    PROVE  /\ grant' \in [GrantsOf -> GrantRow] /\ pool' \in [PoolsOf -> PoolRow]
           /\ drawn' \in [PoolsOf \X Accounts \X Times -> Nat] /\ epoch' \in [PoolsOf -> Nat]
           /\ moved' \in [PoolsOf -> Marks]
           /\ DrawnGrants(gives) /\ DrawnPools(reached, gives) /\ DrawnDays(t, day, gives)
  <1>1. ASSUME NEW g \in GrantsOf
        PROVE  /\ [grant[g] EXCEPT !.used = @ + gives[g]] \in GrantRow
               /\ grant'[g] = [grant[g] EXCEPT !.used = @ + gives[g]]
               /\ grant'[g].used = grant[g].used + gives[g] /\ grant'[g].amount = grant[g].amount
               /\ grant'[g].revoked = grant[g].revoked
    <2>1. grant[g] \in GrantRow /\ gives[g] \in Nat  BY BonusRows, BonusConstants
    <2>2. grant'[g] = [grant[g] EXCEPT !.used = @ + gives[g]]  BY DEF Draw
    <2> QED  BY <2>1, <2>2 DEF GrantRow
  <1>2. grant' \in [GrantsOf -> GrantRow]  BY <1>1 DEF Draw
  <1>3. ASSUME NEW p \in PoolsOf
        PROVE  /\ pool'[p] \in PoolRow
               /\ pool'[p].used = Opened(p, reached).used + gives[p]
               /\ pool'[p].amount = Opened(p, reached).amount
               /\ pool'[p].start = Opened(p, reached).start
               /\ pool'[p].period = pool[p].period
    <2>1. gives[p] \in Nat /\ pool[p] \in PoolRow  BY BonusConstants, BonusRows
    <2>2. CASE p \in reached
      <3>1. pool'[p] = [Current(p) EXCEPT !.used = @ + gives[p]]  BY <2>2 DEF Draw
      <3>2. Current(p) \in PoolRow /\ Current(p).period = pool[p].period  BY CurrentPool
      <3> QED  BY <2>1, <2>2, <3>1, <3>2 DEF PoolRow, Opened
    <2>3. CASE p \notin reached
      <3>1. pool'[p] = pool[p] /\ gives[p] = 0  BY <2>3 DEF Draw
      <3> QED  BY <2>1, <2>3, <3>1 DEF PoolRow, Opened
    <2> QED  BY <2>2, <2>3
  <1>4. pool' \in [PoolsOf -> PoolRow]
    <2>1. pool' = [p \in PoolsOf |-> pool'[p]]  BY DEF Draw
    <2> QED  BY <1>3, <2>1
  <1>5. /\ epoch' \in [PoolsOf -> Nat]
        /\ \A p \in PoolsOf : epoch'[p] = IF p \in reached /\ Due(p) THEN epoch[p] + 1 ELSE epoch[p]
    BY BonusFields DEF Draw
  <1>12. /\ moved' \in [PoolsOf -> Marks]
         /\ \A p \in PoolsOf : moved'[p] = IF p \in reached /\ Due(p) THEN "no" ELSE moved[p]
    BY BonusRows DEF Draw, Marks
  <1>6. ASSUME NEW d \in PoolsOf \X Accounts \X Times
        PROVE  drawn'[d] = drawn[d] + (IF d[2] = Owner[t] /\ d[3] = day THEN gives[d[1]] ELSE 0) /\ drawn'[d] \in Nat
    <2>1. d \in DOMAIN drawn /\ drawn[d] \in Nat  BY DEF TypeOK
    <2>2. d[1] \in PoolsOf  OBVIOUS
    <2>3. gives[d[1]] \in Nat  BY <2>2, BonusConstants
    <2>4. drawn'[d] = IF d[2] = Owner[t] /\ d[3] = day THEN drawn[d] + gives[d[1]] ELSE drawn[d]
      BY <2>1 DEF Draw
    <2> QED  BY <2>1, <2>3, <2>4
  <1>7. drawn' \in [PoolsOf \X Accounts \X Times -> Nat]
    <2>1. DOMAIN drawn = PoolsOf \X Accounts \X Times  BY DEF TypeOK
    <2>2. drawn' = [d \in PoolsOf \X Accounts \X Times |-> drawn'[d]]  BY <2>1 DEF Draw
    <2> QED  BY <1>6, <2>2
  <1>8. ASSUME NEW p \in PoolsOf, NEW a \in Accounts, NEW d \in Times
        PROVE  drawn'[<<p, a, d>>] = drawn[<<p, a, d>>] + (IF a = Owner[t] /\ d = day THEN gives[p] ELSE 0)
    <2>1. <<p, a, d>> \in PoolsOf \X Accounts \X Times  OBVIOUS
    <2> QED  BY <1>6, <2>1
  <1>9. DrawnGrants(gives)  BY <1>1 DEF DrawnGrants
  <1>10. DrawnPools(reached, gives)  BY <1>3, <1>5, <1>12 DEF DrawnPools
  <1>11. DrawnDays(t, day, gives)  BY <1>8 DEF DrawnDays
  <1> QED  BY <1>2, <1>4, <1>5, <1>7, <1>9, <1>10, <1>11, <1>12

(***************************************************************************)
(* What each step does                                                     *)
(***************************************************************************)

\* A turn that is under way has a day it draws from; one that never was holds
\* nothing, and no turn has seen a reset that did not happen.
TurnsStand ==
    \A t \in Turns :
        /\ turn[t].pc # "held" => turn[t].hold = NoHolds /\ ~ turn[t].settled /\ ~ turn[t].released
        /\ turn[t].pc = "held" => turn[t].day \in Times
        /\ \A p \in PoolsOf : turn[t].made[p] <= epoch[p]

\* gives is what a walk that needs n may take, when there is this room.
Walked(n, room, reached, gives) ==
    /\ gives \in [Sources -> 0 .. n]
    /\ \A s \in Sources : gives[s] <= Floor0(room[s])
    /\ reached \in SUBSET PoolsOf
    /\ \A p \in PoolsOf \ reached : gives[p] = 0

Alone(t) == \A u \in Turns \ {t} : turn'[u] = turn[u]

\* A request takes from its sources, or is refused and takes nothing.
Takes(t, phase, want, reached, gives) ==
    /\ Walked(want, [s \in Sources |-> TakeRoom(t, phase, s)], reached, gives)
    /\ Draw(t, now, reached, gives)
    /\ turn[t].pc = "new" /\ turn'[t].pc = "held" /\ turn'[t].phase = phase /\ turn'[t].day = now
    /\ turn'[t].hold = gives
    /\ turn'[t].settled = turn[t].settled /\ turn'[t].released = turn[t].released
    /\ \A p \in PoolsOf : turn'[t].start[p] = pool'[p].start /\ turn'[t].made[p] = epoch'[p]
    /\ Alone(t)
    /\ \A s \in Sources : charged'[s] = Kept(s, reached)
    /\ now' = now

LEMMA TakeSteps ==
    ASSUME TypeOK, NEW t \in Turns, NEW phase \in Phases, NEW want \in Wants, Take(t, phase, want)
    PROVE  \/ \E reached, gives :
                /\ Takes(t, phase, want, reached, gives)
                /\ turn' \in [Turns -> TurnRow] /\ charged' \in [Sources -> Nat]
           \/ /\ turn' \in [Turns -> TurnRow] /\ Alone(t)
              /\ turn[t].pc = "new" /\ turn'[t].pc = "refused" /\ turn'[t].hold = turn[t].hold
              /\ turn'[t].settled = turn[t].settled /\ turn'[t].released = turn[t].released
              /\ turn'[t].made = turn[t].made /\ turn'[t].start = turn[t].start
              /\ UNCHANGED <<now, grant, pool, drawn, epoch, charged, moved>>
  <1> DEFINE room == [s \in Sources |-> TakeRoom(t, phase, s)]
             left == Remains(want, room)
             reached == {p \in PoolsOf : Eligible(t, phase, p) /\ Reached(p, left)}
             gives == Gives(left)
  <1>0. want \in Nat /\ want \in Units /\ want <= MaxUnit  BY BonusConstants
  <1>1. room \in [Sources -> Int]  BY TakeRoomType
  <1>2. /\ gives \in [Sources -> 0 .. want] /\ \A s \in Sources : gives[s] <= Floor0(room[s])
        /\ \A s \in Sources : ~ Reached(s, left) => gives[s] = 0
    <2> HIDE DEF room
    <2> QED  BY <1>0, <1>1, WalkGives
  <1>3. ASSUME NEW p \in PoolsOf \ reached PROVE gives[p] = 0
    <2>1. p \in Sources  BY BonusConstants
    <2>2. CASE Eligible(t, phase, p)
      <3>1. ~ Reached(p, left)  BY <2>2
      <3> HIDE DEF left, gives, reached
      <3> QED  BY <1>2, <2>1, <3>1
    <2>3. CASE ~ Eligible(t, phase, p)
      <3>1. room[p] = 0  BY <2>1, <2>3, TakeRoomType
      <3> HIDE DEF room, left, gives, reached
      <3>2. gives[p] \in 0 .. want /\ gives[p] <= Floor0(0)  BY <1>2, <2>1, <3>1
      <3> QED  BY <3>2 DEF Floor0
    <2> QED  BY <2>2, <2>3
  <1>4. reached \in SUBSET PoolsOf  OBVIOUS
  <1>5. Walked(want, room, reached, gives)
    <2> HIDE DEF room, left, gives, reached
    <2> QED  BY <1>2, <1>3, <1>4 DEF Walked
  <1>6. turn \in [Turns -> TurnRow] /\ turn[t] \in TurnRow  BY BonusRows
  <1>7. CASE phase # "priority" /\ left[Len(Order)] > 0
    <2>1. /\ turn' = [turn EXCEPT ![t].pc = "refused"] /\ turn[t].pc = "new"
          /\ UNCHANGED <<now, grant, pool, drawn, epoch, charged, moved>>
      BY <1>7 DEF Take
    <2>2. /\ [turn[t] EXCEPT !.pc = "refused"] \in TurnRow
          /\ turn'[t] = [turn[t] EXCEPT !.pc = "refused"]
      BY <1>6, <2>1 DEF TurnRow
    <2>3. turn' \in [Turns -> TurnRow] /\ Alone(t)  BY <1>6, <2>1, <2>2 DEF Alone
    <2>4. /\ turn'[t].pc = "refused" /\ turn'[t].hold = turn[t].hold /\ turn'[t].settled = turn[t].settled
          /\ turn'[t].released = turn[t].released /\ turn'[t].made = turn[t].made /\ turn'[t].start = turn[t].start
      BY <1>6, <2>2 DEF TurnRow
    <2> QED  BY <2>1, <2>3, <2>4
  <1>8. CASE ~ (phase # "priority" /\ left[Len(Order)] > 0)
    <2> DEFINE starts == [p \in PoolsOf |-> pool'[p].start]
               mades == [p \in PoolsOf |-> epoch'[p]]
               row == [turn[t] EXCEPT !.pc = "held", !.phase = phase, !.want = want, !.day = now,
                         !.hold = gives, !.start = starts, !.made = mades]
    <2>1. /\ Draw(t, now, reached, gives) /\ turn[t].pc = "new" /\ now' = now
          /\ turn' = [turn EXCEPT ![t] = row]
          /\ charged' = [s \in Sources |-> Kept(s, reached)]
      BY <1>8 DEF Take
    <2>2. gives \in [Sources -> Nat] /\ gives \in [Sources -> Units]
      <3> HIDE DEF gives
      <3>1. 0 .. want \subseteq Units /\ 0 .. want \subseteq Nat  BY <1>0, BonusConstants DEF Units
      <3> QED  BY <1>2, <3>1
    <2> HIDE DEF gives, reached
    <2>3. pool' \in [PoolsOf -> PoolRow] /\ epoch' \in [PoolsOf -> Nat]
      BY <1>3, <1>4, <2>1, <2>2, DrawWrites
    <2>4. starts \in [PoolsOf -> Nat] /\ mades \in [PoolsOf -> Nat]
      BY <2>3 DEF PoolRow
    <2>5. now \in 0 .. MaxTime  BY BonusConstants DEF TypeOK, Times
    <2> HIDE DEF starts, mades
    <2>6. row \in TurnRow
      BY <1>0, <1>6, <2>2, <2>4, <2>5 DEF TurnRow
    <2>7. /\ row.pc = "held" /\ row.phase = phase /\ row.day = now /\ row.hold = gives
          /\ row.settled = turn[t].settled /\ row.released = turn[t].released
          /\ row.start = starts /\ row.made = mades
      BY <1>6 DEF TurnRow
    <2> HIDE DEF row
    <2>8. turn'[t] = row /\ Alone(t) /\ turn' \in [Turns -> TurnRow]  BY <1>6, <2>1, <2>6 DEF Alone
    <2>9. \A p \in PoolsOf : turn'[t].start[p] = pool'[p].start /\ turn'[t].made[p] = epoch'[p]
      BY <2>7, <2>8 DEF starts, mades
    <2>10. ASSUME NEW s \in Sources PROVE Kept(s, reached) \in Nat
      BY BonusFields DEF Kept
    <2>11. charged' \in [Sources -> Nat] /\ \A s \in Sources : charged'[s] = Kept(s, reached)
      BY <2>1, <2>10
    <2>12. Takes(t, phase, want, reached, gives)
      BY <1>5, <2>1, <2>7, <2>8, <2>9, <2>11 DEF Takes, room
    <2> QED  BY <2>8, <2>11, <2>12
  <1> QED  BY <1>7, <1>8

\* A settlement charges what the turn held of, each source within its room.
SettleRooms(t, cost) == [s \in Sources |-> IF s \in LastPayer(t) THEN cost ELSE SettleRoom(t, s)]

Settles(t, cost, reached, gives) ==
    /\ Walked(cost, SettleRooms(t, cost), reached, gives)
    /\ \A s \in Sources : turn[t].hold[s] = 0 => gives[s] = 0
    /\ Draw(t, turn[t].day, reached, gives)
    /\ turn[t].pc = "held" /\ ~ turn[t].settled /\ turn'[t].settled
    /\ turn'[t].pc = turn[t].pc /\ turn'[t].phase = turn[t].phase /\ turn'[t].day = turn[t].day
    /\ turn'[t].hold = turn[t].hold /\ turn'[t].released = turn[t].released
    /\ turn'[t].start = turn[t].start /\ turn'[t].made = turn[t].made
    /\ Alone(t)
    /\ \A s \in Sources : charged'[s] = Kept(s, reached) + gives[s]
    /\ now' = now

\* The last payer is a pool the turn held some of.
LEMMA LastPayerHeld ==
    ASSUME TypeOK, NEW t \in Turns, NEW s \in LastPayer(t)
    PROVE  s \in PoolsOf /\ turn[t].hold[s] > 0 /\ turn[t].phase = "exclusive"
  <1> DEFINE held == {i \in 1 .. Len(PoolOrder) : turn[t].hold[PoolOrder[i]] > 0}
             i == CHOOSE i \in held : \A j \in held : j <= i
  <1>1. turn[t].phase = "exclusive" /\ held # {} /\ s = PoolOrder[i]  BY DEF LastPayer
  <1>2. i \in held
    <2> DEFINE P(k) == \A j \in held : j <= k
    <2>1. \E k \in held : P(k)
      <3>1. Len(PoolOrder) \in Nat
        BY ConstantsAssumption, LenProperties DEF ConstantsAssumption
      <3> DEFINE D == {k \in Nat : P(k)}
      <3>2. held \subseteq 1 .. Len(PoolOrder)  OBVIOUS
      <3> HIDE DEF held
      <3>3. Len(PoolOrder) \in D  BY <3>1, <3>2
      <3>4. D \in SUBSET Nat  OBVIOUS
      <3> HIDE DEF D
      <3>5. PICK n \in D : \A k \in D : ~ (<<k, n>> \in OpToRel(<, Nat))
        BY <3>3, <3>4, NatLessThanWellFounded, WFMin, Zenon
      <3>6. \A k \in D : k \in Nat /\ n \in Nat /\ ~ (k < n)  BY <3>4, <3>5 DEF OpToRel
      <3>7. n \in Nat /\ P(n)  BY DEF D
      <3>8. n \in held
        <4>1. SUFFICES ASSUME n \notin held PROVE FALSE  OBVIOUS
        <4>2. PICK j \in held : TRUE  BY <1>1
        <4>3. n - 1 \in Nat /\ P(n - 1)  BY <3>1, <3>2, <3>7, <4>1, <4>2
        <4>4. n - 1 \in D  BY <4>3 DEF D
        <4> QED  BY <3>6, <3>7, <4>4
      <3> QED  BY <3>7, <3>8
    <2> HIDE DEF held
    <2> QED  BY <2>1
  <1>3. i \in 1 .. Len(PoolOrder) /\ turn[t].hold[PoolOrder[i]] > 0  BY <1>2
  <1> HIDE DEF i
  <1> QED  BY <1>1, <1>3 DEF PoolsOf

LEMMA SettleSteps ==
    ASSUME TypeOK, TurnsStand, NEW t \in Turns, NEW cost \in Bills, Settle(t, cost)
    PROVE  \E reached, gives :
             /\ Settles(t, cost, reached, gives)
             /\ turn' \in [Turns -> TurnRow] /\ charged' \in [Sources -> Nat]
  <1> DEFINE room == SettleRooms(t, cost)
             left == Remains(cost, room)
             reached == {p \in PoolsOf : turn[t].hold[p] > 0 /\ Reached(p, left)}
             gives == Gives(left)
             row == [turn[t] EXCEPT !.settled = TRUE, !.cost = cost, !.covered = cost - left[Len(Order)]]
  <1>0. cost \in Nat /\ cost \in Units /\ cost <= MaxUnit  BY BonusConstants
  <1>1. /\ turn[t].pc = "held" /\ ~ turn[t].settled /\ now' = now
        /\ Draw(t, turn[t].day, reached, gives)
        /\ turn' = [turn EXCEPT ![t].settled = TRUE, ![t].cost = cost, ![t].covered = cost - left[Len(Order)]]
        /\ charged' = [s \in Sources |-> Kept(s, reached) + gives[s]]
    BY DEF Settle, SettleRooms
  <1>2. turn[t].day \in Times  BY <1>1 DEF TurnsStand
  <1>3. room \in [Sources -> Int]
    <2>1. \A s \in Sources : SettleRoom(t, s) \in Int  BY <1>2, SettleRoomType
    <2> QED  BY <1>0, <2>1 DEF SettleRooms
  <1>4. /\ gives \in [Sources -> 0 .. cost] /\ \A s \in Sources : gives[s] <= Floor0(room[s])
        /\ \A s \in Sources : ~ Reached(s, left) => gives[s] = 0
        /\ left[Len(Order)] \in 0 .. cost
    <2> HIDE DEF room
    <2> QED  BY <1>0, <1>3, WalkGives
  <1>5. ASSUME NEW s \in Sources, turn[t].hold[s] = 0 PROVE gives[s] = 0
    <2>1. s \notin LastPayer(t)  BY <1>5, LastPayerHeld
    <2>2. room[s] = 0  BY <1>2, <1>5, <2>1, SettleRoomType DEF SettleRooms
    <2> HIDE DEF room, left, gives, reached
    <2>3. gives[s] \in 0 .. cost /\ gives[s] <= Floor0(0)  BY <1>4, <2>2
    <2> QED  BY <2>3 DEF Floor0
  <1>6. ASSUME NEW p \in PoolsOf \ reached PROVE gives[p] = 0
    <2>1. p \in Sources  BY BonusConstants
    <2>2. turn[t].hold[p] \in Nat  BY <2>1, BonusFields
    <2>3. turn[t].hold[p] = 0 \/ ~ Reached(p, left)  BY <2>2
    <2> HIDE DEF room, left, gives, reached
    <2> QED  BY <1>4, <1>5, <2>1, <2>3
  <1>7. reached \in SUBSET PoolsOf  OBVIOUS
  <1>8. gives \in [Sources -> Nat]
    <2> HIDE DEF gives
    <2>1. 0 .. cost \subseteq Nat  BY <1>0
    <2> QED  BY <1>4, <2>1
  <1>9. Walked(cost, room, reached, gives)
    <2> HIDE DEF room, left, gives, reached
    <2> QED  BY <1>4, <1>6, <1>7 DEF Walked
  <1>10. turn \in [Turns -> TurnRow] /\ turn[t] \in TurnRow  BY BonusRows
  <1>11. cost - left[Len(Order)] \in Units
    <2> HIDE DEF left
    <2> QED  BY <1>0, <1>4, BonusConstants DEF Units
  <1> DEFINE rest == cost - left[Len(Order)]
  <1>12. turn' = [turn EXCEPT ![t] = row]
    <2> HIDE DEF left
    <2> QED  BY <1>1, <1>10
  <1> HIDE DEF room, left, gives, reached, rest
  <1>13. row \in TurnRow
    BY <1>0, <1>10, <1>11 DEF TurnRow
  <1>14. /\ row.settled /\ row.pc = turn[t].pc /\ row.phase = turn[t].phase /\ row.day = turn[t].day
         /\ row.hold = turn[t].hold /\ row.released = turn[t].released /\ row.start = turn[t].start
         /\ row.made = turn[t].made
    BY <1>10 DEF TurnRow
  <1> HIDE DEF row
  <1>15. turn'[t] = row /\ Alone(t) /\ turn' \in [Turns -> TurnRow]  BY <1>10, <1>12, <1>13 DEF Alone
  <1>16. ASSUME NEW s \in Sources PROVE Kept(s, reached) + gives[s] \in Nat
    <2>1. Kept(s, reached) \in Nat  BY BonusFields DEF Kept
    <2> QED  BY <1>8, <2>1
  <1>17. charged' \in [Sources -> Nat] /\ \A s \in Sources : charged'[s] = Kept(s, reached) + gives[s]
    BY <1>1, <1>16
  <1>18. Settles(t, cost, reached, gives)
    BY <1>1, <1>5, <1>9, <1>14, <1>15, <1>17 DEF Settles, room
  <1> QED  BY <1>15, <1>17, <1>18

\* A release gives each source back what it takes back, and no figure falls below 0.
Releases(t) ==
    /\ turn[t].pc = "held" /\ ~ turn[t].released /\ turn'[t].released
    /\ turn'[t].pc = turn[t].pc /\ turn'[t].phase = turn[t].phase /\ turn'[t].day = turn[t].day
    /\ turn'[t].hold = turn[t].hold /\ turn'[t].settled = turn[t].settled
    /\ turn'[t].start = turn[t].start /\ turn'[t].made = turn[t].made
    /\ Alone(t)
    /\ \A g \in GrantsOf : /\ grant'[g].used = Given(t, g, grant[g].used)
                           /\ grant'[g].amount = grant[g].amount /\ grant'[g].revoked = grant[g].revoked
    /\ \A p \in PoolsOf : /\ pool'[p].used = Given(t, p, pool[p].used)
                          /\ pool'[p].amount = pool[p].amount /\ pool'[p].start = pool[p].start
                          /\ pool'[p].period = pool[p].period
    /\ \A p \in PoolsOf, a \in Accounts, d \in Times :
         drawn'[<<p, a, d>>] = IF a = Owner[t] /\ d = turn[t].day
                               THEN Floor0(drawn[<<p, a, d>>] - turn[t].hold[p]) ELSE drawn[<<p, a, d>>]
    /\ UNCHANGED <<now, epoch, charged, moved>>

LEMMA ReleaseSteps ==
    ASSUME TypeOK, NEW t \in Turns, Release(t)
    PROVE  /\ Releases(t) /\ turn' \in [Turns -> TurnRow]
           /\ grant' \in [GrantsOf -> GrantRow] /\ pool' \in [PoolsOf -> PoolRow]
           /\ drawn' \in [PoolsOf \X Accounts \X Times -> Nat]
  <1>1. turn \in [Turns -> TurnRow] /\ turn[t] \in TurnRow  BY BonusRows
  <1>2. /\ turn[t].pc = "held" /\ ~ turn[t].released /\ turn' = [turn EXCEPT ![t].released = TRUE]
        /\ UNCHANGED <<now, epoch, charged, moved>>
    BY DEF Release
  <1>3. /\ [turn[t] EXCEPT !.released = TRUE] \in TurnRow
        /\ turn'[t] = [turn[t] EXCEPT !.released = TRUE]
    BY <1>1, <1>2 DEF TurnRow
  <1>4. Alone(t) /\ turn' \in [Turns -> TurnRow]  BY <1>1, <1>2, <1>3 DEF Alone
  <1>5. /\ turn'[t].released /\ turn'[t].pc = turn[t].pc /\ turn'[t].phase = turn[t].phase
        /\ turn'[t].day = turn[t].day /\ turn'[t].hold = turn[t].hold /\ turn'[t].settled = turn[t].settled
        /\ turn'[t].start = turn[t].start /\ turn'[t].made = turn[t].made
    BY <1>1, <1>3 DEF TurnRow
  <1>6. ASSUME NEW s \in Sources, NEW used \in Nat PROVE Given(t, s, used) \in Nat
    <2>1. turn[t].hold[s] \in Nat  BY BonusFields
    <2> QED  BY <2>1 DEF Given, Floor0
  <1>7. ASSUME NEW g \in GrantsOf
        PROVE  /\ grant'[g] \in GrantRow /\ grant'[g].used = Given(t, g, grant[g].used)
               /\ grant'[g].amount = grant[g].amount /\ grant'[g].revoked = grant[g].revoked
    <2>1. grant[g] \in GrantRow /\ grant[g].used \in Nat  BY BonusRows, BonusFields
    <2>2. grant'[g] = [grant[g] EXCEPT !.used = Given(t, g, grant[g].used)]  BY DEF Release
    <2>3. Given(t, g, grant[g].used) \in Nat  BY <1>6, <2>1, BonusConstants
    <2> QED  BY <2>1, <2>2, <2>3 DEF GrantRow
  <1>8. grant' \in [GrantsOf -> GrantRow]
    <2>1. grant' = [g \in GrantsOf |-> grant'[g]]  BY DEF Release
    <2> QED  BY <1>7, <2>1
  <1>9. ASSUME NEW p \in PoolsOf
        PROVE  /\ pool'[p] \in PoolRow /\ pool'[p].used = Given(t, p, pool[p].used)
               /\ pool'[p].amount = pool[p].amount /\ pool'[p].start = pool[p].start
               /\ pool'[p].period = pool[p].period
    <2>1. pool[p] \in PoolRow /\ pool[p].used \in Nat  BY BonusRows, BonusFields
    <2>2. pool'[p] = [pool[p] EXCEPT !.used = Given(t, p, pool[p].used)]  BY DEF Release
    <2>3. Given(t, p, pool[p].used) \in Nat  BY <1>6, <2>1, BonusConstants
    <2> QED  BY <2>1, <2>2, <2>3 DEF PoolRow
  <1>10. pool' \in [PoolsOf -> PoolRow]
    <2>1. pool' = [p \in PoolsOf |-> pool'[p]]  BY DEF Release
    <2> QED  BY <1>9, <2>1
  <1>11. ASSUME NEW d \in PoolsOf \X Accounts \X Times
         PROVE  /\ drawn'[d] = IF d[2] = Owner[t] /\ d[3] = turn[t].day
                               THEN Floor0(drawn[d] - turn[t].hold[d[1]]) ELSE drawn[d]
                /\ drawn'[d] \in Nat
    <2>1. d \in DOMAIN drawn /\ drawn[d] \in Nat  BY DEF TypeOK
    <2>2. d[1] \in Sources  BY BonusConstants
    <2>3. turn[t].hold[d[1]] \in Nat  BY <2>2, BonusFields
    <2>4. drawn'[d] = IF d[2] = Owner[t] /\ d[3] = turn[t].day
                      THEN Floor0(drawn[d] - turn[t].hold[d[1]]) ELSE drawn[d]
      BY <2>1 DEF Release
    <2> QED  BY <2>1, <2>3, <2>4 DEF Floor0
  <1>12. drawn' \in [PoolsOf \X Accounts \X Times -> Nat]
    <2>1. DOMAIN drawn = PoolsOf \X Accounts \X Times  BY DEF TypeOK
    <2>2. drawn' = [d \in PoolsOf \X Accounts \X Times |-> drawn'[d]]  BY <2>1 DEF Release
    <2> QED  BY <1>11, <2>2
  <1>13. ASSUME NEW p \in PoolsOf, NEW a \in Accounts, NEW d \in Times
         PROVE  drawn'[<<p, a, d>>] = IF a = Owner[t] /\ d = turn[t].day
                                      THEN Floor0(drawn[<<p, a, d>>] - turn[t].hold[p]) ELSE drawn[<<p, a, d>>]
    <2>1. <<p, a, d>> \in PoolsOf \X Accounts \X Times  OBVIOUS
    <2> QED  BY <1>11, <2>1
  <1> QED  BY <1>2, <1>4, <1>5, <1>7, <1>8, <1>9, <1>10, <1>12, <1>13 DEF Releases

\* A revoked grant has nothing left.
Revokes(g) ==
    /\ ~ grant[g].revoked /\ grant'[g].revoked
    /\ grant'[g].used = grant[g].used /\ grant'[g].amount = grant[g].used
    /\ \A h \in GrantsOf \ {g} : grant'[h] = grant[h]
    /\ UNCHANGED <<now, pool, drawn, turn, epoch, charged, moved>>

LEMMA RevokeSteps ==
    ASSUME TypeOK, NEW g \in GrantsOf, Revoke(g)
    PROVE  Revokes(g) /\ grant' \in [GrantsOf -> GrantRow]
  <1>1. grant \in [GrantsOf -> GrantRow] /\ grant[g] \in GrantRow /\ grant[g].used \in Nat
    BY BonusRows, BonusFields
  <1>2. /\ grant' = [grant EXCEPT ![g].amount = grant[g].used, ![g].revoked = TRUE]
        /\ ~ grant[g].revoked /\ UNCHANGED <<now, pool, drawn, turn, epoch, charged, moved>>
    BY DEF Revoke
  <1> DEFINE row == [grant[g] EXCEPT !.amount = grant[g].used, !.revoked = TRUE]
  <1>3. grant' = [grant EXCEPT ![g] = row]  BY <1>1, <1>2
  <1>4. row \in GrantRow /\ row.revoked /\ row.used = grant[g].used /\ row.amount = grant[g].used
    BY <1>1 DEF GrantRow
  <1> HIDE DEF row
  <1>5. grant'[g] = row /\ \A h \in GrantsOf \ {g} : grant'[h] = grant[h]  BY <1>1, <1>3
  <1>6. grant' \in [GrantsOf -> GrantRow]  BY <1>1, <1>3, <1>4
  <1> QED  BY <1>2, <1>4, <1>5, <1>6 DEF Revokes

\* An administrator sets what is left of a pool, in the period under way.
Adjusts(p, amount) ==
    /\ pool'[p].used = Current(p).used /\ pool'[p].amount = Current(p).used + amount
    /\ pool'[p].start = Current(p).start /\ pool'[p].period = pool[p].period
    /\ \A q \in PoolsOf \ {p} : pool'[q] = pool[q]
    /\ \A q \in PoolsOf : epoch'[q] = IF q = p /\ Due(p) THEN epoch[q] + 1 ELSE epoch[q]
    /\ \A s \in Sources : charged'[s] = IF s = p /\ Due(p) THEN 0 ELSE charged[s]
    /\ \A q \in PoolsOf : moved'[q] = IF q = p /\ Due(p) THEN "no" ELSE moved[q]
    /\ UNCHANGED <<now, grant, drawn, turn>>

LEMMA AdjustSteps ==
    ASSUME TypeOK, NEW p \in PoolsOf, NEW amount \in Adjustments, AdjustPool(p, amount)
    PROVE  /\ Adjusts(p, amount) /\ pool' \in [PoolsOf -> PoolRow]
           /\ epoch' \in [PoolsOf -> Nat] /\ charged' \in [Sources -> Nat] /\ moved' \in [PoolsOf -> Marks]
  <1>0. amount \in Nat /\ p \in Sources  BY BonusConstants
  <1>1. pool \in [PoolsOf -> PoolRow] /\ epoch \in [PoolsOf -> Nat] /\ charged \in [Sources -> Nat]
    BY BonusRows
  <1>2. /\ pool' = [pool EXCEPT ![p] = [Current(p) EXCEPT !.amount = Current(p).used + amount]]
        /\ epoch' = [epoch EXCEPT ![p] = IF Due(p) THEN @ + 1 ELSE @]
        /\ charged' = [charged EXCEPT ![p] = IF Due(p) THEN 0 ELSE @]
        /\ moved' = [moved EXCEPT ![p] = IF Due(p) THEN "no" ELSE @]
        /\ UNCHANGED <<now, grant, drawn, turn>>
    BY DEF AdjustPool
  <1> DEFINE row == [Current(p) EXCEPT !.amount = Current(p).used + amount]
  <1>3. /\ Current(p) \in PoolRow /\ Current(p).used \in Nat /\ Current(p).period = pool[p].period
    BY CurrentPool
  <1>4. /\ row \in PoolRow /\ row.used = Current(p).used /\ row.amount = Current(p).used + amount
        /\ row.start = Current(p).start /\ row.period = pool[p].period
    BY <1>0, <1>3 DEF PoolRow
  <1> HIDE DEF row
  <1>5. pool' = [pool EXCEPT ![p] = row]  BY <1>2 DEF row
  <1>6. /\ pool' \in [PoolsOf -> PoolRow] /\ pool'[p] = row
        /\ \A q \in PoolsOf \ {p} : pool'[q] = pool[q]
    BY <1>1, <1>4, <1>5
  <1>7. /\ epoch' \in [PoolsOf -> Nat]
        /\ \A q \in PoolsOf : epoch'[q] = IF q = p /\ Due(p) THEN epoch[q] + 1 ELSE epoch[q]
    BY <1>1, <1>2
  <1>8. /\ charged' \in [Sources -> Nat]
        /\ \A s \in Sources : charged'[s] = IF s = p /\ Due(p) THEN 0 ELSE charged[s]
    BY <1>0, <1>1, <1>2
  <1>9. /\ moved' \in [PoolsOf -> Marks]
        /\ \A q \in PoolsOf : moved'[q] = IF q = p /\ Due(p) THEN "no" ELSE moved[q]
    BY <1>2, BonusRows DEF Marks
  <1> QED  BY <1>2, <1>4, <1>6, <1>7, <1>8, <1>9 DEF Adjusts

\* A pool that is given another period starts counting from the one under way.
Restarts(p, period) ==
    /\ period # pool[p].period /\ pool'[p].period = period /\ pool'[p].start = PeriodStart(period)
    /\ pool'[p].used = pool[p].used /\ pool'[p].amount = pool[p].amount
    /\ \A q \in PoolsOf \ {p} : pool'[q] = pool[q] /\ moved'[q] = moved[q]
    /\ moved'[p] = Moved(moved[p], pool[p].start, PeriodStart(period))
    /\ UNCHANGED <<now, grant, drawn, turn, epoch, charged>>

LEMMA RestartSteps ==
    ASSUME TypeOK, NEW p \in PoolsOf, NEW period \in NewPeriods, UpdatePoolRules(p, period)
    PROVE  Restarts(p, period) /\ pool' \in [PoolsOf -> PoolRow] /\ moved' \in [PoolsOf -> Marks]
  <1>0. period \in Nat  BY BonusConstants
  <1>1. pool \in [PoolsOf -> PoolRow] /\ pool[p] \in PoolRow  BY BonusRows
  <1>2. /\ period # pool[p].period
        /\ pool' = [pool EXCEPT ![p].period = period, ![p].start = PeriodStart(period)]
        /\ moved' = [moved EXCEPT ![p] = Moved(@, pool[p].start, PeriodStart(period))]
        /\ UNCHANGED <<now, grant, drawn, turn, epoch, charged>>
    BY DEF UpdatePoolRules
  <1>3. PeriodStart(period) \in Nat  BY <1>0, PeriodStartType
  <1> DEFINE row == [pool[p] EXCEPT !.period = period, !.start = PeriodStart(period)]
  <1>4. pool' = [pool EXCEPT ![p] = row]  BY <1>1, <1>2
  <1>5. /\ row \in PoolRow /\ row.period = period /\ row.start = PeriodStart(period)
        /\ row.used = pool[p].used /\ row.amount = pool[p].amount
    BY <1>0, <1>1, <1>3 DEF PoolRow
  <1> HIDE DEF row
  <1>6. /\ pool' \in [PoolsOf -> PoolRow] /\ pool'[p] = row
        /\ \A q \in PoolsOf \ {p} : pool'[q] = pool[q]
    BY <1>1, <1>4, <1>5
  <1>7. moved \in [PoolsOf -> Marks] /\ Moved(moved[p], pool[p].start, PeriodStart(period)) \in Marks
    BY BonusRows DEF Moved, Marks
  <1>8. /\ moved' \in [PoolsOf -> Marks] /\ moved'[p] = Moved(moved[p], pool[p].start, PeriodStart(period))
        /\ \A q \in PoolsOf \ {p} : moved'[q] = moved[q]
    BY <1>2, <1>7
  <1> QED  BY <1>2, <1>5, <1>6, <1>8 DEF Restarts

(***************************************************************************)
(* Shapes                                                                  *)
(***************************************************************************)

LEMMA InitShape == Init => TypeOK /\ TurnsStand
  <1> SUFFICES ASSUME Init PROVE TypeOK /\ TurnsStand  OBVIOUS
  <1> USE BonusConstants
  <1>1. now \in Times /\ grant \in [GrantsOf -> GrantRow] /\ epoch \in [PoolsOf -> Nat]
        /\ charged \in [Sources -> Nat] /\ drawn \in [PoolsOf \X Accounts \X Times -> Nat]
        /\ moved \in [PoolsOf -> Marks]
    BY DEF Init, GrantRow, Times, Marks
  <1>2. pool \in [PoolsOf -> PoolRow]
    BY DEF Init, PoolRow
  <1>3. NoHolds \in [Sources -> Units]  BY DEF NoHolds
  <1>4. NoTurn \in TurnRow
    <2>1. [p \in PoolsOf |-> 0] \in [PoolsOf -> Nat]  OBVIOUS
    <2>2. 0 \in 0 .. MaxTime /\ "priority" \in Phases  BY DEF Phases
    <2> QED  BY <1>3, <2>1, <2>2 DEF NoTurn, TurnRow
  <1>5. turn \in [Turns -> TurnRow]  BY <1>4 DEF Init
  <1>6. TypeOK  BY <1>1, <1>2, <1>5, BonusRows
  <1>7. TurnsStand
    <2>1. /\ NoTurn.pc = "new" /\ NoTurn.hold = NoHolds /\ ~ NoTurn.settled /\ ~ NoTurn.released
          /\ \A p \in PoolsOf : NoTurn.made[p] = 0
      BY DEF NoTurn
    <2>2. (\A t \in Turns : turn[t] = NoTurn) /\ \A p \in PoolsOf : epoch[p] = 0  BY DEF Init
    <2> QED  BY <2>1, <2>2 DEF TurnsStand
  <1> QED  BY <1>6, <1>7

LEMMA NatUnits == \A n \in Units : 0 .. n \subseteq Nat /\ 0 .. n \subseteq Units
  BY BonusConstants DEF Units

LEMMA DrawsNat ==
    ASSUME NEW n \in Units, NEW room, NEW reached, NEW gives, Walked(n, room, reached, gives)
    PROVE  /\ gives \in [Sources -> Nat] /\ reached \in SUBSET PoolsOf
           /\ \A p \in PoolsOf \ reached : gives[p] = 0
           /\ \A s \in Sources : gives[s] \in Nat /\ gives[s] <= n /\ gives[s] <= Floor0(room[s])
  <1>1. 0 .. n \subseteq Nat  BY NatUnits
  <1>2. gives \in [Sources -> 0 .. n]  BY DEF Walked
  <1>3. gives \in [Sources -> Nat]  BY <1>1, <1>2
  <1>4. \A s \in Sources : gives[s] \in Nat /\ gives[s] <= n  BY <1>1, <1>2
  <1> QED  BY <1>3, <1>4 DEF Walked

\* A turn that is still as it was stands as it stood, for no reset is undone.
LEMMA StoodTurns ==
    ASSUME TypeOK, TurnsStand, NEW u \in Turns, turn'[u] = turn[u],
           \A p \in PoolsOf : epoch'[p] \in Nat /\ epoch'[p] >= epoch[p]
    PROVE  /\ turn'[u].pc # "held" => turn'[u].hold = NoHolds /\ ~ turn'[u].settled /\ ~ turn'[u].released
           /\ turn'[u].pc = "held" => turn'[u].day \in Times
           /\ \A p \in PoolsOf : turn'[u].made[p] <= epoch'[p]
  <1>1. \A p \in PoolsOf : turn[u].made[p] \in Nat /\ epoch[p] \in Nat  BY BonusFields
  <1>2. \A p \in PoolsOf : turn[u].made[p] <= epoch[p]  BY DEF TurnsStand
  <1>3. \A p \in PoolsOf : turn'[u].made[p] <= epoch'[p]  BY <1>1, <1>2
  <1> QED  BY <1>3 DEF TurnsStand

LEMMA NextShape ==
    ASSUME TypeOK, TurnsStand, Next
    PROVE  TypeOK' /\ TurnsStand'
  <1> USE BonusConstants
  <1>1. ASSUME Tick PROVE TypeOK' /\ TurnsStand'
    <2>1. now' \in Times /\ UNCHANGED <<grant, pool, drawn, turn, epoch, charged, moved>>
      BY <1>1 DEF Tick, TypeOK, Times
    <2>2. TypeOK'  BY <2>1 DEF TypeOK
    <2>3. TurnsStand'  BY <2>1 DEF TurnsStand
    <2> QED  BY <2>2, <2>3
  <1>2. ASSUME NEW t \in Turns, NEW phase \in Phases, NEW want \in Wants, Take(t, phase, want)
        PROVE  TypeOK' /\ TurnsStand'
    <2>1. ASSUME NEW reached, NEW gives, Takes(t, phase, want, reached, gives),
                 turn' \in [Turns -> TurnRow], charged' \in [Sources -> Nat]
          PROVE  TypeOK' /\ TurnsStand'
      <3>1. /\ gives \in [Sources -> Nat] /\ reached \in SUBSET PoolsOf
            /\ \A p \in PoolsOf \ reached : gives[p] = 0
        BY <2>1, DrawsNat DEF Takes
      <3>0. PICK day : day = now  OBVIOUS
      <3>2. Draw(t, day, reached, gives) /\ now' = now  BY <2>1, <3>0 DEF Takes
      <3>3. /\ grant' \in [GrantsOf -> GrantRow] /\ pool' \in [PoolsOf -> PoolRow]
            /\ drawn' \in [PoolsOf \X Accounts \X Times -> Nat] /\ epoch' \in [PoolsOf -> Nat]
            /\ moved' \in [PoolsOf -> Marks] /\ DrawnPools(reached, gives)
        BY <3>1, <3>2, DrawWrites
      <3>4. TypeOK'  BY <2>1, <3>2, <3>3, BonusRows DEF TypeOK, TurnRow, GrantRow, PoolRow, Marks
      <3>5. \A p \in PoolsOf : epoch'[p] \in Nat /\ epoch'[p] >= epoch[p]
        BY <3>3, BonusFields DEF DrawnPools
      <3>6. /\ turn'[t].pc = "held" /\ turn'[t].day = now
            /\ \A p \in PoolsOf : turn'[t].made[p] = epoch'[p]
            /\ \A u \in Turns \ {t} : turn'[u] = turn[u]
        BY <2>1 DEF Takes, Alone
      <3>7. now \in Times  BY DEF TypeOK
      <3>8. ASSUME NEW u \in Turns
            PROVE  /\ turn'[u].pc # "held" => turn'[u].hold = NoHolds /\ ~ turn'[u].settled /\ ~ turn'[u].released
                   /\ turn'[u].pc = "held" => turn'[u].day \in Times
                   /\ \A p \in PoolsOf : turn'[u].made[p] <= epoch'[p]
        <4>1. CASE u = t  BY <3>5, <3>6, <3>7, <4>1
        <4>2. CASE u # t  BY <3>5, <3>6, <4>2, StoodTurns
        <4> QED  BY <4>1, <4>2
      <3>9. TurnsStand'  BY <3>8 DEF TurnsStand, NoHolds
      <3> QED  BY <3>4, <3>9
    <2>2. ASSUME turn' \in [Turns -> TurnRow], Alone(t), turn[t].pc = "new", turn'[t].pc = "refused",
                 turn'[t].hold = turn[t].hold, turn'[t].settled = turn[t].settled,
                 turn'[t].released = turn[t].released, turn'[t].made = turn[t].made,
                 UNCHANGED <<now, grant, pool, drawn, epoch, charged, moved>>
          PROVE  TypeOK' /\ TurnsStand'
      <3>1. TypeOK'  BY <2>2 DEF TypeOK, TurnRow
      <3>2. TurnsStand'
        <4>1. ASSUME NEW u \in Turns
              PROVE  /\ turn'[u].pc # "held" => turn'[u].hold = NoHolds /\ ~ turn'[u].settled /\ ~ turn'[u].released
                     /\ turn'[u].pc = "held" => turn'[u].day \in Times
                     /\ \A p \in PoolsOf : turn'[u].made[p] <= epoch'[p]
          <5>1. CASE u = t  BY <2>2, <5>1 DEF TurnsStand
          <5>2. CASE u # t
            <6>1. turn'[u] = turn[u]  BY <2>2, <5>2 DEF Alone
            <6> QED  BY <2>2, <6>1 DEF TurnsStand
          <5> QED  BY <5>1, <5>2
        <4> QED  BY <4>1 DEF TurnsStand, NoHolds
      <3> QED  BY <3>1, <3>2
    <2> QED  BY <1>2, <2>1, <2>2, TakeSteps
  <1>3. ASSUME NEW t \in Turns, NEW cost \in Bills, Settle(t, cost) PROVE TypeOK' /\ TurnsStand'
    <2>1. PICK reached, gives : /\ Settles(t, cost, reached, gives)
                                /\ turn' \in [Turns -> TurnRow] /\ charged' \in [Sources -> Nat]
      BY <1>3, SettleSteps
    <2>2. /\ gives \in [Sources -> Nat] /\ reached \in SUBSET PoolsOf
          /\ \A p \in PoolsOf \ reached : gives[p] = 0
      BY <2>1, DrawsNat DEF Settles
    <2>0. PICK day : day = turn[t].day  OBVIOUS
    <2>3. Draw(t, day, reached, gives) /\ now' = now  BY <2>0, <2>1 DEF Settles
    <2>4. /\ grant' \in [GrantsOf -> GrantRow] /\ pool' \in [PoolsOf -> PoolRow]
          /\ drawn' \in [PoolsOf \X Accounts \X Times -> Nat] /\ epoch' \in [PoolsOf -> Nat]
          /\ moved' \in [PoolsOf -> Marks] /\ DrawnPools(reached, gives)
      BY <2>2, <2>3, DrawWrites
    <2>5. TypeOK'  BY <2>1, <2>3, <2>4 DEF TypeOK, TurnRow, GrantRow, PoolRow, Marks
    <2>6. \A p \in PoolsOf : epoch'[p] \in Nat /\ epoch'[p] >= epoch[p]
      BY <2>4, BonusFields DEF DrawnPools
    <2>7. /\ turn[t].pc = "held" /\ turn'[t].pc = "held" /\ turn'[t].day = turn[t].day
          /\ turn'[t].made = turn[t].made
          /\ \A u \in Turns \ {t} : turn'[u] = turn[u]
      BY <2>1 DEF Settles, Alone
    <2>8. ASSUME NEW u \in Turns
          PROVE  /\ turn'[u].pc # "held" => turn'[u].hold = NoHolds /\ ~ turn'[u].settled /\ ~ turn'[u].released
                 /\ turn'[u].pc = "held" => turn'[u].day \in Times
                 /\ \A p \in PoolsOf : turn'[u].made[p] <= epoch'[p]
      <3>1. CASE u = t
        <4>1. \A p \in PoolsOf : turn[t].made[p] <= epoch[p] /\ turn[t].made[p] \in Nat /\ epoch[p] \in Nat
          BY BonusFields DEF TurnsStand
        <4>2. \A p \in PoolsOf : turn'[t].made[p] <= epoch'[p]  BY <2>6, <2>7, <4>1
        <4> QED  BY <2>7, <3>1, <4>2 DEF TurnsStand
      <3>2. CASE u # t  BY <2>6, <2>7, <3>2, StoodTurns
      <3> QED  BY <3>1, <3>2
    <2>9. TurnsStand'  BY <2>8 DEF TurnsStand, NoHolds
    <2> QED  BY <2>5, <2>9
  <1>4. ASSUME NEW t \in Turns, Release(t) PROVE TypeOK' /\ TurnsStand'
    <2>1. /\ Releases(t) /\ turn' \in [Turns -> TurnRow]
          /\ grant' \in [GrantsOf -> GrantRow] /\ pool' \in [PoolsOf -> PoolRow]
          /\ drawn' \in [PoolsOf \X Accounts \X Times -> Nat]
      BY <1>4, ReleaseSteps
    <2>2. UNCHANGED <<now, epoch, charged, moved>>  BY <2>1 DEF Releases
    <2>3. TypeOK'  BY <2>1, <2>2 DEF TypeOK, TurnRow, GrantRow, PoolRow
    <2>4. /\ turn[t].pc = "held" /\ turn'[t].pc = "held" /\ turn'[t].day = turn[t].day
          /\ turn'[t].made = turn[t].made
          /\ \A u \in Turns \ {t} : turn'[u] = turn[u]
      BY <2>1 DEF Releases, Alone
    <2>5. ASSUME NEW u \in Turns
          PROVE  /\ turn'[u].pc # "held" => turn'[u].hold = NoHolds /\ ~ turn'[u].settled /\ ~ turn'[u].released
                 /\ turn'[u].pc = "held" => turn'[u].day \in Times
                 /\ \A p \in PoolsOf : turn'[u].made[p] <= epoch'[p]
      <3>1. CASE u = t  BY <2>2, <2>4, <3>1 DEF TurnsStand
      <3>2. CASE u # t
        <4>1. turn'[u] = turn[u]  BY <2>4, <3>2
        <4> QED  BY <2>2, <4>1 DEF TurnsStand
      <3> QED  BY <3>1, <3>2
    <2>6. TurnsStand'  BY <2>5 DEF TurnsStand, NoHolds
    <2> QED  BY <2>3, <2>6
  <1>5. ASSUME NEW g \in GrantsOf, Revoke(g) PROVE TypeOK' /\ TurnsStand'
    <2>1. Revokes(g) /\ grant' \in [GrantsOf -> GrantRow]  BY <1>5, RevokeSteps
    <2>2. UNCHANGED <<now, pool, drawn, turn, epoch, charged, moved>>  BY <2>1 DEF Revokes
    <2>3. TypeOK'  BY <2>1, <2>2 DEF TypeOK, GrantRow
    <2>4. TurnsStand'  BY <2>2 DEF TurnsStand
    <2> QED  BY <2>3, <2>4
  <1>6. ASSUME NEW p \in PoolsOf, NEW amount \in Adjustments, AdjustPool(p, amount) PROVE TypeOK' /\ TurnsStand'
    <2>1. /\ Adjusts(p, amount) /\ pool' \in [PoolsOf -> PoolRow]
          /\ epoch' \in [PoolsOf -> Nat] /\ charged' \in [Sources -> Nat] /\ moved' \in [PoolsOf -> Marks]
      BY <1>6, AdjustSteps
    <2>2. /\ UNCHANGED <<now, grant, drawn, turn>>
          /\ \A q \in PoolsOf : epoch'[q] = IF q = p /\ Due(p) THEN epoch[q] + 1 ELSE epoch[q]
      BY <2>1 DEF Adjusts
    <2>3. TypeOK'  BY <2>1, <2>2 DEF TypeOK, PoolRow, Marks
    <2>4. \A q \in PoolsOf : epoch'[q] \in Nat /\ epoch'[q] >= epoch[q]  BY <2>1, <2>2, BonusFields
    <2>5. ASSUME NEW u \in Turns
          PROVE  /\ turn'[u].pc # "held" => turn'[u].hold = NoHolds /\ ~ turn'[u].settled /\ ~ turn'[u].released
                 /\ turn'[u].pc = "held" => turn'[u].day \in Times
                 /\ \A q \in PoolsOf : turn'[u].made[q] <= epoch'[q]
      BY <2>2, <2>4, StoodTurns
    <2>6. TurnsStand'  BY <2>5 DEF TurnsStand, NoHolds
    <2> QED  BY <2>3, <2>6
  <1>7. ASSUME NEW p \in PoolsOf, NEW period \in NewPeriods, UpdatePoolRules(p, period)
        PROVE  TypeOK' /\ TurnsStand'
    <2>1. Restarts(p, period) /\ pool' \in [PoolsOf -> PoolRow] /\ moved' \in [PoolsOf -> Marks]
      BY <1>7, RestartSteps
    <2>2. UNCHANGED <<now, grant, drawn, turn, epoch, charged>>  BY <2>1 DEF Restarts
    <2>3. TypeOK'  BY <2>1, <2>2 DEF TypeOK, PoolRow, Marks
    <2>4. TurnsStand'  BY <2>2 DEF TurnsStand
    <2> QED  BY <2>3, <2>4
  <1> QED  BY <1>1, <1>2, <1>3, <1>4, <1>5, <1>6, <1>7 DEF Next

(***************************************************************************)
(* What a step does to the holds of a set of turns                         *)
(***************************************************************************)

\* The turns under way whose hold was not given back, and those of one account
\* and day.
Open == {t \in Turns : turn[t].pc = "held" /\ ~ turn[t].released}
OpenOn(a, d) == {t \in Open : Owner[t] = a /\ turn[t].day = d}
\* The turns whose hold a pool gives back: those of the period under way.
Recognised(p) == {t \in Open : turn[t].start[p] = pool[p].start}

Part(t, s, T) == IF t \in T THEN turn[t].hold[s] ELSE 0

LEMMA UnitsSplit ==
    ASSUME TypeOK, NEW s \in Sources, NEW T \in SUBSET Turns, NEW t \in Turns
    PROVE  /\ HeldUnits(s, T) \in Nat /\ HeldUnits(s, T \ {t}) \in Nat
           /\ Part(t, s, T) \in Nat
           /\ HeldUnits(s, T) = HeldUnits(s, T \ {t}) + Part(t, s, T)
  <1> DEFINE B == T \ {t}
  <1>1. PICK f : f = Share(s)  OBVIOUS
  <1>2. B \in SUBSET Turns /\ t \notin B  OBVIOUS
  <1>3. HeldUnits(s, T) = HeldBy(f, T) /\ HeldUnits(s, B) = HeldBy(f, B)
    BY <1>1, <1>2, UnitsByTurn
  <1>4. f[t] = turn[t].hold[s] /\ f[t] \in Nat /\ f[t] <= MaxUnit  BY <1>1, BonusFields DEF Share
  <1>5. HeldBy(f, T) \in Nat /\ HeldBy(f, B) \in Nat  BY <1>2, HeldByCounts
  <1>6. CASE t \in T
    <2>1. T = B \cup {t}  BY <1>6
    <2> HIDE DEF B
    <2>2. HeldBy(f, B \cup {t}) = HeldBy(f, B) + f[t]  BY <1>2, <1>4, HeldByJoined
    <2>3. Part(t, s, T) = f[t]  BY <1>4, <1>6 DEF Part
    <2>4. HeldBy(f, T) = HeldBy(f, B) + f[t]  BY <2>1, <2>2
    <2> QED  BY <1>3, <1>4, <1>5, <2>3, <2>4 DEF B
  <1>7. CASE t \notin T
    <2>1. T = B  BY <1>7
    <2> HIDE DEF B
    <2>2. Part(t, s, T) = 0  BY <1>7 DEF Part
    <2> QED  BY <1>3, <1>5, <2>1, <2>2 DEF B
  <1> QED  BY <1>6, <1>7

\* When one turn moves, what a set of turns holds changes by the part of that turn.
LEMMA UnitsChange ==
    ASSUME TypeOK, TypeOK', NEW s \in Sources, NEW t \in Turns, Alone(t),
           NEW T \in SUBSET Turns, NEW R \in SUBSET Turns, \A u \in Turns \ {t} : u \in R <=> u \in T
    PROVE  /\ HeldUnits(s, T) \in Nat /\ HeldUnits(s, R)' \in Nat
           /\ Part(t, s, T) \in 0 .. HeldUnits(s, T) /\ Part(t, s, R)' \in 0 .. HeldUnits(s, R)'
           /\ HeldUnits(s, R)' - Part(t, s, R)' = HeldUnits(s, T) - Part(t, s, T)
  <1>1. PICK B : B = T \ {t}  OBVIOUS
  <1>2. B = R \ {t} /\ B \in SUBSET Turns  BY <1>1
  <1>3. HeldUnits(s, T) \in Nat /\ HeldUnits(s, B) \in Nat /\ Part(t, s, T) \in Nat
        /\ HeldUnits(s, T) = HeldUnits(s, B) + Part(t, s, T)
    BY <1>1, UnitsSplit
  <1>4. HeldUnits(s, B)' = HeldUnits(s, B)
    <2>1. \A u \in B : turn'[u].hold = turn[u].hold  BY <1>1 DEF Alone
    <2> QED  BY <1>2, <2>1, UnitsKept
  <1>5. HeldUnits(s, R)' = HeldUnits(s, B)' + Part(t, s, R)' /\ Part(t, s, R)' \in Nat
    <2>1. turn'[t].hold[s] \in Nat /\ turn'[t].hold[s] <= MaxUnit
      <3>1. turn'[t].hold \in [Sources -> Units]  BY DEF TypeOK
      <3> QED  BY <3>1, BonusConstants
    <2>2. CASE t \in R
      <3>1. R = B \cup {t} /\ t \notin B  BY <1>2, <2>2
      <3>2. \A u \in B : turn'[u].hold = turn[u].hold  BY <1>1 DEF Alone
      <3>3. HeldUnits(s, B \cup {t})' = HeldUnits(s, B) + turn'[t].hold[s]
        BY <1>2, <3>1, <3>2, UnitsJoin
      <3>4. Part(t, s, R)' = turn'[t].hold[s]  BY <2>2 DEF Part
      <3>5. HeldUnits(s, R)' = HeldUnits(s, B \cup {t})'  BY <3>1
      <3> QED  BY <1>4, <2>1, <3>3, <3>4, <3>5
    <2>3. CASE t \notin R
      <3>1. R = B  BY <1>2, <2>3
      <3>2. Part(t, s, R)' = 0  BY <2>3 DEF Part
      <3>3. HeldUnits(s, R)' = HeldUnits(s, B)'  BY <3>1
      <3> QED  BY <1>3, <1>4, <3>2, <3>3
    <2> QED  BY <2>2, <2>3
  <1> QED  BY <1>3, <1>4, <1>5

\* The turns that were charged and have not given back what they held.
Paid == Open \cap Settled

LEMMA OpenChange ==
    ASSUME TypeOK, TypeOK', NEW s \in Sources, NEW t \in Turns, Alone(t)
    PROVE  /\ HeldUnits(s, Open) \in Nat /\ HeldUnits(s, Open)' \in Nat
           /\ Part(t, s, Open) \in 0 .. HeldUnits(s, Open) /\ Part(t, s, Open)' \in 0 .. HeldUnits(s, Open)'
           /\ HeldUnits(s, Open)' - Part(t, s, Open)' = HeldUnits(s, Open) - Part(t, s, Open)
           /\ HeldUnits(s, Paid) \in Nat /\ HeldUnits(s, Paid)' \in Nat
           /\ Part(t, s, Paid) \in 0 .. HeldUnits(s, Paid) /\ Part(t, s, Paid)' \in 0 .. HeldUnits(s, Paid)'
           /\ HeldUnits(s, Paid)' - Part(t, s, Paid)' = HeldUnits(s, Paid) - Part(t, s, Paid)
  <1>1. PICK T : T = Open  OBVIOUS
  <1>2. PICK R : R = Open'  OBVIOUS
  <1>3. T \in SUBSET Turns /\ R \in SUBSET Turns /\ \A u \in Turns \ {t} : u \in R <=> u \in T
    BY <1>1, <1>2 DEF Open, Alone
  <1>4. HeldUnits(s, R)' = HeldUnits(s, Open)' /\ Part(t, s, R)' = Part(t, s, Open)'
    BY <1>2 DEF HeldUnits, Part
  <1>5. HeldUnits(s, T) = HeldUnits(s, Open) /\ Part(t, s, T) = Part(t, s, Open)  BY <1>1
  <1>6. PICK P : P = Paid  OBVIOUS
  <1>7. PICK Q : Q = Paid'  OBVIOUS
  <1>8. P \in SUBSET Turns /\ Q \in SUBSET Turns /\ \A u \in Turns \ {t} : u \in Q <=> u \in P
    BY <1>6, <1>7 DEF Paid, Open, Settled, Alone
  <1>9. HeldUnits(s, Q)' = HeldUnits(s, Paid)' /\ Part(t, s, Q)' = Part(t, s, Paid)'
    BY <1>7 DEF HeldUnits, Part
  <1>10. HeldUnits(s, P) = HeldUnits(s, Paid) /\ Part(t, s, P) = Part(t, s, Paid)  BY <1>6
  <1>11. /\ HeldUnits(s, T) \in Nat /\ HeldUnits(s, R)' \in Nat
         /\ Part(t, s, T) \in 0 .. HeldUnits(s, T) /\ Part(t, s, R)' \in 0 .. HeldUnits(s, R)'
         /\ HeldUnits(s, R)' - Part(t, s, R)' = HeldUnits(s, T) - Part(t, s, T)
    BY <1>3, UnitsChange
  <1>12. /\ HeldUnits(s, P) \in Nat /\ HeldUnits(s, Q)' \in Nat
         /\ Part(t, s, P) \in 0 .. HeldUnits(s, P) /\ Part(t, s, Q)' \in 0 .. HeldUnits(s, Q)'
         /\ HeldUnits(s, Q)' - Part(t, s, Q)' = HeldUnits(s, P) - Part(t, s, P)
    BY <1>8, UnitsChange
  <1>13. /\ HeldUnits(s, Open) \in Nat /\ HeldUnits(s, Open)' \in Nat
         /\ Part(t, s, Open) \in 0 .. HeldUnits(s, Open) /\ Part(t, s, Open)' \in 0 .. HeldUnits(s, Open)'
         /\ HeldUnits(s, Open)' - Part(t, s, Open)' = HeldUnits(s, Open) - Part(t, s, Open)
    BY <1>4, <1>5, <1>11
  <1>14. /\ HeldUnits(s, Paid) \in Nat /\ HeldUnits(s, Paid)' \in Nat
         /\ Part(t, s, Paid) \in 0 .. HeldUnits(s, Paid) /\ Part(t, s, Paid)' \in 0 .. HeldUnits(s, Paid)'
         /\ HeldUnits(s, Paid)' - Part(t, s, Paid)' = HeldUnits(s, Paid) - Part(t, s, Paid)
    BY <1>9, <1>10, <1>12
  <1> QED  BY <1>13, <1>14

(***************************************************************************)
(* Grants                                                                  *)
(***************************************************************************)

\* A live grant counts what was charged to it and what turns hold of it, and past
\* what is in it there are only holds of settled turns; a revoked one has been
\* used up.
GrantStands(g) ==
    /\ grant[g].revoked => grant[g].used = grant[g].amount
    /\ ~ grant[g].revoked => /\ grant[g].used = charged[g] + HeldUnits(g, Open)
                             /\ grant[g].used - HeldUnits(g, Paid) <= grant[g].amount

LEMMA GrantHolding ==
    ASSUME NEW g \in GrantsOf
    PROVE  Holding(g) = Open /\ Holding(g) \cap Settled = Paid /\ g \in Sources /\ g \notin PoolsOf
  BY BonusConstants DEF Holding, Open, Paid

\* A grant that is neither drawn on nor given back to stands as it stood.
LEMMA GrantStays ==
    ASSUME NEW g \in GrantsOf, GrantStands(g), grant'[g] = grant[g], charged'[g] = charged[g], turn' = turn
    PROVE  GrantStands(g)'
  <1>1. HeldUnits(g, Open)' = HeldUnits(g, Open) /\ HeldUnits(g, Paid)' = HeldUnits(g, Paid)
    BY DEF HeldUnits, Open, Paid, Settled
  <1> QED  BY <1>1 DEF GrantStands

LEMMA GrantNext ==
    ASSUME TypeOK, TurnsStand, TypeOK', NEW g \in GrantsOf, GrantStands(g), Next
    PROVE  GrantStands(g)'
  <1>0. g \in Sources /\ g \notin PoolsOf  BY GrantHolding
  <1>1. /\ grant[g].used \in Nat /\ grant[g].amount \in Nat /\ charged[g] \in Nat /\ grant[g].revoked \in BOOLEAN
        /\ \A t \in Turns : turn[t].hold[g] \in Nat
    BY <1>0, BonusFields
  <1>2. ASSUME Tick PROVE GrantStands(g)'
    BY <1>2, GrantStays DEF Tick
  <1>3. ASSUME NEW t \in Turns, NEW phase \in Phases, NEW want \in Wants, Take(t, phase, want)
        PROVE  GrantStands(g)'
    <2>1. ASSUME NEW reached, NEW gives, Takes(t, phase, want, reached, gives)
          PROVE  GrantStands(g)'
      <3>1. /\ gives \in [Sources -> Nat] /\ reached \in SUBSET PoolsOf
            /\ \A p \in PoolsOf \ reached : gives[p] = 0
            /\ gives[g] \in Nat /\ gives[g] <= Floor0(TakeRoom(t, phase, g))
        BY <1>0, <2>1, DrawsNat, BonusConstants DEF Takes
      <3>2. PICK day : day = now  OBVIOUS
      <3>3. /\ Draw(t, day, reached, gives) /\ turn[t].pc = "new" /\ turn'[t].pc = "held"
            /\ turn'[t].hold = gives /\ turn'[t].settled = turn[t].settled
            /\ turn'[t].released = turn[t].released /\ Alone(t) /\ charged'[g] = Kept(g, reached)
        BY <1>0, <2>1, <3>2 DEF Takes
      <3>4. /\ grant'[g].used = grant[g].used + gives[g] /\ grant'[g].amount = grant[g].amount
            /\ grant'[g].revoked = grant[g].revoked
        BY <3>1, <3>3, DrawWrites DEF DrawnGrants
      <3>5. charged'[g] = charged[g]  BY <1>0, <3>1, <3>3 DEF Kept
      <3>6. ~ turn[t].settled /\ ~ turn[t].released  BY <3>3 DEF TurnsStand
      <3>7. Part(t, g, Open) = 0 /\ Part(t, g, Paid) = 0 /\ Part(t, g, Open)' = gives[g] /\ Part(t, g, Paid)' = 0
        BY <3>3, <3>6 DEF Part, Open, Paid, Settled
      <3>8. gives[g] <= Floor0(grant[g].amount - grant[g].used) /\ (grant[g].revoked => gives[g] = 0)
        <4>1. TakeRoom(t, phase, g) = IF Eligible(t, phase, g) THEN grant[g].amount - grant[g].used ELSE 0
          BY DEF TakeRoom
        <4>2. grant[g].revoked => ~ Eligible(t, phase, g)  BY <1>0 DEF Eligible
        <4> QED  BY <1>1, <3>1, <4>1, <4>2 DEF Floor0
      <3>15. PICK held, paid, held1, paid1 :
                /\ held = HeldUnits(g, Open) /\ paid = HeldUnits(g, Paid)
                /\ held1 = HeldUnits(g, Open)' /\ paid1 = HeldUnits(g, Paid)'
        OBVIOUS
      <3>9. held \in Nat /\ paid \in Nat /\ held1 = held + gives[g] /\ paid1 = paid
        BY <1>0, <3>1, <3>3, <3>7, <3>15, OpenChange
      <3>10. GrantStands(g) <=> /\ grant[g].revoked => grant[g].used = grant[g].amount
                                /\ ~ grant[g].revoked => /\ grant[g].used = charged[g] + held
                                                         /\ grant[g].used - paid <= grant[g].amount
        BY <3>15 DEF GrantStands
      <3>11. GrantStands(g)' <=> /\ grant'[g].revoked => grant'[g].used = grant'[g].amount
                                 /\ ~ grant'[g].revoked => /\ grant'[g].used = charged'[g] + held1
                                                           /\ grant'[g].used - paid1 <= grant'[g].amount
        BY <3>15 DEF GrantStands
      <3> QED  BY <1>1, <3>1, <3>4, <3>5, <3>8, <3>9, <3>10, <3>11 DEF Floor0
    <2>2. ASSUME Alone(t), turn[t].pc = "new", turn'[t].pc = "refused", UNCHANGED <<now, grant, pool, drawn, epoch, charged, moved>>
          PROVE  GrantStands(g)'
      <3>1. Open' = Open /\ Paid' = Paid /\ t \notin Open /\ t \notin Paid
        BY <2>2 DEF Open, Paid, Settled, Alone
      <3>2. /\ Part(t, g, Open) = 0 /\ Part(t, g, Paid) = 0 /\ Part(t, g, Open)' = 0 /\ Part(t, g, Paid)' = 0
        BY <3>1 DEF Part
      <3>3. HeldUnits(g, Open)' = HeldUnits(g, Open) /\ HeldUnits(g, Paid)' = HeldUnits(g, Paid)
        BY <1>0, <2>2, <3>2, OpenChange
      <3> QED  BY <2>2, <3>3 DEF GrantStands
    <2> QED  BY <1>3, <2>1, <2>2, TakeSteps
  <1>4. ASSUME NEW t \in Turns, NEW cost \in Bills, Settle(t, cost) PROVE GrantStands(g)'
    <2>1. PICK reached, gives : Settles(t, cost, reached, gives)
      BY <1>4, SettleSteps
    <2>2. /\ gives \in [Sources -> Nat] /\ reached \in SUBSET PoolsOf
          /\ \A p \in PoolsOf \ reached : gives[p] = 0
          /\ gives[g] \in Nat /\ gives[g] <= Floor0(SettleRooms(t, cost)[g])
      BY <1>0, <2>1, DrawsNat, BonusConstants DEF Settles
    <2>3. PICK day : day = turn[t].day  OBVIOUS
    <2>4. /\ Draw(t, day, reached, gives) /\ turn[t].pc = "held" /\ turn'[t].pc = "held"
          /\ turn'[t].hold = turn[t].hold /\ ~ turn[t].settled /\ turn'[t].settled
          /\ turn'[t].released = turn[t].released /\ Alone(t) /\ charged'[g] = Kept(g, reached) + gives[g]
      BY <1>0, <2>1, <2>3 DEF Settles
    <2>5. /\ grant'[g].used = grant[g].used + gives[g] /\ grant'[g].amount = grant[g].amount
          /\ grant'[g].revoked = grant[g].revoked
      BY <2>2, <2>4, DrawWrites DEF DrawnGrants
    <2>6. charged'[g] = charged[g] + gives[g]  BY <1>0, <2>2, <2>4 DEF Kept
    <2>0. PICK own : own = IF turn[t].released THEN 0 ELSE turn[t].hold[g]  OBVIOUS
    <2>7. /\ Part(t, g, Open) = own /\ Part(t, g, Paid) = 0
          /\ Part(t, g, Open)' = own /\ Part(t, g, Paid)' = own /\ own \in Nat
      BY <1>1, <2>0, <2>4 DEF Part, Open, Paid, Settled
    <2>8. gives[g] <= Floor0(grant[g].amount - grant[g].used + own) /\ (grant[g].revoked => gives[g] = 0)
          /\ (gives[g] > 0 => gives[g] <= grant[g].amount - grant[g].used + own)
      <3>1. g \notin LastPayer(t)  BY <1>0, LastPayerHeld
      <3>2. SettleRooms(t, cost)[g] = SettleRoom(t, g)  BY <1>0, <3>1 DEF SettleRooms
      <3>3. SettleRoom(t, g) = IF turn[t].hold[g] = 0 \/ grant[g].revoked THEN 0
                               ELSE grant[g].amount - grant[g].used + own
        BY <2>0 DEF SettleRoom
      <3>4. gives[g] <= Floor0(SettleRoom(t, g))  BY <2>2, <3>2
      <3> QED  BY <1>1, <2>2, <2>7, <3>3, <3>4 DEF Floor0
    <2>20. PICK held, paid, held1, paid1 :
              /\ held = HeldUnits(g, Open) /\ paid = HeldUnits(g, Paid)
              /\ held1 = HeldUnits(g, Open)' /\ paid1 = HeldUnits(g, Paid)'
      OBVIOUS
    <2>9. held \in Nat /\ paid \in Nat /\ held1 = held /\ paid1 = paid + own
      <3>1. /\ held \in Nat /\ held1 \in Nat /\ held1 - own = held - own
            /\ paid \in Nat /\ paid1 \in Nat /\ paid1 - own = paid - 0
        <4>1. /\ HeldUnits(g, Open) \in Nat /\ HeldUnits(g, Open)' \in Nat
              /\ HeldUnits(g, Open)' - Part(t, g, Open)' = HeldUnits(g, Open) - Part(t, g, Open)
              /\ HeldUnits(g, Paid) \in Nat /\ HeldUnits(g, Paid)' \in Nat
              /\ HeldUnits(g, Paid)' - Part(t, g, Paid)' = HeldUnits(g, Paid) - Part(t, g, Paid)
          BY <1>0, <2>4, OpenChange
        <4> QED  BY <2>7, <2>20, <4>1, Zenon
      <3> QED  BY <2>7, <3>1
    <2>10. GrantStands(g) <=> /\ grant[g].revoked => grant[g].used = grant[g].amount
                              /\ ~ grant[g].revoked => /\ grant[g].used = charged[g] + held
                                                       /\ grant[g].used - paid <= grant[g].amount
      BY <2>20 DEF GrantStands
    <2>11. GrantStands(g)' <=> /\ grant'[g].revoked => grant'[g].used = grant'[g].amount
                               /\ ~ grant'[g].revoked => /\ grant'[g].used = charged'[g] + held1
                                                         /\ grant'[g].used - paid1 <= grant'[g].amount
      BY <2>20 DEF GrantStands
    <2> QED  BY <1>1, <2>2, <2>5, <2>6, <2>7, <2>8, <2>9, <2>10, <2>11
  <1>5. ASSUME NEW t \in Turns, Release(t) PROVE GrantStands(g)'
    <2>1. Releases(t)  BY <1>5, ReleaseSteps
    <2>2. /\ turn[t].pc = "held" /\ ~ turn[t].released /\ turn'[t].released
          /\ turn'[t].settled = turn[t].settled /\ Alone(t)
          /\ grant'[g].used = Given(t, g, grant[g].used) /\ grant'[g].amount = grant[g].amount
          /\ grant'[g].revoked = grant[g].revoked /\ charged'[g] = charged[g]
      BY <2>1 DEF Releases
    <2>0. PICK own, spent : own = turn[t].hold[g] /\ spent = IF turn[t].settled THEN own ELSE 0  OBVIOUS
    <2>3. /\ Part(t, g, Open) = own /\ Part(t, g, Paid) = spent
          /\ Part(t, g, Open)' = 0 /\ Part(t, g, Paid)' = 0 /\ own \in Nat /\ spent \in 0 .. own
      BY <1>1, <2>0, <2>2 DEF Part, Open, Paid, Settled
    <2>4. grant'[g].used = IF grant[g].revoked THEN grant[g].used ELSE Floor0(grant[g].used - own)
      BY <1>0, <2>0, <2>2 DEF Given, Refundable
    <2>20. PICK held, paid, held1, paid1 :
              /\ held = HeldUnits(g, Open) /\ paid = HeldUnits(g, Paid)
              /\ held1 = HeldUnits(g, Open)' /\ paid1 = HeldUnits(g, Paid)'
      OBVIOUS
    <2>5. held \in Nat /\ paid \in Nat /\ own <= held /\ spent <= paid /\ held1 = held - own /\ paid1 = paid - spent
      <3>1. /\ held \in Nat /\ held1 \in Nat /\ held1 - 0 = held - own /\ own \in 0 .. held
            /\ paid \in Nat /\ paid1 \in Nat /\ paid1 - 0 = paid - spent /\ spent \in 0 .. paid
        <4>1. /\ HeldUnits(g, Open) \in Nat /\ HeldUnits(g, Open)' \in Nat
              /\ HeldUnits(g, Open)' - Part(t, g, Open)' = HeldUnits(g, Open) - Part(t, g, Open)
              /\ Part(t, g, Open) \in 0 .. HeldUnits(g, Open) /\ Part(t, g, Paid) \in 0 .. HeldUnits(g, Paid)
              /\ HeldUnits(g, Paid) \in Nat /\ HeldUnits(g, Paid)' \in Nat
              /\ HeldUnits(g, Paid)' - Part(t, g, Paid)' = HeldUnits(g, Paid) - Part(t, g, Paid)
          BY <1>0, <2>2, OpenChange
        <4> QED  BY <2>3, <2>20, <4>1, Zenon
      <3> QED  BY <2>3, <3>1
    <2>6. GrantStands(g) <=> /\ grant[g].revoked => grant[g].used = grant[g].amount
                             /\ ~ grant[g].revoked => /\ grant[g].used = charged[g] + held
                                                      /\ grant[g].used - paid <= grant[g].amount
      BY <2>20 DEF GrantStands
    <2>7. GrantStands(g)' <=> /\ grant'[g].revoked => grant'[g].used = grant'[g].amount
                              /\ ~ grant'[g].revoked => /\ grant'[g].used = charged'[g] + held1
                                                        /\ grant'[g].used - paid1 <= grant'[g].amount
      BY <2>20 DEF GrantStands
    <2> QED  BY <1>1, <2>2, <2>3, <2>4, <2>5, <2>6, <2>7 DEF Floor0
  <1>6. ASSUME NEW h \in GrantsOf, Revoke(h) PROVE GrantStands(g)'
    <2>1. Revokes(h)  BY <1>6, RevokeSteps
    <2>2. CASE h = g
      <3>1. grant'[g].revoked /\ grant'[g].used = grant'[g].amount  BY <2>1, <2>2 DEF Revokes
      <3> QED  BY <3>1 DEF GrantStands
    <2>3. CASE h # g
      <3>1. grant'[g] = grant[g] /\ charged' = charged /\ turn' = turn  BY <2>1, <2>3 DEF Revokes
      <3> QED  BY <3>1, GrantStays
    <2> QED  BY <2>2, <2>3
  <1>7. ASSUME NEW p \in PoolsOf, NEW amount \in Adjustments, AdjustPool(p, amount) PROVE GrantStands(g)'
    <2>1. Adjusts(p, amount)  BY <1>7, AdjustSteps
    <2>2. grant' = grant /\ turn' = turn /\ charged'[g] = charged[g]  BY <1>0, <2>1 DEF Adjusts
    <2> QED  BY <2>2, GrantStays
  <1>8. ASSUME NEW p \in PoolsOf, NEW period \in NewPeriods, UpdatePoolRules(p, period) PROVE GrantStands(g)'
    BY <1>8, GrantStays DEF UpdatePoolRules
  <1> QED  BY <1>2, <1>3, <1>4, <1>5, <1>6, <1>7, <1>8 DEF Next

(***************************************************************************)
(* Periods                                                                 *)
(***************************************************************************)

\* What a step does to the period of a pool.
Unmoved(p) ==
    /\ pool'[p].start = pool[p].start /\ pool'[p].period = pool[p].period /\ epoch'[p] = epoch[p]
    /\ moved'[p] = moved[p]
Renewed(p) ==
    /\ Due(p) /\ pool'[p].start = PeriodStart(pool[p].period) /\ pool'[p].period = pool[p].period
    /\ epoch'[p] = epoch[p] + 1 /\ moved'[p] = "no" /\ now' = now
Repaced(p) ==
    /\ pool'[p].period \in NewPeriods /\ pool'[p].start = PeriodStart(pool'[p].period)
    /\ epoch'[p] = epoch[p] /\ moved'[p] = Moved(moved[p], pool[p].start, pool'[p].start) /\ now' = now

\* What a step does to a turn under way, and what a turn finds that takes its holds.
Carried(t) ==
    /\ turn'[t].pc = "held" /\ turn'[t].hold = turn[t].hold /\ turn'[t].phase = turn[t].phase
    /\ turn'[t].start = turn[t].start /\ turn'[t].made = turn[t].made /\ turn'[t].day = turn[t].day
    /\ turn[t].settled => turn'[t].settled
Joined(t) ==
    \A p \in PoolsOf : turn'[t].start[p] = pool'[p].start /\ turn'[t].made[p] = epoch'[p]

LEMMA DrawMoves ==
    ASSUME TypeOK, NEW reached \in SUBSET PoolsOf, NEW gives, DrawnPools(reached, gives), NEW p \in PoolsOf,
           now' = now
    PROVE  Unmoved(p) \/ Renewed(p)
  <1>1. /\ pool'[p].start = Opened(p, reached).start /\ pool'[p].period = pool[p].period
        /\ epoch'[p] = IF p \in reached /\ Due(p) THEN epoch[p] + 1 ELSE epoch[p]
        /\ moved'[p] = IF p \in reached /\ Due(p) THEN "no" ELSE moved[p]
    BY DEF DrawnPools
  <1>2. CASE p \in reached /\ Due(p)
    <2>1. Current(p).start = PeriodStart(pool[p].period)  BY <1>2, CurrentPool
    <2> QED  BY <1>1, <1>2, <2>1 DEF Renewed, Opened
  <1>3. CASE ~ (p \in reached /\ Due(p))
    <2>1. Opened(p, reached) = pool[p]  BY <1>3, CurrentPool DEF Opened
    <2> QED  BY <1>1, <1>3, <2>1 DEF Unmoved
  <1> QED  BY <1>2, <1>3

LEMMA StepMoves ==
    ASSUME TypeOK, TurnsStand, Next
    PROVE  /\ now' >= now
           /\ \A p \in PoolsOf : Unmoved(p) \/ Renewed(p) \/ Repaced(p)
           /\ \A t \in Turns : IF turn[t].pc = "held" THEN Carried(t)
                               ELSE turn'[t].pc = "held" => Joined(t) /\ ~ turn'[t].settled /\ ~ turn'[t].released
  <1> DEFINE Pools == \A p \in PoolsOf : Unmoved(p) \/ Renewed(p) \/ Repaced(p)
             Moves(t) == IF turn[t].pc = "held" THEN Carried(t)
                         ELSE turn'[t].pc = "held" => Joined(t) /\ ~ turn'[t].settled /\ ~ turn'[t].released
             Goal == now' >= now /\ Pools /\ \A t \in Turns : Moves(t)
  <1>9. now \in Nat /\ now >= now  BY BonusConstants DEF TypeOK
  <1>0. ASSUME NEW t \in Turns, turn'[t] = turn[t] PROVE Moves(t)
    BY <1>0 DEF Carried
  <1> HIDE DEF Marks
  <1>1. ASSUME Tick PROVE Goal
    <2>1. turn' = turn /\ pool' = pool /\ epoch' = epoch /\ moved' = moved /\ now' = now + 1  BY <1>1 DEF Tick
    <2>2. now' >= now  BY <1>9, <2>1
    <2> QED  BY <1>0, <2>1, <2>2 DEF Unmoved
  <1>2. ASSUME NEW t \in Turns, NEW phase \in Phases, NEW want \in Wants, Take(t, phase, want) PROVE Goal
    <2>1. ASSUME NEW reached, NEW gives, Takes(t, phase, want, reached, gives) PROVE Goal
      <3>1. /\ gives \in [Sources -> Nat] /\ reached \in SUBSET PoolsOf
            /\ \A p \in PoolsOf \ reached : gives[p] = 0
        BY <2>1, DrawsNat, BonusConstants DEF Takes
      <3>2. PICK day : day = now  OBVIOUS
      <3>3. /\ Draw(t, day, reached, gives) /\ turn[t].pc = "new" /\ turn'[t].pc = "held"
            /\ turn'[t].settled = turn[t].settled /\ turn'[t].released = turn[t].released /\ Alone(t) /\ Joined(t)
            /\ now' = now
        BY <2>1, <3>2 DEF Takes, Joined
      <3>4. DrawnPools(reached, gives)  BY <3>1, <3>3, DrawWrites
      <3>5. Pools  BY <3>1, <3>3, <3>4, DrawMoves
      <3>6. ~ turn[t].settled /\ ~ turn[t].released  BY <3>3 DEF TurnsStand
      <3>7. Moves(t)  BY <3>3, <3>6 DEF Marks
      <3>8. \A u \in Turns \ {t} : Moves(u)  BY <1>0, <3>3 DEF Alone
      <3> QED  BY <1>9, <3>3, <3>5, <3>7, <3>8
    <2>2. ASSUME Alone(t), turn[t].pc = "new", turn'[t].pc = "refused", UNCHANGED <<now, grant, pool, drawn, epoch, charged, moved>>
          PROVE  Goal
      <3>1. Pools  BY <2>2 DEF Unmoved
      <3>2. Moves(t)  BY <2>2 DEF Marks
      <3>3. \A u \in Turns \ {t} : Moves(u)  BY <1>0, <2>2 DEF Alone
      <3> QED  BY <1>9, <2>2, <3>1, <3>2, <3>3
    <2> QED  BY <1>2, <2>1, <2>2, TakeSteps
  <1>3. ASSUME NEW t \in Turns, NEW cost \in Bills, Settle(t, cost) PROVE Goal
    <2>1. PICK reached, gives : Settles(t, cost, reached, gives)
      BY <1>3, SettleSteps
    <2>2. /\ gives \in [Sources -> Nat] /\ reached \in SUBSET PoolsOf
          /\ \A p \in PoolsOf \ reached : gives[p] = 0
      BY <2>1, DrawsNat, BonusConstants DEF Settles
    <2>3. PICK day : day = turn[t].day  OBVIOUS
    <2>4. Draw(t, day, reached, gives) /\ Alone(t) /\ Carried(t) /\ turn[t].pc = "held" /\ now' = now
      BY <2>1, <2>3 DEF Settles, Carried
    <2>5. DrawnPools(reached, gives)  BY <2>2, <2>4, DrawWrites
    <2>6. Pools  BY <2>2, <2>4, <2>5, DrawMoves
    <2>7. Moves(t)  BY <2>4 DEF Marks
    <2>8. \A u \in Turns \ {t} : Moves(u)  BY <1>0, <2>4 DEF Alone
    <2> QED  BY <1>9, <2>4, <2>6, <2>7, <2>8
  <1>4. ASSUME NEW t \in Turns, Release(t) PROVE Goal
    <2>1. Releases(t)  BY <1>4, ReleaseSteps
    <2>2. Pools  BY <2>1 DEF Releases, Unmoved
    <2>3. Moves(t)  BY <2>1 DEF Releases, Marks, Carried
    <2>4. \A u \in Turns \ {t} : Moves(u)  BY <1>0, <2>1 DEF Releases, Alone
    <2>5. now' >= now  BY <1>9, <2>1 DEF Releases
    <2> QED  BY <2>2, <2>3, <2>4, <2>5
  <1>5. ASSUME NEW g \in GrantsOf, Revoke(g) PROVE Goal
    <2>1. turn' = turn /\ pool' = pool /\ epoch' = epoch /\ moved' = moved /\ now' = now  BY <1>5 DEF Revoke
    <2> QED  BY <1>0, <1>9, <2>1 DEF Unmoved
  <1>6. ASSUME NEW p \in PoolsOf, NEW amount \in Adjustments, AdjustPool(p, amount) PROVE Goal
    <2>1. Adjusts(p, amount)  BY <1>6, AdjustSteps
    <2>2. turn' = turn /\ now' = now  BY <2>1 DEF Adjusts
    <2>3. Unmoved(p) \/ Renewed(p)
      <3>1. CASE Due(p)
        <4>1. Current(p).start = PeriodStart(pool[p].period)  BY <3>1, CurrentPool
        <4> QED  BY <2>1, <3>1, <4>1 DEF Adjusts, Renewed
      <3>2. CASE ~ Due(p)
        <4>1. Current(p) = pool[p]  BY <3>2, CurrentPool
        <4> QED  BY <2>1, <3>2, <4>1 DEF Adjusts, Unmoved
      <3> QED  BY <3>1, <3>2
    <2>4. \A q \in PoolsOf \ {p} : Unmoved(q)  BY <2>1 DEF Adjusts, Unmoved
    <2> QED  BY <1>0, <1>9, <2>2, <2>3, <2>4
  <1>7. ASSUME NEW p \in PoolsOf, NEW period \in NewPeriods, UpdatePoolRules(p, period) PROVE Goal
    <2>1. Restarts(p, period)  BY <1>7, RestartSteps
    <2>2. turn' = turn /\ now' = now  BY <2>1 DEF Restarts
    <2>3. Repaced(p)  BY <2>1 DEF Restarts, Repaced
    <2>4. \A q \in PoolsOf \ {p} : Unmoved(q)  BY <2>1 DEF Restarts, Unmoved
    <2> QED  BY <1>0, <1>9, <2>2, <2>3, <2>4
  <1>8. Goal  BY <1>1, <1>2, <1>3, <1>4, <1>5, <1>6, <1>7 DEF Next
  <1> QED  BY <1>8 DEF Marks

\* The start of the period a day is in.
StartOf(n, period) == IF period = 0 THEN 0 ELSE n - ((n - 1) % period)

\* A period that starts after the one of an earlier day starts after that day.
LEMMA LaterPeriod ==
    ASSUME NEW n \in Nat \ {0}, NEW u \in Nat \ {0}, u <= n, NEW period \in Nat \ {0},
           StartOf(u, period) < StartOf(n, period)
    PROVE  u < StartOf(n, period)
  <1>1. PICK a, b : a = u - 1 /\ b = n - 1  OBVIOUS
  <1>2. a \in Nat /\ b \in Nat /\ period # 0  BY <1>1
  <1>3. PICK c, d : c = a \div period /\ d = b \div period  OBVIOUS
  <1>4. PICK x, y : x = a % period /\ y = b % period  OBVIOUS
  <1>5. /\ x \in 0 .. period - 1 /\ a = period * c + x /\ c \in Nat
        /\ y \in 0 .. period - 1 /\ b = period * d + y /\ d \in Nat
    BY <1>2, <1>3, <1>4
  <1>6. StartOf(u, period) = u - x /\ StartOf(n, period) = n - y  BY <1>1, <1>2, <1>4 DEF StartOf
  <1>7. PICK k, l : k = period * c /\ l = period * d  OBVIOUS
  <1>8. k \in Nat /\ l \in Nat  BY <1>5, <1>7
  <1>9. u = k + x + 1 /\ n = l + y + 1  BY <1>1, <1>5, <1>7, <1>8
  <1>10. k < l  BY <1>5, <1>6, <1>8, <1>9
  <1>11. c < d
    <2>1. c >= d => period * c >= period * d  BY <1>5
    <2> QED  BY <1>5, <1>7, <1>8, <1>10, <2>1
  <1>12. k + period <= l
    <2>1. c + 1 <= d  BY <1>5, <1>11
    <2>2. period * (c + 1) <= period * d  BY <1>5, <2>1
    <2>3. period * (c + 1) = period * c + period  BY <1>5
    <2> QED  BY <1>7, <2>2, <2>3
  <1> QED  BY <1>5, <1>6, <1>8, <1>9, <1>12

\* A pool counts from the start of a period, of some day that has come, and no turn
\* remembers a start past that day.
Day(p, u) ==
    /\ u <= now /\ pool[p].start = StartOf(u, pool[p].period)
    /\ \A t \in Turns : turn[t].pc = "held" => turn[t].start[p] <= u
PeriodStands(p) == \E u \in Times : Day(p, u)

\* While new rules have not moved a start back, a hold of an earlier period
\* remembers an earlier start, and none remembers a later one. While they have not
\* moved it at all, the holds since the last reset remember its start.
HoldStands(t, p) ==
    turn[t].pc = "held" =>
        /\ moved[p] # "back" => /\ turn[t].start[p] <= pool[p].start
                                /\ turn[t].start[p] = pool[p].start => turn[t].made[p] = epoch[p]
        /\ Steady(p) /\ turn[t].made[p] = epoch[p] => turn[t].start[p] = pool[p].start

\* A period that is due starts after every start that a turn remembers, also where
\* new rules had moved the one before.
LEMMA DuePast ==
    ASSUME TypeOK, NEW p \in PoolsOf, PeriodStands(p), Due(p), NEW t \in Turns, turn[t].pc = "held"
    PROVE  turn[t].start[p] < PeriodStart(pool[p].period)
  <1>1. PICK u \in Times : Day(p, u)  BY DEF PeriodStands
  <1>2. PICK n, period : n = now /\ period = pool[p].period  OBVIOUS
  <1>3. n \in Nat \ {0} /\ u \in Nat \ {0} /\ u <= n  BY <1>1, <1>2, BonusConstants DEF TypeOK, Day
  <1>4. period \in Nat \ {0}  BY <1>2, BonusFields DEF Due
  <1>5. PeriodStart(pool[p].period) = StartOf(n, period)  BY <1>2 DEF PeriodStart, StartOf
  <1>6. StartOf(u, period) < StartOf(n, period)  BY <1>1, <1>2, <1>5 DEF Day, Due
  <1>7. u < StartOf(n, period)  BY <1>3, <1>4, <1>6, LaterPeriod
  <1>8. turn[t].start[p] <= u /\ turn[t].start[p] \in Nat  BY <1>1, BonusFields DEF Day
  <1>9. StartOf(n, period) \in Nat
    <2>1. PeriodStart(pool[p].period) \in Nat  BY BonusFields, PeriodStartType
    <2> QED  BY <1>5, <2>1
  <1> QED  BY <1>3, <1>5, <1>7, <1>8, <1>9

LEMMA PeriodNext ==
    ASSUME TypeOK, TurnsStand, TypeOK', Next, NEW p \in PoolsOf, PeriodStands(p)
    PROVE  PeriodStands(p)'
  <1>1. now' >= now /\ (Unmoved(p) \/ Renewed(p) \/ Repaced(p))  BY StepMoves
  <1>2. now \in Times /\ now' \in Times /\ \A n \in Times : n \in Nat  BY BonusConstants DEF TypeOK
  <1>3. PICK u \in Times : Day(p, u)  BY DEF PeriodStands
  <1>4. PICK v : v = IF Unmoved(p) THEN u ELSE now'  OBVIOUS
  <1>5. v \in Times /\ u <= v /\ v <= now'  BY <1>1, <1>2, <1>3, <1>4 DEF Day, Renewed, Repaced
  <1>6. pool'[p].start = StartOf(v, pool'[p].period)
    <2>1. CASE Unmoved(p)  BY <1>3, <1>4, <2>1 DEF Unmoved, Day
    <2>2. CASE ~ Unmoved(p) /\ Renewed(p)  BY <1>4, <2>2 DEF Renewed, PeriodStart, StartOf
    <2>3. CASE ~ Unmoved(p) /\ Repaced(p)  BY <1>4, <2>3 DEF Repaced, PeriodStart, StartOf
    <2> QED  BY <1>1, <2>1, <2>2, <2>3
  <1>7. pool'[p].start <= v
    <2>1. pool'[p].period \in Nat  BY DEF TypeOK
    <2>2. PICK k : k = pool'[p].period  OBVIOUS
    <2>3. CASE k = 0  BY <1>2, <1>5, <1>6, <2>2, <2>3 DEF StartOf
    <2>4. CASE k # 0
      <3>1. PICK m : m = v - 1  OBVIOUS
      <3>2. m \in Nat  BY <1>5, <3>1, BonusConstants
      <3>3. m % k \in 0 .. k - 1  BY <2>1, <2>2, <2>4, <3>2
      <3>4. pool'[p].start = v - (m % k)  BY <1>6, <2>2, <2>4, <3>1 DEF StartOf
      <3> QED  BY <1>2, <1>5, <2>1, <2>2, <3>3, <3>4
    <2> QED  BY <2>3, <2>4
  <1>8. ASSUME NEW t \in Turns, turn'[t].pc = "held" PROVE turn'[t].start[p] <= v
    <2>1. CASE turn[t].pc = "held"
      <3>1. turn'[t].start[p] = turn[t].start[p]  BY <2>1, StepMoves DEF Carried
      <3>2. turn[t].start[p] <= u /\ turn[t].start[p] \in Nat  BY <1>3, <2>1, BonusFields DEF Day
      <3> QED  BY <1>2, <1>5, <3>1, <3>2
    <2>2. CASE turn[t].pc # "held"
      <3>1. turn'[t].start[p] = pool'[p].start  BY <1>8, <2>2, StepMoves DEF Joined
      <3> QED  BY <1>7, <3>1
    <2> QED  BY <2>1, <2>2
  <1>9. Day(p, v)'  BY <1>5, <1>6, <1>8 DEF Day
  <1> QED  BY <1>5, <1>9 DEF PeriodStands, Times

LEMMA HoldNext ==
    ASSUME TypeOK, TurnsStand, TypeOK', Next, NEW p \in PoolsOf, PeriodStands(p),
           NEW t \in Turns, HoldStands(t, p)
    PROVE  HoldStands(t, p)'
  <1>1. Unmoved(p) \/ Renewed(p) \/ Repaced(p)  BY StepMoves
  <1>2. pool[p].start \in Nat /\ pool'[p].start \in Nat /\ epoch[p] \in Nat /\ moved[p] \in Marks
    <2>1. pool'[p].start \in Nat  BY DEF TypeOK
    <2> QED  BY <2>1, BonusFields
  <1>3. CASE turn'[t].pc # "held"
    BY <1>3 DEF HoldStands
  <1>4. CASE turn'[t].pc = "held" /\ turn[t].pc # "held"
    <2>1. turn'[t].start[p] = pool'[p].start /\ turn'[t].made[p] = epoch'[p]
      BY <1>4, StepMoves DEF Joined
    <2> QED  BY <1>2, <2>1 DEF HoldStands
  <1>5. CASE turn[t].pc = "held"
    <2>1. turn'[t].start[p] = turn[t].start[p] /\ turn'[t].made[p] = turn[t].made[p]
      BY <1>5, StepMoves DEF Carried
    <2>2. /\ turn[t].start[p] \in Nat /\ turn[t].made[p] \in Nat /\ turn[t].made[p] <= epoch[p]
      BY BonusFields DEF TurnsStand
    <2>3. /\ moved[p] # "back" => /\ turn[t].start[p] <= pool[p].start
                                  /\ turn[t].start[p] = pool[p].start => turn[t].made[p] = epoch[p]
          /\ moved[p] = "no" /\ turn[t].made[p] = epoch[p] => turn[t].start[p] = pool[p].start
      BY <1>5 DEF HoldStands, Steady
    <2>4. CASE Unmoved(p)
      BY <2>1, <2>3, <2>4 DEF HoldStands, Unmoved, Steady
    <2>5. CASE Renewed(p)
      <3>1. turn'[t].start[p] < pool'[p].start /\ turn'[t].made[p] # epoch'[p]
        BY <1>2, <1>5, <2>1, <2>2, <2>5, DuePast DEF Renewed
      <3>2. turn'[t].start[p] <= pool'[p].start /\ turn'[t].start[p] # pool'[p].start
        BY <1>2, <2>1, <2>2, <3>1
      <3> QED  BY <3>1, <3>2 DEF HoldStands
    <2>6. CASE Repaced(p)
      <3>1. epoch'[p] = epoch[p] /\ moved'[p] = Moved(moved[p], pool[p].start, pool'[p].start)
        BY <2>6 DEF Repaced
      <3>2. /\ moved'[p] # "back" => moved[p] # "back" /\ pool'[p].start >= pool[p].start
            /\ moved'[p] = "no" => moved[p] = "no" /\ pool'[p].start = pool[p].start
        BY <1>2, <3>1 DEF Moved
      <3>3. moved'[p] # "back" => /\ turn'[t].start[p] <= pool'[p].start
                                  /\ turn'[t].start[p] = pool'[p].start => turn'[t].made[p] = epoch'[p]
        BY <1>2, <2>1, <2>2, <2>3, <3>1, <3>2
      <3>4. moved'[p] = "no" /\ turn'[t].made[p] = epoch'[p] => turn'[t].start[p] = pool'[p].start
        BY <2>1, <2>3, <3>1, <3>2
      <3> QED  BY <3>3, <3>4 DEF HoldStands, Steady
    <2> QED  BY <1>1, <2>4, <2>5, <2>6
  <1> QED  BY <1>3, <1>4, <1>5

(***************************************************************************)
(* Pools                                                                   *)
(***************************************************************************)

\* The turns a pool charged and will give back to.
Owed(p) == Recognised(p) \cap Settled

\* While new rules have not moved its start back, a pool counts at least what was
\* charged to it in this period and the holds it still knows, and unless it had to
\* take what the others could not, its charges stay within its balance. While they
\* have not moved it at all it counts no more than that, and past its balance there
\* are only holds of settled turns.
PoolStands(p) ==
    /\ moved[p] # "back" =>
         /\ pool[p].used >= charged[p] + HeldUnits(p, Recognised(p))
         /\ ~ Forced(p) => charged[p] <= pool[p].amount
    /\ Steady(p) =>
         /\ pool[p].used = charged[p] + HeldUnits(p, Recognised(p))
         /\ ~ Forced(p) => pool[p].used - HeldUnits(p, Owed(p)) <= pool[p].amount

\* A pool keeps its period: what turns hold of it changes by the part of one turn.
LEMMA KnownChange ==
    ASSUME TypeOK, TypeOK', NEW p \in PoolsOf, NEW t \in Turns, Alone(t), pool'[p].start = pool[p].start
    PROVE  /\ HeldUnits(p, Recognised(p)) \in Nat /\ HeldUnits(p, Recognised(p))' \in Nat
           /\ Part(t, p, Recognised(p)) \in 0 .. HeldUnits(p, Recognised(p))
           /\ HeldUnits(p, Recognised(p))' - Part(t, p, Recognised(p))'
                = HeldUnits(p, Recognised(p)) - Part(t, p, Recognised(p))
           /\ HeldUnits(p, Owed(p)) \in Nat /\ HeldUnits(p, Owed(p))' \in Nat
           /\ Part(t, p, Owed(p)) \in 0 .. HeldUnits(p, Owed(p))
           /\ HeldUnits(p, Owed(p))' - Part(t, p, Owed(p))' = HeldUnits(p, Owed(p)) - Part(t, p, Owed(p))
  <1>0. p \in Sources  BY BonusConstants
  <1>1. PICK T : T = Recognised(p)  OBVIOUS
  <1>2. PICK R : R = Recognised(p)'  OBVIOUS
  <1>3. T \in SUBSET Turns /\ R \in SUBSET Turns /\ \A u \in Turns \ {t} : u \in R <=> u \in T
    BY <1>1, <1>2 DEF Recognised, Open, Alone
  <1>4. HeldUnits(p, R)' = HeldUnits(p, Recognised(p))' /\ Part(t, p, R)' = Part(t, p, Recognised(p))'
    BY <1>2 DEF HeldUnits, Part
  <1>5. HeldUnits(p, T) = HeldUnits(p, Recognised(p)) /\ Part(t, p, T) = Part(t, p, Recognised(p))  BY <1>1
  <1>6. PICK P : P = Owed(p)  OBVIOUS
  <1>7. PICK Q : Q = Owed(p)'  OBVIOUS
  <1>8. P \in SUBSET Turns /\ Q \in SUBSET Turns /\ \A u \in Turns \ {t} : u \in Q <=> u \in P
    BY <1>6, <1>7 DEF Owed, Recognised, Open, Settled, Alone
  <1>9. HeldUnits(p, Q)' = HeldUnits(p, Owed(p))' /\ Part(t, p, Q)' = Part(t, p, Owed(p))'
    BY <1>7 DEF HeldUnits, Part
  <1>10. HeldUnits(p, P) = HeldUnits(p, Owed(p)) /\ Part(t, p, P) = Part(t, p, Owed(p))  BY <1>6
  <1>11. /\ HeldUnits(p, T) \in Nat /\ HeldUnits(p, R)' \in Nat
         /\ Part(t, p, T) \in 0 .. HeldUnits(p, T)
         /\ HeldUnits(p, R)' - Part(t, p, R)' = HeldUnits(p, T) - Part(t, p, T)
    BY <1>0, <1>3, UnitsChange
  <1>12. /\ HeldUnits(p, P) \in Nat /\ HeldUnits(p, Q)' \in Nat
         /\ Part(t, p, P) \in 0 .. HeldUnits(p, P)
         /\ HeldUnits(p, Q)' - Part(t, p, Q)' = HeldUnits(p, P) - Part(t, p, P)
    BY <1>0, <1>8, UnitsChange
  <1>13. /\ HeldUnits(p, Recognised(p)) \in Nat /\ HeldUnits(p, Recognised(p))' \in Nat
         /\ Part(t, p, Recognised(p)) \in 0 .. HeldUnits(p, Recognised(p))
         /\ HeldUnits(p, Recognised(p))' - Part(t, p, Recognised(p))'
              = HeldUnits(p, Recognised(p)) - Part(t, p, Recognised(p))
    BY <1>4, <1>5, <1>11
  <1>14. /\ HeldUnits(p, Owed(p)) \in Nat /\ HeldUnits(p, Owed(p))' \in Nat
         /\ Part(t, p, Owed(p)) \in 0 .. HeldUnits(p, Owed(p))
         /\ HeldUnits(p, Owed(p))' - Part(t, p, Owed(p))' = HeldUnits(p, Owed(p)) - Part(t, p, Owed(p))
    BY <1>9, <1>10, <1>12
  <1> QED  BY <1>13, <1>14

\* A pool that starts another period: only a turn that takes from it now holds any.
LEMMA KnownFresh ==
    ASSUME TypeOK', NEW p \in PoolsOf, NEW t \in Turns,
           \A u \in Turns \ {t} : turn'[u].pc = "held" => turn'[u].start[p] # pool'[p].start
    PROVE  /\ HeldUnits(p, Recognised(p))' = Part(t, p, Recognised(p))'
           /\ HeldUnits(p, Owed(p))' = Part(t, p, Owed(p))'
           /\ Part(t, p, Recognised(p))' \in Nat /\ Part(t, p, Owed(p))' \in Nat
  <1>0. p \in Sources  BY BonusConstants
  <1>1. turn'[t].hold[p] \in Nat /\ turn'[t].hold[p] <= MaxUnit
    <2>1. turn'[t].hold \in [Sources -> Units]  BY DEF TypeOK
    <2> QED  BY <1>0, <2>1, BonusConstants
  <1>2. ASSUME NEW R \in SUBSET {t}
        PROVE  HeldUnits(p, R)' = Part(t, p, R)'
    <2>1. HeldUnits(p, {} \cup {t})' = HeldUnits(p, {}) + turn'[t].hold[p]
      BY <1>0, UnitsJoin
    <2>2. HeldUnits(p, {}) = 0  BY <1>0, UnitsCounted
    <2>3. HeldUnits(p, {})' = HeldUnits(p, {})  BY <1>0, UnitsKept
    <2>4. CASE t \in R
      <3>1. R = {} \cup {t}  BY <2>4
      <3>2. HeldUnits(p, R)' = HeldUnits(p, {} \cup {t})'  BY <3>1
      <3> QED  BY <1>1, <2>1, <2>2, <2>4, <3>2 DEF Part
    <2>5. CASE t \notin R
      <3>1. R = {}  BY <2>5
      <3>2. HeldUnits(p, R)' = HeldUnits(p, {})'  BY <3>1
      <3> QED  BY <2>2, <2>3, <2>5, <3>2 DEF Part
    <2> QED  BY <2>4, <2>5
  <1>3. PICK R : R = Recognised(p)'  OBVIOUS
  <1>4. PICK Q : Q = Owed(p)'  OBVIOUS
  <1>5. R \in SUBSET {t} /\ Q \in SUBSET {t}
    BY <1>3, <1>4 DEF Owed, Recognised, Open
  <1>6. HeldUnits(p, R)' = HeldUnits(p, Recognised(p))' /\ Part(t, p, R)' = Part(t, p, Recognised(p))'
    BY <1>3 DEF HeldUnits, Part
  <1>7. HeldUnits(p, Q)' = HeldUnits(p, Owed(p))' /\ Part(t, p, Q)' = Part(t, p, Owed(p))'
    BY <1>4 DEF HeldUnits, Part
  <1>8. Part(t, p, Recognised(p))' \in Nat /\ Part(t, p, Owed(p))' \in Nat
    BY <1>1 DEF Part
  <1>9. HeldUnits(p, R)' = Part(t, p, R)' /\ HeldUnits(p, Q)' = Part(t, p, Q)'  BY <1>2, <1>5
  <1> QED  BY <1>6, <1>7, <1>8, <1>9

LEMMA KnownNone ==
    ASSUME NEW p \in PoolsOf, \A u \in Turns : turn'[u].pc = "held" => turn'[u].start[p] # pool'[p].start
    PROVE  HeldUnits(p, Recognised(p))' = 0 /\ HeldUnits(p, Owed(p))' = 0
  <1>0. p \in Sources  BY BonusConstants
  <1>1. Recognised(p)' = {} /\ Owed(p)' = {}  BY DEF Recognised, Owed, Open
  <1>2. {c \in {} \X (1 .. MaxUnit) : c[2] <= turn'[c[1]].hold[p]} = {}  OBVIOUS
  <1> QED  BY <1>1, <1>2, FS_EmptySet DEF HeldUnits

\* A period that begins is none that a turn holds of.
LEMMA StartsPast ==
    ASSUME TypeOK, TurnsStand, Next, NEW p \in PoolsOf, PeriodStands(p), Due(p), pool'[p].start = Current(p).start,
           NEW u \in Turns, turn[u].pc = "held"
    PROVE  turn'[u].start[p] # pool'[p].start /\ turn[u].start[p] # pool'[p].start
  <1>1. turn'[u].start[p] = turn[u].start[p]  BY StepMoves DEF Carried
  <1>2. pool'[p].start = PeriodStart(pool[p].period) /\ pool'[p].start \in Nat  BY CurrentPool
  <1>3. turn[u].start[p] < pool'[p].start  BY <1>2, DuePast
  <1>4. turn[u].start[p] \in Nat  BY BonusFields
  <1> QED  BY <1>1, <1>2, <1>3, <1>4

\* A pool that was made to pay stays one.
LEMMA ForcedStays ==
    ASSUME TypeOK, TurnsStand, Next, NEW p \in PoolsOf, Forced(p)
    PROVE  Forced(p)'
  <1>1. PICK t \in Settled : turn[t].phase = "exclusive" /\ turn[t].hold[p] > 0  BY DEF Forced
  <1>2. t \in Turns /\ turn[t].settled /\ turn[t].pc = "held"  BY DEF Settled, TurnsStand
  <1>3. Carried(t)  BY <1>2, StepMoves
  <1>4. t \in Settled' /\ turn'[t].phase = "exclusive" /\ turn'[t].hold[p] > 0
    BY <1>1, <1>2, <1>3 DEF Settled, Carried
  <1> QED  BY <1>4 DEF Forced

LEMMA PoolStays ==
    ASSUME NEW p \in PoolsOf, PoolStands(p), pool'[p] = pool[p], charged'[p] = charged[p], turn' = turn,
           moved'[p] = moved[p]
    PROVE  PoolStands(p)'
  <1>1. HeldUnits(p, Recognised(p))' = HeldUnits(p, Recognised(p)) /\ HeldUnits(p, Owed(p))' = HeldUnits(p, Owed(p))
    BY DEF HeldUnits, Recognised, Owed, Open, Settled
  <1>2. Forced(p)' <=> Forced(p)  BY DEF Forced, Settled
  <1>3. Steady(p)' <=> Steady(p)  BY DEF Steady
  <1> QED  BY <1>1, <1>2, <1>3 DEF PoolStands

\* The same over figures: what a step must leave in a pool.
LEMMA PoolFigures ==
    ASSUME NEW p \in PoolsOf, NEW held, NEW owed, held = HeldUnits(p, Recognised(p))', owed = HeldUnits(p, Owed(p))',
           moved'[p] # "back" => /\ pool'[p].used >= charged'[p] + held
                                 /\ ~ Forced(p)' => charged'[p] <= pool'[p].amount,
           moved'[p] = "no" => /\ pool'[p].used = charged'[p] + held
                               /\ ~ Forced(p)' => pool'[p].used - owed <= pool'[p].amount
    PROVE  PoolStands(p)'
  BY DEF PoolStands, Steady

LEMMA PoolNext ==
    ASSUME TypeOK, TurnsStand, TypeOK', Next, NEW p \in PoolsOf, PeriodStands(p),
           \A t \in Turns : HoldStands(t, p), PoolStands(p)
    PROVE  PoolStands(p)'
  <1>0. p \in Sources /\ p \notin GrantsOf  BY BonusConstants
  <1>1. /\ pool[p].used \in Nat /\ pool[p].amount \in Nat /\ charged[p] \in Nat /\ pool[p].start \in Nat
        /\ pool'[p].used \in Nat /\ pool'[p].amount \in Nat /\ charged'[p] \in Nat /\ pool'[p].start \in Nat
        /\ \A t \in Turns : turn[t].hold[p] \in Nat
    <2>1. pool'[p].used \in Nat /\ pool'[p].amount \in Nat /\ charged'[p] \in Nat /\ pool'[p].start \in Nat
      BY <1>0 DEF TypeOK
    <2> QED  BY <1>0, <2>1, BonusFields
  <1>2. PICK used, amount, spent : used = pool[p].used /\ amount = pool[p].amount /\ spent = charged[p]
    OBVIOUS
  <1>15. PICK kept, exact \in BOOLEAN : (kept <=> moved[p] # "back") /\ (exact <=> moved[p] = "no")  OBVIOUS
  <1>16. exact => kept  BY <1>15
  <1>3. PICK held, owed : held = HeldUnits(p, Recognised(p)) /\ owed = HeldUnits(p, Owed(p))  OBVIOUS
  <1>4. PICK held1, owed1 : held1 = HeldUnits(p, Recognised(p))' /\ owed1 = HeldUnits(p, Owed(p))'  OBVIOUS
  <1>5. /\ kept => /\ used >= spent + held
                   /\ ~ Forced(p) => spent <= amount
        /\ exact => /\ used = spent + held
                    /\ ~ Forced(p) => used - owed <= amount
    BY <1>2, <1>3, <1>15 DEF PoolStands, Steady
  <1>6. used \in Nat /\ amount \in Nat /\ spent \in Nat  BY <1>1, <1>2
  <1>7. ~ Forced(p)' => ~ Forced(p)  BY ForcedStays
  <1>8. ASSUME NEW t \in Turns, NEW phase \in Phases, NEW want \in Wants, Take(t, phase, want)
        PROVE  PoolStands(p)'
    <2>1. ASSUME NEW reached, NEW gives, Takes(t, phase, want, reached, gives)
          PROVE  PoolStands(p)'
      <3>1. /\ gives \in [Sources -> Nat] /\ reached \in SUBSET PoolsOf
            /\ \A q \in PoolsOf \ reached : gives[q] = 0
            /\ gives[p] \in Nat /\ gives[p] <= Floor0(TakeRoom(t, phase, p))
        BY <1>0, <2>1, DrawsNat, BonusConstants DEF Takes
      <3>2. PICK day : day = now  OBVIOUS
      <3>3. /\ Draw(t, day, reached, gives) /\ turn[t].pc = "new" /\ turn'[t].pc = "held"
            /\ turn'[t].hold = gives /\ turn'[t].settled = turn[t].settled
            /\ turn'[t].released = turn[t].released /\ Alone(t) /\ charged'[p] = Kept(p, reached)
            /\ turn'[t].start[p] = pool'[p].start
        BY <1>0, <2>1, <3>2 DEF Takes
      <3>4. DrawnPools(reached, gives)  BY <3>1, <3>3, DrawWrites
      <3>5. /\ pool'[p].used = Opened(p, reached).used + gives[p]
            /\ pool'[p].amount = Opened(p, reached).amount /\ pool'[p].start = Opened(p, reached).start
        BY <3>4 DEF DrawnPools
      <3>6. ~ turn[t].settled /\ ~ turn[t].released  BY <3>3 DEF TurnsStand
      <3>7. /\ Part(t, p, Recognised(p)) = 0 /\ Part(t, p, Owed(p)) = 0
            /\ Part(t, p, Recognised(p))' = gives[p] /\ Part(t, p, Owed(p))' = 0
        BY <3>3, <3>6 DEF Part, Owed, Recognised, Open, Settled
      <3>8. PICK room : room = Current(p).amount - Current(p).used  OBVIOUS
      <3>9. room \in Int /\ gives[p] <= Floor0(room)
        <4>1. room \in Int  BY <3>8, CurrentPool
        <4>2. drawn[<<p, Owner[t], now>>] \in Nat
          <5>1. <<p, Owner[t], now>> \in PoolsOf \X Accounts \X Times  BY BonusConstants DEF TypeOK
          <5> QED  BY <5>1 DEF TypeOK
        <4>3. DailyCap[p] \in Nat  BY BonusConstants
        <4>4. PICK left : left = DailyCap[p] - drawn[<<p, Owner[t], now>>]  OBVIOUS
        <4>5. TakeRoom(t, phase, p) = IF ~ Eligible(t, phase, p) THEN 0
                                      ELSE IF DailyCap[p] > 0 THEN Least(left, Floor0(room)) ELSE Floor0(room)
          BY <1>0, <3>8, <4>4 DEF TakeRoom
        <4>6. left \in Int  BY <4>2, <4>3, <4>4
        <4> QED  BY <3>1, <4>1, <4>3, <4>5, <4>6 DEF Least, Floor0
      <3>10. CASE p \in reached /\ Due(p)
        <4>1. /\ pool'[p].used = gives[p] /\ charged'[p] = 0 /\ pool'[p].start = Current(p).start
              /\ pool'[p].amount = Current(p).amount /\ room = Current(p).amount
          <5>1. Opened(p, reached) = Current(p)  BY <3>10 DEF Opened
          <5>2. Current(p).used = 0 /\ Current(p).amount \in Nat
            BY <3>10, CurrentPool
          <5>3. charged'[p] = 0  BY <3>3, <3>10 DEF Kept
          <5> QED  BY <3>1, <3>5, <3>8, <5>1, <5>2, <5>3
        <4>2. \A u \in Turns \ {t} : turn'[u].pc = "held" => turn'[u].start[p] # pool'[p].start
          <5>1. ASSUME NEW u \in Turns \ {t}, turn'[u].pc = "held" PROVE turn'[u].start[p] # pool'[p].start
            <6>1. u \in Turns /\ turn[u].pc = "held"  BY <3>3, <5>1 DEF Alone
            <6> QED  BY <3>10, <4>1, <6>1, StartsPast
          <5> QED  BY <5>1
        <4>3. held1 = gives[p] /\ owed1 = 0  BY <1>4, <3>7, <4>2, KnownFresh
        <4>4. gives[p] <= pool'[p].amount
          BY <1>1, <3>1, <3>9, <4>1 DEF Floor0
        <4>5. /\ pool'[p].used >= charged'[p] + held1
              /\ ~ Forced(p)' => charged'[p] <= pool'[p].amount
              /\ pool'[p].used = charged'[p] + held1
              /\ ~ Forced(p)' => pool'[p].used - owed1 <= pool'[p].amount
          BY <1>1, <3>1, <4>1, <4>3, <4>4
        <4> QED  BY <1>4, <4>5, PoolFigures
      <3>11. CASE ~ (p \in reached /\ Due(p))
        <4>1. Opened(p, reached) = pool[p]  BY <3>11, CurrentPool DEF Opened
        <4>2. /\ pool'[p].used = used + gives[p] /\ pool'[p].amount = amount /\ charged'[p] = spent
              /\ pool'[p].start = pool[p].start
          BY <1>2, <3>3, <3>5, <3>11, <4>1 DEF Kept
        <4>3. gives[p] > 0 => gives[p] <= amount - used
          <5>1. CASE p \notin reached
            BY <3>1, <5>1
          <5>2. CASE p \in reached
            <6>1. room = amount - used  BY <1>2, <3>8, <3>11, <5>2, CurrentPool
            <6> QED  BY <1>6, <3>1, <3>9, <6>1 DEF Floor0
          <5> QED  BY <5>1, <5>2
        <4>4. /\ held \in Nat /\ held1 \in Nat /\ held1 - gives[p] = held - 0
              /\ owed \in Nat /\ owed1 \in Nat /\ owed1 - 0 = owed - 0
          <5>1. /\ HeldUnits(p, Recognised(p)) \in Nat /\ HeldUnits(p, Recognised(p))' \in Nat
                /\ HeldUnits(p, Recognised(p))' - Part(t, p, Recognised(p))'
                     = HeldUnits(p, Recognised(p)) - Part(t, p, Recognised(p))
                /\ HeldUnits(p, Owed(p)) \in Nat /\ HeldUnits(p, Owed(p))' \in Nat
                /\ HeldUnits(p, Owed(p))' - Part(t, p, Owed(p))' = HeldUnits(p, Owed(p)) - Part(t, p, Owed(p))
            BY <3>3, <4>2, KnownChange
          <5> QED  BY <1>3, <1>4, <3>7, <5>1, Zenon
        <4>5. held1 = held + gives[p] /\ owed1 = owed  BY <3>1, <4>4
        <4>6. /\ kept => /\ pool'[p].used >= charged'[p] + held1
                         /\ ~ Forced(p)' => charged'[p] <= pool'[p].amount
              /\ exact => /\ pool'[p].used = charged'[p] + held1
                          /\ ~ Forced(p)' => pool'[p].used - owed1 <= pool'[p].amount
          BY <1>5, <1>6, <1>7, <3>1, <4>2, <4>3, <4>4, <4>5
        <4>7. moved'[p] = moved[p]  BY <3>4, <3>11 DEF DrawnPools
        <4> QED  BY <1>15, <1>4, <4>6, <4>7, PoolFigures
      <3> QED  BY <3>10, <3>11
    <2>2. ASSUME Alone(t), turn[t].pc = "new", turn'[t].pc = "refused", UNCHANGED <<now, grant, pool, drawn, epoch, charged, moved>>
          PROVE  PoolStands(p)'
      <3>1. Part(t, p, Recognised(p)) = 0 /\ Part(t, p, Owed(p)) = 0
            /\ Part(t, p, Recognised(p))' = 0 /\ Part(t, p, Owed(p))' = 0
        BY <2>2 DEF Part, Owed, Recognised, Open
      <3>2. /\ held \in Nat /\ held1 \in Nat /\ held1 - 0 = held - 0
            /\ owed \in Nat /\ owed1 \in Nat /\ owed1 - 0 = owed - 0
        <4>1. /\ HeldUnits(p, Recognised(p)) \in Nat /\ HeldUnits(p, Recognised(p))' \in Nat
              /\ HeldUnits(p, Recognised(p))' - Part(t, p, Recognised(p))'
                   = HeldUnits(p, Recognised(p)) - Part(t, p, Recognised(p))
              /\ HeldUnits(p, Owed(p)) \in Nat /\ HeldUnits(p, Owed(p))' \in Nat
              /\ HeldUnits(p, Owed(p))' - Part(t, p, Owed(p))' = HeldUnits(p, Owed(p)) - Part(t, p, Owed(p))
          BY <2>2, KnownChange
        <4> QED  BY <1>3, <1>4, <3>1, <4>1, Zenon
      <3>3. held1 = held /\ owed1 = owed  BY <3>2
      <3>4. /\ kept => /\ pool'[p].used >= charged'[p] + held1
                       /\ ~ Forced(p)' => charged'[p] <= pool'[p].amount
            /\ exact => /\ pool'[p].used = charged'[p] + held1
                        /\ ~ Forced(p)' => pool'[p].used - owed1 <= pool'[p].amount
        BY <1>2, <1>5, <1>7, <2>2, <3>3
      <3> QED  BY <1>15, <1>4, <2>2, <3>4, PoolFigures
    <2> QED  BY <1>8, <2>1, <2>2, TakeSteps
  <1>9. ASSUME NEW t \in Turns, NEW cost \in Bills, Settle(t, cost) PROVE PoolStands(p)'
    <2>1. PICK reached, gives : Settles(t, cost, reached, gives)
      BY <1>9, SettleSteps
    <2>2. /\ gives \in [Sources -> Nat] /\ reached \in SUBSET PoolsOf
          /\ \A q \in PoolsOf \ reached : gives[q] = 0
          /\ gives[p] \in Nat /\ gives[p] <= Floor0(SettleRooms(t, cost)[p])
      BY <1>0, <2>1, DrawsNat, BonusConstants DEF Settles
    <2>3. PICK day : day = turn[t].day  OBVIOUS
    <2>4. /\ Draw(t, day, reached, gives) /\ turn[t].pc = "held" /\ turn'[t].pc = "held"
          /\ turn'[t].hold = turn[t].hold /\ ~ turn[t].settled /\ turn'[t].settled
          /\ turn'[t].released = turn[t].released /\ turn'[t].start = turn[t].start
          /\ turn'[t].phase = turn[t].phase /\ Alone(t) /\ charged'[p] = Kept(p, reached) + gives[p]
      BY <1>0, <2>1, <2>3 DEF Settles
    <2>5. DrawnPools(reached, gives)  BY <2>2, <2>4, DrawWrites
    <2>6. /\ pool'[p].used = Opened(p, reached).used + gives[p]
          /\ pool'[p].amount = Opened(p, reached).amount /\ pool'[p].start = Opened(p, reached).start
      BY <2>5 DEF DrawnPools
    <2>7. PICK room, own : /\ room = Current(p).amount - Current(p).used
                           /\ own = IF ~ turn[t].released /\ Current(p).start = turn[t].start[p]
                                    THEN turn[t].hold[p] ELSE 0
      OBVIOUS
    <2>8. room \in Int /\ own \in Nat /\ (~ Forced(p)' => gives[p] <= Floor0(room + own))
      <3>1. room \in Int /\ own \in Nat  BY <1>1, <2>7, CurrentPool
      <3>2. ASSUME ~ Forced(p)' PROVE gives[p] <= Floor0(room + own)
        <4>1. p \notin LastPayer(t)
          <5>1. ASSUME p \in LastPayer(t) PROVE FALSE
            <6>1. turn[t].hold[p] > 0 /\ turn[t].phase = "exclusive"  BY <5>1, LastPayerHeld
            <6>2. t \in Settled' /\ turn'[t].phase = "exclusive" /\ turn'[t].hold[p] > 0
              BY <2>4, <6>1 DEF Settled
            <6> QED  BY <3>2, <6>2 DEF Forced
          <5> QED  BY <5>1
        <4>2. SettleRooms(t, cost)[p] = SettleRoom(t, p)  BY <1>0, <4>1 DEF SettleRooms
        <4>3. turn[t].day \in Times  BY <2>4 DEF TurnsStand
        <4>4. drawn[<<p, Owner[t], turn[t].day>>] \in Nat
          <5>1. <<p, Owner[t], turn[t].day>> \in PoolsOf \X Accounts \X Times  BY <4>3, BonusConstants
          <5> QED  BY <5>1 DEF TypeOK
        <4>5. DailyCap[p] \in Nat  BY BonusConstants
        <4>6. PICK left : left = DailyCap[p] - drawn[<<p, Owner[t], turn[t].day>>]
                                 + (IF turn[t].released THEN 0 ELSE turn[t].hold[p])
          OBVIOUS
        <4>7. left \in Int  BY <1>1, <4>4, <4>5, <4>6
        <4>8. SettleRoom(t, p) = IF turn[t].hold[p] = 0 THEN 0
                                 ELSE IF DailyCap[p] > 0 THEN Least(left, room + own) ELSE room + own
          BY <1>0, <2>7, <4>6 DEF SettleRoom
        <4> QED  BY <2>2, <3>1, <4>2, <4>7, <4>8 DEF Least, Floor0
      <3> QED  BY <3>1, <3>2
    <2>9. CASE p \in reached /\ Due(p)
      <3>1. /\ pool'[p].used = gives[p] /\ charged'[p] = gives[p] /\ pool'[p].start = Current(p).start
            /\ pool'[p].amount = Current(p).amount /\ room = Current(p).amount
        <4>1. Opened(p, reached) = Current(p)  BY <2>9 DEF Opened
        <4>2. Current(p).used = 0 /\ Current(p).amount \in Nat
          BY <2>9, CurrentPool
        <4>3. charged'[p] = gives[p]  BY <2>2, <2>4, <2>9 DEF Kept
        <4> QED  BY <2>2, <2>6, <2>7, <4>1, <4>2, <4>3
      <3>2. ASSUME NEW u \in Turns, turn'[u].pc = "held" PROVE turn'[u].start[p] # pool'[p].start
        <4>1. turn[u].pc = "held"
          <5>1. CASE u = t  BY <2>4, <5>1
          <5>2. CASE u # t  BY <2>4, <3>2, <5>2 DEF Alone
          <5> QED  BY <5>1, <5>2
        <4> QED  BY <2>4, <2>9, <3>1, <4>1, StartsPast
      <3>3. held1 = 0 /\ owed1 = 0  BY <1>4, <3>2, KnownNone
      <3>4. own = 0
        <4>1. turn[t].start[p] # Current(p).start  BY <2>4, <2>9, <3>1, StartsPast
        <4> QED  BY <2>7, <4>1
      <3>5. ~ Forced(p)' => gives[p] <= pool'[p].amount
        BY <1>1, <2>2, <2>8, <3>1, <3>4 DEF Floor0
      <3>6. /\ pool'[p].used >= charged'[p] + held1
            /\ ~ Forced(p)' => charged'[p] <= pool'[p].amount
            /\ pool'[p].used = charged'[p] + held1
            /\ ~ Forced(p)' => pool'[p].used - owed1 <= pool'[p].amount
        BY <1>1, <2>2, <3>1, <3>3, <3>5
      <3> QED  BY <1>4, <3>6, PoolFigures
    <2>10. CASE ~ (p \in reached /\ Due(p))
      <3>1. Opened(p, reached) = pool[p]  BY <2>10, CurrentPool DEF Opened
      <3>2. /\ pool'[p].used = used + gives[p] /\ pool'[p].amount = amount /\ charged'[p] = spent + gives[p]
            /\ pool'[p].start = pool[p].start
        BY <1>2, <2>4, <2>6, <2>10, <3>1 DEF Kept
      <3>3. PICK mine : mine = IF ~ turn[t].released /\ pool[p].start = turn[t].start[p]
                               THEN turn[t].hold[p] ELSE 0
        OBVIOUS
      <3>4. /\ Part(t, p, Recognised(p)) = mine /\ Part(t, p, Owed(p)) = 0
            /\ Part(t, p, Recognised(p))' = mine /\ Part(t, p, Owed(p))' = mine /\ mine \in Nat
        <4>1. Part(t, p, Recognised(p)) = mine /\ Part(t, p, Owed(p)) = 0 /\ mine \in Nat
          BY <1>1, <2>4, <3>3 DEF Part, Owed, Recognised, Open, Settled
        <4>2. Part(t, p, Recognised(p))' = mine /\ Part(t, p, Owed(p))' = mine
          BY <2>4, <3>2, <3>3 DEF Part, Owed, Recognised, Open, Settled
        <4> QED  BY <4>1, <4>2
      <3>5. ~ Forced(p)' /\ gives[p] > 0 => gives[p] <= (amount - used) + mine
        <4>1. CASE p \notin reached
          BY <2>2, <4>1
        <4>2. CASE p \in reached
          <5>1. room = amount - used /\ own = mine  BY <1>2, <2>7, <2>10, <3>3, <4>2, CurrentPool
          <5> QED  BY <1>6, <2>2, <2>8, <5>1 DEF Floor0
        <4> QED  BY <4>1, <4>2
      <3>6. /\ held \in Nat /\ held1 \in Nat /\ held1 - mine = held - mine /\ mine \in 0 .. held
            /\ owed \in Nat /\ owed1 \in Nat /\ owed1 - mine = owed - 0
        <4>1. /\ HeldUnits(p, Recognised(p)) \in Nat /\ HeldUnits(p, Recognised(p))' \in Nat
              /\ Part(t, p, Recognised(p)) \in 0 .. HeldUnits(p, Recognised(p))
              /\ HeldUnits(p, Recognised(p))' - Part(t, p, Recognised(p))'
                   = HeldUnits(p, Recognised(p)) - Part(t, p, Recognised(p))
              /\ HeldUnits(p, Owed(p)) \in Nat /\ HeldUnits(p, Owed(p))' \in Nat
              /\ HeldUnits(p, Owed(p))' - Part(t, p, Owed(p))' = HeldUnits(p, Owed(p)) - Part(t, p, Owed(p))
          BY <2>4, <3>2, KnownChange
        <4> QED  BY <1>3, <1>4, <3>4, <4>1, Zenon
      <3>7. held1 = held /\ owed1 = owed + mine /\ mine <= held /\ mine \in Nat  BY <3>4, <3>6
      <3>8. kept => (~ Forced(p)' => charged'[p] <= pool'[p].amount)
        BY <1>5, <1>6, <1>7, <2>2, <3>2, <3>5, <3>6, <3>7
      <3>9. exact => (~ Forced(p)' => pool'[p].used - owed1 <= pool'[p].amount)
        BY <1>5, <1>6, <1>7, <2>2, <3>2, <3>5, <3>6, <3>7
      <3>10. /\ kept => pool'[p].used >= charged'[p] + held1
             /\ exact => pool'[p].used = charged'[p] + held1
        BY <1>5, <1>6, <2>2, <3>2, <3>6, <3>7
      <3>11. moved'[p] = moved[p]  BY <2>5, <2>10 DEF DrawnPools
      <3> QED  BY <1>15, <1>4, <3>8, <3>9, <3>10, <3>11, PoolFigures
    <2> QED  BY <2>9, <2>10
  <1>10. ASSUME NEW t \in Turns, Release(t) PROVE PoolStands(p)'
    <2>1. Releases(t)  BY <1>10, ReleaseSteps
    <2>2. /\ turn[t].pc = "held" /\ ~ turn[t].released /\ turn'[t].released
          /\ turn'[t].settled = turn[t].settled /\ Alone(t) /\ turn'[t].start = turn[t].start
          /\ pool'[p].used = Given(t, p, pool[p].used) /\ pool'[p].amount = pool[p].amount
          /\ pool'[p].start = pool[p].start /\ charged'[p] = charged[p] /\ moved'[p] = moved[p]
      BY <1>0, <2>1 DEF Releases
    <2>3. PICK own, back : /\ own = IF pool[p].start = turn[t].start[p] THEN turn[t].hold[p] ELSE 0
                           /\ back = IF turn[t].settled THEN own ELSE 0
      OBVIOUS
    <2>4. /\ Part(t, p, Recognised(p)) = own /\ Part(t, p, Owed(p)) = back /\ own \in Nat /\ back \in Nat
          /\ Part(t, p, Recognised(p))' = 0 /\ Part(t, p, Owed(p))' = 0 /\ (back = 0 \/ back = own)
      <3>1. /\ Part(t, p, Recognised(p)) = own /\ Part(t, p, Owed(p)) = back /\ own \in Nat /\ back \in Nat
            /\ (back = 0 \/ back = own)
        BY <1>1, <2>2, <2>3 DEF Part, Owed, Recognised, Open, Settled
      <3>2. Part(t, p, Recognised(p))' = 0 /\ Part(t, p, Owed(p))' = 0
        BY <2>2 DEF Part, Owed, Recognised, Open
      <3> QED  BY <3>1, <3>2
    <2>5. /\ held \in Nat /\ held1 \in Nat /\ held1 - 0 = held - own /\ own \in 0 .. held
          /\ owed \in Nat /\ owed1 \in Nat /\ owed1 - 0 = owed - back /\ back \in 0 .. owed
      <3>1. /\ HeldUnits(p, Recognised(p)) \in Nat /\ HeldUnits(p, Recognised(p))' \in Nat
            /\ Part(t, p, Recognised(p)) \in 0 .. HeldUnits(p, Recognised(p))
            /\ HeldUnits(p, Recognised(p))' - Part(t, p, Recognised(p))'
                 = HeldUnits(p, Recognised(p)) - Part(t, p, Recognised(p))
            /\ HeldUnits(p, Owed(p)) \in Nat /\ HeldUnits(p, Owed(p))' \in Nat
            /\ Part(t, p, Owed(p)) \in 0 .. HeldUnits(p, Owed(p))
            /\ HeldUnits(p, Owed(p))' - Part(t, p, Owed(p))' = HeldUnits(p, Owed(p)) - Part(t, p, Owed(p))
        BY <2>2, KnownChange
      <3> QED  BY <1>3, <1>4, <2>4, <3>1, Zenon
    <2>6. held1 = held - own /\ owed1 = owed - back /\ own <= held /\ back <= owed  BY <2>4, <2>5
    <2>7. ASSUME kept PROVE pool'[p].used = used - own
      <3>1. own <= used  BY <1>5, <1>6, <2>4, <2>5, <2>6, <2>7
      <3>2. CASE pool[p].start = turn[t].start[p]
        <4>1. pool'[p].used = Floor0(used - own)
          BY <1>0, <1>2, <2>2, <2>3, <3>2 DEF Given, Refundable
        <4> QED  BY <1>6, <2>4, <3>1, <4>1 DEF Floor0
      <3>3. CASE pool[p].start # turn[t].start[p]
        <4>1. pool'[p].used = used /\ own = 0
          BY <1>0, <1>2, <2>2, <2>3, <3>3 DEF Given, Refundable
        <4> QED  BY <1>6, <4>1
      <3> QED  BY <3>2, <3>3
    <2>8. pool'[p].amount = amount /\ charged'[p] = spent  BY <1>2, <2>2
    <2>9. /\ kept => /\ pool'[p].used >= charged'[p] + held1
                     /\ ~ Forced(p)' => charged'[p] <= pool'[p].amount
          /\ exact => pool'[p].used = charged'[p] + held1
      BY <1>5, <1>6, <1>7, <1>16, <2>4, <2>5, <2>6, <2>7, <2>8
    <2>10. exact => (~ Forced(p)' => pool'[p].used - owed1 <= pool'[p].amount)
      BY <1>5, <1>6, <1>7, <1>16, <2>4, <2>5, <2>6, <2>7, <2>8
    <2> QED  BY <1>15, <1>4, <2>2, <2>9, <2>10, PoolFigures
  <1>11. ASSUME NEW q \in PoolsOf, NEW more \in Adjustments, AdjustPool(q, more) PROVE PoolStands(p)'
    <2>1. Adjusts(q, more) /\ more \in Nat  BY <1>11, AdjustSteps, BonusConstants
    <2>2. turn' = turn  BY <2>1 DEF Adjusts
    <2>3. CASE q # p
      <3>1. pool'[p] = pool[p] /\ charged'[p] = charged[p] /\ moved'[p] = moved[p]
        BY <1>0, <2>1, <2>3 DEF Adjusts
      <3> QED  BY <2>2, <3>1, PoolStays
    <2>4. CASE q = p
      <3>1. /\ pool'[p].used = Current(p).used /\ pool'[p].amount = Current(p).used + more
            /\ pool'[p].start = Current(p).start /\ charged'[p] = IF Due(p) THEN 0 ELSE charged[p]
            /\ moved'[p] = IF Due(p) THEN "no" ELSE moved[p]
        BY <1>0, <2>1, <2>4 DEF Adjusts
      <3>2. CASE Due(p)
        <4>1. Current(p).used = 0  BY <3>2, CurrentPool
        <4>2. \A u \in Turns : turn'[u].pc = "held" => turn'[u].start[p] # pool'[p].start
          BY <2>2, <3>1, <3>2, StartsPast
        <4>3. held1 = 0 /\ owed1 = 0  BY <1>4, <4>2, KnownNone
        <4>4. pool'[p].used = 0 /\ pool'[p].amount = more /\ charged'[p] = 0  BY <2>1, <3>1, <3>2, <4>1
        <4>5. /\ pool'[p].used >= charged'[p] + held1
              /\ ~ Forced(p)' => charged'[p] <= pool'[p].amount
              /\ pool'[p].used = charged'[p] + held1
              /\ ~ Forced(p)' => pool'[p].used - owed1 <= pool'[p].amount
          BY <2>1, <4>3, <4>4
        <4> QED  BY <1>4, <4>5, PoolFigures
      <3>3. CASE ~ Due(p)
        <4>1. Current(p) = pool[p]  BY <3>3, CurrentPool
        <4>2. pool'[p].used = used /\ pool'[p].amount = used + more /\ charged'[p] = spent /\ pool'[p].start = pool[p].start
          BY <1>2, <3>1, <3>3, <4>1
        <4>3. held1 = held /\ owed1 = owed
          BY <1>3, <1>4, <2>2, <4>2 DEF HeldUnits, Recognised, Owed, Open, Settled
        <4>4. held \in Nat /\ owed \in Nat
          <5>1. PICK T, O : T = Recognised(p) /\ O = Owed(p)  OBVIOUS
          <5>2. T \in SUBSET Turns /\ O \in SUBSET Turns  BY <5>1 DEF Recognised, Owed, Open
          <5>3. HeldUnits(p, T) \in Nat /\ HeldUnits(p, O) \in Nat  BY <1>0, <5>2, UnitsCounted
          <5> QED  BY <1>3, <5>1, <5>3
        <4>5. /\ kept => /\ pool'[p].used >= charged'[p] + held1
                         /\ ~ Forced(p)' => charged'[p] <= pool'[p].amount
              /\ exact => /\ pool'[p].used = charged'[p] + held1
                          /\ ~ Forced(p)' => pool'[p].used - owed1 <= pool'[p].amount
          BY <1>5, <1>6, <2>1, <4>2, <4>3, <4>4
        <4> QED  BY <1>15, <1>4, <3>1, <3>3, <4>5, PoolFigures
      <3> QED  BY <3>2, <3>3
    <2> QED  BY <2>3, <2>4
  <1>12. ASSUME NEW q \in PoolsOf, NEW period \in NewPeriods, UpdatePoolRules(q, period) PROVE PoolStands(p)'
    <2>1. Restarts(q, period)  BY <1>12, RestartSteps
    <2>2. turn' = turn /\ charged' = charged  BY <2>1 DEF Restarts
    <2>3. CASE q # p
      <3>1. pool'[p] = pool[p] /\ moved'[p] = moved[p]  BY <2>1, <2>3 DEF Restarts
      <3> QED  BY <2>2, <3>1, PoolStays
    <2>4. CASE q = p
      <3>1. /\ pool'[p].used = used /\ pool'[p].amount = amount /\ charged'[p] = spent
            /\ moved'[p] = Moved(moved[p], pool[p].start, pool'[p].start)
        BY <1>2, <2>1, <2>2, <2>4 DEF Restarts
      <3>2. held \in Nat
        <4>1. PICK T : T = Recognised(p)  OBVIOUS
        <4>2. T \in SUBSET Turns  BY <4>1 DEF Recognised, Open
        <4>3. HeldUnits(p, T) \in Nat  BY <1>0, <4>2, UnitsCounted
        <4> QED  BY <1>3, <4>1, <4>3
      <3>3. CASE pool'[p].start < pool[p].start
        <4>1. moved'[p] = "back"  BY <3>1, <3>3 DEF Moved
        <4> QED  BY <1>4, <4>1, PoolFigures
      <3>4. CASE pool'[p].start = pool[p].start
        <4>1. moved'[p] = moved[p]  BY <1>1, <3>1, <3>4 DEF Moved
        <4>2. held1 = held /\ owed1 = owed
          BY <1>3, <1>4, <2>2, <3>4 DEF HeldUnits, Recognised, Owed, Open, Settled
        <4>3. /\ kept => /\ pool'[p].used >= charged'[p] + held1
                         /\ ~ Forced(p)' => charged'[p] <= pool'[p].amount
              /\ exact => /\ pool'[p].used = charged'[p] + held1
                          /\ ~ Forced(p)' => pool'[p].used - owed1 <= pool'[p].amount
          BY <1>5, <1>7, <3>1, <4>2
        <4> QED  BY <1>15, <1>4, <4>1, <4>3, PoolFigures
      <3>5. CASE pool'[p].start > pool[p].start
        <4>1. moved'[p] # "no" /\ (moved'[p] # "back" => kept)
          BY <1>1, <1>15, <3>1, <3>5, BonusFields DEF Moved
        <4>2. ASSUME kept PROVE held1 = 0
          <5>1. ASSUME NEW u \in Turns, turn'[u].pc = "held" PROVE turn'[u].start[p] # pool'[p].start
            <6>1. turn'[u] = turn[u] /\ turn[u].start[p] \in Nat  BY <2>2, BonusFields
            <6>2. turn[u].start[p] <= pool[p].start  BY <1>15, <4>2, <5>1, <6>1 DEF HoldStands
            <6> QED  BY <1>1, <3>5, <6>1, <6>2
          <5> QED  BY <1>4, <5>1, KnownNone
        <4>3. kept => /\ pool'[p].used >= charged'[p] + held1
                      /\ ~ Forced(p)' => charged'[p] <= pool'[p].amount
          BY <1>5, <1>6, <1>7, <3>1, <3>2, <4>2
        <4>4. moved'[p] # "back" => /\ pool'[p].used >= charged'[p] + held1
                                    /\ ~ Forced(p)' => charged'[p] <= pool'[p].amount
          BY <4>1, <4>3
        <4>5. moved'[p] = "no" => /\ pool'[p].used = charged'[p] + held1
                                  /\ ~ Forced(p)' => pool'[p].used - owed1 <= pool'[p].amount
          BY <4>1
        <4> QED  BY <1>4, <4>4, <4>5, PoolFigures
      <3> QED  BY <1>1, <3>3, <3>4, <3>5
    <2> QED  BY <2>3, <2>4
  <1>13. ASSUME Tick PROVE PoolStands(p)'
    BY <1>13, PoolStays DEF Tick
  <1>14. ASSUME NEW g \in GrantsOf, Revoke(g) PROVE PoolStands(p)'
    BY <1>14, PoolStays DEF Revoke
  <1> QED  BY <1>8, <1>9, <1>10, <1>11, <1>12, <1>13, <1>14 DEF Next

(***************************************************************************)
(* Daily shares                                                            *)
(***************************************************************************)

OwedOn(a, d) == OpenOn(a, d) \cap Settled

\* What an account drew in a day counts what its turns of that day hold, and past
\* its share there are only holds of settled turns.
DayStands(p, a, d) ==
    /\ HeldUnits(p, OpenOn(a, d)) <= drawn[<<p, a, d>>]
    /\ DailyCap[p] > 0 /\ ~ Forced(p) => drawn[<<p, a, d>>] - HeldUnits(p, OwedOn(a, d)) <= DailyCap[p]

LEMMA DayChange ==
    ASSUME TypeOK, TypeOK', NEW p \in PoolsOf, NEW a \in Accounts, NEW d \in Times, NEW t \in Turns, Alone(t)
    PROVE  /\ HeldUnits(p, OpenOn(a, d)) \in Nat /\ HeldUnits(p, OpenOn(a, d))' \in Nat
           /\ Part(t, p, OpenOn(a, d)) \in 0 .. HeldUnits(p, OpenOn(a, d))
           /\ HeldUnits(p, OpenOn(a, d))' - Part(t, p, OpenOn(a, d))'
                = HeldUnits(p, OpenOn(a, d)) - Part(t, p, OpenOn(a, d))
           /\ HeldUnits(p, OwedOn(a, d)) \in Nat /\ HeldUnits(p, OwedOn(a, d))' \in Nat
           /\ Part(t, p, OwedOn(a, d)) \in 0 .. HeldUnits(p, OwedOn(a, d))
           /\ HeldUnits(p, OwedOn(a, d))' - Part(t, p, OwedOn(a, d))'
                = HeldUnits(p, OwedOn(a, d)) - Part(t, p, OwedOn(a, d))
  <1>0. p \in Sources  BY BonusConstants
  <1>16. ASSUME NEW M \in SUBSET Turns, NEW N \in SUBSET Turns, \A u \in Turns \ {t} : u \in N <=> u \in M
         PROVE  /\ HeldUnits(p, M) \in Nat /\ HeldUnits(p, N)' \in Nat
                /\ Part(t, p, M) \in 0 .. HeldUnits(p, M)
                /\ HeldUnits(p, N)' - Part(t, p, N)' = HeldUnits(p, M) - Part(t, p, M)
    BY <1>0, <1>16, UnitsChange
  <1>1. PICK M : M = OpenOn(a, d)  OBVIOUS
  <1>2. PICK N : N = OpenOn(a, d)'  OBVIOUS
  <1>3. M \in SUBSET Turns /\ N \in SUBSET Turns  BY <1>1, <1>2 DEF OpenOn, Open
  <1>15. \A u \in Turns \ {t} : u \in N <=> u \in M  BY <1>1, <1>2 DEF OpenOn, Open, Alone
  <1>4. HeldUnits(p, N)' = HeldUnits(p, OpenOn(a, d))' /\ Part(t, p, N)' = Part(t, p, OpenOn(a, d))'
    BY <1>2 DEF HeldUnits, Part
  <1>5. HeldUnits(p, M) = HeldUnits(p, OpenOn(a, d)) /\ Part(t, p, M) = Part(t, p, OpenOn(a, d))  BY <1>1
  <1>6. PICK P : P = OwedOn(a, d)  OBVIOUS
  <1>7. PICK Q : Q = OwedOn(a, d)'  OBVIOUS
  <1>8. P \in SUBSET Turns /\ Q \in SUBSET Turns /\ \A u \in Turns \ {t} : u \in Q <=> u \in P
    BY <1>6, <1>7 DEF OwedOn, OpenOn, Open, Settled, Alone
  <1>9. HeldUnits(p, Q)' = HeldUnits(p, OwedOn(a, d))' /\ Part(t, p, Q)' = Part(t, p, OwedOn(a, d))'
    BY <1>7 DEF HeldUnits, Part
  <1>10. HeldUnits(p, P) = HeldUnits(p, OwedOn(a, d)) /\ Part(t, p, P) = Part(t, p, OwedOn(a, d))  BY <1>6
  <1>11. /\ HeldUnits(p, M) \in Nat /\ HeldUnits(p, N)' \in Nat
         /\ Part(t, p, M) \in 0 .. HeldUnits(p, M)
         /\ HeldUnits(p, N)' - Part(t, p, N)' = HeldUnits(p, M) - Part(t, p, M)
    BY <1>3, <1>15, <1>16
  <1>12. /\ HeldUnits(p, P) \in Nat /\ HeldUnits(p, Q)' \in Nat
         /\ Part(t, p, P) \in 0 .. HeldUnits(p, P)
         /\ HeldUnits(p, Q)' - Part(t, p, Q)' = HeldUnits(p, P) - Part(t, p, P)
    BY <1>8, <1>16
  <1>13. /\ HeldUnits(p, OpenOn(a, d)) \in Nat /\ HeldUnits(p, OpenOn(a, d))' \in Nat
         /\ Part(t, p, OpenOn(a, d)) \in 0 .. HeldUnits(p, OpenOn(a, d))
         /\ HeldUnits(p, OpenOn(a, d))' - Part(t, p, OpenOn(a, d))'
              = HeldUnits(p, OpenOn(a, d)) - Part(t, p, OpenOn(a, d))
    BY <1>4, <1>5, <1>11
  <1>14. /\ HeldUnits(p, OwedOn(a, d)) \in Nat /\ HeldUnits(p, OwedOn(a, d))' \in Nat
         /\ Part(t, p, OwedOn(a, d)) \in 0 .. HeldUnits(p, OwedOn(a, d))
         /\ HeldUnits(p, OwedOn(a, d))' - Part(t, p, OwedOn(a, d))'
              = HeldUnits(p, OwedOn(a, d)) - Part(t, p, OwedOn(a, d))
    BY <1>9, <1>10, <1>12
  <1> QED  BY <1>13, <1>14

LEMMA DayStays ==
    ASSUME NEW p \in PoolsOf, NEW a \in Accounts, NEW d \in Times, DayStands(p, a, d),
           drawn' = drawn, turn' = turn
    PROVE  DayStands(p, a, d)'
  <1>1. /\ HeldUnits(p, OpenOn(a, d))' = HeldUnits(p, OpenOn(a, d))
        /\ HeldUnits(p, OwedOn(a, d))' = HeldUnits(p, OwedOn(a, d))
    BY DEF HeldUnits, OpenOn, OwedOn, Open, Settled
  <1>2. Forced(p)' <=> Forced(p)  BY DEF Forced, Settled
  <1>3. drawn'[<<p, a, d>>] = drawn[<<p, a, d>>]  OBVIOUS
  <1> QED  BY <1>1, <1>2, <1>3 DEF DayStands

LEMMA DayNext ==
    ASSUME TypeOK, TurnsStand, TypeOK', Next, NEW p \in PoolsOf, NEW a \in Accounts, NEW d \in Times, DayStands(p, a, d)
    PROVE  DayStands(p, a, d)'
  <1>0. p \in Sources /\ p \notin GrantsOf /\ DailyCap[p] \in Nat  BY BonusConstants
  <1>1. /\ drawn[<<p, a, d>>] \in Nat /\ drawn'[<<p, a, d>>] \in Nat
        /\ \A t \in Turns : turn[t].hold[p] \in Nat
    <2>1. <<p, a, d>> \in PoolsOf \X Accounts \X Times  OBVIOUS
    <2> QED  BY <1>0, <2>1, BonusFields DEF TypeOK
  <1>2. PICK drew, drew1, cap : drew = drawn[<<p, a, d>>] /\ drew1 = drawn'[<<p, a, d>>] /\ cap = DailyCap[p]
    OBVIOUS
  <1>3. PICK held, owed : held = HeldUnits(p, OpenOn(a, d)) /\ owed = HeldUnits(p, OwedOn(a, d))  OBVIOUS
  <1>4. PICK held1, owed1 : held1 = HeldUnits(p, OpenOn(a, d))' /\ owed1 = HeldUnits(p, OwedOn(a, d))'  OBVIOUS
  <1>5. held <= drew /\ (cap > 0 /\ ~ Forced(p) => drew - owed <= cap)
    BY <1>2, <1>3 DEF DayStands
  <1>6. drew \in Nat /\ drew1 \in Nat /\ cap \in Nat  BY <1>0, <1>1, <1>2
  <1>7. ~ Forced(p)' => ~ Forced(p)  BY ForcedStays
  <1>8. ASSUME held1 <= drew1, cap > 0 /\ ~ Forced(p)' => drew1 - owed1 <= cap
        PROVE  DayStands(p, a, d)'
    BY <1>2, <1>4, <1>8 DEF DayStands
  <1>9. ASSUME NEW t \in Turns, Alone(t), NEW part, NEW part1, NEW back, NEW back1,
               Part(t, p, OpenOn(a, d)) = part, Part(t, p, OpenOn(a, d))' = part1,
               Part(t, p, OwedOn(a, d)) = back, Part(t, p, OwedOn(a, d))' = back1
        PROVE  /\ held \in Nat /\ held1 \in Nat /\ held1 - part1 = held - part /\ part \in 0 .. held
               /\ owed \in Nat /\ owed1 \in Nat /\ owed1 - back1 = owed - back /\ back \in 0 .. owed
    <2>1. /\ HeldUnits(p, OpenOn(a, d)) \in Nat /\ HeldUnits(p, OpenOn(a, d))' \in Nat
          /\ Part(t, p, OpenOn(a, d)) \in 0 .. HeldUnits(p, OpenOn(a, d))
          /\ HeldUnits(p, OpenOn(a, d))' - Part(t, p, OpenOn(a, d))'
               = HeldUnits(p, OpenOn(a, d)) - Part(t, p, OpenOn(a, d))
          /\ HeldUnits(p, OwedOn(a, d)) \in Nat /\ HeldUnits(p, OwedOn(a, d))' \in Nat
          /\ Part(t, p, OwedOn(a, d)) \in 0 .. HeldUnits(p, OwedOn(a, d))
          /\ HeldUnits(p, OwedOn(a, d))' - Part(t, p, OwedOn(a, d))'
               = HeldUnits(p, OwedOn(a, d)) - Part(t, p, OwedOn(a, d))
      BY <1>9, DayChange
    <2> QED  BY <1>3, <1>4, <1>9, <2>1, Zenon
  <1>10. ASSUME NEW t \in Turns, NEW phase \in Phases, NEW want \in Wants, Take(t, phase, want)
         PROVE  DayStands(p, a, d)'
    <2>1. ASSUME NEW reached, NEW gives, Takes(t, phase, want, reached, gives)
          PROVE  DayStands(p, a, d)'
      <3>1. /\ gives \in [Sources -> Nat] /\ reached \in SUBSET PoolsOf
            /\ \A q \in PoolsOf \ reached : gives[q] = 0
            /\ gives[p] \in Nat /\ gives[p] <= Floor0(TakeRoom(t, phase, p))
        BY <1>0, <2>1, DrawsNat, BonusConstants DEF Takes
      <3>2. PICK day : day = now  OBVIOUS
      <3>3. /\ Draw(t, day, reached, gives) /\ turn[t].pc = "new" /\ turn'[t].pc = "held"
            /\ turn'[t].hold = gives /\ turn'[t].settled = turn[t].settled /\ turn'[t].day = day
            /\ turn'[t].released = turn[t].released /\ Alone(t)
        BY <2>1, <3>2 DEF Takes
      <3>4. DrawnDays(t, day, gives)  BY <3>1, <3>3, DrawWrites
      <3>5. PICK mine : mine = IF a = Owner[t] /\ d = day THEN gives[p] ELSE 0  OBVIOUS
      <3>6. drew1 = drew + mine /\ mine \in Nat  BY <1>2, <3>1, <3>4, <3>5 DEF DrawnDays
      <3>7. ~ turn[t].settled /\ ~ turn[t].released  BY <3>3 DEF TurnsStand
      <3>8. /\ Part(t, p, OpenOn(a, d)) = 0 /\ Part(t, p, OwedOn(a, d)) = 0
            /\ Part(t, p, OpenOn(a, d))' = mine /\ Part(t, p, OwedOn(a, d))' = 0
        <4>1. Part(t, p, OpenOn(a, d)) = 0 /\ Part(t, p, OwedOn(a, d)) = 0
          BY <3>3 DEF Part, OwedOn, OpenOn, Open
        <4>2. Part(t, p, OwedOn(a, d))' = 0
          BY <3>3, <3>7 DEF Part, OwedOn, Settled
        <4>3. Part(t, p, OpenOn(a, d))' = mine
          BY <3>3, <3>5, <3>7 DEF Part, OpenOn, Open
        <4> QED  BY <4>1, <4>2, <4>3
      <3>9. /\ held \in Nat /\ held1 \in Nat /\ held1 - mine = held - 0
            /\ owed \in Nat /\ owed1 \in Nat /\ owed1 - 0 = owed - 0
        BY <1>9, <3>3, <3>8
      <3>10. held1 = held + mine /\ owed1 = owed  BY <3>6, <3>9
      <3>11. cap > 0 /\ mine > 0 => mine <= cap - drew
        <4>1. CASE ~ (a = Owner[t] /\ d = day)
          BY <3>5, <4>1
        <4>2. CASE a = Owner[t] /\ d = day
          <5>1. PICK room : room = Floor0(Current(p).amount - Current(p).used)  OBVIOUS
          <5>2. room \in Int  BY <5>1, CurrentPool DEF Floor0
          <5>3. drawn[<<p, Owner[t], now>>] = drew  BY <1>2, <3>2, <4>2
          <5>4. cap > 0 => TakeRoom(t, phase, p) = IF ~ Eligible(t, phase, p) THEN 0 ELSE Least(cap - drew, room)
            BY <1>0, <1>2, <5>1, <5>3 DEF TakeRoom
          <5> QED  BY <1>6, <3>1, <3>5, <4>2, <5>2, <5>4 DEF Least, Floor0
        <4> QED  BY <4>1, <4>2
      <3>12. held1 <= drew1  BY <1>5, <1>6, <3>6, <3>9, <3>10
      <3>13. cap > 0 /\ ~ Forced(p)' => drew1 - owed1 <= cap
        BY <1>5, <1>6, <1>7, <3>6, <3>9, <3>10, <3>11
      <3> QED  BY <1>8, <3>12, <3>13
    <2>2. ASSUME Alone(t), turn[t].pc = "new", turn'[t].pc = "refused", UNCHANGED <<now, grant, pool, drawn, epoch, charged, moved>>
          PROVE  DayStands(p, a, d)'
      <3>1. /\ Part(t, p, OpenOn(a, d)) = 0 /\ Part(t, p, OwedOn(a, d)) = 0
            /\ Part(t, p, OpenOn(a, d))' = 0 /\ Part(t, p, OwedOn(a, d))' = 0
        BY <2>2 DEF Part, OwedOn, OpenOn, Open
      <3>2. /\ held \in Nat /\ held1 \in Nat /\ held1 - 0 = held - 0
            /\ owed \in Nat /\ owed1 \in Nat /\ owed1 - 0 = owed - 0
        BY <1>9, <2>2, <3>1
      <3>3. held1 = held /\ owed1 = owed /\ drew1 = drew  BY <1>2, <2>2, <3>2
      <3>4. held1 <= drew1 /\ (cap > 0 /\ ~ Forced(p)' => drew1 - owed1 <= cap)
        BY <1>5, <1>7, <3>3
      <3> QED  BY <1>8, <3>4
    <2> QED  BY <1>10, <2>1, <2>2, TakeSteps
  <1>11. ASSUME NEW t \in Turns, NEW cost \in Bills, Settle(t, cost) PROVE DayStands(p, a, d)'
    <2>1. PICK reached, gives : Settles(t, cost, reached, gives)
      BY <1>11, SettleSteps
    <2>2. /\ gives \in [Sources -> Nat] /\ reached \in SUBSET PoolsOf
          /\ \A q \in PoolsOf \ reached : gives[q] = 0
          /\ gives[p] \in Nat /\ gives[p] <= Floor0(SettleRooms(t, cost)[p])
      BY <1>0, <2>1, DrawsNat, BonusConstants DEF Settles
    <2>3. PICK day : day = turn[t].day  OBVIOUS
    <2>4. /\ Draw(t, day, reached, gives) /\ turn[t].pc = "held" /\ turn'[t].pc = "held"
          /\ turn'[t].hold = turn[t].hold /\ ~ turn[t].settled /\ turn'[t].settled
          /\ turn'[t].released = turn[t].released /\ turn'[t].day = turn[t].day
          /\ turn'[t].phase = turn[t].phase /\ Alone(t)
      BY <2>1, <2>3 DEF Settles
    <2>5. DrawnDays(t, day, gives)  BY <2>2, <2>4, DrawWrites
    <2>6. PICK mine, own : /\ mine = IF a = Owner[t] /\ d = day THEN gives[p] ELSE 0
                           /\ own = IF a = Owner[t] /\ d = day /\ ~ turn[t].released THEN turn[t].hold[p] ELSE 0
      OBVIOUS
    <2>7. drew1 = drew + mine /\ mine \in Nat /\ own \in Nat  BY <1>1, <1>2, <2>2, <2>5, <2>6 DEF DrawnDays
    <2>8. /\ Part(t, p, OpenOn(a, d)) = own /\ Part(t, p, OwedOn(a, d)) = 0
          /\ Part(t, p, OpenOn(a, d))' = own /\ Part(t, p, OwedOn(a, d))' = own
      <3>1. Part(t, p, OpenOn(a, d)) = own /\ Part(t, p, OwedOn(a, d)) = 0
        BY <2>3, <2>4, <2>6 DEF Part, OwedOn, OpenOn, Open, Settled
      <3>2. Part(t, p, OpenOn(a, d))' = own /\ Part(t, p, OwedOn(a, d))' = own
        BY <2>3, <2>4, <2>6 DEF Part, OwedOn, OpenOn, Open, Settled
      <3> QED  BY <3>1, <3>2
    <2>9. /\ held \in Nat /\ held1 \in Nat /\ held1 - own = held - own
          /\ owed \in Nat /\ owed1 \in Nat /\ owed1 - own = owed - 0
      BY <1>9, <2>4, <2>8
    <2>10. held1 = held /\ owed1 = owed + own  BY <2>7, <2>9
    <2>11. cap > 0 /\ ~ Forced(p)' /\ mine > 0 => mine <= (cap - drew) + own
      <3>1. CASE ~ (a = Owner[t] /\ d = day)
        BY <2>6, <3>1
      <3>2. ASSUME a = Owner[t] /\ d = day, ~ Forced(p)', cap > 0, mine > 0 PROVE mine <= (cap - drew) + own
        <4>1. p \notin LastPayer(t)
          <5>1. ASSUME p \in LastPayer(t) PROVE FALSE
            <6>1. turn[t].hold[p] > 0 /\ turn[t].phase = "exclusive"  BY <5>1, LastPayerHeld
            <6>2. t \in Settled' /\ turn'[t].phase = "exclusive" /\ turn'[t].hold[p] > 0
              BY <2>4, <6>1 DEF Settled
            <6> QED  BY <3>2, <6>2 DEF Forced
          <5> QED  BY <5>1
        <4>2. SettleRooms(t, cost)[p] = SettleRoom(t, p)  BY <1>0, <4>1 DEF SettleRooms
        <4>3. PICK room : room = Current(p).amount - Current(p).used
                                 + (IF ~ turn[t].released /\ Current(p).start = turn[t].start[p]
                                    THEN turn[t].hold[p] ELSE 0)
          OBVIOUS
        <4>4. room \in Int  BY <1>1, <4>3, CurrentPool
        <4>5. drawn[<<p, Owner[t], turn[t].day>>] = drew  BY <1>2, <2>3, <3>2
        <4>6. PICK left : left = cap - drew + (IF turn[t].released THEN 0 ELSE turn[t].hold[p])  OBVIOUS
        <4>7. left = (cap - drew) + own /\ left \in Int
          BY <1>1, <1>6, <2>6, <3>2, <4>6
        <4>8. SettleRoom(t, p) = IF turn[t].hold[p] = 0 THEN 0 ELSE Least(left, room)
          BY <1>0, <1>2, <3>2, <4>3, <4>5, <4>6 DEF SettleRoom
        <4>9. mine = gives[p] /\ mine <= Floor0(SettleRoom(t, p))  BY <2>2, <2>6, <3>2, <4>2
        <4>10. turn[t].hold[p] # 0 /\ mine <= Floor0(Least(left, room))
          BY <2>7, <3>2, <4>8, <4>9 DEF Floor0
        <4>11. mine <= left  BY <2>7, <3>2, <4>4, <4>7, <4>10 DEF Least, Floor0
        <4> QED  BY <4>7, <4>11
      <3> QED  BY <3>1, <3>2
    <2>12. held1 <= drew1  BY <1>5, <1>6, <2>7, <2>9, <2>10
    <2>13. cap > 0 /\ ~ Forced(p)' => drew1 - owed1 <= cap
      BY <1>5, <1>6, <1>7, <2>7, <2>9, <2>10, <2>11
    <2> QED  BY <1>8, <2>12, <2>13
  <1>12. ASSUME NEW t \in Turns, Release(t) PROVE DayStands(p, a, d)'
    <2>1. Releases(t)  BY <1>12, ReleaseSteps
    <2>2. /\ turn[t].pc = "held" /\ ~ turn[t].released /\ turn'[t].released
          /\ turn'[t].settled = turn[t].settled /\ Alone(t)
          /\ drew1 = IF a = Owner[t] /\ d = turn[t].day THEN Floor0(drew - turn[t].hold[p]) ELSE drew
      BY <1>2, <2>1 DEF Releases
    <2>3. PICK own, back : /\ own = IF a = Owner[t] /\ d = turn[t].day THEN turn[t].hold[p] ELSE 0
                           /\ back = IF turn[t].settled THEN own ELSE 0
      OBVIOUS
    <2>4. /\ Part(t, p, OpenOn(a, d)) = own /\ Part(t, p, OwedOn(a, d)) = back /\ own \in Nat /\ back \in Nat
          /\ Part(t, p, OpenOn(a, d))' = 0 /\ Part(t, p, OwedOn(a, d))' = 0 /\ (back = 0 \/ back = own)
      <3>1. /\ Part(t, p, OpenOn(a, d)) = own /\ Part(t, p, OwedOn(a, d)) = back /\ own \in Nat /\ back \in Nat
            /\ (back = 0 \/ back = own)
        BY <1>1, <2>2, <2>3 DEF Part, OwedOn, OpenOn, Open, Settled
      <3>2. Part(t, p, OpenOn(a, d))' = 0 /\ Part(t, p, OwedOn(a, d))' = 0
        BY <2>2 DEF Part, OwedOn, OpenOn, Open
      <3> QED  BY <3>1, <3>2
    <2>5. /\ held \in Nat /\ held1 \in Nat /\ held1 - 0 = held - own /\ own \in 0 .. held
          /\ owed \in Nat /\ owed1 \in Nat /\ owed1 - 0 = owed - back /\ back \in 0 .. owed
      BY <1>9, <2>2, <2>4
    <2>6. held1 = held - own /\ owed1 = owed - back /\ own <= held /\ back <= owed  BY <2>4, <2>5
    <2>7. drew1 = drew - own
      <3>1. own <= drew  BY <1>5, <1>6, <2>4, <2>5, <2>6
      <3>2. CASE a = Owner[t] /\ d = turn[t].day
        <4>1. drew1 = Floor0(drew - own)  BY <2>2, <2>3, <3>2
        <4> QED  BY <1>6, <2>4, <3>1, <4>1 DEF Floor0
      <3>3. CASE ~ (a = Owner[t] /\ d = turn[t].day)
        <4>1. drew1 = drew /\ own = 0  BY <2>2, <2>3, <3>3
        <4> QED  BY <1>6, <4>1
      <3> QED  BY <3>2, <3>3
    <2>8. held1 <= drew1  BY <1>5, <1>6, <2>4, <2>5, <2>6, <2>7
    <2>9. cap > 0 /\ ~ Forced(p)' => drew1 - owed1 <= cap
      BY <1>5, <1>6, <1>7, <2>4, <2>5, <2>6, <2>7
    <2> QED  BY <1>8, <2>8, <2>9
  <1>13. ASSUME NEW q \in PoolsOf, NEW more \in Adjustments, AdjustPool(q, more) PROVE DayStands(p, a, d)'
    BY <1>13, DayStays DEF AdjustPool
  <1>14. ASSUME NEW q \in PoolsOf, NEW period \in NewPeriods, UpdatePoolRules(q, period) PROVE DayStands(p, a, d)'
    BY <1>14, DayStays DEF UpdatePoolRules
  <1>15. ASSUME Tick PROVE DayStands(p, a, d)'
    BY <1>15, DayStays DEF Tick
  <1>16. ASSUME NEW g \in GrantsOf, Revoke(g) PROVE DayStands(p, a, d)'
    BY <1>16, DayStays DEF Revoke
  <1> QED  BY <1>10, <1>11, <1>12, <1>13, <1>14, <1>15, <1>16 DEF Next

(***************************************************************************)
(* The invariants                                                          *)
(***************************************************************************)

\* The ledger as a whole, and what each pool keeps of its periods.
LedgerStands ==
    /\ TypeOK /\ TurnsStand
    /\ \A g \in GrantsOf : GrantStands(g)
    /\ \A p \in PoolsOf, a \in Accounts, d \in Times : DayStands(p, a, d)
PeriodsStand ==
    \A p \in PoolsOf : PeriodStands(p) /\ PoolStands(p) /\ \A t \in Turns : HoldStands(t, p)

\* At first nothing is held, charged or drawn.
LEMMA InitFigures ==
    ASSUME Init
    PROVE  /\ \A g \in GrantsOf : /\ grant[g].amount \in Nat /\ grant[g].used = 0 /\ ~ grant[g].revoked
           /\ \A p \in PoolsOf : /\ pool[p].amount \in Nat /\ pool[p].used = 0
                                 /\ pool[p].start = StartOf(1, pool[p].period)
           /\ \A s \in Sources : charged[s] = 0
           /\ \A p \in PoolsOf, a \in Accounts, d \in Times : drawn[<<p, a, d>>] = 0
           /\ \A t \in Turns : turn[t].pc # "held"
           /\ Open = {}
  <1>1. ASSUME NEW g \in GrantsOf
        PROVE  grant[g].amount \in Nat /\ grant[g].used = 0 /\ ~ grant[g].revoked
    <2>1. grant[g] = [amount |-> Opening[g], used |-> 0, revoked |-> FALSE]  BY DEF Init
    <2> QED  BY <2>1, BonusConstants
  <1>2. ASSUME NEW p \in PoolsOf
        PROVE  /\ pool[p].amount \in Nat /\ pool[p].used = 0
               /\ pool[p].start = StartOf(1, pool[p].period)
    <2>1. pool[p] = [amount |-> Opening[p], used |-> 0, period |-> Period[p],
                     start |-> IF Period[p] = 0 THEN 0 ELSE 1]
      BY DEF Init
    <2>2. PICK k \in Nat : k = Period[p]  BY BonusConstants
    <2>3. StartOf(1, k) = IF k = 0 THEN 0 ELSE 1
      <3>1. k # 0 => 0 % k = 0  BY <2>2
      <3> QED  BY <3>1 DEF StartOf
    <2> QED  BY <2>1, <2>2, <2>3, BonusConstants
  <1>3. \A s \in Sources : charged[s] = 0  BY DEF Init
  <1>4. \A p \in PoolsOf, a \in Accounts, d \in Times : drawn[<<p, a, d>>] = 0  BY DEF Init
  <1>5. \A t \in Turns : turn[t].pc # "held"  BY DEF Init, NoTurn
  <1>6. Open = {}  BY <1>5 DEF Open
  <1> QED  BY <1>1, <1>2, <1>3, <1>4, <1>5, <1>6

LEMMA InitStands == Init => LedgerStands /\ PeriodsStand
  <1> SUFFICES ASSUME Init PROVE LedgerStands /\ PeriodsStand  OBVIOUS
  <1>1. TypeOK /\ TurnsStand  BY InitShape
  <1>2. /\ \A a, d : OpenOn(a, d) = {} /\ OwedOn(a, d) = {}
        /\ Paid = {} /\ \A p : Recognised(p) = {} /\ Owed(p) = {}
    BY InitFigures DEF OpenOn, OwedOn, Paid, Recognised, Owed
  <1>3. \A s \in Sources : HeldUnits(s, {}) = 0  BY UnitsCounted
  <1>4. ASSUME NEW g \in GrantsOf PROVE GrantStands(g)
    <2>1. g \in Sources  BY BonusConstants
    <2>2. HeldUnits(g, Open) = 0 /\ HeldUnits(g, Paid) = 0  BY <1>2, <1>3, <2>1, InitFigures
    <2>3. grant[g].amount \in Nat /\ grant[g].used = 0 /\ ~ grant[g].revoked /\ charged[g] = 0
      BY <2>1, InitFigures
    <2> QED  BY <2>2, <2>3 DEF GrantStands
  <1>5. ASSUME NEW p \in PoolsOf, NEW a \in Accounts, NEW d \in Times PROVE DayStands(p, a, d)
    <2>1. p \in Sources /\ DailyCap[p] \in Nat  BY BonusConstants
    <2>2. HeldUnits(p, OpenOn(a, d)) = 0 /\ HeldUnits(p, OwedOn(a, d)) = 0  BY <1>2, <1>3, <2>1
    <2>3. drawn[<<p, a, d>>] = 0  BY InitFigures
    <2> QED  BY <2>1, <2>2, <2>3 DEF DayStands
  <1>6. ASSUME NEW p \in PoolsOf PROVE PeriodStands(p) /\ PoolStands(p) /\ \A t \in Turns : HoldStands(t, p)
    <2>1. p \in Sources  BY BonusConstants
    <2>2. HeldUnits(p, Recognised(p)) = 0 /\ HeldUnits(p, Owed(p)) = 0  BY <1>2, <1>3, <2>1
    <2>3. pool[p].amount \in Nat /\ pool[p].used = 0 /\ charged[p] = 0  BY <2>1, InitFigures
    <2>4. PoolStands(p)  BY <2>2, <2>3 DEF PoolStands
    <2>5. \A t \in Turns : HoldStands(t, p)  BY InitFigures DEF HoldStands
    <2>6. 1 \in Times /\ now = 1  BY BonusConstants DEF Init, Times
    <2>7. Day(p, 1)  BY <2>6, InitFigures DEF Day
    <2> QED  BY <2>4, <2>5, <2>6, <2>7 DEF PeriodStands
  <1> QED  BY <1>1, <1>4, <1>5, <1>6 DEF LedgerStands, PeriodsStand

LEMMA LedgerStep == LedgerStands /\ [Next]_vars => LedgerStands'
  <1> SUFFICES ASSUME LedgerStands, [Next]_vars PROVE LedgerStands'  OBVIOUS
  <1> USE DEF LedgerStands
  <1>1. CASE Next
    <2>1. TypeOK' /\ TurnsStand'  BY <1>1, NextShape
    <2>2. ASSUME NEW g \in GrantsOf PROVE GrantStands(g)'  BY <1>1, <2>1, GrantNext
    <2>3. ASSUME NEW p \in PoolsOf, NEW a \in Accounts, NEW d \in Times PROVE DayStands(p, a, d)'
      BY <1>1, <2>1, DayNext
    <2> QED  BY <2>1, <2>2, <2>3
  <1>2. CASE UNCHANGED vars
    <2>1. UNCHANGED <<now, grant, pool, drawn, turn, epoch, charged, moved>>  BY <1>2 DEF vars
    <2>2. TypeOK' /\ TurnsStand'  BY <2>1 DEF TypeOK, TurnsStand
    <2>3. ASSUME NEW g \in GrantsOf PROVE GrantStands(g)'  BY <2>1, GrantStays
    <2>4. ASSUME NEW p \in PoolsOf, NEW a \in Accounts, NEW d \in Times PROVE DayStands(p, a, d)'
      BY <2>1, DayStays
    <2> QED  BY <2>2, <2>3, <2>4
  <1> QED  BY <1>1, <1>2

LEMMA PeriodsStep == LedgerStands /\ PeriodsStand /\ [Next]_vars => PeriodsStand'
  <1> SUFFICES ASSUME LedgerStands, PeriodsStand, [Next]_vars PROVE PeriodsStand'  OBVIOUS
  <1>1. TypeOK /\ TurnsStand /\ TypeOK'  BY LedgerStep DEF LedgerStands
  <1>2. ASSUME NEW p \in PoolsOf PROVE (PeriodStands(p) /\ PoolStands(p) /\ \A t \in Turns : HoldStands(t, p))'
    <2>1. PeriodStands(p) /\ PoolStands(p) /\ \A t \in Turns : HoldStands(t, p)  BY DEF PeriodsStand
    <2>2. CASE Next  BY <1>1, <2>1, <2>2, PeriodNext, HoldNext, PoolNext
    <2>3. CASE UNCHANGED vars
      <3>1. UNCHANGED <<now, grant, pool, drawn, turn, epoch, charged, moved>>  BY <2>3 DEF vars
      <3>2. PoolStands(p)'  BY <2>1, <3>1, PoolStays
      <3>3. PeriodStands(p)'  BY <2>1, <3>1 DEF PeriodStands, Day
      <3>4. \A t \in Turns : HoldStands(t, p)'  BY <2>1, <3>1 DEF HoldStands, Steady
      <3> QED  BY <3>2, <3>3, <3>4
    <2> QED  BY <2>2, <2>3
  <1> QED  BY <1>2 DEF PeriodsStand

\* The holds since the last reset of a pool whose start no rules moved are those it
\* gives back.
LEMMA PoolHolding ==
    ASSUME PeriodsStand, NEW p \in PoolsOf, Steady(p)
    PROVE  Holding(p) = Recognised(p) /\ Holding(p) \cap Settled = Owed(p)
  <1>1. \A t \in Turns : turn[t].pc = "held" => (turn[t].made[p] = epoch[p] <=> turn[t].start[p] = pool[p].start)
    BY DEF PeriodsStand, HoldStands, Steady
  <1> QED  BY <1>1 DEF Holding, Recognised, Open, Owed

LEMMA StandsGrants ==
    ASSUME LedgerStands PROVE GrantExact /\ DailyShareKept
  <1>1. GrantExact
    <2> SUFFICES ASSUME NEW g \in GrantsOf, ~ grant[g].revoked
                 PROVE  grant[g].used = charged[g] + HeldUnits(g, Holding(g))
      BY DEF GrantExact
    <2> QED  BY GrantHolding DEF LedgerStands, GrantStands
  <1>2. DailyShareKept
    <2> SUFFICES ASSUME NEW p \in PoolsOf, NEW a \in Accounts, NEW d \in Times, DailyCap[p] > 0, ~ Forced(p)
                 PROVE  drawn[<<p, a, d>>]
                          - HeldUnits(p, {t \in Settled : Owner[t] = a /\ turn[t].day = d /\ ~ turn[t].released})
                          <= DailyCap[p]
      BY DEF DailyShareKept
    <2>1. {t \in Settled : Owner[t] = a /\ turn[t].day = d /\ ~ turn[t].released} = OwedOn(a, d)
      BY DEF LedgerStands, TurnsStand, Settled, OwedOn, OpenOn, Open
    <2> QED  BY <2>1 DEF LedgerStands, DayStands
  <1> QED  BY <1>1, <1>2

LEMMA StandsExact ==
    ASSUME LedgerStands, PeriodsStand
    PROVE  SourcesExact
  <1>1. PoolExact
    <2> SUFFICES ASSUME NEW p \in PoolsOf, Steady(p)
                 PROVE  pool[p].used = charged[p] + HeldUnits(p, Holding(p))
      BY DEF PoolExact
    <2> QED  BY PoolHolding DEF PeriodsStand, PoolStands
  <1> QED  BY <1>1, StandsGrants DEF LedgerStands, SourcesExact

LEMMA StandsCharges ==
    ASSUME PeriodsStand PROVE ChargesWithinBalance
  BY DEF PeriodsStand, PoolStands, ChargesWithinBalance

LEMMA StandsWithin ==
    ASSUME LedgerStands, PeriodsStand
    PROVE  WithinBalance
  <1>1. ASSUME NEW g \in GrantsOf
        PROVE  grant[g].used - HeldUnits(g, Holding(g) \cap Settled) <= grant[g].amount
    <2>1. g \in Sources /\ Holding(g) \cap Settled = Paid  BY GrantHolding
    <2>2. HeldUnits(g, Paid) \in Nat  BY <2>1, UnitsCounted DEF Paid, Open
    <2>3. grant[g].used \in Nat /\ grant[g].amount \in Nat  BY BonusFields DEF LedgerStands
    <2>4. grant[g].used = grant[g].amount \/ grant[g].used - HeldUnits(g, Paid) <= grant[g].amount
      BY DEF LedgerStands, GrantStands
    <2>5. grant[g].used - HeldUnits(g, Paid) <= grant[g].amount  BY <2>2, <2>3, <2>4
    <2> QED  BY <2>1, <2>5
  <1>2. ASSUME NEW p \in PoolsOf, Steady(p), ~ Forced(p)
        PROVE  pool[p].used - HeldUnits(p, Holding(p) \cap Settled) <= pool[p].amount
    BY <1>2, PoolHolding DEF PeriodsStand, PoolStands
  <1>3. NoOverspend  BY <1>1, <1>2 DEF NoOverspend
  <1> QED  BY <1>3, StandsGrants, StandsCharges DEF WithinBalance

\* The ledger stands in every state.
LEMMA LedgerInv == Spec => []LedgerStands
  <1>1. Init => LedgerStands  BY InitStands
  <1> QED  BY <1>1, LedgerStep, PTL DEF Spec

LEMMA PeriodsInv == Spec => []PeriodsStand
  <1>1. Init => PeriodsStand  BY InitStands
  <1>2. LedgerStands /\ PeriodsStand /\ [Next]_vars => PeriodsStand'  BY PeriodsStep
  <1> QED  BY <1>1, <1>2, LedgerInv, PTL DEF Spec

LEMMA SameGrant ==
    ASSUME NEW r \in GrantRow, NEW q \in GrantRow, r.used = q.used, r.amount = q.amount, r.revoked = q.revoked
    PROVE  r = q
  BY DEF GrantRow

\* A revoked grant gives nothing and takes nothing back.
LEMMA RevokedStep ==
    ASSUME TypeOK, TurnsStand, TypeOK', Next, NEW g \in GrantsOf, grant[g].revoked
    PROVE  grant'[g] = grant[g]
  <1>0. g \in Sources /\ g \notin PoolsOf  BY GrantHolding
  <1>1. /\ grant[g].used \in Nat /\ grant[g] \in GrantRow /\ grant'[g] \in GrantRow
        /\ \A t \in Turns : turn[t].hold[g] \in Nat
    BY <1>0, BonusFields DEF TypeOK, GrantRow
  <1>2. ASSUME grant'[g].used = grant[g].used, grant'[g].amount = grant[g].amount,
               grant'[g].revoked = grant[g].revoked
        PROVE  grant'[g] = grant[g]
    BY <1>1, <1>2, SameGrant
  <1>3. ASSUME NEW t \in Turns, NEW day, NEW reached \in SUBSET PoolsOf, NEW gives \in [Sources -> Nat],
               \A p \in PoolsOf \ reached : gives[p] = 0, Draw(t, day, reached, gives), gives[g] = 0
        PROVE  grant'[g] = grant[g]
    <2>1. DrawnGrants(gives)  BY <1>3, DrawWrites
    <2>2. /\ grant'[g].used = grant[g].used + gives[g] /\ grant'[g].amount = grant[g].amount
          /\ grant'[g].revoked = grant[g].revoked
      BY <2>1 DEF DrawnGrants
    <2>3. grant'[g].used = grant[g].used  BY <1>1, <1>3, <2>2
    <2> QED  BY <1>2, <2>2, <2>3
  <1>4. ASSUME NEW t \in Turns, NEW phase \in Phases, NEW want \in Wants, Take(t, phase, want)
        PROVE  grant'[g] = grant[g]
    <2>1. ASSUME NEW reached, NEW gives, Takes(t, phase, want, reached, gives)
          PROVE  grant'[g] = grant[g]
      <3>1. /\ gives \in [Sources -> Nat] /\ reached \in SUBSET PoolsOf
            /\ \A p \in PoolsOf \ reached : gives[p] = 0
            /\ gives[g] \in Nat /\ gives[g] <= Floor0(TakeRoom(t, phase, g))
        BY <1>0, <2>1, DrawsNat, BonusConstants DEF Takes
      <3>2. PICK day : day = now  OBVIOUS
      <3>3. Draw(t, day, reached, gives)  BY <2>1, <3>2 DEF Takes
      <3>4. ~ Eligible(t, phase, g)  BY <1>0 DEF Eligible
      <3>5. TakeRoom(t, phase, g) = 0  BY <3>4 DEF TakeRoom
      <3>6. gives[g] = 0  BY <3>1, <3>5 DEF Floor0
      <3> QED  BY <1>3, <3>1, <3>3, <3>6
    <2> QED  BY <1>4, <2>1, TakeSteps
  <1>5. ASSUME NEW t \in Turns, NEW cost \in Bills, Settle(t, cost)
        PROVE  grant'[g] = grant[g]
    <2>1. PICK reached, gives : Settles(t, cost, reached, gives)  BY <1>5, SettleSteps
    <2>2. /\ gives \in [Sources -> Nat] /\ reached \in SUBSET PoolsOf
          /\ \A p \in PoolsOf \ reached : gives[p] = 0
          /\ gives[g] \in Nat /\ gives[g] <= Floor0(SettleRooms(t, cost)[g])
      BY <1>0, <2>1, DrawsNat, BonusConstants DEF Settles
    <2>3. PICK day : day = turn[t].day  OBVIOUS
    <2>4. Draw(t, day, reached, gives)  BY <2>1, <2>3 DEF Settles
    <2>5. g \notin LastPayer(t)  BY <1>0, LastPayerHeld
    <2>6. SettleRooms(t, cost)[g] = SettleRoom(t, g)  BY <1>0, <2>5 DEF SettleRooms
    <2>7. SettleRoom(t, g) = 0  BY <1>0 DEF SettleRoom
    <2>8. gives[g] = 0  BY <2>2, <2>6, <2>7 DEF Floor0
    <2> QED  BY <1>3, <2>2, <2>4, <2>8
  <1>6. ASSUME NEW t \in Turns, Release(t) PROVE grant'[g] = grant[g]
    <2>1. Releases(t)  BY <1>6, ReleaseSteps
    <2>2. Given(t, g, grant[g].used) = grant[g].used  BY <1>0 DEF Given, Refundable
    <2> QED  BY <1>2, <2>1, <2>2 DEF Releases
  <1>7. ASSUME NEW h \in GrantsOf, Revoke(h) PROVE grant'[g] = grant[g]
    <2>1. Revokes(h)  BY <1>7, RevokeSteps
    <2> QED  BY <2>1 DEF Revokes
  <1>8. ASSUME Tick PROVE grant'[g] = grant[g]  BY <1>8 DEF Tick
  <1>9. ASSUME NEW p \in PoolsOf, NEW amount \in Adjustments, AdjustPool(p, amount) PROVE grant'[g] = grant[g]
    BY <1>9 DEF AdjustPool
  <1>10. ASSUME NEW p \in PoolsOf, NEW period \in NewPeriods, UpdatePoolRules(p, period) PROVE grant'[g] = grant[g]
    BY <1>10 DEF UpdatePoolRules
  <1> QED  BY <1>4, <1>5, <1>6, <1>7, <1>8, <1>9, <1>10 DEF Next

\* Only its own release gives a turn's holds back: a hold of this period in full, and
\* none of a past one.
LEMMA ReleaseStep ==
    ASSUME TypeOK, TurnsStand, Next, NEW t \in Turns, ~ turn[t].released, turn'[t].released,
           NEW p \in PoolsOf, HoldStands(t, p), PoolStands(p)
    PROVE  /\ turn[t].made[p] = epoch[p] /\ Steady(p) => pool'[p].used = pool[p].used - turn[t].hold[p]
           /\ turn[t].made[p] # epoch[p] /\ moved[p] # "back" => pool'[p].used = pool[p].used
  <1>0. p \in Sources /\ p \notin GrantsOf  BY BonusConstants
  <1>1. pool[p].used \in Nat /\ charged[p] \in Nat /\ turn[t].hold[p] \in Nat  BY <1>0, BonusFields
  <1>2. Releases(t)
    <2>1. ASSUME turn'[t].released = turn[t].released PROVE FALSE  BY <2>1
    <2>2. ASSUME NEW u \in Turns, turn'[u].released = turn[u].released, Alone(u) PROVE FALSE
      BY <2>1, <2>2 DEF Alone
    <2>3. ASSUME NEW u \in Turns, NEW phase \in Phases, NEW want \in Wants, Take(u, phase, want) PROVE FALSE
      <3>1. ASSUME NEW reached, NEW gives, Takes(u, phase, want, reached, gives) PROVE FALSE
        BY <2>2, <3>1 DEF Takes
      <3> QED  BY <2>2, <2>3, <3>1, TakeSteps
    <2>4. ASSUME NEW u \in Turns, NEW cost \in Bills, Settle(u, cost) PROVE FALSE
      <3>1. PICK reached, gives : Settles(u, cost, reached, gives)  BY <2>4, SettleSteps
      <3> QED  BY <2>2, <3>1 DEF Settles
    <2>5. ASSUME NEW u \in Turns, Release(u) PROVE Releases(t)
      <3>1. Releases(u)  BY <2>5, ReleaseSteps
      <3>2. u = t  BY <2>1, <3>1 DEF Releases, Alone
      <3> QED  BY <3>1, <3>2
    <2>6. ASSUME turn' = turn PROVE FALSE  BY <2>6
    <2>7. ASSUME NEW g \in GrantsOf, Revoke(g) PROVE FALSE  BY <2>6, <2>7 DEF Revoke
    <2>8. ASSUME Tick PROVE FALSE  BY <2>6, <2>8 DEF Tick
    <2>9. ASSUME NEW q \in PoolsOf, NEW amount \in Adjustments, AdjustPool(q, amount) PROVE FALSE
      BY <2>6, <2>9 DEF AdjustPool
    <2>10. ASSUME NEW q \in PoolsOf, NEW period \in NewPeriods, UpdatePoolRules(q, period) PROVE FALSE
      BY <2>6, <2>10 DEF UpdatePoolRules
    <2> QED  BY <2>3, <2>4, <2>5, <2>7, <2>8, <2>9, <2>10 DEF Next
  <1>3. pool'[p].used = Given(t, p, pool[p].used) /\ turn[t].pc = "held"  BY <1>2 DEF Releases
  <1>4. ASSUME turn[t].made[p] = epoch[p], Steady(p) PROVE pool'[p].used = pool[p].used - turn[t].hold[p]
    <2>1. turn[t].start[p] = pool[p].start  BY <1>3, <1>4 DEF HoldStands
    <2>2. pool'[p].used = Floor0(pool[p].used - turn[t].hold[p])  BY <1>3, <2>1 DEF Given, Refundable
    <2>3. PICK T : T = Recognised(p)  OBVIOUS
    <2>4. T \in SUBSET Turns /\ t \in T  BY <1>3, <2>1, <2>3 DEF Recognised, Open
    <2>5. /\ HeldUnits(p, T \ {t}) \in Nat /\ HeldUnits(p, T) = HeldUnits(p, T \ {t}) + Part(t, p, T)
      BY <1>0, <2>4, UnitsSplit
    <2>6. Part(t, p, T) = turn[t].hold[p]  BY <2>4 DEF Part
    <2>7. pool[p].used = charged[p] + HeldUnits(p, T)  BY <1>4, <2>3 DEF PoolStands
    <2>8. pool[p].used >= turn[t].hold[p]  BY <1>1, <2>5, <2>6, <2>7
    <2> QED  BY <1>1, <2>2, <2>8 DEF Floor0
  <1>5. ASSUME turn[t].made[p] # epoch[p], moved[p] # "back" PROVE pool'[p].used = pool[p].used
    <2>1. turn[t].start[p] # pool[p].start  BY <1>3, <1>5 DEF HoldStands
    <2> QED  BY <1>0, <1>3, <2>1 DEF Given, Refundable
  <1> QED  BY <1>4, <1>5

(***************************************************************************)
(* The theorems                                                            *)
(***************************************************************************)

\* However takes, settlements, releases, revocations, resets and changes of the
\* rules interleave, every row keeps its shape, and what a live grant, or a pool
\* whose start no rules moved since its last reset, counts as used is what
\* settlements charged to it in this period and what turns under way hold of it.
THEOREM SourcesSound == Spec => []SourcesExact
  <1>1. LedgerStands /\ PeriodsStand => SourcesExact  BY StandsExact
  <1> QED  BY <1>1, LedgerInv, PeriodsInv, PTL

\* Nor does any source pay more than its balance, or more than an account's share
\* of a day, except for the holds of turns that have settled and not yet released
\* and for the pool that an exclusive request forces to take the rest; nor do the
\* settlements of a period, also where new rules move its start on under turns that
\* hold some of it.
THEOREM BalancesSound == Spec => []WithinBalance
  <1>1. LedgerStands /\ PeriodsStand => WithinBalance  BY StandsWithin
  <1> QED  BY <1>1, LedgerInv, PeriodsInv, PTL

\* Once a grant is revoked no turn charges it and none gives anything back to it,
\* not even one that held some of it when it was revoked.
THEOREM RevokedSound == Spec => RevokedStaysSpent
  <1>1. LedgerStands /\ LedgerStands' /\ [Next]_vars
          => [\A g \in GrantsOf : grant[g].revoked => grant'[g] = grant[g]]_vars
    BY RevokedStep DEF LedgerStands
  <1> QED  BY <1>1, LedgerInv, PTL DEF Spec, RevokedStaysSpent

\* A release gives a pool back all that the turn holds of it in this period and
\* nothing that it held in one that is over, whatever the periods of the pools and
\* however administrators change them: the next reset puts right what new rules
\* did, for it starts after every start that a turn remembers.
THEOREM ResetsSound == Spec => HoldsFollowPeriods
  <1>1. LedgerStands /\ PeriodsStand /\ [Next]_vars
          => [\A t \in Turns, p \in PoolsOf : ~ turn[t].released /\ turn'[t].released =>
                /\ turn[t].made[p] = epoch[p] /\ Steady(p) => pool'[p].used = pool[p].used - turn[t].hold[p]
                /\ turn[t].made[p] # epoch[p] /\ moved[p] # "back" => pool'[p].used = pool[p].used]_vars
    BY ReleaseStep DEF LedgerStands, PeriodsStand
  <1> QED  BY <1>1, LedgerInv, PeriodsInv, PTL DEF Spec, HoldsFollowPeriods
=============================================================================
