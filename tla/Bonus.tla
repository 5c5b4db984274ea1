------------------------------- MODULE Bonus -------------------------------
(***************************************************************************)
(* The bonus bars of internal/bonus as a request spends them: shared pools *)
(* and the account's own grants are taken from when a request reserves,    *)
(* charged when it settles and given back when it is released, while       *)
(* administrators revoke grants, change balances and change the rules and  *)
(* while pools start new periods.                                          *)
(*                                                                         *)
(* One take, settlement or release is one database transaction and one     *)
(* action.  A turn settles and is released one after the other, in either  *)
(* order, as the request that owns it runs them.                           *)
(***************************************************************************)
EXTENDS Integers, Sequences, FiniteSets

CONSTANTS
    Accounts, Turns,
    Owner,         \* [Turns -> Accounts]
    PoolOrder,     \* the pools, in the order they were made
    GrantOrder,    \* the grants, in the order candidates sorts them
    Holder,        \* [grants -> Accounts]
    Expires,       \* [grants -> time], 0 when it never expires
    Mode,          \* [pools -> {"on", "off", "only"}]
    SwitchedOn,    \* the grants whose bar is switched on
    Opening,       \* [pools and grants -> opening balance]
    ResetAmount,   \* [pools -> balance a new period starts with]
    Period,        \* [pools -> length of a period, 0 for never]
    NewPeriods,    \* periods an administrator may change a pool to
    DailyCap,      \* [pools -> what an account may draw in a day, 0 for no limit]
    Adjustments,   \* balances an administrator may set a pool to
    Wants,         \* estimates
    Bills,         \* costs
    MaxUnit,       \* bound on an estimate and a cost
    MaxTime        \* bound on the clock; its unit is a day

PoolsOf == {PoolOrder[i] : i \in 1 .. Len(PoolOrder)}
GrantsOf == {GrantOrder[i] : i \in 1 .. Len(GrantOrder)}
Sources == PoolsOf \union GrantsOf
\* The order a request asks its sources in: the pools before any grant.
Order == PoolOrder \o GrantOrder
Times == 1 .. MaxTime
Units == 0 .. MaxUnit
Phases == {"priority", "fallback", "exclusive"}

ASSUME ConstantsAssumption ==
    /\ IsFiniteSet(Turns)
    /\ Owner \in [Turns -> Accounts]
    /\ PoolOrder \in Seq(PoolsOf) /\ GrantOrder \in Seq(GrantsOf)
    /\ PoolsOf \cap GrantsOf = {}
    /\ \A i, j \in 1 .. Len(Order) : Order[i] = Order[j] => i = j
    /\ Holder \in [GrantsOf -> Accounts]
    /\ Expires \in [GrantsOf -> Nat]
    /\ Mode \in [PoolsOf -> {"on", "off", "only"}]
    /\ SwitchedOn \subseteq GrantsOf
    /\ Opening \in [Sources -> Nat]
    /\ ResetAmount \in [PoolsOf -> Nat]
    /\ Period \in [PoolsOf -> Nat]
    /\ NewPeriods \subseteq Nat
    /\ DailyCap \in [PoolsOf -> Nat]
    /\ Adjustments \subseteq Nat
    /\ MaxTime \in Nat \ {0} /\ MaxUnit \in Nat
    /\ Wants \subseteq Units /\ Bills \subseteq Units

VARIABLES
    now,      \* the day
    grant,    \* bonus_grants
    pool,     \* bonus_pools
    drawn,    \* bonus_pool_usage: what an account drew from a pool in a day
    turn,     \* the holds of a turn and how far it is
    epoch,    \* history: times a pool's balance was wiped by a new period
    charged,  \* history: settlements charged to a source since it was wiped
    moved     \* history: where new rules moved a pool's period since it was wiped

vars == <<now, grant, pool, drawn, turn, epoch, charged, moved>>

Least(a, b) == IF a < b THEN a ELSE b
Floor0(n) == IF n < 0 THEN 0 ELSE n

(***************************************************************************)
(* Pools                                                                   *)
(***************************************************************************)

\* periodStart: periods of a length start at day 1; a pool that is never reset
\* has no start, 0.
PeriodStart(period) == IF period = 0 THEN 0 ELSE now - ((now - 1) % period)

\* current: a pool whose period has ended stands as already reset.
Due(p) == pool[p].period # 0 /\ pool[p].start < PeriodStart(pool[p].period)
Current(p) ==
    IF Due(p)
    THEN [pool[p] EXCEPT !.amount = ResetAmount[p], !.used = 0,
                         !.start = PeriodStart(pool[p].period)]
    ELSE pool[p]

(***************************************************************************)
(* Holds                                                                   *)
(***************************************************************************)

NoHolds == [s \in Sources |-> 0]
NoTurn == [pc |-> "new", phase |-> "priority", want |-> 0, hold |-> NoHolds,
           start |-> [p \in PoolsOf |-> 0], day |-> 0, settled |-> FALSE,
           released |-> FALSE, covered |-> 0, cost |-> 0,
           made |-> [p \in PoolsOf |-> 0]]

\* A walk down Order that needs n and finds room[s] at each source: what is
\* still needed after each.
Remains(n, room) ==
    LET left[i \in 0 .. Len(Order)] ==
          IF i = 0 THEN n ELSE left[i - 1] - Least(Floor0(room[Order[i]]), left[i - 1])
    IN left

Reached(s, left) == \E i \in 1 .. Len(Order) : Order[i] = s /\ left[i - 1] > 0
\* What the walk took from each source.
Gives(left) ==
    [s \in Sources |->
        LET i == CHOOSE j \in 1 .. Len(Order) : Order[j] = s IN left[i - 1] - left[i]]

\* poolCandidates and candidates: what a request of this phase may ask.
Eligible(t, phase, s) ==
    IF s \in PoolsOf
    THEN \/ phase = "exclusive"
         \/ phase = "priority" /\ Mode[s] = "on"
         \/ phase = "fallback" /\ Mode[s] # "only"
    ELSE /\ phase # "exclusive"
         /\ Holder[s] = Owner[t]
         /\ ~ grant[s].revoked
         /\ Expires[s] = 0 \/ Expires[s] > now
         /\ phase = "priority" => s \in SwitchedOn

\* The room a take finds: the balance, and what is left of the account's day.
TakeRoom(t, phase, s) ==
    IF ~ Eligible(t, phase, s) THEN 0
    ELSE IF s \in GrantsOf THEN grant[s].amount - grant[s].used
    ELSE LET room == Floor0(Current(s).amount - Current(s).used)
             day == DailyCap[s] - drawn[<<s, Owner[t], now>>]
         IN IF DailyCap[s] > 0 THEN Least(day, room) ELSE room

\* A mutated form of SettleRoom: the hold makes room though it was given back.
SettleRoomTwice(t, s) ==
    LET h == turn[t]
    IN IF h.hold[s] = 0 THEN 0
       ELSE IF s \in GrantsOf
       THEN IF grant[s].revoked THEN 0 ELSE grant[s].amount - grant[s].used + h.hold[s]
       ELSE LET room == Current(s).amount - Current(s).used + h.hold[s]
                day == DailyCap[s] - drawn[<<s, Owner[t], h.day>>] + h.hold[s]
            IN IF DailyCap[s] > 0 THEN Least(day, room) ELSE room

\* The room a settlement finds: what is left, and the hold, when it is still
\* part of used.  A revoked grant gives none.
SettleRoom(t, s) ==
    LET h == turn[t]
    IN IF h.hold[s] = 0 THEN 0
       ELSE IF s \in GrantsOf
       THEN IF grant[s].revoked THEN 0
            ELSE grant[s].amount - grant[s].used + (IF h.released THEN 0 ELSE h.hold[s])
       ELSE LET q == Current(s)
                held == ~ h.released /\ q.start = h.start[s]
                room == q.amount - q.used + (IF held THEN h.hold[s] ELSE 0)
                day == DailyCap[s] - drawn[<<s, Owner[t], h.day>>]
                       + (IF h.released THEN 0 ELSE h.hold[s])
            IN IF DailyCap[s] > 0 THEN Least(day, room) ELSE room

\* The pool that takes what the others could not, when nothing else may pay.
LastPayer(t) ==
    LET held == {i \in 1 .. Len(PoolOrder) : turn[t].hold[PoolOrder[i]] > 0}
    IN IF turn[t].phase = "exclusive" /\ held # {}
       THEN {PoolOrder[CHOOSE i \in held : \A j \in held : j <= i]} ELSE {}

\* Balances after gives[s] was taken from each source; the pools a walk reached
\* are locked, and reset when that is due.
Draw(t, day, reached, gives) ==
    /\ grant' = [g \in GrantsOf |-> [grant[g] EXCEPT !.used = @ + gives[g]]]
    /\ pool' = [p \in PoolsOf |->
                  IF p \in reached THEN [Current(p) EXCEPT !.used = @ + gives[p]] ELSE pool[p]]
    /\ drawn' = [d \in DOMAIN drawn |->
                  IF d[2] = Owner[t] /\ d[3] = day THEN drawn[d] + gives[d[1]] ELSE drawn[d]]
    /\ epoch' = [p \in PoolsOf |->
                   IF p \in reached /\ Due(p) THEN epoch[p] + 1 ELSE epoch[p]]
    /\ moved' = [p \in PoolsOf |-> IF p \in reached /\ Due(p) THEN "no" ELSE moved[p]]

\* History: a new period forgets what the last one was charged.
Kept(s, reached) == IF s \in reached /\ Due(s) THEN 0 ELSE charged[s]

(***************************************************************************)
(* Init and actions                                                        *)
(***************************************************************************)

Init ==
    /\ now = 1
    /\ grant = [g \in GrantsOf |-> [amount |-> Opening[g], used |-> 0, revoked |-> FALSE]]
    /\ pool = [p \in PoolsOf |-> [amount |-> Opening[p], used |-> 0,
                                  period |-> Period[p],
                                  start |-> IF Period[p] = 0 THEN 0 ELSE 1]]
    /\ drawn = [d \in PoolsOf \X Accounts \X Times |-> 0]
    /\ turn = [t \in Turns |-> NoTurn]
    /\ epoch = [p \in PoolsOf |-> 0]
    /\ charged = [s \in Sources |-> 0]
    /\ moved = [p \in PoolsOf |-> "no"]

\* Take.  Priority gives what there is; the other phases give all or roll back.
Take(t, phase, want) ==
    LET left == Remains(want, [s \in Sources |-> TakeRoom(t, phase, s)])
        reached == {p \in PoolsOf : Eligible(t, phase, p) /\ Reached(p, left)}
        gives == Gives(left)
    IN /\ turn[t].pc = "new"
       /\ want > 0
       /\ IF phase # "priority" /\ left[Len(Order)] > 0
          THEN /\ turn' = [turn EXCEPT ![t].pc = "refused"]
               /\ UNCHANGED <<grant, pool, drawn, epoch, charged, moved>>
          ELSE /\ Draw(t, now, reached, gives)
               /\ turn' = [turn EXCEPT ![t] = [@ EXCEPT
                     !.pc = "held", !.phase = phase, !.want = want, !.day = now,
                     !.hold = gives,
                     !.start = [p \in PoolsOf |-> pool'[p].start],
                     !.made = [p \in PoolsOf |-> epoch'[p]]]]
               /\ charged' = [s \in Sources |-> Kept(s, reached)]
       /\ UNCHANGED now

\* Settle: the cost goes to the sources that were held, in their order, each
\* within its room; the last payer of an exclusive request takes the rest.
Settle(t, cost) ==
    LET room == [s \in Sources |-> IF s \in LastPayer(t) THEN cost ELSE SettleRoom(t, s)]
        left == Remains(cost, room)
        reached == {p \in PoolsOf : turn[t].hold[p] > 0 /\ Reached(p, left)}
        gives == Gives(left)
    IN /\ turn[t].pc = "held"
       /\ ~ turn[t].settled
       /\ Draw(t, turn[t].day, reached, gives)
       /\ turn' = [turn EXCEPT ![t].settled = TRUE, ![t].cost = cost,
                               ![t].covered = cost - left[Len(Order)]]
       /\ charged' = [s \in Sources |-> Kept(s, reached) + gives[s]]
       /\ UNCHANGED now

\* A mutated form of Refundable: a revoked grant takes its hold back.
RefundableRevoked(t, s) ==
    \/ s \in GrantsOf
    \/ s \in PoolsOf /\ pool[s].start = turn[t].start[s]

\* A mutated form of Refundable: a settlement is taken to have used the hold up.
RefundableUnspent(t, s) ==
    \/ s \in GrantsOf /\ ~ grant[s].revoked /\ ~ turn[t].settled
    \/ s \in PoolsOf /\ pool[s].start = turn[t].start[s]

\* A mutated form of Refundable: a reset does not take a hold with it.
RefundableEver(t, s) ==
    \/ s \in GrantsOf /\ ~ grant[s].revoked
    \/ s \in PoolsOf

\* Refund and refundPool: a revoked grant, and a pool that has started another
\* period, take nothing back.
Refundable(t, s) ==
    \/ s \in GrantsOf /\ ~ grant[s].revoked
    \/ s \in PoolsOf /\ pool[s].start = turn[t].start[s]

Given(t, s, used) == IF Refundable(t, s) THEN Floor0(used - turn[t].hold[s]) ELSE used

\* Refund of every hold, once: the reservation's own guard.
Release(t) ==
    /\ turn[t].pc = "held"
    /\ ~ turn[t].released
    /\ grant' = [g \in GrantsOf |-> [grant[g] EXCEPT !.used = Given(t, g, @)]]
    /\ pool' = [p \in PoolsOf |-> [pool[p] EXCEPT !.used = Given(t, p, @)]]
    /\ drawn' = [d \in DOMAIN drawn |->
                   IF d[2] = Owner[t] /\ d[3] = turn[t].day
                   THEN Floor0(drawn[d] - turn[t].hold[d[1]]) ELSE drawn[d]]
    /\ turn' = [turn EXCEPT ![t].released = TRUE]
    /\ UNCHANGED <<now, epoch, charged, moved>>

\* Revoke cuts the amount to what was used, once.
Revoke(g) ==
    /\ ~ grant[g].revoked
    /\ grant' = [grant EXCEPT ![g].amount = grant[g].used, ![g].revoked = TRUE]
    /\ UNCHANGED <<now, pool, drawn, turn, epoch, charged, moved>>

\* AdjustPool with set: what is left becomes amount.  Adding is setting what is
\* left to another figure.
AdjustPool(p, amount) ==
    /\ pool' = [pool EXCEPT ![p] = [Current(p) EXCEPT !.amount = Current(p).used + amount]]
    /\ epoch' = [epoch EXCEPT ![p] = IF Due(p) THEN @ + 1 ELSE @]
    /\ charged' = [charged EXCEPT ![p] = IF Due(p) THEN 0 ELSE @]
    /\ moved' = [moved EXCEPT ![p] = IF Due(p) THEN "no" ELSE @]
    /\ UNCHANGED <<now, grant, drawn, turn>>

\* Where a start that moves from one day to another leaves a pool: once it went back
\* it stays so, until a new period wipes the balance.
Moved(was, from, to) == IF to < from \/ was = "back" THEN "back" ELSE IF to > from THEN "on" ELSE was

\* updatePoolRules: a period that changes starts counting from the one under way.
UpdatePoolRules(p, period) ==
    /\ period # pool[p].period
    /\ pool' = [pool EXCEPT ![p].period = period, ![p].start = PeriodStart(period)]
    /\ moved' = [moved EXCEPT ![p] = Moved(@, pool[p].start, PeriodStart(period))]
    /\ UNCHANGED <<now, grant, drawn, turn, epoch, charged>>

Tick ==
    /\ now < MaxTime
    /\ now' = now + 1
    /\ UNCHANGED <<grant, pool, drawn, turn, epoch, charged, moved>>

Next ==
    \/ Tick
    \/ \E t \in Turns :
         \/ \E phase \in Phases, want \in Wants : Take(t, phase, want)
         \/ \E cost \in Bills : Settle(t, cost)
         \/ Release(t)
    \/ \E g \in GrantsOf : Revoke(g)
    \/ \E p \in PoolsOf, amount \in Adjustments : AdjustPool(p, amount)
    \/ \E p \in PoolsOf, period \in NewPeriods : UpdatePoolRules(p, period)

Spec == Init /\ [][Next]_vars

(***************************************************************************)
(* Properties                                                              *)
(***************************************************************************)

\* Every row, hold and history keeps its shape.
TypeOK ==
    /\ now \in Times
    /\ grant \in [GrantsOf -> [amount : Nat, used : Nat, revoked : BOOLEAN]]
    /\ pool \in [PoolsOf -> [amount : Nat, used : Nat, period : Nat, start : Nat]]
    /\ drawn \in [PoolsOf \X Accounts \X Times -> Nat]
    /\ turn \in [Turns -> [pc : {"new", "held", "refused"}, phase : Phases,
                           want : Units, hold : [Sources -> Units],
                           start : [PoolsOf -> Nat], day : 0 .. MaxTime,
                           settled : BOOLEAN, released : BOOLEAN,
                           covered : Units, cost : Units, made : [PoolsOf -> Nat]]]
    /\ epoch \in [PoolsOf -> Nat]
    /\ charged \in [Sources -> Nat]
    /\ moved \in [PoolsOf -> {"no", "on", "back"}]

\* The turns whose hold is still part of what a source counts as used.
Holding(s) ==
    {t \in Turns : /\ turn[t].pc = "held" /\ ~ turn[t].released
                   /\ s \in PoolsOf => turn[t].made[s] = epoch[s]}
Settled == {t \in Turns : turn[t].settled}

\* The credits a set of turns holds of a source.
HeldUnits(s, T) ==
    Cardinality({c \in T \X (1 .. MaxUnit) : c[2] <= turn[c[1]].hold[s]})

\* What a live grant counts as used is what settlements charged it and what
\* turns under way hold of it, whatever the order of Take, Settle and Refund of
\* several turns: a refund that ran twice or bottomed out at zero breaks it.
GrantExact ==
    \A g \in GrantsOf : ~ grant[g].revoked =>
        grant[g].used = charged[g] + HeldUnits(g, Holding(g))

\* No rules moved the period under way since the pool was last reset.
Steady(p) == moved[p] = "no"

\* The same of a pool through its lazy resets: a hold of an earlier period is
\* gone with it, and its refund must not add to the balance that was just set.
\* New rules that move the start lose count of the holds, until the next reset.
PoolExact ==
    \A p \in PoolsOf : Steady(p) => pool[p].used = charged[p] + HeldUnits(p, Holding(p))

\* A turn that only pools may pay for was charged to this one past its room.
Forced(p) ==
    \E t \in Settled : turn[t].phase = "exclusive" /\ turn[t].hold[p] > 0

\* Turns that settle and release together never spend more of a grant or a pool
\* than is in it: past the balance there are only the holds of turns that have
\* settled and are about to give them back.
NoOverspend ==
    /\ \A g \in GrantsOf :
         grant[g].used - HeldUnits(g, Holding(g) \cap Settled) <= grant[g].amount
    /\ \A p \in PoolsOf : Steady(p) /\ ~ Forced(p) =>
         pool[p].used - HeldUnits(p, Holding(p) \cap Settled) <= pool[p].amount

\* The settlements of one period never add up to more than its balance, also when
\* new rules move its start on while turns hold some of it: a hold that a settlement
\* no longer recognises must not be spent a second time.
ChargesWithinBalance ==
    \A p \in PoolsOf : moved[p] # "back" /\ ~ Forced(p) => charged[p] <= pool[p].amount

\* What an account draws from a pool in a day stays within its share, over turns
\* that take on one day and settle on the next and pools reset in between.
DailyShareKept ==
    \A p \in PoolsOf, a \in Accounts, d \in Times :
        LET mine == {t \in Settled : Owner[t] = a /\ turn[t].day = d /\ ~ turn[t].released}
        IN DailyCap[p] > 0 /\ ~ Forced(p)
             => drawn[<<p, a, d>>] - HeldUnits(p, mine) <= DailyCap[p]

\* Once a grant is revoked nothing gives credit back to it or charges it: turns
\* that held some of it when it was revoked settle and release around it.
RevokedStaysSpent ==
    [][\A g \in GrantsOf : grant[g].revoked => grant'[g] = grant[g]]_vars

\* "What was taken is given back by Refund, so a request that never ran costs
\* nothing" (Hold): a release that no settlement went before gives each pool
\* that has not been reset since its hold back.
HoldsGivenBack ==
    [][\A t \in Turns, p \in PoolsOf :
         /\ ~ turn[t].released /\ turn'[t].released
         /\ ~ turn[t].settled /\ turn[t].made[p] = epoch[p]
         => pool'[p].used = pool[p].used - turn[t].hold[p]]_vars

\* "The reset took the hold away with everything else, and giving it back would add
\* to a balance that was just set" (refundPool): a release gives nothing back to a
\* pool that has been reset since the hold was taken.
ResetTakesHolds ==
    [][\A t \in Turns, p \in PoolsOf :
         /\ ~ turn[t].released /\ turn'[t].released
         /\ turn[t].made[p] # epoch[p]
         => pool'[p].used >= pool[p].used]_vars

\* A release gives a pool back exactly what the turn holds of it, and nothing to a
\* pool that has been reset since: no refund is lost, cut off at zero or paid out of
\* a balance that was just set, through any order of lazy resets, changes of the
\* period and releases, but while new rules keep a start where it was moved
\* (refundPool). The next reset puts right whatever they did.
HoldsFollowPeriods ==
    [][\A t \in Turns, p \in PoolsOf : ~ turn[t].released /\ turn'[t].released =>
         /\ turn[t].made[p] = epoch[p] /\ Steady(p) => pool'[p].used = pool[p].used - turn[t].hold[p]
         /\ turn[t].made[p] # epoch[p] /\ moved[p] # "back" => pool'[p].used = pool[p].used]_vars

\* Grants and pools are well formed and count what was charged and what is held.
SourcesExact == TypeOK /\ GrantExact /\ PoolExact

\* No source pays more than it has: not in all, not in a day, not in a period.
WithinBalance == NoOverspend /\ DailyShareKept /\ ChargesWithinBalance
=============================================================================
