------------------------------- MODULE Quota -------------------------------
(***************************************************************************)
(* The allowance accounting of internal/quota: usage counters bucketed by  *)
(* window, the reservation a turn takes before it runs, the settlement and *)
(* the release that follow it, and the resets, cards and prune that delete *)
(* counters while turns are in flight.                                     *)
(*                                                                         *)
(* A database transaction is one action.  What the code reads outside the  *)
(* transaction (the clock, the reset epoch of a settlement) is a step of   *)
(* its own, so that it can be stale when the transaction runs.  Tokens and *)
(* credits are one dimension, "amount": the code moves both by the same    *)
(* deltas.  What bonus bars pay is any share of the estimate here; module  *)
(* Bonus says which.                                                       *)
(***************************************************************************)
EXTENDS Integers, Sequences, FiniteSets

CONSTANTS
    Accounts,      \* accounts
    Turns,         \* turns, each of one account
    Owner,         \* [Turns -> Accounts]
    Exempt,        \* turns asked under an unlimited policy
    Allowance,     \* AllowanceWindows: the kinds of allowance window, in order
    Length,        \* length of a window of each allowance kind
    Minute,        \* length of a rate window
    Keep,          \* counterRetention, per kind
    RequestLimit,  \* [allowance kinds -> Nat], 0 when the limit is off
    AmountLimit,   \* [allowance kinds -> Nat], 0 when the limit is off
    RpmLimit,      \* requests a minute, 0 when off
    TpmLimit,      \* tokens a minute, 0 when off
    Created,       \* [Accounts -> time of registration]
    Cards,         \* reset cards
    Holder,        \* [Cards -> Accounts]
    Covers,        \* [Cards -> the allowance kinds the card clears]
    Estimates,     \* estimates a turn may ask for
    Bills,         \* costs a turn may turn out to have
    ResetKinds,    \* the sets of counter kinds a reset may name
    MaxCost,       \* bound on an estimate and on a cost
    MaxTime,       \* bound on the clock
    MaxResets      \* bound on administrator resets

Indices == 1 .. Len(Allowance)
AllowanceKinds == {Allowance[i] : i \in Indices}
TokenWindows == {"tpm"} \union AllowanceKinds
CounterKinds == {"rpm"} \union TokenWindows
Times == 0 .. MaxTime
Costs == 0 .. MaxCost
Keys == Accounts \X CounterKinds \X Times

ASSUME ConstantsAssumption ==
    /\ IsFiniteSet(Turns)
    /\ Owner \in [Turns -> Accounts]
    /\ Exempt \subseteq Turns
    /\ Allowance \in Seq(STRING)
    /\ {"rpm", "tpm"} \cap AllowanceKinds = {}
    /\ \A i, j \in Indices : Allowance[i] = Allowance[j] => i = j
    /\ Length \in [AllowanceKinds -> Nat \ {0}]
    /\ Minute \in Nat \ {0}
    /\ Keep \in [CounterKinds -> Nat]
    /\ RequestLimit \in [AllowanceKinds -> Nat]
    /\ AmountLimit \in [AllowanceKinds -> Nat]
    /\ RpmLimit \in Nat
    /\ TpmLimit \in Nat
    /\ MaxTime \in Nat
    /\ MaxCost \in Nat
    /\ Estimates \subseteq Costs
    /\ Bills \subseteq Costs
    /\ ResetKinds \subseteq SUBSET CounterKinds
    /\ MaxResets \in Nat
    /\ Created \in [Accounts -> Times]
    /\ Holder \in [Cards -> Accounts]
    /\ Covers \in [Cards -> SUBSET AllowanceKinds]

VARIABLES
    now,       \* the clock
    resetAt,   \* the global reset row of settings, 0 when never reset
    admin,     \* a ResetAll in progress: the moment it read, or NotResetting
    resets,    \* administrator resets made
    rows,      \* usage_counters
    cards,     \* unspent reset cards
    pc,        \* where a turn's reservation is
    want,      \* the estimate a turn asks for
    res,       \* its Reservation
    released,  \* its releaseGuard
    bill,      \* its settlement
    settled    \* history: what settlements have added to a row since it was made

vars == <<now, resetAt, admin, resets, rows, cards, pc, want, res, released, bill, settled>>

(***************************************************************************)
(* Windows and rows                                                        *)
(***************************************************************************)

\* bucketStart: rate windows are wall-clock, allowance windows run from the
\* anchor.  A moment before the anchor falls in the anchor's first window.
BucketStart(w, t, anchor) ==
    IF w \in {"rpm", "tpm"} THEN t - (t % Minute)
    ELSE IF t <= anchor THEN anchor
    ELSE t - ((t - anchor) % Length[w])

AnchorFor(a) == IF resetAt <= Created[a] THEN Created[a] ELSE resetAt

Key(a, w, t, anchor) == <<a, w, BucketStart(w, t, anchor)>>
KeysAt(a, ws, t, anchor) == {Key(a, w, t, anchor) : w \in ws}

Floor0(n) == IF n < 0 THEN 0 ELSE n

\* A row deleted and made again is a new incarnation of its key: gen stands for
\* the random generation bump writes when it inserts.
Row == [live : BOOLEAN, gen : Nat, requests : Int, amount : Nat]
NoRow == [live |-> FALSE, gen |-> 0, requests |-> 0, amount |-> 0]

Bump(r, requests, amount) ==
    IF r.live
    THEN [r EXCEPT !.requests = @ + requests, !.amount = Floor0(@ + amount)]
    ELSE [live |-> TRUE, gen |-> r.gen + 1,
          requests |-> Floor0(requests), amount |-> Floor0(amount)]

Delete(r) == [live |-> FALSE, gen |-> r.gen, requests |-> 0, amount |-> 0]

\* A mutated form of RefundCounter: the request is taken back by the key alone.
RefundCounterRequest(r, gen, amount) ==
    IF r.live /\ r.gen = gen THEN [r EXCEPT !.amount = Floor0(@ - amount)]
    ELSE [r EXCEPT !.requests = Floor0(@ - 1)]

\* refundCounter: only the incarnation the reservation charged.
RefundCounter(r, gen, amount) ==
    IF r.live /\ r.gen = gen THEN [r EXCEPT !.amount = Floor0(@ - amount)] ELSE r

BumpAll(rs, ks, requests, amount) ==
    [k \in Keys |-> IF k \in ks THEN Bump(rs[k], requests, amount) ELSE rs[k]]

DeleteAll(rs, ks) == [k \in Keys |-> IF k \in ks THEN Delete(rs[k]) ELSE rs[k]]

\* What a deletion or an insertion does to the history of a row.
Remembered(old, new) ==
    [k \in Keys |-> IF new[k].live /\ new[k].gen = old[k].gen THEN settled[k] ELSE 0]

(***************************************************************************)
(* The parts of a reservation                                              *)
(***************************************************************************)

\* reserveRate: the charge of the two burst limits, and whether they refuse it.
RateCharged(rs, a, amount, t) ==
    LET rpm == IF RpmLimit > 0 THEN {Key(a, "rpm", t, 0)} ELSE {}
        tpm == IF TpmLimit > 0 THEN {Key(a, "tpm", t, 0)} ELSE {}
    IN BumpAll(BumpAll(rs, rpm, 1, 0), tpm, 0, amount)

RateRefuses(rs, a, amount, t) ==
    LET charged == RateCharged(rs, a, amount, t)
    IN \/ RpmLimit > 0 /\ charged[Key(a, "rpm", t, 0)].requests > RpmLimit
       \/ TpmLimit > 0 /\ charged[Key(a, "tpm", t, 0)].amount > TpmLimit

\* A mutated form of OverLimit: one unit past the limit is let through.
OverLimitByOne(w, r) ==
    \/ RequestLimit[w] > 0 /\ r.requests > RequestLimit[w]
    \/ AmountLimit[w] > 0 /\ r.amount > AmountLimit[w] + 1

\* windowRefusal
OverLimit(w, r) ==
    \/ RequestLimit[w] > 0 /\ r.requests > RequestLimit[w]
    \/ AmountLimit[w] > 0 /\ r.amount > AmountLimit[w]

\* reserveAllowance: every window is charged, in order; a walk that is refused
\* takes back what it charged, the refused window included.
ReserveAllowance(rs, a, anchor, amount, t) ==
    LET charged == BumpAll(rs, KeysAt(a, AllowanceKinds, t, anchor), 1, amount)
        over == {i \in Indices : OverLimit(Allowance[i], charged[Key(a, Allowance[i], t, anchor)])}
    IN IF over = {}
       THEN [rows |-> charged, refused |-> 0]
       ELSE LET first == CHOOSE i \in over : \A j \in over : i <= j
                walked == KeysAt(a, {Allowance[i] : i \in 1 .. first}, t, anchor)
            IN [rows |-> BumpAll(BumpAll(rs, walked, 1, amount), walked, -1, -amount),
                refused |-> first]

\* clearAllowance: touch the current bucket of every allowance window, then
\* delete those the card names.
ClearAllowance(rs, a, anchor, t, ws) ==
    DeleteAll(BumpAll(rs, KeysAt(a, AllowanceKinds, t, anchor), 0, 0), KeysAt(a, ws, t, anchor))

\* captureGenerations; 0 is a window that is not captured.
CaptureGenerations(rs, a, t, anchor, minute, allowance) ==
    [w \in TokenWindows |->
        IF (w = "tpm" /\ minute) \/ (w # "tpm" /\ allowance)
        THEN rs[Key(a, w, t, anchor)].gen ELSE 0]

TokenRateOn == TpmLimit > 0

Reservation == [at : Times, charged : Costs, covered : Costs, anchor : Times,
                gens : [TokenWindows -> Nat]]

NoReservation == [at |-> 0, charged |-> 0, covered |-> 0, anchor |-> 0,
                  gens |-> [w \in TokenWindows |-> 0]]

\* The transaction commits with rows rs: charged went to the allowance windows,
\* when windows is TRUE, and the rest of the estimate to the bars.
Hold(t, rs, anchor, charged, windows) ==
    LET a == Owner[t]
    IN /\ rows' = rs
       /\ settled' = Remembered(rows, rs)
       /\ res' = [res EXCEPT ![t] = [
              at |-> @.at,
              charged |-> charged,
              covered |-> IF TokenRateOn THEN want[t] - charged ELSE 0,
              anchor |-> anchor,
              gens |-> CaptureGenerations(rs, a, @.at, anchor, TokenRateOn, windows)]]
       /\ pc' = [pc EXCEPT ![t] = "held"]

\* The transaction rolls back and the reservation goes on to stage next.
Refuse(t, next) ==
    /\ pc' = [pc EXCEPT ![t] = next]
    /\ UNCHANGED <<rows, settled, res, cards>>

(***************************************************************************)
(* Init                                                                    *)
(***************************************************************************)

NotResetting == -1
Idle == [pc |-> "none", at |-> 0, anchor |-> 0, cost |-> 0, carried |-> 0]
Finished == [Idle EXCEPT !.pc = "done"]

Init ==
    /\ now = 0
    /\ resetAt = 0
    /\ admin = NotResetting
    /\ resets = 0
    /\ rows = [k \in Keys |-> NoRow]
    /\ cards = Cards
    /\ pc = [t \in Turns |-> "new"]
    /\ want = [t \in Turns |-> 0]
    /\ res = [t \in Turns |-> NoReservation]
    /\ released = [t \in Turns |-> FALSE]
    /\ bill = [t \in Turns |-> Idle]
    /\ settled = [k \in Keys |-> 0]

(***************************************************************************)
(* A turn reserves                                                         *)
(***************************************************************************)

\* ReserveFor reads the clock once.  An unlimited policy reserves nothing; a
\* model a pool holds alone goes to the pool, any other through reserveOnce.
Ask(t, estimate, exclusive) ==
    /\ pc[t] = "new"
    /\ exclusive => estimate > 0
    /\ want' = [want EXCEPT ![t] = estimate]
    /\ res' = [res EXCEPT ![t].at = now]
    /\ pc' = [pc EXCEPT ![t] = IF t \in Exempt THEN "held"
                               ELSE IF exclusive THEN "exclusive" ELSE "priority"]
    /\ UNCHANGED <<now, resetAt, admin, resets, rows, cards, released, bill, settled>>

Covered(t, paid) == paid > 0 /\ paid = want[t]

\* uncovered: the bars' share of the estimate, at most the whole of it.
Payable(t, paid) == paid <= want[t]

\* reserveOnce without a card: the bars pay part of the estimate, or all of it.
ReserveOnce(t, paid) ==
    LET a == Owner[t]
        at == res[t].at
        anchor == AnchorFor(a)
        minute == RateCharged(rows, a, want[t], at)
        walk == ReserveAllowance(minute, a, anchor, want[t] - paid, at)
    IN /\ pc[t] = "priority"
       /\ Payable(t, paid)
       /\ IF RateRefuses(rows, a, want[t], at) THEN Refuse(t, "refused")
          ELSE IF Covered(t, paid)
               THEN Hold(t, minute, anchor, 0, FALSE) /\ UNCHANGED cards
          ELSE IF walk.refused = 0
               THEN Hold(t, walk.rows, anchor, want[t] - paid, TRUE) /\ UNCHANGED cards
          ELSE Refuse(t, "fallback")
       /\ UNCHANGED <<now, resetAt, admin, resets, want, released, bill>>

\* reserveFromBonus: the bars or the pool pay the whole estimate, or nothing is
\* taken.  The minute decides before a bar that cannot pay does.
ReserveFromBonus(t, enough) ==
    LET a == Owner[t]
        at == res[t].at
    IN /\ pc[t] \in {"fallback", "exclusive"}
       /\ enough => want[t] > 0
       /\ IF want[t] > 0 /\ RateRefuses(rows, a, want[t], at) THEN Refuse(t, "refused")
          ELSE IF enough
               THEN /\ Hold(t, RateCharged(rows, a, want[t], at), 0, 0, FALSE)
                    /\ UNCHANGED cards
          ELSE \E next \in {"card", "refused"} :
                    /\ pc[t] = "exclusive" => next = "refused"
                    /\ Refuse(t, next)
       /\ UNCHANGED <<now, resetAt, admin, resets, want, released, bill>>

\* reserveOnce with the automatic reset: a refused walk spends a card that
\* covers the window which refused it, clears what the card names and walks
\* again, all in the one transaction.
ReserveWithCard(t, paid) ==
    LET a == Owner[t]
        at == res[t].at
        anchor == AnchorFor(a)
        charged == want[t] - paid
        minute == RateCharged(rows, a, want[t], at)
        walk == ReserveAllowance(minute, a, anchor, charged, at)
        usable == {c \in cards : Holder[c] = a /\ Allowance[walk.refused] \in Covers[c]}
        retry(c) == ReserveAllowance(ClearAllowance(walk.rows, a, anchor, at, Covers[c]),
                                     a, anchor, charged, at)
    IN /\ pc[t] = "card"
       /\ Payable(t, paid)
       /\ IF RateRefuses(rows, a, want[t], at) THEN Refuse(t, "refused")
          ELSE IF Covered(t, paid)
               THEN Hold(t, minute, anchor, 0, FALSE) /\ UNCHANGED cards
          ELSE IF walk.refused = 0
               THEN Hold(t, walk.rows, anchor, charged, TRUE) /\ UNCHANGED cards
          ELSE IF usable = {} THEN Refuse(t, "refused")
          ELSE \E c \in usable :
                  IF retry(c).refused = 0
                  THEN /\ Hold(t, retry(c).rows, anchor, charged, TRUE)
                       /\ cards' = cards \ {c}
                  ELSE Refuse(t, "refused")
       /\ UNCHANGED <<now, resetAt, admin, resets, want, released, bill>>

(***************************************************************************)
(* A turn ends                                                             *)
(***************************************************************************)

Funded(t) == res[t].charged < want[t] /\ t \notin Exempt

\* SettleTurn reads the clock, and then the reset epoch, before its transaction.
\* carried is what the bars leave to the windows.
SettleClock(t, cost, carried) ==
    /\ pc[t] = "held"
    /\ bill[t].pc = "none"
    /\ carried <= cost
    /\ ~ Funded(t) => carried = cost
    /\ bill' = [bill EXCEPT ![t] = [pc |-> "clock", at |-> now, anchor |-> 0,
                                    cost |-> cost, carried |-> carried]]
    /\ UNCHANGED <<now, resetAt, admin, resets, rows, cards, pc, want, res, released, settled>>

SettleAnchor(t) ==
    /\ bill[t].pc = "clock"
    /\ bill' = [bill EXCEPT ![t].pc = "anchor", ![t].anchor = AnchorFor(Owner[t])]
    /\ UNCHANGED <<now, resetAt, admin, resets, rows, cards, pc, want, res, released, settled>>

\* settleCounters: the bars' share goes to the minute alone, the rest to the
\* minute and to every allowance window, enforced or not.
SettledTo(t) == KeysAt(Owner[t], TokenWindows, bill[t].at, bill[t].anchor)

SettlesWith(t, k) == IF k[2] = "tpm" THEN bill[t].cost ELSE bill[t].carried

SettleCommit(t) ==
    LET b == bill[t]
        touched == IF b.cost > 0 THEN SettledTo(t) ELSE {}
        new == [k \in Keys |-> IF k \in touched THEN Bump(rows[k], 0, SettlesWith(t, k))
                               ELSE rows[k]]
    IN /\ b.pc = "anchor"
       /\ rows' = new
       /\ settled' = [k \in Keys |-> Remembered(rows, new)[k]
                                     + IF k \in touched THEN SettlesWith(t, k) ELSE 0]
       /\ bill' = [bill EXCEPT ![t] = Finished]
       /\ UNCHANGED <<now, resetAt, admin, resets, cards, pc, want, res, released>>

\* The transaction fails; recordTurn logs it and the turn is not charged.
SettleFail(t) ==
    /\ bill[t].pc \in {"clock", "anchor"}
    /\ bill' = [bill EXCEPT ![t] = Finished]
    /\ UNCHANGED <<now, resetAt, admin, resets, rows, cards, pc, want, res, released, settled>>

\* A mutated form of Releasable: the guard is not looked at.
ReleasableAgain(t) == pc[t] = "held"

\* What a reservation put on a row of kind w.
Share(t, w) == IF w = "tpm" THEN res[t].charged + res[t].covered ELSE res[t].charged

\* releaseGuard: a reservation is given back once.
Releasable(t) == pc[t] = "held" /\ ~ released[t]

\* Release gives back each row that was charged, in the bucket it was charged in,
\* once.  The guard's lock is held over the transaction; one that fails leaves
\* the guard open and changes nothing.
Release(t) ==
    LET r == res[t]
        taken == KeysAt(Owner[t], TokenWindows, r.at, r.anchor)
    IN /\ Releasable(t)
       /\ rows' = [k \in Keys |-> IF k \in taken /\ r.gens[k[2]] # 0
                                  THEN RefundCounter(rows[k], r.gens[k[2]], Share(t, k[2]))
                                  ELSE rows[k]]
       /\ released' = [released EXCEPT ![t] = TRUE]
       /\ UNCHANGED <<now, resetAt, admin, resets, cards, pc, want, res, bill, settled>>

(***************************************************************************)
(* Resets, cards and the prune                                             *)
(***************************************************************************)

DeleteRows(ks) ==
    LET new == DeleteAll(rows, ks)
    IN /\ rows' = new
       /\ settled' = Remembered(rows, new)

\* ResetAll reads the clock before its transaction.
ResetAllClock ==
    /\ admin = NotResetting
    /\ resets < MaxResets
    /\ admin' = now
    /\ resets' = resets + 1
    /\ UNCHANGED <<now, resetAt, rows, cards, pc, want, res, released, bill, settled>>

ResetAll ==
    /\ admin # NotResetting
    /\ resetAt' = admin
    /\ admin' = NotResetting
    /\ DeleteRows(Keys)
    /\ UNCHANGED <<now, resets, cards, pc, want, res, released, bill>>

\* ResetGroup, Reset and ResetWindows: the named kinds of the named accounts, in
\* every bucket.
ResetWindows(as, kinds) ==
    /\ resets < MaxResets
    /\ resets' = resets + 1
    /\ DeleteRows(as \X kinds \X Times)
    /\ UNCHANGED <<now, resetAt, admin, cards, pc, want, res, released, bill>>

\* A mutated form of UseCard: the clear does not stand with the spend.
UseCardUncleared(c) ==
    /\ c \in cards
    /\ cards' = cards \ {c}
    /\ UNCHANGED <<now, resetAt, admin, resets, rows, pc, want, res, released, bill, settled>>

\* A card its holder uses: spent and its windows cleared in one transaction.
UseCard(c) ==
    /\ c \in cards
    /\ cards' = cards \ {c}
    /\ DeleteRows({Holder[c]} \X Covers[c] \X Times)
    /\ UNCHANGED <<now, resetAt, admin, resets, pc, want, res, released, bill>>

\* PruneCounters: a row that rolled over longer ago than its kind is kept.
Prune(k) ==
    /\ rows[k].live
    /\ k[3] < now - Keep[k[2]]
    /\ DeleteRows({k})
    /\ UNCHANGED <<now, resetAt, admin, resets, cards, pc, want, res, released, bill>>

Tick ==
    /\ now < MaxTime
    /\ now' = now + 1
    /\ UNCHANGED <<resetAt, admin, resets, rows, cards, pc, want, res, released, bill, settled>>

Next ==
    \/ Tick
    \/ ResetAllClock
    \/ ResetAll
    \/ \E as \in SUBSET Accounts, kinds \in ResetKinds : ResetWindows(as, kinds)
    \/ \E c \in Cards : UseCard(c)
    \/ \E k \in Keys : Prune(k)
    \/ \E t \in Turns :
         \/ \E estimate \in Estimates, exclusive \in BOOLEAN : Ask(t, estimate, exclusive)
         \/ \E paid \in Costs : ReserveOnce(t, paid)
         \/ \E enough \in BOOLEAN : ReserveFromBonus(t, enough)
         \/ \E paid \in Costs : ReserveWithCard(t, paid)
         \/ \E cost \in Bills, carried \in Costs : SettleClock(t, cost, carried)
         \/ SettleAnchor(t)
         \/ SettleCommit(t)
         \/ SettleFail(t)
         \/ Release(t)

Spec == Init /\ [][Next]_vars

(***************************************************************************)
(* Properties                                                              *)
(***************************************************************************)

Stages == {"new", "priority", "fallback", "exclusive", "card", "held", "refused"}

\* Every variable has the shape of the record it stands for.
TypeOK ==
    /\ now \in Times
    /\ resetAt \in Times
    /\ admin \in Times \union {NotResetting}
    /\ resets \in 0 .. MaxResets
    /\ rows \in [Keys -> Row]
    /\ cards \subseteq Cards
    /\ pc \in [Turns -> Stages]
    /\ want \in [Turns -> Costs]
    /\ res \in [Turns -> Reservation]
    /\ released \in [Turns -> BOOLEAN]
    /\ bill \in [Turns -> [pc : {"none", "clock", "anchor", "done"},
                           at : Times, anchor : Times, cost : Costs, carried : Costs]]
    /\ settled \in [Keys -> Nat]

\* Turn t's reservation was charged to the row k is now, and not to an earlier
\* row with the same key.
Bound(t, k) ==
    /\ pc[t] = "held"
    /\ k[2] \in TokenWindows
    /\ k = Key(Owner[t], k[2], res[t].at, res[t].anchor)
    /\ rows[k].live
    /\ res[t].gens[k[2]] = rows[k].gen

\* The units of estimate that unreleased reservations hold against a row.
Held(k) == {u \in Turns \X (1 .. MaxCost) :
               /\ Bound(u[1], k)
               /\ ~ released[u[1]]
               /\ u[2] <= Share(u[1], k[2])}

\* A counter is exactly what finished turns cost plus what running turns have
\* reserved, whatever order reservations, settlements, releases, resets, cards
\* and prunes came in: no release is lost in the floor at zero, given back twice
\* or taken out of a row that was never charged (bump, SettleTurn, Release).
CountersExact ==
    \A k \in Keys : rows[k].live /\ k[2] \in TokenWindows =>
        rows[k].amount = settled[k] + Cardinality(Held(k))

\* An allowance window counts each admitted request once: a card's retry does
\* not count it again, and settling and releasing do not count it at all.
RequestsExact ==
    \A k \in Keys : rows[k].live /\ k[2] \in AllowanceKinds =>
        rows[k].requests = Cardinality({t \in Turns : Bound(t, k)})

LimitOf(w) == IF w = "tpm" THEN TpmLimit ELSE AmountLimit[w]

\* Turns running at once never hold more of an enforced window than its limit:
\* the allowance is not overdrawn by starting many turns together, and neither
\* is the minute, whoever pays for them (ReserveFor).
RunningWithinLimit ==
    \A k \in Keys : rows[k].live /\ k[2] \in TokenWindows /\ LimitOf(k[2]) > 0 =>
        Cardinality(Held(k)) <= LimitOf(k[2])

\* A card is spent only by its holder's own use or by the reservation it let
\* through, and then the windows it names hold that reservation and nothing
\* else: a retry that is refused does not consume it (reserveOnce).
CardBuysAdmission ==
    [][\A c \in cards \ cards' :
         \/ \A k \in Keys : k[1] = Holder[c] /\ k[2] \in Covers[c] => ~ rows'[k].live
         \/ \E t \in Turns :
              /\ pc[t] = "card" /\ pc'[t] = "held"
              /\ Owner[t] = Holder[c]
              /\ \A w \in Covers[c] :
                   LET k == Key(Owner[t], w, res'[t].at, res'[t].anchor)
                   IN rows'[k].requests = 1 /\ rows'[k].amount = res'[t].charged]_vars

\* What a turn was charged does not depend on a release after a reset: giving a
\* reservation back changes no row made since the reservation was.
ReleaseSparesNewRows ==
    [][\A t \in Turns : released'[t] /\ ~ released[t] =>
         \A k \in Keys : rows'[k] # rows[k] => Bound(t, k)]_vars

\* settle.go says of a global reset that overlaps a settlement: "the charge stays
\* in the older bucket and the reset's new epoch ignores it".
ResetIgnoresOverlappingSettlement ==
    [][\A t \in Turns : bill[t].pc = "anchor" /\ bill'[t].pc = "done" /\ bill[t].at < resetAt =>
         \A w \in AllowanceKinds :
             LET k == Key(Owner[t], w, now, AnchorFor(Owner[t]))
             IN rows'[k] = rows[k]]_vars

\* The counters are well formed and tell the truth about amounts and requests.
RowsExact == TypeOK /\ CountersExact /\ RequestsExact
=============================================================================
