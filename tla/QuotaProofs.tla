---------------------------- MODULE QuotaProofs ----------------------------
(***************************************************************************)
(* Theorems about Quota, for every value of its constants.                 *)
(***************************************************************************)
EXTENDS Quota, FiniteSetTheorems, WellFoundedInduction, TLAPS

(***************************************************************************)
(* The helpers keep their types                                            *)
(***************************************************************************)

\* A remainder is at most what is divided (bucketStart never leaves 0 .. now).
LEMMA RemainderBound ==
    ASSUME NEW n \in Nat, NEW d \in Nat \ {0}
    PROVE  n % d \in 0 .. n
  <1>1. n % d \in 0 .. d - 1  OBVIOUS
  <1>2. n = d * (n \div d) + (n % d)  OBVIOUS
  <1>3. n \div d \in Nat  OBVIOUS
  <1>4. d * (n \div d) \in Nat  BY <1>3
  <1> QED  BY <1>1, <1>2, <1>4

\* The constants as the proofs below use them.
LEMMA ConstantTypes ==
    /\ Minute \in Nat \ {0} /\ MaxTime \in Nat /\ MaxCost \in Nat /\ MaxResets \in Nat
    /\ Times \subseteq Nat /\ 0 \in Times
    /\ Costs \subseteq Nat /\ 0 \in Costs
    /\ \A w \in CounterKinds : w \in {"rpm", "tpm"} \/ Length[w] \in Nat \ {0}
    /\ \A t \in Turns : Owner[t] \in Accounts
    /\ \A a \in Accounts : Created[a] \in Times
  BY ConstantsAssumption DEF ConstantsAssumption, Times, Costs, CounterKinds, TokenWindows

\* A bucket starts within the times of the model.
LEMMA BucketStartType ==
    ASSUME NEW w \in CounterKinds, NEW t \in Times, NEW anchor \in Times
    PROVE  BucketStart(w, t, anchor) \in Times
  <1>0. t \in Nat /\ anchor \in Nat /\ t <= MaxTime /\ MaxTime \in Nat
    BY ConstantTypes DEF Times
  <1>1. CASE w \in {"rpm", "tpm"}
    <2>1. t % Minute \in 0 .. t
      BY <1>0, RemainderBound, ConstantTypes
    <2> QED  BY <1>0, <1>1, <2>1 DEF BucketStart, Times
  <1>2. CASE w \notin {"rpm", "tpm"} /\ t <= anchor
    BY <1>2 DEF BucketStart
  <1>3. CASE w \notin {"rpm", "tpm"} /\ ~ (t <= anchor)
    <2>1. Length[w] \in Nat \ {0}  BY <1>3, ConstantTypes
    <2>2. t - anchor \in Nat  BY <1>0, <1>3
    <2>3. (t - anchor) % Length[w] \in 0 .. (t - anchor)
      BY <2>1, <2>2, RemainderBound
    <2>4. t - ((t - anchor) % Length[w]) \in Times
      BY <1>0, <2>2, <2>3 DEF Times
    <2> QED  BY <1>3, <2>4 DEF BucketStart
  <1> QED  BY <1>1, <1>2, <1>3

LEMMA KeyType ==
    ASSUME NEW a \in Accounts, NEW w \in CounterKinds, NEW t \in Times, NEW anchor \in Times
    PROVE  Key(a, w, t, anchor) \in Keys
  BY BucketStartType DEF Key, Keys

LEMMA BumpType ==
    ASSUME NEW r \in Row, NEW requests \in Int, NEW amount \in Int
    PROVE  Bump(r, requests, amount) \in Row
  <1>1. r.requests \in Int /\ r.amount \in Nat /\ r.gen \in Nat  BY DEF Row
  <1>2. \A n \in Int : Floor0(n) \in Nat  BY DEF Floor0
  <1>3. CASE r.live
    <2>1. Bump(r, requests, amount) =
            [live |-> r.live, gen |-> r.gen, requests |-> r.requests + requests,
             amount |-> Floor0(r.amount + amount)]
      BY <1>3 DEF Bump, Row
    <2>2. r.requests + requests \in Int /\ Floor0(r.amount + amount) \in Nat
      BY <1>1, <1>2
    <2> QED  BY <2>1, <2>2 DEF Row
  <1>4. CASE ~ r.live
    BY <1>1, <1>2, <1>4 DEF Bump, Row
  <1> QED  BY <1>3, <1>4

LEMMA DeleteType ==
    ASSUME NEW r \in Row
    PROVE  Delete(r) \in Row
  BY DEF Delete, Row

LEMMA RefundCounterType ==
    ASSUME NEW r \in Row, NEW gen \in Nat, NEW amount \in Nat
    PROVE  RefundCounter(r, gen, amount) \in Row
  BY DEF RefundCounter, Row, Floor0

LEMMA BumpAllType ==
    ASSUME NEW rs \in [Keys -> Row], NEW ks, NEW requests \in Int, NEW amount \in Int
    PROVE  BumpAll(rs, ks, requests, amount) \in [Keys -> Row]
  BY BumpType DEF BumpAll

LEMMA DeleteAllType ==
    ASSUME NEW rs \in [Keys -> Row], NEW ks
    PROVE  DeleteAll(rs, ks) \in [Keys -> Row]
  BY DeleteType DEF DeleteAll

LEMMA RateChargedType ==
    ASSUME NEW rs \in [Keys -> Row], NEW a, NEW amount \in Int, NEW t
    PROVE  RateCharged(rs, a, amount, t) \in [Keys -> Row]
  <1> DEFINE rpm == IF RpmLimit > 0 THEN {Key(a, "rpm", t, 0)} ELSE {}
             tpm == IF TpmLimit > 0 THEN {Key(a, "tpm", t, 0)} ELSE {}
  <1>1. BumpAll(rs, rpm, 1, 0) \in [Keys -> Row]  BY BumpAllType
  <1>2. BumpAll(BumpAll(rs, rpm, 1, 0), tpm, 0, amount) \in [Keys -> Row]
    BY <1>1, BumpAllType
  <1> QED  BY <1>2 DEF RateCharged

LEMMA ReserveAllowanceType ==
    ASSUME NEW rs \in [Keys -> Row], NEW a, NEW anchor, NEW amount \in Int, NEW t
    PROVE  ReserveAllowance(rs, a, anchor, amount, t).rows \in [Keys -> Row]
  <1> DEFINE charged == BumpAll(rs, KeysAt(a, AllowanceKinds, t, anchor), 1, amount)
             over == {i \in Indices : OverLimit(Allowance[i], charged[Key(a, Allowance[i], t, anchor)])}
             first == CHOOSE i \in over : \A j \in over : i <= j
             walked == KeysAt(a, {Allowance[i] : i \in 1 .. first}, t, anchor)
  <1>1. charged \in [Keys -> Row]  BY BumpAllType
  <1>2. BumpAll(rs, walked, 1, amount) \in [Keys -> Row]  BY BumpAllType
  <1>3. BumpAll(BumpAll(rs, walked, 1, amount), walked, -1, -amount) \in [Keys -> Row]
    BY <1>2, BumpAllType
  <1> HIDE DEF charged, over, first, walked
  <1>4. ReserveAllowance(rs, a, anchor, amount, t) =
          IF over = {} THEN [rows |-> charged, refused |-> 0]
          ELSE [rows |-> BumpAll(BumpAll(rs, walked, 1, amount), walked, -1, -amount),
                refused |-> first]
    BY Zenon DEF ReserveAllowance, charged, over, first, walked
  <1> QED  BY <1>1, <1>3, <1>4

LEMMA ClearAllowanceType ==
    ASSUME NEW rs \in [Keys -> Row], NEW a, NEW anchor, NEW t, NEW ws
    PROVE  ClearAllowance(rs, a, anchor, t, ws) \in [Keys -> Row]
  <1>1. BumpAll(rs, KeysAt(a, AllowanceKinds, t, anchor), 0, 0) \in [Keys -> Row]
    BY BumpAllType
  <1> QED  BY <1>1, DeleteAllType DEF ClearAllowance

LEMMA CaptureGenerationsType ==
    ASSUME NEW rs \in [Keys -> Row], NEW a \in Accounts, NEW t \in Times, NEW anchor \in Times,
           NEW minute \in BOOLEAN, NEW allowance \in BOOLEAN
    PROVE  CaptureGenerations(rs, a, t, anchor, minute, allowance) \in [TokenWindows -> Nat]
  <1>1. ASSUME NEW w \in TokenWindows
        PROVE  rs[Key(a, w, t, anchor)].gen \in Nat
    <2>1. Key(a, w, t, anchor) \in Keys  BY KeyType DEF CounterKinds
    <2> QED  BY <2>1 DEF Row
  <1> QED  BY <1>1 DEF CaptureGenerations

LEMMA RememberedType ==
    ASSUME settled \in [Keys -> Nat], NEW old, NEW new
    PROVE  Remembered(old, new) \in [Keys -> Nat]
  BY DEF Remembered

LEMMA AnchorForType ==
    ASSUME TypeOK, NEW a \in Accounts
    PROVE  AnchorFor(a) \in Times
  BY ConstantTypes DEF AnchorFor, TypeOK

(***************************************************************************)
(* The committed and the refused transaction                               *)
(***************************************************************************)

LEMMA HoldType ==
    ASSUME TypeOK, NEW t \in Turns, NEW rs \in [Keys -> Row], NEW anchor \in Times,
           NEW charged \in 0 .. want[t], NEW windows \in BOOLEAN,
           Hold(t, rs, anchor, charged, windows)
    PROVE  /\ rows' \in [Keys -> Row]
           /\ settled' \in [Keys -> Nat]
           /\ res' \in [Turns -> Reservation]
           /\ pc' \in [Turns -> Stages]
  <1>1. rows' \in [Keys -> Row]  BY DEF Hold
  <1>2. settled' \in [Keys -> Nat]  BY RememberedType DEF Hold, TypeOK
  <1>3. pc' \in [Turns -> Stages]  BY DEF Hold, TypeOK, Stages
  <1>4. res' \in [Turns -> Reservation]
    <2> DEFINE gens == CaptureGenerations(rs, Owner[t], res[t].at, anchor, TokenRateOn, windows)
               covered == IF TokenRateOn THEN want[t] - charged ELSE 0
               new == [at |-> res[t].at, charged |-> charged, covered |-> covered,
                       anchor |-> anchor, gens |-> gens]
    <2>1. res[t].at \in Times  BY DEF TypeOK, Reservation
    <2>2. charged \in Costs /\ covered \in Costs
      BY ConstantTypes DEF TypeOK, Costs
    <2>3. gens \in [TokenWindows -> Nat]
      <3>1. TokenRateOn \in BOOLEAN  BY DEF TokenRateOn
      <3> QED  BY <2>1, <3>1, ConstantTypes, CaptureGenerationsType
    <2>4. res' = [res EXCEPT ![t] = new]  BY DEF Hold
    <2> HIDE DEF gens, covered
    <2>5. new \in Reservation  BY <2>1, <2>2, <2>3 DEF Reservation
    <2> QED  BY <2>4, <2>5 DEF TypeOK
  <1> QED  BY <1>1, <1>2, <1>3, <1>4

LEMMA RefuseType ==
    ASSUME TypeOK, NEW t \in Turns, NEW next \in Stages, Refuse(t, next)
    PROVE  /\ rows' \in [Keys -> Row]
           /\ settled' \in [Keys -> Nat]
           /\ res' \in [Turns -> Reservation]
           /\ pc' \in [Turns -> Stages]
           /\ cards' \subseteq Cards
  BY DEF TypeOK, Refuse

LEMMA DeleteRowsType ==
    ASSUME TypeOK, NEW ks, DeleteRows(ks)
    PROVE  rows' \in [Keys -> Row] /\ settled' \in [Keys -> Nat]
  BY DeleteAllType, RememberedType DEF DeleteRows, TypeOK

(***************************************************************************)
(* Every step keeps the types                                              *)
(***************************************************************************)

LEMMA InitType == ASSUME Init PROVE TypeOK
  BY ConstantTypes DEF Init, TypeOK, NoRow, Row, Reservation, NoReservation, Idle, Stages

LEMMA AskType ==
    ASSUME TypeOK, NEW t \in Turns, NEW estimate \in Estimates, NEW exclusive \in BOOLEAN,
           Ask(t, estimate, exclusive)
    PROVE  TypeOK'
  <1>1. estimate \in Costs  BY ConstantsAssumption DEF ConstantsAssumption
  <1>2. want' \in [Turns -> Costs]  BY <1>1 DEF Ask, TypeOK
  <1>3. res' \in [Turns -> Reservation]
    <2>0. res[t] \in Reservation /\ now \in Times  BY DEF TypeOK
    <2>1. [res[t] EXCEPT !.at = now] =
            [at |-> now, charged |-> res[t].charged, covered |-> res[t].covered,
             anchor |-> res[t].anchor, gens |-> res[t].gens]
      BY <2>0 DEF Reservation
    <2>2. [res[t] EXCEPT !.at = now] \in Reservation  BY <2>0, <2>1 DEF Reservation
    <2> QED  BY <2>2 DEF Ask, TypeOK
  <1>4. pc' \in [Turns -> Stages]  BY DEF Ask, TypeOK, Stages
  <1> QED  BY <1>2, <1>3, <1>4 DEF Ask, TypeOK

\* What the two kinds of reserveOnce leave of the variables they do not change.
LEMMA SameRest ==
    ASSUME TypeOK, UNCHANGED <<now, resetAt, admin, resets, want, released, bill>>,
           rows' \in [Keys -> Row], settled' \in [Keys -> Nat],
           res' \in [Turns -> Reservation], pc' \in [Turns -> Stages], cards' \subseteq Cards
    PROVE  TypeOK'
  BY DEF TypeOK

LEMMA ReserveOnceType ==
    ASSUME TypeOK, NEW t \in Turns, NEW paid \in Costs, ReserveOnce(t, paid)
    PROVE  TypeOK'
  <1> DEFINE a == Owner[t]
             anchor == AnchorFor(a)
             minute == RateCharged(rows, a, want[t], res[t].at)
             walk == ReserveAllowance(minute, a, anchor, want[t] - paid, res[t].at)
  <1>1. paid \in Int /\ want[t] \in Int /\ want[t] - paid \in 0 .. want[t] /\ 0 \in 0 .. want[t]
    BY ConstantTypes DEF TypeOK, ReserveOnce, Payable
  <1>2. anchor \in Times  BY AnchorForType, ConstantTypes
  <1>3. minute \in [Keys -> Row]  BY <1>1, RateChargedType DEF TypeOK
  <1>4. walk.rows \in [Keys -> Row]  BY <1>1, <1>3, ReserveAllowanceType
  <1>5. \/ Refuse(t, "refused") \/ Refuse(t, "fallback")
        \/ Hold(t, minute, anchor, 0, FALSE) /\ UNCHANGED cards
        \/ Hold(t, walk.rows, anchor, want[t] - paid, TRUE) /\ UNCHANGED cards
    BY Zenon DEF ReserveOnce
  <1> HIDE DEF anchor, minute, walk
  <1>6. CASE Refuse(t, "refused") \/ Refuse(t, "fallback")
    <2>1. "refused" \in Stages /\ "fallback" \in Stages  BY DEF Stages
    <2> QED  BY <1>6, <2>1, RefuseType, SameRest DEF ReserveOnce
  <1>7. CASE Hold(t, minute, anchor, 0, FALSE) /\ UNCHANGED cards
    <2>1. cards' \subseteq Cards  BY <1>7 DEF TypeOK
    <2> QED  BY <1>1, <1>2, <1>3, <1>7, <2>1, HoldType, SameRest DEF ReserveOnce
  <1>8. CASE Hold(t, walk.rows, anchor, want[t] - paid, TRUE) /\ UNCHANGED cards
    <2>1. cards' \subseteq Cards  BY <1>8 DEF TypeOK
    <2> QED  BY <1>1, <1>2, <1>4, <1>8, <2>1, HoldType, SameRest DEF ReserveOnce
  <1> QED  BY <1>5, <1>6, <1>7, <1>8

LEMMA ReserveFromBonusType ==
    ASSUME TypeOK, NEW t \in Turns, NEW enough \in BOOLEAN, ReserveFromBonus(t, enough)
    PROVE  TypeOK'
  <1> DEFINE minute == RateCharged(rows, Owner[t], want[t], res[t].at)
  <1>1. want[t] \in Int /\ 0 \in 0 .. want[t]  BY ConstantTypes DEF TypeOK, Costs
  <1>2. minute \in [Keys -> Row]  BY <1>1, RateChargedType DEF TypeOK
  <1>3. \/ \E next \in {"refused", "card"} : Refuse(t, next)
        \/ Hold(t, minute, 0, 0, FALSE) /\ UNCHANGED cards
    BY Zenon DEF ReserveFromBonus
  <1> HIDE DEF minute
  <1>4. ASSUME NEW next \in {"refused", "card"}, Refuse(t, next)
        PROVE  TypeOK'
    <2>1. next \in Stages  BY DEF Stages
    <2> QED  BY <1>4, <2>1, RefuseType, SameRest DEF ReserveFromBonus
  <1>5. CASE Hold(t, minute, 0, 0, FALSE) /\ UNCHANGED cards
    <2>1. cards' \subseteq Cards  BY <1>5 DEF TypeOK
    <2> QED  BY <1>1, <1>2, <1>5, <2>1, ConstantTypes, HoldType, SameRest DEF ReserveFromBonus
  <1> QED  BY <1>3, <1>4, <1>5

LEMMA ReserveWithCardType ==
    ASSUME TypeOK, NEW t \in Turns, NEW paid \in Costs, ReserveWithCard(t, paid)
    PROVE  TypeOK'
  <1> DEFINE a == Owner[t]
             at == res[t].at
             anchor == AnchorFor(a)
             charged == want[t] - paid
             minute == RateCharged(rows, a, want[t], at)
             walk == ReserveAllowance(minute, a, anchor, charged, at)
             retry(c) == ReserveAllowance(ClearAllowance(walk.rows, a, anchor, at, Covers[c]),
                                          a, anchor, charged, at)
  <1>1. want[t] \in Int /\ charged \in Int /\ charged \in 0 .. want[t] /\ 0 \in 0 .. want[t]
    <2>1. want[t] \in Costs  BY DEF TypeOK
    <2>2. want[t] \in Nat /\ paid \in Nat  BY <2>1, ConstantTypes
    <2>3. paid <= want[t]
      <3>1. Payable(t, paid)  BY DEF ReserveWithCard
      <3> QED  BY <3>1 DEF Payable
    <2> QED  BY <2>2, <2>3
  <1>2. anchor \in Times  BY AnchorForType, ConstantTypes
  <1>3. minute \in [Keys -> Row]  BY <1>1, RateChargedType DEF TypeOK
  <1>4. walk.rows \in [Keys -> Row]  BY <1>1, <1>3, ReserveAllowanceType
  <1>5. \A c \in cards : retry(c).rows \in [Keys -> Row]
    BY <1>1, <1>4, ClearAllowanceType, ReserveAllowanceType
  <1>6. \/ Refuse(t, "refused")
        \/ Hold(t, minute, anchor, 0, FALSE) /\ UNCHANGED cards
        \/ Hold(t, walk.rows, anchor, charged, TRUE) /\ UNCHANGED cards
        \/ \E c \in cards : Hold(t, retry(c).rows, anchor, charged, TRUE) /\ cards' = cards \ {c}
    BY Zenon DEF ReserveWithCard
  <1> HIDE DEF anchor, charged, minute, walk, retry
  <1>7. CASE Refuse(t, "refused")
    <2>1. "refused" \in Stages  BY DEF Stages
    <2> QED  BY <1>7, <2>1, RefuseType, SameRest DEF ReserveWithCard
  <1>8. CASE Hold(t, minute, anchor, 0, FALSE) /\ UNCHANGED cards
    <2>1. cards' \subseteq Cards  BY <1>8 DEF TypeOK
    <2> QED  BY <1>1, <1>2, <1>3, <1>8, <2>1, HoldType, SameRest DEF ReserveWithCard
  <1>9. CASE Hold(t, walk.rows, anchor, charged, TRUE) /\ UNCHANGED cards
    <2>1. cards' \subseteq Cards  BY <1>9 DEF TypeOK
    <2> QED  BY <1>1, <1>2, <1>4, <1>9, <2>1, HoldType, SameRest DEF ReserveWithCard
  <1>10. ASSUME NEW c \in cards, Hold(t, retry(c).rows, anchor, charged, TRUE),
                cards' = cards \ {c}
         PROVE  TypeOK'
    <2>1. cards' \subseteq Cards  BY <1>10 DEF TypeOK
    <2>2. retry(c).rows \in [Keys -> Row]  BY <1>5
    <2> QED  BY <1>1, <1>2, <1>10, <2>1, <2>2, HoldType, SameRest DEF ReserveWithCard
  <1> QED  BY <1>6, <1>7, <1>8, <1>9, <1>10

LEMMA SettleType ==
    ASSUME TypeOK, NEW t \in Turns,
           \/ \E cost \in Bills, carried \in Costs : SettleClock(t, cost, carried)
           \/ SettleAnchor(t) \/ SettleCommit(t) \/ SettleFail(t)
    PROVE  TypeOK'
  <1> DEFINE Bill == [pc : {"none", "clock", "anchor", "done"},
                      at : Times, anchor : Times, cost : Costs, carried : Costs]
  <1>0. Finished \in Bill
    <2>1. Finished = [pc |-> "done", at |-> 0, anchor |-> 0, cost |-> 0, carried |-> 0]
      BY DEF Finished, Idle
    <2> QED  BY <2>1, ConstantTypes
  <1>1. ASSUME NEW cost \in Bills, NEW carried \in Costs, SettleClock(t, cost, carried)
        PROVE  TypeOK'
    <2>1. cost \in Costs  BY ConstantsAssumption DEF ConstantsAssumption
    <2>2. [pc |-> "clock", at |-> now, anchor |-> 0, cost |-> cost, carried |-> carried] \in Bill
      BY <2>1, ConstantTypes DEF TypeOK
    <2>3. bill' \in [Turns -> Bill]  BY <1>1, <2>2 DEF SettleClock, TypeOK
    <2> QED  BY <1>1, <2>3 DEF SettleClock, TypeOK
  <1>2. CASE SettleAnchor(t)
    <2>1. AnchorFor(Owner[t]) \in Times  BY AnchorForType, ConstantTypes
    <2>2. bill[t] \in Bill  BY DEF TypeOK
    <2>3. [pc |-> "anchor", at |-> bill[t].at, anchor |-> AnchorFor(Owner[t]),
           cost |-> bill[t].cost, carried |-> bill[t].carried] \in Bill
      BY <2>1, <2>2
    <2>4. bill' \in [Turns -> Bill]  BY <1>2, <2>3 DEF SettleAnchor, TypeOK
    <2> QED  BY <1>2, <2>4 DEF SettleAnchor, TypeOK
  <1>3. CASE SettleCommit(t)
    <2> DEFINE touched == IF bill[t].cost > 0 THEN SettledTo(t) ELSE {}
               new == [k \in Keys |-> IF k \in touched THEN Bump(rows[k], 0, SettlesWith(t, k))
                                      ELSE rows[k]]
    <2>1. \A k : SettlesWith(t, k) \in Nat
      BY ConstantTypes DEF SettlesWith, TypeOK
    <2>2. new \in [Keys -> Row]  BY <2>1, BumpType DEF TypeOK
    <2>3. rows' = new  BY <1>3 DEF SettleCommit
    <2>4. Remembered(rows, new) \in [Keys -> Nat]  BY RememberedType DEF TypeOK
    <2>5. settled' = [k \in Keys |-> Remembered(rows, new)[k]
                                     + IF k \in touched THEN SettlesWith(t, k) ELSE 0]
      BY <1>3 DEF SettleCommit
    <2> HIDE DEF new, touched
    <2>6. settled' \in [Keys -> Nat]  BY <2>1, <2>4, <2>5
    <2>7. bill' \in [Turns -> Bill]  BY <1>3, <1>0 DEF SettleCommit, TypeOK
    <2> QED  BY <1>3, <2>2, <2>3, <2>6, <2>7 DEF SettleCommit, TypeOK
  <1>4. CASE SettleFail(t)
    <2>1. bill' \in [Turns -> Bill]  BY <1>4, <1>0 DEF SettleFail, TypeOK
    <2> QED  BY <1>4, <2>1 DEF SettleFail, TypeOK
  <1> QED  BY <1>1, <1>2, <1>3, <1>4

LEMMA ReleaseType ==
    ASSUME TypeOK, NEW t \in Turns, Release(t)
    PROVE  TypeOK'
  <1> DEFINE r == res[t]
             taken == KeysAt(Owner[t], TokenWindows, r.at, r.anchor)
             new == [k \in Keys |-> IF k \in taken /\ r.gens[k[2]] # 0
                                    THEN RefundCounter(rows[k], r.gens[k[2]], Share(t, k[2]))
                                    ELSE rows[k]]
  <1>1. \A w : Share(t, w) \in Nat
    <2>1. res[t].charged \in Costs /\ res[t].covered \in Costs  BY DEF TypeOK, Reservation
    <2>2. res[t].charged \in Nat /\ res[t].covered \in Nat  BY <2>1, ConstantTypes
    <2> QED  BY <2>2 DEF Share
  <1>2. ASSUME NEW k \in Keys, k \in taken
        PROVE  r.gens[k[2]] \in Nat
    <2>1. k[2] \in TokenWindows  BY <1>2 DEF KeysAt, Key
    <2> QED  BY <2>1 DEF TypeOK, Reservation
  <1>3. ASSUME NEW k \in Keys
        PROVE  new[k] \in Row
    <2>1. rows[k] \in Row  BY DEF TypeOK
    <2>2. CASE k \in taken /\ r.gens[k[2]] # 0
      BY <1>1, <1>2, <2>1, <2>2, RefundCounterType
    <2> QED  BY <2>1, <2>2
  <1>4. rows' = new  BY DEF Release
  <1> HIDE DEF new, taken
  <1>5. rows' \in [Keys -> Row]
    <2>1. new = [k \in Keys |-> new[k]]  BY DEF new
    <2> QED  BY <1>3, <1>4, <2>1
  <1> QED  BY <1>5 DEF Release, TypeOK

LEMMA AdministrationType ==
    ASSUME TypeOK,
           \/ Tick \/ ResetAllClock \/ ResetAll
           \/ \E as \in SUBSET Accounts, kinds \in ResetKinds : ResetWindows(as, kinds)
           \/ \E c \in Cards : UseCard(c)
           \/ \E k \in Keys : Prune(k)
    PROVE  TypeOK'
  <1>1. CASE Tick  BY <1>1, ConstantTypes DEF Tick, TypeOK, Times
  <1>2. CASE ResetAllClock  BY <1>2, ConstantTypes DEF ResetAllClock, TypeOK
  <1>3. CASE ResetAll  BY <1>3, DeleteRowsType DEF ResetAll, TypeOK
  <1>4. ASSUME NEW as \in SUBSET Accounts, NEW kinds \in ResetKinds, ResetWindows(as, kinds)
        PROVE  TypeOK'
    BY <1>4, DeleteRowsType, ConstantTypes DEF ResetWindows, TypeOK
  <1>5. ASSUME NEW c \in Cards, UseCard(c)
        PROVE  TypeOK'
    BY <1>5, DeleteRowsType DEF UseCard, TypeOK
  <1>6. ASSUME NEW k \in Keys, Prune(k)
        PROVE  TypeOK'
    BY <1>6, DeleteRowsType DEF Prune, TypeOK
  <1> QED  BY <1>1, <1>2, <1>3, <1>4, <1>5, <1>6

LEMMA TypeStep == TypeOK /\ [Next]_vars => TypeOK'
  <1> SUFFICES ASSUME TypeOK, [Next]_vars PROVE TypeOK'  OBVIOUS
  <1>1. ASSUME NEW t \in Turns, NEW estimate \in Estimates, NEW exclusive \in BOOLEAN,
               Ask(t, estimate, exclusive)
        PROVE  TypeOK'
    BY <1>1, AskType
  <1>2. ASSUME NEW t \in Turns, NEW paid \in Costs, ReserveOnce(t, paid)
        PROVE  TypeOK'
    BY <1>2, ReserveOnceType
  <1>3. ASSUME NEW t \in Turns, NEW enough \in BOOLEAN, ReserveFromBonus(t, enough)
        PROVE  TypeOK'
    BY <1>3, ReserveFromBonusType
  <1>4. ASSUME NEW t \in Turns, NEW paid \in Costs, ReserveWithCard(t, paid)
        PROVE  TypeOK'
    BY <1>4, ReserveWithCardType
  <1>5. ASSUME NEW t \in Turns, NEW cost \in Bills, NEW carried \in Costs,
               SettleClock(t, cost, carried)
        PROVE  TypeOK'
    BY <1>5, SettleType
  <1>6. ASSUME NEW t \in Turns, SettleAnchor(t) \/ SettleCommit(t) \/ SettleFail(t)
        PROVE  TypeOK'
    BY <1>6, SettleType
  <1>7. ASSUME NEW t \in Turns, Release(t)
        PROVE  TypeOK'
    BY <1>7, ReleaseType
  <1>8. CASE UNCHANGED vars  BY <1>8 DEF vars, TypeOK
  <1> QED  BY <1>1, <1>2, <1>3, <1>4, <1>5, <1>6, <1>7, <1>8, AdministrationType DEF Next

\* Every variable keeps the shape of the record it stands for: in particular a
\* counter's amount never falls below zero and a reservation never carries more
\* than a turn may ask for (usage_counters, Reservation).
THEOREM TypeCorrect == Spec => []TypeOK
  BY InitType, TypeStep, PTL DEF Spec

(***************************************************************************)
(* What the helpers do to one row                                          *)
(***************************************************************************)

\* The row new is old with q requests and n units more, or a row made since with
\* those alone.
Grown(old, new, q, n) ==
    /\ new.live /\ new.gen > 0
    /\ \/ /\ old.live /\ new.gen = old.gen
          /\ new.requests = old.requests + q /\ new.amount = old.amount + n
       \/ /\ new.gen > old.gen
          /\ new.requests = q /\ new.amount = n

LEMMA RowFields ==
    ASSUME NEW r \in Row
    PROVE  r.live \in BOOLEAN /\ r.gen \in Nat /\ r.requests \in Int /\ r.amount \in Nat
  BY DEF Row

\* bump with natural numbers: the floor at zero is not met.
LEMMA BumpRow ==
    ASSUME NEW r \in Row, NEW q \in Nat, NEW n \in Nat
    PROVE  /\ Bump(r, q, n).live
           /\ r.live => /\ Bump(r, q, n).gen = r.gen
                        /\ Bump(r, q, n).requests = r.requests + q
                        /\ Bump(r, q, n).amount = r.amount + n
           /\ ~ r.live => /\ Bump(r, q, n).gen = r.gen + 1
                          /\ Bump(r, q, n).requests = q
                          /\ Bump(r, q, n).amount = n
  <1>0. Bump(r, q, n) \in Row  BY BumpType
  <1>1. CASE r.live
    <2>1. Bump(r, q, n) = [live |-> r.live, gen |-> r.gen, requests |-> r.requests + q,
                           amount |-> Floor0(r.amount + n)]
      BY <1>1 DEF Bump, Row
    <2>2. Floor0(r.amount + n) = r.amount + n  BY RowFields DEF Floor0
    <2> QED  BY <1>0, <1>1, <2>1, <2>2
  <1>2. CASE ~ r.live
    <2>1. Floor0(q) = q /\ Floor0(n) = n  BY DEF Floor0
    <2> QED  BY <1>0, <1>2, <2>1 DEF Bump
  <1> QED  BY <1>1, <1>2

\* What refused windows are given back to: the row it was, or a new and empty one.
LEMMA TakenBackRow ==
    ASSUME NEW r \in Row, r.live => r.gen > 0, NEW n \in Nat
    PROVE  /\ Bump(Bump(r, 1, n), -1, -n) \in Row
           /\ Grown(r, Bump(Bump(r, 1, n), -1, -n), 0, 0)
  <1> DEFINE b == Bump(r, 1, n)
  <1>1. /\ b \in Row /\ b.live
        /\ r.live => b.gen = r.gen /\ b.requests = r.requests + 1 /\ b.amount = r.amount + n
        /\ ~ r.live => b.gen = r.gen + 1 /\ b.requests = 1 /\ b.amount = n
    BY BumpRow, BumpType
  <1> HIDE DEF b
  <1>2. Bump(b, -1, -n) = [live |-> b.live, gen |-> b.gen, requests |-> b.requests + -1,
                           amount |-> Floor0(b.amount + -n)]
    BY <1>1 DEF Bump, Row
  <1>3. b.requests \in Int /\ b.amount \in Nat /\ b.gen \in Nat /\ r.gen \in Nat /\ r.requests \in Int /\ r.amount \in Nat
    BY <1>1, RowFields
  <1>4. Floor0(b.amount + -n) = b.amount - n
    BY <1>1, <1>3 DEF Floor0
  <1>5. Grown(r, Bump(b, -1, -n), 0, 0)
    BY <1>1, <1>2, <1>3, <1>4 DEF Grown
  <1>6. Bump(b, -1, -n) \in Row
    BY <1>1, BumpType
  <1> QED  BY <1>5, <1>6 DEF b

LEMMA GrownByBump ==
    ASSUME NEW r \in Row, r.live => r.gen > 0, NEW q \in Nat, NEW n \in Nat
    PROVE  Grown(r, Bump(r, q, n), q, n)
  <1>1. r.gen \in Nat /\ r.requests \in Int /\ r.amount \in Nat /\ r.live \in BOOLEAN
    BY RowFields
  <1> QED  BY <1>1, BumpRow DEF Grown

\* A row that was touched, or given back to, counts as the row it was.
LEMMA GrownAgain ==
    ASSUME NEW r \in Row, NEW x \in Row, Grown(r, x, 0, 0), NEW q \in Nat, NEW n \in Nat
    PROVE  Grown(r, Bump(x, q, n), q, n)
  <1>1. /\ r.gen \in Nat /\ r.requests \in Int /\ r.amount \in Nat /\ r.live \in BOOLEAN
        /\ x.gen \in Nat /\ x.requests \in Int /\ x.amount \in Nat /\ x.live
    BY RowFields DEF Grown
  <1> DEFINE b == Bump(x, q, n)
  <1>2. b.live /\ b.gen = x.gen /\ b.requests = x.requests + q /\ b.amount = x.amount + n
    BY <1>1, BumpRow
  <1> HIDE DEF b
  <1>3. Grown(r, b, q, n)
    BY <1>1, <1>2 DEF Grown
  <1> QED  BY <1>3 DEF b

\* A row that was cleared starts again.
LEMMA GrownAfresh ==
    ASSUME NEW r \in Row, NEW x \in Row, ~ x.live, x.gen >= r.gen, NEW q \in Nat, NEW n \in Nat
    PROVE  Grown(r, Bump(x, q, n), q, n) /\ Bump(x, q, n).requests = q /\ Bump(x, q, n).amount = n
  <1>1. r.gen \in Nat /\ x.gen \in Nat
    BY RowFields
  <1> QED  BY <1>1, BumpRow DEF Grown

(***************************************************************************)
(* What a reservation does to the rows                                     *)
(***************************************************************************)

\* The order of the windows is that of natural numbers, so a first one exists.
LEMMA LeastExists ==
    ASSUME NEW S \in SUBSET Nat, S # {}
    PROVE  \E m \in S : \A n \in S : m <= n
  <1>1. PICK m \in S : \A n \in S : ~ (<<n, m>> \in OpToRel(<, Nat))
    BY NatLessThanWellFounded, WFMin, Zenon
  <1>2. \A n \in S : n \in Nat /\ m \in Nat /\ ~ (n < m)
    BY <1>1 DEF OpToRel
  <1> QED  BY <1>2

\* The kinds of window are told apart, and a key by its account, kind and bucket.
LEMMA KindsApart ==
    /\ AllowanceKinds \subseteq TokenWindows /\ "tpm" \in TokenWindows /\ TokenWindows \subseteq CounterKinds
    /\ "rpm" \notin TokenWindows /\ "tpm" \notin AllowanceKinds
    /\ \A w \in TokenWindows : w = "tpm" \/ w \in AllowanceKinds
  BY ConstantsAssumption DEF ConstantsAssumption, TokenWindows, CounterKinds

LEMMA KeyKind == \A a, w, t, anchor : Key(a, w, t, anchor)[1] = a /\ Key(a, w, t, anchor)[2] = w
  BY DEF Key

\* reserveRate puts the estimate on the account's minute, and on nothing else that
\* counts tokens.
LEMMA RateChargedRow ==
    ASSUME NEW rs, NEW a, NEW n, NEW t, NEW k \in Keys, k[2] \in TokenWindows
    PROVE  RateCharged(rs, a, n, t)[k] =
             IF TokenRateOn /\ k = Key(a, "tpm", t, 0) THEN Bump(rs[k], 0, n) ELSE rs[k]
  <1>1. k # Key(a, "rpm", t, 0)
    BY KeyKind, KindsApart
  <1> QED
    BY <1>1 DEF RateCharged, BumpAll, TokenRateOn

LEMMA MinuteKey == \A a, t, anchor : Key(a, "tpm", t, anchor) = Key(a, "tpm", t, 0)
  BY DEF Key, BucketStart

\* An account's windows of the walk are the keys of its kinds.
LEMMA WindowKey ==
    ASSUME NEW a, NEW ws, NEW t, NEW anchor, NEW k
    PROVE  k \in KeysAt(a, ws, t, anchor) <=> k[2] \in ws /\ k = Key(a, k[2], t, anchor)
  BY KeyKind DEF KeysAt

\* reserveAllowance: what it leaves when every window has room, and when one has not.
LEMMA WalkRows ==
    ASSUME NEW rs \in [Keys -> Row], \A k \in Keys : rs[k].live => rs[k].gen > 0,
           NEW a, NEW anchor, NEW n \in Nat, NEW t,
           NEW walk, walk = ReserveAllowance(rs, a, anchor, n, t)
    PROVE  /\ walk.refused = 0 =>
                /\ walk.rows = BumpAll(rs, KeysAt(a, AllowanceKinds, t, anchor), 1, n)
                /\ \A w \in AllowanceKinds : ~ OverLimit(w, walk.rows[Key(a, w, t, anchor)])
           /\ walk.refused # 0 =>
                /\ walk.rows \in [Keys -> Row]
                /\ \A k \in Keys : k \notin KeysAt(a, AllowanceKinds, t, anchor) => walk.rows[k] = rs[k]
                /\ \A k \in Keys : walk.rows[k] = rs[k] \/ Grown(rs[k], walk.rows[k], 0, 0)
  <1> DEFINE charged == BumpAll(rs, KeysAt(a, AllowanceKinds, t, anchor), 1, n)
             over == {i \in Indices : OverLimit(Allowance[i], charged[Key(a, Allowance[i], t, anchor)])}
             first == CHOOSE i \in over : \A j \in over : i <= j
             walked == KeysAt(a, {Allowance[i] : i \in 1 .. first}, t, anchor)
             back == BumpAll(BumpAll(rs, walked, 1, n), walked, -1, -n)
  <1>1. walk = IF over = {} THEN [rows |-> charged, refused |-> 0]
               ELSE [rows |-> back, refused |-> first]
    BY Zenon DEF ReserveAllowance, charged, over, first, walked
  <1>2. CASE over = {}
    <2>1. walk.rows = charged /\ walk.refused = 0
      BY <1>1, <1>2
    <2>2. ASSUME NEW w \in AllowanceKinds
          PROVE  ~ OverLimit(w, charged[Key(a, w, t, anchor)])
      <3>1. PICK i \in Indices : w = Allowance[i]  BY DEF AllowanceKinds
      <3> QED  BY <1>2, <3>1
    <2> QED  BY <2>1, <2>2
  <1>3. CASE over # {}
    <2>1. over \subseteq Indices /\ Indices \subseteq Nat /\ 0 \notin Indices
      BY ConstantsAssumption DEF ConstantsAssumption, Indices
    <2>2. first \in over
      <3>1. over \in SUBSET Nat  BY <2>1
      <3>2. \E i \in over : \A j \in over : i <= j  BY <1>3, <3>1, LeastExists
      <3> HIDE DEF over
      <3> QED  BY <3>2
    <2>3. walk.rows = back /\ walk.refused = first /\ first # 0 /\ first \in Indices
      <3>1. walk = [rows |-> back, refused |-> first]  BY <1>1, <1>3
      <3>2. first \in Indices  BY <2>2
      <3> HIDE DEF back, first, over
      <3> QED  BY <3>1, <3>2, <2>1
    <2>4. {Allowance[i] : i \in 1 .. first} \subseteq AllowanceKinds
      <3> HIDE DEF first
      <3>1. Len(Allowance) \in Nat  BY ConstantsAssumption DEF ConstantsAssumption
      <3>2. first \in 1 .. Len(Allowance)  BY <2>3 DEF Indices
      <3>3. 1 .. first \subseteq Indices  BY <3>1, <3>2 DEF Indices
      <3> QED  BY <3>3 DEF AllowanceKinds
    <2>5. \A k : k \in walked => k \in KeysAt(a, AllowanceKinds, t, anchor)
      BY <2>4, WindowKey DEF walked
    <2> HIDE DEF walked
    <2>6. ASSUME NEW k \in Keys
          PROVE  back[k] = IF k \in walked THEN Bump(Bump(rs[k], 1, n), -1, -n) ELSE rs[k]
      BY DEF BumpAll
    <2>7. ASSUME NEW k \in Keys
          PROVE  back[k] \in Row /\ (back[k] = rs[k] \/ Grown(rs[k], back[k], 0, 0))
      <3>1. rs[k] \in Row  BY DEF BumpAll
      <3> QED  BY <2>6, <3>1, TakenBackRow
    <2>8. back = [k \in Keys |-> back[k]]
      BY DEF BumpAll
    <2> HIDE DEF back
    <2>9. back \in [Keys -> Row]
      BY <2>7, <2>8
    <2> QED  BY <2>3, <2>5, <2>6, <2>7, <2>9
  <1> QED  BY <1>2, <1>3

\* Rows of the table, each live one in some incarnation.
LiveRows(rs) == rs \in [Keys -> Row] /\ \A k \in Keys : rs[k].live => rs[k].gen > 0

LEMMA WalkAdmits ==
    ASSUME NEW rs, LiveRows(rs), NEW a, NEW anchor, NEW n \in Nat, NEW t,
           ReserveAllowance(rs, a, anchor, n, t).refused = 0
    PROVE  /\ ReserveAllowance(rs, a, anchor, n, t).rows = BumpAll(rs, KeysAt(a, AllowanceKinds, t, anchor), 1, n)
           /\ \A w \in AllowanceKinds :
                ~ OverLimit(w, ReserveAllowance(rs, a, anchor, n, t).rows[Key(a, w, t, anchor)])
  BY WalkRows DEF LiveRows

\* What a refused walk leaves: every row it was, or a new and empty one, and
\* nothing else than the windows ks was touched.
GivenBack(old, new, ks) ==
    /\ new \in [Keys -> Row]
    /\ \A k \in Keys : k \notin ks => new[k] = old[k]
    /\ \A k \in Keys : new[k] = old[k] \/ Grown(old[k], new[k], 0, 0)

LEMMA WalkTakesBack ==
    ASSUME NEW rs, LiveRows(rs), NEW a, NEW anchor, NEW n \in Nat, NEW t,
           ReserveAllowance(rs, a, anchor, n, t).refused # 0
    PROVE  GivenBack(rs, ReserveAllowance(rs, a, anchor, n, t).rows, KeysAt(a, AllowanceKinds, t, anchor))
  BY WalkRows DEF LiveRows, GivenBack

(***************************************************************************)
(* Counting what is held                                                   *)
(***************************************************************************)

\* Units are what estimates are counted in; a set of them is finite.
Units == Turns \X (1 .. MaxCost)

LEMMA UnitsFinite ==
    ASSUME NEW H \in SUBSET Units
    PROVE  IsFiniteSet(H) /\ Cardinality(H) \in Nat
  <1>1. IsFiniteSet(1 .. MaxCost)
    BY ConstantTypes, FS_Interval
  <1>2. IsFiniteSet(Turns)
    BY ConstantsAssumption DEF ConstantsAssumption
  <1>3. IsFiniteSet(Units)
    BY <1>1, <1>2, FS_Product DEF Units
  <1>4. IsFiniteSet(H)
    BY <1>3, FS_Subset
  <1> QED  BY <1>4, FS_CardinalityType

LEMMA TurnsFinite ==
    ASSUME NEW T \in SUBSET Turns
    PROVE  IsFiniteSet(T) /\ Cardinality(T) \in Nat
  <1>1. IsFiniteSet(Turns)
    BY ConstantsAssumption DEF ConstantsAssumption
  <1>2. IsFiniteSet(T)
    BY <1>1, FS_Subset
  <1> QED  BY <1>2, FS_CardinalityType

\* A turn that holds n units adds n to what the others hold.
LEMMA UnitsJoined ==
    ASSUME NEW H \in SUBSET Units, NEW t \in Turns, \A u \in H : u[1] # t, NEW n \in Costs
    PROVE  /\ H \cup ({t} \X (1 .. n)) \in SUBSET Units
           /\ Cardinality(H \cup ({t} \X (1 .. n))) = Cardinality(H) + n
  <1>1. n \in Nat /\ n <= MaxCost /\ MaxCost \in Nat
    BY ConstantTypes DEF Costs
  <1>2. IsFiniteSet(1 .. n) /\ Cardinality(1 .. n) = n
    BY <1>1, FS_Interval
  <1>3. IsFiniteSet({t}) /\ Cardinality({t}) = 1
    BY FS_Singleton
  <1> DEFINE own == {t} \X (1 .. n)
  <1>4. IsFiniteSet(own) /\ Cardinality(own) = 1 * n
    <2>1. IsFiniteSet({t} \X (1 .. n)) /\ Cardinality({t} \X (1 .. n)) = Cardinality({t}) * Cardinality(1 .. n)
      BY <1>2, <1>3, FS_Product, Zenon
    <2> QED  BY <1>2, <1>3, <2>1
  <1>5. own \in SUBSET Units
    BY <1>1 DEF Units
  <1>6. H \cap own = {}
    OBVIOUS
  <1> HIDE DEF own
  <1>7. IsFiniteSet(H) /\ Cardinality(H) \in Nat
    BY UnitsFinite
  <1>8. Cardinality(H \cup own) = Cardinality(H) + Cardinality(own) - Cardinality(H \cap own)
    BY <1>4, <1>7, FS_Union
  <1>9. Cardinality(H \cap own) = 0
    BY <1>6, FS_EmptySet
  <1>10. Cardinality(H \cup own) = Cardinality(H) + n
    BY <1>1, <1>4, <1>7, <1>8, <1>9
  <1> QED  BY <1>5, <1>10 DEF own

LEMMA NothingCounted == Cardinality({}) = 0
  BY FS_EmptySet

(***************************************************************************)
(* The inductive invariant                                                 *)
(***************************************************************************)

\* A row's generation tells the incarnation a reservation charged from any later
\* one: no reservation has captured a generation its row has not had, and a turn
\* that holds nothing has captured none.
Incarnations ==
    /\ \A k \in Keys : rows[k].live => rows[k].gen > 0
    /\ \A t \in Turns, w \in TokenWindows :
         pc[t] = "held" => res[t].gens[w] <= rows[Key(Owner[t], w, res[t].at, res[t].anchor)].gen
    /\ \A t \in Turns :
         pc[t] # "held" => /\ ~ released[t]
                           /\ res[t].charged = 0 /\ res[t].covered = 0
                           /\ \A w \in TokenWindows : res[t].gens[w] = 0
    /\ \A t \in Turns : res[t].charged + res[t].covered \in Costs

CountersInv == TypeOK /\ Incarnations /\ CountersExact /\ RequestsExact /\ RunningWithinLimit

\* The parts of the type invariant that the steps below look into.
LEMMA Typed ==
    ASSUME TypeOK
    PROVE  /\ rows \in [Keys -> Row] /\ settled \in [Keys -> Nat]
           /\ \A k \in Keys : /\ rows[k].live \in BOOLEAN /\ rows[k].gen \in Nat
                              /\ rows[k].requests \in Int /\ rows[k].amount \in Nat
           /\ \A t \in Turns : /\ want[t] \in Costs /\ want[t] \in Nat
                               /\ res[t].at \in Times /\ res[t].anchor \in Times
                               /\ res[t].charged \in Nat /\ res[t].covered \in Nat
                               /\ res[t].gens \in [TokenWindows -> Nat]
  <1>1. Costs \subseteq Nat  BY ConstantTypes
  <1>2. \A k \in Keys : rows[k] \in Row  BY DEF TypeOK
  <1>3. \A t \in Turns : res[t] \in Reservation  BY DEF TypeOK
  <1>4. \A t \in Turns : /\ res[t].at \in Times /\ res[t].anchor \in Times
                         /\ res[t].charged \in Costs /\ res[t].covered \in Costs
                         /\ res[t].gens \in [TokenWindows -> Nat]
    BY <1>3 DEF Reservation
  <1> QED  BY <1>1, <1>2, <1>4, RowFields DEF TypeOK

\* A bound turn is one of the row's own incarnation.
LEMMA BoundKey ==
    ASSUME NEW t \in Turns, NEW k \in Keys, Bound(t, k)
    PROVE  /\ pc[t] = "held" /\ k[2] \in TokenWindows /\ rows[k].live
           /\ k = Key(Owner[t], k[2], res[t].at, res[t].anchor) /\ res[t].gens[k[2]] = rows[k].gen
  BY DEF Bound

\* What a turn holds of a row is within what it may ask for.
LEMMA ShareBound ==
    ASSUME TypeOK, Incarnations, NEW t \in Turns, NEW w
    PROVE  Share(t, w) \in Costs
  <1>1. /\ res[t].charged \in Nat /\ res[t].covered \in Nat
        /\ res[t].charged + res[t].covered \in Costs
    BY Typed DEF Incarnations
  <1> QED  BY <1>1, ConstantTypes DEF Share, Costs

\* The turns whose reservation was charged to the row k is now.
Holders(k) == {t \in Turns : Bound(t, k)}

LEMMA HeldUnits == \A k : Held(k) \in SUBSET Units
  BY DEF Held, Units

\* A step that moves no turn: of a row that lives on, what is held stays, and
\* of a row made since, nothing is.
LEMMA RowsChange ==
    ASSUME CountersInv, TypeOK', UNCHANGED <<pc, res, released>>,
           \A k \in Keys :
             \/ ~ rows'[k].live /\ rows'[k].gen >= rows[k].gen
             \/ /\ rows'[k].live /\ rows[k].live /\ rows'[k].gen = rows[k].gen
                /\ rows'[k].requests = rows[k].requests
                /\ rows'[k].amount - settled'[k] = rows[k].amount - settled[k]
             \/ /\ rows'[k].live /\ rows'[k].gen > rows[k].gen
                /\ rows'[k].requests = 0 /\ rows'[k].amount = settled'[k]
    PROVE  CountersInv'
  <1>1. TypeOK /\ Incarnations  BY DEF CountersInv
  <1>2. \A k \in Keys : /\ rows[k].gen \in Nat /\ rows'[k].gen \in Nat /\ rows[k].amount \in Nat /\ rows'[k].amount \in Nat
                        /\ settled[k] \in Nat /\ settled'[k] \in Nat
    <2>1. \A k \in Keys : rows'[k] \in Row /\ settled'[k] \in Nat  BY DEF TypeOK
    <2> QED  BY <1>1, <2>1, Typed, RowFields DEF TypeOK
  <1>3. \A t \in Turns, w \in TokenWindows : Key(Owner[t], w, res[t].at, res[t].anchor) \in Keys
    BY <1>1, Typed, ConstantTypes, KindsApart, KeyType
  <1>4. Incarnations'
    <2>1. \A k \in Keys : rows'[k].live => rows'[k].gen > 0
      BY <1>1, <1>2 DEF Incarnations
    <2>2. \A k \in Keys : rows'[k].gen >= rows[k].gen
      BY <1>2
    <2>3. ASSUME NEW t \in Turns, NEW w \in TokenWindows, pc[t] = "held"
          PROVE  res[t].gens[w] <= rows'[Key(Owner[t], w, res[t].at, res[t].anchor)].gen
      <3>1. res[t].gens[w] \in Nat  BY <1>1, Typed
      <3> QED  BY <1>1, <1>2, <1>3, <2>2, <2>3, <3>1 DEF Incarnations
    <2> QED  BY <1>1, <2>1, <2>3 DEF Incarnations
  <1>5. ASSUME NEW k \in Keys, rows'[k].live, rows[k].live, rows'[k].gen = rows[k].gen
        PROVE  Held(k)' = Held(k) /\ Holders(k)' = Holders(k)
    <2>1. \A t \in Turns : Bound(t, k)' <=> Bound(t, k)
      BY <1>5 DEF Bound
    <2>2. \A u \in Turns \X (1 .. MaxCost) : u[1] \in Turns  OBVIOUS
    <2> QED  BY <2>1, <2>2 DEF Held, Holders, Share
  <1>6. ASSUME NEW k \in Keys, rows'[k].live, rows'[k].gen > rows[k].gen
        PROVE  Held(k)' = {} /\ Holders(k)' = {}
    <2>1. ASSUME NEW t \in Turns, Bound(t, k)'
          PROVE  FALSE
      <3>1. /\ pc[t] = "held" /\ k[2] \in TokenWindows /\ k = Key(Owner[t], k[2], res[t].at, res[t].anchor)
            /\ res[t].gens[k[2]] = rows'[k].gen
        BY <2>1 DEF Bound
      <3>2. res[t].gens[k[2]] <= rows[k].gen
        BY <1>1, <3>1 DEF Incarnations
      <3> QED  BY <1>2, <1>6, <3>1, <3>2
    <2> QED  BY <2>1 DEF Held, Holders
  <1>7. CountersExact'
    <2> SUFFICES ASSUME NEW k \in Keys, rows'[k].live, k[2] \in TokenWindows
                 PROVE  rows'[k].amount = settled'[k] + Cardinality(Held(k)')
      BY DEF CountersExact
    <2>1. CASE rows[k].live /\ rows'[k].gen = rows[k].gen
      <3>1. rows[k].amount = settled[k] + Cardinality(Held(k))
        BY <2>1 DEF CountersInv, CountersExact
      <3>2. Cardinality(Held(k)) \in Nat  BY HeldUnits, UnitsFinite
      <3> QED  BY <1>2, <1>5, <2>1, <3>1, <3>2
    <2>2. CASE rows'[k].gen > rows[k].gen
      <3>1. Held(k)' = {}  BY <1>6, <2>2
      <3>2. Cardinality(Held(k)') = 0  BY <3>1, NothingCounted
      <3> QED  BY <1>2, <2>2, <3>2
    <2> QED  BY <2>1, <2>2
  <1>8. RequestsExact'
    <2> SUFFICES ASSUME NEW k \in Keys, rows'[k].live, k[2] \in AllowanceKinds
                 PROVE  rows'[k].requests = Cardinality(Holders(k)')
      BY DEF RequestsExact, Holders
    <2>1. CASE rows[k].live /\ rows'[k].gen = rows[k].gen
      <3>1. rows[k].requests = Cardinality(Holders(k))
        BY <2>1 DEF CountersInv, RequestsExact, Holders
      <3> QED  BY <1>2, <1>5, <2>1, <3>1
    <2>2. CASE rows'[k].gen > rows[k].gen
      <3>1. Cardinality(Holders(k)') = 0  BY <1>6, <2>2, NothingCounted
      <3> QED  BY <1>2, <2>2, <3>1
    <2> QED  BY <2>1, <2>2
  <1>9. RunningWithinLimit'
    <2> SUFFICES ASSUME NEW k \in Keys, rows'[k].live, k[2] \in TokenWindows, LimitOf(k[2]) > 0
                 PROVE  Cardinality(Held(k)') <= LimitOf(k[2])
      BY DEF RunningWithinLimit, LimitOf
    <2>1. CASE rows[k].live /\ rows'[k].gen = rows[k].gen
      BY <1>5, <2>1 DEF CountersInv, RunningWithinLimit
    <2>2. CASE rows'[k].gen > rows[k].gen
      <3>1. Held(k)' = {}  BY <1>6, <2>2
      <3>2. Cardinality(Held(k)') = 0  BY <3>1, NothingCounted
      <3>3. LimitOf(k[2]) \in Nat
        BY ConstantsAssumption, KindsApart DEF ConstantsAssumption, LimitOf
      <3> QED  BY <3>2, <3>3
    <2> QED  BY <2>1, <2>2
  <1> QED  BY <1>4, <1>7, <1>8, <1>9 DEF CountersInv

(***************************************************************************)
(* A reservation that is held                                              *)
(***************************************************************************)

\* Whether turn t is charged on the row k, and for how much.
TakesFrom(t, k, anchor, windows) ==
    /\ k = Key(Owner[t], k[2], res[t].at, anchor)
    /\ IF k[2] = "tpm" THEN TokenRateOn ELSE windows

Takes(t, w, charged) == IF w = "tpm" THEN want[t] ELSE charged

\* What the transaction of a reservation does to the rows, whichever way it came:
\* each row it is charged on grows by it within the limit, the others stay.
Reserves(t, rs, anchor, charged, windows) ==
    \A k \in Keys : k[2] \in TokenWindows =>
        IF TakesFrom(t, k, anchor, windows)
        THEN /\ Grown(rows[k], rs[k], IF k[2] = "tpm" THEN 0 ELSE 1, Takes(t, k[2], charged))
             /\ LimitOf(k[2]) > 0 => rs[k].amount <= LimitOf(k[2])
        ELSE rs[k] = rows[k]

LEMMA HoldStep ==
    ASSUME CountersInv, TypeOK', NEW t \in Turns, pc[t] # "held",
           NEW rs \in [Keys -> Row], \A k \in Keys : rs[k].live => rs[k].gen > 0,
           NEW anchor \in Times, NEW windows \in BOOLEAN, NEW charged \in 0 .. want[t], windows \/ charged = 0,
           Hold(t, rs, anchor, charged, windows), Reserves(t, rs, anchor, charged, windows), UNCHANGED released
    PROVE  CountersInv'
  <1> DEFINE at == res[t].at
             gens == CaptureGenerations(rs, Owner[t], at, anchor, TokenRateOn, windows)
             covered == IF TokenRateOn THEN want[t] - charged ELSE 0
  <1>1. TypeOK /\ Incarnations /\ CountersExact /\ RequestsExact /\ RunningWithinLimit  BY DEF CountersInv
  <1>2. /\ want[t] \in Costs /\ want[t] \in Nat /\ charged \in Nat /\ charged <= want[t] /\ covered \in Nat
        /\ charged + covered \in Costs
        /\ TokenRateOn => charged + covered = want[t]
    BY <1>1, Typed, ConstantTypes DEF Costs
  <1>3. /\ rows' = rs /\ settled' = Remembered(rows, rs)
        /\ pc' = [pc EXCEPT ![t] = "held"]
        /\ res' = [res EXCEPT ![t] = [at |-> at, charged |-> charged, covered |-> covered, anchor |-> anchor, gens |-> gens]]
    BY DEF Hold
  <1>4. /\ pc'[t] = "held" /\ res'[t].at = at /\ res'[t].charged = charged /\ res'[t].covered = covered
        /\ res'[t].anchor = anchor /\ res'[t].gens = gens
        /\ \A u \in Turns \ {t} : pc'[u] = pc[u] /\ res'[u] = res[u]
    BY <1>1, <1>3 DEF TypeOK
  <1>5. \A w \in TokenWindows :
          gens[w] = IF (w = "tpm" /\ TokenRateOn) \/ (w # "tpm" /\ windows) THEN rs[Key(Owner[t], w, at, anchor)].gen ELSE 0
    BY DEF CaptureGenerations
  <1> HIDE DEF gens, covered
  <1>6. \A k \in Keys : /\ rows[k].gen \in Nat /\ rs[k].gen \in Nat /\ rows[k].amount \in Nat /\ rs[k].amount \in Nat
                        /\ rows[k].requests \in Int /\ settled[k] \in Nat /\ rows[k].live \in BOOLEAN /\ rs[k].live \in BOOLEAN
    BY <1>1, Typed, RowFields
  <1>7. \A k \in Keys : settled'[k] = IF rs[k].live /\ rs[k].gen = rows[k].gen THEN settled[k] ELSE 0
    BY <1>3 DEF Remembered
  <1>8. \A k \in Keys : k[2] \in TokenWindows => rs[k].gen >= rows[k].gen
    BY <1>6 DEF Reserves, Grown
  <1>9. \A u \in Turns, w \in TokenWindows : Key(Owner[u], w, res[u].at, res[u].anchor) \in Keys
    BY <1>1, Typed, ConstantTypes, KindsApart, KeyType
  <1>10. \A w \in TokenWindows : Key(Owner[t], w, at, anchor) \in Keys
    BY <1>1, Typed, ConstantTypes, KindsApart, KeyType
  <1>11. Incarnations'
    <2>1. ASSUME NEW u \in Turns, NEW w \in TokenWindows, pc'[u] = "held"
          PROVE  res'[u].gens[w] <= rs[Key(Owner[u], w, res'[u].at, res'[u].anchor)].gen
      <3>1. CASE u = t
        BY <1>4, <1>5, <1>6, <1>10, <3>1
      <3>2. CASE u # t
        <4> DEFINE k == Key(Owner[u], w, res[u].at, res[u].anchor)
        <4>1. res[u].gens[w] <= rows[k].gen /\ res[u].gens[w] \in Nat
          BY <1>1, <1>4, <2>1, <3>2, Typed DEF Incarnations
        <4>2. k \in Keys /\ k[2] = w  BY <1>9, KeyKind
        <4>3. rs[k].gen >= rows[k].gen  BY <1>8, <4>2
        <4> QED  BY <1>4, <1>6, <3>2, <4>1, <4>2, <4>3
      <3> QED  BY <3>1, <3>2
    <2>2. \A u \in Turns : pc'[u] # "held" =>
            /\ ~ released[u] /\ res'[u].charged = 0 /\ res'[u].covered = 0
            /\ \A w \in TokenWindows : res'[u].gens[w] = 0
      BY <1>1, <1>4 DEF Incarnations
    <2>3. \A u \in Turns : res'[u].charged + res'[u].covered \in Costs
      BY <1>1, <1>2, <1>4 DEF Incarnations
    <2> QED  BY <1>3, <2>1, <2>2, <2>3 DEF Incarnations
  <1>12. ~ released[t] /\ \A k : ~ Bound(t, k)
    BY <1>1 DEF Incarnations, Bound
  <1>13. \A k : (\A u \in Held(k) : u[1] # t) /\ t \notin Holders(k)
    BY <1>12 DEF Held, Holders
  \* Of a row that is not charged nothing changes.
  <1>14. ASSUME NEW k \in Keys, k[2] \in TokenWindows, ~ TakesFrom(t, k, anchor, windows), rs[k].live
         PROVE  /\ rs[k] = rows[k] /\ settled'[k] = settled[k] /\ Held(k)' = Held(k) /\ Holders(k)' = Holders(k)
    <2>1. rs[k] = rows[k]  BY <1>14 DEF Reserves
    <2>2. \A u \in Turns \ {t} : Bound(u, k)' <=> Bound(u, k)
      BY <1>3, <1>4, <2>1 DEF Bound
    <2>3. ~ Bound(t, k)'
      <3>1. SUFFICES ASSUME Bound(t, k)' PROVE FALSE  OBVIOUS
      <3>2. k = Key(Owner[t], k[2], at, anchor) /\ gens[k[2]] = rs[k].gen
        BY <1>3, <1>4, <3>1 DEF Bound
      <3>3. rs[k].gen > 0  BY <1>14
      <3>4. (k[2] = "tpm" /\ TokenRateOn) \/ (k[2] # "tpm" /\ windows)
        BY <1>5, <1>6, <1>14, <3>2, <3>3
      <3> QED  BY <1>14, <3>2, <3>4 DEF TakesFrom
    <2>4. \A u \in Turns : Bound(u, k)' <=> Bound(u, k)  BY <1>12, <2>2, <2>3
    <2>5. Holders(k)' = Holders(k)  BY <2>4 DEF Holders
    <2>6. \A u \in Turns : Bound(u, k) => u # t  BY <1>12
    <2>7. Held(k)' = Held(k)
      BY <1>4, <2>2, <2>3, <2>6 DEF Held, Share
    <2> QED  BY <1>7, <1>14, <2>1, <2>5, <2>7
  \* A row that is charged is held by t for its share, and by whom it was before unless it is new.
  <1>15. ASSUME NEW k \in Keys, k[2] \in TokenWindows, TakesFrom(t, k, anchor, windows)
         PROVE  /\ Bound(t, k)' /\ Takes(t, k[2], charged) \in Costs /\ Share(t, k[2])' = Takes(t, k[2], charged)
                /\ rs[k].live
    <2>1. rs[k].live /\ k = Key(Owner[t], k[2], at, anchor)  BY <1>15 DEF Reserves, Grown, TakesFrom
    <2>2. gens[k[2]] = rs[k].gen
      BY <1>5, <1>15, <2>1 DEF TakesFrom
    <2>3. Bound(t, k)'
      BY <1>3, <1>4, <1>15, <2>1, <2>2 DEF Bound
    <2>4. Share(t, k[2])' = Takes(t, k[2], charged)
      BY <1>2, <1>4, <1>15 DEF Share, Takes, TakesFrom
    <2>5. Takes(t, k[2], charged) \in Costs
      BY <1>2, ConstantTypes DEF Takes, Costs
    <2> QED  BY <2>1, <2>3, <2>4, <2>5
  <1>16. ASSUME NEW k \in Keys, k[2] \in TokenWindows, TakesFrom(t, k, anchor, windows),
                rows[k].live, rs[k].gen = rows[k].gen
         PROVE  /\ Held(k)' = Held(k) \cup ({t} \X (1 .. Takes(t, k[2], charged)))
                /\ Holders(k)' = Holders(k) \cup {t}
    <2>1. \A u \in Turns \ {t} : Bound(u, k)' <=> Bound(u, k)
      BY <1>3, <1>4, <1>15, <1>16 DEF Bound
    <2>2. Holders(k)' = Holders(k) \cup {t}
      BY <1>15, <1>16, <2>1 DEF Holders
    <2>3. Takes(t, k[2], charged) \in Nat /\ Takes(t, k[2], charged) <= MaxCost /\ MaxCost \in Nat
      BY <1>15, <1>16, ConstantTypes DEF Costs
    <2>4. \A u \in Units : u \in Held(k)' <=> u \in Held(k) \/ (u[1] = t /\ u[2] <= Takes(t, k[2], charged))
      BY <1>4, <1>12, <1>15, <1>16, <2>1 DEF Held, Units, Share
    <2>5. \A u \in {t} \X (1 .. Takes(t, k[2], charged)) : u \in Units /\ u[1] = t /\ u[2] <= Takes(t, k[2], charged)
      BY <2>3 DEF Units
    <2>6. \A u \in Units : u[1] = t /\ u[2] <= Takes(t, k[2], charged) => u \in {t} \X (1 .. Takes(t, k[2], charged))
      BY <2>3 DEF Units
    <2>7. Held(k)' \in SUBSET Units  BY DEF Held, Units
    <2> QED  BY <2>2, <2>4, <2>5, <2>6, <2>7, HeldUnits
  <1>17. ASSUME NEW k \in Keys, k[2] \in TokenWindows, TakesFrom(t, k, anchor, windows), rs[k].gen > rows[k].gen
         PROVE  /\ Held(k)' = {} \cup ({t} \X (1 .. Takes(t, k[2], charged)))
                /\ Holders(k)' = {t}
    <2>1. ASSUME NEW u \in Turns \ {t}, Bound(u, k)'
          PROVE  FALSE
      <3>1. /\ pc[u] = "held" /\ k = Key(Owner[u], k[2], res[u].at, res[u].anchor)
            /\ res[u].gens[k[2]] = rs[k].gen
        BY <1>3, <1>4, <2>1 DEF Bound
      <3>2. res[u].gens[k[2]] <= rows[k].gen
        BY <1>1, <1>17, <3>1 DEF Incarnations
      <3> QED  BY <1>6, <1>17, <3>1, <3>2
    <2>2. Holders(k)' = {t}
      BY <1>15, <1>17, <2>1 DEF Holders
    <2>3. Takes(t, k[2], charged) \in Nat /\ Takes(t, k[2], charged) <= MaxCost /\ MaxCost \in Nat
      BY <1>15, <1>17, ConstantTypes DEF Costs
    <2>4. \A u \in Units : u \in Held(k)' <=> u[1] = t /\ u[2] <= Takes(t, k[2], charged)
      BY <1>12, <1>15, <1>17, <2>1 DEF Held, Units
    <2>5. \A u \in {t} \X (1 .. Takes(t, k[2], charged)) : u \in Units /\ u[1] = t /\ u[2] <= Takes(t, k[2], charged)
      BY <2>3 DEF Units
    <2>6. \A u \in Units : u[1] = t /\ u[2] <= Takes(t, k[2], charged) => u \in {t} \X (1 .. Takes(t, k[2], charged))
      BY <2>3 DEF Units
    <2>7. Held(k)' \in SUBSET Units  BY DEF Held, Units
    <2> QED  BY <2>2, <2>4, <2>5, <2>6, <2>7
  <1>18. \A k \in Keys : Held(k) \in SUBSET Units /\ Holders(k) \in SUBSET Turns
    BY HeldUnits DEF Holders
  <1>19. CountersExact'
    <2> SUFFICES ASSUME NEW k \in Keys, rs[k].live, k[2] \in TokenWindows
                 PROVE  rs[k].amount = settled'[k] + Cardinality(Held(k)')
      BY <1>3 DEF CountersExact
    <2> DEFINE n == Takes(t, k[2], charged)
    <2>0. rows[k].live => rows[k].amount = settled[k] + Cardinality(Held(k))
      BY <1>1 DEF CountersExact
    <2>1. CASE ~ TakesFrom(t, k, anchor, windows)
      BY <1>14, <2>0, <2>1
    <2>2. CASE TakesFrom(t, k, anchor, windows) /\ rows[k].live /\ rs[k].gen = rows[k].gen
      <3>1. Cardinality(Held(k)') = Cardinality(Held(k)) + n
        BY <1>13, <1>15, <1>16, <1>18, <2>2, UnitsJoined
      <3>2. rs[k].amount = rows[k].amount + n
        BY <1>6, <2>2 DEF Reserves, Grown
      <3>3. Cardinality(Held(k)) \in Nat  BY <1>18, UnitsFinite
      <3>4. n \in Nat  BY <1>15, <2>2, ConstantTypes
      <3> HIDE DEF n
      <3> QED  BY <1>6, <1>7, <2>0, <2>2, <3>1, <3>2, <3>3, <3>4
    <2>3. CASE TakesFrom(t, k, anchor, windows) /\ rs[k].gen > rows[k].gen
      <3>1. Cardinality(Held(k)') = Cardinality({}) + n
        <4>1. {} \in SUBSET Units /\ \A u \in {} : u[1] # t  OBVIOUS
        <4> QED  BY <1>15, <1>17, <2>3, <4>1, UnitsJoined
      <3>2. rs[k].amount = n
        BY <1>6, <2>3 DEF Reserves, Grown
      <3>3. n \in Nat  BY <1>15, <2>3, ConstantTypes
      <3> HIDE DEF n
      <3> QED  BY <1>6, <1>7, <2>3, <3>1, <3>2, <3>3, NothingCounted
    <2>4. TakesFrom(t, k, anchor, windows) => rs[k].gen > rows[k].gen \/ (rows[k].live /\ rs[k].gen = rows[k].gen)
      BY <1>6 DEF Reserves, Grown
    <2> QED  BY <2>1, <2>2, <2>3, <2>4
  <1>20. RequestsExact'
    <2> SUFFICES ASSUME NEW k \in Keys, rs[k].live, k[2] \in AllowanceKinds
                 PROVE  rs[k].requests = Cardinality(Holders(k)')
      BY <1>3 DEF RequestsExact, Holders
    <2>0. /\ rows[k].live => rows[k].requests = Cardinality(Holders(k))
          /\ k[2] \in TokenWindows /\ k[2] # "tpm"
      BY <1>1, KindsApart DEF RequestsExact, Holders
    <2>1. CASE ~ TakesFrom(t, k, anchor, windows)
      BY <1>14, <2>0, <2>1
    <2>2. CASE TakesFrom(t, k, anchor, windows) /\ rows[k].live /\ rs[k].gen = rows[k].gen
      <3>1. Holders(k)' = Holders(k) \cup {t} /\ t \notin Holders(k) /\ IsFiniteSet(Holders(k))
        BY <1>13, <1>16, <1>18, <2>0, <2>2, TurnsFinite
      <3>2. Cardinality(Holders(k)') = Cardinality(Holders(k)) + 1
        BY <3>1, FS_AddElement
      <3>3. rs[k].requests = rows[k].requests + 1
        BY <1>6, <2>0, <2>2 DEF Reserves, Grown
      <3> QED  BY <2>0, <2>2, <3>2, <3>3
    <2>3. CASE TakesFrom(t, k, anchor, windows) /\ rs[k].gen > rows[k].gen
      <3>1. Cardinality(Holders(k)') = 1
        BY <1>17, <2>0, <2>3, FS_Singleton
      <3>2. rs[k].requests = 1
        BY <1>6, <2>0, <2>3 DEF Reserves, Grown
      <3> QED  BY <3>1, <3>2
    <2>4. TakesFrom(t, k, anchor, windows) => rs[k].gen > rows[k].gen \/ (rows[k].live /\ rs[k].gen = rows[k].gen)
      BY <1>6, <2>0 DEF Reserves, Grown
    <2> QED  BY <2>1, <2>2, <2>3, <2>4
  <1>21. RunningWithinLimit'
    <2> SUFFICES ASSUME NEW k \in Keys, rs[k].live, k[2] \in TokenWindows, LimitOf(k[2]) > 0
                 PROVE  Cardinality(Held(k)') <= LimitOf(k[2])
      BY <1>3 DEF RunningWithinLimit, LimitOf
    <2>1. CASE ~ TakesFrom(t, k, anchor, windows)
      BY <1>1, <1>14, <2>1 DEF RunningWithinLimit
    <2>2. CASE TakesFrom(t, k, anchor, windows)
      <3>1. rs[k].amount <= LimitOf(k[2])
        BY <2>2 DEF Reserves
      <3>2. rs[k].amount = settled'[k] + Cardinality(Held(k)')
        BY <1>3, <1>19 DEF CountersExact
      <3>3. Held(k)' \in SUBSET Units  BY DEF Held, Units
      <3>4. Cardinality(Held(k)') \in Nat  BY <3>3, UnitsFinite
      <3>5. settled'[k] \in Nat  BY <1>6, <1>7
      <3>6. LimitOf(k[2]) \in Nat
        BY ConstantsAssumption, KindsApart DEF ConstantsAssumption, LimitOf
      <3> QED  BY <1>6, <3>1, <3>2, <3>4, <3>5, <3>6
    <2> QED  BY <2>1, <2>2
  <1> QED  BY <1>11, <1>19, <1>20, <1>21 DEF CountersInv

\* The minute takes the estimate, within its limit, and nothing else does.
MinuteTakes(t, minute, anchor) ==
    /\ minute \in [Keys -> Row] /\ \A k \in Keys : minute[k].live => minute[k].gen > 0
    /\ \A k \in Keys : k[2] \in AllowanceKinds => minute[k] = rows[k]
    /\ \A k \in Keys : k[2] = "tpm" =>
         IF TakesFrom(t, k, anchor, TRUE)
         THEN /\ Grown(rows[k], minute[k], 0, want[t])
              /\ LimitOf("tpm") > 0 => minute[k].amount <= LimitOf("tpm")
         ELSE minute[k] = rows[k]

\* A minute that is not over its limit takes the estimate, and no window is touched.
LEMMA MinuteReserves ==
    ASSUME TypeOK, Incarnations, NEW t \in Turns, NEW anchor \in Times, NEW minute,
           minute = RateCharged(rows, Owner[t], want[t], res[t].at),
           ~ RateRefuses(rows, Owner[t], want[t], res[t].at)
    PROVE  MinuteTakes(t, minute, anchor) /\ Reserves(t, minute, anchor, 0, FALSE)
  <1> DEFINE a == Owner[t]
             at == res[t].at
  <1>1. want[t] \in Nat /\ rows \in [Keys -> Row] /\ at \in Times /\ a \in Accounts
    BY Typed, ConstantTypes
  <1>2. minute \in [Keys -> Row]
    BY <1>1, RateChargedType
  <1>3. Key(a, "tpm", at, 0) \in Keys
    BY <1>1, ConstantTypes, KindsApart, KeyType
  <1>4. TokenRateOn => minute[Key(a, "tpm", at, 0)].amount <= TpmLimit
    <2>1. minute[Key(a, "tpm", at, 0)].amount \in Nat  BY <1>2, <1>3, RowFields
    <2>2. TpmLimit \in Nat  BY ConstantsAssumption DEF ConstantsAssumption
    <2>3. TpmLimit > 0 => ~ (minute[Key(a, "tpm", at, 0)].amount > TpmLimit)  BY DEF RateRefuses
    <2> QED  BY <2>1, <2>2, <2>3 DEF TokenRateOn
  <1>5. ASSUME NEW k \in Keys, k[2] \in TokenWindows
        PROVE  minute[k] = IF TokenRateOn /\ k = Key(a, "tpm", at, 0) THEN Bump(rows[k], 0, want[t]) ELSE rows[k]
    BY <1>5, RateChargedRow
  <1>6. ASSUME NEW k \in Keys
        PROVE  Grown(rows[k], Bump(rows[k], 0, want[t]), 0, want[t])
    BY <1>1, GrownByBump DEF Incarnations
  <1>7. ASSUME NEW k \in Keys, k[2] \in AllowanceKinds
        PROVE  minute[k] = rows[k]
    <2>1. k # Key(a, "tpm", at, 0) /\ k[2] \in TokenWindows  BY <1>7, KeyKind, KindsApart
    <2> QED  BY <1>5, <2>1
  <1>8. ASSUME NEW k \in Keys, k[2] = "tpm"
        PROVE  IF TakesFrom(t, k, anchor, TRUE)
               THEN /\ Grown(rows[k], minute[k], 0, want[t])
                    /\ LimitOf("tpm") > 0 => minute[k].amount <= LimitOf("tpm")
               ELSE minute[k] = rows[k]
    <2>1. TakesFrom(t, k, anchor, TRUE) <=> TokenRateOn /\ k = Key(a, "tpm", at, 0)
      BY <1>8, MinuteKey DEF TakesFrom
    <2>2. k[2] \in TokenWindows  BY <1>8, KindsApart
    <2> QED  BY <1>4, <1>5, <1>6, <2>1, <2>2 DEF LimitOf
  <1>9. ASSUME NEW k \in Keys, k[2] \in TokenWindows
        PROVE  IF TakesFrom(t, k, anchor, FALSE)
               THEN /\ Grown(rows[k], minute[k], IF k[2] = "tpm" THEN 0 ELSE 1, Takes(t, k[2], 0))
                    /\ LimitOf(k[2]) > 0 => minute[k].amount <= LimitOf(k[2])
               ELSE minute[k] = rows[k]
    <2>1. CASE k[2] = "tpm"
      BY <1>8, <2>1 DEF TakesFrom, Takes
    <2>2. CASE k[2] \in AllowanceKinds
      BY <1>7, <2>2, KindsApart DEF TakesFrom
    <2> QED  BY <1>9, <2>1, <2>2, KindsApart
  <1>10. ASSUME NEW k \in Keys, minute[k].live
         PROVE  minute[k].gen > 0
    <2>2. CASE k[2] \in TokenWindows
      BY <1>5, <1>6, <1>10, <2>2 DEF Incarnations, Grown
    <2>3. CASE k[2] \notin TokenWindows
      <3>1. k # Key(a, "tpm", at, 0)  BY <2>3, KeyKind, KindsApart
      <3>2. minute[k] \in {rows[k], Bump(rows[k], 1, 0)}
        BY <3>1 DEF RateCharged, BumpAll
      <3>3. Grown(rows[k], Bump(rows[k], 1, 0), 1, 0)
        BY <1>1, GrownByBump DEF Incarnations
      <3> QED  BY <1>10, <3>2, <3>3 DEF Grown, Incarnations
    <2> QED  BY <2>2, <2>3
  <1> QED  BY <1>2, <1>7, <1>8, <1>9, <1>10 DEF MinuteTakes, Reserves

\* A row of an account's window is one the turn takes from.
LEMMA WindowTaken ==
    ASSUME NEW t \in Turns, NEW anchor, NEW k, k[2] \in AllowanceKinds
    PROVE  TakesFrom(t, k, anchor, TRUE) <=> k \in KeysAt(Owner[t], AllowanceKinds, res[t].at, anchor)
  BY WindowKey, KindsApart DEF TakesFrom

MinuteOf(t) == RateCharged(rows, Owner[t], want[t], res[t].at)
WindowsOf(t, anchor) == KeysAt(Owner[t], AllowanceKinds, res[t].at, anchor)
WalkOf(t, before, anchor, charged) == ReserveAllowance(before, Owner[t], anchor, charged, res[t].at)

\* Rows a walk may start from: outside the windows as the minute left them, and
\* a window as it was, given back to, or cleared.
MayStart(t, before, anchor) ==
    /\ LiveRows(before)
    /\ \A k \in Keys : k \notin WindowsOf(t, anchor) => before[k] = MinuteOf(t)[k]
    /\ \A k \in Keys : k[2] \in AllowanceKinds =>
         \/ before[k] = rows[k] \/ Grown(rows[k], before[k], 0, 0)
         \/ ~ before[k].live /\ before[k].gen >= rows[k].gen

\* A window that was no row before the walk holds this reservation alone.
HoldsAlone(t, before, rs, anchor, charged) ==
    \A k \in WindowsOf(t, anchor) :
        k \in Keys /\ ~ before[k].live => rs[k].requests = 1 /\ rs[k].amount = charged

\* A walk that is let through, over the rows as they were or with windows cleared.
LEMMA WalkReserves ==
    ASSUME TypeOK, Incarnations, NEW t \in Turns, NEW anchor \in Times, NEW charged \in Nat,
           ~ RateRefuses(rows, Owner[t], want[t], res[t].at),
           NEW before, MayStart(t, before, anchor),
           WalkOf(t, before, anchor, charged).refused = 0
    PROVE  /\ LiveRows(WalkOf(t, before, anchor, charged).rows)
           /\ Reserves(t, WalkOf(t, before, anchor, charged).rows, anchor, charged, TRUE)
           /\ HoldsAlone(t, before, WalkOf(t, before, anchor, charged).rows, anchor, charged)
  <1> DEFINE a == Owner[t]
             at == res[t].at
             windows == KeysAt(a, AllowanceKinds, at, anchor)
             walk == WalkOf(t, before, anchor, charged)
             minute == MinuteOf(t)
             rs == walk.rows
  <1>0. /\ LiveRows(before) /\ before \in [Keys -> Row] /\ \A k \in Keys : before[k].live => before[k].gen > 0
        /\ \A k \in Keys : k \notin windows => before[k] = minute[k]
        /\ \A k \in Keys : k[2] \in AllowanceKinds =>
             \/ before[k] = rows[k] \/ Grown(rows[k], before[k], 0, 0)
             \/ ~ before[k].live /\ before[k].gen >= rows[k].gen
    BY DEF MayStart, LiveRows, WindowsOf
  <1>1. rs = BumpAll(before, windows, 1, charged) /\ \A w \in AllowanceKinds : ~ OverLimit(w, rs[Key(a, w, at, anchor)])
    <2>1. LiveRows(before)  BY <1>0
    <2>2. ReserveAllowance(before, Owner[t], anchor, charged, res[t].at).refused = 0  BY DEF WalkOf
    <2>3. /\ ReserveAllowance(before, Owner[t], anchor, charged, res[t].at).rows
               = BumpAll(before, KeysAt(Owner[t], AllowanceKinds, res[t].at, anchor), 1, charged)
          /\ \A w \in AllowanceKinds :
               ~ OverLimit(w, ReserveAllowance(before, Owner[t], anchor, charged, res[t].at).rows[Key(Owner[t], w, res[t].at, anchor)])
      BY <2>1, <2>2, WalkAdmits
    <2> QED  BY <2>3 DEF WalkOf
  <1>2. \A k \in Keys : rs[k] = IF k \in windows THEN Bump(before[k], 1, charged) ELSE before[k]
    BY <1>1 DEF BumpAll
  <1>3. rs \in [Keys -> Row]
    BY <1>0, <1>1, BumpAllType
  <1>4. /\ minute \in [Keys -> Row] /\ \A k \in Keys : minute[k].live => minute[k].gen > 0
        /\ \A k \in Keys : k[2] \in AllowanceKinds => minute[k] = rows[k]
        /\ \A k \in Keys : k[2] = "tpm" => IF TakesFrom(t, k, anchor, TRUE)
                THEN /\ Grown(rows[k], minute[k], 0, want[t])
                     /\ LimitOf("tpm") > 0 => minute[k].amount <= LimitOf("tpm")
                ELSE minute[k] = rows[k]
    <2>1. minute = RateCharged(rows, Owner[t], want[t], res[t].at)  BY DEF MinuteOf
    <2> HIDE DEF minute
    <2>2. MinuteTakes(t, minute, anchor)  BY <2>1, MinuteReserves
    <2> QED  BY <2>2 DEF MinuteTakes
  <1> HIDE DEF rs, walk, minute, windows
  <1>5. ASSUME NEW k \in Keys, k[2] \in AllowanceKinds, k \in windows
        PROVE  /\ Grown(rows[k], rs[k], 1, charged)
               /\ ~ before[k].live => rs[k].requests = 1 /\ rs[k].amount = charged
    <2>1. rows[k] \in Row /\ before[k] \in Row /\ 1 \in Nat /\ (rows[k].live => rows[k].gen > 0)
      BY <1>0, Typed DEF Incarnations
    <2>2. CASE before[k] = rows[k]
      BY <1>2, <1>5, <2>1, <2>2, GrownByBump, BumpRow
    <2>3. CASE Grown(rows[k], before[k], 0, 0)
      <3>1. before[k].live  BY <2>3 DEF Grown
      <3> QED  BY <1>2, <1>5, <2>1, <2>3, <3>1, GrownAgain
    <2>4. CASE ~ before[k].live /\ before[k].gen >= rows[k].gen
      BY <1>2, <1>5, <2>1, <2>4, GrownAfresh
    <2> QED  BY <1>0, <1>5, <2>2, <2>3, <2>4
  <1>6. ASSUME NEW k \in Keys, k[2] \in TokenWindows
        PROVE  IF TakesFrom(t, k, anchor, TRUE)
               THEN /\ Grown(rows[k], rs[k], IF k[2] = "tpm" THEN 0 ELSE 1, Takes(t, k[2], charged))
                    /\ LimitOf(k[2]) > 0 => rs[k].amount <= LimitOf(k[2])
               ELSE rs[k] = rows[k]
    <2>1. CASE k[2] = "tpm"
      <3>1. k \notin windows  BY <2>1, WindowKey, KindsApart DEF windows
      <3>2. rs[k] = minute[k]  BY <1>0, <1>2, <3>1
      <3> QED  BY <1>4, <2>1, <3>2 DEF Takes
    <2>2. CASE k[2] \in AllowanceKinds /\ k \in windows
      <3>1. TakesFrom(t, k, anchor, TRUE)  BY <2>2, WindowTaken DEF windows
      <3>2. ~ OverLimit(k[2], rs[k])  BY <1>1, <2>2, WindowKey DEF windows
      <3>3. rs[k].amount \in Nat /\ AmountLimit[k[2]] \in Nat
        BY <1>3, <2>2, RowFields, ConstantsAssumption DEF ConstantsAssumption
      <3>4. LimitOf(k[2]) = AmountLimit[k[2]] /\ k[2] # "tpm"  BY <2>2, KindsApart DEF LimitOf
      <3>5. LimitOf(k[2]) > 0 => rs[k].amount <= LimitOf(k[2])
        BY <3>2, <3>3, <3>4 DEF OverLimit
      <3> QED  BY <1>5, <2>2, <3>1, <3>4, <3>5 DEF Takes
    <2>3. CASE k[2] \in AllowanceKinds /\ k \notin windows
      <3>1. ~ TakesFrom(t, k, anchor, TRUE)  BY <2>3, WindowTaken DEF windows
      <3> QED  BY <1>0, <1>2, <1>4, <2>3, <3>1
    <2> QED  BY <1>6, <2>1, <2>2, <2>3, KindsApart
  <1>7. ASSUME NEW k \in Keys, rs[k].live
        PROVE  rs[k].gen > 0
    <2>1. CASE k \in windows
      <3>1. k[2] \in AllowanceKinds  BY <2>1, WindowKey DEF windows
      <3> QED  BY <1>5, <2>1, <3>1 DEF Grown
    <2>2. CASE k \notin windows
      BY <1>0, <1>2, <1>7, <2>2
    <2> QED  BY <2>1, <2>2
  <1>8. ASSUME NEW k \in windows, k \in Keys, ~ before[k].live
        PROVE  rs[k].requests = 1 /\ rs[k].amount = charged
    <2>1. k[2] \in AllowanceKinds  BY WindowKey DEF windows
    <2> QED  BY <1>5, <1>8, <2>1
  <1>9. LiveRows(rs)  BY <1>3, <1>7 DEF LiveRows
  <1>10. Reserves(t, rs, anchor, charged, TRUE)  BY <1>6 DEF Reserves
  <1>11. HoldsAlone(t, before, rs, anchor, charged)  BY <1>8 DEF HoldsAlone, WindowsOf, windows
  <1> QED  BY <1>9, <1>10, <1>11 DEF rs, walk

\* The rows new are old but for the windows ks: those named are gone, another is as
\* it was or new and empty.
Cleared(old, new, ks, named) ==
    /\ LiveRows(new)
    /\ \A k \in Keys : k \notin ks => new[k] = old[k]
    /\ \A k \in Keys : k \in named => ~ new[k].live
    /\ \A k \in Keys :
         \/ new[k] = old[k] \/ Grown(old[k], new[k], 0, 0)
         \/ ~ new[k].live /\ new[k].gen >= old[k].gen

\* The windows a card clears: what was taken back, then made new where it names them.
LEMMA ClearedRows ==
    ASSUME TypeOK, NEW a, NEW anchor, NEW at, NEW ws, ws \subseteq AllowanceKinds,
           NEW minute, LiveRows(minute),
           NEW back, GivenBack(minute, back, KeysAt(a, AllowanceKinds, at, anchor)),
           NEW cleared, cleared = ClearAllowance(back, a, anchor, at, ws)
    PROVE  Cleared(minute, cleared, KeysAt(a, AllowanceKinds, at, anchor), KeysAt(a, ws, at, anchor))
  <1>0. /\ minute \in [Keys -> Row] /\ back \in [Keys -> Row]
        /\ \A k \in Keys : k \notin KeysAt(a, AllowanceKinds, at, anchor) => back[k] = minute[k]
        /\ \A k \in Keys : minute[k].live => minute[k].gen > 0
        /\ \A k \in Keys : back[k] = minute[k] \/ Grown(minute[k], back[k], 0, 0)
    BY DEF LiveRows, GivenBack
  <1> DEFINE windows == KeysAt(a, AllowanceKinds, at, anchor)
             named == KeysAt(a, ws, at, anchor)
  <1>1. cleared \in [Keys -> Row]
    BY <1>0, ClearAllowanceType
  <1>2. \A k : k \in named => k \in windows
    BY WindowKey
  <1> HIDE DEF windows, named
  <1>3. \A k \in Keys : cleared[k] = IF k \in named THEN Delete(IF k \in windows THEN Bump(back[k], 0, 0) ELSE back[k])
                                     ELSE IF k \in windows THEN Bump(back[k], 0, 0) ELSE back[k]
    BY DEF ClearAllowance, DeleteAll, BumpAll, windows, named
  <1>4. ASSUME NEW k \in Keys
        PROVE  Grown(minute[k], Bump(back[k], 0, 0), 0, 0)
    <2>1. minute[k] \in Row /\ back[k] \in Row /\ 0 \in Nat  BY <1>0
    <2> QED  BY <1>0, <2>1, GrownByBump, GrownAgain
  <1>5. ASSUME NEW k \in Keys, k \in named
        PROVE  ~ cleared[k].live /\ cleared[k].gen >= minute[k].gen
    <2>1. cleared[k] = Delete(Bump(back[k], 0, 0))  BY <1>2, <1>3, <1>5
    <2>2. Bump(back[k], 0, 0).gen >= minute[k].gen
      <3>1. Bump(back[k], 0, 0) \in Row /\ minute[k] \in Row  BY <1>0, BumpType
      <3>2. Bump(back[k], 0, 0).gen \in Nat /\ minute[k].gen \in Nat  BY <3>1, RowFields
      <3> QED  BY <1>4, <3>2 DEF Grown
    <2> QED  BY <2>1, <2>2 DEF Delete
  <1>6. ASSUME NEW k \in Keys, k \notin named, k \in windows
        PROVE  Grown(minute[k], cleared[k], 0, 0)
    BY <1>3, <1>4, <1>6
  <1>7. ASSUME NEW k \in Keys, k \notin windows
        PROVE  cleared[k] = minute[k]
    BY <1>0, <1>2, <1>3, <1>7 DEF windows
  <1>8. \A k \in Keys : cleared[k].live => cleared[k].gen > 0
    BY <1>0, <1>5, <1>6, <1>7 DEF Grown
  <1>9. \A k \in Keys :
          \/ cleared[k] = minute[k] \/ Grown(minute[k], cleared[k], 0, 0)
          \/ ~ cleared[k].live /\ cleared[k].gen >= minute[k].gen
    BY <1>5, <1>6, <1>7
  <1> QED  BY <1>1, <1>5, <1>7, <1>8, <1>9 DEF windows, named, LiveRows, Cleared

\* A turn that is not held moves on, or is held without having been charged.
LEMMA UnboundStep ==
    ASSUME CountersInv, TypeOK', NEW t \in Turns, pc[t] # "held", UNCHANGED <<rows, settled, released>>,
           \A u \in Turns \ {t} : pc'[u] = pc[u] /\ res'[u] = res[u],
           res'[t].charged = res[t].charged, res'[t].covered = res[t].covered, res'[t].gens = res[t].gens
    PROVE  CountersInv'
  <1>1. TypeOK /\ Incarnations  BY DEF CountersInv
  <1>2. \A w \in TokenWindows : res'[t].gens[w] = 0  BY <1>1 DEF Incarnations
  <1>3. \A k : ~ Bound(t, k)  BY DEF Bound
  <1>4. ASSUME NEW k \in Keys
        PROVE  ~ Bound(t, k)'
    <2>1. SUFFICES ASSUME Bound(t, k)' PROVE FALSE  OBVIOUS
    <2>2. k[2] \in TokenWindows /\ rows[k].live /\ res'[t].gens[k[2]] = rows[k].gen
      BY <2>1 DEF Bound
    <2> QED  BY <1>1, <1>2, <2>2 DEF Incarnations
  <1>5. \A k : \A u \in Turns \ {t} : Bound(u, k)' <=> Bound(u, k)
    BY DEF Bound
  <1>6. ASSUME NEW k \in Keys
        PROVE  Held(k)' = Held(k) /\ Holders(k)' = Holders(k)
    <2>1. \A u \in Turns : Bound(u, k) => u # t  BY <1>3
    <2>2. \A u \in Turns : Bound(u, k)' <=> Bound(u, k)  BY <1>3, <1>4, <1>5
    <2>3. \A u \in Turns \X (1 .. MaxCost) : u[1] \in Turns  OBVIOUS
    <2>4. Holders(k)' = Holders(k)  BY <2>2 DEF Holders
    <2>5. Held(k)' = Held(k)  BY <2>1, <2>2, <2>3 DEF Held, Share
    <2> QED  BY <2>4, <2>5
  <1>7. Incarnations'
    <2>1. ASSUME NEW u \in Turns, NEW w \in TokenWindows, pc'[u] = "held"
          PROVE  res'[u].gens[w] <= rows[Key(Owner[u], w, res'[u].at, res'[u].anchor)].gen
      <3>1. CASE u # t  BY <1>1, <2>1, <3>1 DEF Incarnations
      <3>2. CASE u = t
        <4>1. res'[t].at \in Times /\ res'[t].anchor \in Times
          <5>1. res'[t] \in Reservation  BY DEF TypeOK
          <5> QED  BY <5>1 DEF Reservation
        <4>2. Key(Owner[t], w, res'[t].at, res'[t].anchor) \in Keys
          BY <4>1, ConstantTypes, KindsApart, KeyType
        <4>3. rows[Key(Owner[t], w, res'[t].at, res'[t].anchor)].gen \in Nat
          BY <1>1, <4>2, Typed
        <4> QED  BY <1>2, <3>2, <4>3
      <3> QED  BY <3>1, <3>2
    <2>2. \A u \in Turns : pc'[u] # "held" =>
            /\ ~ released[u] /\ res'[u].charged = 0 /\ res'[u].covered = 0
            /\ \A w \in TokenWindows : res'[u].gens[w] = 0
      <3>1. ASSUME NEW u \in Turns, pc'[u] # "held"
            PROVE  /\ ~ released[u] /\ res'[u].charged = 0 /\ res'[u].covered = 0
                   /\ \A w \in TokenWindows : res'[u].gens[w] = 0
        <4>1. CASE u = t  BY <1>1, <4>1 DEF Incarnations
        <4>2. CASE u # t  BY <1>1, <3>1, <4>2 DEF Incarnations
        <4> QED  BY <4>1, <4>2
      <3> QED  BY <3>1
    <2>3. \A u \in Turns : res'[u].charged + res'[u].covered \in Costs
      <3>1. ASSUME NEW u \in Turns
            PROVE  res'[u].charged + res'[u].covered \in Costs
        <4>1. res'[u].charged = res[u].charged /\ res'[u].covered = res[u].covered  OBVIOUS
        <4> QED  BY <1>1, <4>1 DEF Incarnations
      <3> QED  BY <3>1
    <2> QED  BY <1>1, <2>1, <2>2, <2>3 DEF Incarnations
  <1>8. CountersExact' /\ RequestsExact' /\ RunningWithinLimit'
    <2>1. CountersExact'  BY <1>6 DEF CountersInv, CountersExact
    <2>2. RequestsExact'  BY <1>6 DEF CountersInv, RequestsExact, Holders
    <2>3. RunningWithinLimit'  BY <1>6 DEF CountersInv, RunningWithinLimit, LimitOf
    <2> QED  BY <2>1, <2>2, <2>3
  <1> QED  BY <1>7, <1>8 DEF CountersInv
LEMMA RefusedStep ==
    ASSUME CountersInv, TypeOK', NEW t \in Turns, pc[t] # "held", NEW next, Refuse(t, next), UNCHANGED released
    PROVE  CountersInv'
  <1>1. UNCHANGED <<rows, settled, released, res>> /\ pc' = [pc EXCEPT ![t] = next]
    BY DEF Refuse
  <1>2. \A u \in Turns \ {t} : pc'[u] = pc[u]
    BY <1>1 DEF CountersInv, TypeOK
  <1> QED  BY <1>1, <1>2, UnboundStep

LEMMA AskStep ==
    ASSUME CountersInv, TypeOK', NEW t \in Turns, NEW estimate, NEW exclusive, Ask(t, estimate, exclusive)
    PROVE  CountersInv'
  <1>1. UNCHANGED <<rows, settled, released>> /\ pc[t] # "held"
    BY DEF Ask
  <1>2. \A u \in Turns \ {t} : pc'[u] = pc[u] /\ res'[u] = res[u]
    BY DEF Ask, CountersInv, TypeOK
  <1>3. res[t] \in Reservation /\ res' = [res EXCEPT ![t].at = now]
    BY DEF Ask, CountersInv, TypeOK
  <1>4. res'[t] = [res[t] EXCEPT !.at = now]
    BY <1>3 DEF CountersInv, TypeOK
  <1>5. res'[t].charged = res[t].charged /\ res'[t].covered = res[t].covered /\ res'[t].gens = res[t].gens
    BY <1>3, <1>4 DEF Reservation
  <1> QED  BY <1>1, <1>2, <1>5, UnboundStep

\* The bars pay for the whole estimate: the minute is charged and no window is.
LEMMA MinuteStep ==
    ASSUME CountersInv, TypeOK', NEW t \in Turns, pc[t] # "held", NEW anchor \in Times,
           ~ RateRefuses(rows, Owner[t], want[t], res[t].at),
           Hold(t, RateCharged(rows, Owner[t], want[t], res[t].at), anchor, 0, FALSE), UNCHANGED released
    PROVE  CountersInv'
  <1> DEFINE minute == RateCharged(rows, Owner[t], want[t], res[t].at)
  <1>1. TypeOK /\ Incarnations  BY DEF CountersInv
  <1>2. minute \in [Keys -> Row] /\ (\A k \in Keys : minute[k].live => minute[k].gen > 0)
        /\ Reserves(t, minute, anchor, 0, FALSE)
    BY <1>1, MinuteReserves DEF MinuteTakes
  <1>3. 0 \in 0 .. want[t]  BY <1>1, Typed
  <1> QED  BY <1>2, <1>3, HoldStep

\* What the minute leaves for the walk: every allowance window as it was.
LEMMA MinuteLeaves ==
    ASSUME TypeOK, Incarnations, NEW t \in Turns, ~ RateRefuses(rows, Owner[t], want[t], res[t].at)
    PROVE  /\ LiveRows(RateCharged(rows, Owner[t], want[t], res[t].at))
           /\ \A k \in Keys : k[2] \in AllowanceKinds => RateCharged(rows, Owner[t], want[t], res[t].at)[k] = rows[k]
  <1>1. 0 \in Times  BY ConstantTypes
  <1> QED  BY <1>1, MinuteReserves DEF MinuteTakes, LiveRows

\* The windows take what the bars leave.
LEMMA WindowsStep ==
    ASSUME CountersInv, TypeOK', NEW t \in Turns, pc[t] # "held", NEW anchor \in Times, NEW charged \in 0 .. want[t],
           ~ RateRefuses(rows, Owner[t], want[t], res[t].at),
           ReserveAllowance(RateCharged(rows, Owner[t], want[t], res[t].at), Owner[t], anchor, charged, res[t].at).refused = 0,
           Hold(t, ReserveAllowance(RateCharged(rows, Owner[t], want[t], res[t].at), Owner[t], anchor, charged, res[t].at).rows,
                anchor, charged, TRUE),
           UNCHANGED released
    PROVE  CountersInv'
  <1> DEFINE rs == WalkOf(t, MinuteOf(t), anchor, charged).rows
  <1>1. TypeOK /\ Incarnations /\ charged \in Nat  BY DEF CountersInv
  <1>2. /\ LiveRows(MinuteOf(t))
        /\ \A k \in Keys : k[2] \in AllowanceKinds => MinuteOf(t)[k] = rows[k]
    BY <1>1, MinuteLeaves DEF MinuteOf
  <1>3. MayStart(t, MinuteOf(t), anchor)
    BY <1>2 DEF MayStart
  <1>4. WalkOf(t, MinuteOf(t), anchor, charged).refused = 0 /\ Hold(t, rs, anchor, charged, TRUE)
    BY DEF WalkOf, MinuteOf
  <1>5. LiveRows(rs) /\ Reserves(t, rs, anchor, charged, TRUE)
    BY <1>1, <1>3, <1>4, WalkReserves
  <1> HIDE DEF rs
  <1>6. rs \in [Keys -> Row] /\ \A k \in Keys : rs[k].live => rs[k].gen > 0
    BY <1>5 DEF LiveRows
  <1> QED  BY <1>4, <1>5, <1>6, HoldStep

LEMMA ReserveOnceStep ==
    ASSUME CountersInv, TypeOK', NEW t \in Turns, NEW paid \in Costs, ReserveOnce(t, paid)
    PROVE  CountersInv'
  <1>1. TypeOK /\ pc[t] # "held" /\ UNCHANGED released /\ paid <= want[t]
    BY DEF CountersInv, ReserveOnce, Payable
  <1>2. AnchorFor(Owner[t]) \in Times
    BY <1>1, AnchorForType, ConstantTypes
  <1>3. want[t] - paid \in 0 .. want[t]
    BY <1>1, Typed, ConstantTypes
  <1>4. CASE RateRefuses(rows, Owner[t], want[t], res[t].at)
    BY <1>1, <1>4, RefusedStep DEF ReserveOnce
  <1>5. CASE ~ RateRefuses(rows, Owner[t], want[t], res[t].at) /\ Covered(t, paid)
    BY <1>1, <1>2, <1>5, MinuteStep DEF ReserveOnce
  <1>6. CASE ~ RateRefuses(rows, Owner[t], want[t], res[t].at) /\ ~ Covered(t, paid)
    <2>1. CASE ReserveAllowance(RateCharged(rows, Owner[t], want[t], res[t].at), Owner[t], AnchorFor(Owner[t]),
                                want[t] - paid, res[t].at).refused = 0
      BY <1>1, <1>2, <1>3, <1>6, <2>1, WindowsStep DEF ReserveOnce
    <2>2. CASE ReserveAllowance(RateCharged(rows, Owner[t], want[t], res[t].at), Owner[t], AnchorFor(Owner[t]),
                                want[t] - paid, res[t].at).refused # 0
      BY <1>1, <1>6, <2>2, RefusedStep DEF ReserveOnce
    <2> QED  BY <2>1, <2>2
  <1> QED  BY <1>4, <1>5, <1>6

LEMMA ReserveFromBonusStep ==
    ASSUME CountersInv, TypeOK', NEW t \in Turns, NEW enough, ReserveFromBonus(t, enough)
    PROVE  CountersInv'
  <1>1. TypeOK /\ pc[t] # "held" /\ UNCHANGED released /\ 0 \in Times
    BY ConstantTypes DEF CountersInv, ReserveFromBonus
  <1>2. CASE want[t] > 0 /\ RateRefuses(rows, Owner[t], want[t], res[t].at)
    BY <1>1, <1>2, RefusedStep DEF ReserveFromBonus
  <1>3. CASE ~ (want[t] > 0 /\ RateRefuses(rows, Owner[t], want[t], res[t].at)) /\ enough
    BY <1>1, <1>3, MinuteStep DEF ReserveFromBonus
  <1>4. CASE ~ (want[t] > 0 /\ RateRefuses(rows, Owner[t], want[t], res[t].at)) /\ ~ enough
    <2>1. PICK next : Refuse(t, next)
      BY <1>4 DEF ReserveFromBonus
    <2> QED  BY <1>1, <2>1, RefusedStep
  <1> QED  BY <1>2, <1>3, <1>4
\* The rows a card's retry walks over, and the retry.
ClearedFor(t, anchor, charged, ws) ==
    ClearAllowance(WalkOf(t, MinuteOf(t), anchor, charged).rows, Owner[t], anchor, res[t].at, ws)

RetryOf(t, anchor, charged, ws) == WalkOf(t, ClearedFor(t, anchor, charged, ws), anchor, charged)

\* The windows ws hold this reservation and nothing else.
HoldsOnly(t, rs, ws, anchor, charged) ==
    \A w \in ws : LET k == Key(Owner[t], w, res[t].at, anchor)
                  IN rs[k].requests = 1 /\ rs[k].amount = charged

\* The retry after a card: the windows it cleared are new rows, which hold this
\* reservation and nothing else; the others take the estimate once.
LEMMA RetryReserves ==
    ASSUME TypeOK, Incarnations, NEW t \in Turns, NEW anchor \in Times, NEW charged \in Nat, NEW ws, ws \subseteq AllowanceKinds,
           ~ RateRefuses(rows, Owner[t], want[t], res[t].at),
           WalkOf(t, MinuteOf(t), anchor, charged).refused # 0,
           RetryOf(t, anchor, charged, ws).refused = 0
    PROVE  /\ LiveRows(RetryOf(t, anchor, charged, ws).rows)
           /\ Reserves(t, RetryOf(t, anchor, charged, ws).rows, anchor, charged, TRUE)
           /\ HoldsOnly(t, RetryOf(t, anchor, charged, ws).rows, ws, anchor, charged)
  <1> DEFINE cleared == ClearedFor(t, anchor, charged, ws)
             rs == RetryOf(t, anchor, charged, ws).rows
  <1>1. /\ LiveRows(MinuteOf(t))
        /\ \A k \in Keys : k[2] \in AllowanceKinds => MinuteOf(t)[k] = rows[k]
    BY MinuteLeaves DEF MinuteOf
  <1>2. GivenBack(MinuteOf(t), WalkOf(t, MinuteOf(t), anchor, charged).rows, WindowsOf(t, anchor))
    BY <1>1, WalkTakesBack DEF WalkOf, WindowsOf
  <1>3. cleared = ClearAllowance(WalkOf(t, MinuteOf(t), anchor, charged).rows, Owner[t], anchor, res[t].at, ws)
    BY DEF ClearedFor
  <1> HIDE DEF cleared
  <1>4. /\ LiveRows(cleared)
        /\ \A k \in Keys : k \notin WindowsOf(t, anchor) => cleared[k] = MinuteOf(t)[k]
        /\ \A k \in Keys : k \in KeysAt(Owner[t], ws, res[t].at, anchor) => ~ cleared[k].live
        /\ \A k \in Keys :
             \/ cleared[k] = MinuteOf(t)[k] \/ Grown(MinuteOf(t)[k], cleared[k], 0, 0)
             \/ ~ cleared[k].live /\ cleared[k].gen >= MinuteOf(t)[k].gen
    <2>1. GivenBack(MinuteOf(t), WalkOf(t, MinuteOf(t), anchor, charged).rows, KeysAt(Owner[t], AllowanceKinds, res[t].at, anchor))
      BY <1>2 DEF WindowsOf
    <2>2. Cleared(MinuteOf(t), cleared, KeysAt(Owner[t], AllowanceKinds, res[t].at, anchor),
                  KeysAt(Owner[t], ws, res[t].at, anchor))
      BY <1>1, <1>3, <2>1, ClearedRows
    <2> QED  BY <2>2 DEF Cleared, WindowsOf
  <1>5. MayStart(t, cleared, anchor)
    BY <1>1, <1>4 DEF MayStart
  <1>6. WalkOf(t, cleared, anchor, charged).refused = 0 /\ rs = WalkOf(t, cleared, anchor, charged).rows
    BY DEF RetryOf, cleared
  <1>7. LiveRows(rs) /\ Reserves(t, rs, anchor, charged, TRUE) /\ HoldsAlone(t, cleared, rs, anchor, charged)
    BY <1>5, <1>6, WalkReserves
  <1> HIDE DEF rs
  <1>8. ASSUME NEW w \in ws
        PROVE  LET k == Key(Owner[t], w, res[t].at, anchor)
               IN rs[k].requests = 1 /\ rs[k].amount = charged
    <2>1. w \in AllowanceKinds /\ w \in CounterKinds  BY KindsApart
    <2>2. Key(Owner[t], w, res[t].at, anchor) \in Keys  BY <2>1, Typed, ConstantTypes, KeyType
    <2>3. /\ Key(Owner[t], w, res[t].at, anchor) \in KeysAt(Owner[t], ws, res[t].at, anchor)
          /\ Key(Owner[t], w, res[t].at, anchor) \in WindowsOf(t, anchor)
      BY <2>1 DEF KeysAt, WindowsOf
    <2> QED  BY <1>4, <1>7, <2>2, <2>3 DEF HoldsAlone
  <1>9. HoldsOnly(t, rs, ws, anchor, charged)  BY <1>8 DEF HoldsOnly
  <1> QED  BY <1>7, <1>9 DEF rs

LEMMA ReserveWithCardStep ==
    ASSUME CountersInv, TypeOK', NEW t \in Turns, NEW paid \in Costs, ReserveWithCard(t, paid)
    PROVE  CountersInv'
  <1> DEFINE anchor == AnchorFor(Owner[t])
             charged == want[t] - paid
             minute == RateCharged(rows, Owner[t], want[t], res[t].at)
             walk == ReserveAllowance(minute, Owner[t], anchor, charged, res[t].at)
             retry(c) == ReserveAllowance(ClearAllowance(walk.rows, Owner[t], anchor, res[t].at, Covers[c]),
                                          Owner[t], anchor, charged, res[t].at)
  <1>1. TypeOK /\ Incarnations /\ pc[t] # "held" /\ UNCHANGED released /\ paid <= want[t]
    BY DEF CountersInv, ReserveWithCard, Payable
  <1>2. anchor \in Times
    BY <1>1, AnchorForType, ConstantTypes
  <1>3. charged \in 0 .. want[t] /\ charged \in Nat
    BY <1>1, Typed, ConstantTypes
  <1>4. CASE RateRefuses(rows, Owner[t], want[t], res[t].at)
    BY <1>1, <1>4, RefusedStep DEF ReserveWithCard
  <1>5. CASE ~ RateRefuses(rows, Owner[t], want[t], res[t].at) /\ Covered(t, paid)
    BY <1>1, <1>2, <1>5, MinuteStep DEF ReserveWithCard
  <1>6. CASE ~ RateRefuses(rows, Owner[t], want[t], res[t].at) /\ ~ Covered(t, paid)
    <2>1. CASE walk.refused = 0
      BY <1>1, <1>2, <1>3, <1>6, <2>1, WindowsStep DEF ReserveWithCard
    <2>2. CASE walk.refused # 0
      <3>1. \/ Refuse(t, "refused")
            \/ \E c \in cards : /\ retry(c).refused = 0
                                /\ Hold(t, retry(c).rows, anchor, charged, TRUE)
        BY <1>6, <2>2 DEF ReserveWithCard
      <3>2. ASSUME NEW c \in cards, retry(c).refused = 0, Hold(t, retry(c).rows, anchor, charged, TRUE)
            PROVE  CountersInv'
        <4>1. Covers[c] \subseteq AllowanceKinds
          BY <1>1, ConstantsAssumption DEF TypeOK, ConstantsAssumption
        <4> DEFINE rs == RetryOf(t, anchor, charged, Covers[c]).rows
        <4>2. RetryOf(t, anchor, charged, Covers[c]).refused = 0 /\ retry(c).rows = rs
              /\ WalkOf(t, MinuteOf(t), anchor, charged).refused # 0
          BY <2>2, <3>2 DEF RetryOf, ClearedFor, WalkOf, MinuteOf
        <4>3. LiveRows(rs) /\ Reserves(t, rs, anchor, charged, TRUE)
          <5> HIDE DEF anchor, charged
          <5> QED  BY <1>1, <1>2, <1>3, <1>6, <4>1, <4>2, RetryReserves
        <4>4. rs \in [Keys -> Row] /\ \A k \in Keys : rs[k].live => rs[k].gen > 0
          BY <4>3 DEF LiveRows
        <4>5. Hold(t, rs, anchor, charged, TRUE)
          BY <3>2, <4>2
        <4> HIDE DEF rs, anchor, charged
        <4> QED  BY <1>1, <1>2, <1>3, <4>3, <4>4, <4>5, HoldStep
      <3> QED  BY <1>1, <3>1, <3>2, RefusedStep
    <2> QED  BY <2>1, <2>2
  <1> QED  BY <1>4, <1>5, <1>6

(***************************************************************************)
(* Steps that move no turn                                                 *)
(***************************************************************************)

\* Deleting rows: those that stay keep what is remembered of them.
LEMMA DeletedRows ==
    ASSUME CountersInv, TypeOK', NEW ks, DeleteRows(ks), UNCHANGED <<pc, res, released>>
    PROVE  CountersInv'
  <1>1. rows' = DeleteAll(rows, ks) /\ settled' = Remembered(rows, rows')
    BY DEF DeleteRows
  <1>2. TypeOK  BY DEF CountersInv
  <1>3. ASSUME NEW k \in Keys
        PROVE  \/ ~ rows'[k].live /\ rows'[k].gen >= rows[k].gen
               \/ /\ rows'[k].live /\ rows[k].live /\ rows'[k].gen = rows[k].gen
                  /\ rows'[k].requests = rows[k].requests
                  /\ rows'[k].amount - settled'[k] = rows[k].amount - settled[k]
    <2>1. rows[k].gen \in Nat /\ rows[k].live \in BOOLEAN  BY <1>2, Typed
    <2>2. rows'[k] = IF k \in ks THEN Delete(rows[k]) ELSE rows[k]  BY <1>1 DEF DeleteAll
    <2>3. settled'[k] = IF rows'[k].live /\ rows'[k].gen = rows[k].gen THEN settled[k] ELSE 0
      BY <1>1 DEF Remembered
    <2>4. CASE k \in ks
      BY <2>1, <2>2, <2>4 DEF Delete
    <2>5. CASE k \notin ks
      BY <2>1, <2>2, <2>3, <2>5
    <2> QED  BY <2>4, <2>5
  <1> QED  BY <1>3, RowsChange

\* Nothing the counters speak of moves.
LEMMA IdleStep ==
    ASSUME CountersInv, TypeOK', UNCHANGED <<rows, settled, pc, res, released>>
    PROVE  CountersInv'
  <1>1. TypeOK  BY DEF CountersInv
  <1>2. ASSUME NEW k \in Keys
        PROVE  \/ ~ rows'[k].live /\ rows'[k].gen >= rows[k].gen
               \/ /\ rows'[k].live /\ rows[k].live /\ rows'[k].gen = rows[k].gen
                  /\ rows'[k].requests = rows[k].requests
                  /\ rows'[k].amount - settled'[k] = rows[k].amount - settled[k]
    <2>1. rows[k].gen \in Nat /\ rows[k].live \in BOOLEAN  BY <1>1, Typed
    <2> QED  BY <2>1
  <1> QED  BY <1>2, RowsChange

\* A settlement adds to a row what is remembered of it, and makes a row that holds
\* no reservation when it finds none.
LEMMA SettleCommitStep ==
    ASSUME CountersInv, TypeOK', NEW t \in Turns, SettleCommit(t)
    PROVE  CountersInv'
  <1> DEFINE touched == IF bill[t].cost > 0 THEN SettledTo(t) ELSE {}
  <1>1. TypeOK /\ UNCHANGED <<pc, res, released>>  BY DEF CountersInv, SettleCommit
  <1>2. \A k \in Keys : rows'[k] = IF k \in touched THEN Bump(rows[k], 0, SettlesWith(t, k)) ELSE rows[k]
    BY DEF SettleCommit
  <1>3. \A k \in Keys : settled'[k] = Remembered(rows, rows')[k] + (IF k \in touched THEN SettlesWith(t, k) ELSE 0)
    BY DEF SettleCommit
  <1> HIDE DEF touched
  <1>4. bill[t].cost \in Nat /\ bill[t].carried \in Nat
    <2>1. bill[t] \in [pc : {"none", "clock", "anchor", "done"}, at : Times, anchor : Times, cost : Costs, carried : Costs]
      BY <1>1 DEF TypeOK
    <2> QED  BY <2>1, ConstantTypes
  <1>5. ASSUME NEW k \in Keys
        PROVE  \/ ~ rows'[k].live /\ rows'[k].gen >= rows[k].gen
               \/ /\ rows'[k].live /\ rows[k].live /\ rows'[k].gen = rows[k].gen
                  /\ rows'[k].requests = rows[k].requests
                  /\ rows'[k].amount - settled'[k] = rows[k].amount - settled[k]
               \/ /\ rows'[k].live /\ rows'[k].gen > rows[k].gen
                  /\ rows'[k].requests = 0 /\ rows'[k].amount = settled'[k]
    <2> DEFINE n == SettlesWith(t, k)
    <2>1. n \in Nat  BY <1>4 DEF SettlesWith
    <2>2. /\ rows[k].gen \in Nat /\ rows[k].live \in BOOLEAN /\ rows[k].amount \in Nat /\ rows[k].requests \in Int
          /\ rows[k] \in Row /\ settled[k] \in Nat
      BY <1>1, Typed
    <2>3. Remembered(rows, rows')[k] = IF rows'[k].live /\ rows'[k].gen = rows[k].gen THEN settled[k] ELSE 0
      BY DEF Remembered
    <2> HIDE DEF n
    <2>4. CASE k \in touched
      <3>1. rows'[k] = Bump(rows[k], 0, n) /\ settled'[k] = Remembered(rows, rows')[k] + n
        BY <1>2, <1>3, <2>4 DEF n
      <3>2. /\ rows'[k].live
            /\ rows[k].live => rows'[k].gen = rows[k].gen /\ rows'[k].requests = rows[k].requests + 0
                               /\ rows'[k].amount = rows[k].amount + n
            /\ ~ rows[k].live => rows'[k].gen = rows[k].gen + 1 /\ rows'[k].requests = 0 /\ rows'[k].amount = n
        <4>1. PICK row \in Row : row = rows[k]  BY <2>2
        <4>2. PICK new : new = Bump(row, 0, n)  OBVIOUS
        <4>3. /\ new.live
              /\ row.live => new.gen = row.gen /\ new.requests = row.requests + 0 /\ new.amount = row.amount + n
              /\ ~ row.live => new.gen = row.gen + 1 /\ new.requests = 0 /\ new.amount = n
          BY <2>1, <4>2, BumpRow
        <4>4. rows'[k] = new  BY <3>1, <4>1, <4>2
        <4> QED  BY <4>1, <4>3, <4>4
      <3>3. CASE rows[k].live
        BY <2>1, <2>2, <2>3, <3>1, <3>2, <3>3
      <3>4. CASE ~ rows[k].live
        <4>1. rows'[k].gen > rows[k].gen /\ settled'[k] = n  BY <2>1, <2>2, <2>3, <3>1, <3>2, <3>4
        <4> QED  BY <3>2, <3>4, <4>1
      <3> QED  BY <3>3, <3>4
    <2>5. CASE k \notin touched
      <3>1. rows'[k] = rows[k] /\ settled'[k] = Remembered(rows, rows')[k] + 0
        BY <1>2, <1>3, <2>5
      <3> QED  BY <2>2, <2>3, <3>1
    <2> QED  BY <2>4, <2>5
  <1> QED  BY <1>1, <1>5, RowsChange

(***************************************************************************)
(* A release                                                               *)
(***************************************************************************)

\* Release changes the rows that are still the ones its turn was charged on: it
\* takes the turn's share out of them, and leaves the requests.
LEMMA ReleasedRows ==
    ASSUME CountersInv, NEW t \in Turns, Release(t), NEW k \in Keys
    PROVE  /\ rows'[k].live = rows[k].live /\ rows'[k].gen = rows[k].gen /\ rows'[k].requests = rows[k].requests
           /\ ~ Bound(t, k) => rows'[k] = rows[k]
           /\ Bound(t, k) => rows'[k].amount = Floor0(rows[k].amount - Share(t, k[2]))
  <1> DEFINE taken == KeysAt(Owner[t], TokenWindows, res[t].at, res[t].anchor)
             g == res[t].gens[k[2]]
  <1>1. TypeOK /\ Incarnations /\ pc[t] = "held"  BY DEF CountersInv, Release, Releasable
  <1>2. rows'[k] = IF k \in taken /\ g # 0 THEN RefundCounter(rows[k], g, Share(t, k[2])) ELSE rows[k]
    BY DEF Release
  <1>3. k \in taken <=> k[2] \in TokenWindows /\ k = Key(Owner[t], k[2], res[t].at, res[t].anchor)
    BY WindowKey
  <1> HIDE DEF taken, g
  <1>4. rows[k] \in Row  BY <1>1, Typed
  <1>5. Bound(t, k) <=> k \in taken /\ g # 0 /\ rows[k].live /\ g = rows[k].gen
    BY <1>1, <1>3 DEF Bound, Incarnations, g
  <1>6. CASE Bound(t, k)
    <2>1. rows'[k] = [rows[k] EXCEPT !.amount = Floor0(@ - Share(t, k[2]))]
      BY <1>2, <1>5, <1>6 DEF RefundCounter
    <2> HIDE DEF Share
    <2> QED  BY <1>4, <1>6, <2>1 DEF Row
  <1>7. CASE ~ Bound(t, k)
    <2>1. rows'[k] = rows[k]  BY <1>2, <1>5, <1>7 DEF RefundCounter
    <2> QED  BY <1>7, <2>1
  <1> QED  BY <1>6, <1>7

LEMMA ReleaseStep ==
    ASSUME CountersInv, TypeOK', NEW t \in Turns, Release(t)
    PROVE  CountersInv'
  <1>1. TypeOK /\ Incarnations /\ CountersExact /\ RequestsExact /\ RunningWithinLimit  BY DEF CountersInv
  <1>2. /\ pc[t] = "held" /\ ~ released[t] /\ UNCHANGED <<pc, res, settled>>
        /\ released' = [released EXCEPT ![t] = TRUE]
    BY DEF Release, Releasable
  <1>3. released'[t] /\ \A u \in Turns \ {t} : released'[u] = released[u]
    BY <1>1, <1>2 DEF TypeOK
  <1>4. \A k \in Keys : /\ rows'[k].live = rows[k].live /\ rows'[k].gen = rows[k].gen /\ rows'[k].requests = rows[k].requests
                        /\ ~ Bound(t, k) => rows'[k] = rows[k]
                        /\ Bound(t, k) => rows'[k].amount = Floor0(rows[k].amount - Share(t, k[2]))
    BY ReleasedRows
  <1>5. ASSUME NEW k \in Keys, NEW u \in Turns
        PROVE  Bound(u, k)' <=> Bound(u, k)
    BY <1>2, <1>4 DEF Bound
  <1>6. \A k \in Keys : Holders(k)' = Holders(k)
    BY <1>5 DEF Holders
  <1>7. ASSUME NEW k \in Keys
        PROVE  \A u \in Units : u \in Held(k)' <=> u \in Held(k) /\ u[1] # t
    BY <1>2, <1>3, <1>5 DEF Held, Units, Share
  <1>8. \A k : Held(k) \in SUBSET Units /\ Held(k)' \in SUBSET Units
    BY DEF Held, Units
  <1>9. ASSUME NEW k \in Keys, Bound(t, k)
        PROVE  Cardinality(Held(k)) = Cardinality(Held(k)') + Share(t, k[2])
    <2>1. Share(t, k[2]) \in Costs /\ Share(t, k[2]) \in Nat /\ Share(t, k[2]) <= MaxCost /\ MaxCost \in Nat
      BY <1>1, ShareBound, ConstantTypes DEF Costs
    <2>2. \A u \in Held(k)' : u[1] # t  BY <1>7, <1>8
    <2>3. Held(k) = Held(k)' \cup ({t} \X (1 .. Share(t, k[2])))
      <3>1. \A u \in Units : u[1] = t => (u \in Held(k) <=> u[2] <= Share(t, k[2]))
        BY <1>2, <1>9 DEF Held, Units
      <3> HIDE DEF Share
      <3>2. \A u \in {t} \X (1 .. Share(t, k[2])) : u \in Units /\ u[1] = t /\ u[2] <= Share(t, k[2])
        BY <2>1 DEF Units
      <3>3. \A u \in Units : u[1] = t /\ u[2] <= Share(t, k[2]) => u \in {t} \X (1 .. Share(t, k[2]))
        BY <2>1 DEF Units
      <3> QED  BY <1>7, <1>8, <3>1, <3>2, <3>3
    <2>4. Held(k)' \in SUBSET Units  BY <1>8
    <2> QED  BY <2>1, <2>2, <2>3, <2>4, UnitsJoined
  <1>10. ASSUME NEW k \in Keys, ~ Bound(t, k)
         PROVE  Held(k)' = Held(k)
    <2>1. \A u \in Held(k) : u[1] # t  BY <1>10 DEF Held
    <2> QED  BY <1>7, <1>8, <2>1
  <1>11. \A k : Cardinality(Held(k)) \in Nat /\ Cardinality(Held(k)') \in Nat
    BY <1>8, UnitsFinite
  <1>12. CountersExact'
    <2> SUFFICES ASSUME NEW k \in Keys, rows[k].live, k[2] \in TokenWindows
                 PROVE  rows'[k].amount = settled[k] + Cardinality(Held(k)')
      BY <1>2, <1>4 DEF CountersExact
    <2>1. rows[k].amount = settled[k] + Cardinality(Held(k))
      BY <1>1 DEF CountersExact
    <2>2. CASE Bound(t, k)
      <3>1. settled[k] \in Nat /\ Share(t, k[2]) \in Nat
        BY <1>1, ShareBound, Typed, ConstantTypes
      <3>2. rows[k].amount - Share(t, k[2]) = settled[k] + Cardinality(Held(k)')
        BY <1>9, <1>11, <2>1, <2>2, <3>1
      <3>3. Floor0(rows[k].amount - Share(t, k[2])) = settled[k] + Cardinality(Held(k)')
        BY <1>11, <3>1, <3>2 DEF Floor0
      <3> QED  BY <1>4, <2>2, <3>3
    <2>3. CASE ~ Bound(t, k)
      BY <1>4, <1>10, <2>1, <2>3
    <2> QED  BY <2>2, <2>3
  <1>13. RequestsExact'
    BY <1>1, <1>4, <1>6 DEF RequestsExact, Holders
  <1>14. RunningWithinLimit'
    <2> SUFFICES ASSUME NEW k \in Keys, rows[k].live, k[2] \in TokenWindows, LimitOf(k[2]) > 0
                 PROVE  Cardinality(Held(k)') <= LimitOf(k[2])
      BY <1>4 DEF RunningWithinLimit, LimitOf
    <2>1. Cardinality(Held(k)) <= LimitOf(k[2])  BY <1>1 DEF RunningWithinLimit
    <2>2. LimitOf(k[2]) \in Nat
      BY ConstantsAssumption, KindsApart DEF ConstantsAssumption, LimitOf
    <2>3. CASE Bound(t, k)
      <3>1. Share(t, k[2]) \in Nat  BY <1>1, ShareBound, ConstantTypes
      <3> QED  BY <1>9, <1>11, <2>1, <2>2, <2>3, <3>1
    <2>4. CASE ~ Bound(t, k)
      BY <1>10, <2>1, <2>4
    <2> QED  BY <2>3, <2>4
  <1>15. Incarnations'
    <2>1. \A u \in Turns, w \in TokenWindows : Key(Owner[u], w, res[u].at, res[u].anchor) \in Keys
      BY <1>1, Typed, ConstantTypes, KindsApart, KeyType
    <2> QED  BY <1>1, <1>2, <1>3, <1>4, <2>1 DEF Incarnations
  <1> QED  BY <1>12, <1>13, <1>14, <1>15 DEF CountersInv

(***************************************************************************)
(* The theorems                                                            *)
(***************************************************************************)

LEMMA CountersInit == ASSUME Init PROVE CountersInv
  <1>1. TypeOK  BY InitType
  <1>2. \A k \in Keys : ~ rows[k].live  BY DEF Init, NoRow
  <1>3. \A t \in Turns : /\ pc[t] # "held" /\ ~ released[t]
                         /\ res[t].charged = 0 /\ res[t].covered = 0
                         /\ \A w \in TokenWindows : res[t].gens[w] = 0
    BY DEF Init, NoReservation
  <1>4. Incarnations
    <2>1. \A t \in Turns : res[t].charged + res[t].covered \in Costs  BY <1>3, ConstantTypes
    <2> QED  BY <1>2, <1>3, <2>1 DEF Incarnations
  <1> QED  BY <1>1, <1>2, <1>4 DEF CountersInv, CountersExact, RequestsExact, RunningWithinLimit

LEMMA CountersStep == CountersInv /\ [Next]_vars => CountersInv'
  <1> SUFFICES ASSUME CountersInv, [Next]_vars PROVE CountersInv'  OBVIOUS
  <1>0. TypeOK /\ TypeOK'  BY TypeStep DEF CountersInv
  <1>1. CASE UNCHANGED vars  BY <1>0, <1>1, IdleStep DEF vars
  <1>2. CASE Tick  BY <1>0, <1>2, IdleStep DEF Tick
  <1>3. CASE ResetAllClock  BY <1>0, <1>3, IdleStep DEF ResetAllClock
  <1>4. CASE ResetAll  BY <1>0, <1>4, DeletedRows DEF ResetAll
  <1>5. ASSUME NEW as \in SUBSET Accounts, NEW kinds \in ResetKinds, ResetWindows(as, kinds)
        PROVE  CountersInv'
    BY <1>0, <1>5, DeletedRows DEF ResetWindows
  <1>6. ASSUME NEW c \in Cards, UseCard(c)
        PROVE  CountersInv'
    BY <1>0, <1>6, DeletedRows DEF UseCard
  <1>7. ASSUME NEW k \in Keys, Prune(k)
        PROVE  CountersInv'
    BY <1>0, <1>7, DeletedRows DEF Prune
  <1>8. ASSUME NEW t \in Turns, NEW estimate \in Estimates, NEW exclusive \in BOOLEAN, Ask(t, estimate, exclusive)
        PROVE  CountersInv'
    BY <1>0, <1>8, AskStep
  <1>9. ASSUME NEW t \in Turns, NEW paid \in Costs, ReserveOnce(t, paid)
        PROVE  CountersInv'
    BY <1>0, <1>9, ReserveOnceStep
  <1>10. ASSUME NEW t \in Turns, NEW enough \in BOOLEAN, ReserveFromBonus(t, enough)
         PROVE  CountersInv'
    BY <1>0, <1>10, ReserveFromBonusStep
  <1>11. ASSUME NEW t \in Turns, NEW paid \in Costs, ReserveWithCard(t, paid)
         PROVE  CountersInv'
    BY <1>0, <1>11, ReserveWithCardStep
  <1>12. ASSUME NEW t \in Turns, NEW cost \in Bills, NEW carried \in Costs, SettleClock(t, cost, carried)
         PROVE  CountersInv'
    BY <1>0, <1>12, IdleStep DEF SettleClock
  <1>13. ASSUME NEW t \in Turns, SettleAnchor(t) \/ SettleFail(t)
         PROVE  CountersInv'
    BY <1>0, <1>13, IdleStep DEF SettleAnchor, SettleFail
  <1>14. ASSUME NEW t \in Turns, SettleCommit(t)
         PROVE  CountersInv'
    BY <1>0, <1>14, SettleCommitStep
  <1>15. ASSUME NEW t \in Turns, Release(t)
         PROVE  CountersInv'
    BY <1>0, <1>15, ReleaseStep
  <1> QED
    BY <1>1, <1>2, <1>3, <1>4, <1>5, <1>6, <1>7, <1>8, <1>9, <1>10, <1>11, <1>12, <1>13, <1>14, <1>15 DEF Next

\* A counter is exactly what finished turns cost plus what running turns have
\* reserved, and a window counts each admitted request once, for any number of
\* accounts, turns and windows and in whatever order reservations, settlements,
\* releases, resets, cards and prunes come (bump, SettleTurn, Release).
THEOREM CountersCorrect == Spec => []RowsExact
  <1>1. CountersInv => RowsExact  BY DEF CountersInv, RowsExact
  <1> QED  BY <1>1, CountersInit, CountersStep, PTL DEF Spec

\* The turns that run at once never hold more of an enforced window than its
\* limit, however many are started together (ReserveFor).
THEOREM WithinLimit == Spec => []RunningWithinLimit
  <1>1. CountersInv => RunningWithinLimit  BY DEF CountersInv
  <1> QED  BY <1>1, CountersInit, CountersStep, PTL DEF Spec

\* The step of a release: only Release opens the guard, and it takes from the rows
\* its own reservation was charged to.
LEMMA ReleaseOnlyOwn ==
    ASSUME CountersInv, [Next]_vars, NEW t \in Turns, released'[t], ~ released[t],
           NEW k \in Keys, rows'[k] # rows[k]
    PROVE  Bound(t, k)
  <1>1. \E u \in Turns : Release(u)
    <2>1. released' # released  OBVIOUS
    <2>2. CASE UNCHANGED vars  BY <2>1, <2>2 DEF vars
    <2>3. CASE Next
      <3>1. Tick \/ ResetAllClock \/ ResetAll => released' = released
        BY DEF Tick, ResetAllClock, ResetAll
      <3>2. \A as, kinds : ResetWindows(as, kinds) => released' = released  BY DEF ResetWindows
      <3>3. \A c : UseCard(c) => released' = released  BY DEF UseCard
      <3>4. \A x : Prune(x) => released' = released  BY DEF Prune
      <3>5. \A u, e, x : Ask(u, e, x) => released' = released  BY DEF Ask
      <3>6. \A u, paid : ReserveOnce(u, paid) => released' = released  BY DEF ReserveOnce
      <3>7. \A u, enough : ReserveFromBonus(u, enough) => released' = released  BY DEF ReserveFromBonus
      <3>8. \A u, paid : ReserveWithCard(u, paid) => released' = released  BY DEF ReserveWithCard
      <3>9. \A u, cost, carried : SettleClock(u, cost, carried) => released' = released  BY DEF SettleClock
      <3>10. \A u : SettleAnchor(u) \/ SettleCommit(u) \/ SettleFail(u) => released' = released
        BY DEF SettleAnchor, SettleCommit, SettleFail
      <3> QED  BY <2>1, <2>3, <3>1, <3>2, <3>3, <3>4, <3>5, <3>6, <3>7, <3>8, <3>9, <3>10 DEF Next
    <2> QED  BY <2>2, <2>3
  <1>2. PICK u \in Turns : Release(u)  BY <1>1
  <1>3. released' = [released EXCEPT ![u] = TRUE] /\ released \in [Turns -> BOOLEAN]
    BY <1>2 DEF Release, CountersInv, TypeOK
  <1>4. u = t  BY <1>3
  <1> QED  BY <1>2, <1>4, ReleasedRows

\* Giving a reservation back changes no row made since the reservation was: what a
\* turn was charged does not depend on a release that comes after a reset, a card
\* or a prune (refundCounter).
THEOREM ReleaseSpares == Spec => ReleaseSparesNewRows
  <1>1. CountersInv /\ [Next]_vars =>
          [\A t \in Turns : released'[t] /\ ~ released[t] => \A k \in Keys : rows'[k] # rows[k] => Bound(t, k)]_vars
    BY ReleaseOnlyOwn
  <1> QED  BY <1>1, CountersInit, CountersStep, PTL DEF Spec, ReleaseSparesNewRows

\* A card its holder uses leaves no row in the windows it names.
LEMMA UsedCard ==
    ASSUME TypeOK, NEW c, UseCard(c), NEW k \in Keys, k[1] = Holder[c], k[2] \in Covers[c]
    PROVE  ~ rows'[k].live
  <1>1. k \in {Holder[c]} \X Covers[c] \X Times
    BY DEF Keys
  <1> QED  BY <1>1 DEF UseCard, DeleteRows, DeleteAll, Delete

\* A card spent by a reservation has cleared the windows it names for it.
LEMMA SpentCard ==
    ASSUME CountersInv, NEW t \in Turns, NEW paid \in Costs, ReserveWithCard(t, paid), NEW c \in cards, c \notin cards'
    PROVE  /\ pc[t] = "card" /\ pc'[t] = "held"
           /\ Owner[t] = Holder[c]
           /\ \A w \in Covers[c] :
                LET k == Key(Owner[t], w, res'[t].at, res'[t].anchor)
                IN rows'[k].requests = 1 /\ rows'[k].amount = res'[t].charged
  <1> DEFINE anchor == AnchorFor(Owner[t])
             charged == want[t] - paid
             minute == RateCharged(rows, Owner[t], want[t], res[t].at)
             walk == ReserveAllowance(minute, Owner[t], anchor, charged, res[t].at)
             retry(d) == ReserveAllowance(ClearAllowance(walk.rows, Owner[t], anchor, res[t].at, Covers[d]),
                                          Owner[t], anchor, charged, res[t].at)
  <1>1. TypeOK /\ Incarnations /\ paid <= want[t] /\ pc[t] = "card"
    BY DEF CountersInv, ReserveWithCard, Payable
  <1>2. anchor \in Times
    BY <1>1, AnchorForType, ConstantTypes
  <1>3. charged \in Nat
    BY <1>1, Typed, ConstantTypes
  <1>4. /\ ~ RateRefuses(rows, Owner[t], want[t], res[t].at) /\ walk.refused # 0
        /\ retry(c).refused = 0 /\ Holder[c] = Owner[t]
        /\ Hold(t, retry(c).rows, anchor, charged, TRUE)
    <2>1. cards' # cards  OBVIOUS
    <2>2. ~ RateRefuses(rows, Owner[t], want[t], res[t].at)
      BY <2>1 DEF ReserveWithCard, Refuse
    <2>3. ~ Covered(t, paid) /\ walk.refused # 0
      BY <2>1, <2>2 DEF ReserveWithCard
    <2>4. PICK d \in cards : /\ Holder[d] = Owner[t] /\ retry(d).refused = 0
                             /\ Hold(t, retry(d).rows, anchor, charged, TRUE) /\ cards' = cards \ {d}
      BY <2>1, <2>2, <2>3 DEF ReserveWithCard, Refuse
    <2> QED  BY <2>2, <2>3, <2>4
  <1>5. Covers[c] \subseteq AllowanceKinds
    BY <1>1, ConstantsAssumption DEF TypeOK, ConstantsAssumption
  <1> DEFINE rs == RetryOf(t, anchor, charged, Covers[c]).rows
  <1>6. RetryOf(t, anchor, charged, Covers[c]).refused = 0 /\ retry(c).rows = rs
        /\ WalkOf(t, MinuteOf(t), anchor, charged).refused # 0
    BY <1>4 DEF RetryOf, ClearedFor, WalkOf, MinuteOf
  <1>7. Hold(t, rs, anchor, charged, TRUE)
    BY <1>4, <1>6
  <1> HIDE DEF anchor, charged
  <1>8. HoldsOnly(t, rs, Covers[c], anchor, charged)
    BY <1>1, <1>2, <1>3, <1>4, <1>5, <1>6, RetryReserves
  <1> HIDE DEF rs
  <1>9. /\ pc'[t] = "held" /\ rows' = rs
        /\ res'[t].at = res[t].at /\ res'[t].anchor = anchor /\ res'[t].charged = charged
    BY <1>1, <1>7 DEF Hold, TypeOK
  <1> QED  BY <1>1, <1>4, <1>8, <1>9 DEF HoldsOnly

\* What a card that is gone has bought.
Bought(c) ==
    \/ \A k \in Keys : k[1] = Holder[c] /\ k[2] \in Covers[c] => ~ rows'[k].live
    \/ \E t \in Turns :
         /\ pc[t] = "card" /\ pc'[t] = "held"
         /\ Owner[t] = Holder[c]
         /\ \A w \in Covers[c] :
              LET k == Key(Owner[t], w, res'[t].at, res'[t].anchor)
              IN rows'[k].requests = 1 /\ rows'[k].amount = res'[t].charged

LEMMA CardBought ==
    ASSUME CountersInv, [Next]_vars, NEW c \in cards, c \notin cards'
    PROVE  Bought(c)
  <1>0. TypeOK /\ cards' # cards  BY DEF CountersInv
  <1>1. \/ \E d \in Cards : UseCard(d)
        \/ \E t \in Turns, paid \in Costs : ReserveWithCard(t, paid)
    <2>1. CASE UNCHANGED vars  BY <1>0, <2>1 DEF vars
    <2>2. CASE Next
      <3>1. Tick \/ ResetAllClock \/ ResetAll => cards' = cards
        BY DEF Tick, ResetAllClock, ResetAll
      <3>2. \A as, kinds : ResetWindows(as, kinds) => cards' = cards  BY DEF ResetWindows
      <3>3. \A x : Prune(x) => cards' = cards  BY DEF Prune
      <3>4. \A u, e, x : Ask(u, e, x) => cards' = cards  BY DEF Ask
      <3>5. \A u, paid : ReserveOnce(u, paid) => cards' = cards  BY DEF ReserveOnce, Refuse
      <3>6. \A u, enough : ReserveFromBonus(u, enough) => cards' = cards  BY DEF ReserveFromBonus, Refuse
      <3>7. \A u, cost, carried : SettleClock(u, cost, carried) => cards' = cards  BY DEF SettleClock
      <3>8. \A u : SettleAnchor(u) \/ SettleCommit(u) \/ SettleFail(u) \/ Release(u) => cards' = cards
        BY DEF SettleAnchor, SettleCommit, SettleFail, Release
      <3> QED  BY <1>0, <2>2, <3>1, <3>2, <3>3, <3>4, <3>5, <3>6, <3>7, <3>8 DEF Next
    <2> QED  BY <2>1, <2>2
  <1>2. ASSUME NEW d \in Cards, UseCard(d)
        PROVE  Bought(c)
    <2>1. c = d  BY <1>2 DEF UseCard
    <2> QED  BY <1>0, <1>2, <2>1, UsedCard DEF Bought
  <1>3. ASSUME NEW t \in Turns, NEW paid \in Costs, ReserveWithCard(t, paid)
        PROVE  Bought(c)
    BY <1>3, SpentCard DEF Bought
  <1> QED  BY <1>1, <1>2, <1>3

\* A card is spent only by its holder's own use, which clears the windows it names,
\* or by the reservation it let through, which those windows then hold alone: a
\* retry that is refused does not consume it (reserveOnce, useResetCard).
THEOREM CardAdmits == Spec => CardBuysAdmission
  <1>1. CountersInv /\ [Next]_vars => [\A c \in cards \ cards' : Bought(c)]_vars
    BY CardBought
  <1> QED  BY <1>1, CountersInit, CountersStep, PTL DEF Spec, CardBuysAdmission, Bought
=============================================================================
