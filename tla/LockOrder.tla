----------------------------- MODULE LockOrder -----------------------------
(***************************************************************************)
(* The row locks that the transactions of quota, bonus and card take, in   *)
(* the order each takes them.  PostgreSQL gives a row to one transaction   *)
(* at a time and keeps it until that transaction ends; a cycle of          *)
(* transactions that wait for one another is aborted as a deadlock.        *)
(*                                                                         *)
(* A script is what one path through the code locks: a sequence of          *)
(* statements, each the set of rows it locks.  A transaction may end after *)
(* any statement, since every path can be refused or fail part way.         *)
(***************************************************************************)
EXTENDS Integers, Sequences, FiniteSets

CONSTANTS
    Txns,          \* transactions that may run at once
    Accounts,
    Kinds,         \* counterKinds: the minute counters first, then the windows
    Allowance,     \* AllowanceWindows, the end of Kinds
    Moments,       \* [kind -> bucket]: where "now" falls in each window
    PoolOrder,     \* the pools, in the order they were made
    GrantOrder,    \* an account's grants, in the order candidates sorts them
    SweepOrder,    \* the same grants, in the order they expire
    SourceSets,    \* sets of pools and grants a request may be paid from
    CardOrder,     \* an account's cards, in the order they expire
    Admin,         \* the account of the administrator who acts
    NoRow          \* not a row: a transaction that waits for none

Elements(s) == {s[i] : i \in 1 .. Len(s)}
\* A sequence that names nothing twice.
IsList(s) == s \in Seq(Elements(s)) /\ \A i, j \in 1 .. Len(s) : s[i] = s[j] => i = j

\* There is a counter of the minute, and no row is listed twice.
ASSUME NamesAssumption ==
    /\ Admin \in Accounts
    /\ IsList(Kinds) /\ IsList(PoolOrder) /\ IsList(GrantOrder) /\ IsList(SweepOrder) /\ IsList(CardOrder)
    /\ \E n \in 1 .. Len(Kinds) : Allowance = SubSeq(Kinds, n + 1, Len(Kinds))

VARIABLE txn       \* what each transaction runs, holds and waits for

vars == <<txn>>

\* One statement for each element of a sequence. One that S leaves out is not run,
\* and locks nothing.
Each(s, S, row(_)) == [i \in 1 .. Len(s) |-> {row(x) : x \in {s[i]} \intersect S}]

(***************************************************************************)
(* Rows                                                                    *)
(***************************************************************************)

ResetRow == <<"reset", "all", 0, 0>>
UserRow(a) == <<"user", a, 0, 0>>
PoolRow(p) == <<"pool", "all", p, 0>>
UsageRow(p, a) == <<"usage", a, p, 0>>
GrantRow(a, g) == <<"grant", a, g, 0>>
CardRow(a, c) == <<"card", a, c, 0>>
Counter(a, k, b) == <<"counter", a, k, b>>
\* A bucket that rolled over long ago; -1 stands for all of them.
StaleRow(a, k) == <<"stale", a, k, -1>>

Buckets(k) == {m[k] : m \in Moments}
CountersOf(a, k) == {Counter(a, k, b) : b \in Buckets(k)} \union {StaleRow(a, k)}

(***************************************************************************)
(* Scripts                                                                 *)
(***************************************************************************)

\* takePools, Take, Settle and Refund: a pool and the account's usage of it, one
\* pool at a time, and then the grants.
Sources(a, S) ==
    [i \in 1 .. 2 * Len(PoolOrder) |->
        {IF i % 2 = 1 THEN PoolRow(p) ELSE UsageRow(p, a) : p \in {PoolOrder[(i + 1) \div 2]} \intersect S}]
    \o Each(GrantOrder, S, LAMBDA g : GrantRow(a, g))

\* The current counters of the windows W names, in the order of kinds.
CurrentOf(a, m, kinds, W) == Each(kinds, W, LAMBDA k : Counter(a, k, m[k]))
Current(a, m, kinds) == CurrentOf(a, m, kinds, Elements(kinds))
Minute == SubSeq(Kinds, 1, Len(Kinds) - Len(Allowance))
TokenWindows == SubSeq(Kinds, Len(Minute), Len(Kinds))

\* reserveOnce without a card.
ReserveOnce(a, m, S) ==
    <<{ResetRow}>> \o Sources(a, S) \o Current(a, m, Kinds)

\* clearAllowance: every window's current bucket, before the ones W names go.
ClearAllowance(a, m, W) ==
    Current(a, m, Allowance) \o CurrentOf(a, m, Allowance, W)

\* reserveOnce that the n-th window refuses, which spends card c for windows W
\* and walks the windows again.
ReserveWithCard(a, m, S, n, c, W) ==
    <<{ResetRow}, {UserRow(a)}>> \o Sources(a, S) \o Current(a, m, Minute)
       \o Current(a, m, SubSeq(Allowance, 1, n)) \o <<{CardRow(a, c)}>>
       \o ClearAllowance(a, m, W) \o Current(a, m, Allowance)

\* reserveFromBonus: the bonus rows, and the minute after them.
ReserveFromBonus(a, m, S) == Sources(a, S) \o Current(a, m, Minute)

\* A mutated form of SettleOrRelease: the bonus rows are settled last.
SettleOrReleaseSourcesLast(a, m, S) == Current(a, m, TokenWindows) \o Sources(a, S)

\* SettleTurn, at the moment it runs, and Release, at the moment the reservation
\* was made: the holds, the minute's tokens, the windows.
SettleOrRelease(a, m, S) == Sources(a, S) \o Current(a, m, TokenWindows)

\* deleteCounters: one statement for each kind, in the order of counterKinds.
DeleteCounters(A, W) ==
    [i \in 1 .. Len(Kinds) |-> UNION {CountersOf(a, k) : a \in A, k \in {Kinds[i]} \intersect W}]

\* ResetAll, ResetGroup and ResetWindows.
ResetCounters(A, W) == <<{ResetRow}>> \o DeleteCounters(A, W)

\* A card that is used by hand is spent first and cleared after.
UseCard(a, c, W) == <<{ResetRow}, {CardRow(a, c)}>> \o DeleteCounters({a}, W)

\* A chunk of the prune: stale rows of every account and kind, in scan order.
Prune == <<{ResetRow}, {StaleRow(a, k) : a \in Accounts, k \in Elements(Kinds)}>>

\* A plugin's claw-back, under the acting administrator's row unless the account
\* is the administrator's own.
RevokeAvailable(a) ==
    (IF a = Admin THEN << >> ELSE <<{UserRow(Admin)}>>) \o Each(CardOrder, Elements(CardOrder), LAMBDA c : CardRow(a, c))

\* The janitor's notice of grants about to expire marks them by expiry.
TakeExpiring(a) == Each(SweepOrder, Elements(SweepOrder), LAMBDA g : GrantRow(a, g))

WindowSets == (SUBSET Elements(Allowance)) \ {{}}

Scripts ==
    {ReserveOnce(a, m, S) : a \in Accounts, m \in Moments, S \in SourceSets}
    \union {ReserveWithCard(a, m, S, n, c, W) :
              a \in Accounts, m \in Moments, S \in SourceSets,
              n \in 1 .. Len(Allowance), c \in Elements(CardOrder), W \in WindowSets}
    \union {ReserveFromBonus(a, m, S) : a \in Accounts, m \in Moments, S \in SourceSets}
    \union {SettleOrRelease(a, m, S) : a \in Accounts, m \in Moments, S \in SourceSets}
    \union {ResetCounters(A, W) : A \in {Accounts} \union {{a} : a \in Accounts},
                                  W \in {Elements(Kinds)} \union WindowSets}
    \union {UseCard(a, c, W) :
              a \in Accounts, c \in Elements(CardOrder), W \in WindowSets}
    \union {Prune}
    \union {RevokeAvailable(a) : a \in Accounts}
    \union {TakeExpiring(a) : a \in Accounts}

(***************************************************************************)
(* The lock order                                                          *)
(***************************************************************************)

IndexIn(s, x) == CHOOSE i \in 1 .. Len(s) : s[i] = x

\* Rows that transactions without the global reset row take together: what pays
\* for a request, and an account with its cards.  The others stand alone.
Chain(r) ==
    IF r[1] \in {"pool", "usage", "grant", "counter"} THEN "pay"
    ELSE IF r[1] \in {"user", "card"} THEN "account" ELSE r[1]

Place(r) ==
    LET grants == 2 * Len(PoolOrder) + 1
        counters == grants + Len(GrantOrder)
    IN CASE r[1] = "pool" -> 2 * IndexIn(PoolOrder, r[3])
         [] r[1] = "usage" -> 2 * IndexIn(PoolOrder, r[3]) + 1
         [] r[1] = "grant" -> grants + IndexIn(GrantOrder, r[3])
         [] r[1] = "counter" -> counters + IndexIn(Kinds, r[3])
         [] r[1] = "card" -> IndexIn(CardOrder, r[3])
         [] OTHER -> 0

Lower(r, s) == Chain(r) = Chain(s) /\ Place(r) < Place(s)

Serial(sc) == sc[1] = {ResetRow}

\* A row h that sc locks by the time it comes to lock w for the first time.
LocksBefore(sc, h, w) ==
    \E j \in 1 .. Len(sc) :
        /\ w \in sc[j] /\ \A k \in 1 .. j - 1 : w \notin sc[k]
        /\ \E i \in 1 .. j : h \in sc[i]

RowsOf(sc) == UNION {sc[i] : i \in 1 .. Len(sc)}

\* A script without the global reset row goes up its chain; one with it takes it
\* first, and then never a row that comes before one it already holds.
InOrder(sc) ==
    /\ Len(sc) \in Nat
    /\ \A r \in RowsOf(sc) : Place(r) \in Nat
    /\ ResetRow \in RowsOf(sc) => Serial(sc)
    /\ \A h, w \in RowsOf(sc) : h # w /\ LocksBefore(sc, h, w) =>
         IF Serial(sc) THEN ~ Lower(w, h) ELSE Lower(h, w)

(***************************************************************************)
(* Transactions                                                            *)
(***************************************************************************)

NoTxn == [script |-> << >>, held |-> {}, want |-> NoRow]

Init == txn = [t \in Txns |-> NoTxn]

\* The rows of script sc that come next for a transaction that holds H: what its
\* first unfinished statement has still to lock.
NextRows(sc, H) ==
    UNION {sc[j] \ H : j \in {i \in 1 .. Len(sc) : \A k \in 1 .. i - 1 : sc[k] \subseteq H}}

Held(t) == txn[t].held
Waiting(t) == txn[t].want # NoRow
Due(t) == NextRows(txn[t].script, Held(t))
Free(r) == \A u \in Txns : r \notin Held(u)

BeginTxn(t, sc) ==
    /\ txn[t] = NoTxn
    /\ txn' = [txn EXCEPT ![t] = [script |-> sc, held |-> {}, want |-> NoRow]]

\* t gets row r.
Gets(t, r) ==
    txn' = [txn EXCEPT ![t] = [script |-> txn[t].script, held |-> Held(t) \union {r},
                               want |-> NoRow]]

\* The next row is free and the transaction takes it.
Lock(t, r) ==
    /\ ~ Waiting(t)
    /\ r \in Due(t) /\ Free(r)
    /\ Gets(t, r)

\* The next row is another's.
Wait(t, r) ==
    /\ ~ Waiting(t)
    /\ r \in Due(t) /\ ~ Free(r)
    /\ txn' = [txn EXCEPT ![t].want = r]

\* The row a transaction waits for was let go.
Grant(t) ==
    /\ Waiting(t) /\ Free(txn[t].want)
    /\ Gets(t, txn[t].want)

\* Commit, or the rollback of a refusal or a failure.
End(t) ==
    /\ txn[t].script # << >>
    /\ ~ Waiting(t)
    /\ txn' = [txn EXCEPT ![t] = NoTxn]

Next ==
    \E t \in Txns :
        \/ \E sc \in Scripts : BeginTxn(t, sc)
        \/ \E r \in Due(t) : Lock(t, r) \/ Wait(t, r)
        \/ Grant(t)
        \/ End(t)

Spec == Init /\ [][Next]_vars

(***************************************************************************)
(* Properties                                                              *)
(***************************************************************************)

\* A row is one transaction's, and a transaction waits only for a row of another.
RowsExclusive ==
    \A t, u \in Txns : t # u => Held(t) \intersect Held(u) = {}

\* "Every transaction takes the rows it needs in this order, and never a row that
\* comes before one it already holds" (service.go), for every path through the
\* code, with the exceptions the comment makes for resets, prunes and cards.
ScriptsInOrder == \A sc \in Scripts : InOrder(sc)

\* t waits for a row u holds.
WaitsFor(t, u) == t # u /\ Waiting(t) /\ txn[t].want \in Held(u)

\* "Two transactions that take the same rows in opposite orders can each hold one
\* and wait for the other" (service.go): no set of transactions each waits for
\* one of that set, so PostgreSQL never aborts one as a deadlock.
NoDeadlock ==
    \A D \in (SUBSET Txns) \ {{}} : \E t \in D : \A u \in D : ~ WaitsFor(t, u)
=============================================================================
