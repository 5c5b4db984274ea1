----------------------------- MODULE RowProofs ------------------------------
(***************************************************************************)
(* Row locks. The two families share no row and no argument.               *)
(*                                                                         *)
(* Allowances (LockOrder): transactions never wait in a cycle, however     *)
(* many transactions, accounts, pools, grants, windows and cards there     *)
(* are, where grants expire in the order they are spent. A path that does  *)
(* not take the global reset row goes up the places of one chain           *)
(* (Climbs); one that does comes to no row for the first time that is      *)
(* lower than one it holds (Settles). Both are shown part by part: what    *)
(* joins two parts is that the second begins above the first, or locks     *)
(* only what is held already. So a transaction without the global reset    *)
(* row waits for a row that comes after everything it holds in its chain.  *)
(* One with it may wait for a row of another chain, but never for one that *)
(* comes before a row it holds, and there is one such transaction at a     *)
(* time. Take a set that waits in a cycle. Without the reset holder in it, *)
(* its member that waits for the last row is blocked by one that waits for *)
(* a later row. With it, the same holds of the members that wait beyond    *)
(* the row the reset holder waits for, until the last is blocked by the    *)
(* reset holder, which would then wait for a row before one it holds.      *)
(*                                                                         *)
(* Catalogue (Routes): the row locks make the writers atomic, for any      *)
(* number of writers, models and providers: Routes implements RouteTable.  *)
(* Whoever has found a write to fit holds every row it may depend on that  *)
(* is there (Covered), nobody else holds one of them (Exclusive), and      *)
(* whoever changes an answer a check depends on must hold one of the same  *)
(* rows: so what fits at the check fits at the commit (Checked). A model   *)
(* that is created under a provider that is being deleted is the one row   *)
(* that cannot be held before it is there; its creator holds the provider, *)
(* which the deletion locks first (OwnerFirst).                            *)
(***************************************************************************)
EXTENDS LockOrder, Routes, FiniteSetTheorems, SequenceTheorems, WellFoundedInduction, TLAPS

(***************************************************************************)
(* A finite set has a member that is greatest                              *)
(***************************************************************************)

\* A function to the naturals has a greatest value on a finite set: the members
\* above x shrink strictly as x goes up, and strict subsets are well founded.
LEMMA GreatestMember ==
    ASSUME NEW E, IsFiniteSet(E), E # {},
           NEW f, \A x \in E : f[x] \in Nat
    PROVE  \E x \in E : \A y \in E : f[y] <= f[x]
<1> DEFINE Above(x) == {y \in E : f[y] > f[x]}
           Family == {Above(x) : x \in E}
<1>1. Family \subseteq FiniteSubsetsOf(E) /\ Family # {}
  <2>1. \A x \in E : Above(x) \in SUBSET E /\ IsFiniteSet(Above(x))
    BY FS_Subset
  <2> QED BY <2>1 DEF FiniteSubsetsOf
<1>2. PICK U \in Family : \A V \in Family : ~ (<<V, U>> \in StrictSubsetOrdering(E))
  <2> HIDE DEF Family
  <2> QED BY <1>1, FS_StrictSubsetOrderingWellFounded, WFMin
<1>3. PICK x \in E : U = Above(x)
  OBVIOUS
<1>4. ASSUME NEW y \in E, f[y] > f[x] PROVE FALSE
  <2>1. Above(y) \subseteq Above(x) /\ y \in Above(x) /\ y \notin Above(y)
    BY <1>4
  <2>2. Above(y) \in Family /\ Above(y) \in SUBSET E /\ Above(x) \in SUBSET E
    OBVIOUS
  <2>3. <<Above(y), Above(x)>> \in StrictSubsetOrdering(E)
    <3> HIDE DEF Above
    <3> QED BY <2>1, <2>2 DEF StrictSubsetOrdering
  <2> QED BY <1>2, <1>3, <2>2, <2>3
<1> QED BY <1>4

(***************************************************************************)
(* What a transaction holds                                                *)
(***************************************************************************)

AllRows == UNION {RowsOf(sc) : sc \in Scripts}
TxnRecords == [script : Scripts \union {<< >>}, held : SUBSET AllRows, want : AllRows \union {NoRow}]

\* Every transaction runs a path of Scripts or none.
LockShape == txn \in [Txns -> TxnRecords]

\* A transaction's fields, one by one.
LEMMA TxnFields ==
    ASSUME LockShape, NEW t \in Txns
    PROVE  /\ txn[t] \in TxnRecords
           /\ txn[t].script \in Scripts \union {<< >>}
           /\ txn[t].held \subseteq AllRows
           /\ txn[t].want \in AllRows \union {NoRow}
BY DEF LockShape, TxnRecords

\* A transaction that changes to a record of the right shape keeps LockShape.
LEMMA ShapeStep ==
    ASSUME LockShape, NEW t \in Txns, NEW e \in TxnRecords, txn' = [txn EXCEPT ![t] = e]
    PROVE  /\ LockShape'
           /\ txn'[t] = e
           /\ \A u \in Txns \ {t} : txn'[u] = txn[u]
BY DEF LockShape

\* What a transaction holds is what its script locks first: no statement after
\* its first unfinished one has been begun.
HoldsPrefix ==
    \A t \in Txns : \A h \in Held(t) :
        \E i \in 1 .. Len(txn[t].script) :
            /\ h \in txn[t].script[i]
            /\ \A k \in 1 .. i - 1 : txn[t].script[k] \subseteq Held(t)

\* What a transaction waits for is its next row.
WaitsForNext == \A t \in Txns : Waiting(t) => txn[t].want \in Due(t)

LockInv == LockShape /\ RowsExclusive /\ HoldsPrefix /\ WaitsForNext

\* A row that comes next is in the script, and in no statement already done.
LEMMA DueRow ==
    ASSUME NEW sc, NEW H, NEW r \in NextRows(sc, H)
    PROVE  \E j \in 1 .. Len(sc) : r \in sc[j] \ H /\ \A k \in 1 .. j - 1 : sc[k] \subseteq H
BY DEF NextRows

\* A path without statements has no next row.
LEMMA EmptyPath == RowsOf(<< >>) = {} /\ \A H : NextRows(<< >>, H) = {}
BY DEF RowsOf, NextRows

\* A step that gives t the row r that comes next keeps the invariant.
LEMMA TakeKeepsInv ==
    ASSUME LockInv, NEW t \in Txns, NEW r \in Due(t), Free(r),
           txn' = [txn EXCEPT ![t] = [script |-> txn[t].script,
                                      held |-> Held(t) \union {r}, want |-> NoRow]]
    PROVE  LockInv'
<1> USE DEF LockInv, Held, Waiting, Due
<1>1. txn[t].script \in Scripts /\ r \in RowsOf(txn[t].script)
  <2>1. txn[t].script \in Scripts \union {<< >>} BY TxnFields
  <2>2. txn[t].script # << >> BY EmptyPath
  <2>3. r \in RowsOf(txn[t].script) BY DueRow DEF RowsOf
  <2> QED BY <2>1, <2>2, <2>3
<1>2. LockShape'
  <2>1. txn[t].held \union {r} \subseteq AllRows
    BY <1>1, TxnFields DEF AllRows
  <2>2. NoRow \in AllRows \union {NoRow}
    OBVIOUS
  <2>3. [script |-> txn[t].script, held |-> Held(t) \union {r}, want |-> NoRow] \in TxnRecords
    BY <2>1, <2>2, <1>1 DEF TxnRecords
  <2> QED BY <2>3, ShapeStep
<1>3. /\ txn'[t] = [script |-> txn[t].script, held |-> Held(t) \union {r}, want |-> NoRow]
      /\ \A u \in Txns \ {t} : txn'[u] = txn[u]
  BY DEF LockShape
<1>4. RowsExclusive'
  BY <1>3 DEF RowsExclusive, Free
<1>5. HoldsPrefix'
  <2> SUFFICES ASSUME NEW u \in Txns, NEW h \in Held(u)'
               PROVE (\E i \in 1 .. Len(txn[u].script) :
                        /\ h \in txn[u].script[i]
                        /\ \A k \in 1 .. i - 1 : txn[u].script[k] \subseteq Held(u))'
    BY DEF HoldsPrefix
  <2>1. CASE u # t
    BY <2>1, <1>3 DEF HoldsPrefix
  <2>2. CASE u = t /\ h = r
    <3>1. PICK j \in 1 .. Len(txn[t].script) :
            r \in txn[t].script[j] \ Held(t) /\ \A k \in 1 .. j - 1 : txn[t].script[k] \subseteq Held(t)
      BY DueRow
    <3> QED BY <2>2, <3>1, <1>3
  <2>3. CASE u = t /\ h \in Held(t)
    <3>1. PICK i \in 1 .. Len(txn[t].script) :
            h \in txn[t].script[i] /\ \A k \in 1 .. i - 1 : txn[t].script[k] \subseteq Held(t)
      BY <2>3 DEF HoldsPrefix
    <3> QED BY <2>3, <3>1, <1>3
  <2> QED BY <2>1, <2>2, <2>3, <1>3
<1>6. WaitsForNext'
  BY <1>3 DEF WaitsForNext
<1> QED BY <1>2, <1>4, <1>5, <1>6

\* The invariant holds at the start and after every step.
LEMMA LockInvInit == Init => LockInv
<1> SUFFICES ASSUME Init PROVE LockInv
  OBVIOUS
<1>1. NoTxn \in TxnRecords
  BY DEF NoTxn, TxnRecords
<1>2. \A t \in Txns : txn[t] = NoTxn
  BY DEF Init
<1>3. LockShape
  BY <1>1 DEF Init, LockShape
<1> QED BY <1>2, <1>3 DEF LockInv, NoTxn, RowsExclusive, HoldsPrefix, WaitsForNext, Held, Waiting

LEMMA LockInvStep == LockInv /\ [Next]_vars => LockInv'
<1> SUFFICES ASSUME LockInv, [Next]_vars PROVE LockInv'
  OBVIOUS
<1>1. ASSUME NEW t \in Txns, NEW sc \in Scripts, BeginTxn(t, sc) PROVE LockInv'
  <2>2. /\ txn'[t] = [script |-> sc, held |-> {}, want |-> NoRow]
        /\ \A u \in Txns \ {t} : txn'[u] = txn[u]
        /\ LockShape'
    <3> DEFINE e == [script |-> sc, held |-> {}, want |-> NoRow]
    <3>1. e \in TxnRecords
      BY DEF TxnRecords
    <3>2. txn' = [txn EXCEPT ![t] = e]
      BY <1>1 DEF BeginTxn
    <3> HIDE DEF e
    <3>3. LockShape' /\ txn'[t] = e /\ \A u \in Txns \ {t} : txn'[u] = txn[u]
      BY <3>1, <3>2, ShapeStep DEF LockInv
    <3> QED BY <3>3 DEF e
  <2>3. RowsExclusive'
    BY <2>2 DEF LockInv, RowsExclusive, Held
  <2>4. HoldsPrefix'
    BY <2>2 DEF LockInv, HoldsPrefix, Held
  <2>5. WaitsForNext'
    BY <2>2 DEF LockInv, WaitsForNext, Waiting, Due, Held
  <2> QED BY <2>2, <2>3, <2>4, <2>5 DEF LockInv
<1>2. ASSUME NEW t \in Txns, NEW r \in Due(t), Lock(t, r) PROVE LockInv'
  <2>1. txn' = [txn EXCEPT ![t] = [script |-> txn[t].script,
                                   held |-> Held(t) \union {r}, want |-> NoRow]]
    BY <1>2 DEF Lock, Gets
  <2> QED BY <1>2, <2>1, TakeKeepsInv DEF Lock
<1>3. ASSUME NEW t \in Txns, NEW r \in Due(t), Wait(t, r) PROVE LockInv'
  <2>1. /\ txn'[t] = [script |-> txn[t].script, held |-> Held(t), want |-> r]
        /\ \A u \in Txns \ {t} : txn'[u] = txn[u]
        /\ LockShape'
    <3> DEFINE e == [script |-> txn[t].script, held |-> Held(t), want |-> r]
    <3>1. txn[t].script \in Scripts /\ r \in RowsOf(txn[t].script)
      <4>1. txn[t].script # << >> BY EmptyPath DEF Due
      <4>2. r \in RowsOf(txn[t].script) BY DueRow DEF RowsOf, Due
      <4> QED BY <4>1, <4>2, TxnFields DEF LockInv
    <3>2. r \in AllRows
      BY <3>1 DEF AllRows
    <3>3. e \in TxnRecords
      BY <3>1, <3>2, TxnFields DEF LockInv, TxnRecords, Held
    <3>4. [txn[t] EXCEPT !.want = r] = e
      BY TxnFields DEF LockInv, Held, TxnRecords
    <3>5. txn' = [txn EXCEPT ![t] = e]
      BY <1>3, <3>4 DEF Wait
    <3> HIDE DEF e
    <3>6. LockShape' /\ txn'[t] = e /\ \A u \in Txns \ {t} : txn'[u] = txn[u]
      BY <3>3, <3>5, ShapeStep DEF LockInv
    <3> QED BY <3>6 DEF e
  <2>3. RowsExclusive'
    BY <2>1 DEF LockInv, RowsExclusive, Held
  <2>4. HoldsPrefix'
    BY <2>1 DEF LockInv, HoldsPrefix, Held
  <2>5. WaitsForNext'
    BY <2>1 DEF LockInv, WaitsForNext, Waiting, Due, Held
  <2> QED BY <2>1, <2>3, <2>4, <2>5 DEF LockInv
<1>4. ASSUME NEW t \in Txns, Grant(t) PROVE LockInv'
  <2>1. txn[t].want \in Due(t) /\ Free(txn[t].want)
    BY <1>4 DEF Grant, LockInv, WaitsForNext
  <2>2. txn' = [txn EXCEPT ![t] = [script |-> txn[t].script,
                                   held |-> Held(t) \union {txn[t].want}, want |-> NoRow]]
    BY <1>4 DEF Grant, Gets
  <2> QED BY <2>1, <2>2, TakeKeepsInv
<1>5. ASSUME NEW t \in Txns, End(t) PROVE LockInv'
  <2>1. NoTxn \in TxnRecords
    BY DEF NoTxn, TxnRecords
  <2>2. LockShape' /\ txn'[t] = NoTxn /\ \A u \in Txns \ {t} : txn'[u] = txn[u]
    BY <1>5, <2>1, ShapeStep DEF End, LockInv
  <2>3. RowsExclusive'
    BY <2>2 DEF LockInv, RowsExclusive, Held, NoTxn
  <2>4. HoldsPrefix'
    BY <2>2 DEF LockInv, HoldsPrefix, Held, NoTxn
  <2>5. WaitsForNext'
    BY <2>2 DEF LockInv, WaitsForNext, Waiting, Due, Held, NoTxn
  <2> QED BY <2>2, <2>3, <2>4, <2>5 DEF LockInv
<1>6. CASE UNCHANGED vars
  BY <1>6 DEF vars, LockInv, LockShape, RowsExclusive, HoldsPrefix, WaitsForNext, Held, Waiting, Due
<1> QED BY <1>1, <1>2, <1>3, <1>4, <1>5, <1>6 DEF Next

(***************************************************************************)
(* The paths                                                               *)
(***************************************************************************)

\* A path one statement after another.
IsPath(sc) == sc \in Seq(Elements(sc))

LEMMA PathFields ==
    ASSUME NEW sc, IsPath(sc)
    PROVE  /\ Len(sc) \in Nat
           /\ RowsOf(sc) = UNION Elements(sc)
           /\ \A r \in RowsOf(sc) : \E i \in 1 .. Len(sc) : r \in sc[i]
           /\ \A i \in 1 .. Len(sc) : \A r \in sc[i] : r \in RowsOf(sc)
  BY DEF IsPath, RowsOf, Elements

LEMMA PathOf ==
    ASSUME NEW n \in Nat, NEW sc, sc = [i \in 1 .. n |-> sc[i]]
    PROVE  IsPath(sc) /\ Len(sc) = n
  <1> DEFINE T == {sc[i] : i \in 1 .. n}
  <1>1. sc \in [1 .. n -> T]  OBVIOUS
  <1>2. sc \in Seq(T) /\ Len(sc) = n
    <2> HIDE DEF T
    <2> QED  BY <1>1
  <1> QED  BY <1>2 DEF IsPath, Elements

LEMMA PathsJoined ==
    ASSUME NEW s, NEW t, IsPath(s), IsPath(t)
    PROVE  /\ IsPath(s \o t) /\ Len(s \o t) = Len(s) + Len(t) /\ Len(s) \in Nat /\ Len(t) \in Nat
           /\ \A i \in 1 .. Len(s) : (s \o t)[i] = s[i]
           /\ \A i \in 1 .. Len(t) : (s \o t)[Len(s) + i] = t[i]
           /\ \A i \in 1 .. Len(s \o t) : i \notin 1 .. Len(s) => i - Len(s) \in 1 .. Len(t) /\ (s \o t)[i] = t[i - Len(s)]
           /\ RowsOf(s \o t) = RowsOf(s) \union RowsOf(t)
  <1> DEFINE T == Elements(s) \union Elements(t)
  <1>1. s \in Seq(T) /\ t \in Seq(T)
    <2>1. s \in Seq(Elements(s)) /\ t \in Seq(Elements(t))  BY DEF IsPath
    <2>2. Elements(s) \subseteq T /\ Elements(t) \subseteq T  OBVIOUS
    <2> HIDE DEF T
    <2> QED  BY <2>1, <2>2
  <1> HIDE DEF T
  <1>2. PICK u : u = s \o t  OBVIOUS
  <1>3. u \in Seq(T) /\ Len(u) = Len(s) + Len(t) /\ Len(s) \in Nat /\ Len(t) \in Nat
        /\ \A i \in 1 .. Len(u) : u[i] = IF i <= Len(s) THEN s[i] ELSE t[i - Len(s)]
    BY <1>1, <1>2, ConcatProperties, LenProperties
  <1>4. IsPath(u)
    <2>1. u = [i \in 1 .. Len(u) |-> u[i]] /\ Len(u) \in Nat  BY <1>3
    <2> QED  BY <2>1, PathOf
  <1>5. \A i \in 1 .. Len(s) : u[i] = s[i]  BY <1>3
  <1>6. \A i \in 1 .. Len(t) : Len(s) + i \in 1 .. Len(u) /\ u[Len(s) + i] = t[i]
    <2> TAKE i \in 1 .. Len(t)
    <2>1. Len(s) + i \in 1 .. Len(u) /\ ~ (Len(s) + i <= Len(s)) /\ (Len(s) + i) - Len(s) = i  BY <1>3
    <2> QED  BY <1>3, <2>1
  <1>7. \A i \in 1 .. Len(u) : i \notin 1 .. Len(s) => i - Len(s) \in 1 .. Len(t) /\ u[i] = t[i - Len(s)]
    BY <1>3
  <1>8. RowsOf(u) = RowsOf(s) \union RowsOf(t)
    <2>1. ASSUME NEW r \in RowsOf(u) PROVE r \in RowsOf(s) \union RowsOf(t)
      <3>1. PICK i \in 1 .. Len(u) : r \in u[i]  BY <2>1 DEF RowsOf
      <3> QED  BY <1>5, <1>7, <3>1 DEF RowsOf
    <2>2. ASSUME NEW r \in RowsOf(s) PROVE r \in RowsOf(u)
      <3>1. PICK i \in 1 .. Len(s) : r \in s[i]  BY <2>2 DEF RowsOf
      <3>2. i \in 1 .. Len(u) /\ r \in u[i]  BY <1>3, <1>5, <3>1
      <3> QED  BY <3>2 DEF RowsOf
    <2>3. ASSUME NEW r \in RowsOf(t) PROVE r \in RowsOf(u)
      <3>1. PICK i \in 1 .. Len(t) : r \in t[i]  BY <2>3 DEF RowsOf
      <3> QED  BY <1>6, <3>1 DEF RowsOf
    <2> QED  BY <2>1, <2>2, <2>3
  <1> QED  BY <1>2, <1>3, <1>4, <1>5, <1>6, <1>7, <1>8

\* A path that goes up one chain, one row at a time, between two places.
Climbs(sc, chain, low, high) ==
    /\ IsPath(sc)
    /\ \A i \in 1 .. Len(sc) : \A r \in sc[i] : Chain(r) = chain /\ Place(r) \in low .. high
    /\ \A i \in 1 .. Len(sc) : \A r, q \in sc[i] : r = q
    /\ \A i, j \in 1 .. Len(sc) : i < j => \A r \in sc[i], q \in sc[j] : Place(r) < Place(q)

LEMMA ClimbsOn ==
    ASSUME NEW s, NEW t, NEW chain, NEW low \in Nat, NEW mid \in Nat, NEW next \in Nat, NEW high \in Nat,
           low <= next, mid < next, mid <= high, Climbs(s, chain, low, mid), Climbs(t, chain, next, high)
    PROVE  Climbs(s \o t, chain, low, high)
  <1>1. PICK u : u = s \o t  OBVIOUS
  <1>2. /\ IsPath(u) /\ Len(u) = Len(s) + Len(t) /\ Len(s) \in Nat /\ Len(t) \in Nat
        /\ \A i \in 1 .. Len(s) : u[i] = s[i]
        /\ \A i \in 1 .. Len(u) : i \notin 1 .. Len(s) => i - Len(s) \in 1 .. Len(t) /\ u[i] = t[i - Len(s)]
    BY <1>1, PathsJoined DEF Climbs
  <1>3. ASSUME NEW i \in 1 .. Len(u)
        PROVE  /\ \A r \in u[i] : Chain(r) = chain /\ Place(r) \in low .. high
               /\ \A r, q \in u[i] : r = q
               /\ i \in 1 .. Len(s) => \A r \in u[i] : Place(r) \in low .. mid
               /\ i \notin 1 .. Len(s) => \A r \in u[i] : Place(r) \in next .. high
    <2>1. CASE i \in 1 .. Len(s)
      <3>1. \A r \in s[i] : Chain(r) = chain /\ Place(r) \in low .. mid  BY <2>1 DEF Climbs
      <3>2. \A r, q \in s[i] : r = q  BY <2>1 DEF Climbs
      <3>3. u[i] = s[i]  BY <1>2, <2>1
      <3>4. \A r \in u[i] : Place(r) \in low .. high  BY <3>1, <3>3
      <3> QED  BY <2>1, <3>1, <3>2, <3>3, <3>4
    <2>2. CASE i \notin 1 .. Len(s)
      <3>1. PICK k \in 1 .. Len(t) : u[i] = t[k]  BY <1>2, <2>2
      <3>2. \A r \in t[k] : Chain(r) = chain /\ Place(r) \in next .. high  BY DEF Climbs
      <3>3. \A r, q \in t[k] : r = q  BY DEF Climbs
      <3>4. \A r \in u[i] : Place(r) \in low .. high  BY <3>1, <3>2
      <3> QED  BY <2>2, <3>1, <3>2, <3>3, <3>4
    <2> QED  BY <2>1, <2>2
  <1>4. ASSUME NEW i \in 1 .. Len(u), NEW j \in 1 .. Len(u), i < j, NEW r \in u[i], NEW q \in u[j]
        PROVE  Place(r) < Place(q)
    <2>1. CASE j \in 1 .. Len(s)
      <3>1. i \in 1 .. Len(s) /\ u[i] = s[i] /\ u[j] = s[j]  BY <1>2, <1>4, <2>1
      <3> QED  BY <1>4, <2>1, <3>1 DEF Climbs
    <2>2. CASE i \in 1 .. Len(s) /\ j \notin 1 .. Len(s)
      <3>1. Place(r) \in low .. mid /\ Place(q) \in next .. high  BY <1>3, <2>2
      <3> QED  BY <3>1
    <2>3. CASE i \notin 1 .. Len(s) /\ j \notin 1 .. Len(s)
      <3>1. PICK k \in 1 .. Len(t) : k = i - Len(s) /\ u[i] = t[k]  BY <1>2, <2>3
      <3>2. PICK l \in 1 .. Len(t) : l = j - Len(s) /\ u[j] = t[l]  BY <1>2, <2>3
      <3>3. k < l  BY <1>2, <1>4, <3>1, <3>2
      <3> QED  BY <3>1, <3>2, <3>3 DEF Climbs
    <2>4. j \notin 1 .. Len(s) \/ i \in 1 .. Len(s)  BY <1>2, <1>4
    <2> QED  BY <2>1, <2>2, <2>3, <2>4
  <1>5. Climbs(u, chain, low, high)  BY <1>2, <1>3, <1>4 DEF Climbs
  <1> QED  BY <1>1, <1>5

\* A path that never comes to lock a row before one it holds.
Settles(sc) ==
    /\ IsPath(sc)
    /\ \A r \in RowsOf(sc) : Place(r) \in Nat
    /\ \A j \in 1 .. Len(sc) : \A w \in sc[j] :
         (\A k \in 1 .. j - 1 : w \notin sc[k]) => \A i \in 1 .. j : \A h \in sc[i] : ~ Lower(w, h)

LEMMA SettlesOn ==
    ASSUME NEW s, NEW t, Settles(s), Settles(t),
           \A h \in RowsOf(s), w \in RowsOf(t) \ RowsOf(s) : ~ Lower(w, h)
    PROVE  Settles(s \o t) /\ RowsOf(s \o t) = RowsOf(s) \union RowsOf(t)
  <1>1. PICK u : u = s \o t  OBVIOUS
  <1>2. /\ IsPath(u) /\ Len(u) = Len(s) + Len(t) /\ Len(s) \in Nat /\ Len(t) \in Nat
        /\ \A i \in 1 .. Len(s) : u[i] = s[i]
        /\ \A i \in 1 .. Len(t) : u[Len(s) + i] = t[i]
        /\ \A i \in 1 .. Len(u) : i \notin 1 .. Len(s) => i - Len(s) \in 1 .. Len(t) /\ u[i] = t[i - Len(s)]
        /\ RowsOf(u) = RowsOf(s) \union RowsOf(t)
    BY <1>1, PathsJoined DEF Settles
  <1>3. ASSUME NEW j \in 1 .. Len(u), NEW w \in u[j], \A k \in 1 .. j - 1 : w \notin u[k],
               NEW i \in 1 .. j, NEW h \in u[i]
        PROVE  ~ Lower(w, h)
    <2>1. CASE j \in 1 .. Len(s)
      <3>1. i \in 1 .. Len(s) /\ u[i] = s[i] /\ u[j] = s[j]  BY <1>2, <2>1
      <3>2. \A k \in 1 .. j - 1 : w \notin s[k]  BY <1>2, <1>3, <2>1
      <3> QED  BY <2>1, <3>1, <3>2 DEF Settles
    <2>2. CASE j \notin 1 .. Len(s)
      <3>1. PICK l \in 1 .. Len(t) : l = j - Len(s) /\ u[j] = t[l]  BY <1>2, <2>2
      <3>2. w \notin RowsOf(s)
        <4>1. ASSUME NEW k \in 1 .. Len(s) PROVE w \notin s[k]
          <5>1. k \in 1 .. j - 1 /\ u[k] = s[k]  BY <1>2, <2>2
          <5> QED  BY <1>3, <5>1
        <4> QED  BY <4>1 DEF RowsOf
      <3>3. w \in RowsOf(t)  BY <3>1 DEF RowsOf
      <3>4. CASE i \in 1 .. Len(s)
        <4>1. h \in RowsOf(s)  BY <1>2, <3>4 DEF RowsOf
        <4> QED  BY <3>2, <3>3, <4>1
      <3>5. CASE i \notin 1 .. Len(s)
        <4>1. i \in 1 .. Len(u)  BY <1>2
        <4>2. PICK n \in 1 .. Len(t) : n = i - Len(s) /\ u[i] = t[n]  BY <1>2, <3>5, <4>1
        <4>3. n \in 1 .. l  BY <1>2, <3>1, <4>2
        <4>4. ASSUME NEW k \in 1 .. l - 1 PROVE w \notin t[k]
          <5>1. Len(s) + k \in 1 .. j - 1 /\ k \in 1 .. Len(t) /\ u[Len(s) + k] = t[k]  BY <1>2, <3>1
          <5> QED  BY <1>3, <5>1
        <4> QED  BY <3>1, <4>2, <4>3, <4>4 DEF Settles
      <3> QED  BY <3>4, <3>5
    <2> QED  BY <2>1, <2>2
  <1>4. \A r \in RowsOf(u) : Place(r) \in Nat  BY <1>2 DEF Settles
  <1>5. Settles(u)  BY <1>2, <1>3, <1>4 DEF Settles
  <1> QED  BY <1>1, <1>2, <1>5

LEMMA ClimbSettles ==
    ASSUME NEW sc, NEW chain, NEW low \in Nat, NEW high \in Nat, Climbs(sc, chain, low, high)
    PROVE  /\ Settles(sc)
           /\ \A r \in RowsOf(sc) : Chain(r) = chain /\ Place(r) \in low .. high
  <1>1. \A r \in RowsOf(sc) : Chain(r) = chain /\ Place(r) \in low .. high
    BY DEF Climbs, RowsOf
  <1>2. ASSUME NEW j \in 1 .. Len(sc), NEW w \in sc[j], NEW i \in 1 .. j, NEW h \in sc[i]
        PROVE  ~ Lower(w, h)
    <2>1. i \in 1 .. Len(sc) /\ Len(sc) \in Nat  BY PathFields DEF Climbs
    <2>2. Place(h) \in low .. high /\ Place(w) \in low .. high  BY <2>1 DEF Climbs
    <2>3. i < j => Place(h) < Place(w)  BY <2>1 DEF Climbs
    <2>4. i = j => h = w  BY <2>1 DEF Climbs
    <2>5. Place(h) <= Place(w)  BY <2>1, <2>2, <2>3, <2>4
    <2> QED  BY <2>2, <2>5 DEF Lower
  <1>3. IsPath(sc)  BY DEF Climbs
  <1>4. \A r \in RowsOf(sc) : Place(r) \in Nat  BY <1>1
  <1> QED  BY <1>1, <1>2, <1>3, <1>4 DEF Settles

LEMMA ResetFacts == Chain(ResetRow) = "reset" /\ Place(ResetRow) = 0
  BY DEF Chain, Place, ResetRow

LEMMA ClimbInOrder ==
    ASSUME NEW sc, NEW chain, NEW low \in Nat, NEW high \in Nat, Climbs(sc, chain, low, high), chain # "reset"
    PROVE  InOrder(sc)
  <1>1. /\ \A r \in RowsOf(sc) : Chain(r) = chain /\ Place(r) \in low .. high
        /\ Settles(sc)
    BY ClimbSettles
  <1>2. Len(sc) \in Nat  BY PathFields DEF Climbs
  <1>3. ResetRow \notin RowsOf(sc)  BY <1>1, ResetFacts
  <1>4. ASSUME NEW h \in RowsOf(sc), NEW w \in RowsOf(sc), h # w, LocksBefore(sc, h, w)
        PROVE  Lower(h, w) /\ ~ Lower(w, h)
    <2>1. PICK j \in 1 .. Len(sc) : w \in sc[j] /\ \E i \in 1 .. j : h \in sc[i]  BY <1>4 DEF LocksBefore
    <2>2. PICK i \in 1 .. j : h \in sc[i]  BY <2>1
    <2>3. i \in 1 .. Len(sc)  BY <1>2
    <2>4. i # j  BY <1>4, <2>1, <2>2, <2>3 DEF Climbs
    <2>5. i < j  BY <1>2, <2>4
    <2>6. Place(h) < Place(w)  BY <2>1, <2>2, <2>3, <2>5 DEF Climbs
    <2>7. Chain(h) = Chain(w) /\ Place(h) \in Nat /\ Place(w) \in Nat  BY <1>1
    <2> QED  BY <2>6, <2>7 DEF Lower
  <1>5. \A r \in RowsOf(sc) : Place(r) \in Nat  BY <1>1
  <1> QED  BY <1>2, <1>3, <1>4, <1>5 DEF InOrder

\* A path that takes the global reset row first, and is in order after it.
Opens(sc) == Settles(sc) /\ Len(sc) >= 1 /\ sc[1] = {ResetRow}

LEMMA SerialInOrder ==
    ASSUME NEW sc, Opens(sc) PROVE InOrder(sc)
  <1>1. Serial(sc) /\ Settles(sc)  BY DEF Serial, Opens
  <1>2. Len(sc) \in Nat /\ \A r \in RowsOf(sc) : Place(r) \in Nat  BY <1>1, PathFields DEF Settles
  <1>3. ASSUME NEW h \in RowsOf(sc), NEW w \in RowsOf(sc), LocksBefore(sc, h, w)
        PROVE  ~ Lower(w, h)
    <2>1. PICK j \in 1 .. Len(sc) : w \in sc[j] /\ (\A k \in 1 .. j - 1 : w \notin sc[k]) /\ \E i \in 1 .. j : h \in sc[i]
      BY <1>3 DEF LocksBefore
    <2> QED  BY <1>1, <2>1 DEF Settles
  <1> QED  BY <1>1, <1>2, <1>3 DEF InOrder

LEMMA OpensOn ==
    ASSUME NEW s, NEW t, Opens(s), Settles(t),
           \A h \in RowsOf(s), w \in RowsOf(t) \ RowsOf(s) : ~ Lower(w, h)
    PROVE  Opens(s \o t) /\ RowsOf(s \o t) = RowsOf(s) \union RowsOf(t)
  <1>1. PICK u : u = s \o t  OBVIOUS
  <1>2. Settles(u) /\ RowsOf(u) = RowsOf(s) \union RowsOf(t)  BY <1>1, SettlesOn DEF Opens
  <1>3. Len(u) = Len(s) + Len(t) /\ Len(s) \in Nat /\ Len(t) \in Nat /\ \A i \in 1 .. Len(s) : u[i] = s[i]
    BY <1>1, PathsJoined DEF Opens, Settles
  <1>4. u[1] = {ResetRow} /\ Len(u) >= 1  BY <1>3 DEF Opens
  <1> QED  BY <1>1, <1>2, <1>4 DEF Opens

\* The reset row, alone or with rows of one statement after it.
LEMMA OpensAlone == Opens(<<{ResetRow}>>) /\ RowsOf(<<{ResetRow}>>) = {ResetRow}
  <1>1. PICK sc : sc = <<{ResetRow}>>  OBVIOUS
  <1>2. IsPath(sc) /\ Len(sc) = 1 /\ sc[1] = {ResetRow}  BY <1>1 DEF IsPath, Elements
  <1>3. RowsOf(sc) = {ResetRow}  BY <1>2 DEF RowsOf
  <1>4. ~ Lower(ResetRow, ResetRow)  BY ResetFacts DEF Lower
  <1>5. Settles(sc)  BY <1>2, <1>3, <1>4, ResetFacts DEF Settles
  <1> QED  BY <1>1, <1>2, <1>3, <1>5 DEF Opens

LEMMA OpensWith ==
    ASSUME NEW R, \A r \in R : Chain(r) # "reset" /\ Place(r) \in Nat, \A r, q \in R : ~ Lower(r, q)
    PROVE  Opens(<<{ResetRow}, R>>) /\ RowsOf(<<{ResetRow}, R>>) = {ResetRow} \union R
  <1>1. PICK sc : sc = <<{ResetRow}, R>>  OBVIOUS
  <1>2. IsPath(sc) /\ Len(sc) = 2 /\ sc[1] = {ResetRow} /\ sc[2] = R  BY <1>1 DEF IsPath, Elements
  <1>3. \A i \in 1 .. Len(sc) : i = 1 \/ i = 2  BY <1>2
  <1>4. RowsOf(sc) = {ResetRow} \union R
    <2>1. \A r \in RowsOf(sc) : r = ResetRow \/ r \in R  BY <1>2, <1>3 DEF RowsOf
    <2>2. ResetRow \in RowsOf(sc) /\ \A r \in R : r \in RowsOf(sc)
      <3>1. 1 \in 1 .. Len(sc) /\ 2 \in 1 .. Len(sc)  BY <1>2
      <3> QED  BY <1>2, <3>1 DEF RowsOf
    <2> QED  BY <2>1, <2>2
  <1>5. \A h, w \in RowsOf(sc) : ~ Lower(w, h)
    <2>1. ~ Lower(ResetRow, ResetRow)  BY ResetFacts DEF Lower
    <2>2. \A r \in R : ~ Lower(ResetRow, r) /\ ~ Lower(r, ResetRow)  BY ResetFacts DEF Lower
    <2> QED  BY <1>4, <2>1, <2>2
  <1>6. \A i \in 1 .. Len(sc) : \A r \in sc[i] : r \in RowsOf(sc)  BY DEF RowsOf
  <1>7. \A r \in RowsOf(sc) : Place(r) \in Nat  BY <1>4, ResetFacts
  <1>8. Settles(sc)
    <2>1. ASSUME NEW j \in 1 .. Len(sc), NEW w \in sc[j], NEW i \in 1 .. j, NEW h \in sc[i]
          PROVE  ~ Lower(w, h)
      <3>1. i \in 1 .. Len(sc)  BY <1>2
      <3> QED  BY <1>5, <1>6, <3>1
    <2> QED  BY <1>2, <1>7, <2>1 DEF Settles
  <1> QED  BY <1>1, <1>2, <1>4, <1>8 DEF Opens

(***************************************************************************)
(* The rows                                                                *)
(***************************************************************************)

LEMMA PlaceInList ==
    ASSUME NEW s, IsList(s), NEW i \in 1 .. Len(s)
    PROVE  IndexIn(s, s[i]) = i
  <1>1. \A j \in 1 .. Len(s) : s[j] = s[i] => j = i  BY DEF IsList
  <1> QED  BY <1>1 DEF IndexIn

LEMMA Lists ==
    /\ Len(Kinds) \in Nat /\ Len(PoolOrder) \in Nat /\ Len(GrantOrder) \in Nat
    /\ Len(SweepOrder) \in Nat /\ Len(CardOrder) \in Nat
    /\ IsList(Kinds) /\ IsList(PoolOrder) /\ IsList(GrantOrder) /\ IsList(SweepOrder) /\ IsList(CardOrder)
    /\ IsPath(Kinds)
  BY NamesAssumption DEF IsList, IsPath

\* The places before the first counter's.
Below == 2 * Len(PoolOrder) + 1 + Len(GrantOrder)

LEMMA RowPlaces ==
    /\ \A i \in 1 .. Len(PoolOrder) :
         Chain(PoolRow(PoolOrder[i])) = "pay" /\ Place(PoolRow(PoolOrder[i])) = 2 * i
    /\ \A i \in 1 .. Len(PoolOrder) : \A a :
         Chain(UsageRow(PoolOrder[i], a)) = "pay" /\ Place(UsageRow(PoolOrder[i], a)) = 2 * i + 1
    /\ \A i \in 1 .. Len(GrantOrder) : \A a :
         /\ Chain(GrantRow(a, GrantOrder[i])) = "pay"
         /\ Place(GrantRow(a, GrantOrder[i])) = 2 * Len(PoolOrder) + 1 + i
    /\ \A i \in 1 .. Len(Kinds) : \A a, b :
         Chain(Counter(a, Kinds[i], b)) = "pay" /\ Place(Counter(a, Kinds[i], b)) = Below + i
    /\ \A i \in 1 .. Len(CardOrder) : \A a :
         Chain(CardRow(a, CardOrder[i])) = "account" /\ Place(CardRow(a, CardOrder[i])) = i
    /\ \A a : Chain(UserRow(a)) = "account" /\ Place(UserRow(a)) = 0
    /\ \A a, k : Chain(StaleRow(a, k)) = "stale" /\ Place(StaleRow(a, k)) = 0
  <1>1. ASSUME NEW i \in 1 .. Len(PoolOrder), NEW a
        PROVE  /\ Chain(PoolRow(PoolOrder[i])) = "pay" /\ Place(PoolRow(PoolOrder[i])) = 2 * i
               /\ Chain(UsageRow(PoolOrder[i], a)) = "pay" /\ Place(UsageRow(PoolOrder[i], a)) = 2 * i + 1
    <2>1. IndexIn(PoolOrder, PoolOrder[i]) = i  BY Lists, PlaceInList
    <2>2. Place(PoolRow(PoolOrder[i])) = 2 * IndexIn(PoolOrder, PoolOrder[i])  BY DEF Place, PoolRow
    <2>3. Place(UsageRow(PoolOrder[i], a)) = 2 * IndexIn(PoolOrder, PoolOrder[i]) + 1  BY DEF Place, UsageRow
    <2>4. Chain(PoolRow(PoolOrder[i])) = "pay"  BY DEF Chain, PoolRow
    <2>5. Chain(UsageRow(PoolOrder[i], a)) = "pay"  BY DEF Chain, UsageRow
    <2> QED  BY <2>1, <2>2, <2>3, <2>4, <2>5
  <1>2. ASSUME NEW i \in 1 .. Len(GrantOrder), NEW a
        PROVE  /\ Chain(GrantRow(a, GrantOrder[i])) = "pay"
               /\ Place(GrantRow(a, GrantOrder[i])) = 2 * Len(PoolOrder) + 1 + i
    <2>1. IndexIn(GrantOrder, GrantOrder[i]) = i  BY Lists, PlaceInList
    <2>2. Place(GrantRow(a, GrantOrder[i])) = 2 * Len(PoolOrder) + 1 + IndexIn(GrantOrder, GrantOrder[i])
      BY DEF Place, GrantRow
    <2>3. Chain(GrantRow(a, GrantOrder[i])) = "pay"  BY DEF Chain, GrantRow
    <2> QED  BY <2>1, <2>2, <2>3
  <1>3. ASSUME NEW i \in 1 .. Len(Kinds), NEW a, NEW b
        PROVE  Chain(Counter(a, Kinds[i], b)) = "pay" /\ Place(Counter(a, Kinds[i], b)) = Below + i
    <2>1. IndexIn(Kinds, Kinds[i]) = i  BY Lists, PlaceInList
    <2>2. Place(Counter(a, Kinds[i], b)) = Below + IndexIn(Kinds, Kinds[i])  BY DEF Place, Counter, Below
    <2>3. Chain(Counter(a, Kinds[i], b)) = "pay"  BY DEF Chain, Counter
    <2> QED  BY <2>1, <2>2, <2>3
  <1>4. ASSUME NEW i \in 1 .. Len(CardOrder), NEW a
        PROVE  Chain(CardRow(a, CardOrder[i])) = "account" /\ Place(CardRow(a, CardOrder[i])) = i
    <2>1. IndexIn(CardOrder, CardOrder[i]) = i  BY Lists, PlaceInList
    <2>2. Place(CardRow(a, CardOrder[i])) = IndexIn(CardOrder, CardOrder[i])  BY DEF Place, CardRow
    <2>3. Chain(CardRow(a, CardOrder[i])) = "account"  BY DEF Chain, CardRow
    <2> QED  BY <2>1, <2>2, <2>3
  <1>5. ASSUME NEW a, NEW k
        PROVE  /\ Chain(UserRow(a)) = "account" /\ Place(UserRow(a)) = 0
               /\ Chain(StaleRow(a, k)) = "stale" /\ Place(StaleRow(a, k)) = 0
    BY DEF Chain, Place, UserRow, StaleRow
  <1> QED  BY <1>1, <1>2, <1>3, <1>4, <1>5

(***************************************************************************)
(* The parts that paths are made of                                        *)
(***************************************************************************)

LEMMA ShortPath ==
    ASSUME NEW r, NEW chain, Chain(r) = chain, NEW place \in Nat, Place(r) = place
    PROVE  Climbs(<<{r}>>, chain, place, place) /\ RowsOf(<<{r}>>) = {r}
  <1>1. IsPath(<<{r}>>) /\ Len(<<{r}>>) = 1 /\ <<{r}>>[1] = {r}  BY DEF IsPath, Elements
  <1> QED  BY <1>1 DEF Climbs, RowsOf

\* One row at a time, each at the place after the last.
StepsUp(sc, chain, before) ==
    /\ IsPath(sc)
    /\ \A i \in 1 .. Len(sc) : \A r \in sc[i] : Chain(r) = chain /\ Place(r) = before + i
    /\ \A i \in 1 .. Len(sc) : \A r, q \in sc[i] : r = q

LEMMA StepsClimb ==
    ASSUME NEW sc, NEW chain, NEW before \in Nat, StepsUp(sc, chain, before)
    PROVE  Climbs(sc, chain, before + 1, before + Len(sc))
  <1>1. IsPath(sc) /\ Len(sc) \in Nat  BY PathFields DEF StepsUp
  <1>2. \A i \in 1 .. Len(sc) : \A r \in sc[i] : Chain(r) = chain /\ Place(r) \in before + 1 .. before + Len(sc)
    BY <1>1 DEF StepsUp
  <1>3. \A i, j \in 1 .. Len(sc) : i < j => \A r \in sc[i], q \in sc[j] : Place(r) < Place(q)
    BY <1>1 DEF StepsUp
  <1> QED  BY <1>1, <1>2, <1>3 DEF Climbs, StepsUp

\* The two halves of Sources.
PoolSources(a, S) ==
    [i \in 1 .. 2 * Len(PoolOrder) |->
        {IF i % 2 = 1 THEN PoolRow(p) ELSE UsageRow(p, a) : p \in {PoolOrder[(i + 1) \div 2]} \intersect S}]
GrantSources(a, S) == Each(GrantOrder, S, LAMBDA g : GrantRow(a, g))

LEMMA PoolsClimb ==
    ASSUME NEW a, NEW S, NEW sc, sc = PoolSources(a, S)
    PROVE  Len(sc) = 2 * Len(PoolOrder) /\ Climbs(sc, "pay", 2, 2 * Len(PoolOrder) + 1)
  <1>0. Len(PoolOrder) \in Nat  BY Lists
  <1>1. IsPath(sc) /\ Len(sc) = 2 * Len(PoolOrder)
    <2>1. sc = [i \in 1 .. 2 * Len(PoolOrder) |-> sc[i]] /\ 2 * Len(PoolOrder) \in Nat  BY <1>0 DEF PoolSources
    <2> QED  BY <2>1, PathOf
  <1>2. ASSUME NEW i \in 1 .. Len(sc)
        PROVE  \A r \in sc[i] : r = (IF i % 2 = 1 THEN PoolRow(PoolOrder[(i + 1) \div 2])
                                                  ELSE UsageRow(PoolOrder[(i + 1) \div 2], a))
    BY <1>1 DEF PoolSources
  <1>3. ASSUME NEW i \in 1 .. Len(sc), NEW r \in sc[i]
        PROVE  Chain(r) = "pay" /\ Place(r) = 1 + i
    <2>1. PICK n : n = (i + 1) \div 2  OBVIOUS
    <2>2. /\ n \in 1 .. Len(PoolOrder) /\ (i % 2 = 1 => 2 * n = i + 1) /\ (i % 2 # 1 => 2 * n = i)
      BY <1>0, <1>1, <2>1
    <2>3. r = IF i % 2 = 1 THEN PoolRow(PoolOrder[n]) ELSE UsageRow(PoolOrder[n], a)  BY <1>2, <2>1
    <2>4. CASE i % 2 = 1
      <3>1. r = PoolRow(PoolOrder[n])  BY <2>3, <2>4
      <3>2. Chain(PoolRow(PoolOrder[n])) = "pay" /\ Place(PoolRow(PoolOrder[n])) = 2 * n  BY <2>2, RowPlaces
      <3>3. Chain(r) = "pay" /\ Place(r) = 2 * n  BY <3>1, <3>2
      <3> QED  BY <1>0, <1>1, <2>2, <2>4, <3>3
    <2>5. CASE i % 2 # 1
      <3>1. r = UsageRow(PoolOrder[n], a)  BY <2>3, <2>5
      <3>2. Chain(UsageRow(PoolOrder[n], a)) = "pay" /\ Place(UsageRow(PoolOrder[n], a)) = 2 * n + 1
        BY <2>2, RowPlaces
      <3>3. Chain(r) = "pay" /\ Place(r) = 2 * n + 1  BY <3>1, <3>2
      <3> QED  BY <1>0, <1>1, <2>2, <2>5, <3>3
    <2> QED  BY <2>4, <2>5
  <1>4. StepsUp(sc, "pay", 1)  BY <1>1, <1>2, <1>3 DEF StepsUp
  <1>5. PICK high : high = 1 + Len(sc)  OBVIOUS
  <1>6. Climbs(sc, "pay", 1 + 1, high)  BY <1>4, <1>5, StepsClimb
  <1>7. high = 2 * Len(PoolOrder) + 1  BY <1>0, <1>1, <1>5
  <1> QED  BY <1>1, <1>6, <1>7

LEMMA GrantsClimb ==
    ASSUME NEW a, NEW S, NEW sc, sc = GrantSources(a, S)
    PROVE  Climbs(sc, "pay", 2 * Len(PoolOrder) + 2, Below)
  <1>0. Len(PoolOrder) \in Nat /\ Len(GrantOrder) \in Nat  BY Lists
  <1>1. sc = [i \in 1 .. Len(GrantOrder) |-> {GrantRow(a, g) : g \in {GrantOrder[i]} \intersect S}]  BY DEF Each, GrantSources
  <1>2. IsPath(sc) /\ Len(sc) = Len(GrantOrder)
    <2>1. sc = [i \in 1 .. Len(GrantOrder) |-> sc[i]]  BY <1>1
    <2> QED  BY <1>0, <2>1, PathOf
  <1>3. ASSUME NEW i \in 1 .. Len(sc), NEW r \in sc[i] PROVE r = GrantRow(a, GrantOrder[i])
    <2>1. i \in 1 .. Len(GrantOrder)  BY <1>2
    <2>2. sc[i] = {GrantRow(a, g) : g \in {GrantOrder[i]} \intersect S}  BY <1>1, <2>1
    <2>3. PICK g \in {GrantOrder[i]} \intersect S : r = GrantRow(a, g)  BY <2>2
    <2> QED  BY <2>3
  <1>4. PICK before : before = 2 * Len(PoolOrder) + 1  OBVIOUS
  <1>5. ASSUME NEW i \in 1 .. Len(sc), NEW r \in sc[i] PROVE Chain(r) = "pay" /\ Place(r) = before + i
    BY <1>2, <1>3, <1>4, RowPlaces
  <1>6. StepsUp(sc, "pay", before)  BY <1>2, <1>3, <1>5 DEF StepsUp
  <1>7. before \in Nat  BY <1>0, <1>4
  <1>8. Climbs(sc, "pay", before + 1, before + Len(sc))  BY <1>6, <1>7, StepsClimb
  <1>9. before + 1 = 2 * Len(PoolOrder) + 2 /\ before + Len(sc) = Below  BY <1>0, <1>2, <1>4 DEF Below
  <1> QED  BY <1>8, <1>9

LEMMA SourcesClimb ==
    ASSUME NEW a, NEW S
    PROVE  Climbs(Sources(a, S), "pay", 2, Below)
  <1>1. PICK pools, grants : pools = PoolSources(a, S) /\ grants = GrantSources(a, S)
    OBVIOUS
  <1>2. Sources(a, S) = pools \o grants  BY <1>1 DEF Sources, PoolSources, GrantSources
  <1>3. PICK low, mid, next, high : low = 2 /\ mid = 2 * Len(PoolOrder) + 1 /\ next = 2 * Len(PoolOrder) + 2 /\ high = Below
    OBVIOUS
  <1>4. low \in Nat /\ mid \in Nat /\ next \in Nat /\ high \in Nat /\ low <= next /\ mid < next /\ mid <= high
    BY <1>3, Lists DEF Below
  <1>5. Climbs(pools, "pay", low, mid)  BY <1>1, <1>3, PoolsClimb
  <1>6. Climbs(grants, "pay", next, high)  BY <1>1, <1>3, GrantsClimb
  <1>7. Climbs(pools \o grants, "pay", low, high)  BY <1>4, <1>5, <1>6, ClimbsOn
  <1> QED  BY <1>2, <1>3, <1>7

\* The current counter of a window, if W names it.
CounterIn(a, m, k, W) == {Counter(a, j, m[j]) : j \in {k} \intersect W}

LEMMA CurrentCounters ==
    ASSUME NEW a, NEW m, NEW W, NEW kinds, Len(kinds) \in Nat
    PROVE  /\ Len(CurrentOf(a, m, kinds, W)) = Len(kinds)
           /\ \A i \in 1 .. Len(kinds) : CurrentOf(a, m, kinds, W)[i] = CounterIn(a, m, kinds[i], W)
  <1>1. PICK sc : sc = CurrentOf(a, m, kinds, W)  OBVIOUS
  <1>2. sc = [i \in 1 .. Len(kinds) |-> CounterIn(a, m, kinds[i], W)]
    BY <1>1 DEF CurrentOf, Each, CounterIn
  <1>3. Len(sc) = Len(kinds)
    <2>1. sc = [i \in 1 .. Len(kinds) |-> sc[i]]  BY <1>2
    <2> QED  BY <2>1, PathOf
  <1> QED  BY <1>1, <1>2, <1>3

\* The counters of a stretch of the windows: those after the first few.
LEMMA CountersClimb ==
    ASSUME NEW a, NEW m, NEW W, NEW kinds, NEW from \in Nat, Len(kinds) \in Nat, from + Len(kinds) <= Len(Kinds),
           \A i \in 1 .. Len(kinds) : kinds[i] = Kinds[from + i]
    PROVE  /\ StepsUp(CurrentOf(a, m, kinds, W), "pay", Below + from)
           /\ Len(CurrentOf(a, m, kinds, W)) = Len(kinds)
  <1>1. PICK sc : sc = CurrentOf(a, m, kinds, W)  OBVIOUS
  <1>2. sc = [i \in 1 .. Len(kinds) |-> {Counter(a, k, m[k]) : k \in {kinds[i]} \intersect W}]
    BY <1>1 DEF CurrentOf, Each
  <1>3. IsPath(sc) /\ Len(sc) = Len(kinds)
    <2>1. sc = [i \in 1 .. Len(kinds) |-> sc[i]]  BY <1>2
    <2> QED  BY <2>1, PathOf
  <1>4. \A i \in 1 .. Len(sc) : \A r \in sc[i] : r = Counter(a, Kinds[from + i], m[Kinds[from + i]])  BY <1>2, <1>3
  <1>5. Below \in Nat /\ Len(Kinds) \in Nat  BY Lists DEF Below
  <1>6. ASSUME NEW i \in 1 .. Len(sc), NEW r \in sc[i] PROVE Chain(r) = "pay" /\ Place(r) = (Below + from) + i
    <2>1. PICK n : n = from + i  OBVIOUS
    <2>2. n \in 1 .. Len(Kinds)  BY <1>3, <1>5, <2>1
    <2>3. r = Counter(a, Kinds[n], m[Kinds[n]])  BY <1>4, <2>1
    <2>4. Chain(r) = "pay" /\ Place(r) = Below + n  BY ZenonT(30), <2>2, <2>3, RowPlaces
    <2> QED  BY <1>3, <1>5, <2>1, <2>4
  <1>7. \A i \in 1 .. Len(sc) : \A r, q \in sc[i] : r = q  BY <1>4
  <1>8. PICK before : before = Below + from  OBVIOUS
  <1>9. StepsUp(sc, "pay", before)  BY <1>3, <1>6, <1>7, <1>8 DEF StepsUp
  <1> QED  BY <1>1, <1>3, <1>8, <1>9

\* The windows after the minute's, and those that count tokens.
LEMMA Windows ==
    \E n \in 1 .. Len(Kinds) :
        /\ Len(Allowance) = Len(Kinds) - n /\ \A i \in 1 .. Len(Allowance) : Allowance[i] = Kinds[n + i]
        /\ Len(Minute) = n /\ \A i \in 1 .. n : Minute[i] = Kinds[i]
        /\ Len(TokenWindows) = Len(Kinds) - n + 1
        /\ \A i \in 1 .. Len(TokenWindows) : TokenWindows[i] = Kinds[(n - 1) + i]
        /\ \A q \in 1 .. Len(Allowance) :
             /\ Len(SubSeq(Allowance, 1, q)) = q
             /\ \A i \in 1 .. q : SubSeq(Allowance, 1, q)[i] = Allowance[i]
  <1>1. PICK n \in 1 .. Len(Kinds) : Allowance = SubSeq(Kinds, n + 1, Len(Kinds))  BY NamesAssumption
  <1>2. PICK T : Kinds \in Seq(T) /\ Len(Kinds) \in Nat  BY Lists DEF IsPath
  <1>3. /\ Allowance \in Seq(T) /\ Len(Allowance) = Len(Kinds) - n
        /\ \A i \in 1 .. Len(Allowance) : Allowance[i] = Kinds[n + i]
    <2>1. \A i \in n + 1 .. Len(Kinds) : Kinds[i] \in T  BY <1>2
    <2> QED  BY <1>1, <1>2, <2>1, SubSeqProperties
  <1>4. Len(Minute) = n /\ \A i \in 1 .. n : Minute[i] = Kinds[i]
    <2>1. Minute = SubSeq(Kinds, 1, n)
      <3>1. Len(Kinds) - Len(Allowance) = n  BY <1>2, <1>3
      <3> QED  BY <3>1 DEF Minute
    <2>2. \A i \in 1 .. n : i \in 1 .. Len(Kinds)  BY <1>2
    <2> QED  BY <1>2, <2>1, <2>2, SubSeqProperties
  <1>5. Len(TokenWindows) = Len(Kinds) - n + 1 /\ \A i \in 1 .. Len(TokenWindows) : TokenWindows[i] = Kinds[(n - 1) + i]
    <2>1. TokenWindows = SubSeq(Kinds, n, Len(Kinds))  BY <1>4 DEF TokenWindows
    <2> QED  BY <1>2, <2>1, SubSeqProperties
  <1>6. ASSUME NEW q \in 1 .. Len(Allowance)
        PROVE  Len(SubSeq(Allowance, 1, q)) = q /\ \A i \in 1 .. q : SubSeq(Allowance, 1, q)[i] = Allowance[i]
    BY <1>2, <1>3, SubSeqProperties
  <1> QED  BY <1>3, <1>4, <1>5, <1>6

\* The stretches of windows that paths lock, with any of their counters left out.
LEMMA CurrentClimbs ==
    ASSUME NEW a, NEW m, NEW W, NEW kinds, NEW from \in Nat, Len(kinds) \in Nat, from + Len(kinds) <= Len(Kinds),
           \A i \in 1 .. Len(kinds) : kinds[i] = Kinds[from + i]
    PROVE  Climbs(CurrentOf(a, m, kinds, W), "pay", Below + from + 1, Below + from + Len(kinds))
  <1>1. PICK sc, before : sc = CurrentOf(a, m, kinds, W) /\ before = Below + from  OBVIOUS
  <1>2. before \in Nat  BY <1>1, Lists DEF Below
  <1>3. StepsUp(sc, "pay", before) /\ Len(sc) = Len(kinds)  BY <1>1, CountersClimb
  <1>4. Climbs(sc, "pay", before + 1, before + Len(sc))  BY <1>2, <1>3, StepsClimb
  <1> QED  BY <1>1, <1>3, <1>4

\* What pays for a request, and then a stretch of counters.
LEMMA PayClimbs ==
    ASSUME NEW a, NEW m, NEW S, NEW kinds, NEW from \in Nat, Len(kinds) \in Nat, from + Len(kinds) <= Len(Kinds),
           \A i \in 1 .. Len(kinds) : kinds[i] = Kinds[from + i]
    PROVE  Climbs(Sources(a, S) \o Current(a, m, kinds), "pay", 2, Below + from + Len(kinds))
  <1>1. PICK low, mid, next, high : /\ low = 2 /\ mid = Below
                                    /\ next = Below + from + 1 /\ high = Below + from + Len(kinds)
    OBVIOUS
  <1>2. low \in Nat /\ mid \in Nat /\ next \in Nat /\ high \in Nat /\ low <= next /\ mid < next /\ mid <= high
    BY <1>1, Lists DEF Below
  <1>3. PICK sources, counters : sources = Sources(a, S) /\ counters = Current(a, m, kinds)  OBVIOUS
  <1>4. Climbs(sources, "pay", low, mid)  BY <1>1, <1>3, SourcesClimb
  <1>5. Climbs(counters, "pay", next, high)
    <2>1. Climbs(CurrentOf(a, m, kinds, Elements(kinds)), "pay", Below + from + 1, Below + from + Len(kinds))
      BY CurrentClimbs
    <2> QED  BY <1>1, <1>3, <2>1 DEF Current
  <1>6. Climbs(sources \o counters, "pay", low, high)  BY <1>2, <1>4, <1>5, ClimbsOn
  <1> QED  BY <1>1, <1>3, <1>6

LEMMA PayInOrder ==
    ASSUME NEW a, NEW m, NEW S
    PROVE  InOrder(ReserveFromBonus(a, m, S)) /\ InOrder(SettleOrRelease(a, m, S))
  <1>1. PICK n \in 1 .. Len(Kinds) :
          /\ Len(Minute) = n /\ \A i \in 1 .. n : Minute[i] = Kinds[i]
          /\ Len(TokenWindows) = Len(Kinds) - n + 1
          /\ \A i \in 1 .. Len(TokenWindows) : TokenWindows[i] = Kinds[(n - 1) + i]
    BY Windows
  <1>2. Len(Kinds) \in Nat /\ Below \in Nat  BY Lists DEF Below
  <1>3. InOrder(ReserveFromBonus(a, m, S))
    <2>1. Len(Minute) \in Nat /\ 0 + Len(Minute) <= Len(Kinds) /\ \A i \in 1 .. Len(Minute) : Minute[i] = Kinds[0 + i]
      BY <1>1, <1>2
    <2>2. PICK from, high : from = 0 /\ high = Below + from + Len(Minute)  OBVIOUS
    <2>3. from \in Nat /\ from + Len(Minute) <= Len(Kinds) /\ \A i \in 1 .. Len(Minute) : Minute[i] = Kinds[from + i]
      BY <2>1, <2>2
    <2>4. Climbs(Sources(a, S) \o Current(a, m, Minute), "pay", 2, high)  BY <2>1, <2>2, <2>3, PayClimbs
    <2>5. high \in Nat  BY <1>2, <2>1, <2>2
    <2>6. InOrder(Sources(a, S) \o Current(a, m, Minute))  BY <2>4, <2>5, ClimbInOrder
    <2> QED  BY <2>6 DEF ReserveFromBonus
  <1>4. InOrder(SettleOrRelease(a, m, S))
    <2>1. PICK from, high : from = n - 1 /\ high = Below + from + Len(TokenWindows)  OBVIOUS
    <2>2. /\ from \in Nat /\ Len(TokenWindows) \in Nat /\ from + Len(TokenWindows) <= Len(Kinds) /\ high \in Nat
      BY <1>1, <1>2, <2>1
    <2>3. \A i \in 1 .. Len(TokenWindows) : TokenWindows[i] = Kinds[from + i]  BY <1>1, <2>1
    <2>4. Climbs(Sources(a, S) \o Current(a, m, TokenWindows), "pay", 2, high)  BY <2>1, <2>2, <2>3, PayClimbs
    <2>5. InOrder(Sources(a, S) \o Current(a, m, TokenWindows))  BY <2>2, <2>4, ClimbInOrder
    <2> QED  BY <2>5 DEF SettleOrRelease
  <1> QED  BY <1>3, <1>4

\* A claw-back takes the administrator's row and then the cards.
LEMMA ClawBackInOrder ==
    ASSUME NEW a PROVE InOrder(RevokeAvailable(a))
  <1>0. Len(CardOrder) \in Nat  BY Lists
  <1>1. PICK cards, first :
          /\ cards = Each(CardOrder, Elements(CardOrder), LAMBDA c : CardRow(a, c))
          /\ first = IF a = Admin THEN << >> ELSE <<{UserRow(Admin)}>>
    OBVIOUS
  <1>2. cards = [i \in 1 .. Len(CardOrder) |-> {CardRow(a, c) : c \in {CardOrder[i]} \intersect Elements(CardOrder)}]
    BY <1>1 DEF Each
  <1>3. IsPath(cards) /\ Len(cards) = Len(CardOrder)
    <2>1. cards = [i \in 1 .. Len(CardOrder) |-> cards[i]]  BY <1>2
    <2> QED  BY <1>0, <2>1, PathOf
  <1>4. ASSUME NEW i \in 1 .. Len(cards), NEW r \in cards[i] PROVE r = CardRow(a, CardOrder[i])
    <2>1. i \in 1 .. Len(CardOrder)  BY <1>3
    <2>2. cards[i] = {CardRow(a, c) : c \in {CardOrder[i]} \intersect Elements(CardOrder)}  BY <1>2, <2>1
    <2>3. PICK c \in {CardOrder[i]} \intersect Elements(CardOrder) : r = CardRow(a, c)  BY <2>2
    <2> QED  BY <2>3
  <1>5. ASSUME NEW i \in 1 .. Len(cards), NEW r \in cards[i] PROVE Chain(r) = "account" /\ Place(r) = 0 + i
    <2>1. i \in 1 .. Len(CardOrder)  BY <1>3
    <2> QED  BY <1>0, <1>4, <2>1, RowPlaces
  <1>6. StepsUp(cards, "account", 0)  BY <1>3, <1>4, <1>5 DEF StepsUp
  <1>7. PICK low, next, high : low = 0 /\ next = 0 + 1 /\ high = 0 + Len(cards)  OBVIOUS
  <1>8. low \in Nat /\ next \in Nat /\ high \in Nat /\ low < next /\ low <= next /\ low <= high
    BY <1>0, <1>3, <1>7
  <1>9. Climbs(cards, "account", next, high)  BY <1>6, <1>7, StepsClimb
  <1>10. Climbs(first, "account", low, low)
    <2>1. CASE a = Admin
      <3>1. first = << >>  BY <1>1, <2>1
      <3>2. IsPath(<< >>) /\ Len(<< >>) = 0  BY DEF IsPath, Elements
      <3> QED  BY <3>1, <3>2 DEF Climbs
    <2>2. CASE a # Admin
      <3>1. first = <<{UserRow(Admin)}>>  BY <1>1, <2>2
      <3>2. Chain(UserRow(Admin)) = "account" /\ Place(UserRow(Admin)) = 0  BY RowPlaces
      <3> QED  BY <1>7, <1>8, <3>1, <3>2, ShortPath
    <2> QED  BY <2>1, <2>2
  <1>11. Climbs(first \o cards, "account", low, high)  BY <1>8, <1>9, <1>10, ClimbsOn
  <1>12. InOrder(first \o cards)  BY <1>8, <1>11, ClimbInOrder
  <1>13. RevokeAvailable(a) = first \o cards  BY <1>1 DEF RevokeAvailable
  <1> QED  BY <1>12, <1>13

\* Grants expire in the order in which they are spent. Where they do not, the sweep
\* and a request can each hold the other's next grant: the locks_sweep run.
SweepAgrees ==
    /\ Elements(SweepOrder) \subseteq Elements(GrantOrder)
    /\ \A i, j \in 1 .. Len(SweepOrder) :
         i < j => IndexIn(GrantOrder, SweepOrder[i]) < IndexIn(GrantOrder, SweepOrder[j])

LEMMA SweepInOrder ==
    ASSUME SweepAgrees, NEW a PROVE InOrder(TakeExpiring(a))
  <1>0. Len(SweepOrder) \in Nat /\ Len(GrantOrder) \in Nat /\ Len(PoolOrder) \in Nat  BY Lists
  <1>1. PICK sc : sc = TakeExpiring(a)  OBVIOUS
  <1>2. sc = [i \in 1 .. Len(SweepOrder) |-> {GrantRow(a, g) : g \in {SweepOrder[i]} \intersect Elements(SweepOrder)}]
    BY <1>1 DEF Each, TakeExpiring
  <1>3. IsPath(sc) /\ Len(sc) = Len(SweepOrder)
    <2>1. sc = [i \in 1 .. Len(SweepOrder) |-> sc[i]]  BY <1>2
    <2> QED  BY <1>0, <2>1, PathOf
  <1>4. ASSUME NEW i \in 1 .. Len(sc), NEW r \in sc[i] PROVE r = GrantRow(a, SweepOrder[i])
    <2>1. i \in 1 .. Len(SweepOrder)  BY <1>3
    <2>2. sc[i] = {GrantRow(a, g) : g \in {SweepOrder[i]} \intersect Elements(SweepOrder)}  BY <1>2, <2>1
    <2>3. PICK g \in {SweepOrder[i]} \intersect Elements(SweepOrder) : r = GrantRow(a, g)  BY <2>2
    <2> QED  BY <2>3
  <1>5. PICK low, high : low = 0 /\ high = 2 * Len(PoolOrder) + 1 + Len(GrantOrder)  OBVIOUS
  <1>6. low \in Nat /\ high \in Nat  BY <1>0, <1>5
  <1>7. ASSUME NEW i \in 1 .. Len(sc)
        PROVE  /\ IndexIn(GrantOrder, SweepOrder[i]) \in 1 .. Len(GrantOrder)
               /\ \A r \in sc[i] : /\ Chain(r) = "pay" /\ Place(r) \in low .. high
                                   /\ Place(r) = 2 * Len(PoolOrder) + 1 + IndexIn(GrantOrder, SweepOrder[i])
    <2>1. SweepOrder[i] \in Elements(GrantOrder)  BY <1>3 DEF SweepAgrees, Elements
    <2>2. PICK n \in 1 .. Len(GrantOrder) : SweepOrder[i] = GrantOrder[n]  BY <2>1 DEF Elements
    <2>3. IndexIn(GrantOrder, SweepOrder[i]) = n  BY <2>2, Lists, PlaceInList
    <2>4. ASSUME NEW r \in sc[i]
          PROVE  Chain(r) = "pay" /\ Place(r) \in low .. high /\ Place(r) = 2 * Len(PoolOrder) + 1 + n
      <3>1. r = GrantRow(a, GrantOrder[n])  BY <1>4, <2>2
      <3>2. Chain(r) = "pay" /\ Place(r) = 2 * Len(PoolOrder) + 1 + n  BY <3>1, RowPlaces
      <3> QED  BY <1>0, <1>5, <3>2
    <2> QED  BY <2>3, <2>4
  <1>8. ASSUME NEW i \in 1 .. Len(sc), NEW j \in 1 .. Len(sc), i < j, NEW r \in sc[i], NEW q \in sc[j]
        PROVE  Place(r) < Place(q)
    <2>1. IndexIn(GrantOrder, SweepOrder[i]) < IndexIn(GrantOrder, SweepOrder[j])  BY <1>3, <1>8 DEF SweepAgrees
    <2>2. PICK n, k : n = IndexIn(GrantOrder, SweepOrder[i]) /\ k = IndexIn(GrantOrder, SweepOrder[j])  OBVIOUS
    <2>3. n \in Nat /\ k \in Nat /\ n < k  BY <1>0, <1>7, <2>1, <2>2
    <2>4. Place(r) = 2 * Len(PoolOrder) + 1 + n /\ Place(q) = 2 * Len(PoolOrder) + 1 + k  BY <1>7, <2>2
    <2> QED  BY <1>0, <2>3, <2>4
  <1>9. \A i \in 1 .. Len(sc) : \A r, q \in sc[i] : r = q  BY <1>4
  <1>10. Climbs(sc, "pay", low, high)  BY <1>3, <1>7, <1>8, <1>9 DEF Climbs
  <1> QED  BY <1>1, <1>6, <1>10, ClimbInOrder

\* The rows of what pays for a request end at a place, and no card is taken yet.
EndsAt(sc, place) ==
    \A h \in RowsOf(sc) : /\ Chain(h) = "pay" => Place(h) <= place
                          /\ Chain(h) = "account" => Place(h) = 0

\* A path that has the reset row goes on up the places of what pays.
LEMMA OpensUp ==
    ASSUME NEW s, NEW t, Opens(s), NEW mid \in Nat, NEW next \in Nat, NEW high \in Nat, EndsAt(s, mid),
           mid < next, mid <= high, Climbs(t, "pay", next, high)
    PROVE  Opens(s \o t) /\ EndsAt(s \o t, high) /\ RowsOf(s \o t) = RowsOf(s) \union RowsOf(t)
  <1>1. Settles(t) /\ \A r \in RowsOf(t) : Chain(r) = "pay" /\ Place(r) \in next .. high
    BY ClimbSettles
  <1>2. \A h \in RowsOf(s) : Place(h) \in Nat  BY DEF Opens, Settles
  <1>3. ASSUME NEW h \in RowsOf(s), NEW w \in RowsOf(t) PROVE ~ Lower(w, h)
    <2>1. Chain(w) = "pay" /\ Place(w) \in next .. high  BY <1>1
    <2>2. Chain(h) = "pay" => Place(h) <= mid  BY DEF EndsAt
    <2> QED  BY <1>2, <2>1, <2>2 DEF Lower
  <1>4. PICK u : u = s \o t  OBVIOUS
  <1>5. Opens(u) /\ RowsOf(u) = RowsOf(s) \union RowsOf(t)  BY <1>1, <1>3, <1>4, OpensOn
  <1>6. ASSUME NEW h \in RowsOf(u)
        PROVE  (Chain(h) = "pay" => Place(h) <= high) /\ (Chain(h) = "account" => Place(h) = 0)
    <2>1. CASE h \in RowsOf(s)  BY <1>2, <2>1 DEF EndsAt
    <2>2. CASE h \in RowsOf(t)  BY <1>1, <2>2
    <2> QED  BY <1>5, <2>1, <2>2
  <1>7. EndsAt(u, high)  BY <1>6 DEF EndsAt
  <1> QED  BY <1>4, <1>5, <1>7

LEMMA ReserveInOrder ==
    ASSUME NEW a, NEW m, NEW S PROVE InOrder(ReserveOnce(a, m, S))
  <1>0. Below \in Nat /\ Len(Kinds) \in Nat  BY Lists DEF Below
  <1>1. PICK first, sources, counters :
          /\ first = <<{ResetRow}>> /\ sources = Sources(a, S) /\ counters = Current(a, m, Kinds)
    OBVIOUS
  <1>2. Opens(first) /\ RowsOf(first) = {ResetRow}  BY <1>1, OpensAlone
  <1>3. PICK zero, two, mid, next, high :
          /\ zero = 0 /\ two = 2 /\ mid = Below /\ next = Below + 0 + 1 /\ high = Below + 0 + Len(Kinds)
    OBVIOUS
  <1>4. /\ zero \in Nat /\ two \in Nat /\ mid \in Nat /\ next \in Nat /\ high \in Nat
        /\ zero < two /\ zero <= mid /\ mid < next /\ mid <= high
    BY <1>0, <1>3
  <1>5. EndsAt(first, zero)  BY <1>2, ResetFacts DEF EndsAt
  <1>6. Climbs(sources, "pay", two, mid)  BY <1>1, <1>3, SourcesClimb
  <1>7. Opens(first \o sources) /\ EndsAt(first \o sources, mid)
    BY <1>2, <1>4, <1>5, <1>6, OpensUp
  <1>8. Climbs(counters, "pay", next, high)
    <2>1. PICK from : from = 0  OBVIOUS
    <2>2. from \in Nat /\ from + Len(Kinds) <= Len(Kinds) /\ \A i \in 1 .. Len(Kinds) : Kinds[i] = Kinds[from + i]
      BY <1>0, <2>1
    <2>3. Climbs(CurrentOf(a, m, Kinds, Elements(Kinds)), "pay", Below + from + 1, Below + from + Len(Kinds))
      BY <1>0, <2>2, CurrentClimbs
    <2> QED  BY <1>1, <1>3, <2>1, <2>3 DEF Current
  <1>9. PICK start : start = first \o sources  OBVIOUS
  <1>10. Opens(start \o counters)  BY <1>4, <1>7, <1>8, <1>9, OpensUp
  <1>11. ReserveOnce(a, m, S) = start \o counters  BY <1>1, <1>9 DEF ReserveOnce
  <1> QED  BY <1>10, <1>11, SerialInOrder

\* A reset deletes the counters of one window after another, with those of past
\* buckets, which nothing else takes.
LEMMA DeletesSettle ==
    ASSUME NEW A, NEW W
    PROVE  /\ Settles(DeleteCounters(A, W))
           /\ \A r \in RowsOf(DeleteCounters(A, W)) : Chain(r) = "pay" \/ Chain(r) = "stale"
  <1>0. Below \in Nat /\ Len(Kinds) \in Nat  BY Lists DEF Below
  <1>1. PICK sc : sc = DeleteCounters(A, W)  OBVIOUS
  <1>2. sc = [i \in 1 .. Len(Kinds) |-> UNION {CountersOf(a, k) : a \in A, k \in {Kinds[i]} \intersect W}]
    BY <1>1 DEF DeleteCounters
  <1>3. IsPath(sc) /\ Len(sc) = Len(Kinds)
    <2>1. sc = [i \in 1 .. Len(Kinds) |-> sc[i]]  BY <1>2
    <2> QED  BY <1>0, <2>1, PathOf
  <1>4. ASSUME NEW i \in 1 .. Len(sc), NEW r \in sc[i]
        PROVE  (Chain(r) = "pay" /\ Place(r) = Below + i) \/ (Chain(r) = "stale" /\ Place(r) = 0)
    <2>1. i \in 1 .. Len(Kinds)  BY <1>3
    <2>2. sc[i] = UNION {CountersOf(a, k) : a \in A, k \in {Kinds[i]} \intersect W}  BY <1>2, <2>1
    <2>3. PICK a \in A, k \in {Kinds[i]} \intersect W : r \in CountersOf(a, k)  BY <2>2
    <2>4. k = Kinds[i]  OBVIOUS
    <2>5. (\E b \in Buckets(k) : r = Counter(a, k, b)) \/ r = StaleRow(a, k)  BY <2>3 DEF CountersOf
    <2> QED  BY <2>1, <2>4, <2>5, RowPlaces
  <1>5. ASSUME NEW j \in 1 .. Len(sc), NEW w \in sc[j], NEW i \in 1 .. j, NEW h \in sc[i]
        PROVE  ~ Lower(w, h)
    <2>1. i \in 1 .. Len(sc) /\ i <= j /\ i \in Int /\ j \in Int  BY <1>0, <1>3
    <2>2. (Chain(w) = "pay" /\ Place(w) = Below + j) \/ (Chain(w) = "stale" /\ Place(w) = 0)  BY <1>4
    <2>3. (Chain(h) = "pay" /\ Place(h) = Below + i) \/ (Chain(h) = "stale" /\ Place(h) = 0)  BY <1>4, <2>1
    <2> QED  BY <1>0, <2>1, <2>2, <2>3 DEF Lower
  <1>6. ASSUME NEW r \in RowsOf(sc) PROVE Place(r) \in Nat /\ (Chain(r) = "pay" \/ Chain(r) = "stale")
    <2>1. PICK i \in 1 .. Len(sc) : r \in sc[i]  BY DEF RowsOf
    <2> QED  BY <1>0, <1>3, <1>4, <2>1
  <1>7. Settles(sc)  BY <1>3, <1>5, <1>6 DEF Settles
  <1> QED  BY <1>1, <1>6, <1>7

LEMMA ResetsInOrder ==
    /\ \A A, W : InOrder(ResetCounters(A, W))
    /\ \A a, W : \A c \in Elements(CardOrder) : InOrder(UseCard(a, c, W))
    /\ InOrder(Prune)
  <1>1. ASSUME NEW A, NEW W, NEW first, Opens(first),
               \A h \in RowsOf(first) : Chain(h) # "pay" /\ Chain(h) # "stale"
        PROVE  InOrder(first \o DeleteCounters(A, W))
    <2>1. PICK deletes : deletes = DeleteCounters(A, W)  OBVIOUS
    <2>2. Settles(deletes) /\ \A r \in RowsOf(deletes) : Chain(r) = "pay" \/ Chain(r) = "stale"
      BY <2>1, DeletesSettle
    <2>3. \A h \in RowsOf(first), w \in RowsOf(deletes) : ~ Lower(w, h)  BY <1>1, <2>2 DEF Lower
    <2>4. Opens(first \o deletes)  BY <1>1, <2>2, <2>3, OpensOn
    <2> QED  BY <2>1, <2>4, SerialInOrder
  <1>2. ASSUME NEW A, NEW W PROVE InOrder(ResetCounters(A, W))
    <2>1. InOrder(<<{ResetRow}>> \o DeleteCounters(A, W))  BY <1>1, OpensAlone, ResetFacts
    <2> QED  BY <2>1 DEF ResetCounters
  <1>3. ASSUME NEW a, NEW W, NEW c \in Elements(CardOrder) PROVE InOrder(UseCard(a, c, W))
    <2>1. PICK i \in 1 .. Len(CardOrder) : c = CardOrder[i]  BY DEF Elements
    <2>2. Chain(CardRow(a, c)) = "account" /\ Place(CardRow(a, c)) \in Nat
      <3>1. Chain(CardRow(a, CardOrder[i])) = "account" /\ Place(CardRow(a, CardOrder[i])) = i  BY RowPlaces
      <3> QED  BY <2>1, <3>1, Lists
    <2>3. PICK R : R = {CardRow(a, c)}  OBVIOUS
    <2>4. \A r, q \in R : ~ Lower(r, q)  BY <2>2, <2>3 DEF Lower
    <2>5. Opens(<<{ResetRow}, R>>) /\ RowsOf(<<{ResetRow}, R>>) = {ResetRow} \union R
      BY <2>2, <2>3, <2>4, OpensWith
    <2>6. PICK first : first = <<{ResetRow}, R>>  OBVIOUS
    <2>7. \A h \in RowsOf(first) : Chain(h) # "pay" /\ Chain(h) # "stale"  BY <2>2, <2>3, <2>5, <2>6, ResetFacts
    <2>8. InOrder(first \o DeleteCounters({a}, W))  BY <1>1, <2>5, <2>6, <2>7
    <2> QED  BY <2>3, <2>6, <2>8 DEF UseCard
  <1>4. InOrder(Prune)
    <2> DEFINE R == {StaleRow(a, k) : a \in Accounts, k \in Elements(Kinds)}
    <2>1. ASSUME NEW r \in R PROVE \E a, k : r = StaleRow(a, k)  OBVIOUS
    <2>5. Prune = <<{ResetRow}, R>>  BY DEF Prune
    <2> HIDE DEF R
    <2>2. \A r \in R : Chain(r) = "stale" /\ Place(r) = 0  BY <2>1, RowPlaces
    <2>3. \A r, q \in R : ~ Lower(r, q)  BY <2>2 DEF Lower
    <2>4. Opens(<<{ResetRow}, R>>)  BY <2>2, <2>3, OpensWith
    <2> QED  BY <2>4, <2>5, SerialInOrder
  <1> QED  BY <1>2, <1>3, <1>4

\* What a spent card clears: every window's counter is locked before the first goes.
LEMMA ClearFacts ==
    ASSUME NEW a, NEW m, NEW W
    PROVE  /\ Settles(ClearAllowance(a, m, W))
           /\ RowsOf(ClearAllowance(a, m, W)) = RowsOf(Current(a, m, Allowance))
           /\ Settles(Current(a, m, Allowance))
           /\ \A w \in RowsOf(Current(a, m, Allowance)) :
                \E i \in 1 .. Len(Allowance) :
                    w = Counter(a, Allowance[i], m[Allowance[i]])
  <1>1. PICK n \in 1 .. Len(Kinds) :
          Len(Allowance) = Len(Kinds) - n /\ \A i \in 1 .. Len(Allowance) : Allowance[i] = Kinds[n + i]
    BY Windows
  <1>2. Len(Kinds) \in Nat /\ Below \in Nat /\ n \in Nat /\ Len(Allowance) \in Nat /\ n + Len(Allowance) <= Len(Kinds)
    BY <1>1, Lists DEF Below
  <1>3. ASSUME NEW V
        PROVE  /\ Settles(CurrentOf(a, m, Allowance, V))
               /\ Len(CurrentOf(a, m, Allowance, V)) = Len(Allowance)
               /\ \A i \in 1 .. Len(Allowance) :
                    CurrentOf(a, m, Allowance, V)[i] = CounterIn(a, m, Allowance[i], V)
    <2>1. PICK low, high : low = Below + n + 1 /\ high = Below + n + Len(Allowance)  OBVIOUS
    <2>2. Climbs(CurrentOf(a, m, Allowance, V), "pay", low, high)  BY <1>1, <1>2, <2>1, CurrentClimbs
    <2>3. low \in Nat /\ high \in Nat  BY <1>2, <2>1
    <2>4. Settles(CurrentOf(a, m, Allowance, V))  BY <2>2, <2>3, ClimbSettles
    <2> QED  BY <1>2, <2>4, CurrentCounters
  <1>4. PICK all, some : all = CurrentOf(a, m, Allowance, Elements(Allowance)) /\ some = CurrentOf(a, m, Allowance, W)
    OBVIOUS
  <1>5. Settles(all) /\ Settles(some) /\ Len(all) = Len(Allowance) /\ Len(some) = Len(Allowance)  BY <1>3, <1>4
  <1>6. ASSUME NEW i \in 1 .. Len(Allowance)
        PROVE  /\ all[i] = {Counter(a, Allowance[i], m[Allowance[i]])}
               /\ some[i] \subseteq {Counter(a, Allowance[i], m[Allowance[i]])}
    <2>1. all[i] = CounterIn(a, m, Allowance[i], Elements(Allowance))  BY <1>3, <1>4
    <2>2. some[i] = CounterIn(a, m, Allowance[i], W)  BY <1>3, <1>4
    <2>3. Allowance[i] \in Elements(Allowance)  BY DEF Elements
    <2> QED  BY <2>1, <2>2, <2>3 DEF CounterIn
  <1>7. RowsOf(some) \subseteq RowsOf(all)
    <2>1. ASSUME NEW r \in RowsOf(some) PROVE r \in RowsOf(all)
      <3>1. PICK i \in 1 .. Len(some) : r \in some[i]  BY <2>1 DEF RowsOf
      <3>2. r \in all[i] /\ i \in 1 .. Len(all)  BY <1>5, <1>6, <3>1
      <3> QED  BY <3>2 DEF RowsOf
    <2> QED  BY <2>1
  <1>8. Settles(all \o some) /\ RowsOf(all \o some) = RowsOf(all)  BY <1>5, <1>7, SettlesOn
  <1>9. ASSUME NEW w \in RowsOf(all)
        PROVE  \E i \in 1 .. Len(Allowance) : w = Counter(a, Allowance[i], m[Allowance[i]])
    <2>1. PICK i \in 1 .. Len(all) : w \in all[i]  BY DEF RowsOf
    <2> QED  BY <1>5, <1>6, <2>1
  <1>10. Current(a, m, Allowance) = all  BY <1>4 DEF Current
  <1>11. ClearAllowance(a, m, W) = all \o some  BY <1>4, <1>10 DEF ClearAllowance
  <1> QED  BY <1>5, <1>8, <1>9, <1>10, <1>11

\* A reservation that spends a card comes to each window in turn until one refuses
\* it, spends the card, and comes to the rest.
LEMMA CardInOrder ==
    ASSUME NEW a, NEW m, NEW S, NEW q \in 1 .. Len(Allowance), NEW c \in Elements(CardOrder), NEW W
    PROVE  InOrder(ReserveWithCard(a, m, S, q, c, W))
  <1>1. PICK n \in 1 .. Len(Kinds) :
          /\ Len(Allowance) = Len(Kinds) - n /\ \A i \in 1 .. Len(Allowance) : Allowance[i] = Kinds[n + i]
          /\ Len(Minute) = n /\ \A i \in 1 .. n : Minute[i] = Kinds[i]
          /\ Len(SubSeq(Allowance, 1, q)) = q
          /\ \A i \in 1 .. q : SubSeq(Allowance, 1, q)[i] = Allowance[i]
    BY Windows
  <1>2. /\ Len(Kinds) \in Nat /\ Below \in Nat /\ n \in Nat /\ Len(Allowance) \in Nat
        /\ q \in Nat /\ n + q <= Len(Kinds) /\ n + Len(Allowance) <= Len(Kinds)
    BY <1>1, Lists DEF Below
  <1>3. PICK first, sources, minute, tried, card, clear, again :
          /\ first = <<{ResetRow}, {UserRow(a)}>> /\ sources = Sources(a, S) /\ minute = Current(a, m, Minute)
          /\ tried = Current(a, m, SubSeq(Allowance, 1, q)) /\ card = <<{CardRow(a, c)}>>
          /\ clear = ClearAllowance(a, m, W) /\ again = Current(a, m, Allowance)
    OBVIOUS
  <1>4. PICK p0, p1, p2, p3, p4, p5, p6 :
          /\ p0 = 0 /\ p1 = 2 /\ p2 = Below /\ p3 = Below + 0 + 1 /\ p4 = Below + 0 + n
          /\ p5 = Below + n + 1 /\ p6 = Below + n + q
    OBVIOUS
  <1>5. /\ p0 \in Nat /\ p1 \in Nat /\ p2 \in Nat /\ p3 \in Nat /\ p4 \in Nat /\ p5 \in Nat /\ p6 \in Nat
        /\ p0 < p1 /\ p0 <= p2 /\ p2 < p3 /\ p2 <= p4 /\ p4 < p5 /\ p4 <= p6
    BY <1>2, <1>4
  <1>6. Opens(first) /\ EndsAt(first, p0)
    <2>1. PICK R : R = {UserRow(a)}  OBVIOUS
    <2>2. Chain(UserRow(a)) = "account" /\ Place(UserRow(a)) = 0  BY RowPlaces
    <2>3. \A r, w \in R : ~ Lower(r, w)  BY <2>1, <2>2 DEF Lower
    <2>4. Opens(<<{ResetRow}, R>>) /\ RowsOf(<<{ResetRow}, R>>) = {ResetRow} \union R
      BY <2>1, <2>2, <2>3, OpensWith
    <2>5. first = <<{ResetRow}, R>>  BY <1>3, <2>1
    <2> QED  BY <1>4, <2>1, <2>2, <2>4, <2>5, ResetFacts DEF EndsAt
  <1>7. Climbs(sources, "pay", p1, p2)  BY <1>3, <1>4, SourcesClimb
  <1>8. Climbs(minute, "pay", p3, p4)
    <2>1. PICK from : from = 0  OBVIOUS
    <2>2. /\ from \in Nat /\ Len(Minute) \in Nat /\ from + Len(Minute) <= Len(Kinds)
          /\ \A i \in 1 .. Len(Minute) : Minute[i] = Kinds[from + i]
      BY <1>1, <1>2, <2>1
    <2>3. Climbs(CurrentOf(a, m, Minute, Elements(Minute)), "pay", Below + from + 1, Below + from + Len(Minute))
      BY <2>2, CurrentClimbs
    <2> QED  BY <1>1, <1>3, <1>4, <2>1, <2>3 DEF Current
  <1>9. /\ Climbs(tried, "pay", p5, p6)
        /\ \A i \in 1 .. q : Counter(a, Allowance[i], m[Allowance[i]]) \in RowsOf(tried)
    <2>1. PICK kinds : kinds = SubSeq(Allowance, 1, q)  OBVIOUS
    <2>2. Len(kinds) = q /\ (\A i \in 1 .. Len(kinds) : kinds[i] = Allowance[i])
          /\ \A i \in 1 .. Len(kinds) : kinds[i] = Kinds[n + i]
      BY <1>1, <1>2, <2>1
    <2>3. tried = CurrentOf(a, m, kinds, Elements(kinds))  BY <1>3, <2>1 DEF Current
    <2>4. Climbs(CurrentOf(a, m, kinds, Elements(kinds)), "pay", Below + n + 1, Below + n + Len(kinds))
      BY <1>2, <2>2, CurrentClimbs
    <2>5. /\ Len(tried) = q
          /\ \A i \in 1 .. q : tried[i] = CounterIn(a, m, kinds[i], Elements(kinds))
      <3>1. PICK all : all = Elements(kinds)  OBVIOUS
      <3>2. Len(kinds) \in Nat  BY <1>2, <2>2
      <3>3. /\ Len(CurrentOf(a, m, kinds, all)) = Len(kinds)
            /\ \A i \in 1 .. Len(kinds) : CurrentOf(a, m, kinds, all)[i] = CounterIn(a, m, kinds[i], all)
        BY <3>2, CurrentCounters
      <3> QED  BY <2>2, <2>3, <3>1, <3>3
    <2>6. ASSUME NEW i \in 1 .. q PROVE Counter(a, Allowance[i], m[Allowance[i]]) \in RowsOf(tried)
      <3>1. kinds[i] \in Elements(kinds) /\ kinds[i] = Allowance[i]  BY <2>2 DEF Elements
      <3>2. Counter(a, Allowance[i], m[Allowance[i]]) \in tried[i]  BY <2>5, <3>1 DEF CounterIn
      <3> QED  BY <2>5, <3>2 DEF RowsOf
    <2> QED  BY <1>4, <2>2, <2>3, <2>4, <2>6
  <1>10. PICK s1, s2, s3, s4, s5 :
           /\ s1 = first \o sources /\ s2 = s1 \o minute /\ s3 = s2 \o tried /\ s4 = s3 \o card /\ s5 = s4 \o clear
    OBVIOUS
  <1>11. Opens(s1) /\ EndsAt(s1, p2)  BY <1>5, <1>6, <1>7, <1>10, OpensUp
  <1>12. Opens(s2) /\ EndsAt(s2, p4)  BY <1>5, <1>8, <1>10, <1>11, OpensUp
  <1>13. Opens(s3) /\ EndsAt(s3, p6) /\ RowsOf(tried) \subseteq RowsOf(s3)
    BY <1>5, <1>9, <1>10, <1>12, OpensUp
  <1>14. /\ Opens(s4) /\ \A h \in RowsOf(s4) : Chain(h) = "pay" => Place(h) <= p6
         /\ RowsOf(tried) \subseteq RowsOf(s4)
    <2>1. PICK i \in 1 .. Len(CardOrder) : c = CardOrder[i]  BY DEF Elements
    <2>2. Chain(CardRow(a, c)) = "account" /\ Place(CardRow(a, c)) = i
      <3>1. Chain(CardRow(a, CardOrder[i])) = "account" /\ Place(CardRow(a, CardOrder[i])) = i  BY RowPlaces
      <3> QED  BY <2>1, <3>1
    <2>3. i \in Nat /\ i >= 1  BY Lists
    <2>4. Climbs(card, "account", i, i) /\ RowsOf(card) = {CardRow(a, c)}  BY <1>3, <2>2, <2>3, ShortPath
    <2>5. Settles(card)  BY <2>3, <2>4, ClimbSettles
    <2>6. ASSUME NEW h \in RowsOf(s3) PROVE ~ Lower(CardRow(a, c), h)
      <3>1. Chain(h) = "account" => Place(h) = 0  BY <1>13 DEF EndsAt
      <3> QED  BY <2>2, <2>3, <3>1 DEF Lower
    <2>7. Opens(s3 \o card) /\ RowsOf(s3 \o card) = RowsOf(s3) \union RowsOf(card)
      BY <1>13, <2>4, <2>5, <2>6, OpensOn
    <2> QED  BY <1>10, <1>13, <2>2, <2>4, <2>7 DEF EndsAt
  <1>15. /\ Settles(clear) /\ RowsOf(clear) = RowsOf(again) /\ Settles(again)
         /\ \A w \in RowsOf(again) : \E i \in 1 .. Len(Allowance) : w = Counter(a, Allowance[i], m[Allowance[i]])
    BY <1>3, ClearFacts
  <1>16. ASSUME NEW h \in RowsOf(s4), NEW w \in RowsOf(clear) \ RowsOf(s4) PROVE ~ Lower(w, h)
    <2>1. PICK i \in 1 .. Len(Allowance) : w = Counter(a, Allowance[i], m[Allowance[i]])  BY <1>15
    <2>2. i \notin 1 .. q  BY <1>9, <1>14, <2>1
    <2>3. PICK j : j = n + i  OBVIOUS
    <2>4. j \in 1 .. Len(Kinds) /\ j > n + q /\ Allowance[i] = Kinds[j]  BY <1>1, <1>2, <2>2, <2>3
    <2>5. Chain(w) = "pay" /\ Place(w) = Below + j  BY <2>1, <2>4, RowPlaces
    <2>6. Place(h) \in Nat /\ (Chain(h) = "pay" => Place(h) <= Below + n + q)
      BY <1>4, <1>14 DEF Opens, Settles
    <2> QED  BY <1>2, <2>4, <2>5, <2>6 DEF Lower
  <1>17. Opens(s5) /\ RowsOf(s5) = RowsOf(s4) \union RowsOf(clear)
    BY <1>10, <1>14, <1>15, <1>16, OpensOn
  <1>18. Opens(s5 \o again)
    <2>1. RowsOf(again) \ RowsOf(s5) = {}  BY <1>15, <1>17
    <2> QED  BY <1>15, <1>17, <2>1, OpensOn
  <1>19. ReserveWithCard(a, m, S, q, c, W) = s5 \o again  BY <1>3, <1>10 DEF ReserveWithCard
  <1> QED  BY <1>18, <1>19, SerialInOrder

\* Every path through the code takes its rows in the order that service.go:95
\* documents, as long as an account's grants expire in the order they are spent.
THEOREM PathsInOrder ==
    ASSUME SweepAgrees PROVE ScriptsInOrder
  <1> SUFFICES ASSUME NEW sc \in Scripts PROVE InOrder(sc)  BY DEF ScriptsInOrder
  <1>1. ASSUME NEW a \in Accounts, NEW m \in Moments, NEW S \in SourceSets, sc = ReserveOnce(a, m, S)
        PROVE  InOrder(sc)
    BY <1>1, ReserveInOrder
  <1>2. ASSUME NEW a \in Accounts, NEW m \in Moments, NEW S \in SourceSets, NEW q \in 1 .. Len(Allowance),
               NEW c \in Elements(CardOrder), NEW W \in WindowSets, sc = ReserveWithCard(a, m, S, q, c, W)
        PROVE  InOrder(sc)
    BY <1>2, CardInOrder
  <1>3. ASSUME NEW a \in Accounts, NEW m \in Moments, NEW S \in SourceSets,
               sc = ReserveFromBonus(a, m, S) \/ sc = SettleOrRelease(a, m, S)
        PROVE  InOrder(sc)
    BY <1>3, PayInOrder
  <1>4. ASSUME NEW A, NEW W, sc = ResetCounters(A, W) PROVE InOrder(sc)
    BY <1>4, ResetsInOrder
  <1>5. ASSUME NEW a \in Accounts, NEW c \in Elements(CardOrder), NEW W \in WindowSets, sc = UseCard(a, c, W)
        PROVE  InOrder(sc)
    BY <1>5, ResetsInOrder
  <1>6. ASSUME sc = Prune PROVE InOrder(sc)  BY <1>6, ResetsInOrder
  <1>7. ASSUME NEW a \in Accounts, sc = RevokeAvailable(a) PROVE InOrder(sc)  BY <1>7, ClawBackInOrder
  <1>8. ASSUME NEW a \in Accounts, sc = TakeExpiring(a) PROVE InOrder(sc)  BY <1>8, SweepInOrder
  <1> QED  BY <1>1, <1>2, <1>3, <1>4, <1>5, <1>6, <1>7, <1>8 DEF Scripts

(***************************************************************************)
(* No cycle                                                                *)
(***************************************************************************)

\* What a transaction waits for comes after what it holds; with the global reset
\* row, at least not before.
LEMMA WantsInOrder ==
    ASSUME ScriptsInOrder, LockInv, NEW t \in Txns, Waiting(t), NEW h \in Held(t)
    PROVE  IF ResetRow \in Held(t) THEN ~ Lower(txn[t].want, h)
                                   ELSE Lower(h, txn[t].want)
<1> DEFINE sc == txn[t].script
           w == txn[t].want
<1>1. PICK j \in 1 .. Len(sc) : w \in sc[j] \ Held(t) /\ \A k \in 1 .. j - 1 : sc[k] \subseteq Held(t)
  BY DueRow DEF LockInv, WaitsForNext, Due
<1>2. PICK i \in 1 .. Len(sc) : h \in sc[i] /\ \A k \in 1 .. i - 1 : sc[k] \subseteq Held(t)
  BY DEF LockInv, HoldsPrefix
<1>3. InOrder(sc)
  <2>1. sc # << >> BY EmptyPath DEF LockInv, WaitsForNext, Due
  <2> QED BY <2>1, TxnFields DEF LockInv, ScriptsInOrder
<1> HIDE DEF sc, w
<1>4. Len(sc) \in Nat /\ i \in Int /\ j \in Int
  BY <1>3 DEF InOrder
<1>5. i <= j
  BY <1>1, <1>2, <1>4
<1>6. h # w /\ LocksBefore(sc, h, w) /\ h \in RowsOf(sc) /\ w \in RowsOf(sc)
  <2>1. h # w BY <1>1
  <2>2. h \in RowsOf(sc) /\ w \in RowsOf(sc) BY <1>1, <1>2 DEF RowsOf
  <2>3. i \in 1 .. j BY <1>4, <1>5
  <2>4. LocksBefore(sc, h, w) BY <1>1, <1>2, <2>3 DEF LocksBefore
  <2> QED BY <2>1, <2>2, <2>4
<1>7. IF Serial(sc) THEN ~ Lower(w, h) ELSE Lower(h, w)
  BY <1>3, <1>6 DEF InOrder
<1>8. Serial(sc) <=> ResetRow \in Held(t)
  <2>1. ASSUME Serial(sc) PROVE ResetRow \in Held(t)
    <3>1. CASE i = 1 BY <2>1, <3>1, <1>2 DEF Serial
    <3>2. CASE i > 1
      <4>1. 1 \in 1 .. i - 1 BY <3>2, <1>4
      <4> QED BY <2>1, <4>1, <1>2 DEF Serial
    <3> QED BY <3>1, <3>2, <1>4
  <2>2. ASSUME ResetRow \in Held(t) PROVE Serial(sc)
    <3>1. ResetRow \in RowsOf(sc) BY <2>2 DEF LockInv, HoldsPrefix, RowsOf, sc
    <3> QED BY <3>1, <1>3 DEF InOrder
  <2> QED BY <2>1, <2>2
<1> QED BY <1>7, <1>8 DEF w

\* What a transaction waits for has a place.
LEMMA WantPlace ==
    ASSUME ScriptsInOrder, LockInv, NEW t \in Txns, Waiting(t)
    PROVE  Place(txn[t].want) \in Nat
<1>1. txn[t].want \in RowsOf(txn[t].script) /\ txn[t].script # << >>
  BY DueRow, EmptyPath DEF LockInv, WaitsForNext, Due, RowsOf
<1>2. InOrder(txn[t].script)
  BY <1>1, TxnFields DEF LockInv, ScriptsInOrder
<1> QED BY <1>1, <1>2 DEF InOrder

\* No set of transactions waits in a cycle in a state that satisfies LockInv.
LEMMA NoCycle ==
    ASSUME ScriptsInOrder, IsFiniteSet(Txns), LockInv
    PROVE  NoDeadlock
<1> SUFFICES ASSUME NEW D \in (SUBSET Txns) \ {{}},
                    \A t \in D : \E u \in D : WaitsFor(t, u)
             PROVE FALSE
  BY DEF NoDeadlock
<1> DEFINE want(t) == txn[t].want
           place == [t \in D |-> Place(want(t))]
<1>1. \A t \in D : Waiting(t) /\ Place(want(t)) \in Nat
  BY WantPlace DEF WaitsFor
<1>2. ASSUME NEW t \in D, NEW u \in D, WaitsFor(t, u), ResetRow \notin Held(u)
      PROVE Lower(want(t), want(u))
  <2>1. Waiting(u) BY <1>1
  <2>2. want(t) \in Held(u) BY <1>2 DEF WaitsFor
  <2> QED BY <1>2, <2>1, <2>2, WantsInOrder
<1>3. \E s \in D : ResetRow \in Held(s)
  <2> SUFFICES ASSUME \A s \in D : ResetRow \notin Held(s) PROVE FALSE
    OBVIOUS
  <2>1. IsFiniteSet(D) BY FS_Subset
  <2>2. \A t \in D : place[t] \in Nat BY <1>1
  <2>3. PICK x \in D : \A y \in D : place[y] <= place[x]
    <3> HIDE DEF place
    <3> QED BY <2>1, <2>2, GreatestMember
  <2>4. PICK u \in D : WaitsFor(x, u) OBVIOUS
  <2>5. Place(want(x)) < Place(want(u)) BY <2>4, <1>2 DEF Lower
  <2> QED BY <2>3, <2>5, <1>1
<1>4. PICK s \in D : ResetRow \in Held(s)
  BY <1>3
<1>5. \A u \in D \ {s} : ResetRow \notin Held(u)
  BY <1>4 DEF LockInv, RowsExclusive
<1> DEFINE Beyond == {t \in D \ {s} : Lower(want(s), want(t))}
<1>6. Beyond # {} /\ IsFiniteSet(Beyond)
  <2>1. PICK y \in D : WaitsFor(s, y) OBVIOUS
  <2>2. y # s BY <2>1 DEF WaitsFor
  <2>3. y \in Beyond BY <2>1, <2>2, <1>2, <1>5
  <2>4. Beyond \in SUBSET Txns OBVIOUS
  <2> QED BY <2>3, <2>4, FS_Subset
<1>7. \A t \in Beyond : place[t] \in Nat
  BY <1>1
<1>8. PICK z \in Beyond : \A y \in Beyond : place[y] <= place[z]
  <2> HIDE DEF Beyond, place
  <2> QED BY <1>6, <1>7, GreatestMember
<1>9. PICK u \in D : WaitsFor(z, u)
  OBVIOUS
<1>10. CASE u = s
  <2>1. want(z) \in Held(s) BY <1>9, <1>10 DEF WaitsFor
  <2>2. ~ Lower(want(s), want(z)) BY <2>1, <1>1, <1>4, WantsInOrder
  <2> QED BY <2>2, <1>8
<1>11. CASE u # s
  <2>1. Lower(want(z), want(u)) BY <1>9, <1>11, <1>5, <1>2
  <2>2. Lower(want(s), want(z)) BY <1>8
  <2>3. Lower(want(s), want(u)) BY <2>1, <2>2, <1>1 DEF Lower
  <2>4. u \in Beyond BY <2>3, <1>11
  <2>5. place[u] <= place[z] BY <2>4, <1>8
  <2>6. Place(want(z)) < Place(want(u)) BY <2>1 DEF Lower
  <2> QED BY <2>5, <2>6, <1>1
<1> QED BY <1>10, <1>11

\* No set of transactions of quota, bonus and card waits in a cycle for each
\* other's rows, so PostgreSQL never aborts a request or a settlement as a
\* deadlock: for any number of transactions and any accounts, windows, pools,
\* grants and cards, where grants expire in the order they are spent. It rests on
\* every path keeping the order that service.go:95 documents (PathsInOrder).
THEOREM DeadlockFree ==
    ASSUME SweepAgrees, IsFiniteSet(Txns)
    PROVE  Spec => []NoDeadlock
<1>1. ScriptsInOrder
  BY PathsInOrder
<1>2. LockInv => NoDeadlock
  BY <1>1, NoCycle
<1> QED BY <1>2, LockInvInit, LockInvStep, PTL DEF Spec

(***************************************************************************)
(* The rows of the catalogue                                               *)
(***************************************************************************)

Rows == Shelf \cup Providers
WriteKinds == {"none", "create", "route", "enable", "delete", "provider", "cascade"}
Work == [kind : WriteKinds, on : Rows \cup {NoRoute}, target : Shelf \cup {NoRoute},
         locks : Seq(Rows), held : SUBSET Rows, checked : BOOLEAN]

\* The rows whose state decides whether a write fits.
Needs(w) ==
    {r \in Rows : \/ w.kind = "create" /\ r = OwnerOf[w.on]
                  \/ w.kind \in {"create", "route"} /\ r = w.target
                  \/ w.kind \in {"route", "delete"} /\ r = w.on
                  \/ w.kind = "provider" /\ (r = w.on \/ (r \in Shelf /\ OwnerOf[r] = w.on))}

RouteShape ==
    /\ entry \in [Shelf -> [at : {"unborn", "there", "gone"}, route : Shelf \cup {NoRoute}]]
    /\ owners \subseteq Providers
    /\ work \in [RouteEditors -> Work]

Born(m) == entry[m].at # "unborn"
Named(e) ==
    /\ work[e].kind = "create" =>
         /\ work[e].on \in Shelf /\ ~Born(work[e].on)
         /\ \A f \in RouteEditors \ {e} : ~(work[f].kind = "create" /\ work[f].on = work[e].on)
    /\ work[e].kind \in {"route", "delete"} => work[e].on \in Shelf /\ Born(work[e].on)
    /\ work[e].kind = "provider" => work[e].on \in Providers
    /\ work[e].kind \in {"create", "route"} /\ work[e].target # NoRoute => Born(work[e].target)

Exclusive(e) == \A r \in work[e].held : There(r) /\ \A f \in RouteEditors \ {e} : r \notin work[f].held
Covered(e) == \A r \in Needs(work[e]) : There(r) => r \in work[e].held \cup ToSet(work[e].locks)
OwnerFirst(e) ==
    work[e].kind = "provider" =>
        work[e].locks = LocksOfProvider(work[e].on) \/ work[e].on \notin ToSet(work[e].locks)
Checked(e) == work[e].checked => work[e].kind # "none" /\ work[e].locks = << >> /\ Fits(work[e])

\* A model that is there is under a provider that is, and routes as far as one hop.
Standing ==
    \A m \in Shelf : /\ There(m) => OwnerOf[m] \in owners
                     /\ ~There(m) => entry[m].route = NoRoute
                     /\ entry[m].route # NoRoute =>
                          There(entry[m].route) /\ entry[entry[m].route].route = NoRoute

Orderly(e) == Named(e) /\ Exclusive(e) /\ Covered(e) /\ OwnerFirst(e) /\ Checked(e)
LocksInv == RouteShape /\ Standing /\ \A e \in RouteEditors : Orderly(e)

-----------------------------------------------------------------------------
(* The rows and the steps. *)

LEMMA RowFacts ==
    /\ \A m \in Shelf : OwnerOf[m] \in Providers /\ OwnerOf[m] \notin Shelf /\ OwnerOf[m] # NoRoute
    /\ \A p \in Providers : p \notin Shelf /\ p # NoRoute
    /\ \A m \in Shelf : m # NoRoute /\ m \notin Providers
  BY RoutesAssumption DEF Providers

LEMMA Prepended ==
    ASSUME NEW S, NEW x \in S, NEW s \in Seq(S)
    PROVE  <<x>> \o s \in Seq(S) /\ ToSet(<<x>> \o s) = {x} \cup ToSet(s)
  <1> DEFINE t == <<x>> \o s
  <1>1. t \in Seq(S) /\ DOMAIN t = 1 .. Len(s) + 1 /\ DOMAIN s = 1 .. Len(s) /\ Len(s) \in Nat
    OBVIOUS
  <1>2. t[1] = x /\ \A i \in 1 .. Len(s) : t[i + 1] = s[i]
    OBVIOUS
  <1> HIDE DEF t
  <1>3. ASSUME NEW y \in ToSet(t) PROVE y \in {x} \cup ToSet(s)
    <2>1. PICK i \in 1 .. Len(s) + 1 : y = t[i]  BY <1>1, <1>3 DEF ToSet
    <2>2. CASE i = 1  BY <1>2, <2>1, <2>2
    <2>3. CASE i # 1
      <3>1. i - 1 \in 1 .. Len(s) /\ (i - 1) + 1 = i  BY <1>1, <2>1, <2>3
      <3>2. y = s[i - 1]  BY <1>2, <2>1, <3>1
      <3> QED BY <1>1, <3>1, <3>2 DEF ToSet
    <2> QED BY <2>2, <2>3
  <1>4. x \in ToSet(t)  BY <1>1, <1>2 DEF ToSet
  <1>5. ASSUME NEW y \in ToSet(s) PROVE y \in ToSet(t)
    <2>1. PICK i \in 1 .. Len(s) : y = s[i]  BY <1>1, <1>5 DEF ToSet
    <2>2. i + 1 \in 1 .. Len(s) + 1 /\ y = t[i + 1]  BY <1>1, <1>2, <2>1
    <2> QED BY <1>1, <2>2 DEF ToSet
  <1>6. ToSet(t) = {x} \cup ToSet(s)  BY <1>3, <1>4, <1>5
  <1> QED BY <1>1, <1>6 DEF t

LEMMA ShortLists ==
    ASSUME NEW S, NEW x \in S, NEW y \in S
    PROVE  /\ << >> \in Seq(S) /\ ToSet(<< >>) = {}
           /\ <<x>> \in Seq(S) /\ ToSet(<<x>>) = {x}
           /\ <<x, y>> \in Seq(S) /\ ToSet(<<x, y>>) = {x, y}
  BY DEF ToSet

LEMMA LockLists ==
    /\ \A m \in Shelf, t \in Shelf \cup {NoRoute} :
         /\ LocksOfRoute(m, t) \in Seq(Rows)
         /\ {m} \cup ({t} \ {NoRoute}) \subseteq ToSet(LocksOfRoute(m, t))
         /\ LocksOfCreate(m, t) \in Seq(Rows)
         /\ {OwnerOf[m]} \cup ({t} \ {NoRoute}) \subseteq ToSet(LocksOfCreate(m, t))
    /\ \A p \in Providers :
         /\ LocksOfProvider(p) \in Seq(Rows)
         /\ ToSet(LocksOfProvider(p)) = {p} \cup {m \in Shelf : OwnerOf[m] = p}
  <1>1. ASSUME NEW m \in Shelf, NEW t \in Shelf \cup {NoRoute}
        PROVE  /\ LocksOfRoute(m, t) \in Seq(Rows)
               /\ {m} \cup ({t} \ {NoRoute}) \subseteq ToSet(LocksOfRoute(m, t))
               /\ LocksOfCreate(m, t) \in Seq(Rows)
               /\ {OwnerOf[m]} \cup ({t} \ {NoRoute}) \subseteq ToSet(LocksOfCreate(m, t))
    <2> DEFINE o == OwnerOf[m]
               pair == IF t = NoRoute \/ t = m THEN <<m>> ELSE IF Before(m, t) THEN <<m, t>> ELSE <<t, m>>
               one == IF t = NoRoute THEN << >> ELSE <<t>>
    <2>1. o \in Rows /\ m \in Rows /\ (t # NoRoute => t \in Rows)  BY RowFacts DEF Rows
    <2>2. pair \in Seq(Rows) /\ {m} \cup ({t} \ {NoRoute}) \subseteq ToSet(pair)
      <3>1. CASE t = NoRoute \/ t = m
        <4>1. pair = <<m>>  BY <3>1
        <4> HIDE DEF pair
        <4>2. <<m>> \in Seq(Rows) /\ ToSet(<<m>>) = {m}  BY <2>1, ShortLists
        <4> QED BY <3>1, <4>1, <4>2
      <3>2. CASE t # NoRoute /\ t # m
        <4>1. pair = <<m, t>> \/ pair = <<t, m>>  BY <3>2
        <4> HIDE DEF pair
        <4>2. m \in Rows /\ t \in Rows  BY <2>1, <3>2
        <4>3. <<m, t>> \in Seq(Rows) /\ ToSet(<<m, t>>) = {m, t}  BY <4>2 DEF ToSet
        <4>4. <<t, m>> \in Seq(Rows) /\ ToSet(<<t, m>>) = {t, m}  BY <4>2 DEF ToSet
        <4> QED BY <3>2, <4>1, <4>3, <4>4
      <3> QED BY <3>1, <3>2
    <2>3. one \in Seq(Rows) /\ {t} \ {NoRoute} \subseteq ToSet(one)
      <3>1. CASE t = NoRoute
        <4>1. one = << >>  BY <3>1
        <4> HIDE DEF one
        <4> QED BY <2>1, <3>1, <4>1, ShortLists
      <3>2. CASE t # NoRoute
        <4>1. one = <<t>>  BY <3>2
        <4> HIDE DEF one
        <4> QED BY <2>1, <3>2, <4>1, ShortLists
      <3> QED BY <3>1, <3>2
    <2>4. LocksOfRoute(m, t) = <<o>> \o pair  BY DEF LocksOfRoute
    <2>5. LocksOfCreate(m, t) = <<o>> \o one  BY DEF LocksOfCreate
    <2> HIDE DEF pair, one
    <2> QED BY <2>1, <2>2, <2>3, <2>4, <2>5, Prepended
  <1>2. ASSUME NEW p \in Providers
        PROVE  /\ LocksOfProvider(p) \in Seq(Rows)
               /\ ToSet(LocksOfProvider(p)) = {p} \cup {m \in Shelf : OwnerOf[m] = p}
    <2> DEFINE S == OfProvider(p)
    <2>1. S \in Seq(Shelf) /\ ToSet(S) = {m \in Shelf : OwnerOf[m] = p}  BY RoutesAssumption
    <2>2. LocksOfProvider(p) = <<p>> \o S  BY DEF LocksOfProvider
    <2> HIDE DEF S
    <2>3. S \in Seq(Rows)  BY <2>1 DEF Rows
    <2>4. p \in Rows  BY DEF Rows
    <2> QED BY <2>1, <2>2, <2>3, <2>4, Prepended
  <1> QED BY <1>1, <1>2

LEMMA TailOf ==
    ASSUME NEW S, NEW s \in Seq(S), s # << >>
    PROVE  /\ Head(s) \in S /\ Tail(s) \in Seq(S)
           /\ ToSet(s) = {Head(s)} \cup ToSet(Tail(s))
  <1>1. PICK h, r : h = Head(s) /\ r = Tail(s)  OBVIOUS
  <1>2. h \in S /\ r \in Seq(S)  BY <1>1, HeadTailProperties
  <1>3. s = <<h>> \o r  BY <1>1, HeadTailProperties
  <1>4. ToSet(<<h>> \o r) = {h} \cup ToSet(r)  BY <1>2, Prepended
  <1> QED BY <1>1, <1>2, <1>3, <1>4

\* An editor at rest is orderly.
LEMMA AtRest ==
    ASSUME NEW e \in RouteEditors, work[e] = NoWork
    PROVE  Orderly(e)
  <1>1. /\ work[e].kind = "none" /\ work[e].held = {} /\ ~work[e].checked
    BY DEF NoWork, Begun
  <1>2. Needs(work[e]) = {}  BY <1>1 DEF Needs
  <1> QED BY <1>1, <1>2 DEF Orderly, Named, Exclusive, Covered, OwnerFirst, Checked

LEMMA NoWorkShape == NoWork \in Work
  <1>1. << >> \in Seq(Rows)  OBVIOUS
  <1> QED BY <1>1 DEF NoWork, Begun, Work, WriteKinds

LEMMA Initially == RoutesInit => LocksInv
  <1> SUFFICES ASSUME RoutesInit PROVE LocksInv  OBVIOUS
  <1>1. RouteShape  BY NoWorkShape DEF RoutesInit, RouteShape
  <1>2. Standing  BY RowFacts DEF RoutesInit, Standing, There
  <1>3. \A e \in RouteEditors : Orderly(e)  BY AtRest DEF RoutesInit
  <1> QED BY <1>1, <1>2, <1>3 DEF LocksInv

\* A step of one editor that changes no row disturbs the others no more than it
\* takes rows from them.
LEMMA OneWorks ==
    ASSUME LocksInv, NEW e \in RouteEditors, NEW w \in Work,
           work' = [work EXCEPT ![e] = w], UNCHANGED <<entry, owners>>, Orderly(e)'
    PROVE  LocksInv'
  <1>1. RouteShape'  BY DEF LocksInv, RouteShape
  <1>2. Standing'  BY DEF LocksInv, Standing, There
  <1>3. ASSUME NEW f \in RouteEditors, f # e PROVE Orderly(f)'
    <2>1. work'[f] = work[f] /\ work'[e] = w /\ Orderly(f)
      BY <1>3 DEF LocksInv, RouteShape
    <2>2. Named(f)'
      BY <1>3, <2>1 DEF Orderly, Named, Born, LocksInv, RouteShape
    <2>3. Exclusive(f)'
      <3>1. ASSUME NEW r \in work[f].held PROVE There(r)' /\ \A g \in RouteEditors \ {f} : r \notin work'[g].held
        <4>1. There(r)'  BY <2>1 DEF Orderly, Exclusive, There
        <4>2. r \notin work'[e].held  BY <1>3, <2>1 DEF Orderly, Exclusive
        <4>3. ASSUME NEW g \in RouteEditors \ {f}, g # e PROVE r \notin work'[g].held
          BY <2>1, <4>3 DEF Orderly, Exclusive, LocksInv, RouteShape
        <4> QED BY <4>1, <4>2, <4>3
      <3> QED BY <2>1, <3>1 DEF Exclusive
    <2>4. Covered(f)'  BY <2>1 DEF Orderly, Covered, There
    <2>5. OwnerFirst(f)'  BY <2>1 DEF Orderly, OwnerFirst
    <2>6. Checked(f)'
      <3>1. (\A r : There(r)' <=> There(r)) /\ (\A m : Incoming(m)' = Incoming(m))  BY DEF Incoming, There
      <3>2. Fits(work[f]) => Fits(work[f])'
        BY <2>1, <3>1 DEF Fits, RouteFits, MayDelete, MayDeleteProvider
      <3> QED BY <2>1, <3>2 DEF Orderly, Checked
    <2> QED BY <2>2, <2>3, <2>4, <2>5, <2>6 DEF Orderly
  <1>4. \A f \in RouteEditors : Orderly(f)'  BY <1>3
  <1> QED BY <1>1, <1>2, <1>4 DEF LocksInv

LEMMA AtRestAfter ==
    ASSUME NEW e \in RouteEditors, work'[e] = NoWork
    PROVE  Orderly(e)'
  <1>1. /\ work'[e].kind = "none" /\ work'[e].held = {} /\ ~work'[e].checked
    BY DEF NoWork, Begun
  <1>2. Needs(work'[e]) = {}  BY <1>1 DEF Needs
  <1> QED BY <1>1, <1>2 DEF Orderly, Named, Exclusive, Covered, OwnerFirst, Checked

\* A transaction that begins has the rows it needs before it.
LEMMA Begins ==
    ASSUME LocksInv, NEW e \in RouteEditors, NEW kind \in WriteKinds \ {"none"}, NEW on \in Rows,
           NEW t \in Shelf \cup {NoRoute}, NEW locks \in Seq(Rows), Start(e, kind, on, t, locks),
           Needs(Begun(kind, on, t, locks)) \subseteq ToSet(locks),
           kind = "provider" => locks = LocksOfProvider(on),
           Named(e)'
    PROVE  LocksInv'
  <1> DEFINE w == Begun(kind, on, t, locks)
  <1>1. w \in Work
    BY DEF Work, Begun
  <1>2. /\ w.kind = kind /\ w.on = on /\ w.locks = locks /\ w.held = {} /\ w.checked = FALSE
    BY DEF Begun
  <1>3. work' = [work EXCEPT ![e] = w] /\ UNCHANGED <<entry, owners>>
    BY DEF Start
  <1>4. work'[e] = w  BY <1>3 DEF LocksInv, RouteShape
  <1>5. Needs(w) \subseteq ToSet(locks)  OBVIOUS
  <1> HIDE DEF w
  <1>6. Exclusive(e)' /\ Covered(e)' /\ OwnerFirst(e)' /\ Checked(e)'
    BY <1>2, <1>4, <1>5 DEF Exclusive, Covered, OwnerFirst, Checked
  <1>7. Orderly(e)'  BY <1>6 DEF Orderly
  <1> QED BY <1>1, <1>3, <1>7, OneWorks

LEMMA StartKeeps ==
    ASSUME LocksInv, NEW e \in RouteEditors,
           \/ \E m \in Shelf : \/ \E t \in Shelf \cup {NoRoute} : StartCreate(e, m, t) \/ StartRoute(e, m, t)
                               \/ StartEnable(e, m) \/ StartDelete(e, m)
           \/ \E p \in owners, kind \in {"provider", "cascade"} : StartProvider(e, p, kind)
    PROVE  LocksInv'
  <1> USE DEF WriteKinds
  <1>1. ASSUME NEW m \in Shelf, NEW t \in Shelf \cup {NoRoute}, StartCreate(e, m, t) PROVE LocksInv'
    <2> DEFINE w == Begun("create", m, t, LocksOfCreate(m, t))
    <2>1. w.kind = "create" /\ w.on = m /\ w.target = t  BY DEF Begun
    <2>2. Start(e, "create", m, t, LocksOfCreate(m, t))  BY <1>1 DEF StartCreate
    <2>3. work' = [work EXCEPT ![e] = w] /\ UNCHANGED <<entry, owners>>  BY <2>2 DEF Start
    <2> HIDE DEF w
    <2>4. Needs(w) \subseteq ToSet(LocksOfCreate(m, t)) /\ LocksOfCreate(m, t) \in Seq(Rows)
      BY <2>1, LockLists, RowFacts DEF Needs, Rows
    <2>5. Named(e)'
      BY <1>1, <2>1, <2>3 DEF StartCreate, Known, Named, Born, LocksInv, RouteShape
    <2> QED BY <2>2, <2>4, <2>5, Begins DEF w, Rows
  <1>2. ASSUME NEW m \in Shelf, NEW t \in Shelf \cup {NoRoute}, StartRoute(e, m, t) PROVE LocksInv'
    <2> DEFINE w == Begun("route", m, t, LocksOfRoute(m, t))
    <2>1. w.kind = "route" /\ w.on = m /\ w.target = t  BY DEF Begun
    <2>2. Start(e, "route", m, t, LocksOfRoute(m, t))  BY <1>2 DEF StartRoute
    <2>3. work' = [work EXCEPT ![e] = w] /\ UNCHANGED <<entry, owners>>  BY <2>2 DEF Start
    <2> HIDE DEF w
    <2>4. Needs(w) \subseteq ToSet(LocksOfRoute(m, t)) /\ LocksOfRoute(m, t) \in Seq(Rows)
      BY <2>1, LockLists, RowFacts DEF Needs, Rows
    <2>5. Named(e)'
      BY <1>2, <2>1, <2>3, RowFacts DEF StartRoute, Known, There, Named, Born, LocksInv, RouteShape
    <2> QED BY <2>2, <2>4, <2>5, Begins DEF w, Rows
  <1>3. ASSUME NEW m \in Shelf, StartEnable(e, m) PROVE LocksInv'
    <2> DEFINE w == Begun("enable", m, NoRoute, LocksOfEnable(m))
    <2>1. w.kind = "enable" /\ w.on = m /\ w.target = NoRoute  BY DEF Begun
    <2>2. Start(e, "enable", m, NoRoute, LocksOfEnable(m))  BY <1>3 DEF StartEnable
    <2>3. work' = [work EXCEPT ![e] = w] /\ UNCHANGED <<entry, owners>>  BY <2>2 DEF Start
    <2> HIDE DEF w
    <2>4. Needs(w) = {}  BY <2>1 DEF Needs
    <2>5. OwnerOf[IF entry[m].route = NoRoute THEN m ELSE entry[m].route] \in Rows /\ m \in Rows
      BY RowFacts DEF LocksInv, RouteShape, Rows
    <2>6. LocksOfEnable(m) \in Seq(Rows)  BY <2>5 DEF LocksOfEnable
    <2>7. Named(e)'  BY <2>1, <2>3 DEF Named, LocksInv, RouteShape
    <2> QED BY <2>2, <2>4, <2>5, <2>6, <2>7, Begins DEF w
  <1>4. ASSUME NEW m \in Shelf, StartDelete(e, m) PROVE LocksInv'
    <2> DEFINE w == Begun("delete", m, NoRoute, <<m>>)
    <2>1. w.kind = "delete" /\ w.on = m /\ w.target = NoRoute  BY DEF Begun
    <2>2. Start(e, "delete", m, NoRoute, <<m>>)  BY <1>4 DEF StartDelete
    <2>3. work' = [work EXCEPT ![e] = w] /\ UNCHANGED <<entry, owners>>  BY <2>2 DEF Start
    <2> HIDE DEF w
    <2>4. m \in Rows  BY DEF Rows
    <2>5. <<m>> \in Seq(Rows) /\ ToSet(<<m>>) = {m}  BY <2>4, ShortLists
    <2>6. Needs(w) \subseteq {m}  BY <2>1 DEF Needs
    <2>7. Named(e)'
      BY <1>4, <2>1, <2>3, RowFacts DEF StartDelete, There, Named, Born, LocksInv, RouteShape
    <2> QED BY <2>2, <2>4, <2>5, <2>6, <2>7, Begins DEF w
  <1>5. ASSUME NEW p \in owners, NEW kind \in {"provider", "cascade"}, StartProvider(e, p, kind) PROVE LocksInv'
    <2> DEFINE w == Begun(kind, p, NoRoute, LocksOfProvider(p))
    <2>1. w.kind = kind /\ w.on = p /\ w.target = NoRoute  BY DEF Begun
    <2>2. Start(e, kind, p, NoRoute, LocksOfProvider(p))  BY <1>5 DEF StartProvider
    <2>3. work' = [work EXCEPT ![e] = w] /\ UNCHANGED <<entry, owners>>  BY <2>2 DEF Start
    <2> HIDE DEF w
    <2>4. p \in Providers  BY DEF LocksInv, RouteShape
    <2>5. Needs(w) \subseteq ToSet(LocksOfProvider(p)) /\ LocksOfProvider(p) \in Seq(Rows)
      BY <2>1, <2>4, LockLists DEF Needs
    <2>6. Named(e)'  BY <2>1, <2>3, <2>4 DEF Named, LocksInv, RouteShape
    <2> QED BY <2>2, <2>4, <2>5, <2>6, Begins DEF w, Rows
  <1> QED BY <1>1, <1>2, <1>3, <1>4, <1>5

LEMMA LockRowKeeps ==
    ASSUME LocksInv, NEW e \in RouteEditors, LockRow(e)
    PROVE  LocksInv'
  <1> DEFINE row == Head(work[e].locks)
             w == [work[e] EXCEPT !.locks = Tail(@), !.held = @ \cup (IF There(row) THEN {row} ELSE {})]
  <1>1. /\ work[e] \in Work /\ work[e].locks # << >> /\ work[e].locks \in Seq(Rows) /\ Orderly(e)
        /\ \A f \in RouteEditors \ {e} : row \notin work[f].held
        /\ work' = [work EXCEPT ![e] = w] /\ UNCHANGED <<entry, owners>>
    BY DEF LocksInv, RouteShape, LockRow, Work
  <1>2. row \in Rows /\ Tail(work[e].locks) \in Seq(Rows)
        /\ ToSet(work[e].locks) = {row} \cup ToSet(Tail(work[e].locks))
    BY <1>1, TailOf
  <1>3. /\ w.kind = work[e].kind /\ w.on = work[e].on /\ w.target = work[e].target /\ w.checked = work[e].checked
        /\ w.locks = Tail(work[e].locks)
        /\ w.held = work[e].held \cup (IF There(row) THEN {row} ELSE {})
    BY <1>1 DEF Work
  <1>4. w \in Work  BY <1>1, <1>2 DEF Work
  <1>5. work'[e] = w /\ \A f \in RouteEditors \ {e} : work'[f] = work[f]
    BY <1>1 DEF LocksInv, RouteShape
  <1>7. work[e].kind = "provider" => work[e].on \notin ToSet(Tail(work[e].locks))
    <2> HAVE work[e].kind = "provider"
    <2>1. CASE work[e].on \notin ToSet(work[e].locks)  BY <2>1, <1>2
    <2>2. CASE work[e].locks = LocksOfProvider(work[e].on)
      <3> DEFINE p == work[e].on
      <3>1. p \in Providers  BY <1>1 DEF Orderly, Named
      <3>2. OfProvider(p) \in Seq(Shelf) /\ ToSet(OfProvider(p)) = {m \in Shelf : OwnerOf[m] = p}
        BY <3>1, RoutesAssumption
      <3>3. Tail(work[e].locks) = OfProvider(p)
        BY <2>2, <3>2 DEF LocksOfProvider
      <3> QED BY <3>1, <3>2, <3>3, RowFacts
    <2> QED BY <1>1, <2>1, <2>2 DEF Orderly, OwnerFirst
  <1> HIDE DEF w
  <1>8. Needs(w) = Needs(work[e])  BY <1>3 DEF Needs
  <1>9. Named(e)'
    BY <1>1, <1>3, <1>5 DEF Orderly, Named, Born
  <1>10. Exclusive(e)'
    BY <1>1, <1>3, <1>5 DEF Orderly, Exclusive, There
  <1>11. Covered(e)'
    BY <1>1, <1>2, <1>3, <1>5, <1>8 DEF Orderly, Covered, There
  <1>12. OwnerFirst(e)'
    BY <1>3, <1>5, <1>7 DEF OwnerFirst
  <1>13. Checked(e)'
    BY <1>1, <1>3, <1>5 DEF Orderly, Checked
  <1> HIDE DEF row
  <1>14. Orderly(e)'  BY <1>9, <1>10, <1>11, <1>12, <1>13 DEF Orderly
  <1> QED BY <1>1, <1>4, <1>14, OneWorks

LEMMA CheckKeeps ==
    ASSUME LocksInv, NEW e \in RouteEditors, CheckPasses(e)
    PROVE  LocksInv'
  <1> DEFINE w == [work[e] EXCEPT !.checked = TRUE]
  <1>1. /\ work[e] \in Work /\ Orderly(e) /\ Locked(e) /\ Fits(work[e])
        /\ work' = [work EXCEPT ![e] = w] /\ UNCHANGED <<entry, owners>>
    BY DEF LocksInv, RouteShape, CheckPasses
  <1>2. /\ w \in Work
        /\ w.kind = work[e].kind /\ w.on = work[e].on /\ w.target = work[e].target
        /\ w.locks = work[e].locks /\ w.held = work[e].held
    BY <1>1 DEF Work
  <1>3. work'[e] = w /\ \A f \in RouteEditors \ {e} : work'[f] = work[f]
    BY <1>1 DEF LocksInv, RouteShape
  <1> HIDE DEF w
  <1>4. Needs(w) = Needs(work[e])  BY <1>2 DEF Needs
  <1>5. Named(e)'  BY <1>1, <1>2, <1>3 DEF Orderly, Named, Born
  <1>6. Exclusive(e)'  BY <1>1, <1>2, <1>3 DEF Orderly, Exclusive, There
  <1>7. Covered(e)'  BY <1>1, <1>2, <1>3, <1>4 DEF Orderly, Covered, There
  <1>8. OwnerFirst(e)'  BY <1>1, <1>2, <1>3 DEF Orderly, OwnerFirst
  <1>9. Checked(e)'
    <2>1. (\A r : There(r)' <=> There(r)) /\ (\A m : Incoming(m)' = Incoming(m))  BY <1>1 DEF Incoming, There
    <2>2. Fits(work[e])'
      BY <1>1, <1>2, <1>3, <2>1 DEF Fits, RouteFits, MayDelete, MayDeleteProvider
    <2> QED BY <1>1, <1>2, <1>3, <2>2 DEF Checked, Locked
  <1>10. Orderly(e)'  BY <1>5, <1>6, <1>7, <1>8, <1>9 DEF Orderly
  <1> QED BY <1>1, <1>2, <1>10, OneWorks

LEMMA EndKeeps ==
    ASSUME LocksInv, NEW e \in RouteEditors, work' = [work EXCEPT ![e] = NoWork], UNCHANGED <<entry, owners>>
    PROVE  LocksInv'
  <1>1. work'[e] = NoWork  BY DEF LocksInv, RouteShape
  <1>2. Orderly(e)'  BY <1>1, AtRestAfter
  <1> QED BY <1>2, NoWorkShape, OneWorks

-----------------------------------------------------------------------------
(* The commits. *)

\* Two editors whose writes have both been found to fit need no row in common.
LEMMA Apart ==
    ASSUME LocksInv, NEW e \in RouteEditors, NEW f \in RouteEditors \ {e},
           work[e].checked, work[f].checked, NEW r \in Needs(work[e]), There(r)
    PROVE  r \in work[e].held /\ r \notin Needs(work[f])
  <1>1. Orderly(e) /\ Orderly(f) /\ work[e].locks = << >> /\ work[f].locks = << >>
    BY DEF LocksInv, Orderly, Checked
  <1>2. ToSet(work[e].locks) = {} /\ ToSet(work[f].locks) = {}  BY <1>1 DEF ToSet
  <1>3. r \in work[e].held  BY <1>1, <1>2 DEF Orderly, Covered
  <1>4. r \notin work[f].held  BY <1>1, <1>3 DEF Orderly, Exclusive
  <1> QED BY <1>1, <1>2, <1>3, <1>4 DEF Orderly, Covered

\* What a deletion needs to remove, and nothing else, goes.
LEMMA Removing ==
    ASSUME LocksInv, NEW e \in RouteEditors, work[e].checked,
           NEW G \in SUBSET Shelf, NEW D \in SUBSET Providers,
           \A m \in G : There(m) /\ m \in Needs(work[e]) /\ Incoming(m) \subseteq G,
           D \subseteq Needs(work[e]),
           \A m \in Shelf : There(m) /\ OwnerOf[m] \in D => m \in G,
           entry' = WithoutRows(G), owners' = owners \ D, work' = [work EXCEPT ![e] = NoWork]
    PROVE  /\ LocksInv'
           /\ entry' = [m \in Shelf |-> IF m \in G THEN [at |-> "gone", route |-> NoRoute] ELSE entry[m]]
  <1> DEFINE plain == [m \in Shelf |-> IF m \in G THEN [at |-> "gone", route |-> NoRoute] ELSE entry[m]]
  <1>0. RouteShape /\ Standing /\ NoRoute \notin Shelf  BY RowFacts DEF LocksInv
  <1>1. entry' = plain
    <2>1. ASSUME NEW m \in Shelf, m \notin G PROVE entry[m].route \notin G
      <3> SUFFICES ASSUME entry[m].route \in G PROVE FALSE  OBVIOUS
      <3>1. There(m)  BY <1>0 DEF Standing
      <3>2. m \in Incoming(entry[m].route)  BY <3>1 DEF Incoming
      <3> QED BY <2>1, <3>2
    <2> QED BY <2>1 DEF WithoutRows
  <1>2. \A m \in Shelf : entry'[m] = IF m \in G THEN [at |-> "gone", route |-> NoRoute] ELSE entry[m]
    BY <1>1
  <1> HIDE DEF plain
  <1>3. \A r \in Rows : There(r)' <=> There(r) /\ r \notin G \cup D
    <2>1. ASSUME NEW m \in Shelf PROVE There(m)' <=> There(m) /\ m \notin G \cup D
      BY <1>0, <1>2, <2>1, RowFacts DEF There, RouteShape
    <2>2. ASSUME NEW p \in Providers PROVE There(p)' <=> There(p) /\ p \notin G \cup D
      BY <2>2, RowFacts DEF There
    <2> QED BY <2>1, <2>2 DEF Rows
  <1>4. \A m \in Shelf : /\ Born(m)' <=> Born(m)
                         /\ Incoming(m)' \subseteq Incoming(m)
                         /\ m \notin G => entry'[m] = entry[m]
    <2>1. \A m \in Shelf : Born(m)' <=> Born(m)  BY <1>0, <1>2, RowFacts DEF Born, There, RouteShape
    <2>2. \A m \in Shelf : Incoming(m)' \subseteq Incoming(m)
      <3> SUFFICES ASSUME NEW m \in Shelf, NEW n \in Shelf, There(n)', entry'[n].route = m
                   PROVE  There(n) /\ entry[n].route = m
        BY DEF Incoming
      <3>1. There(n) /\ n \notin G  BY <1>3 DEF Rows
      <3> QED BY <1>2, <3>1
    <2> QED BY <1>2, <2>1, <2>2
  <1>5. RouteShape'
    <2>1. \A m \in Shelf : entry'[m] \in [at : {"unborn", "there", "gone"}, route : Shelf \cup {NoRoute}]
      BY <1>0, <1>2 DEF RouteShape
    <2>2. entry' \in [Shelf -> [at : {"unborn", "there", "gone"}, route : Shelf \cup {NoRoute}]]
      BY <1>1, <2>1 DEF plain
    <2> QED BY <1>0, <2>2, NoWorkShape DEF RouteShape
  <1>6. Standing'
    <2> SUFFICES ASSUME NEW m \in Shelf
                 PROVE  /\ There(m)' => OwnerOf[m] \in owners'
                        /\ ~There(m)' => entry'[m].route = NoRoute
                        /\ entry'[m].route # NoRoute =>
                             There(entry[m].route)' /\ entry'[entry'[m].route].route = NoRoute
      BY DEF Standing
    <2>1. There(m)' => OwnerOf[m] \in owners'  BY <1>0, <1>3 DEF Standing, Rows
    <2>2. CASE m \in G  BY <1>2, <2>1, <2>2
    <2>3. CASE m \notin G
      <3>1. entry'[m] = entry[m] /\ (There(m)' <=> There(m))  BY <1>2, <2>3, <1>3, RowFacts DEF Rows
      <3>2. ~There(m)' => entry'[m].route = NoRoute  BY <1>0, <3>1 DEF Standing
      <3>3. ASSUME entry[m].route # NoRoute
            PROVE  There(entry[m].route)' /\ entry'[entry'[m].route].route = NoRoute
        <4>1. PICK t \in Shelf : t = entry[m].route /\ There(t) /\ entry[t].route = NoRoute
          BY <1>0, <3>3 DEF Standing, RouteShape
        <4>2. m \in Incoming(t)  BY <1>0, <3>3, <4>1 DEF Incoming, Standing
        <4>3. t \notin G  BY <2>3, <4>2
        <4>4. There(t)' /\ entry'[t].route = NoRoute  BY <1>3, <1>4, <4>1, <4>3, RowFacts DEF Rows
        <4> QED BY <3>1, <4>1, <4>4
      <3> QED BY <2>1, <3>1, <3>2, <3>3
    <2> QED BY <2>2, <2>3
  <1>7. ASSUME NEW f \in RouteEditors, f # e PROVE Orderly(f)'
    <2>1. Orderly(f) /\ work'[f] = work[f] /\ work'[e] = NoWork
          /\ (\A g \in RouteEditors \ {e} : work'[g] = work[g]) /\ work[f] \in Work
      BY <1>7 DEF LocksInv, RouteShape
    <2>2. Named(f)'
      BY <1>0, <1>4, <2>1 DEF Orderly, Named, Work, NoWork, Begun
    <2>3. Exclusive(f)'
      <3> SUFFICES ASSUME NEW r \in work[f].held
                   PROVE  There(r)' /\ \A g \in RouteEditors \ {f} : r \notin work'[g].held
        BY <2>1 DEF Exclusive
      <3>1. There(r) /\ (\A g \in RouteEditors \ {f} : r \notin work[g].held) /\ r \in Rows
        BY <2>1 DEF Orderly, Exclusive, Work
      <3>2. \A g \in RouteEditors \ {f} : r \notin work'[g].held
        BY <2>1, <3>1 DEF NoWork, Begun
      <3>3. r \notin G \cup D
        <4> SUFFICES ASSUME r \in G \cup D PROVE FALSE  OBVIOUS
        <4>1. r \in Needs(work[e]) /\ Orderly(e)  BY DEF LocksInv
        <4>2. r \in work[e].held  BY <3>1, <4>1 DEF Orderly, Covered, Checked, ToSet
        <4> QED BY <1>7, <3>1, <4>2
      <3> QED BY <1>3, <3>1, <3>2, <3>3
    <2>4. Covered(f)'
      BY <1>3, <2>1 DEF Orderly, Covered, Needs
    <2>5. OwnerFirst(f)'  BY <2>1 DEF Orderly, OwnerFirst
    <2>6. ASSUME work[f].checked PROVE Fits(work[f])'
      <3>0. PICK w \in Work : w = work[f] /\ w = work'[f]  BY <2>1
      <3>1. Fits(w) /\ w.locks = << >> /\ w.kind # "none" /\ Named(f)
        BY <2>1, <2>6, <3>0 DEF Orderly, Checked
      <3>2. \A r \in Needs(w) : There(r) => There(r)' /\ r \notin G
        <4> SUFFICES ASSUME NEW r \in Needs(w), There(r) PROVE r \notin G \cup D
          BY <1>3 DEF Needs
        <4> QED BY <1>7, <2>6, <3>0, Apart
      <3>3. ASSUME w.kind \in {"create", "route"}, w.on \in Shelf, w.target \in Shelf, RouteFits(w.on, w.target)
            PROVE  RouteFits(w.on, w.target)'
        <4>1. w.target \in Needs(w)  BY <3>3 DEF Needs, Rows
        <4>2. There(w.target)' /\ entry'[w.target] = entry[w.target]
          BY <1>4, <3>2, <3>3, <4>1 DEF RouteFits
        <4> QED BY <1>4, <3>0, <3>3, <4>2 DEF RouteFits
      <3>4. CASE w.kind = "create"
        <4>1. w.on \in Shelf  BY <3>1, <3>4 DEF Fits
        <4>2. OwnerOf[w.on] \in Needs(w)  BY <3>4, <4>1, RowFacts DEF Needs, Rows
        <4>3. OwnerOf[w.on] \in owners'
          BY <3>1, <3>2, <3>4, <4>1, <4>2, RowFacts DEF Fits, There
        <4>4. w.target \in Shelf \cup {NoRoute}  BY <3>0 DEF Work
        <4> QED BY <3>0, <3>1, <3>3, <3>4, <4>1, <4>3, <4>4 DEF Fits
      <3>5. CASE w.kind = "route"
        <4>1. w.on \in Shelf /\ w.on \in Needs(w) /\ There(w.on)
          BY <3>0, <3>1, <3>5 DEF Fits, Named, Needs, Rows
        <4>2. There(w.on)' /\ entry'[w.on] = entry[w.on]  BY <1>4, <3>2, <4>1
        <4>3. w.target \in Shelf \cup {NoRoute}  BY <3>0 DEF Work
        <4> QED BY <3>0, <3>1, <3>3, <3>5, <4>1, <4>2, <4>3 DEF Fits
      <3>6. CASE w.kind = "delete"
        <4>1. w.on \in Shelf  BY <3>0, <3>1, <3>6 DEF Named
        <4> QED BY <1>4, <3>0, <3>1, <3>6, <4>1 DEF Fits, MayDelete
      <3>7. CASE w.kind = "provider"
        <4>1. \A m \in Shelf : There(m)' => There(m)  BY <1>3 DEF Rows
        <4> QED BY <1>4, <3>0, <3>1, <3>7, <4>1 DEF Fits, MayDeleteProvider
      <3>8. CASE w.kind \in {"enable", "cascade"}  BY <3>0, <3>8 DEF Fits
      <3> QED BY <3>0, <3>1, <3>4, <3>5, <3>6, <3>7, <3>8 DEF Work, WriteKinds
    <2>7. Checked(f)'  BY <2>1, <2>6 DEF Orderly, Checked
    <2> QED BY <2>2, <2>3, <2>4, <2>5, <2>7 DEF Orderly
  <1>8. Orderly(e)'
    <2>1. work'[e] = NoWork  BY <1>0 DEF RouteShape
    <2> QED BY <2>1, AtRestAfter
  <1> QED BY <1>1, <1>5, <1>6, <1>7, <1>8 DEF LocksInv, plain

\* The write of a route, or of a new model with one.
LEMMA Routing ==
    ASSUME LocksInv, NEW e \in RouteEditors, WriteRoute(e)
    PROVE  LocksInv' /\ \E m \in Shelf, t \in Shelf \cup {NoRoute} :
             Table!Add(m, t) \/ Table!SetRoute(m, t) \/ UNCHANGED entry
  <1>0. /\ RouteShape /\ Standing /\ NoRoute \notin Shelf
        /\ work[e].kind \in {"create", "route"} /\ work[e].checked /\ Orderly(e) /\ Fits(work[e])
        /\ work' = [work EXCEPT ![e] = NoWork] /\ owners' = owners
    BY RowFacts DEF LocksInv, Orderly, Checked, WriteRoute, Committing, Committed
  <1>1. PICK m \in Shelf : m = work[e].on  BY <1>0 DEF Orderly, Named
  <1>2. PICK t \in Shelf \cup {NoRoute} : t = work[e].target  BY <1>0 DEF RouteShape, Work
  <1>3. entry' = [entry EXCEPT ![m] = [at |-> "there", route |-> t]]
    BY <1>1, <1>2 DEF WriteRoute
  <1>4. \A n \in Shelf : entry'[n] = IF n = m THEN [at |-> "there", route |-> t] ELSE entry[n]
    BY <1>0, <1>3 DEF RouteShape
  \* What the check found.
  <1>5. /\ OwnerOf[m] \in owners
        /\ work[e].kind = "create" => ~Born(m) /\ ~There(m)
        /\ work[e].kind = "route" => There(m) /\ m \in Needs(work[e])
    <2>1. CASE work[e].kind = "create"
      <3>1. OwnerOf[m] \in owners /\ ~Born(m)  BY <1>0, <1>1, <2>1 DEF Fits, Orderly, Named
      <3> QED BY <1>0, <2>1, <3>1, RowFacts DEF Born, There, RouteShape
    <2>2. CASE work[e].kind = "route"
      <3>1. There(m)  BY <1>0, <1>1, <2>2 DEF Fits
      <3> QED BY <1>0, <1>1, <2>2, <3>1 DEF Standing, Needs, Rows
    <2> QED BY <1>0, <2>1, <2>2
  <1>6. \/ t = NoRoute
        \/ RouteFits(m, t)
        \/ work[e].kind = "route" /\ entry[m].route = t
    BY <1>0, <1>1, <1>2 DEF Fits
  <1>7. t # NoRoute => /\ t \in Shelf /\ t # m /\ There(t) /\ entry[t].route = NoRoute /\ Incoming(m) = {}
                       /\ t \in Needs(work[e])
    <2> HAVE t # NoRoute
    <2>1. t \in Needs(work[e])  BY <1>0, <1>2 DEF Needs, Rows
    <2>2. CASE RouteFits(m, t)  BY <2>1, <2>2 DEF RouteFits
    <2>3. CASE entry[m].route = t
      <3>1. There(t) /\ entry[t].route = NoRoute /\ t # m  BY <1>0, <2>3 DEF Standing
      <3>2. ASSUME NEW n \in Incoming(m) PROVE FALSE
        <4>1. n \in Shelf /\ entry[n].route = m  BY DEF Incoming
        <4> QED BY <1>0, <2>3, <4>1 DEF Standing
      <3> QED BY <2>1, <3>1, <3>2
    <2> QED BY <1>6, <2>2, <2>3
  <1>8. \A r \in Rows : There(r)' <=> There(r) \/ r = m
    BY <1>0, <1>4, RowFacts DEF There, Rows, RouteShape
  <1>9. \A x \in Shelf : /\ Born(x)' <=> Born(x) \/ x = m
                         /\ Incoming(x)' \subseteq Incoming(x) \cup (IF x = t THEN {m} ELSE {})
    <2>1. \A x \in Shelf : Born(x)' <=> Born(x) \/ x = m  BY <1>4 DEF Born
    <2>2. ASSUME NEW x \in Shelf, NEW n \in Shelf, There(n)', entry'[n].route = x, n # m \/ x # t
          PROVE  There(n) /\ entry[n].route = x
      BY <1>4, <1>8, <2>2 DEF Rows
    <2> QED BY <2>1, <2>2 DEF Incoming
  <1>10. RouteShape'
    <2>1. \A x \in Shelf : entry'[x] \in [at : {"unborn", "there", "gone"}, route : Shelf \cup {NoRoute}]
      BY <1>0, <1>4 DEF RouteShape
    <2> QED BY <1>0, <1>3, <2>1, NoWorkShape DEF RouteShape
  <1>11. Standing'
    <2> SUFFICES ASSUME NEW x \in Shelf
                 PROVE  /\ There(x)' => OwnerOf[x] \in owners'
                        /\ ~There(x)' => entry'[x].route = NoRoute
                        /\ entry'[x].route # NoRoute =>
                             There(entry[x].route)' /\ entry'[entry'[x].route].route = NoRoute
      BY DEF Standing
    <2>1. There(x)' => OwnerOf[x] \in owners'  BY <1>0, <1>5, <1>8 DEF Standing, Rows
    <2>2. ~There(x)' => entry'[x].route = NoRoute  BY <1>0, <1>4, <1>8 DEF Standing, Rows
    <2>3. ASSUME entry'[x].route # NoRoute
          PROVE  There(entry[x].route)' /\ entry'[entry'[x].route].route = NoRoute
      <3>1. PICK u \in Shelf : u = entry'[x].route
        BY <1>10, <2>3 DEF RouteShape
      <3>2. CASE x = m
        <4>1. u = t  BY <1>4, <3>1, <3>2
        <4> QED BY <1>4, <1>7, <1>8, <2>3, <3>1, <4>1 DEF Rows
      <3>3. CASE x # m
        <4>1. u = entry[x].route /\ There(u) /\ entry[u].route = NoRoute /\ There(x)
          BY <1>0, <1>4, <2>3, <3>1, <3>3 DEF Standing
        <4>2. x \in Incoming(u)  BY <4>1 DEF Incoming
        <4>3. u = m => t = NoRoute  BY <1>7, <4>2
        <4> QED BY <1>4, <1>8, <3>1, <4>1, <4>3 DEF Rows
      <3> QED BY <3>2, <3>3
    <2> QED BY <2>1, <2>2, <2>3
  <1>12. ASSUME NEW f \in RouteEditors, f # e PROVE Orderly(f)'
    <2>1. Orderly(f) /\ work'[f] = work[f] /\ work'[e] = NoWork
          /\ (\A g \in RouteEditors \ {e} : work'[g] = work[g]) /\ work[f] \in Work
      BY <1>12, <1>0 DEF LocksInv, RouteShape
    <2>2. PICK w \in Work : w = work[f] /\ w = work'[f]  BY <2>1
    <2>3. w.kind = "create" => w.on # m
      BY <1>0, <1>1, <1>5, <1>12, <2>1, <2>2, RowFacts DEF Orderly, Named, Born, There, RouteShape
    <2>4. Named(f)'
      BY <1>0, <1>9, <2>1, <2>2, <2>3 DEF Orderly, Named, Work, NoWork, Begun
    <2>5. Exclusive(f)'
      <3>1. ASSUME NEW r \in w.held PROVE There(r)' /\ \A g \in RouteEditors \ {f} : r \notin work'[g].held
        BY <1>8, <2>1, <2>2 DEF Orderly, Exclusive, Work, NoWork, Begun
      <3> QED BY <2>2, <3>1 DEF Exclusive
    <2>6. Covered(f)'
      <3> SUFFICES ASSUME NEW r \in Needs(w), There(r)' PROVE r \in w.held \cup ToSet(w.locks)
        BY <2>2 DEF Covered
      <3>1. CASE There(r)  BY <2>1, <2>2, <3>1 DEF Orderly, Covered
      <3>2. CASE ~There(r)
        <4>1. r = m /\ ~Born(m) /\ work[e].kind = "create"
          BY <1>0, <1>5, <1>8, <3>2 DEF Needs
        <4>2. w.kind = "provider" /\ OwnerOf[m] = w.on
          BY <2>1, <2>2, <2>3, <4>1, RowFacts DEF Orderly, Named, Needs
        <4> DEFINE p == w.on
        <4>3. p \in Providers /\ There(p)  BY <1>5, <4>2, RowFacts DEF There
        <4>4. p \in Needs(work[e]) /\ p \in Needs(w)
          BY <1>0, <1>1, <4>1, <4>2, <4>3 DEF Needs, Rows
        <4>5. p \in work[e].held
          BY <1>0, <4>3, <4>4 DEF Orderly, Covered, Checked, ToSet
        <4>6. p \notin w.held  BY <1>0, <1>12, <2>2, <4>5 DEF Orderly, Exclusive
        <4>7. p \in ToSet(w.locks)  BY <2>1, <2>2, <4>3, <4>4, <4>6 DEF Orderly, Covered
        <4>8. w.locks = LocksOfProvider(p)  BY <2>1, <2>2, <4>2, <4>7 DEF Orderly, OwnerFirst
        <4> QED BY <4>1, <4>2, <4>3, <4>8, LockLists
      <3> QED BY <3>1, <3>2
    <2>7. OwnerFirst(f)'  BY <2>1, <2>2 DEF Orderly, OwnerFirst
    <2>8. ASSUME w.checked PROVE Fits(work[f])'
      <3>1. Fits(w) /\ Named(f) /\ w.kind # "none"
        BY <2>1, <2>2, <2>8 DEF Orderly, Checked
      \* The rows of f are not the source and not the target of the write.
      <3>2. \A r \in Needs(w) : There(r) => r \notin Needs(work[e])
        BY <1>0, <1>12, <2>2, <2>8, Apart
      <3>3. \A r \in Needs(w) : There(r) => There(r)' /\ r # m /\ r # t
        <4> SUFFICES ASSUME NEW r \in Needs(w), There(r) PROVE There(r)' /\ r # m /\ r # t
          OBVIOUS
        <4>1. r \in Rows /\ There(r)'  BY <1>8 DEF Needs
        <4>2. r # m  BY <1>0, <1>5, <3>2
        <4>3. r # t  BY <1>7, <3>2, <4>1, RowFacts DEF Rows
        <4> QED BY <4>1, <4>2, <4>3
      <3>4. ASSUME w.kind \in {"create", "route"}, w.on \in Shelf, w.on # t, w.target \in Shelf, RouteFits(w.on, w.target)
            PROVE  RouteFits(w.on, w.target)'
        <4>1. w.target \in Needs(w)  BY <3>4 DEF Needs, Rows
        <4>2. There(w.target)' /\ entry'[w.target] = entry[w.target]
          BY <1>4, <3>3, <3>4, <4>1 DEF RouteFits
        <4>3. Incoming(w.on)' = {}  BY <1>9, <3>4 DEF RouteFits
        <4> QED BY <3>4, <4>2, <4>3 DEF RouteFits
      <3>5. CASE w.kind = "create"
        <4>1. w.on \in Shelf /\ w.target \in Shelf \cup {NoRoute}  BY <3>1, <3>5 DEF Fits, Work
        <4>2. w.on # t
          <5> SUFFICES ASSUME w.on = t PROVE FALSE  OBVIOUS
          <5>1. ~Born(t)  BY <2>1, <2>2, <3>5 DEF Orderly, Named
          <5>2. Born(t)  BY <1>0, <1>2, <4>1 DEF Orderly, Named
          <5> QED BY <5>1, <5>2
        <4> QED BY <1>0, <2>2, <3>1, <3>4, <3>5, <4>1, <4>2 DEF Fits
      <3>6. CASE w.kind = "route"
        <4>1. w.on \in Shelf /\ w.on \in Needs(w) /\ There(w.on) /\ w.target \in Shelf \cup {NoRoute}
          BY <2>2, <3>1, <3>6 DEF Fits, Named, Needs, Rows, Work
        <4>2. There(w.on)' /\ entry'[w.on] = entry[w.on] /\ w.on # t  BY <1>4, <3>3, <4>1
        <4> QED BY <2>2, <3>1, <3>4, <3>6, <4>1, <4>2 DEF Fits
      <3>7. CASE w.kind = "delete"
        <4>1. w.on \in Shelf /\ w.on \in Needs(w) /\ Incoming(w.on) = {}
          BY <2>2, <3>1, <3>7 DEF Fits, Named, MayDelete, Needs, Rows
        <4>2. w.on # t  BY <1>7, <3>3, <4>1, RowFacts
        <4>3. Incoming(w.on)' = {}  BY <1>9, <4>1, <4>2
        <4> QED BY <2>2, <3>7, <4>3 DEF Fits, MayDelete
      <3>8. CASE w.kind = "provider"
        <4>1. ASSUME NEW x \in Shelf, There(x)', OwnerOf[x] = w.on, NEW n \in Incoming(x)'
              PROVE  OwnerOf[n] = w.on
          <5>1. x \in Needs(w)  BY <3>8, <4>1 DEF Needs, Rows
          <5>2. CASE x = t
            <6>1. There(x)  BY <1>7, <5>2, RowFacts
            <6> QED BY <3>3, <5>1, <5>2, <6>1
          <5>3. CASE x # t
            <6>1. n \in Incoming(x)  BY <1>9, <4>1, <5>3
            <6>2. There(x)  BY <1>0, <6>1 DEF Incoming, Standing
            <6> QED BY <3>1, <3>8, <4>1, <6>1, <6>2 DEF Fits, MayDeleteProvider
          <5> QED BY <5>2, <5>3
        <4> QED BY <2>2, <3>8, <4>1 DEF Fits, MayDeleteProvider
      <3>9. CASE w.kind \in {"enable", "cascade"}  BY <2>2, <3>9 DEF Fits
      <3> QED BY <3>1, <3>5, <3>6, <3>7, <3>8, <3>9 DEF Work, WriteKinds
    <2>9. Checked(f)'  BY <2>1, <2>2, <2>8 DEF Orderly, Checked
    <2> QED BY <2>4, <2>5, <2>6, <2>7, <2>9 DEF Orderly
  <1>13. Orderly(e)'
    <2>1. work'[e] = NoWork  BY <1>0 DEF RouteShape
    <2> QED BY <2>1, AtRestAfter
  <1>14. LocksInv'  BY <1>10, <1>11, <1>12, <1>13 DEF LocksInv
  <1>15. Table!MayRoute(m, t)
    BY <1>0, <1>7, RowFacts DEF Table!MayRoute, Table!Listed, Table!RoutedTo, Incoming, There, RouteShape
  <1>16. CASE work[e].kind = "create"
    <2>1. entry[m].at = "unborn"  BY <1>5, <1>16 DEF Born
    <2> QED BY <1>3, <1>5, <1>14, <1>15, <2>1 DEF Table!Add
  <1>17. CASE work[e].kind = "route"
    <2>1. entry[m].at = "there"  BY <1>0, <1>5, <1>17, RowFacts DEF There, RouteShape
    <2>2. entry' = [entry EXCEPT ![m].route = t]  BY <1>0, <1>3, <2>1 DEF RouteShape
    <2> QED BY <1>14, <1>15, <2>1, <2>2 DEF Table!SetRoute, Table!Listed
  <1> QED BY <1>0, <1>16, <1>17

LEMMA Deleting ==
    ASSUME LocksInv, NEW e \in RouteEditors, WriteDelete(e)
    PROVE  LocksInv' /\ (UNCHANGED entry \/ \E m \in Shelf : Table!Remove({m}))
  <1>0. /\ RouteShape /\ NoRoute \notin Shelf /\ work[e].kind = "delete" /\ work[e].checked
        /\ Orderly(e) /\ Fits(work[e])
        /\ work' = [work EXCEPT ![e] = NoWork] /\ owners' = owners
    BY RowFacts DEF LocksInv, Orderly, Checked, WriteDelete, Committing, Committed
  <1>1. PICK m \in Shelf : m = work[e].on  BY <1>0 DEF Orderly, Named
  <1> DEFINE G == {m} \cap {x \in Shelf : There(x)}
  <1>2. entry' = WithoutRows(G)  BY <1>1 DEF WriteDelete
  <1>3. Incoming(m) = {} /\ m \in Needs(work[e])
    BY <1>0, <1>1 DEF Fits, MayDelete, Needs, Rows
  <1>4. owners' = owners \ {}  BY <1>0
  <1>5. /\ G \in SUBSET Shelf
        /\ \A x \in G : There(x) /\ x \in Needs(work[e]) /\ Incoming(x) \subseteq G
    BY <1>3
  <1> HIDE DEF G
  <1>6. /\ LocksInv'
        /\ entry' = [x \in Shelf |-> IF x \in G THEN [at |-> "gone", route |-> NoRoute] ELSE entry[x]]
    <2> DEFINE D == {}
    <2>1. D \in SUBSET Providers /\ D \subseteq Needs(work[e]) /\ owners' = owners \ D
          /\ \A x \in Shelf : There(x) /\ OwnerOf[x] \in D => x \in G
      BY <1>4
    <2> HIDE DEF D
    <2> QED BY <1>0, <1>2, <1>5, <2>1, Removing
  <1>7. CASE There(m)
    <2>1. G = {m}  BY <1>7 DEF G
    <2>2. Table!Listed(m) /\ Table!RoutedTo(m) = {}
      BY <1>0, <1>3, <1>7, RowFacts DEF Table!Listed, Table!RoutedTo, Incoming, There, RouteShape
    <2> QED BY <1>6, <2>1, <2>2 DEF Table!Remove
  <1>8. CASE ~There(m)
    <2>1. G = {}  BY <1>8 DEF G
    <2>2. entry' = entry  BY <1>0, <1>6, <2>1 DEF RouteShape
    <2> QED BY <1>6, <2>2
  <1> QED BY <1>7, <1>8

LEMMA DeletingProvider ==
    ASSUME LocksInv, NEW e \in RouteEditors, WriteDeleteProvider(e)
    PROVE  LocksInv' /\ (UNCHANGED <<entry, owners>> \/ \E p \in owners : Table!RemoveProvider(p))
  <1>0. /\ RouteShape /\ Standing /\ work[e].kind = "provider" /\ work[e].checked
        /\ Orderly(e) /\ Fits(work[e])
        /\ work' = [work EXCEPT ![e] = NoWork]
    BY DEF LocksInv, Orderly, Checked, WriteDeleteProvider, Committing, Committed
  <1>1. PICK p \in Providers : p = work[e].on  BY <1>0 DEF Orderly, Named
  <1> DEFINE G == {m \in Shelf : There(m) /\ OwnerOf[m] = p}
             D == {p}
  <1>2. entry' = WithoutRows(G) /\ owners' = owners \ D  BY <1>1 DEF WriteDeleteProvider
  <1>3. /\ G \in SUBSET Shelf
        /\ \A x \in G : There(x) /\ x \in Needs(work[e]) /\ Incoming(x) \subseteq G
    BY <1>0, <1>1 DEF Fits, MayDeleteProvider, Needs, Rows, Incoming
  <1>4. D \in SUBSET Providers /\ D \subseteq Needs(work[e])
        /\ \A x \in Shelf : There(x) /\ OwnerOf[x] \in D => x \in G
    BY <1>0, <1>1 DEF Needs, Rows
  <1>5. G = {m \in Shelf : Table!Listed(m) /\ OwnerOf[m] = p}
    BY <1>0, RowFacts DEF There, Table!Listed, RouteShape
  <1>6. \A x \in G : Table!Listed(x) /\ Table!RoutedTo(x) \subseteq G
    BY <1>0, <1>3, <1>5, RowFacts DEF Table!Listed, Table!RoutedTo, Incoming, There, RouteShape
  <1>7. p \notin owners => G = {}  BY <1>0 DEF Standing
  <1> HIDE DEF G
  <1>8. /\ LocksInv'
        /\ entry' = [x \in Shelf |-> IF x \in G THEN [at |-> "gone", route |-> NoRoute] ELSE entry[x]]
    <2> HIDE DEF D
    <2> QED BY <1>0, <1>2, <1>3, <1>4, Removing
  <1>9. CASE p \in owners
    <2>1. Table!Remove(G)  BY <1>6, <1>8 DEF Table!Remove
    <2>2. Table!RemoveProvider(p)  BY <1>2, <1>5, <2>1 DEF Table!RemoveProvider
    <2> QED BY <1>8, <1>9, <2>2
  <1>10. CASE p \notin owners
    <2>1. entry' = entry  BY <1>0, <1>7, <1>8, <1>10 DEF RouteShape
    <2> QED BY <1>2, <1>8, <1>10, <2>1
  <1> QED BY <1>9, <1>10

-----------------------------------------------------------------------------
(* The refinement. *)

LEMMA Stepping ==
    ASSUME LocksInv, [RoutesNext]_routeVars
    PROVE  LocksInv' /\ [Table!TableNext]_(Table!tableVars)
  <1>1. CASE UNCHANGED routeVars
    <2>1. LocksInv'
      <3>1. RouteShape' /\ Standing'  BY <1>1 DEF LocksInv, routeVars, RouteShape, Standing, There
      <3>2. ASSUME NEW e \in RouteEditors PROVE Orderly(e)'
        <4>1. (\A r : There(r)' <=> There(r)) /\ (\A m : Incoming(m)' = Incoming(m)) /\ work' = work
              /\ entry' = entry /\ owners' = owners
          BY <1>1 DEF routeVars, Incoming, There
        <4>2. Fits(work[e])' <=> Fits(work[e])
          BY <4>1 DEF Fits, RouteFits, MayDelete, MayDeleteProvider
        <4>3. Orderly(e)  BY DEF LocksInv
        <4> QED BY <4>1, <4>2, <4>3 DEF Orderly, Named, Born, Exclusive, Covered, OwnerFirst, Checked
      <3> QED BY <3>1, <3>2 DEF LocksInv
    <2> QED BY <1>1, <2>1 DEF routeVars, Table!tableVars
  <1>2. ASSUME NEW e \in RouteEditors,
               \/ \E m \in Shelf : \/ \E t \in Shelf \cup {NoRoute} : StartCreate(e, m, t) \/ StartRoute(e, m, t)
                                   \/ StartEnable(e, m) \/ StartDelete(e, m)
               \/ \E p \in owners, kind \in {"provider", "cascade"} : StartProvider(e, p, kind)
        PROVE  LocksInv' /\ UNCHANGED <<entry, owners>>
    <2>1. UNCHANGED <<entry, owners>>
      BY <1>2 DEF StartCreate, StartRoute, StartEnable, StartDelete, StartProvider, Start
    <2> QED BY <1>2, <2>1, StartKeeps
  <1>3. ASSUME NEW e \in RouteEditors, LockRow(e) \/ CheckPasses(e)
        PROVE  LocksInv' /\ UNCHANGED <<entry, owners>>
    BY <1>3, LockRowKeeps, CheckKeeps DEF LockRow, CheckPasses
  <1>4. ASSUME NEW e \in RouteEditors, RollBack(e) \/ WriteSwitch(e)
        PROVE  LocksInv' /\ UNCHANGED <<entry, owners>>
    BY <1>4, EndKeeps DEF RollBack, WriteSwitch, Committed
  <1>5. ASSUME NEW e \in RouteEditors, WriteRoute(e)
        PROVE  LocksInv' /\ [Table!TableNext]_(Table!tableVars)
    <2>1. owners' = owners  BY <1>5 DEF WriteRoute
    <2> QED BY <1>5, <2>1, Routing DEF Table!TableNext, Table!tableVars
  <1>6. ASSUME NEW e \in RouteEditors, WriteDelete(e)
        PROVE  LocksInv' /\ [Table!TableNext]_(Table!tableVars)
    <2>1. owners' = owners  BY <1>6 DEF WriteDelete
    <2> QED BY <1>6, <2>1, Deleting DEF Table!TableNext, Table!tableVars
  <1>7. ASSUME NEW e \in RouteEditors, WriteDeleteProvider(e)
        PROVE  LocksInv' /\ [Table!TableNext]_(Table!tableVars)
    <2>1. ASSUME NEW p \in owners, Table!RemoveProvider(p) PROVE owners' # owners
      BY <2>1 DEF Table!RemoveProvider
    <2> QED BY <1>7, <2>1, DeletingProvider DEF Table!TableNext, Table!tableVars
  <1>8. CASE RoutesNext
    BY <1>2, <1>3, <1>4, <1>5, <1>6, <1>7, <1>8 DEF RoutesNext, Table!tableVars
  <1> QED BY <1>1, <1>8

\* Routes implements RouteTable (model.go, provider.go: every write of a route, a model
\* or a provider): it takes effect on the table as it stands at its commit, whatever
\* else ran since it looked.
THEOREM WritesAtomic == RoutesSpec => WritesAreAtomic
  <1>1. RoutesInit => Table!TableInit
    <2> SUFFICES ASSUME RoutesInit PROVE Table!TableInit  OBVIOUS
    <2> QED BY DEF RoutesInit, Table!TableInit, Providers
  <1>2. LocksInv /\ [RoutesNext]_routeVars => LocksInv' /\ [Table!TableNext]_(Table!tableVars)
    BY Stepping
  <1> QED BY <1>1, <1>2, Initially, PTL DEF RoutesSpec, WritesAreAtomic, Table!TableSpec

-----------------------------------------------------------------------------
(* No circle of waits: a transaction locks its provider and then models by id, so *)
(* what it holds comes before what it waits for.                                  *)

Precedes(r, s) == s \in Shelf /\ (r \in Providers \/ (r \in Shelf /\ Before(r, s)))
Ascending(s) == \A i, j \in 1 .. Len(s) : i < j => Precedes(s[i], s[j])
Uphill == \A e \in RouteEditors :
    /\ Ascending(work[e].locks)
    /\ \A h \in work[e].held, r \in ToSet(work[e].locks) : Precedes(h, r)

LEMMA OneWay == \A r, s : ~(Precedes(r, s) /\ Precedes(s, r))
  <1> SUFFICES ASSUME NEW r, NEW s, Precedes(r, s), Precedes(s, r) PROVE FALSE  OBVIOUS
  <1>1. r \in Shelf /\ s \in Shelf /\ Before(r, s) /\ Before(s, r)
    BY RoutesAssumption DEF Precedes
  <1>2. PICK i, j \in DOMAIN IdOrder : i < j /\ IdOrder[i] = r /\ IdOrder[j] = s  BY <1>1 DEF Before
  <1>3. PICK k, l \in DOMAIN IdOrder : k < l /\ IdOrder[k] = s /\ IdOrder[l] = r  BY <1>1 DEF Before
  <1>4. i = l /\ j = k /\ i \in Nat /\ j \in Nat  BY <1>2, <1>3, RoutesAssumption
  <1> QED BY <1>2, <1>3, <1>4

LEMMA ProviderFirst ==
    ASSUME NEW p \in Providers, NEW s \in Seq(Shelf), Ascending(s)
    PROVE  Ascending(<<p>> \o s)
  <1> DEFINE all == <<p>> \o s
  <1>1. /\ Len(s) \in Nat /\ Len(all) = Len(s) + 1 /\ all[1] = p
        /\ \A i \in 2 .. Len(all) : all[i] = s[i - 1] /\ s[i - 1] \in Shelf
    OBVIOUS
  <1> HIDE DEF all
  <1>2. ASSUME NEW i \in 1 .. Len(all), NEW j \in 1 .. Len(all), i < j PROVE Precedes(all[i], all[j])
    <2>1. j \in 2 .. Len(all) /\ j - 1 \in 1 .. Len(s) /\ all[j] = s[j - 1] /\ all[j] \in Shelf
      BY <1>1, <1>2
    <2>2. CASE i = 1  BY <1>1, <2>1, <2>2 DEF Precedes
    <2>3. CASE i # 1
      <3>1. i \in 2 .. Len(all) /\ i - 1 \in 1 .. Len(s) /\ i - 1 < j - 1  BY <1>1, <1>2, <2>3
      <3> QED BY <1>1, <2>1, <3>1 DEF Ascending
    <2> QED BY <2>2, <2>3
  <1> QED BY <1>2 DEF Ascending, all

LEMMA ListsAscend ==
    /\ \A m \in Shelf, t \in Shelf \cup {NoRoute} :
         Ascending(LocksOfRoute(m, t)) /\ Ascending(LocksOfCreate(m, t)) /\ Ascending(<<m>>)
    /\ \A p \in Providers : Ascending(LocksOfProvider(p)) /\ \A m \in Shelf : Ascending(<<p, m>>)
  <1>1. Ascending(<< >>) /\ \A x : Ascending(<<x>>)  BY DEF Ascending
  <1>2. ASSUME NEW m \in Shelf, NEW t \in Shelf \cup {NoRoute} PROVE Ascending(LocksOfRoute(m, t))
    <2> DEFINE pair == IF t = NoRoute \/ t = m THEN <<m>> ELSE IF Before(m, t) THEN <<m, t>> ELSE <<t, m>>
    <2>1. pair \in Seq(Shelf) /\ Ascending(pair)
      <3>1. CASE t = NoRoute \/ t = m  BY <1>1, <3>1
      <3>2. CASE t # NoRoute /\ t # m /\ Before(m, t)  BY <3>2 DEF Ascending, Precedes
      <3>3. CASE t # NoRoute /\ t # m /\ ~Before(m, t)
        <4>1. PICK i, j \in DOMAIN IdOrder : IdOrder[i] = m /\ IdOrder[j] = t
          BY <3>3 DEF Shelf, ToSet
        <4>2. i \in Nat /\ j \in Nat /\ i # j  BY <3>3, <4>1, RoutesAssumption
        <4>3. Before(t, m)  BY <3>3, <4>1, <4>2 DEF Before
        <4> QED BY <3>3, <4>3 DEF Ascending, Precedes
      <3> QED BY <3>1, <3>2, <3>3
    <2>2. LocksOfRoute(m, t) = <<OwnerOf[m]>> \o pair  BY DEF LocksOfRoute
    <2> HIDE DEF pair
    <2> QED BY <2>1, <2>2, ProviderFirst, RowFacts
  <1>3. ASSUME NEW m \in Shelf, NEW t \in Shelf \cup {NoRoute} PROVE Ascending(LocksOfCreate(m, t))
    <2> DEFINE one == IF t = NoRoute THEN << >> ELSE <<t>>
    <2>1. one \in Seq(Shelf) /\ Ascending(one)
      <3>1. CASE t = NoRoute  BY <1>1, <3>1
      <3>2. CASE t # NoRoute  BY <1>1, <3>2
      <3> QED BY <3>1, <3>2
    <2>2. LocksOfCreate(m, t) = <<OwnerOf[m]>> \o one  BY DEF LocksOfCreate
    <2> HIDE DEF one
    <2> QED BY <2>1, <2>2, ProviderFirst, RowFacts
  <1>4. ASSUME NEW p \in Providers PROVE Ascending(LocksOfProvider(p))
    <2> DEFINE own == OfProvider(p)
    <2>1. own \in Seq(Shelf) /\ \A i, j \in 1 .. Len(own) : i < j => Before(own[i], own[j])
      BY RoutesAssumption
    <2>2. LocksOfProvider(p) = <<p>> \o own  BY DEF LocksOfProvider
    <2> HIDE DEF own
    <2>3. Ascending(own)  BY <2>1 DEF Ascending, Precedes
    <2> QED BY <2>1, <2>2, <2>3, ProviderFirst
  <1>5. ASSUME NEW p \in Providers, NEW m \in Shelf PROVE Ascending(<<p, m>>)
    BY DEF Ascending, Precedes
  <1> QED BY <1>1, <1>2, <1>3, <1>4, <1>5

LEMMA Climbing ==
    ASSUME LocksInv, Uphill, [RoutesNext]_routeVars
    PROVE  Uphill'
  <1> USE DEF LocksInv, RouteShape
  <1>1. ASSUME NEW e \in RouteEditors, NEW w \in Work, work' = [work EXCEPT ![e] = w],
               Ascending(w.locks), \A h \in w.held, r \in ToSet(w.locks) : Precedes(h, r)
        PROVE  Uphill'
    BY <1>1 DEF Uphill
  <1>2. ASSUME NEW e \in RouteEditors, NEW kind \in WriteKinds, NEW on \in Rows, NEW t \in Shelf \cup {NoRoute},
               NEW locks \in Seq(Rows), Ascending(locks), Start(e, kind, on, t, locks)
        PROVE  Uphill'
    <2>1. Begun(kind, on, t, locks) \in Work  BY DEF Begun, Work
    <2>2. Begun(kind, on, t, locks).locks = locks /\ Begun(kind, on, t, locks).held = {}  BY DEF Begun
    <2> QED BY <1>1, <1>2, <2>1, <2>2 DEF Start
  <1>3. ASSUME NEW e \in RouteEditors, NEW m \in Shelf, NEW t \in Shelf \cup {NoRoute},
               StartCreate(e, m, t) \/ StartRoute(e, m, t)
        PROVE  Uphill'
    BY <1>2, <1>3, ListsAscend, LockLists DEF StartCreate, StartRoute, Rows, WriteKinds
  <1>4. ASSUME NEW e \in RouteEditors, NEW m \in Shelf, StartEnable(e, m) \/ StartDelete(e, m) PROVE Uphill'
    <2> DEFINE p == OwnerOf[IF entry[m].route = NoRoute THEN m ELSE entry[m].route]
    <2>1. p \in Providers /\ p \in Rows /\ m \in Rows  BY RowFacts DEF Rows
    <2>2. LocksOfEnable(m) = <<p, m>>  BY DEF LocksOfEnable
    <2> HIDE DEF p
    <2>3. /\ <<p, m>> \in Seq(Rows) /\ <<m>> \in Seq(Rows)
          /\ Ascending(<<p, m>>) /\ Ascending(<<m>>)
      BY <2>1, ListsAscend
    <2> QED BY <1>2, <1>4, <2>1, <2>2, <2>3 DEF StartEnable, StartDelete, WriteKinds
  <1>5. ASSUME NEW e \in RouteEditors, NEW p \in owners, NEW kind \in {"provider", "cascade"}, StartProvider(e, p, kind)
        PROVE  Uphill'
    <2>1. p \in Providers /\ p \in Rows /\ kind \in WriteKinds /\ Start(e, kind, p, NoRoute, LocksOfProvider(p))
      BY <1>5 DEF StartProvider, Rows, WriteKinds
    <2>2. LocksOfProvider(p) \in Seq(Rows) /\ Ascending(LocksOfProvider(p))  BY <2>1, ListsAscend, LockLists
    <2> QED BY <1>2, <2>1, <2>2
  <1>6. ASSUME NEW e \in RouteEditors, LockRow(e) PROVE Uphill'
    <2> DEFINE s == work[e].locks
               row == Head(s)
               w == [work[e] EXCEPT !.locks = Tail(@), !.held = @ \cup (IF There(row) THEN {row} ELSE {})]
    <2>1. work[e] \in Work /\ s # << >> /\ s \in Seq(Rows) /\ work' = [work EXCEPT ![e] = w]
      BY <1>6 DEF LockRow, Work
    <2>2. row \in Rows /\ Tail(s) \in Seq(Rows) /\ ToSet(s) = {row} \cup ToSet(Tail(s))  BY <2>1, TailOf
    <2>3. w \in Work /\ w.locks = Tail(s) /\ w.held \subseteq work[e].held \cup {row}
      BY <2>1, <2>2 DEF Work
    <2>4. /\ Len(s) \in Nat \ {0} /\ Len(Tail(s)) = Len(s) - 1 /\ row = s[1]
          /\ \A i \in 1 .. Len(s) - 1 : Tail(s)[i] = s[i + 1]
      BY <2>1
    <2> HIDE DEF w, s
    <2>5. Ascending(s) /\ \A h \in work[e].held, r \in ToSet(s) : Precedes(h, r)  BY DEF Uphill, s
    <2>6. Ascending(Tail(s))  BY <2>4, <2>5 DEF Ascending
    <2>7. ASSUME NEW r \in ToSet(Tail(s)) PROVE Precedes(row, r)
      <3>1. PICK i \in 1 .. Len(s) - 1 : r = Tail(s)[i]  BY <2>2, <2>4 DEF ToSet
      <3>2. r = s[i + 1] /\ 1 \in 1 .. Len(s) /\ i + 1 \in 1 .. Len(s) /\ 1 < i + 1  BY <2>4, <3>1
      <3> QED BY <2>4, <2>5, <3>2 DEF Ascending
    <2>8. \A h \in w.held, r \in ToSet(w.locks) : Precedes(h, r)  BY <2>2, <2>3, <2>5, <2>7
    <2> QED BY <1>1, <2>1, <2>3, <2>6, <2>8
  <1>7. ASSUME NEW e \in RouteEditors, CheckPasses(e) PROVE Uphill'
    <2> DEFINE w == [work[e] EXCEPT !.checked = TRUE]
    <2>1. w \in Work /\ w.locks = work[e].locks /\ w.held = work[e].held  BY DEF Work
    <2>2. work' = [work EXCEPT ![e] = w]  BY <1>7 DEF CheckPasses
    <2> HIDE DEF w
    <2> QED BY <1>1, <2>1, <2>2 DEF Uphill
  <1>8. ASSUME NEW e \in RouteEditors, work' = [work EXCEPT ![e] = NoWork] PROVE Uphill'
    <2>1. NoWork.locks = << >> /\ NoWork.held = {}  BY DEF NoWork, Begun
    <2>2. Ascending(<< >>)  BY DEF Ascending
    <2> QED BY <1>1, <1>8, <2>1, <2>2, NoWorkShape
  <1>9. CASE UNCHANGED routeVars  BY <1>9 DEF Uphill, routeVars
  <1> QED BY <1>3, <1>4, <1>5, <1>6, <1>7, <1>8, <1>9
        DEF RoutesNext, RollBack, WriteRoute, WriteDelete, WriteDeleteProvider, WriteSwitch, Committed

\* A route ends at a model that is there and has no route of its own, so the gateway
\* need follow one hop (model.go:1271); a row is locked by one writer at a time; and no
\* two writers wait for each other (model.go:477).
THEOREM RoutesStanding == RoutesSpec => []RoutesStand
  <1>1. RoutesInit => Uphill
    <2>1. NoWork.locks = << >> /\ NoWork.held = {} /\ Ascending(<< >>)  BY DEF NoWork, Begun, Ascending
    <2> QED BY <2>1 DEF RoutesInit, Uphill
  <1>2. LocksInv /\ [RoutesNext]_routeVars => LocksInv'
    BY Stepping
  <1>3. LocksInv /\ Uphill /\ [RoutesNext]_routeVars => Uphill'
    BY Climbing
  <1>4. LocksInv /\ Uphill => RoutesStand
    <2> SUFFICES ASSUME LocksInv, Uphill PROVE RoutesStand  OBVIOUS
    <2>1. RoutesTypeOK /\ RoutesAreOneHop
      BY DEF LocksInv, RouteShape, Standing, Orderly, Exclusive, RoutesTypeOK, RoutesAreOneHop
    <2>2. ASSUME NEW e \in RouteEditors, NEW f \in RouteEditors, AwaitsRow(e, f), AwaitsRow(f, e) PROVE FALSE
      <3> DEFINE r == Head(work[e].locks)
                 s == Head(work[f].locks)
      <3>1. r \in work[f].held /\ s \in work[e].held  BY <2>2 DEF AwaitsRow
      <3>2. r \in ToSet(work[e].locks) /\ s \in ToSet(work[f].locks)
        BY <2>2, TailOf DEF AwaitsRow, LocksInv, RouteShape, Work
      <3>3. Precedes(s, r) /\ Precedes(r, s)  BY <3>1, <3>2 DEF Uphill
      <3> QED BY <3>3, OneWay
    <2>3. NoCircleOfWaits  BY <2>2 DEF NoCircleOfWaits
    <2> QED BY <2>1, <2>3 DEF RoutesStand
  <1> QED BY <1>1, <1>2, <1>3, <1>4, Initially, PTL DEF RoutesSpec
=============================================================================
