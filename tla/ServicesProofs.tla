--------------------------- MODULE ServicesProofs ---------------------------
(***************************************************************************)
(* What the cached rankings, the request log and the rewards of an inviter *)
(* promise, for any number of readers, editors, entries and invitees.      *)
(*                                                                         *)
(* A ranking's generation stands for the newest announced write: what was  *)
(* built under the generation of now is no older than that write, and so   *)
(* no older than any write its readers had seen announced (SeenStands).    *)
(***************************************************************************)
EXTENDS Rankings, RequestLog, Invites, FiniteSetTheorems, TLAPS

-----------------------------------------------------------------------------
(* Rankings. *)

Rows(n) == {NoAnswer} \cup {Of(v) : v \in 0..n}
AtLeast(a, n) == a.kind = "rows" => a.version >= n

ReaderRow(n) == [at : {"idle", "missed", "keyed", "leading", "queued", "building", "built", "stored",
                       "waiting", "answered"},
                 query : Queries, asked : 0..n, generation : 0..Cardinality(Editors),
                 seen : Rows(n), leader : Readers \cup {NoReader}]
Building == {"leading", "queued", "building", "built", "stored"}
Asking == Building \cup {"keyed", "waiting"}

Committed == {e \in Editors : editor[e].version # 0}
Forgotten == {e \in Editors : editor[e].forgot}

EditorsCounted ==
    /\ editor \in [Editors -> [version : 0..figures, forgot : BOOLEAN]]
    /\ figures \in Nat /\ figures = Cardinality(Committed)
    /\ generation \in Nat /\ generation = Cardinality(Forgotten)
    /\ announced \in 0..figures
CacheStands ==
    /\ cached \in [Queries -> Rows(figures)]
    /\ AtLeast(cached["ranking"], announced)
FlightsStand ==
    /\ flight \in [RankingKeys -> Readers \cup {NoReader}]
    /\ \A r \in Readers : reader[r].at \in Building => flight[Key(r)] = r
    /\ \A k \in RankingKeys : flight[k] \in Readers => reader[flight[k]].at \in Building /\ Key(flight[k]) = k
ReadersTyped ==
    /\ reader \in [Readers -> ReaderRow(figures)]
    /\ answer \in [Readers -> Rows(figures) \cup {Failure}]
ReadersAsked ==
    \A r \in Readers :
        /\ reader[r].asked <= announced /\ reader[r].generation <= generation
        /\ reader[r].at \notin {"built", "stored"} => reader[r].seen = NoAnswer
        /\ reader[r].at # "answered" => answer[r] = NoAnswer
SeenStands ==
    \A r \in Readers : Query(r) = "ranking" =>
        /\ reader[r].generation = generation => AtLeast(reader[r].seen, announced)
        /\ \A s \in Readers : Key(s) = Key(r) /\ reader[s].at \in Asking => AtLeast(reader[r].seen, reader[s].asked)
\* The call a reader waits on goes on under its key, or has an answer for it.
Followed(s, r) ==
    \/ reader[r].at \in Building /\ Key(r) = Key(s)
    \/ reader[r].at = "answered" /\ (Query(s) = "ranking" => AtLeast(answer[r], reader[s].asked))
WaitersStand == \A s \in Readers : reader[s].at = "waiting" => \E r \in Readers : r = reader[s].leader /\ Followed(s, r)

RankingsInv ==
    /\ EditorsCounted /\ CacheStands /\ FlightsStand /\ ReadersTyped /\ ReadersAsked
    /\ SeenStands /\ WaitersStand /\ RankingIsCurrent /\ BuildsBounded

LEMMA AnswerKinds ==
    /\ NoAnswer.kind # "rows" /\ Failure.kind # "rows" /\ Failure # NoAnswer
    /\ \A v : Of(v).kind = "rows" /\ Of(v).version = v /\ Of(v) # NoAnswer
  BY DEF NoAnswer, Failure, Of

LEMMA NothingIsLate == ASSUME NEW n PROVE AtLeast(NoAnswer, n) /\ AtLeast(Failure, n)
  BY AnswerKinds DEF AtLeast

LEMMA RowsGrow == ASSUME NEW n \in Nat, NEW m \in Nat, n <= m PROVE Rows(n) \subseteq Rows(m) /\ ReaderRow(n) \subseteq ReaderRow(m)
  <1>1. 0..n \subseteq 0..m  OBVIOUS
  <1>2. Rows(n) \subseteq Rows(m)  BY <1>1 DEF Rows
  <1> QED  BY <1>1, <1>2 DEF ReaderRow

LEMMA OlderIsLess ==
    ASSUME NEW n \in Nat, NEW a \in Rows(n) \cup {Failure}, NEW k \in Nat, NEW m \in Nat, m <= k, AtLeast(a, k)
    PROVE  AtLeast(a, m)
  <1>1. CASE a = NoAnswer \/ a = Failure  BY <1>1, NothingIsLate
  <1>2. CASE \E v \in 0..n : a = Of(v)
    <2>1. PICK v \in 0..n : a = Of(v)  BY <1>2
    <2>2. a.kind = "rows" /\ a.version = v  BY <2>1, AnswerKinds
    <2> QED  BY <2>2 DEF AtLeast
  <1> QED  BY <1>1, <1>2 DEF Rows

LEMMA FiguresAreRead == ASSUME NEW n \in Nat, NEW m \in Nat, m <= n PROVE Of(n) \in Rows(n) /\ AtLeast(Of(n), m)
  BY AnswerKinds DEF Rows, AtLeast

LEMMA RankingKeyTypes ==
    ASSUME RankingsInv, NEW r \in Readers
    PROVE  Query(r) \in Queries /\ Key(r) \in RankingKeys /\ reader[r].generation \in 0..Cardinality(Editors)
  <1>1. reader[r] \in ReaderRow(figures)  BY DEF RankingsInv, ReadersTyped
  <1>2. reader[r].query \in Queries /\ reader[r].generation \in 0..Cardinality(Editors)  BY <1>1 DEF ReaderRow
  <1> QED  BY <1>2 DEF Query, Key, RankingKeys

LEMMA EditorsBound ==
    ASSUME RankingsInv
    PROVE  /\ figures \in 0..Cardinality(Editors) /\ generation \in 0..Cardinality(Editors) /\ announced \in 0..figures
           /\ 0 \in 0..Cardinality(Editors) /\ 0 <= generation /\ generation <= generation
  <1>1. Cardinality(Editors) \in Nat  BY RankingsAssumption, FS_CardinalityType DEF RankingsAssumption
  <1>2. Committed \in SUBSET Editors /\ Forgotten \in SUBSET Editors  BY DEF Committed, Forgotten
  <1>3. Cardinality(Committed) <= Cardinality(Editors) /\ Cardinality(Forgotten) <= Cardinality(Editors)
    BY <1>2, FS_Subset, RankingsAssumption DEF RankingsAssumption
  <1> QED  BY <1>1, <1>3 DEF RankingsInv, EditorsCounted

\* The holders of a slot may be counted.
LEMMA HoldersFinite == IsFiniteSet(Holding) /\ Cardinality(Holding) \in Nat
  <1>1. Holding \in SUBSET Readers  BY DEF Holding
  <1> QED  BY <1>1, FS_Subset, FS_CardinalityType, RankingsAssumption DEF RankingsAssumption

LEMMA HoldersLeave == ASSUME BuildsBounded, Holding' \subseteq Holding PROVE BuildsBounded'
  <1>1. Cardinality(Holding') <= Cardinality(Holding)  BY HoldersFinite, FS_Subset
  <1>2. IsFiniteSet(Holding')  BY HoldersFinite, FS_Subset
  <1>3. Cardinality(Holding') \in Nat  BY <1>2, FS_CardinalityType
  <1>4. BuildSlots \in Nat  BY RankingsAssumption DEF RankingsAssumption
  <1>5. Cardinality(Holding) \in Nat /\ Cardinality(Holding) <= BuildSlots  BY HoldersFinite DEF BuildsBounded
  <1>6. Cardinality(Holding') <= BuildSlots  BY <1>1, <1>3, <1>4, <1>5
  <1> QED  BY <1>6 DEF BuildsBounded

\* What a reader is about to be: what it has read is of now, or what it was.
LEMMA ReaderMoves ==
    ASSUME RankingsInv, NEW r \in Readers, NEW row \in ReaderRow(figures), reader' = [reader EXCEPT ![r] = row],
           UNCHANGED <<figures, announced, editor, generation>>,
           row.asked <= announced, row.generation <= generation,
           row.at \notin {"built", "stored"} => row.seen = NoAnswer,
           row.query = "ranking" =>
               \/ AtLeast(row.seen, announced)
               \/ /\ row.seen = reader[r].seen /\ row.asked = reader[r].asked
                  /\ row.query = Query(r) /\ row.generation = reader[r].generation,
           row.query = "ranking" /\ row.at \in Asking =>
               \/ row.generation = generation
               \/ /\ reader[r].at \in Asking /\ row.asked = reader[r].asked
                  /\ row.query = Query(r) /\ row.generation = reader[r].generation
    PROVE  /\ SeenStands' /\ reader' \in [Readers -> ReaderRow(figures')]
           /\ \A q \in Readers : /\ reader'[q].asked <= announced' /\ reader'[q].generation <= generation'
                                 /\ reader'[q].at \notin {"built", "stored"} => reader'[q].seen = NoAnswer
  <1>1. reader \in [Readers -> ReaderRow(figures)]  BY DEF RankingsInv, ReadersTyped
  <1>2. \A q \in Readers : reader'[q] = IF q = r THEN row ELSE reader[q]  BY <1>1
  <1>3. reader' \in [Readers -> ReaderRow(figures')]  BY <1>1
  <1>4. \A q \in Readers : /\ reader'[q].asked <= announced' /\ reader'[q].generation <= generation'
                           /\ reader'[q].at \notin {"built", "stored"} => reader'[q].seen = NoAnswer
    BY <1>2 DEF RankingsInv, ReadersAsked
  <1>5. ASSUME NEW q \in Readers, reader'[q].query = "ranking", reader'[q].generation = generation
        PROVE  AtLeast(reader'[q].seen, announced)
    BY <1>2, <1>5 DEF RankingsInv, SeenStands, Query
  <1>6. figures \in Nat /\ announced \in Nat  BY DEF RankingsInv, EditorsCounted
  <1>7. ASSUME NEW q \in Readers, NEW s \in Readers, reader'[q].query = "ranking", reader'[s].query = reader'[q].query,
               reader'[s].generation = reader'[q].generation, reader'[s].at \in Asking
        PROVE  AtLeast(reader'[q].seen, reader'[s].asked)
    <2>1. reader'[q] \in ReaderRow(figures) /\ reader'[s] \in ReaderRow(figures)  BY <1>3
    <2>2. reader'[q].seen \in Rows(figures) /\ reader'[s].asked \in Nat  BY <2>1 DEF ReaderRow
    <2>3. CASE AtLeast(reader'[q].seen, announced)
      <3>1. reader'[s].asked <= announced  BY <1>4
      <3> QED  BY <1>6, <2>2, <2>3, <3>1, OlderIsLess
    <2>4. CASE ~AtLeast(reader'[q].seen, announced)
      <3>1. reader'[q].generation # generation  BY <1>5, <1>7, <2>4
      <3>2. /\ reader'[q].seen = reader[q].seen /\ reader'[q].query = reader[q].query
            /\ reader'[q].generation = reader[q].generation
        BY <1>2, <1>7, <2>4 DEF Query
      <3>3. /\ reader[s].at \in Asking /\ reader'[s].asked = reader[s].asked /\ reader'[s].query = reader[s].query
            /\ reader'[s].generation = reader[s].generation
        BY <1>2, <1>7, <3>1 DEF Query
      <3>4. Query(q) = "ranking" /\ Key(s) = Key(q)  BY <1>7, <3>2, <3>3 DEF Query, Key
      <3> QED  BY <3>2, <3>3, <3>4 DEF RankingsInv, SeenStands
    <2> QED  BY <2>3, <2>4
  <1>8. SeenStands'  BY <1>5, <1>7 DEF SeenStands, Query, Key
  <1> QED  BY <1>3, <1>4, <1>8

-----------------------------------------------------------------------------
(* Writes, and entries that outlive their time. *)

LEMMA FlightsStay == ASSUME FlightsStand, UNCHANGED <<flight, reader>> PROVE FlightsStand'
  BY DEF FlightsStand, Key, Query
LEMMA SlotsStay == ASSUME BuildsBounded, UNCHANGED reader PROVE BuildsBounded'
  BY DEF BuildsBounded, Holding, Query
LEMMA WaitersStay == ASSUME WaitersStand, UNCHANGED <<reader, answer>> PROVE WaitersStand'
  BY DEF WaitersStand, Followed, Key, Query
LEMMA AnswersStay == ASSUME RankingIsCurrent, UNCHANGED <<reader, answer>> PROVE RankingIsCurrent'
  BY DEF RankingIsCurrent, Query
LEMMA EditorsStay == ASSUME EditorsCounted, UNCHANGED <<figures, generation, announced, editor>> PROVE EditorsCounted'
  BY DEF EditorsCounted, Committed, Forgotten

LEMMA CommitStep == ASSUME RankingsInv, NEW e \in Editors, Commit(e) PROVE RankingsInv'
  <1>1. /\ figures \in Nat /\ announced \in 0..figures /\ figures' = figures + 1
        /\ editor[e].version = 0 /\ editor' = [editor EXCEPT ![e].version = figures + 1]
        /\ UNCHANGED <<announced, generation, cached, flight, reader, answer>>
    BY DEF Commit, RankingsInv, EditorsCounted
  <1>2. editor \in [Editors -> [version : 0..figures, forgot : BOOLEAN]]  BY DEF RankingsInv, EditorsCounted
  <1>3. \A d \in Editors : /\ editor'[d].version = IF d = e THEN figures + 1 ELSE editor[d].version
                           /\ editor'[d].forgot = editor[d].forgot
    BY <1>1, <1>2
  <1>4. editor' \in [Editors -> [version : 0..figures', forgot : BOOLEAN]]
    <2>1. 0..figures \subseteq 0..figures' /\ figures + 1 \in 0..figures'  BY <1>1
    <2>2. [version : 0..figures, forgot : BOOLEAN] \subseteq [version : 0..figures', forgot : BOOLEAN]  BY <2>1
    <2>3. [editor[e] EXCEPT !.version = figures + 1] \in [version : 0..figures', forgot : BOOLEAN]  BY <1>2, <2>1
    <2> QED  BY <1>1, <1>2, <2>2, <2>3
  <1>5. EditorsCounted'
    <2>1. Committed' = Committed \cup {e} /\ e \notin Committed  BY <1>1, <1>3 DEF Committed
    <2>2. Forgotten' = Forgotten  BY <1>3 DEF Forgotten
    <2>3. IsFiniteSet(Committed)
      <3>1. Committed \in SUBSET Editors  BY DEF Committed
      <3> QED  BY <3>1, FS_Subset, RankingsAssumption DEF RankingsAssumption
    <2>4. Cardinality(Committed') = Cardinality(Committed) + 1  BY <2>1, <2>3, FS_AddElement
    <2>5. announced' \in 0..figures' /\ figures' \in Nat  BY <1>1
    <2> QED  BY <1>1, <1>4, <2>2, <2>4, <2>5 DEF RankingsInv, EditorsCounted
  <1>6. Rows(figures) \subseteq Rows(figures') /\ ReaderRow(figures) \subseteq ReaderRow(figures')
    <2>1. figures' \in Nat /\ figures <= figures'  BY <1>1
    <2> QED  BY <1>1, <2>1, RowsGrow
  <1>7. CacheStands'  BY <1>1, <1>6 DEF RankingsInv, CacheStands
  <1>8. ReadersTyped'  BY <1>1, <1>6 DEF RankingsInv, ReadersTyped
  <1>9. ReadersAsked' /\ SeenStands'
    BY <1>1 DEF RankingsInv, ReadersAsked, SeenStands, Query, Key
  <1> QED
    BY <1>1, <1>5, <1>7, <1>8, <1>9, FlightsStay, SlotsStay, WaitersStay, AnswersStay DEF RankingsInv

LEMMA ForgetStep == ASSUME RankingsInv, NEW e \in Editors, ForgetRankings(e) PROVE RankingsInv'
  <1>1. /\ figures \in Nat /\ announced \in 0..figures /\ generation' = generation + 1 /\ ~editor[e].forgot
        /\ editor' = [editor EXCEPT ![e].forgot = TRUE]
        /\ announced' = IF editor[e].version > announced THEN editor[e].version ELSE announced
        /\ cached' = [cached EXCEPT !["ranking"] = NoAnswer]
        /\ UNCHANGED <<figures, flight, reader, answer>>
    BY DEF ForgetRankings, RankingsInv, EditorsCounted
  <1>2. editor \in [Editors -> [version : 0..figures, forgot : BOOLEAN]] /\ generation \in Nat
    BY DEF RankingsInv, EditorsCounted
  <1>3. \A d \in Editors : /\ editor'[d].version = editor[d].version
                           /\ editor'[d].forgot = IF d = e THEN TRUE ELSE editor[d].forgot
    BY <1>1, <1>2
  <1>4. announced' \in 0..figures' /\ announced' >= announced
    <2>1. editor[e].version \in 0..figures  BY <1>2
    <2> QED  BY <1>1, <2>1
  <1>5. EditorsCounted'
    <2>1. Forgotten' = Forgotten \cup {e} /\ e \notin Forgotten  BY <1>1, <1>3 DEF Forgotten
    <2>2. Committed' = Committed  BY <1>3 DEF Committed
    <2>3. IsFiniteSet(Forgotten)
      <3>1. Forgotten \in SUBSET Editors  BY DEF Forgotten
      <3> QED  BY <3>1, FS_Subset, RankingsAssumption DEF RankingsAssumption
    <2>4. Cardinality(Forgotten') = Cardinality(Forgotten) + 1  BY <2>1, <2>3, FS_AddElement
    <2>5. editor' \in [Editors -> [version : 0..figures', forgot : BOOLEAN]]  BY <1>1, <1>2
    <2> QED  BY <1>1, <1>2, <1>4, <2>2, <2>4, <2>5 DEF RankingsInv, EditorsCounted
  <1>6. CacheStands'
    <2>1. "ranking" \in Queries  BY DEF Queries
    <2>2. NoAnswer \in Rows(figures)  BY DEF Rows
    <2>3. cached'["ranking"] = NoAnswer /\ cached' \in [Queries -> Rows(figures')]
      BY <1>1, <2>1, <2>2 DEF RankingsInv, CacheStands
    <2> QED  BY <2>3, NothingIsLate DEF CacheStands
  <1>7. \A r \in Readers : /\ reader[r].generation \in Nat /\ reader[r].asked \in Nat
                           /\ reader[r].generation <= generation /\ reader[r].asked <= announced
    <2>1. \A r \in Readers : reader[r] \in ReaderRow(figures)  BY DEF RankingsInv, ReadersTyped
    <2>2. \A r \in Readers : reader[r].generation \in Nat /\ reader[r].asked \in Nat  BY <2>1 DEF ReaderRow
    <2> QED  BY <2>2 DEF RankingsInv, ReadersAsked
  <1>8. \A r \in Readers : /\ reader'[r].generation # generation' /\ reader'[r].generation <= generation'
                           /\ reader'[r].asked <= announced'
    BY <1>1, <1>2, <1>4, <1>7
  <1>9. ReadersAsked'  BY <1>1, <1>8 DEF RankingsInv, ReadersAsked
  <1>10. SeenStands'  BY <1>1, <1>8 DEF RankingsInv, SeenStands, Query, Key
  <1>11. ReadersTyped'  BY <1>1 DEF RankingsInv, ReadersTyped
  <1> QED
    BY <1>1, <1>5, <1>6, <1>9, <1>10, <1>11, FlightsStay, SlotsStay, WaitersStay, AnswersStay DEF RankingsInv

LEMMA ExpireStep == ASSUME RankingsInv, NEW q \in Queries, Expire(q) PROVE RankingsInv'
  <1>1. /\ cached' = [cached EXCEPT ![q] = NoAnswer]
        /\ UNCHANGED <<figures, announced, editor, generation, flight, reader, answer>>
    BY DEF Expire
  <1>2. NoAnswer \in Rows(figures) /\ "ranking" \in Queries  BY DEF Rows, Queries
  <1>3. cached' \in [Queries -> Rows(figures')]  BY <1>1, <1>2 DEF RankingsInv, CacheStands
  <1>4. cached'["ranking"] = cached["ranking"] \/ cached'["ranking"] = NoAnswer
    BY <1>1, <1>2 DEF RankingsInv, CacheStands
  <1>5. CacheStands'  BY <1>1, <1>3, <1>4, NothingIsLate DEF RankingsInv, CacheStands
  <1>6. ReadersTyped' /\ ReadersAsked' /\ SeenStands'
    BY <1>1 DEF RankingsInv, ReadersTyped, ReadersAsked, SeenStands, Query, Key
  <1> QED
    BY <1>1, <1>5, <1>6, EditorsStay, FlightsStay, SlotsStay, WaitersStay, AnswersStay DEF RankingsInv

-----------------------------------------------------------------------------
(* What a move of one reader leaves as it was. *)

LEMMA WaitersMove ==
    ASSUME RankingsInv, NEW r \in Readers, NEW row \in ReaderRow(figures), reader' = [reader EXCEPT ![r] = row],
           reader[r].at # "answered", \A q \in Readers \ {r} : answer'[q] = answer[q],
           row.at = "waiting" =>
               \E l \in Readers \ {r} : /\ l = row.leader /\ reader[l].at \in Building
                                        /\ reader[l].query = row.query /\ reader[l].generation = row.generation,
           reader[r].at \in Building =>
               \/ row.at \in Building /\ row.query = Query(r) /\ row.generation = reader[r].generation
               \/ /\ row.at = "answered"
                  /\ \A s \in Readers : Query(r) = "ranking" /\ Key(s) = Key(r) /\ reader[s].at \in Asking =>
                         AtLeast(answer'[r], reader[s].asked)
    PROVE  WaitersStand'
  <1>1. \A q \in Readers : reader'[q] = IF q = r THEN row ELSE reader[q]  BY DEF RankingsInv, ReadersTyped
  <1>2. ASSUME NEW s \in Readers, reader'[s].at = "waiting"
        PROVE  \E l \in Readers : l = reader'[s].leader /\ Followed(s, l)'
    <2>1. CASE s = r
      <3>1. PICK l \in Readers \ {r} : /\ l = row.leader /\ reader[l].at \in Building
                                        /\ reader[l].query = row.query /\ reader[l].generation = row.generation
        BY <1>1, <1>2, <2>1
      <3> QED  BY <1>1, <2>1, <3>1 DEF Followed, Key, Query
    <2>2. CASE s # r
      <3>1. PICK l \in Readers : l = reader[s].leader /\ Followed(s, l)
        BY <1>1, <1>2, <2>2 DEF RankingsInv, WaitersStand
      <3>2. CASE l # r
        BY <1>1, <2>2, <3>1, <3>2 DEF Followed, Key, Query
      <3>3. CASE l = r
        <4>1. reader[r].at \in Building /\ Key(r) = Key(s)  BY <3>1, <3>3 DEF Followed
        <4>2. CASE row.at \in Building /\ row.query = Query(r) /\ row.generation = reader[r].generation
          <5>1. reader'[r] = row /\ reader'[s] = reader[s]  BY <1>1, <2>2
          <5>2. Followed(s, r)'  BY <4>1, <4>2, <5>1 DEF Followed, Key, Query
          <5> QED  BY <3>1, <3>3, <5>1, <5>2
        <4>3. CASE /\ row.at = "answered"
                   /\ \A t \in Readers : Query(r) = "ranking" /\ Key(t) = Key(r) /\ reader[t].at \in Asking =>
                         AtLeast(answer'[r], reader[t].asked)
          <5>1. reader[s].at \in Asking /\ Query(s) = Query(r)  BY <1>1, <1>2, <2>2, <4>1 DEF Asking, Key
          <5>2. Query(s) = "ranking" => AtLeast(answer'[r], reader[s].asked)  BY <4>1, <4>3, <5>1
          <5>3. reader'[r] = row /\ reader'[s] = reader[s]  BY <1>1, <2>2
          <5>4. Followed(s, r)'  BY <4>3, <5>2, <5>3 DEF Followed, Query
          <5> QED  BY <3>1, <3>3, <5>3, <5>4
        <4> QED  BY <4>1, <4>2, <4>3
      <3> QED  BY <3>2, <3>3
    <2> QED  BY <2>1, <2>2
  <1> QED  BY <1>2 DEF WaitersStand

LEMMA FlightsKept ==
    ASSUME RankingsInv, NEW r \in Readers, NEW row, reader' = [reader EXCEPT ![r] = row], UNCHANGED flight,
           row.at \in Building <=> reader[r].at \in Building,
           row.at \in Building => row.query = Query(r) /\ row.generation = reader[r].generation
    PROVE  FlightsStand'
  <1>1. \A q \in Readers : reader'[q] = IF q = r THEN row ELSE reader[q]  BY DEF RankingsInv, ReadersTyped
  <1> QED  BY <1>1 DEF RankingsInv, FlightsStand, Key, Query

LEMMA HoldersMove ==
    ASSUME RankingsInv, NEW r \in Readers, NEW row, reader' = [reader EXCEPT ![r] = row],
           row.query \in Aggregates /\ row.at \in {"building", "built"} =>
               row.query = Query(r) /\ reader[r].at \in {"building", "built"}
    PROVE  BuildsBounded'
  <1>1. \A q \in Readers : reader'[q] = IF q = r THEN row ELSE reader[q]  BY DEF RankingsInv, ReadersTyped
  <1>2. Holding' \subseteq Holding  BY <1>1 DEF Holding, Query
  <1> QED  BY <1>2, HoldersLeave DEF RankingsInv

\* A build goes on: only where it is, and what it has read, change.
LEMMA BuildGoesOn ==
    ASSUME RankingsInv, NEW r \in Readers, NEW row \in ReaderRow(figures), reader' = [reader EXCEPT ![r] = row],
           UNCHANGED <<figures, announced, editor, generation, flight, answer>>,
           reader[r].at \in Building, row.at \in Building, row.asked = reader[r].asked,
           row.query = Query(r), row.generation = reader[r].generation,
           row.at \notin {"built", "stored"} => row.seen = NoAnswer,
           row.query = "ranking" => AtLeast(row.seen, announced) \/ row.seen = reader[r].seen,
           CacheStands', BuildsBounded'
    PROVE  RankingsInv'
  <1>1. row.asked <= announced /\ row.generation <= generation  BY DEF RankingsInv, ReadersAsked
  <1>2. reader[r].at \in Asking /\ reader[r].at # "answered" /\ row.at # "waiting" /\ row.at # "answered"
    BY DEF Building, Asking
  <1>3. /\ SeenStands' /\ reader' \in [Readers -> ReaderRow(figures')]
        /\ \A q \in Readers : /\ reader'[q].asked <= announced' /\ reader'[q].generation <= generation'
                              /\ reader'[q].at \notin {"built", "stored"} => reader'[q].seen = NoAnswer
    BY <1>1, <1>2, ReaderMoves
  <1>4. \A q \in Readers : reader'[q] = IF q = r THEN row ELSE reader[q]  BY DEF RankingsInv, ReadersTyped
  <1>5. ReadersTyped'  BY <1>3 DEF RankingsInv, ReadersTyped
  <1>6. ReadersAsked'  BY <1>2, <1>3, <1>4 DEF RankingsInv, ReadersAsked
  <1>7. WaitersStand'  BY <1>2, WaitersMove
  <1>8. FlightsStand'  BY FlightsKept
  <1>9. RankingIsCurrent'  BY <1>4 DEF RankingsInv, RankingIsCurrent, Query
  <1> QED  BY <1>3, <1>5, <1>6, <1>7, <1>8, <1>9, EditorsStay DEF RankingsInv

\* A reader that neither built nor builds: it looks, reads the generation, joins, or is answered.
LEMMA OutsiderMoves ==
    ASSUME RankingsInv, NEW r \in Readers, NEW row \in ReaderRow(figures), reader' = [reader EXCEPT ![r] = row],
           UNCHANGED <<figures, announced, editor, generation, flight, cached>>,
           reader[r].at \notin Building \cup {"answered"}, row.at \notin Building,
           row.asked <= announced, row.generation <= generation, row.seen = NoAnswer,
           row.query = "ranking" /\ row.at \in Asking =>
               \/ row.generation = generation
               \/ /\ reader[r].at \in Asking /\ row.asked = reader[r].asked
                  /\ row.query = Query(r) /\ row.generation = reader[r].generation,
           row.at = "waiting" =>
               \E l \in Readers \ {r} : /\ l = row.leader /\ reader[l].at \in Building
                                        /\ reader[l].query = row.query /\ reader[l].generation = row.generation,
           NEW a \in Rows(figures) \cup {Failure}, answer' = [answer EXCEPT ![r] = a],
           row.query = "ranking" => AtLeast(a, row.asked),
           row.at # "answered" => a = NoAnswer
    PROVE  RankingsInv'
  <1>1. \A q \in Readers : reader'[q] = IF q = r THEN row ELSE reader[q]  BY DEF RankingsInv, ReadersTyped
  <1>2. \A q \in Readers : answer'[q] = IF q = r THEN a ELSE answer[q]  BY DEF RankingsInv, ReadersTyped
  <1>3. /\ SeenStands' /\ reader' \in [Readers -> ReaderRow(figures')]
        /\ \A q \in Readers : /\ reader'[q].asked <= announced' /\ reader'[q].generation <= generation'
                              /\ reader'[q].at \notin {"built", "stored"} => reader'[q].seen = NoAnswer
    BY NothingIsLate, ReaderMoves
  <1>4. ReadersTyped'  BY <1>3 DEF RankingsInv, ReadersTyped
  <1>5. ReadersAsked'  BY <1>1, <1>2, <1>3 DEF RankingsInv, ReadersAsked
  <1>6. WaitersStand'
    <2>1. \A q \in Readers \ {r} : answer'[q] = answer[q]  BY <1>2
    <2>2. reader[r].at # "answered" /\ reader[r].at \notin Building  OBVIOUS
    <2> QED  BY <2>1, <2>2, WaitersMove
  <1>7. FlightsStand'  BY FlightsKept
  <1>8. row.at \notin {"building", "built"}  BY DEF Building
  <1>9. BuildsBounded'  BY <1>8, HoldersMove
  <1>10. RankingIsCurrent'  BY <1>1, <1>2 DEF RankingsInv, RankingIsCurrent, Query, AtLeast
  <1>11. CacheStands'  BY DEF RankingsInv, CacheStands
  <1> QED  BY <1>3, <1>4, <1>5, <1>6, <1>7, <1>9, <1>10, <1>11, EditorsStay DEF RankingsInv

-----------------------------------------------------------------------------
(* The steps of a reader. *)

LEMMA LookupStep == ASSUME RankingsInv, NEW r \in Readers, NEW q \in Queries, Lookup(r, q) PROVE RankingsInv'
  <1>1. PICK row : row = [reader[r] EXCEPT !.query = q, !.asked = announced,
                                           !.at = IF cached[q] = NoAnswer THEN "missed" ELSE "answered"]
    OBVIOUS
  <1>2. reader[r] \in ReaderRow(figures) /\ reader[r].at = "idle" /\ reader[r].seen = NoAnswer
    BY DEF Lookup, RankingsInv, ReadersTyped, ReadersAsked
  <1>3. announced \in 0..figures /\ figures \in Nat  BY DEF RankingsInv, EditorsCounted
  <1>4. /\ row \in ReaderRow(figures) /\ row.query = q /\ row.asked = announced /\ row.seen = NoAnswer
        /\ row.generation = reader[r].generation
        /\ row.at = IF cached[q] = NoAnswer THEN "missed" ELSE "answered"
    BY <1>1, <1>2, <1>3 DEF ReaderRow
  <1>5. reader' = [reader EXCEPT ![r] = row]  BY <1>1 DEF Lookup, RankingsInv, ReadersTyped
  <1>6. /\ answer' = [answer EXCEPT ![r] = cached[q]]
        /\ UNCHANGED <<figures, announced, editor, generation, cached, flight>>
    BY DEF Lookup
  <1>7. cached[q] \in Rows(figures) \cup {Failure}  BY DEF RankingsInv, CacheStands
  <1>8. row.query = "ranking" => AtLeast(cached[q], row.asked)  BY <1>4 DEF RankingsInv, CacheStands
  <1>9. row.at \notin Building /\ row.at \notin Asking /\ row.at # "waiting" /\ row.at # "idle"
        /\ reader[r].at \notin Building \cup {"answered"}
    BY <1>2, <1>4 DEF Building, Asking
  <1>10. row.asked <= announced /\ row.generation <= generation  BY <1>3, <1>4 DEF RankingsInv, ReadersAsked
  <1>11. row.at # "answered" => cached[q] = NoAnswer  BY <1>4
  <1> QED  BY <1>4, <1>5, <1>6, <1>7, <1>8, <1>9, <1>10, <1>11, OutsiderMoves

LEMMA ReadGenerationStep == ASSUME RankingsInv, NEW r \in Readers, ReadGeneration(r) PROVE RankingsInv'
  <1>1. PICK g \in {0, generation} : g = IF Query(r) \in Aggregates THEN 0 ELSE generation  OBVIOUS
  <1>2. PICK row : row = [reader[r] EXCEPT !.at = "keyed", !.generation = g]  OBVIOUS
  <1>3. reader[r] \in ReaderRow(figures) /\ reader[r].at = "missed" /\ reader[r].seen = NoAnswer /\ answer[r] = NoAnswer
    BY DEF ReadGeneration, RankingsInv, ReadersTyped, ReadersAsked
  <1>4. generation \in 0..Cardinality(Editors) /\ 0 \in 0..Cardinality(Editors) /\ 0 <= generation /\ generation <= generation
    BY EditorsBound
  <1>5. /\ row \in ReaderRow(figures) /\ row.query = Query(r) /\ row.asked = reader[r].asked /\ row.seen = NoAnswer
        /\ row.generation = g /\ row.at = "keyed"
    BY <1>1, <1>2, <1>3, <1>4 DEF ReaderRow, Query
  <1>6. reader' = [reader EXCEPT ![r] = row]  BY <1>1, <1>2 DEF ReadGeneration, RankingsInv, ReadersTyped
  <1>7. UNCHANGED <<figures, announced, editor, generation, cached, flight, answer>>  BY DEF ReadGeneration
  <1>8. "ranking" \notin Aggregates  BY RankingsAssumption DEF RankingsAssumption
  <1>9. row.query = "ranking" => row.generation = generation  BY <1>1, <1>5, <1>8
  <1>10. answer' = [answer EXCEPT ![r] = NoAnswer]  BY <1>3, <1>7 DEF RankingsInv, ReadersTyped
  <1>11. row.at \notin Building /\ row.at # "waiting" /\ reader[r].at \notin Building \cup {"answered"}
    BY <1>3, <1>5 DEF Building
  <1>12. row.asked <= announced /\ row.generation <= generation
    BY <1>1, <1>4, <1>5 DEF RankingsInv, ReadersAsked
  <1>13. NoAnswer \in Rows(figures) \cup {Failure} /\ AtLeast(NoAnswer, row.asked)  BY NothingIsLate DEF Rows
  <1> QED  BY <1>5, <1>6, <1>7, <1>9, <1>10, <1>11, <1>12, <1>13, OutsiderMoves

LEMMA JoinStep == ASSUME RankingsInv, NEW r \in Readers, Join(r) PROVE RankingsInv'
  <1>1. PICK l \in Readers : l = flight[Key(r)]
    BY RankingKeyTypes DEF Join, RankingsInv, FlightsStand
  <1>2. PICK row : row = [reader[r] EXCEPT !.at = "waiting", !.leader = l]  OBVIOUS
  <1>3. reader[r] \in ReaderRow(figures) /\ reader[r].at = "keyed" /\ reader[r].seen = NoAnswer /\ answer[r] = NoAnswer
    BY DEF Join, RankingsInv, ReadersTyped, ReadersAsked
  <1>4. /\ row \in ReaderRow(figures) /\ row.query = Query(r) /\ row.asked = reader[r].asked /\ row.seen = NoAnswer
        /\ row.generation = reader[r].generation /\ row.at = "waiting" /\ row.leader = l
    BY <1>2, <1>3 DEF ReaderRow, Query
  <1>5. reader' = [reader EXCEPT ![r] = row]  BY <1>1, <1>2 DEF Join, RankingsInv, ReadersTyped
  <1>6. UNCHANGED <<figures, announced, editor, generation, cached, flight, answer>>  BY DEF Join
  <1>7. answer' = [answer EXCEPT ![r] = NoAnswer]  BY <1>3, <1>6 DEF RankingsInv, ReadersTyped
  <1>8. reader[l].at \in Building /\ Key(l) = Key(r)  BY <1>1, RankingKeyTypes DEF RankingsInv, FlightsStand
  <1>9. l # r /\ reader[l].query = row.query /\ reader[l].generation = row.generation
    BY <1>3, <1>4, <1>8 DEF Key, Query, Building
  <1>10. row.at \notin Building /\ reader[r].at \notin Building \cup {"answered"} /\ reader[r].at \in Asking
    BY <1>3, <1>4 DEF Building, Asking
  <1>11. row.asked <= announced /\ row.generation <= generation  BY <1>4 DEF RankingsInv, ReadersAsked
  <1>12. NoAnswer \in Rows(figures) \cup {Failure} /\ AtLeast(NoAnswer, row.asked)  BY NothingIsLate DEF Rows
  <1> QED  BY <1>4, <1>5, <1>6, <1>7, <1>8, <1>9, <1>10, <1>11, <1>12, OutsiderMoves

LEMMA WakeStep == ASSUME RankingsInv, NEW r \in Readers, Wake(r) PROVE RankingsInv'
  <1>1. PICK l \in Readers : l = reader[r].leader /\ Followed(r, l)
    BY DEF Wake, RankingsInv, WaitersStand
  <1>2. PICK row : row = Outside("answered", Query(r), reader[r].asked)  OBVIOUS
  <1>3. reader[r] \in ReaderRow(figures) /\ reader[r].at = "waiting"  BY DEF Wake, RankingsInv, ReadersTyped
  <1>4. 0 \in 0..Cardinality(Editors) /\ 0 <= generation  BY EditorsBound
  <1>5. /\ row.query = Query(r) /\ row.asked = reader[r].asked /\ row.seen = NoAnswer /\ row.generation = 0 /\ row.at = "answered"
        /\ row \in ReaderRow(figures)
    BY <1>2, <1>3, <1>4 DEF ReaderRow, Outside, Query, Rows
  <1>6. /\ reader' = [reader EXCEPT ![r] = row] /\ answer' = [answer EXCEPT ![r] = answer[l]] /\ answer[l] # NoAnswer
        /\ UNCHANGED <<figures, announced, editor, generation, cached, flight>>
    BY <1>1, <1>2 DEF Wake, Return
  <1>7. reader[l].at = "answered"  BY <1>6 DEF RankingsInv, ReadersAsked
  <1>8. Query(r) = "ranking" => AtLeast(answer[l], reader[r].asked)  BY <1>1, <1>7 DEF Followed, Building
  <1>9. row.at \notin Building /\ row.at \notin Asking /\ row.at # "waiting" /\ reader[r].at \notin Building \cup {"answered"}
    BY <1>3, <1>5 DEF Building, Asking
  <1>10. row.asked <= announced /\ row.generation <= generation  BY <1>4, <1>5 DEF RankingsInv, ReadersAsked
  <1>11. answer[l] \in Rows(figures) \cup {Failure}  BY DEF RankingsInv, ReadersTyped
  <1> QED  BY <1>5, <1>6, <1>8, <1>9, <1>10, <1>11, OutsiderMoves

LEMMA LeadStep == ASSUME RankingsInv, NEW r \in Readers, Lead(r) PROVE RankingsInv'
  <1>1. PICK row : row = [reader[r] EXCEPT !.at = "leading"]  OBVIOUS
  <1>2. reader[r] \in ReaderRow(figures) /\ reader[r].at = "keyed" /\ reader[r].seen = NoAnswer /\ answer[r] = NoAnswer
    BY DEF Lead, RankingsInv, ReadersTyped, ReadersAsked
  <1>3. /\ row \in ReaderRow(figures) /\ row.query = Query(r) /\ row.asked = reader[r].asked /\ row.seen = NoAnswer
        /\ row.generation = reader[r].generation /\ row.at = "leading"
    BY <1>1, <1>2 DEF ReaderRow, Query
  <1>4. /\ reader' = [reader EXCEPT ![r] = row] /\ flight' = [flight EXCEPT ![Key(r)] = r] /\ flight[Key(r)] = NoReader
        /\ UNCHANGED <<figures, announced, editor, generation, cached, answer>>
    BY <1>1 DEF Lead, Move, RankingsInv, ReadersTyped
  <1>5. reader[r].at \in Asking /\ reader[r].at \notin Building \cup {"answered"} /\ row.at \in Building /\ row.at # "waiting"
        /\ row.at # "answered" /\ row.at \notin {"building", "built"}
    BY <1>2, <1>3 DEF Asking, Building
  <1>6. row.asked <= announced /\ row.generation <= generation  BY <1>3 DEF RankingsInv, ReadersAsked
  <1>7. AtLeast(row.seen, announced)  BY <1>3, NothingIsLate
  <1>8. /\ SeenStands' /\ reader' \in [Readers -> ReaderRow(figures')]
        /\ \A q \in Readers : /\ reader'[q].asked <= announced' /\ reader'[q].generation <= generation'
                              /\ reader'[q].at \notin {"built", "stored"} => reader'[q].seen = NoAnswer
    BY <1>3, <1>4, <1>5, <1>6, <1>7, ReaderMoves
  <1>9. \A q \in Readers : reader'[q] = IF q = r THEN row ELSE reader[q]  BY <1>4 DEF RankingsInv, ReadersTyped
  <1>10. FlightsStand'
    <2>1. NoReader \notin Readers  BY RankingsAssumption DEF RankingsAssumption, NoReader
    <2>2. Key(r) \in RankingKeys /\ flight \in [RankingKeys -> Readers \cup {NoReader}]
      BY RankingKeyTypes DEF RankingsInv, FlightsStand
    <2>3. \A k \in RankingKeys : flight'[k] = IF k = Key(r) THEN r ELSE flight[k]  BY <1>4, <2>2
    <2>4. \A q \in Readers : <<reader'[q].query, reader'[q].generation>> = Key(q)
      BY <1>3, <1>9 DEF Key, Query
    <2>5. flight' \in [RankingKeys -> Readers \cup {NoReader}]  BY <1>4, <2>2
    <2>6. ASSUME NEW q \in Readers, reader'[q].at \in Building PROVE flight'[Key(q)] = q
      <3>1. CASE q = r  BY <2>2, <2>3, <3>1
      <3>2. CASE q # r
        <4>1. flight[Key(q)] = q  BY <1>9, <2>6, <3>2 DEF RankingsInv, FlightsStand
        <4>2. Key(q) # Key(r) /\ Key(q) \in RankingKeys  BY <1>4, <2>1, <4>1, RankingKeyTypes
        <4> QED  BY <2>3, <4>1, <4>2
      <3> QED  BY <3>1, <3>2
    <2>7. ASSUME NEW k \in RankingKeys, flight'[k] \in Readers
          PROVE  reader'[flight'[k]].at \in Building /\ Key(flight'[k]) = k
      <3>1. CASE k = Key(r)  BY <1>5, <1>9, <2>3, <3>1
      <3>2. CASE k # Key(r)
        <4>1. flight'[k] = flight[k] /\ flight[k] \in Readers  BY <2>3, <2>7, <3>2
        <4>2. reader[flight[k]].at \in Building /\ Key(flight[k]) = k  BY <4>1 DEF RankingsInv, FlightsStand
        <4> QED  BY <1>5, <1>9, <4>1, <4>2
      <3> QED  BY <3>1, <3>2
    <2> QED  BY <2>4, <2>5, <2>6, <2>7 DEF FlightsStand, Key, Query
  <1>11. WaitersStand'  BY <1>3, <1>4, <1>5, WaitersMove
  <1>12. BuildsBounded'  BY <1>4, <1>5, HoldersMove
  <1>13. ReadersTyped' /\ ReadersAsked' /\ CacheStands' /\ RankingIsCurrent'
    <2>1. ReadersTyped'  BY <1>4, <1>8 DEF RankingsInv, ReadersTyped
    <2>2. ReadersAsked'  BY <1>2, <1>4, <1>8, <1>9 DEF RankingsInv, ReadersAsked
    <2>3. RankingIsCurrent'  BY <1>3, <1>4, <1>9 DEF RankingsInv, RankingIsCurrent, Query
    <2> QED  BY <1>4, <2>1, <2>2, <2>3 DEF RankingsInv, CacheStands
  <1> QED  BY <1>4, <1>8, <1>10, <1>11, <1>12, <1>13, EditorsStay DEF RankingsInv

LEMMA LookupAgainStep == ASSUME RankingsInv, NEW r \in Readers, LookupAgain(r) PROVE RankingsInv'
  <1>1. PICK to \in {"stored", "queued", "building"} :
            to = IF cached[Query(r)] # NoAnswer THEN "stored" ELSE IF Query(r) \in Aggregates THEN "queued" ELSE "building"
    OBVIOUS
  <1>2. PICK row : row = [reader[r] EXCEPT !.seen = cached[Query(r)], !.at = to]  OBVIOUS
  <1>3. reader[r] \in ReaderRow(figures) /\ reader[r].at = "leading" /\ cached[Query(r)] \in Rows(figures)
    BY RankingKeyTypes DEF LookupAgain, RankingsInv, ReadersTyped, CacheStands
  <1>4. /\ row \in ReaderRow(figures) /\ row.query = Query(r) /\ row.asked = reader[r].asked
        /\ row.seen = cached[Query(r)] /\ row.generation = reader[r].generation /\ row.at = to
    BY <1>1, <1>2, <1>3 DEF ReaderRow, Query
  <1>5. /\ reader' = [reader EXCEPT ![r] = row]
        /\ UNCHANGED <<figures, announced, editor, generation, cached, flight, answer>>
    BY <1>1, <1>2 DEF LookupAgain, RankingsInv, ReadersTyped
  <1>6. reader[r].at \in Building /\ row.at \in Building /\ (row.at \notin {"built", "stored"} => row.seen = NoAnswer)
    BY <1>1, <1>3, <1>4 DEF Building
  <1>7. ASSUME Query(r) = "ranking" PROVE AtLeast(row.seen, announced)
    BY <1>4, <1>7 DEF RankingsInv, CacheStands
  <1>8. row.query \in Aggregates => row.at \notin {"building", "built"}  BY <1>1, <1>4
  <1>9. BuildsBounded'  BY <1>5, <1>8, HoldersMove
  <1>10. CacheStands'  BY <1>5 DEF RankingsInv, CacheStands
  <1> QED  BY <1>4, <1>5, <1>6, <1>7, <1>9, <1>10, BuildGoesOn

LEMMA AcquireStep == ASSUME RankingsInv, NEW r \in Readers, AcquireSlot(r) PROVE RankingsInv'
  <1>1. PICK row : row = [reader[r] EXCEPT !.at = "building"]  OBVIOUS
  <1>2. reader[r] \in ReaderRow(figures) /\ reader[r].at = "queued" /\ reader[r].seen = NoAnswer
    BY DEF AcquireSlot, RankingsInv, ReadersTyped, ReadersAsked
  <1>3. /\ row \in ReaderRow(figures) /\ row.query = Query(r) /\ row.asked = reader[r].asked
        /\ row.seen = NoAnswer /\ row.generation = reader[r].generation /\ row.at = "building"
    BY <1>1, <1>2 DEF ReaderRow, Query
  <1>4. /\ reader' = [reader EXCEPT ![r] = row] /\ Cardinality(Holding) < BuildSlots
        /\ UNCHANGED <<figures, announced, editor, generation, cached, flight, answer>>
    BY <1>1 DEF AcquireSlot, Move, RankingsInv, ReadersTyped
  <1>5. reader[r].at \in Building /\ row.at \in Building  BY <1>2, <1>3 DEF Building
  <1>6. BuildsBounded'
    <2>1. \A q \in Readers : reader'[q] = IF q = r THEN row ELSE reader[q]
      BY <1>4 DEF RankingsInv, ReadersTyped
    <2>2. Holding' \in SUBSET (Holding \cup {r})  BY <2>1 DEF Holding, Query
    <2>3. IsFiniteSet(Holding \cup {r}) /\ Cardinality(Holding \cup {r}) <= Cardinality(Holding) + 1
      BY SMTT(60), HoldersFinite, FS_AddElement
    <2>4. Cardinality(Holding') <= Cardinality(Holding \cup {r}) /\ IsFiniteSet(Holding')  BY <2>2, <2>3, FS_Subset
    <2>5. Cardinality(Holding') \in Nat /\ Cardinality(Holding \cup {r}) \in Nat  BY <2>3, <2>4, FS_CardinalityType
    <2>6. BuildSlots \in Nat  BY RankingsAssumption DEF RankingsAssumption
    <2>7. Cardinality(Holding') <= BuildSlots  BY <1>4, <2>3, <2>4, <2>5, <2>6, HoldersFinite
    <2> QED  BY <2>7 DEF BuildsBounded
  <1>7. CacheStands'  BY <1>4 DEF RankingsInv, CacheStands
  <1> QED  BY <1>2, <1>3, <1>4, <1>5, <1>6, <1>7, BuildGoesOn

LEMMA ReadStep == ASSUME RankingsInv, NEW r \in Readers, Read(r) PROVE RankingsInv'
  <1>1. PICK row : row = [reader[r] EXCEPT !.at = "built", !.seen = Of(figures)]  OBVIOUS
  <1>2. reader[r] \in ReaderRow(figures) /\ reader[r].at = "building"  BY DEF Read, RankingsInv, ReadersTyped
  <1>3. Of(figures) \in Rows(figures) /\ AtLeast(Of(figures), announced)
    BY FiguresAreRead DEF RankingsInv, EditorsCounted
  <1>4. /\ row \in ReaderRow(figures) /\ row.query = Query(r) /\ row.asked = reader[r].asked
        /\ row.seen = Of(figures) /\ row.generation = reader[r].generation /\ row.at = "built"
    BY <1>1, <1>2, <1>3 DEF ReaderRow, Query
  <1>5. /\ reader' = [reader EXCEPT ![r] = row]
        /\ UNCHANGED <<figures, announced, editor, generation, cached, flight, answer>>
    BY <1>1 DEF Read, RankingsInv, ReadersTyped
  <1>6. reader[r].at \in Building /\ row.at \in Building  BY <1>2, <1>4 DEF Building
  <1>7. BuildsBounded'  BY <1>2, <1>4, <1>5, HoldersMove
  <1>8. CacheStands'  BY <1>5 DEF RankingsInv, CacheStands
  <1> QED  BY <1>3, <1>4, <1>5, <1>6, <1>7, <1>8, BuildGoesOn

LEMMA StoreStep == ASSUME RankingsInv, NEW r \in Readers, Store(r) PROVE RankingsInv'
  <1>1. PICK row : row = [reader[r] EXCEPT !.at = "stored"]  OBVIOUS
  <1>2. reader[r] \in ReaderRow(figures) /\ reader[r].at = "built"  BY DEF Store, RankingsInv, ReadersTyped
  <1>3. /\ row \in ReaderRow(figures) /\ row.query = Query(r) /\ row.asked = reader[r].asked
        /\ row.seen = reader[r].seen /\ row.generation = reader[r].generation /\ row.at = "stored"
    BY <1>1, <1>2 DEF ReaderRow, Query
  <1>4. /\ reader' = [reader EXCEPT ![r] = row]
        /\ UNCHANGED <<figures, announced, editor, generation, flight, answer>>
    BY <1>1 DEF Store, Move, RankingsInv, ReadersTyped
  <1>5. reader[r].at \in Building /\ row.at \in Building  BY <1>2, <1>3 DEF Building
  <1>6. BuildsBounded'  BY <1>3, <1>4, HoldersMove
  <1>7. CacheStands'
    <2>1. CASE cached' = cached  BY <1>4, <2>1 DEF RankingsInv, CacheStands
    <2>2. CASE /\ Query(r) \in Aggregates \/ reader[r].generation = generation
               /\ cached' = [cached EXCEPT ![Query(r)] = reader[r].seen]
      <3>1. reader[r].seen \in Rows(figures) /\ Query(r) \in Queries /\ "ranking" \in Queries
        BY <1>2, RankingKeyTypes DEF ReaderRow, Queries
      <3>2. cached' \in [Queries -> Rows(figures')] /\ cached'["ranking"] =
              IF Query(r) = "ranking" THEN reader[r].seen ELSE cached["ranking"]
        BY <1>4, <2>2, <3>1 DEF RankingsInv, CacheStands
      <3>3. "ranking" \notin Aggregates  BY RankingsAssumption DEF RankingsAssumption
      <3>4. Query(r) = "ranking" => AtLeast(reader[r].seen, announced)
        BY <2>2, <3>3 DEF RankingsInv, SeenStands
      <3> QED  BY <1>4, <3>2, <3>4 DEF RankingsInv, CacheStands
    <2> QED  BY <2>1, <2>2 DEF Store
  <1> QED  BY <1>3, <1>4, <1>5, <1>6, <1>7, BuildGoesOn

\* A call that ends has an answer for all who wait on it.
LEMMA EndStep ==
    ASSUME RankingsInv, NEW r \in Readers, reader[r].at \in Building, NEW a \in Rows(figures) \cup {Failure},
           a = reader[r].seen \/ a = Failure, End(r, a)
    PROVE  RankingsInv'
  <1>1. PICK row : row = Outside("answered", Query(r), reader[r].asked)  OBVIOUS
  <1>2. reader[r] \in ReaderRow(figures)  BY DEF RankingsInv, ReadersTyped
  <1>3. 0 \in 0..Cardinality(Editors) /\ 0 <= generation  BY EditorsBound
  <1>4. /\ row.query = Query(r) /\ row.asked = reader[r].asked /\ row.seen = NoAnswer /\ row.generation = 0 /\ row.at = "answered"
        /\ row \in ReaderRow(figures)
    BY <1>1, <1>2, <1>3 DEF ReaderRow, Outside, Query, Rows
  <1>5. /\ reader' = [reader EXCEPT ![r] = row] /\ answer' = [answer EXCEPT ![r] = a]
        /\ UNCHANGED <<figures, announced, editor, generation, cached>>
    BY <1>1 DEF End, Return
  <1>6. flight[Key(r)] = r /\ Key(r) \in RankingKeys /\ flight \in [RankingKeys -> Readers \cup {NoReader}]
    BY RankingKeyTypes DEF RankingsInv, FlightsStand
  <1>7. flight' = [flight EXCEPT ![Key(r)] = NoReader]  BY <1>6 DEF End
  <1>8. row.at \notin Building /\ row.at \notin Asking /\ row.at # "waiting" /\ reader[r].at # "answered"
        /\ row.at \notin {"building", "built", "stored"} /\ reader[r].at \in Asking
    BY <1>4 DEF Building, Asking
  <1>9. row.asked <= announced /\ row.generation <= generation  BY <1>3, <1>4 DEF RankingsInv, ReadersAsked
  <1>10. AtLeast(row.seen, announced)  BY <1>4, NothingIsLate
  <1>11. /\ SeenStands' /\ reader' \in [Readers -> ReaderRow(figures')]
         /\ \A q \in Readers : /\ reader'[q].asked <= announced' /\ reader'[q].generation <= generation'
                               /\ reader'[q].at \notin {"built", "stored"} => reader'[q].seen = NoAnswer
    BY <1>4, <1>5, <1>8, <1>9, <1>10, ReaderMoves
  <1>12. \A q \in Readers : reader'[q] = IF q = r THEN row ELSE reader[q]  BY <1>5 DEF RankingsInv, ReadersTyped
  <1>13. \A q \in Readers : answer'[q] = IF q = r THEN a ELSE answer[q]  BY <1>5 DEF RankingsInv, ReadersTyped
  <1>14. \A s \in Readers : Query(r) = "ranking" /\ Key(s) = Key(r) /\ reader[s].at \in Asking => AtLeast(a, reader[s].asked)
    BY NothingIsLate DEF RankingsInv, SeenStands
  <1>15. WaitersStand'
    <2>1. answer'[r] = a /\ \A q \in Readers \ {r} : answer'[q] = answer[q]  BY <1>13
    <2>2. \A s \in Readers : Query(r) = "ranking" /\ Key(s) = Key(r) /\ reader[s].at \in Asking => AtLeast(answer'[r], reader[s].asked)
      BY <1>14, <2>1
    <2>3. row \in ReaderRow(figures) /\ reader' = [reader EXCEPT ![r] = row] /\ reader[r].at # "answered"
      BY <1>4, <1>5, <1>8
    <2>4. row.at = "answered" /\ row.at # "waiting"  BY <1>4, <1>8
    <2> QED  BY <2>1, <2>2, <2>3, <2>4, WaitersMove
  <1>16. FlightsStand'
    <2>1. NoReader \notin Readers  BY RankingsAssumption DEF RankingsAssumption, NoReader
    <2>2. \A k \in RankingKeys : flight'[k] = IF k = Key(r) THEN NoReader ELSE flight[k]  BY <1>6, <1>7
    <2>3. flight' \in [RankingKeys -> Readers \cup {NoReader}]  BY <1>6, <1>7
    <2>4. ASSUME NEW q \in Readers, reader'[q].at \in Building
          PROVE  q # r /\ Key(q) # Key(r) /\ flight'[Key(q)] = q /\ Key(q) = <<reader'[q].query, reader'[q].generation>>
      <3>1. q # r /\ reader'[q] = reader[q]  BY <1>8, <1>12, <2>4
      <3>2. flight[Key(q)] = q /\ Key(q) \in RankingKeys  BY <2>4, <3>1, RankingKeyTypes DEF RankingsInv, FlightsStand
      <3> QED  BY <1>6, <2>2, <3>1, <3>2 DEF Key, Query
    <2>5. ASSUME NEW k \in RankingKeys, flight'[k] \in Readers
          PROVE  reader'[flight'[k]].at \in Building /\ <<reader'[flight'[k]].query, reader'[flight'[k]].generation>> = k
      <3>1. k # Key(r) /\ flight'[k] = flight[k] /\ flight[k] \in Readers  BY <2>1, <2>2, <2>5
      <3>2. reader[flight[k]].at \in Building /\ Key(flight[k]) = k  BY <3>1 DEF RankingsInv, FlightsStand
      <3>3. reader'[flight[k]] = reader[flight[k]]  BY <1>12, <3>1, <3>2
      <3> QED  BY <3>1, <3>2, <3>3 DEF Key, Query
    <2> QED  BY <2>3, <2>4, <2>5 DEF FlightsStand, Key, Query
  <1>17. BuildsBounded'  BY <1>4, <1>5, <1>8, HoldersMove
  <1>18. ReadersTyped' /\ ReadersAsked' /\ CacheStands' /\ RankingIsCurrent'
    <2>1. ReadersTyped'  BY <1>5, <1>11 DEF RankingsInv, ReadersTyped
    <2>2. ReadersAsked'  BY <1>4, <1>11, <1>12, <1>13 DEF RankingsInv, ReadersAsked
    <2>3. Query(r) = "ranking" => AtLeast(a, reader[r].asked)  BY <1>8, <1>14
    <2>4. RankingIsCurrent'  BY <1>4, <1>12, <1>13, <2>3 DEF RankingsInv, RankingIsCurrent, Query, AtLeast
    <2> QED  BY <1>5, <2>1, <2>2, <2>4 DEF RankingsInv, CacheStands
  <1> QED  BY <1>5, <1>11, <1>15, <1>16, <1>17, <1>18, EditorsStay DEF RankingsInv

LEMMA RankingsStart == RankingsInit => RankingsInv
  <1> SUFFICES ASSUME RankingsInit PROVE RankingsInv
    OBVIOUS
  <1>1. /\ figures = 0 /\ announced = 0 /\ editor = [e \in Editors |-> [version |-> 0, forgot |-> FALSE]]
        /\ generation = 0 /\ cached = [q \in Queries |-> NoAnswer] /\ flight = [k \in RankingKeys |-> NoReader]
        /\ reader = [r \in Readers |-> IdleReader] /\ answer = [r \in Readers |-> NoAnswer]
    BY DEF RankingsInit
  <1>2. EditorsCounted
    <2>1. Committed = {} /\ Forgotten = {}  BY <1>1 DEF Committed, Forgotten
    <2> QED  BY <1>1, <2>1, FS_EmptySet DEF EditorsCounted
  <1>3. NoAnswer \in Rows(figures) /\ "ranking" \in Queries  BY DEF Rows, Queries
  <1>4. CacheStands  BY <1>1, <1>3, NothingIsLate DEF CacheStands
  <1>5. 0 \in 0..Cardinality(Editors)
    <2>1. Cardinality(Editors) \in Nat  BY RankingsAssumption, FS_CardinalityType DEF RankingsAssumption
    <2> QED  BY <2>1
  <1>6. /\ IdleReader.at = "idle" /\ IdleReader.asked = 0 /\ IdleReader.generation = 0 /\ IdleReader.seen = NoAnswer
        /\ IdleReader \in ReaderRow(figures)
    BY <1>1, <1>3, <1>5 DEF IdleReader, Outside, ReaderRow
  <1>7. NoReader \notin Readers  BY RankingsAssumption DEF RankingsAssumption, NoReader
  <1>8. FlightsStand  BY <1>1, <1>6, <1>7 DEF FlightsStand, Building
  <1>9. ReadersTyped /\ ReadersAsked  BY <1>1, <1>3, <1>6 DEF ReadersTyped, ReadersAsked
  <1>10. SeenStands /\ WaitersStand  BY <1>1, <1>6, NothingIsLate DEF SeenStands, WaitersStand
  <1>11. RankingIsCurrent  BY <1>1, AnswerKinds DEF RankingIsCurrent
  <1>12. BuildsBounded
    <2>1. Holding = {}  BY <1>1, <1>6 DEF Holding
    <2>2. BuildSlots \in Nat  BY RankingsAssumption DEF RankingsAssumption
    <2>3. 0 <= BuildSlots /\ Cardinality(Holding) = 0  BY <2>1, <2>2, FS_EmptySet
    <2> QED  BY <2>3 DEF BuildsBounded
  <1> QED  BY <1>2, <1>4, <1>8, <1>9, <1>10, <1>11, <1>12 DEF RankingsInv

LEMMA RankingsStep == RankingsInv /\ [RankingsNext]_rankingVars => RankingsInv'
  <1> SUFFICES ASSUME RankingsInv, [RankingsNext]_rankingVars PROVE RankingsInv'
    OBVIOUS
  <1>1. ASSUME NEW e \in Editors, Commit(e) \/ ForgetRankings(e) PROVE RankingsInv'  BY <1>1, CommitStep, ForgetStep
  <1>2. ASSUME NEW q \in Queries, Expire(q) PROVE RankingsInv'  BY <1>2, ExpireStep
  <1>3. ASSUME NEW r \in Readers, NEW q \in Queries, Lookup(r, q) PROVE RankingsInv'  BY <1>3, LookupStep
  <1>4. ASSUME NEW r \in Readers, FinishBuild(r) PROVE RankingsInv'
    <2>1. reader[r].at \in Building  BY <1>4 DEF FinishBuild, Building
    <2>2. reader[r].seen \in Rows(figures) \cup {Failure}  BY DEF RankingsInv, ReadersTyped, ReaderRow
    <2> QED  BY <1>4, <2>1, <2>2, EndStep DEF FinishBuild
  <1>5. ASSUME NEW r \in Readers, FailBuild(r) PROVE RankingsInv'
    <2>1. reader[r].at \in Building  BY <1>5 DEF FailBuild, Building
    <2> QED  BY <1>5, <2>1, EndStep DEF FailBuild
  <1>6. ASSUME NEW r \in Readers, Advance(r) PROVE RankingsInv'
    BY <1>4, <1>5, <1>6, ReadGenerationStep, JoinStep, LeadStep, LookupAgainStep, AcquireStep, ReadStep, StoreStep, WakeStep
    DEF Advance
  <1>7. CASE UNCHANGED rankingVars
    BY <1>7, EditorsStay, FlightsStay, SlotsStay, WaitersStay, AnswersStay
    DEF rankingVars, RankingsInv, CacheStands, ReadersTyped, ReadersAsked, SeenStands, Key, Query
  <1> QED  BY Zenon, <1>1, <1>2, <1>3, <1>6, <1>7 DEF RankingsNext

(* Neither what a reader is given nor what is cached is older than a write    *)
(* that was announced when it asked, one build a key runs at a time, and no    *)
(* more of them read the ledger than there are slots (admin/allowances.go:141, *)
(* 190, admin/usage.go:270, flight/flight.go).                                 *)
THEOREM RankingsSound == RankingsSpec => []RankingsHold
  <1>1. RankingsInv => RankingsHold
    <2> SUFFICES ASSUME RankingsInv PROVE RankingsHold
      OBVIOUS
    <2>1. RankingsTypeOK
      BY EditorsBound
      DEF RankingsTypeOK, RankingsInv, EditorsCounted, CacheStands, FlightsStand, ReadersTyped, ReaderRow, Rows
    <2>2. CacheIsCurrent  BY DEF RankingsInv, CacheStands, CacheIsCurrent, AtLeast
    <2>3. OneBuildPerKey  BY DEF RankingsInv, FlightsStand, OneBuildPerKey, Building
    <2> QED  BY <2>1, <2>2, <2>3 DEF RankingsInv, RankingsHold
  <1> QED  BY <1>1, RankingsStart, RankingsStep, PTL DEF RankingsSpec

-----------------------------------------------------------------------------
(* The request log. An entry is in one place at a time: with its request,   *)
(* in the queue, in the batch or in the table, or it is counted as gone.    *)
(* Each write has at least one entry of its own. When an orderly stop lets  *)
(* the loop drain no request is left, so what it leaves empty stays empty.  *)

Distinct(s) == \A i, j \in DOMAIN s : s[i] = s[j] => i = j
Gap == (Entries \ open) \ (stored \cup pruned \cup Range(queue) \cup Range(batch))
Unwritten == IF loop \in Writing THEN 0 ELSE Len(batch)

LogTyped ==
    /\ open \subseteq Entries /\ stored \subseteq Entries \ open /\ pruned \subseteq Entries \ open
    /\ queue \in Seq(Entries) /\ batch \in Seq(Entries)
    /\ dropped \in Nat /\ evicted \in Nat /\ writes \in Nat
    /\ loop \in {"receiving", "draining", "returned"} \cup Writing
    /\ doomed \in BOOLEAN /\ cut \in BOOLEAN
    /\ stage \in {"serving", "closing", "waiting", "failed", "closed"}
    /\ reported \in {"nothing", "stopped", "abandoned"}
OnePlace ==
    /\ Distinct(queue) /\ Distinct(batch)
    /\ Range(queue) \cap (open \cup stored) = {} /\ Range(batch) \cap (open \cup stored) = {}
    /\ Range(queue) \cap Range(batch) = {}
    /\ pruned \cap (stored \cup Range(queue) \cup Range(batch)) = {}
LogSized ==
    /\ Len(queue) <= BufferSize /\ Len(batch) <= BatchSize
    /\ loop \in {"receiving", "draining"} => Len(batch) < BatchSize
    /\ loop \in Writing => batch # <<>>
    /\ loop = "returned" => batch = <<>>
LogCounted == GapsCounted /\ writes + Cardinality(open) + Len(queue) + Unwritten <= Cardinality(Entries)
LogStops ==
    /\ stage \in {"serving", "closing"} => loop \in {"receiving", "writing"}
    /\ stage = "waiting" /\ ~cut => open = {} /\ (loop \in {"writingLast", "returned"} => queue = <<>>)
    /\ reported = "stopped" => stage = "closed"
    /\ StoppedIsDrained
LogInv == LogTyped /\ OnePlace /\ LogSized /\ LogCounted /\ LogStops

LEMMA LogConstants ==
    /\ BufferSize \in Nat /\ BatchSize \in Nat /\ BatchSize >= 1 /\ MaxStored \in Nat /\ IsFiniteSet(Entries)
    /\ \A e \in Entries : At[e] \in Nat
  BY RequestLogAssumption DEF RequestLogAssumption

LEMMA RangeIn == ASSUME NEW S, NEW s \in Seq(S) PROVE Range(s) \subseteq S /\ Range(s) = {s[i] : i \in 1..Len(s)}
  BY DEF Range

LEMMA RangeAppend ==
    ASSUME NEW S, NEW s \in Seq(S), NEW e \in S
    PROVE  /\ Append(s, e) \in Seq(S) /\ Len(Append(s, e)) = Len(s) + 1 /\ Append(s, e) # <<>>
           /\ Range(Append(s, e)) = Range(s) \cup {e}
           /\ Distinct(s) /\ e \notin Range(s) => Distinct(Append(s, e))
  <1>1. Append(s, e) \in Seq(S) /\ Len(Append(s, e)) = Len(s) + 1 /\ Append(s, e) # <<>>
    <2>1. Append(s, e) \in Seq(S) /\ Len(Append(s, e)) = Len(s) + 1 /\ Len(s) \in Nat  OBVIOUS
    <2>2. Len(Append(s, e)) # Len(<<>>)  BY <2>1
    <2> QED  BY <2>1, <2>2
  <1>2. \A i \in 1..(Len(s) + 1) : Append(s, e)[i] = IF i = Len(s) + 1 THEN e ELSE s[i]  OBVIOUS
  <1>3. Len(s) \in Nat /\ DOMAIN s = 1..Len(s) /\ DOMAIN Append(s, e) = 1..(Len(s) + 1)  BY <1>1
  <1>4. Range(Append(s, e)) = Range(s) \cup {e}
    <2>1. ASSUME NEW x \in Range(Append(s, e)) PROVE x \in Range(s) \cup {e}
      BY <1>2, <1>3, <2>1 DEF Range
    <2>2. e \in Range(Append(s, e))
      <3>1. Len(s) + 1 \in 1..(Len(s) + 1) /\ Append(s, e)[Len(s) + 1] = e  BY <1>2, <1>3
      <3> QED  BY <1>3, <3>1 DEF Range
    <2>3. ASSUME NEW x \in Range(s) PROVE x \in Range(Append(s, e))
      <3>1. PICK i \in 1..Len(s) : s[i] = x  BY <1>3, <2>3 DEF Range
      <3>2. i \in 1..(Len(s) + 1) /\ Append(s, e)[i] = x  BY <1>2, <1>3, <3>1
      <3> QED  BY <1>3, <3>2 DEF Range
    <2> QED  BY <2>1, <2>2, <2>3
  <1>5. ASSUME Distinct(s), e \notin Range(s) PROVE Distinct(Append(s, e))
    <2>1. \A i \in 1..Len(s) : s[i] # e  BY <1>3, <1>5 DEF Range
    <2>2. \A i, j \in 1..Len(s) : s[i] = s[j] => i = j  BY <1>3, <1>5 DEF Distinct
    <2>3. \A i, j \in 1..(Len(s) + 1) : Append(s, e)[i] = Append(s, e)[j] => i = j
      BY <1>2, <1>3, <2>1, <2>2
    <2> QED  BY <1>3, <2>3 DEF Distinct
  <1> QED  BY <1>1, <1>4, <1>5

LEMMA RangeTail ==
    ASSUME NEW S, NEW s \in Seq(S), s # <<>>
    PROVE  /\ Head(s) \in S /\ Tail(s) \in Seq(S) /\ Len(Tail(s)) = Len(s) - 1 /\ Len(s) \in Nat \ {0}
           /\ Range(s) = Range(Tail(s)) \cup {Head(s)}
           /\ Distinct(s) => Distinct(Tail(s)) /\ Head(s) \notin Range(Tail(s))
  <1>1. Head(s) \in S /\ Tail(s) \in Seq(S) /\ Len(Tail(s)) = Len(s) - 1 /\ Len(s) \in Nat \ {0} /\ Head(s) = s[1]
    OBVIOUS
  <1>2. \A i \in 1..(Len(s) - 1) : Tail(s)[i] = s[i + 1]  BY <1>1
  <1>3. DOMAIN s = 1..Len(s) /\ DOMAIN Tail(s) = 1..(Len(s) - 1)  BY <1>1
  <1>4. Range(s) = Range(Tail(s)) \cup {Head(s)}
    <2>1. ASSUME NEW x \in Range(s) PROVE x \in Range(Tail(s)) \cup {Head(s)}
      <3>1. PICK i \in 1..Len(s) : s[i] = x  BY <1>3, <2>1 DEF Range
      <3>2. CASE i = 1  BY <1>1, <3>1, <3>2
      <3>3. CASE i # 1
        <4>1. i - 1 \in 1..(Len(s) - 1) /\ Tail(s)[i - 1] = x  BY <1>1, <1>2, <3>1, <3>3
        <4> QED  BY <1>3, <4>1 DEF Range
      <3> QED  BY <3>2, <3>3
    <2>2. Head(s) \in Range(s)  BY <1>1, <1>3 DEF Range
    <2>3. ASSUME NEW x \in Range(Tail(s)) PROVE x \in Range(s)
      <3>1. PICK i \in 1..(Len(s) - 1) : Tail(s)[i] = x  BY <1>3, <2>3 DEF Range
      <3>2. i + 1 \in 1..Len(s) /\ s[i + 1] = x  BY <1>1, <1>2, <3>1
      <3> QED  BY <1>3, <3>2 DEF Range
    <2> QED  BY <2>1, <2>2, <2>3
  <1>5. ASSUME Distinct(s) PROVE Distinct(Tail(s)) /\ Head(s) \notin Range(Tail(s))
    <2>1. \A i, j \in 1..Len(s) : s[i] = s[j] => i = j  BY <1>3, <1>5 DEF Distinct
    <2>2. \A i \in 1..(Len(s) - 1) : i + 1 \in 1..Len(s) /\ i + 1 # 1  BY <1>1
    <2>3. \A i \in 1..(Len(s) - 1) : Tail(s)[i] # Head(s)
      <3>1. 1 \in 1..Len(s)  BY <1>1
      <3> QED  BY <1>1, <1>2, <2>1, <2>2, <3>1
    <2>4. \A i, j \in 1..(Len(s) - 1) : Tail(s)[i] = Tail(s)[j] => i = j
      <3>1. ASSUME NEW i \in 1..(Len(s) - 1), NEW j \in 1..(Len(s) - 1), Tail(s)[i] = Tail(s)[j] PROVE i = j
        <4>1. i + 1 = j + 1  BY <1>2, <2>1, <2>2, <3>1
        <4> QED  BY <4>1
      <3> QED  BY <3>1
    <2> QED  BY <1>3, <2>3, <2>4 DEF Distinct, Range
  <1> QED  BY <1>1, <1>4, <1>5

LEMMA RangeSize ==
    ASSUME NEW S, NEW s \in Seq(S), Distinct(s)
    PROVE  IsFiniteSet(Range(s)) /\ Cardinality(Range(s)) = Len(s)
  <1>1. Len(s) \in Nat /\ DOMAIN s = 1..Len(s)  OBVIOUS
  <1>2. IsFiniteSet(1..Len(s)) /\ Cardinality(1..Len(s)) = Len(s)  BY SMTT(30), <1>1, FS_Interval
  <1>3. s \in Bijection(1..Len(s), Range(s))
    <2>1. s \in [1..Len(s) -> Range(s)]  BY <1>1 DEF Range
    <2>2. \A i, j \in 1..Len(s) : s[i] = s[j] => i = j  BY <1>1 DEF Distinct
    <2>3. \A x \in Range(s) : \E i \in 1..Len(s) : s[i] = x  BY <1>1 DEF Range
    <2> QED  BY <2>1, <2>2, <2>3 DEF Bijection, Injection, Surjection, IsInjective
  <1>4. ExistsBijection(1..Len(s), Range(s))  BY <1>3 DEF ExistsBijection
  <1> QED  BY <1>2, <1>4, FS_Bijection

LEMMA RangeOfNothing == Range(<<>>) = {} /\ Distinct(<<>>) /\ Len(<<>>) = 0
  BY DEF Range, Distinct

LEMMA PartsFinite == ASSUME LogTyped PROVE IsFiniteSet(open) /\ IsFiniteSet(stored) /\ IsFiniteSet(Gap)
  <1>1. open \in SUBSET Entries /\ stored \in SUBSET Entries /\ Gap \in SUBSET Entries  BY DEF LogTyped, Gap
  <1> QED  BY <1>1, LogConstants, FS_Subset

\* What is gone is gone from one place, and counted.
LEMMA GapGrows ==
    ASSUME LogTyped, GapsCounted, NEW T \in SUBSET Entries, T \cap Gap = {}, Gap' = Gap \cup T,
           dropped' + evicted' = dropped + evicted + Cardinality(T)
    PROVE  GapsCounted'
  <1>1. IsFiniteSet(T) /\ IsFiniteSet(Gap)  BY PartsFinite, LogConstants, FS_Subset
  <1>2. Cardinality(Gap \cup T) = Cardinality(Gap) + Cardinality(T)
    <2>1. Gap \cap T = {}  OBVIOUS
    <2>2. Cardinality(Gap) \in Nat /\ Cardinality(T) \in Nat  BY <1>1, FS_CardinalityType
    <2> QED  BY <1>1, <2>1, <2>2, FS_Union, FS_EmptySet
  <1>3. Cardinality(Gap) = dropped + evicted  BY DEF GapsCounted, Gap
  <1>4. Cardinality(Gap') = dropped' + evicted'  BY <1>2, <1>3
  <1> QED  BY <1>4 DEF GapsCounted, Gap

LEMMA GapKept == ASSUME GapsCounted, Gap' = Gap, dropped' + evicted' = dropped + evicted PROVE GapsCounted'
  <1>1. Cardinality(Gap') = dropped' + evicted'  BY DEF GapsCounted, Gap
  <1> QED  BY <1>1 DEF GapsCounted, Gap

-----------------------------------------------------------------------------
(* The steps of the log. *)

LEMMA AfterWrites ==
    ASSUME loop \in Writing
    PROVE  AfterWrite = IF loop = "writing" THEN "receiving" ELSE IF loop = "writingDrained" THEN "draining" ELSE "returned"
  BY DEF AfterWrite, Writing

\* Sizes are numbers.
LEMMA LogNumbers ==
    ASSUME LogTyped
    PROVE  /\ Cardinality(open) \in Nat /\ Cardinality(Entries) \in Nat /\ Len(queue) \in Nat /\ Len(batch) \in Nat
           /\ writes \in Nat /\ dropped \in Nat /\ evicted \in Nat
  <1>1. Cardinality(open) \in Nat /\ Cardinality(Entries) \in Nat
    BY PartsFinite, LogConstants, FS_CardinalityType
  <1> QED  BY <1>1 DEF LogTyped

\* While the process is alive it has not said that it stopped.
LEMMA NotYetStopped == ASSUME LogStops, Alive PROVE reported # "stopped"
  BY DEF LogStops, Alive

LEMMA RecordStep == ASSUME LogInv, NEW e \in Entries, Record(e) PROVE LogInv'
  <1>1. /\ Alive /\ e \in open /\ open' = open \ {e}
        /\ UNCHANGED <<pruned, batch, stored, evicted, writes, loop, doomed, stage, cut, reported>>
    BY DEF Record
  <1>2. /\ LogTyped /\ open \subseteq Entries /\ stored \subseteq Entries \ open /\ pruned \subseteq Entries \ open
        /\ queue \in Seq(Entries) /\ batch \in Seq(Entries) /\ OnePlace
    BY DEF LogInv, LogTyped
  <1>3. e \notin Range(queue) /\ e \notin Range(batch) /\ e \notin stored \cup pruned  BY <1>1, <1>2 DEF OnePlace
  <1>4. Cardinality(open') = Cardinality(open) - 1 /\ IsFiniteSet(open)
    BY <1>1, <1>2, PartsFinite, FS_RemoveElement
  <1>5. reported # "stopped" /\ (stage = "waiting" /\ ~cut => FALSE)
    BY <1>1, NotYetStopped DEF LogInv, LogStops
  <1>6. CASE Len(queue) < BufferSize /\ queue' = Append(queue, e) /\ UNCHANGED dropped
    <2>1. /\ queue' \in Seq(Entries) /\ Len(queue') = Len(queue) + 1 /\ Range(queue') = Range(queue) \cup {e}
          /\ Distinct(queue')
      BY <1>2, <1>3, <1>6, RangeAppend DEF OnePlace
    <2>2. LogTyped'  BY <1>1, <1>2, <1>6, <2>1 DEF LogTyped
    <2>3. OnePlace'  BY <1>1, <1>2, <1>3, <2>1 DEF OnePlace
    <2>4. Gap' = Gap  BY <1>1, <1>2, <1>3, <2>1 DEF Gap
    <2>5. GapsCounted'  BY <1>1, <1>6, <2>4, GapKept DEF LogInv, LogCounted
    <2>6. writes' + Cardinality(open') + Len(queue') + Unwritten' <= Cardinality(Entries)
      BY <1>1, <1>2, <1>4, <2>1, LogNumbers DEF LogInv, LogCounted, Unwritten
    <2>7. LogSized'
      <3>1. Len(queue') <= BufferSize  BY <1>2, <1>6, <2>1, LogConstants, LogNumbers
      <3> QED  BY <1>1, <3>1 DEF LogInv, LogSized
    <2>8. LogStops'  BY <1>1, <1>5 DEF LogInv, LogStops, StoppedIsDrained
    <2> QED  BY <2>2, <2>3, <2>5, <2>6, <2>7, <2>8 DEF LogInv, LogCounted
  <1>7. CASE dropped' = dropped + 1 /\ UNCHANGED queue
    <2>1. LogTyped'  BY <1>1, <1>2, <1>7 DEF LogTyped
    <2>2. OnePlace'  BY <1>1, <1>2, <1>3, <1>7 DEF OnePlace
    <2>3. Gap' = Gap \cup {e} /\ {e} \cap Gap = {} /\ {e} \in SUBSET Entries
      BY <1>1, <1>2, <1>3, <1>7 DEF Gap
    <2>4. dropped' + evicted' = dropped + evicted + Cardinality({e})
      <3>1. Cardinality({e}) = 1  BY FS_Singleton
      <3> QED  BY <1>1, <1>2, <1>7, <3>1, LogNumbers
    <2>5. GapsCounted'  BY <1>2, <2>3, <2>4, GapGrows DEF LogInv, LogCounted
    <2>6. writes' + Cardinality(open') + Len(queue') + Unwritten' <= Cardinality(Entries)
      BY SMTT(30), <1>1, <1>2, <1>4, <1>7, LogNumbers DEF LogInv, LogCounted, Unwritten
    <2>7. LogSized'  BY <1>1, <1>7 DEF LogInv, LogSized
    <2>8. LogStops'  BY <1>1, <1>5 DEF LogInv, LogStops, StoppedIsDrained
    <2> QED  BY <2>1, <2>2, <2>5, <2>6, <2>7, <2>8 DEF LogInv, LogCounted
  <1> QED  BY <1>6, <1>7 DEF Record

\* The loop takes an entry from the queue into its batch.
LEMMA EntryTaken ==
    ASSUME LogInv, queue # <<>>, loop \in {"receiving", "draining"}, batch' = Append(batch, Head(queue)),
           queue' = Tail(queue), UNCHANGED <<pruned, open, stored, dropped, evicted, stage, cut, reported>>,
           reported # "stopped", NEW to \in {"writing", "writingDrained"},
           loop = "receiving" <=> to = "writing", loop' = loop \/ loop' = to,
           IF Len(batch') >= BatchSize THEN BeginWrite(to) ELSE UNCHANGED <<loop, doomed, writes>>
    PROVE  LogInv'
  <1>1. /\ LogTyped /\ OnePlace /\ queue \in Seq(Entries) /\ batch \in Seq(Entries)  BY DEF LogInv, LogTyped
  <1>2. /\ Head(queue) \in Entries /\ queue' \in Seq(Entries) /\ Len(queue') = Len(queue) - 1 /\ Len(queue) >= 1
        /\ Range(queue) = Range(queue') \cup {Head(queue)} /\ Distinct(queue') /\ Head(queue) \notin Range(queue')
    <2>1. /\ Head(queue) \in Entries /\ Tail(queue) \in Seq(Entries) /\ Len(Tail(queue)) = Len(queue) - 1
          /\ Len(queue) \in Nat \ {0} /\ Range(queue) = Range(Tail(queue)) \cup {Head(queue)}
          /\ Distinct(queue) => Distinct(Tail(queue)) /\ Head(queue) \notin Range(Tail(queue))
      BY <1>1, RangeTail
    <2>2. Distinct(queue)  BY <1>1 DEF OnePlace
    <2> QED  BY <2>1, <2>2
  <1>3. Head(queue) \notin Range(batch)  BY <1>1, <1>2 DEF OnePlace
  <1>4. /\ batch' \in Seq(Entries) /\ Len(batch') = Len(batch) + 1 /\ batch' # <<>>
        /\ Range(batch') = Range(batch) \cup {Head(queue)} /\ Distinct(batch')
    <2>1. Distinct(batch)  BY <1>1 DEF OnePlace
    <2> QED  BY <1>1, <1>2, <1>3, <2>1, RangeAppend
  <1>5. OnePlace'  BY <1>1, <1>2, <1>4 DEF OnePlace
  <1>6. Gap' = Gap  BY <1>2, <1>4 DEF Gap
  <1>7. GapsCounted'  BY <1>6, GapKept DEF LogInv, LogCounted
  <1>8. /\ Len(queue) \in Nat /\ Len(batch) \in Nat /\ writes \in Nat /\ Len(queue) <= BufferSize /\ Len(batch) < BatchSize
    BY <1>1, LogNumbers DEF LogInv, LogSized
  <1>9. loop \notin Writing /\ to \in Writing  BY DEF Writing
  <1>10. writes + Cardinality(open) + Len(queue) + Len(batch) <= Cardinality(Entries)
    <2>1. Unwritten = Len(batch)  BY <1>9 DEF Unwritten
    <2> QED  BY <2>1 DEF LogInv, LogCounted
  <1>11. Len(queue') <= BufferSize /\ Len(batch') <= BatchSize  BY <1>2, <1>4, <1>8, LogConstants
  <1>12. CASE Len(batch') >= BatchSize
    <2>1. loop' = to /\ writes' = writes + 1 /\ doomed' \in BOOLEAN  BY <1>12 DEF BeginWrite
    <2>2. loop' \in Writing /\ loop' \notin {"receiving", "draining", "returned", "writingLast"}  BY <1>9, <2>1
    <2>3. LogTyped'  BY <1>1, <1>2, <1>4, <2>1, <2>2 DEF LogTyped
    <2>4. LogSized'  BY <1>4, <1>11, <2>2 DEF LogSized
    <2>5. writes' + Cardinality(open') + Len(queue') + Unwritten' <= Cardinality(Entries)
      <3>1. Unwritten' = 0  BY <2>2 DEF Unwritten
      <3> QED  BY <1>1, <1>2, <1>8, <1>10, <2>1, <3>1, LogNumbers
    <2>6. LogStops'  BY <2>1, <2>2 DEF LogInv, LogStops, StoppedIsDrained
    <2> QED  BY <1>5, <1>7, <2>3, <2>4, <2>5, <2>6 DEF LogInv, LogCounted
  <1>13. CASE ~(Len(batch') >= BatchSize)
    <2>1. UNCHANGED <<loop, doomed, writes>>  BY <1>13
    <2>2. LogTyped'  BY <1>1, <1>2, <1>4, <2>1 DEF LogTyped
    <2>3. Len(batch') < BatchSize  BY <1>4, <1>8, <1>13, LogConstants
    <2>4. LogSized'  BY <1>4, <1>9, <1>11, <2>1, <2>3 DEF LogSized
    <2>5. writes' + Cardinality(open') + Len(queue') + Unwritten' <= Cardinality(Entries)
      <3>1. Unwritten' = Len(batch) + 1  BY <1>4, <1>9, <2>1 DEF Unwritten
      <3> QED  BY <1>1, <1>2, <1>8, <1>10, <2>1, <3>1, LogNumbers
    <2>6. LogStops'  BY <2>1 DEF LogInv, LogStops, StoppedIsDrained
    <2> QED  BY <1>5, <1>7, <2>2, <2>4, <2>5, <2>6 DEF LogInv, LogCounted
  <1> QED  BY <1>12, <1>13

LEMMA ReceiveStep == ASSUME LogInv, Receive PROVE LogInv'
  <1>1. reported # "stopped"  BY NotYetStopped DEF Receive, LogInv
  <1> QED  BY <1>1, EntryTaken DEF Receive, BeginWrite

LEMMA DrainOneStep == ASSUME LogInv, DrainOne PROVE LogInv'
  <1>1. reported # "stopped"  BY NotYetStopped DEF DrainOne, LogInv
  <1> QED  BY <1>1, EntryTaken DEF DrainOne, BeginWrite

\* A batch is handed over with what it holds.
LEMMA WriteBegins ==
    ASSUME LogInv, reported # "stopped", loop \in {"receiving", "draining"}, batch # <<>>,
           NEW to \in {"writing", "writingLast"}, BeginWrite(to),
           loop = "receiving" <=> to = "writing", to = "writingLast" => queue = <<>>,
           UNCHANGED <<pruned, open, queue, batch, stored, dropped, evicted, stage, cut, reported>>
    PROVE  LogInv'
  <1>1. loop' = to /\ writes' = writes + 1 /\ doomed' \in BOOLEAN  BY DEF BeginWrite
  <1>2. loop' \in Writing /\ loop' \notin {"receiving", "draining", "returned"} /\ loop \notin Writing  BY <1>1 DEF Writing
  <1>3. LogTyped /\ batch \in Seq(Entries)  BY DEF LogInv, LogTyped
  <1>4. LogTyped'  BY <1>1, <1>2, <1>3 DEF LogTyped
  <1>5. LogSized'  BY <1>2 DEF LogInv, LogSized
  <1>6. writes' + Cardinality(open') + Len(queue') + Unwritten' <= Cardinality(Entries)
    <2>1. Unwritten' = 0 /\ Unwritten = Len(batch) /\ Len(batch) >= 1
      <3>1. Len(batch) \in Nat \ {0}  BY <1>3, RangeTail
      <3> QED  BY <1>2, <3>1 DEF Unwritten
    <2>2. writes + Cardinality(open) + Len(queue) + Len(batch) <= Cardinality(Entries)
      BY <2>1 DEF LogInv, LogCounted
    <2> QED  BY SMTT(60), <1>1, <1>3, <2>1, <2>2, LogNumbers
  <1>7. OnePlace' /\ GapsCounted'  BY DEF LogInv, OnePlace, LogCounted, GapsCounted
  <1>8. LogStops'  BY <1>1 DEF LogInv, LogStops, StoppedIsDrained
  <1> QED  BY <1>4, <1>5, <1>6, <1>7, <1>8 DEF LogInv, LogCounted

LEMMA LogTickStep == ASSUME LogInv, LogTick PROVE LogInv'
  <1>1. reported # "stopped"  BY NotYetStopped DEF LogTick, LogInv
  <1> QED  BY <1>1, WriteBegins DEF LogTick

\* Only the loop moves, and not to a write.
LEMMA LoopMoves ==
    ASSUME LogInv, reported # "stopped", UNCHANGED <<pruned, open, queue, batch, stored, dropped, evicted, writes, doomed, stage, cut, reported>>,
           \/ loop = "receiving" /\ Cancelled /\ loop' = "draining"
           \/ loop = "draining" /\ queue = <<>> /\ batch = <<>> /\ loop' = "returned"
    PROVE  LogInv'
  <1>1. loop \notin Writing /\ loop' \notin Writing  BY DEF Writing
  <1>2. LogTyped'  BY DEF LogInv, LogTyped
  <1>3. LogSized'  BY <1>1 DEF LogInv, LogSized
  <1>4. LogCounted'  BY <1>1 DEF LogInv, LogCounted, GapsCounted, Unwritten
  <1>5. LogStops'  BY DEF LogInv, LogStops, StoppedIsDrained, Cancelled
  <1> QED  BY <1>2, <1>3, <1>4, <1>5 DEF LogInv, OnePlace

LEMMA BeginDrainStep == ASSUME LogInv, BeginDrain PROVE LogInv'
  <1>1. reported # "stopped"  BY NotYetStopped DEF BeginDrain, LogInv
  <1> QED  BY <1>1, LoopMoves DEF BeginDrain

LEMMA DrainEndStep == ASSUME LogInv, DrainEnd PROVE LogInv'
  <1>1. reported # "stopped"  BY NotYetStopped DEF DrainEnd, LogInv
  <1>2. CASE batch = <<>>  BY <1>1, <1>2, LoopMoves DEF DrainEnd
  <1>3. CASE batch # <<>>  BY <1>1, <1>3, WriteBegins DEF DrainEnd
  <1> QED  BY <1>2, <1>3

LEMMA BeyondIsOfTheRows == ASSUME NEW rows PROVE Beyond(rows) \subseteq rows
  BY DEF Beyond

\* A write ends, whatever becomes of its batch.
LEMMA WriteEnds ==
    ASSUME LogInv, loop \in Writing, reported # "stopped", batch' = <<>>, loop' = AfterWrite,
           stored' \subseteq stored \cup Range(batch), dropped' \in Nat, evicted' \in Nat,
           GapsCounted', UNCHANGED <<pruned, open, queue, writes, doomed, stage, cut, reported>>
    PROVE  LogInv'
  <1>1. /\ LogTyped /\ OnePlace /\ Range(batch) \subseteq Entries \ open
    <2>1. LogTyped /\ OnePlace /\ batch \in Seq(Entries)  BY DEF LogInv, LogTyped
    <2> QED  BY <2>1, RangeIn DEF OnePlace
  <1>2. loop' = IF loop = "writing" THEN "receiving" ELSE IF loop = "writingDrained" THEN "draining" ELSE "returned"
    BY AfterWrites
  <1>3. loop' \in {"receiving", "draining", "returned"} /\ loop' \notin Writing  BY <1>2 DEF Writing
  <1>4. <<>> \in Seq(Entries) /\ Range(<<>>) = {} /\ Distinct(<<>>) /\ Len(<<>>) = 0  BY RangeOfNothing
  <1>5. stored' \subseteq Entries \ open  BY <1>1 DEF LogTyped
  <1>6. LogTyped'  BY <1>1, <1>3, <1>4, <1>5 DEF LogTyped
  <1>7. OnePlace'  BY <1>1, <1>4 DEF OnePlace
  <1>8. LogSized'
    <2>1. 0 <= BatchSize /\ 0 < BatchSize  BY LogConstants
    <2> QED  BY <1>3, <1>4, <2>1 DEF LogInv, LogSized
  <1>9. writes' + Cardinality(open') + Len(queue') + Unwritten' <= Cardinality(Entries)
    BY <1>3, <1>4 DEF LogInv, LogCounted, Unwritten
  <1>10. LogStops'  BY <1>2 DEF LogInv, LogStops, StoppedIsDrained, Writing
  <1> QED  BY <1>6, <1>7, <1>8, <1>9, <1>10 DEF LogInv, LogCounted

LEMMA WriteSucceedsStep == ASSUME LogInv, WriteSucceeds PROVE LogInv'
  <1> DEFINE rows == stored \cup Range(batch)
             gone == IF writes % TrimEvery = 1 THEN Beyond(rows) ELSE {}
  <1>1. /\ loop \in Writing /\ stored' = rows \ gone /\ evicted' = evicted + Cardinality(gone) /\ batch' = <<>>
        /\ loop' = AfterWrite /\ UNCHANGED <<pruned, open, queue, dropped, writes, doomed, stage, cut, reported>>
    BY DEF WriteSucceeds
  <1>2. reported # "stopped"  BY NotYetStopped DEF WriteSucceeds, LogInv
  <1>3. PICK T \in SUBSET rows : T = gone  BY BeyondIsOfTheRows
  <1> HIDE DEF gone
  <1>4. LogTyped /\ OnePlace /\ batch \in Seq(Entries) /\ GapsCounted  BY DEF LogInv, LogTyped, LogCounted
  <1>5. rows \subseteq Entries \ open /\ (pruned \cup Range(queue)) \cap rows = {}
    BY <1>4, RangeIn DEF LogTyped, OnePlace
  <1>6. Range(batch') = {}  BY <1>1, RangeOfNothing
  <1>7. Gap' = Gap \cup T /\ T \cap Gap = {} /\ T \in SUBSET Entries
    BY <1>1, <1>3, <1>5, <1>6 DEF Gap
  <1>8. Cardinality(T) \in Nat  BY <1>7, LogConstants, FS_Subset, FS_CardinalityType
  <1>9. dropped' + evicted' = dropped + evicted + Cardinality(T) /\ dropped' \in Nat /\ evicted' \in Nat
    BY <1>1, <1>3, <1>4, <1>8, LogNumbers
  <1>10. GapsCounted'  BY <1>4, <1>7, <1>9, GapGrows
  <1>11. stored' \subseteq stored \cup Range(batch)  BY <1>1
  <1> QED  BY <1>1, <1>2, <1>9, <1>10, <1>11, WriteEnds

LEMMA WriteFailsStep == ASSUME LogInv, WriteFails PROVE LogInv'
  <1>1. /\ loop \in Writing /\ dropped' = dropped + Len(batch) /\ batch' = <<>> /\ loop' = AfterWrite
        /\ UNCHANGED <<pruned, open, queue, stored, evicted, writes, doomed, stage, cut, reported>>
    BY DEF WriteFails
  <1>2. reported # "stopped"  BY NotYetStopped DEF WriteFails, LogInv
  <1>3. LogTyped /\ OnePlace /\ batch \in Seq(Entries) /\ GapsCounted  BY DEF LogInv, LogTyped, LogCounted
  <1>4. Cardinality(Range(batch)) = Len(batch)
    <2>1. Distinct(batch)  BY <1>3 DEF OnePlace
    <2> QED  BY <1>3, <2>1, RangeSize
  <1>5. Range(batch') = {}  BY <1>1, RangeOfNothing
  <1>6. Gap' = Gap \cup Range(batch) /\ Range(batch) \cap Gap = {} /\ Range(batch) \in SUBSET Entries
    BY <1>1, <1>3, <1>5, RangeIn DEF Gap, OnePlace
  <1>7. dropped' + evicted' = dropped + evicted + Cardinality(Range(batch)) /\ dropped' \in Nat /\ evicted' \in Nat
    BY <1>1, <1>3, <1>4, LogNumbers
  <1>8. GapsCounted'  BY <1>3, <1>6, <1>7, GapGrows
  <1>9. stored' \subseteq stored \cup Range(batch)  BY <1>1
  <1> QED  BY <1>1, <1>2, <1>7, <1>8, <1>9, WriteEnds

\* Rows go from the table by their age, and no counter moves.
LEMMA PruneStep == ASSUME LogInv, PruneEntries PROVE LogInv'
  <1>1. PICK old \in SUBSET stored : stored' = stored \ old /\ pruned' = pruned \cup old  BY DEF PruneEntries
  <1>2. UNCHANGED <<open, queue, batch, dropped, evicted, writes, loop, doomed, stage, cut, reported>>
    BY DEF PruneEntries
  <1>3. LogTyped'  BY <1>1, <1>2 DEF LogInv, LogTyped
  <1>4. OnePlace'  BY <1>1, <1>2 DEF LogInv, OnePlace
  <1>5. LogSized' /\ LogStops'  BY <1>2 DEF LogInv, LogSized, LogStops, StoppedIsDrained
  <1>6. Gap' = Gap  BY <1>1, <1>2 DEF Gap
  <1>7. GapsCounted'  BY <1>2, <1>6, GapKept DEF LogInv, LogCounted
  <1>8. LogCounted'  BY <1>2, <1>7 DEF LogInv, LogCounted, Unwritten
  <1> QED  BY <1>3, <1>4, <1>5, <1>8 DEF LogInv

\* The process moves, and the log stands.
LEMMA LogStands ==
    ASSUME LogInv, UNCHANGED <<pruned, open, queue, batch, stored, dropped, evicted, writes, loop, doomed>>,
           cut' \in BOOLEAN, stage' \in {"serving", "closing", "waiting", "failed", "closed"},
           reported' \in {"nothing", "stopped", "abandoned"}, LogStops'
    PROVE  LogInv'
  <1>1. LogTyped'  BY DEF LogInv, LogTyped
  <1>2. LogSized' /\ OnePlace'  BY DEF LogInv, LogSized, OnePlace
  <1>3. LogCounted'  BY DEF LogInv, LogCounted, GapsCounted, Unwritten
  <1> QED  BY <1>1, <1>2, <1>3 DEF LogInv

LEMMA ProcessStep ==
    ASSUME LogInv, Signal \/ ServeFails \/ StopBackground \/ CloseDatabase
    PROVE  LogInv'
  <1>1. cut \in BOOLEAN /\ reported \in {"nothing", "stopped", "abandoned"}  BY DEF LogInv, LogTyped
  <1>2. ASSUME Signal \/ ServeFails PROVE LogInv'
    <2>1. LogStops'  BY <1>2 DEF Signal, ServeFails, LogInv, LogStops, StoppedIsDrained
    <2> QED  BY <1>1, <1>2, <2>1, LogStands DEF Signal, ServeFails
  <1>3. ASSUME StopBackground PROVE LogInv'
    <2>1. LogStops'  BY <1>3 DEF StopBackground, LogInv, LogStops, StoppedIsDrained
    <2> QED  BY <1>1, <1>3, <2>1, LogStands DEF StopBackground
  <1>4. ASSUME CloseDatabase PROVE LogInv'
    <2>1. /\ reported' \in {"nothing", "stopped", "abandoned"} /\ stage \in {"waiting", "failed"} /\ stage' = "closed"
          /\ reported' = "stopped" => stage = "waiting" /\ ~cut /\ loop = "returned"
      BY <1>4 DEF CloseDatabase
    <2>2. UNCHANGED <<pruned, open, queue, batch, stored, dropped, evicted, writes, loop, doomed, cut>>
      BY <1>4 DEF CloseDatabase
    <2>3. LogStops'  BY <2>1, <2>2 DEF LogInv, LogStops, StoppedIsDrained, LogSized
    <2> QED  BY <1>1, <2>1, <2>2, <2>3, LogStands
  <1> QED  BY <1>2, <1>3, <1>4

LEMMA LogStart == RequestLogInit => LogInv
  <1> SUFFICES ASSUME RequestLogInit PROVE LogInv
    OBVIOUS
  <1>1. /\ open = Entries /\ queue = <<>> /\ batch = <<>> /\ stored = {} /\ pruned = {} /\ dropped = 0 /\ evicted = 0 /\ writes = 0
        /\ loop = "receiving" /\ doomed = FALSE /\ stage = "serving" /\ cut = FALSE /\ reported = "nothing"
    BY DEF RequestLogInit
  <1>2. <<>> \in Seq(Entries) /\ Range(<<>>) = {} /\ Distinct(<<>>) /\ Len(<<>>) = 0  BY RangeOfNothing
  <1>3. LogTyped  BY <1>1, <1>2 DEF LogTyped
  <1>4. OnePlace  BY <1>1, <1>2 DEF OnePlace
  <1>5. LogSized
    <2>1. 0 <= BufferSize /\ 0 < BatchSize /\ 0 <= BatchSize  BY LogConstants
    <2> QED  BY <1>1, <1>2, <2>1 DEF LogSized, Writing
  <1>6. LogCounted
    <2>1. Gap = {}  BY <1>1 DEF Gap
    <2>2. GapsCounted  BY <1>1, <2>1, FS_EmptySet DEF GapsCounted, Gap
    <2>3. Unwritten = 0  BY <1>1, <1>2 DEF Unwritten
    <2>4. writes + Cardinality(open) + Len(queue) + Unwritten <= Cardinality(Entries)
      BY <1>1, <1>2, <1>3, <2>3, LogNumbers
    <2> QED  BY <2>2, <2>4 DEF LogCounted
  <1>7. LogStops  BY <1>1 DEF LogStops, StoppedIsDrained
  <1> QED  BY <1>3, <1>4, <1>5, <1>6, <1>7 DEF LogInv

LEMMA LogStep == LogInv /\ [RequestLogNext]_logVars => LogInv'
  <1> SUFFICES ASSUME LogInv, [RequestLogNext]_logVars PROVE LogInv'
    OBVIOUS
  <1>1. ASSUME NEW e \in Entries, Record(e) PROVE LogInv'  BY <1>1, RecordStep
  <1>2. CASE Run
    BY <1>2, ReceiveStep, LogTickStep, BeginDrainStep, DrainOneStep, DrainEndStep, WriteSucceedsStep, WriteFailsStep DEF Run
  <1>3. CASE Signal \/ ServeFails \/ StopBackground \/ CloseDatabase  BY <1>3, ProcessStep
  <1>5. CASE PruneEntries  BY <1>5, PruneStep
  <1>4. CASE UNCHANGED logVars
    <2>1. LogStops'  BY <1>4 DEF logVars, LogInv, LogStops, StoppedIsDrained
    <2> QED  BY <1>4, <2>1, LogStands DEF logVars, LogInv, LogTyped
  <1> QED  BY Zenon, <1>1, <1>2, <1>3, <1>4, <1>5 DEF RequestLogNext

(* What was recorded is in the table, on its way there, removed by an         *)
(* administrator, or in one of the two counters, whatever fails and whenever  *)
(* the process stops; and "stopped" is only said when nothing waits to be     *)
(* written and no handler is left that could record (reqlog/reqlog.go:118,    *)
(* cmd/server/main.go).                                                       *)
THEOREM EntriesSound == RequestLogSpec => []EntriesAccounted
  <1>1. LogInv => EntriesAccounted
    <2> SUFFICES ASSUME LogInv PROVE EntriesAccounted
      OBVIOUS
    <2>1. LogTyped /\ GapsCounted /\ StoppedIsDrained /\ Len(queue) <= BufferSize /\ Len(batch) <= BatchSize
      BY DEF LogInv, LogCounted, LogStops, LogSized
    <2>2. /\ Cardinality(Entries) \in Nat /\ Cardinality(open) \in Nat /\ Len(queue) \in Nat /\ Len(batch) \in Nat
          /\ writes \in Nat /\ dropped \in Nat /\ evicted \in Nat
      BY <2>1, LogNumbers
    <2>3. writes \in 0..Cardinality(Entries)
      <3>1. Unwritten \in Nat  BY <2>2 DEF Unwritten
      <3>2. writes + Cardinality(open) + Len(queue) + Unwritten <= Cardinality(Entries)  BY DEF LogInv, LogCounted
      <3> QED  BY <2>2, <3>1, <3>2
    <2>4. dropped \in 0..Cardinality(Entries) /\ evicted \in 0..Cardinality(Entries)
      <3>1. Gap \in SUBSET Entries  BY DEF Gap
      <3>2. Cardinality(Gap) <= Cardinality(Entries)  BY <3>1, LogConstants, FS_Subset
      <3>3. Cardinality(Gap) = dropped + evicted  BY <2>1 DEF GapsCounted, Gap
      <3> QED  BY <2>2, <3>2, <3>3
    <2>5. RequestLogTypeOK  BY <2>1, <2>3, <2>4 DEF LogTyped, RequestLogTypeOK
    <2> QED  BY <2>1, <2>5 DEF EntriesAccounted
  <1> QED  BY <1>1, LogStart, LogStep, PTL DEF RequestLogSpec

-----------------------------------------------------------------------------
(* The trim. *)

\* A finite set has an oldest entry: the entries older than x shrink strictly as x
\* gets older, and strict subsets are well founded.
LEMMA OldestEntry ==
    ASSUME NEW E \in SUBSET Entries, E # {}
    PROVE  \E x \in E : \A y \in E : At[x] <= At[y]
  <1> DEFINE Older(x) == {y \in E : At[y] < At[x]}
             Family == {Older(x) : x \in E}
  <1>1. IsFiniteSet(E)  BY LogConstants, FS_Subset
  <1>2. Family \subseteq FiniteSubsetsOf(E) /\ Family # {}
    <2>1. \A x \in E : Older(x) \in SUBSET E /\ IsFiniteSet(Older(x))  BY <1>1, FS_Subset
    <2> QED  BY <2>1 DEF FiniteSubsetsOf
  <1>3. PICK U \in Family : \A V \in Family : ~ (<<V, U>> \in StrictSubsetOrdering(E))
    <2> HIDE DEF Family
    <2> QED  BY <1>2, FS_StrictSubsetOrderingWellFounded, WFMin
  <1>4. PICK x \in E : U = Older(x)  OBVIOUS
  <1>5. ASSUME NEW y \in E, At[y] < At[x] PROVE FALSE
    <2>1. At[x] \in Nat /\ At[y] \in Nat /\ \A z \in E : At[z] \in Nat  BY LogConstants
    <2>2. Older(y) \subseteq Older(x)  BY <1>5, <2>1
    <2>3. y \in Older(x) /\ y \notin Older(y)  BY <1>5, <2>1
    <2>4. Older(y) # Older(x) /\ Older(y) \in Family /\ Older(y) \in SUBSET E /\ Older(x) \in SUBSET E  BY <2>3
    <2> QED  BY <1>3, <1>4, <2>2, <2>4 DEF StrictSubsetOrdering
  <1> QED
    <2>1. \A y \in E : At[y] \in Nat  BY LogConstants
    <2> QED  BY <1>5, <2>1

\* There is a first row beyond the newest MaxStored: of the rows with more than
\* MaxStored from them on, the newest.
LEMMA BoundaryExists ==
    ASSUME NEW rows \in SUBSET Entries, Cardinality(rows) > MaxStored
    PROVE  \E b \in rows : /\ Cardinality(Newer(rows, b)) <= MaxStored
                           /\ Cardinality({f \in rows : At[f] >= At[b]}) > MaxStored
  <1> DEFINE From(x) == {f \in rows : At[f] >= At[x]}
             Late == {x \in rows : Cardinality(From(x)) > MaxStored}
             Family == {From(x) : x \in Late}
  <1>1. IsFiniteSet(rows) /\ MaxStored \in Nat /\ \A x \in rows : At[x] \in Nat  BY LogConstants, FS_Subset
  <1>2. \A x \in rows : IsFiniteSet(From(x)) /\ From(x) \in SUBSET rows /\ Cardinality(From(x)) \in Nat
    <2>1. \A x \in rows : From(x) \in SUBSET rows  OBVIOUS
    <2>2. \A x \in rows : IsFiniteSet(From(x))  BY <1>1, <2>1, FS_Subset
    <2> HIDE DEF From
    <2> QED  BY <2>1, <2>2, FS_CardinalityType
  <1>3. Late # {}
    <2>1. rows # {}  BY <1>1, FS_EmptySet
    <2>2. PICK x \in rows : \A y \in rows : At[x] <= At[y]  BY <2>1, OldestEntry
    <2>3. From(x) = rows  BY <1>1, <2>2
    <2> QED  BY <2>3
  <1>4. PICK U \in Family : \A V \in Family : ~ (<<V, U>> \in StrictSubsetOrdering(rows))
    <2>1. Family \subseteq FiniteSubsetsOf(rows)  BY <1>2 DEF FiniteSubsetsOf
    <2>2. Family # {}  BY <1>3
    <2> HIDE DEF Family
    <2> QED  BY <1>1, <2>1, <2>2, FS_StrictSubsetOrderingWellFounded, WFMin
  <1>5. PICK b \in Late : U = From(b)  OBVIOUS
  <1>6. Cardinality(Newer(rows, b)) <= MaxStored
    <2> DEFINE N == Newer(rows, b)
    <2>1. N \in SUBSET rows /\ N \subseteq From(b) /\ b \in From(b) /\ b \notin N  BY <1>1 DEF Newer
    <2>2. CASE N = {}  BY <1>1, <2>2, FS_EmptySet
    <2>3. CASE N # {}
      <3>1. PICK x \in N : \A y \in N : At[x] <= At[y]
        <4>1. N \in SUBSET Entries  BY <2>1
        <4> HIDE DEF N
        <4> QED  BY <2>3, <4>1, OldestEntry
      <3>2. From(x) = N  BY <1>1, <3>1 DEF Newer
      <3>3. x \in rows /\ Cardinality(From(x)) \in Nat  BY <1>2, <2>1
      <3>4. x \notin Late
        <4>1. SUFFICES ASSUME x \in Late PROVE FALSE  OBVIOUS
        <4>2. From(x) \in Family /\ From(x) \subseteq From(b) /\ From(x) # From(b)  BY <2>1, <3>2, <4>1
        <4>3. From(x) \in SUBSET rows /\ From(b) \in SUBSET rows  OBVIOUS
        <4> QED  BY <1>4, <1>5, <4>2, <4>3 DEF StrictSubsetOrdering
      <3>5. ~(Cardinality(From(x)) > MaxStored)  BY <3>3, <3>4
      <3> QED  BY <1>1, <3>2, <3>3, <3>5
    <2> QED  BY <2>2, <2>3
  <1> QED  BY <1>5, <1>6

LEMMA TrimLeaves == ASSUME NEW rows \in SUBSET Entries PROVE Cardinality(rows \ Beyond(rows)) <= MaxStored
  <1>1. IsFiniteSet(rows) /\ MaxStored \in Nat  BY LogConstants, FS_Subset
  <1>2. Cardinality(rows) \in Nat  BY <1>1, FS_CardinalityType
  <1>3. CASE Cardinality(rows) <= MaxStored
    <2>1. rows \ Beyond(rows) \in SUBSET rows  OBVIOUS
    <2>2. IsFiniteSet(rows \ Beyond(rows)) /\ Cardinality(rows \ Beyond(rows)) <= Cardinality(rows)
      BY <1>1, <2>1, FS_Subset
    <2>3. Cardinality(rows \ Beyond(rows)) \in Nat  BY <2>2, FS_CardinalityType
    <2> QED  BY <1>1, <1>2, <1>3, <2>2, <2>3
  <1>4. CASE ~(Cardinality(rows) <= MaxStored)
    <2>1. Cardinality(rows) > MaxStored  BY <1>1, <1>2, <1>4
    <2>2. PICK b \in rows : /\ Cardinality(Newer(rows, b)) <= MaxStored
                            /\ Cardinality({f \in rows : At[f] >= At[b]}) > MaxStored
      BY <2>1, BoundaryExists
    <2>3. \A x \in rows : At[x] \in Nat  BY LogConstants
    <2>4. rows \ Beyond(rows) \in SUBSET Newer(rows, b)
      <3>1. ASSUME NEW x \in rows, ~(At[x] > At[b]) PROVE x \in Beyond(rows)
        <4>1. At[x] <= At[b]  BY <2>3, <3>1
        <4> QED  BY <2>2, <4>1 DEF Beyond
      <3> QED  BY <3>1 DEF Newer
    <2>5. Newer(rows, b) \in SUBSET rows  BY DEF Newer
    <2>6. IsFiniteSet(Newer(rows, b))  BY <1>1, <2>5, FS_Subset
    <2>7. /\ IsFiniteSet(rows \ Beyond(rows))
          /\ Cardinality(rows \ Beyond(rows)) <= Cardinality(Newer(rows, b))
      BY <2>4, <2>6, FS_Subset
    <2>8. Cardinality(rows \ Beyond(rows)) \in Nat /\ Cardinality(Newer(rows, b)) \in Nat
      BY <2>6, <2>7, FS_CardinalityType
    <2> QED  BY <1>1, <2>2, <2>7, <2>8
  <1> QED  BY <1>3, <1>4

\* What a trim leaves is newer than all it takes.
LEMMA TrimTakesTheOldest ==
    ASSUME NEW rows \in SUBSET Entries, NEW g \in Beyond(rows), NEW kept \in rows \ Beyond(rows)
    PROVE  At[g] < At[kept]
  <1>1. PICK b \in rows : /\ At[g] <= At[b] /\ Cardinality(Newer(rows, b)) <= MaxStored
                          /\ Cardinality({f \in rows : At[f] >= At[b]}) > MaxStored
    BY DEF Beyond
  <1>2. At[g] \in Nat /\ At[b] \in Nat /\ At[kept] \in Nat  BY LogConstants DEF Beyond
  <1>3. ~(At[kept] <= At[b])  BY <1>1 DEF Beyond
  <1> QED  BY <1>1, <1>2, <1>3

(* A trim takes the oldest, and a write that trims leaves the table within    *)
(* its ceiling, however many rows share a moment (reqlog/reqlog.go).           *)
THEOREM TrimSound == RequestLogSpec => TrimIsExact
  <1> DEFINE Exact == /\ evicted' > evicted => \A gone \in stored \ stored', kept \in stored' : At[gone] < At[kept]
                      /\ (writes % TrimEvery = 1 /\ loop \in Writing /\ loop' # loop /\ stored' # stored)
                           => Cardinality(stored') <= MaxStored
  <1>1. LogInv /\ [RequestLogNext]_logVars => [Exact]_logVars
    <2> SUFFICES ASSUME LogInv, RequestLogNext PROVE Exact
      OBVIOUS
    <2>1. CASE UNCHANGED stored  BY <2>1
    <2>2. CASE WriteSucceeds
      <3>1. stored \cup Range(batch) \in SUBSET Entries
        <4>1. stored \subseteq Entries /\ batch \in Seq(Entries)  BY DEF LogInv, LogTyped
        <4> QED  BY <4>1, RangeIn
      <3>2. PICK rows \in SUBSET Entries : rows = stored \cup Range(batch)  BY <3>1
      <3>3. CASE writes % TrimEvery = 1
        <4>1. stored' = rows \ Beyond(rows)  BY <2>2, <3>2, <3>3 DEF WriteSucceeds
        <4>2. \A gone \in stored \ stored', kept \in stored' : At[gone] < At[kept]
          BY <3>2, <4>1, TrimTakesTheOldest
        <4>3. Cardinality(stored') <= MaxStored  BY <4>1, TrimLeaves
        <4> QED  BY <4>2, <4>3
      <3>4. CASE writes % TrimEvery # 1
        <4>1. stored \subseteq stored'  BY <2>2, <3>4 DEF WriteSucceeds
        <4> QED  BY <3>4, <4>1
      <3> QED  BY <3>3, <3>4
    <2>4. CASE PruneEntries
      <3>1. evicted' = evicted /\ loop' = loop /\ evicted \in Nat  BY <2>4 DEF PruneEntries, LogInv, LogTyped
      <3> QED  BY <3>1
    <2>3. UNCHANGED stored \/ WriteSucceeds \/ PruneEntries
      BY DEF RequestLogNext, Run, Record, Receive, LogTick, BeginDrain, DrainOne, DrainEnd, WriteFails,
             Signal, ServeFails, StopBackground, CloseDatabase
    <2> QED  BY <2>1, <2>2, <2>3, <2>4
  <1> QED  BY <1>1, LogStart, LogStep, PTL DEF RequestLogSpec, TrimIsExact

-----------------------------------------------------------------------------
(* The inviter's rewards. An invitee that was paid for keeps its use paid or *)
(* is gone, so that no call finds it pending again, however long ago it read *)
(* it: each invitee is counted once.                                         *)

UsesStand ==
    /\ \A u \in Invitees : invitee[u].use # "none" => invitee[u].status \in {"qualified", "unqualified"}
    /\ \A u \in Range(paidFor) : invitee[u].use = "paid" \/ invitee[u].status = "gone"
    /\ Distinct(paidFor)
Milestones ==
    /\ rewardCount = Len(paidFor)
    /\ granted = RewardCards * (rewardCount \div RewardEvery)
    /\ RewardLimit > 0 => rewardCount <= RewardLimit
InvitesInv == InvitesTypeOK /\ UsesStand /\ Milestones

LEMMA InvitesConstants ==
    /\ RewardCards \in Nat /\ RewardEvery \in Nat /\ RewardEvery > 0 /\ RewardLimit \in Nat
    /\ MostCodes \in Nat /\ MostCodes > 0 /\ MostRewardFailures \in Nat /\ IsFiniteSet(Invitees)
  BY InvitesAssumption DEF InvitesAssumption

LEMMA Quotient ==
    ASSUME NEW n \in Nat, NEW e \in Nat, e > 0
    PROVE  /\ n \div e \in Nat /\ n % e \in 0..(e - 1)
           /\ n = e * (n \div e) + (n % e)
  OBVIOUS

LEMMA OneQuotient ==
    ASSUME NEW e \in Nat, e > 0, NEW p \in Nat, NEW q \in Nat, NEW r \in 0..(e - 1), NEW s \in 0..(e - 1),
           e * p + r = e * q + s
    PROVE  p = q /\ r = s
  <1>1. ASSUME NEW a \in Nat, NEW b \in Nat, a < b PROVE e * a + e <= e * b
    <2>1. b - a - 1 \in Nat  BY <1>1
    <2>2. e * (b - a - 1) \in Nat  BY <2>1
    <2>3. e * (b - a - 1) = e * b - e * a - e  BY <2>1
    <2>4. e * a \in Nat /\ e * b \in Nat  OBVIOUS
    <2> QED  BY <2>2, <2>3, <2>4
  <1>2. e * p \in Nat /\ e * q \in Nat  OBVIOUS
  <1>3. CASE p < q  BY <1>1, <1>2, <1>3
  <1>4. CASE q < p  BY <1>1, <1>2, <1>4
  <1>5. CASE p = q  BY <1>2, <1>5
  <1> QED  BY <1>3, <1>4, <1>5

\* One more invite completes a milestone when it makes the count divisible.
LEMMA Milestone ==
    ASSUME NEW n \in Nat
    PROVE  RewardCards * ((n + 1) \div RewardEvery) = RewardCards * (n \div RewardEvery) + Cards(n + 1)
  <1> DEFINE q == n \div RewardEvery
  <1> DEFINE p == (n + 1) \div RewardEvery
  <1> DEFINE r == n % RewardEvery
  <1> DEFINE s == (n + 1) % RewardEvery
  <1>1. RewardEvery \in Nat /\ RewardEvery > 0 /\ RewardCards \in Nat  BY InvitesConstants
  <1>2. q \in Nat /\ r \in 0..(RewardEvery - 1) /\ n = RewardEvery * q + r  BY <1>1, Quotient
  <1>3. n + 1 \in Nat  OBVIOUS
  <1>4. p \in Nat /\ s \in 0..(RewardEvery - 1) /\ n + 1 = RewardEvery * p + s  BY <1>1, <1>3, Quotient
  <1> HIDE DEF p, q, r, s
  <1>5. CASE r = RewardEvery - 1
    <2>1. RewardEvery * (q + 1) = RewardEvery * q + RewardEvery  BY <1>1, <1>2
    <2>2. RewardEvery * q \in Nat /\ RewardEvery * p \in Nat /\ q + 1 \in Nat /\ 0 \in 0..(RewardEvery - 1)  BY <1>1, <1>2, <1>4
    <2>3. RewardEvery * p + s = RewardEvery * (q + 1) + 0  BY <1>1, <1>2, <1>4, <1>5, <2>1, <2>2
    <2>4. p = q + 1 /\ s = 0  BY <1>1, <1>4, <2>2, <2>3, OneQuotient
    <2>5. RewardCards * (q + 1) = RewardCards * q + RewardCards  BY <1>1, <1>2
    <2>6. Cards(n + 1) = RewardCards  BY <2>4 DEF Cards, s
    <2> QED  BY <2>4, <2>5, <2>6 DEF p, q
  <1>6. CASE r # RewardEvery - 1
    <2>1. r + 1 \in 0..(RewardEvery - 1)  BY <1>1, <1>2, <1>6
    <2>2. RewardEvery * q \in Nat /\ RewardEvery * p \in Nat  BY <1>1, <1>2, <1>4
    <2>3. RewardEvery * p + s = RewardEvery * q + (r + 1)  BY <1>1, <1>2, <1>4, <2>1, <2>2
    <2>4. p = q /\ s = r + 1  BY <1>1, <1>2, <1>4, <2>1, <2>3, OneQuotient
    <2>5. s # 0  BY <1>2, <2>4
    <2>6. Cards(n + 1) = 0  BY <2>5 DEF Cards, s
    <2>7. RewardCards * q \in Nat  BY <1>1, <1>2
    <2> QED  BY <2>4, <2>6, <2>7 DEF p, q
  <1> QED  BY <1>5, <1>6

\* The calls and the walk only read; a page is of positions that are there.
LEMMA InvitesStart == InvitesInit => InvitesInv
  <1> SUFFICES ASSUME InvitesInit PROVE InvitesInv
    OBVIOUS
  <1>1. InvitesTypeOK
    <2>1. Cardinality(Invitees) \in Nat  BY InvitesConstants, FS_CardinalityType
    <2>2. <<>> \in Seq(Invitees) /\ Len(<<>>) = 0  OBVIOUS
    <2>3. invitee \in [Invitees -> [status : {"absent", "qualified", "unqualified", "gone"},
                                    use : {"none", "pending", "paid", "skipped"}]]
      BY DEF InvitesInit
    <2>4. walk \in [at : {"resting", "reading", "rewarding"}, page : SUBSET (1..Len(joined)), after : 0..Len(joined), more : BOOLEAN]
      BY <2>2 DEF InvitesInit, Resting
    <2>5. call \in [Rewarding -> Invitees \cup {Nobody}]  BY DEF InvitesInit
    <2> QED  BY <2>1, <2>2, <2>3, <2>4, <2>5, InvitesConstants DEF InvitesInit, InvitesTypeOK
  <1>2. UsesStand
    <2>1. paidFor = <<>>  BY DEF InvitesInit
    <2>2. Range(paidFor) = {} /\ Distinct(paidFor)  BY <2>1, RangeOfNothing
    <2> QED  BY <2>2 DEF UsesStand, InvitesInit
  <1>3. Milestones
    <2>1. Len(paidFor) = 0 /\ rewardCount = 0 /\ granted = 0  BY RangeOfNothing DEF InvitesInit
    <2>2. 0 \div RewardEvery = 0
      <3>1. 0 \div RewardEvery \in Nat /\ 0 % RewardEvery \in 0..(RewardEvery - 1)
            /\ 0 = RewardEvery * (0 \div RewardEvery) + (0 % RewardEvery)
        BY InvitesConstants, Quotient
      <3> QED  BY <3>1, InvitesConstants
    <2> QED  BY <2>1, <2>2, InvitesConstants DEF Milestones
  <1> QED  BY <1>1, <1>2, <1>3 DEF InvitesInv

LEMMA RewardsStay ==
    ASSUME UsesStand, Milestones, UNCHANGED <<invitee, rewardCount, granted, paidFor>>
    PROVE  UsesStand' /\ Milestones'
  BY DEF UsesStand, Milestones, Distinct

LEMMA InviteesStay ==
    ASSUME InvitesTypeOK, UNCHANGED <<joined, rewardCount, granted, paidFor>>,
           inviter' \in {"active", "disabled", "gone"}, userEnabled' \in BOOLEAN, live' \in 0..MostCodes,
           invitee' \in [Invitees -> [status : {"absent", "qualified", "unqualified", "gone"},
                                      use : {"none", "pending", "paid", "skipped"}]],
           call' \in [Rewarding -> Invitees \cup {Nobody}],
           walk' \in [at : {"resting", "reading", "rewarding"}, page : SUBSET (1..Len(joined)), after : 0..Len(joined), more : BOOLEAN],
           failures' \in 0..MostRewardFailures
    PROVE  InvitesTypeOK'
  BY DEF InvitesTypeOK

LEMMA RegisterStep == ASSUME InvitesInv, NEW u \in Invitees, NEW code, Register(u, code) PROVE InvitesInv'
  <1> USE DEF InvitesInv, Register
  <1>1. PICK status \in {"qualified", "unqualified"} : invitee' = [invitee EXCEPT ![u] = [status |-> status, use |-> "pending"]]
    OBVIOUS
  <1>2. joined' \in Seq(Invitees) /\ Len(joined') = Len(joined) + 1 /\ Len(joined) \in Nat
    BY DEF InvitesTypeOK
  <1>3. walk' \in [at : {"resting", "reading", "rewarding"}, page : SUBSET (1..Len(joined')), after : 0..Len(joined'), more : BOOLEAN]
    <2>1. 1..Len(joined) \subseteq 1..Len(joined') /\ 0..Len(joined) \subseteq 0..Len(joined')  BY <1>2
    <2>2. walk' = walk  OBVIOUS
    <2> QED  BY <2>1, <2>2 DEF InvitesTypeOK
  <1>4. invitee' \in [Invitees -> [status : {"absent", "qualified", "unqualified", "gone"},
                                   use : {"none", "pending", "paid", "skipped"}]]
    BY <1>1 DEF InvitesTypeOK
  <1>5. InvitesTypeOK'  BY <1>2, <1>3, <1>4 DEF InvitesTypeOK
  <1>6. UsesStand'
    <2>1. u \notin Range(paidFor)  BY DEF UsesStand
    <2>2. \A v \in Invitees : v # u => invitee'[v] = invitee[v]  BY <1>1 DEF InvitesTypeOK
    <2>3. invitee'[u].status \in {"qualified", "unqualified"}  BY <1>1 DEF InvitesTypeOK
    <2>4. Range(paidFor) \subseteq Invitees  BY RangeIn DEF InvitesTypeOK
    <2> QED  BY <2>1, <2>2, <2>3, <2>4 DEF UsesStand, Distinct
  <1>7. Milestones'  BY DEF Milestones
  <1> QED  BY <1>5, <1>6, <1>7

\* What a paid invitee does leaves its use as it is, or takes its row.
LEMMA InviteeMoves ==
    ASSUME InvitesInv, NEW u \in Invitees, NEW row,
           row \in [status : {"qualified", "unqualified", "gone"}, use : {"none", "pending", "paid", "skipped"}],
           invitee[u].use = "paid" => row.use = "paid" \/ row.status = "gone",
           invitee[u].status # "gone",
           row.use # "none" => row.status # "gone",
           invitee' = [invitee EXCEPT ![u] = row], UNCHANGED <<joined, rewardCount, granted, paidFor>>,
           UNCHANGED <<inviter, userEnabled, live, walk, failures>>,
           call' \in [Rewarding -> Invitees \cup {Nobody}]
    PROVE  InvitesInv'
  <1>1. InvitesTypeOK'
    <2>1. invitee' \in [Invitees -> [status : {"absent", "qualified", "unqualified", "gone"},
                                     use : {"none", "pending", "paid", "skipped"}]]
      BY DEF InvitesInv, InvitesTypeOK
    <2> QED  BY <2>1, InviteesStay DEF InvitesInv, InvitesTypeOK
  <1>2. UsesStand'
    <2>1. \A v \in Invitees : v # u => invitee'[v] = invitee[v]  BY DEF InvitesInv, InvitesTypeOK
    <2>2. invitee'[u] = row  BY DEF InvitesInv, InvitesTypeOK
    <2>3. Range(paidFor) \subseteq Invitees  BY RangeIn DEF InvitesInv, InvitesTypeOK
    <2> QED  BY <2>1, <2>2, <2>3 DEF InvitesInv, UsesStand, Distinct
  <1>3. Milestones'  BY DEF InvitesInv, Milestones
  <1> QED  BY <1>1, <1>2, <1>3 DEF InvitesInv

LEMMA RequalifyStep == ASSUME InvitesInv, NEW u \in Invitees, Requalify(u) PROVE InvitesInv'
  <1>1. PICK status \in {"qualified", "unqualified"} : invitee' = [invitee EXCEPT ![u].status = status]
    BY DEF Requalify
  <1>2. invitee[u] \in [status : {"absent", "qualified", "unqualified", "gone"},
                        use : {"none", "pending", "paid", "skipped"}]
    BY DEF InvitesInv, InvitesTypeOK
  <1>3. invitee' = [invitee EXCEPT ![u] = [status |-> status, use |-> invitee[u].use]]
    <2>1. [invitee[u] EXCEPT !.status = status] = [status |-> status, use |-> invitee[u].use]  BY <1>2
    <2> QED  BY <1>1, <2>1 DEF InvitesInv, InvitesTypeOK
  <1>4. [status |-> status, use |-> invitee[u].use]
           \in [status : {"qualified", "unqualified", "gone"}, use : {"none", "pending", "paid", "skipped"}]
    BY <1>2
  <1>5. invitee[u].status # "gone"  BY DEF Requalify
  <1>6. /\ UNCHANGED <<joined, rewardCount, granted, paidFor>> /\ UNCHANGED <<inviter, userEnabled, live, walk, failures>>
        /\ call' \in [Rewarding -> Invitees \cup {Nobody}]
    BY DEF Requalify, InvitesInv, InvitesTypeOK
  <1> QED  BY <1>3, <1>4, <1>5, <1>6, InviteeMoves

LEMMA DeleteInviteeStep == ASSUME InvitesInv, NEW u \in Invitees, DeleteInvitee(u) PROVE InvitesInv'
  <1>1. invitee' = [invitee EXCEPT ![u] = [status |-> "gone", use |-> "none"]]  BY DEF DeleteInvitee
  <1>2. [status |-> "gone", use |-> "none"]
           \in [status : {"qualified", "unqualified", "gone"}, use : {"none", "pending", "paid", "skipped"}]
    OBVIOUS
  <1>3. invitee[u].status # "gone"  BY DEF DeleteInvitee
  <1>4. /\ UNCHANGED <<joined, rewardCount, granted, paidFor>> /\ UNCHANGED <<inviter, userEnabled, live, walk, failures>>
        /\ call' \in [Rewarding -> Invitees \cup {Nobody}]
    BY DEF DeleteInvitee, InvitesInv, InvitesTypeOK
  <1> QED  BY <1>1, <1>2, <1>3, <1>4, InviteeMoves

LEMMA InviterStep == ASSUME InvitesInv, DisableInviter \/ Regenerate PROVE InvitesInv'
  <1>1. UNCHANGED <<joined, invitee, call, walk, failures, userEnabled, rewardCount, granted, paidFor>>
        /\ inviter' \in {"active", "disabled", "gone"} /\ live' \in 0..MostCodes
    BY InvitesConstants DEF DisableInviter, Regenerate, InvitesInv, InvitesTypeOK
  <1>2. InvitesTypeOK'  BY <1>1, InviteesStay DEF InvitesInv, InvitesTypeOK
  <1> QED  BY <1>1, <1>2, RewardsStay DEF InvitesInv

LEMMA ResolveStep == ASSUME InvitesInv, NEW k \in Rewarding, Resolve(k) PROVE InvitesInv'
  <1> DEFINE u == call[k]
  <1>1. u \in Invitees /\ UNCHANGED <<inviter, userEnabled, live, joined, walk, failures>>
        /\ call' \in [Rewarding -> Invitees \cup {Nobody}]
    BY DEF Resolve, InvitesInv, InvitesTypeOK
  <1>2. PICK w \in Invitees : w = u  BY <1>1
  <1>3. invitee[w] \in [status : {"absent", "qualified", "unqualified", "gone"},
                        use : {"none", "pending", "paid", "skipped"}]
    BY DEF InvitesInv, InvitesTypeOK
  <1>4. CASE UNCHANGED <<invitee, rewardCount, granted, paidFor>>
    <2>1. InvitesTypeOK'  BY <1>1, <1>4, InviteesStay DEF InvitesInv, InvitesTypeOK
    <2> QED  BY <1>4, <2>1, RewardsStay DEF InvitesInv
  <1>5. CASE /\ Claimable(w) /\ invitee' = [invitee EXCEPT ![w].use = "skipped"]
             /\ UNCHANGED <<rewardCount, granted, paidFor>>
    <2>1. invitee' = [invitee EXCEPT ![w] = [status |-> invitee[w].status, use |-> "skipped"]]
      <3>1. [invitee[w] EXCEPT !.use = "skipped"] = [status |-> invitee[w].status, use |-> "skipped"]  BY <1>3
      <3> QED  BY <1>5, <3>1 DEF InvitesInv, InvitesTypeOK
    <2>2. invitee[w].use = "pending"  BY <1>5 DEF Claimable, PendingInvite
    <2>3. invitee[w].status \in {"qualified", "unqualified"}  BY <2>2 DEF InvitesInv, UsesStand
    <2>4. [status |-> invitee[w].status, use |-> "skipped"]
             \in [status : {"qualified", "unqualified", "gone"}, use : {"none", "pending", "paid", "skipped"}]
      BY <2>3
    <2> QED  BY <1>1, <1>5, <2>1, <2>2, <2>3, <2>4, InviteeMoves
  <1>6. CASE /\ Claimable(w) /\ ~Skipped
             /\ invitee' = [invitee EXCEPT ![w].use = "paid"]
             /\ rewardCount' = Counted + 1 /\ granted' = granted + Cards(Counted + 1)
             /\ paidFor' = Append(paidFor, w)
    <2>1. invitee[w].use = "pending"  BY <1>6 DEF Claimable, PendingInvite
    <2>2. invitee[w].status \in {"qualified", "unqualified"}  BY <2>1 DEF InvitesInv, UsesStand
    <2>3. w \notin Range(paidFor)  BY <2>1, <2>2 DEF InvitesInv, UsesStand
    <2>4. paidFor \in Seq(Invitees) /\ Distinct(paidFor)  BY DEF InvitesInv, InvitesTypeOK, UsesStand
    <2>5. /\ paidFor' \in Seq(Invitees) /\ Len(paidFor') = Len(paidFor) + 1
          /\ Range(paidFor') = Range(paidFor) \cup {w} /\ Distinct(paidFor')
      BY <1>6, <2>3, <2>4, RangeAppend
    <2>6. /\ invitee' \in [Invitees -> [status : {"absent", "qualified", "unqualified", "gone"},
                                        use : {"none", "pending", "paid", "skipped"}]]
          /\ \A v \in Invitees : v # w => invitee'[v] = invitee[v]
          /\ invitee'[w].use = "paid" /\ invitee'[w].status = invitee[w].status
      BY <1>6, <1>3 DEF InvitesInv, InvitesTypeOK
    <2>7. UsesStand'
      <3>1. \A v \in Invitees : invitee'[v].use # "none" => invitee'[v].status \in {"qualified", "unqualified"}
        BY <2>2, <2>6 DEF InvitesInv, UsesStand
      <3>2. Range(paidFor) \subseteq Invitees  BY <2>4, RangeIn
      <3>3. \A v \in Range(paidFor') : invitee'[v].use = "paid" \/ invitee'[v].status = "gone"
        BY <2>5, <2>6, <3>2 DEF InvitesInv, UsesStand
      <3> QED  BY <2>5, <3>1, <3>3 DEF UsesStand
    <2>8. rewardCount = Len(paidFor) /\ rewardCount \in Nat /\ rewardCount' = rewardCount + 1
      BY <1>6, <2>4 DEF InvitesInv, Milestones, Counted
    <2>9. Milestones'
      <3>1. RewardCards * ((rewardCount + 1) \div RewardEvery)
              = RewardCards * (rewardCount \div RewardEvery) + Cards(rewardCount + 1)
        BY <2>8, Milestone
      <3>2. granted' = RewardCards * (rewardCount' \div RewardEvery)
        BY <1>6, <2>8, <3>1 DEF InvitesInv, Milestones, Counted
      <3>3. RewardLimit > 0 => rewardCount' <= RewardLimit
        BY <1>6, <2>8, InvitesConstants DEF Skipped, Counted
      <3> QED  BY <2>5, <2>8, <3>2, <3>3 DEF Milestones
    <2>10. rewardCount' \in 0..Cardinality(Invitees)
      <3>1. Cardinality(Range(paidFor')) = Len(paidFor')  BY <2>5, RangeSize
      <3>2. PICK paid \in SUBSET Invitees : paid = Range(paidFor')  BY <2>5, RangeIn
      <3>3. Cardinality(paid) <= Cardinality(Invitees)  BY InvitesConstants, FS_Subset
      <3>4. Cardinality(Invitees) \in Nat  BY InvitesConstants, FS_CardinalityType
      <3> QED  BY <2>5, <2>8, <3>1, <3>2, <3>3, <3>4
    <2>11. granted' \in Nat
      <3>1. Cards(Counted + 1) \in Nat  BY InvitesConstants DEF Cards
      <3> QED  BY <1>6, <3>1 DEF InvitesInv, InvitesTypeOK
    <2>12. InvitesTypeOK'  BY <1>1, <2>5, <2>6, <2>10, <2>11 DEF InvitesInv, InvitesTypeOK
    <2> QED  BY <2>7, <2>9, <2>12 DEF InvitesInv
  <1> QED  BY <1>2, <1>4, <1>5, <1>6 DEF Resolve

\* A call that reads or fails and a step of the walk change no reward.
LEMMA OnlyReads ==
    ASSUME InvitesInv, UNCHANGED <<inviter, userEnabled, live, invitee, joined, rewardCount, granted, paidFor>>,
           failures' \in 0..MostRewardFailures, call' \in [Rewarding -> Invitees \cup {Nobody}],
           walk' \in [at : {"resting", "reading", "rewarding"}, page : SUBSET (1..Len(joined)),
                      after : 0..Len(joined), more : BOOLEAN]
    PROVE  InvitesInv'
  <1>1. InvitesTypeOK'  BY InviteesStay DEF InvitesInv, InvitesTypeOK
  <1> QED  BY <1>1, RewardsStay DEF InvitesInv

LEMMA CallStep ==
    ASSUME InvitesInv, NEW k \in Rewarding, ResolveFails(k) \/ (\E u \in Invitees : CallReward(k, u))
    PROVE  InvitesInv'
  <1>1. /\ UNCHANGED <<inviter, userEnabled, live, invitee, joined, rewardCount, granted, paidFor, walk>>
        /\ failures' \in 0..MostRewardFailures /\ call' \in [Rewarding -> Invitees \cup {Nobody}]
    <2>1. call \in [Rewarding -> Invitees \cup {Nobody}] /\ failures \in 0..MostRewardFailures
      BY DEF InvitesInv, InvitesTypeOK
    <2>2. CASE ResolveFails(k)
      BY <2>1, <2>2, InvitesConstants DEF ResolveFails
    <2>3. ASSUME NEW u \in Invitees, CallReward(k, u)
          PROVE  /\ UNCHANGED <<inviter, userEnabled, live, invitee, joined, rewardCount, granted, paidFor, walk, failures>>
                 /\ call' \in [Rewarding -> Invitees \cup {Nobody}]
      BY <2>1, <2>3 DEF CallReward, ReadReward
    <2> QED  BY <2>1, <2>2, <2>3
  <1> QED  BY <1>1, OnlyReads DEF InvitesInv, InvitesTypeOK

LEMMA WalkStep == ASSUME InvitesInv, StartWalk \/ ReadPage \/ NextOfPage \/ EndOfPage PROVE InvitesInv'
  <1>1. /\ walk.at \in {"resting", "reading", "rewarding"} /\ walk.page \in SUBSET (1..Len(joined))
        /\ walk.after \in 0..Len(joined) /\ walk.more \in BOOLEAN /\ Len(joined) \in Nat
        /\ joined \in Seq(Invitees) /\ call \in [Rewarding -> Invitees \cup {Nobody}] /\ failures \in 0..MostRewardFailures
        /\ walk \in [at : {"resting", "reading", "rewarding"}, page : SUBSET (1..Len(joined)),
                     after : 0..Len(joined), more : BOOLEAN]
    BY DEF InvitesInv, InvitesTypeOK
  <1>2. Resting \in [at : {"resting", "reading", "rewarding"}, page : SUBSET (1..Len(joined)),
                     after : 0..Len(joined), more : BOOLEAN]
    BY <1>1 DEF Resting
  <1>3. CASE StartWalk  BY <1>1, <1>3, OnlyReads DEF StartWalk
  <1>4. CASE ReadPage
    <2>1. UNCHANGED <<inviter, userEnabled, live, invitee, joined, rewardCount, granted, paidFor, call, failures>>
      BY <1>4 DEF ReadPage
    <2>2. PICK page : /\ page = {j \in After(walk.after) : Cardinality({i \in After(walk.after) : i < j}) < PageSize}
                      /\ \/ page = {} /\ walk' = Resting
                         \/ \E last \in page :
                              walk' = [at |-> "rewarding", page |-> page, after |-> last, more |-> Cardinality(page) = PageSize]
      BY <1>4 DEF ReadPage
    <2>3. page \in SUBSET (1..Len(joined)) /\ page \subseteq 0..Len(joined)  BY <1>1, <2>2 DEF After
    <2>4. (Cardinality(page) = PageSize) \in BOOLEAN  OBVIOUS
    <2>5. walk' \in [at : {"resting", "reading", "rewarding"}, page : SUBSET (1..Len(joined)),
                     after : 0..Len(joined), more : BOOLEAN]
      <3>1. CASE walk' = Resting  BY <1>2, <3>1
      <3>2. ASSUME NEW last \in page,
                   walk' = [at |-> "rewarding", page |-> page, after |-> last, more |-> Cardinality(page) = PageSize]
            PROVE  walk' \in [at : {"resting", "reading", "rewarding"}, page : SUBSET (1..Len(joined)),
                              after : 0..Len(joined), more : BOOLEAN]
        <4>1. last \in 0..Len(joined)  BY <2>3
        <4>2. PICK more \in BOOLEAN : more = (Cardinality(page) = PageSize)  BY <2>4
        <4>3. walk' = [at |-> "rewarding", page |-> page, after |-> last, more |-> more]  BY <3>2, <4>2
        <4> QED  BY <2>3, <4>1, <4>3
      <3> QED  BY <2>2, <3>1, <3>2
    <2> QED  BY <1>1, <2>1, <2>5, OnlyReads
  <1>5. CASE NextOfPage
    <2>1. UNCHANGED <<inviter, userEnabled, live, invitee, joined, rewardCount, granted, paidFor, failures>>
      BY <1>5 DEF NextOfPage
    <2>2. PICK j \in walk.page :
             /\ IF PendingInvite(joined[j]) /\ Qualifies(joined[j]) THEN ReadReward("janitor", joined[j]) ELSE UNCHANGED call
             /\ walk' = [walk EXCEPT !.page = @ \ {j}]
      BY <1>5 DEF NextOfPage
    <2>3. walk' \in [at : {"resting", "reading", "rewarding"}, page : SUBSET (1..Len(joined)),
                     after : 0..Len(joined), more : BOOLEAN]
      BY <1>1, <2>2
    <2>4. joined[j] \in Invitees  BY <1>1
    <2>5. call' \in [Rewarding -> Invitees \cup {Nobody}]  BY <1>1, <2>2, <2>4 DEF ReadReward
    <2> QED  BY <1>1, <2>1, <2>3, <2>5, OnlyReads
  <1>6. CASE EndOfPage
    <2>1. UNCHANGED <<inviter, userEnabled, live, invitee, joined, rewardCount, granted, paidFor, call, failures>>
      BY <1>6 DEF EndOfPage
    <2>2. walk' \in [at : {"resting", "reading", "rewarding"}, page : SUBSET (1..Len(joined)),
                     after : 0..Len(joined), more : BOOLEAN]
      BY <1>1, <1>2, <1>6 DEF EndOfPage
    <2> QED  BY <1>1, <2>1, <2>2, OnlyReads
  <1> QED  BY <1>3, <1>4, <1>5, <1>6

LEMMA InvitesStep == InvitesInv /\ [InvitesNext]_inviteVars => InvitesInv'
  <1> SUFFICES ASSUME InvitesInv, [InvitesNext]_inviteVars PROVE InvitesInv'
    OBVIOUS
  <1>1. ASSUME UNCHANGED inviteVars PROVE InvitesInv'
    <2>1. InvitesTypeOK'  BY <1>1 DEF inviteVars, InvitesInv, InvitesTypeOK
    <2> QED  BY <1>1, <2>1, RewardsStay DEF inviteVars, InvitesInv
  <1>2. ASSUME NEW u \in Invitees, NEW code \in 1..MostCodes, Register(u, code) PROVE InvitesInv'
    BY <1>2, RegisterStep
  <1>3. ASSUME NEW u \in Invitees, Requalify(u) \/ DeleteInvitee(u) PROVE InvitesInv'
    BY <1>3, RequalifyStep, DeleteInviteeStep
  <1>4. ASSUME DisableInviter \/ Regenerate PROVE InvitesInv'
    BY <1>4, InviterStep
  <1>5. ASSUME NEW k \in Rewarding, Resolve(k) PROVE InvitesInv'
    BY <1>5, ResolveStep
  <1>6. ASSUME NEW k \in Rewarding, ResolveFails(k) \/ (\E u \in Invitees : CallReward(k, u)) PROVE InvitesInv'
    BY <1>6, CallStep
  <1>7. ASSUME StartWalk \/ ReadPage \/ NextOfPage \/ EndOfPage PROVE InvitesInv'
    BY <1>7, WalkStep
  <1>8. Callers \subseteq Rewarding /\ "janitor" \in Rewarding  BY DEF Rewarding
  <1> QED  BY <1>1, <1>2, <1>3, <1>4, <1>5, <1>6, <1>7, <1>8, Zenon DEF InvitesNext, Janitor

(* An inviter has exactly the cards its milestones come to, each invitee is    *)
(* counted once and the limit is kept, whatever calls and the janitor's walk   *)
(* overlap and whatever accounts are deleted in between (invite/invite.go).    *)
THEOREM RewardsSound == InvitesSpec => []RewardsExact
  <1>1. InvitesInv => RewardsExact
    BY DEF InvitesInv, UsesStand, Milestones, RewardsExact, Distinct, IsInjective
  <1> QED  BY <1>1, InvitesStart, InvitesStep, PTL DEF InvitesSpec
=============================================================================
