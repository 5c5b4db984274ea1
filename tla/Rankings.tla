------------------------------ MODULE Rankings ------------------------------
(***************************************************************************)
(* The back office's short-lived answers: the allowance ranking (a cache   *)
(* with a generation) and the usage aggregates (a cache and a bounded      *)
(* number of builds), both built by one caller of a flight.Group while the *)
(* callers of the same key wait.                                           *)
(*                                                                         *)
(* The figures a ranking is built from are one version number; a writer is *)
(* a reset or a change of a limit, whose handler forgets the rankings once *)
(* its transaction has committed.                                          *)
(***************************************************************************)
EXTENDS Naturals, FiniteSets

CONSTANTS
    Readers,      \* requests, each made once
    Aggregates,   \* the usage aggregates that may be asked for, by cache key
    Editors,      \* requests that change what an account has left
    BuildSlots    \* aggregate builds that may run at once

ASSUME RankingsAssumption ==
    /\ "ranking" \notin Aggregates
    /\ "no reader" \notin Readers
    /\ IsFiniteSet(Readers)
    /\ IsFiniteSet(Editors)
    /\ BuildSlots \in Nat

VARIABLES
    figures,      \* the version of the counters and the limits
    announced,    \* history: the newest version some writer has forgotten the rankings for
    editor,       \* the version an editor has committed, 0 before, and whether it has forgotten
    generation,   \* allowanceGeneration
    cached,       \* the cached answer to each query, NoAnswer when none
    flight,       \* the reader whose call is registered under a key
    reader,       \* where a reader is
    answer        \* what a reader's call returned, or the reader itself

rankingVars == <<figures, announced, editor, generation, cached, flight, reader, answer>>

NoAnswer == [kind |-> "none"]
Failure  == [kind |-> "error"]   \* an error, or a panic that is raised again in every caller
Of(v)    == [kind |-> "rows", version |-> v]
NoReader == "no reader"

Queries == Aggregates \cup {"ranking"}
Query(r) == reader[r].query
\* The flight a reader joins: the generation it read is part of a ranking's key.
Key(r) == <<Query(r), reader[r].generation>>
RankingKeys == Queries \X (0..Cardinality(Editors))

\* A reader outside the handler's build: it has none of its local variables.
Outside(at, query, asked) ==
    [at |-> at, query |-> query, asked |-> asked, generation |-> 0, seen |-> NoAnswer, leader |-> NoReader]
IdleReader == Outside("idle", "ranking", 0)

RankingsTypeOK ==
    /\ figures \in 0..Cardinality(Editors)
    /\ announced \in 0..figures
    /\ editor \in [Editors -> [version : 0..figures, forgot : BOOLEAN]]
    /\ generation \in 0..Cardinality(Editors)
    /\ cached \in [Queries -> {NoAnswer} \cup {Of(v) : v \in 0..figures}]
    /\ flight \in [RankingKeys -> Readers \cup {NoReader}]
    /\ reader \in [Readers -> [at : {"idle", "missed", "keyed", "leading", "queued", "building", "built", "stored",
                                     "waiting", "answered"},
                               query : Queries, asked : 0..figures, generation : 0..Cardinality(Editors),
                               seen : {NoAnswer} \cup {Of(v) : v \in 0..figures},
                               leader : Readers \cup {NoReader}]]
    /\ answer \in [Readers -> {NoAnswer, Failure} \cup {Of(v) : v \in 0..figures}]

RankingsInit ==
    /\ figures = 0
    /\ announced = 0
    /\ editor = [e \in Editors |-> [version |-> 0, forgot |-> FALSE]]
    /\ generation = 0
    /\ cached = [q \in Queries |-> NoAnswer]
    /\ flight = [k \in RankingKeys |-> NoReader]
    /\ reader = [r \in Readers |-> IdleReader]
    /\ answer = [r \in Readers |-> NoAnswer]

-----------------------------------------------------------------------------
(* The writes. *)

\* A reset or a changed limit commits.
Commit(e) ==
    /\ editor[e].version = 0
    /\ figures' = figures + 1
    /\ editor' = [editor EXCEPT ![e].version = figures + 1]
    /\ UNCHANGED <<announced, generation, cached, flight, reader, answer>>

\* A mutated form: the cached rankings go, the generation stays.
ForgetRankingsOnly(e) ==
    /\ editor[e].version > 0
    /\ ~editor[e].forgot
    /\ editor' = [editor EXCEPT ![e].forgot = TRUE]
    /\ announced' = IF editor[e].version > announced THEN editor[e].version ELSE announced
    /\ cached' = [cached EXCEPT !["ranking"] = NoAnswer]
    /\ UNCHANGED <<figures, generation, flight, reader, answer>>

\* Afterwards its handler drops the cached rankings and starts a generation.
ForgetRankings(e) ==
    /\ editor[e].version > 0
    /\ ~editor[e].forgot
    /\ editor' = [editor EXCEPT ![e].forgot = TRUE]
    /\ announced' = IF editor[e].version > announced THEN editor[e].version ELSE announced
    /\ generation' = generation + 1
    /\ cached' = [cached EXCEPT !["ranking"] = NoAnswer]
    /\ UNCHANGED <<figures, flight, reader, answer>>

\* An entry outlives its fifteen seconds, or makes room for others.
Expire(q) ==
    /\ cached[q] # NoAnswer
    /\ cached' = [cached EXCEPT ![q] = NoAnswer]
    /\ UNCHANGED <<figures, announced, editor, generation, flight, reader, answer>>

-----------------------------------------------------------------------------
(* A read. *)

Move(r, to) == reader' = [reader EXCEPT ![r].at = to]
\* The handler has its answer and its local variables are gone.
Return(r) == reader' = [reader EXCEPT ![r] = Outside("answered", Query(r), reader[r].asked)]

\* The cache is asked first.
Lookup(r, q) ==
    /\ reader[r].at = "idle"
    /\ reader' = [reader EXCEPT ![r].query = q, ![r].asked = announced,
                                ![r].at = IF cached[q] = NoAnswer THEN "missed" ELSE "answered"]
    /\ answer' = [answer EXCEPT ![r] = cached[q]]
    /\ UNCHANGED <<figures, announced, editor, generation, cached, flight>>

\* A ranking's generation is read before its build; an aggregate has none.
ReadGeneration(r) ==
    /\ reader[r].at = "missed"
    /\ reader' = [reader EXCEPT ![r].at = "keyed",
                                ![r].generation = IF Query(r) \in Aggregates THEN 0 ELSE generation]
    /\ UNCHANGED <<figures, announced, editor, generation, cached, flight, answer>>

\* Group.Do: join the call that is registered under the key, or register one.
Join(r) ==
    /\ reader[r].at = "keyed"
    /\ flight[Key(r)] # NoReader
    /\ reader' = [reader EXCEPT ![r].at = "waiting", ![r].leader = flight[Key(r)]]
    /\ UNCHANGED <<figures, announced, editor, generation, cached, flight, answer>>

Lead(r) ==
    /\ reader[r].at = "keyed"
    /\ flight[Key(r)] = NoReader
    /\ flight' = [flight EXCEPT ![Key(r)] = r]
    /\ Move(r, "leading")
    /\ UNCHANGED <<figures, announced, editor, generation, cached, answer>>

\* The build asks the cache again, in case one finished while this one queued.
LookupAgain(r) ==
    /\ reader[r].at = "leading"
    /\ reader' = [reader EXCEPT ![r].seen = cached[Query(r)],
                                ![r].at = IF cached[Query(r)] # NoAnswer THEN "stored"
                                          ELSE IF Query(r) \in Aggregates THEN "queued" ELSE "building"]
    /\ UNCHANGED <<figures, announced, editor, generation, cached, flight, answer>>

\* The aggregate builds that hold a slot: from the claim until the answer is stored or the build has failed.
Holding == {r \in Readers : Query(r) \in Aggregates /\ reader[r].at \in {"building", "built"}}

AcquireSlot(r) ==
    /\ reader[r].at = "queued"
    /\ Cardinality(Holding) < BuildSlots
    /\ Move(r, "building")
    /\ UNCHANGED <<figures, announced, editor, generation, cached, flight, answer>>

\* The rows are read: an answer is as old as its first read.
Read(r) ==
    /\ reader[r].at = "building"
    /\ reader' = [reader EXCEPT ![r].at = "built", ![r].seen = Of(figures)]
    /\ UNCHANGED <<figures, announced, editor, generation, cached, flight, answer>>

\* A ranking is kept only if no write was announced since its generation was read.
Store(r) ==
    /\ reader[r].at = "built"
    /\ cached' = IF Query(r) \in Aggregates \/ reader[r].generation = generation
                 THEN [cached EXCEPT ![Query(r)] = reader[r].seen]
                 ELSE cached
    /\ Move(r, "stored")
    /\ UNCHANGED <<figures, announced, editor, generation, flight, answer>>

\* A mutated form: a failed call leaves without releasing those who wait.
EndUnreleased(r, result) ==
    /\ flight' = IF flight[Key(r)] = r THEN [flight EXCEPT ![Key(r)] = NoReader] ELSE flight
    /\ answer' = IF result = Failure THEN answer ELSE [answer EXCEPT ![r] = result]
    /\ Return(r)
    /\ UNCHANGED <<figures, announced, editor, generation, cached>>

\* The call ends: its key is free at once, and all who wait on it can see the result.
End(r, result) ==
    /\ flight' = IF flight[Key(r)] = r THEN [flight EXCEPT ![Key(r)] = NoReader] ELSE flight
    /\ answer' = [answer EXCEPT ![r] = result]
    /\ Return(r)
    /\ UNCHANGED <<figures, announced, editor, generation, cached>>

FinishBuild(r) ==
    /\ reader[r].at = "stored"
    /\ End(r, reader[r].seen)

\* No slot in time, a failed query, the build's own deadline, or a panic.
FailBuild(r) ==
    /\ reader[r].at \in {"queued", "building"}
    /\ End(r, Failure)

\* A waiter takes the result of the call it joined.
Wake(r) ==
    /\ reader[r].at = "waiting"
    /\ answer[reader[r].leader] # NoAnswer
    /\ answer' = [answer EXCEPT ![r] = answer[reader[r].leader]]
    /\ Return(r)
    /\ UNCHANGED <<figures, announced, editor, generation, cached, flight>>

Advance(r) ==
    \/ ReadGeneration(r)
    \/ Join(r)
    \/ Lead(r)
    \/ LookupAgain(r)
    \/ AcquireSlot(r)
    \/ Read(r)
    \/ Store(r)
    \/ FinishBuild(r)
    \/ FailBuild(r)
    \/ Wake(r)

RankingsNext ==
    \/ \E e \in Editors : Commit(e) \/ ForgetRankings(e)
    \/ \E q \in Queries : Expire(q)
    \/ \E r \in Readers : (\E q \in Queries : Lookup(r, q)) \/ Advance(r)

RankingsFairness == \A r \in Readers : WF_rankingVars(Advance(r))

RankingsSpec == RankingsInit /\ [][RankingsNext]_rankingVars /\ RankingsFairness

-----------------------------------------------------------------------------
(* A request that comes after a write was announced never reads a ranking  *)
(* from before it: not from the cache, not by joining a build begun        *)
(* earlier, not from a build that outlived the write (allowances.go).      *)
RankingIsCurrent ==
    \A r \in Readers :
        Query(r) = "ranking" /\ answer[r].kind = "rows" => answer[r].version >= reader[r].asked

(* What the cache holds is never older than the newest announced write, so *)
(* that dropping the entries once is enough.                               *)
CacheIsCurrent == cached["ranking"].kind = "rows" => cached["ranking"].version >= announced

(* No more aggregate builds read the ledger at once than there are slots.  *)
BuildsBounded == Cardinality(Holding) <= BuildSlots

(* At most one build per key runs, and it is the registered one: whoever   *)
(* asks meanwhile joins it.                                                *)
OneBuildPerKey ==
    \A r, s \in Readers :
        (r # s /\ Key(r) = Key(s) /\ {reader[r].at, reader[s].at}
             \subseteq {"leading", "queued", "building", "built", "stored"}) => FALSE

(* Every request that missed the cache is answered, whether it built, lost *)
(* its slot, panicked or waited on a build that did.                       *)
EveryReaderAnswered == \A r \in Readers : (reader[r].at = "missed") ~> (reader[r].at = "answered")

(* Neither what a reader is given nor what is cached is older than a write *)
(* that was announced, and the ledger is read by as many builds as may.    *)
RankingsHold == RankingsTypeOK /\ RankingIsCurrent /\ CacheIsCurrent /\ BuildsBounded /\ OneBuildPerKey
=============================================================================
