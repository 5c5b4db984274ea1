------------------------------- MODULE Limiter -------------------------------
(***************************************************************************)
(* The throttle in front of every guessed secret (auth/limiter.go).        *)
(*                                                                         *)
(* A map of buckets, one per address and one per identifier, under one     *)
(* mutex: Begin and finish are each one critical section, and the password *)
(* is hashed between them. The map is swept for idle buckets, and past a   *)
(* ceiling the reclaimable ones are evicted.                               *)
(***************************************************************************)
EXTENDS Integers, FiniteSets, FiniteSetsExt

CONSTANTS
    Names, Addresses,       \* identifiers and addresses, one bucket each
    Attempts,               \* requests that are hashing at the same time
    FreeAttempts, AddressFreeAttempts,
    BucketTTL, MaxBackoff, SweepInterval, FullSweepInterval,
    Ceiling,                \* most reclaimable buckets
    Batch,                  \* what a walk that evicts takes at least: a tenth of the ceiling
    MostFailures,           \* bound: failures of a bucket
    LastMoment              \* the clock stops here

ASSUME LimiterAssumption ==
    /\ IsFiniteSet(Names) /\ IsFiniteSet(Addresses) /\ IsFiniteSet(Attempts)
    /\ Names \cap Addresses = {}
    /\ {FreeAttempts, AddressFreeAttempts, BucketTTL, MaxBackoff, SweepInterval, FullSweepInterval,
        Ceiling, Batch, MostFailures, LastMoment} \subseteq Nat

VARIABLES
    bucket,       \* Limiter.buckets, by key; Absent where the map has no entry
    protected,    \* how many buckets protect an account
    attempt,      \* the reservations that have not finished
    swept,        \* lastSwept, lastFullSweep and fullSweepMadeRoom
    moment

limiterVars == <<bucket, protected, attempt, swept, moment>>

Keys == Names \cup Addresses
Absent == [held |-> FALSE, failures |-> 0, inFlight |-> 0, blocked |-> 0, last |-> 0, matched |-> FALSE]
NoAttempt == {}
Outcomes == {"cancelled", "failed", "unmatched", "succeeded"}

LimiterTypeOK ==
    /\ bucket \in [Keys -> [held : BOOLEAN, failures : 0..MostFailures, inFlight : 0..Cardinality(Attempts),
                            blocked : 0..(LastMoment + MaxBackoff), last : 0..LastMoment, matched : BOOLEAN]]
    /\ protected \in 0..Cardinality(Keys)
    /\ attempt \in [Attempts -> SUBSET Keys]
    /\ swept \in [idle : 0..LastMoment, full : (0 - FullSweepInterval)..LastMoment, room : BOOLEAN]
    /\ moment \in 0..LastMoment

LimiterInit ==
    /\ bucket = [k \in Keys |-> Absent]
    /\ protected = 0
    /\ attempt = [a \in Attempts |-> NoAttempt]
    /\ swept = [idle |-> 0, full |-> 0 - FullSweepInterval, room |-> FALSE]
    /\ moment = 0

-----------------------------------------------------------------------------
(* The map. *)

Allowance(k) == IF k \in Names THEN FreeAttempts ELSE AddressFreeAttempts
\* A second, shifted by one less than the step and 16 at most.
Doubled == <<1, 2, 4, 8, 16, 32, 64, 128, 256, 512, 1024, 2048, 4096, 8192, 16384, 32768, 65536>>
Backoff(step) ==
    LET wait == Doubled[IF step < 17 THEN step ELSE 17] IN IF wait > MaxBackoff THEN MaxBackoff ELSE wait
Held(map) == {k \in Keys : map[k].held}
Protecting(map, ks) == Cardinality({k \in ks : map[k].matched})

\* removeLocked, of every key in ks: the protected count stays in step.
Removed(state, ks) ==
    [map |-> [k \in Keys |-> IF k \in ks THEN Absent ELSE state.map[k]],
     protected |-> state.protected - Protecting(state.map, ks)]

\* Mutant: an attempt that is still hashing does not hold its bucket.
ForgettableInFlight(b) == moment - b.last > BucketTTL /\ moment > b.blocked
\* Idle for BucketTTL, serving no block, with no attempt waiting to record an outcome.
Forgettable(b) == b.inFlight = 0 /\ moment - b.last > BucketTTL /\ moment > b.blocked
DropIdle(state) == Removed(state, {k \in Held(state.map) : Forgettable(state.map[k])})

OverCeiling(state, ks) ==
    (Cardinality(Held(state.map)) - state.protected) + Cardinality(ks \ Held(state.map)) - Ceiling

\* Mutant: a bucket that serves a block is reclaimed as any other.
ReclaimableBlocked(state, ks) ==
    {k \in Held(state.map) \ ks : ~state.map[k].matched /\ state.map[k].inFlight = 0}
Reclaimable(state, ks) ==
    {k \in Held(state.map) \ ks :
        ~state.map[k].matched /\ state.map[k].inFlight = 0 /\ state.map[k].blocked <= moment}

\* Names go before addresses, then the least recently used; among equals any.
Before(map, j, k) ==
    \/ j \in Names /\ k \in Addresses
    \/ (j \in Names <=> k \in Names) /\ map[j].last < map[k].last
Evictions(state, ks, want) ==
    LET candidates == Reclaimable(state, ks)
        count == IF want < Cardinality(candidates) THEN want ELSE Cardinality(candidates) IN
    {gone \in SUBSET candidates :
        Cardinality(gone) = count /\ \A k \in gone, j \in candidates \ gone : ~Before(state.map, j, k)}

\* sweepLocked, on the way into every Begin.
Sweeps == moment - swept.idle >= SweepInterval
Swept == LET state == [map |-> bucket, protected |-> protected] IN IF Sweeps THEN DropIdle(state) ELSE state
SweptAt == IF Sweeps THEN [swept EXCEPT !.idle = moment] ELSE swept

\* A full map is walked, unless the last walk freed too little and was just now.
Walks(state, ks) == OverCeiling(state, ks) > 0 /\ (swept.room \/ moment - swept.full >= FullSweepInterval)

\* makeRoomFor: the states of the map it may leave, with whether it made the room asked for.
\* It evicts in batches, so that the next walk is some names away.
RoomMade(state, ks) ==
    LET walked == DropIdle(state)
        excess == OverCeiling(walked, ks) IN
    IF excess <= 0 THEN {[state |-> walked, room |-> TRUE]}
    ELSE {[state |-> Removed(walked, gone), room |-> Cardinality(gone) >= excess] :
              gone \in Evictions(walked, ks, IF excess > Batch THEN excess ELSE Batch)}

-----------------------------------------------------------------------------
(* Begin and finish. *)

\* Attempts running at the same moment share the allowance.
WaveFull(b, k) == b.inFlight > 0 /\ b.failures + b.inFlight > Allowance(k)
Refused(state, ks) == \E k \in ks : state.map[k].blocked > moment \/ WaveFull(state.map[k], k)

\* keys: an attempt has an identifier, an address, or both.
KeySets == {{n} : n \in Names} \cup {{i} : i \in Addresses} \cup {{n, i} : n \in Names, i \in Addresses}

Reserved(map, ks) ==
    [k \in Keys |-> IF k \in ks THEN [map[k] EXCEPT !.held = TRUE, !.inFlight = @ + 1, !.last = moment] ELSE map[k]]

BeginRefusedBy(ks) ==
    /\ Refused(Swept, ks)
    /\ bucket' = Swept.map /\ protected' = Swept.protected /\ swept' = SweptAt
    /\ UNCHANGED <<attempt, moment>>

BeginAttempt(a, ks) ==
    /\ attempt[a] = NoAttempt
    /\ ~Refused(Swept, ks)
    /\ \E made \in IF Walks(Swept, ks) THEN RoomMade(Swept, ks) ELSE {[state |-> Swept, room |-> swept.room]} :
         /\ bucket' = Reserved(made.state.map, ks)
         /\ protected' = made.state.protected
         /\ swept' = IF Walks(Swept, ks) THEN [SweptAt EXCEPT !.full = moment, !.room = made.room] ELSE SweptAt
    /\ attempt' = [attempt EXCEPT ![a] = ks]
    /\ UNCHANGED moment

\* Only the account's own bucket is forgiven.
Forgiven(k) == k \in Names

Outcome(b, k, outcome) ==
    CASE outcome \in {"failed", "unmatched"} ->
           [b EXCEPT !.failures = @ + 1, !.last = moment, !.matched = @ \/ (outcome = "failed" /\ k \in Names),
                     !.blocked = IF b.failures + 1 > Allowance(k)
                                   THEN moment + Backoff(b.failures + 1 - Allowance(k)) ELSE @]
      [] outcome = "succeeded" /\ Forgiven(k) -> [b EXCEPT !.failures = 0, !.blocked = 0, !.matched = @ \/ k \in Names]
      [] OTHER -> b

Settled(ks, outcome) ==
    [k \in Keys |-> IF k \in ks /\ bucket[k].held
                      THEN Outcome([bucket[k] EXCEPT !.inFlight = IF @ > 0 THEN @ - 1 ELSE 0], k, outcome)
                      ELSE bucket[k]]

Finish(a, outcome) ==
    LET ks == attempt[a]
        map == Settled(ks, outcome)
        spent == {k \in ks : map[k].held /\ map[k].inFlight = 0 /\ map[k].failures = 0} IN
    /\ ks # NoAttempt
    /\ outcome \in {"failed", "unmatched"} => \A k \in ks : bucket[k].failures < MostFailures
    /\ LET marked == [map |-> map, protected |-> protected + Protecting(map, ks) - Protecting(bucket, ks)]
           state == Removed(marked, spent) IN
         bucket' = state.map /\ protected' = state.protected
    /\ attempt' = [attempt EXCEPT ![a] = NoAttempt]
    /\ UNCHANGED <<swept, moment>>

Pass ==
    /\ moment < LastMoment
    /\ moment' = moment + 1
    /\ UNCHANGED <<bucket, protected, attempt, swept>>

LimiterNext ==
    \/ \E ks \in KeySets : BeginRefusedBy(ks) \/ \E a \in Attempts : BeginAttempt(a, ks)
    \/ \E a \in Attempts, outcome \in Outcomes : Finish(a, outcome)
    \/ Pass

LimiterSpec == LimiterInit /\ [][LimiterNext]_limiterVars

-----------------------------------------------------------------------------
(* Properties. *)

\* The count the ceiling is checked with is the number of buckets that protect an
\* account: sweeps, evictions, successes and failures keep it in step (limiter.go:44).
ProtectedExact == protected = Protecting(bucket, Keys)

\* No attempt loses its bucket: what runs is what the buckets count, so that every
\* outcome finds the bucket it has to be recorded in (limiter.go:383).
InFlightExact == \A k \in Keys : bucket[k].inFlight = Cardinality({a \in Attempts : k \in attempt[a]})

\* A burst gets the allowance and one more, not a wave: failures recorded and
\* attempts running together stay within it (limiter.go:235).
WaveBounded ==
    \A k \in Keys : bucket[k].inFlight >= 2 => bucket[k].failures + bucket[k].inFlight <= Allowance(k) + 1

SucceedsFor(k) == k \in Names /\ \E a \in Attempts : k \in attempt[a] /\ Finish(a, "succeeded")

\* A block is served: neither pressure on the map nor a success at another account
\* lifts it; only the account's own right password does (limiter.go:52, 165). And what
\* was counted against an account is not forgotten under a flood of names that match
\* nothing: only that password or BucketTTL of quiet clears it (limiter.go:34).
LimiterServes ==
    [][\A k \in Keys :
          \/ /\ bucket[k].blocked > moment => bucket'[k].blocked >= bucket[k].blocked
             /\ k \in Names /\ bucket[k].matched /\ bucket'[k].failures < bucket[k].failures
                  => moment - bucket[k].last > BucketTTL
          \/ SucceedsFor(k)]_limiterVars

\* The map's counts are what they stand for, and no wave gets past them.
LimiterCounts == LimiterTypeOK /\ ProtectedExact /\ InFlightExact /\ WaveBounded
=============================================================================
