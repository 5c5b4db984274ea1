------------------------------- MODULE Signup -------------------------------
(***************************************************************************)
(* Opening accounts (auth: service.go Register, provision.go, signup.go,   *)
(* screen.go; oauth/service.go resolve).                                   *)
(*                                                                         *)
(* A visitor registers with the form or arrives from a provider. The       *)
(* checks that cost something, challenges, guards and the screening of the *)
(* address, run before the transaction that holds the instance lock, on    *)
(* what the instance was then: an empty instance asks for none of them,    *)
(* and may be empty no longer when the lock is had. Several processes      *)
(* share the database, and each keeps a count of its own that only spares  *)
(* queries.                                                                *)
(***************************************************************************)
EXTENDS Integers, FiniteSets

CONSTANTS
    Visitors,           \* requests; each gives an address and opens one account at most
    WayOf,              \* visitor -> "form" or "provider"
    OriginOf,           \* visitor -> the network address it comes from
    ProcessOf,          \* visitor -> the process that serves it
    PerMinute, PerHour, \* SignupsPerMinute, SignupsPerHour
    PerAddress,         \* SignupsPerIP
    Minute, Hour, AddressWindow,
    LastSignupMoment    \* the clock stops here

ASSUME SignupAssumption ==
    /\ IsFiniteSet(Visitors)
    /\ WayOf \in [Visitors -> {"form", "provider"}]
    /\ {PerMinute, PerHour, PerAddress, Minute, Hour, AddressWindow, LastSignupMoment} \subseteq Nat \ {0}
    /\ Minute <= Hour

VARIABLES
    opened,      \* users: the account each visitor opened
    creations,   \* account_creations: the rows the limit counts
    gate,        \* signupGate of each process: as the rows, in memory
    visitor,     \* how far each request has come
    policy,      \* settings: registration open, challenges asked
    signupMoment

signupVars == <<opened, creations, gate, visitor, policy, signupMoment>>

Processes == {ProcessOf[v] : v \in Visitors}
Moments == 1..LastSignupMoment
Creations == [by : Visitors, at : Moments]
\* What became of the screening of the address: due, done, or nothing to screen.
Screenings == {"due", "done", "nothing"}
NoAccount == [state |-> "none", role |-> "none", at |-> 0, screened |-> "due", answered |-> FALSE, asked |-> FALSE]
Arriving == [at |-> "arriving", challenged |-> FALSE, screened |-> "due", guarded |-> FALSE]

SignupTypeOK ==
    /\ opened \in [Visitors -> [state : {"none", "open", "deleted"}, role : {"none", "user", "superadmin"},
                                at : 0..LastSignupMoment, screened : Screenings, answered : BOOLEAN, asked : BOOLEAN]]
    /\ creations \in SUBSET Creations /\ gate \in [Processes -> SUBSET Creations]
    /\ visitor \in [Visitors -> [at : {"arriving", "deciding", "unscreened", "unguarded", "done"},
                                 challenged : BOOLEAN, screened : Screenings, guarded : BOOLEAN]]
    /\ policy \in [registration : BOOLEAN, challenges : BOOLEAN] /\ signupMoment \in Moments

SignupInit ==
    /\ opened = [v \in Visitors |-> NoAccount]
    /\ creations = {} /\ gate = [p \in Processes |-> {}]
    /\ visitor = [v \in Visitors |-> Arriving]
    /\ policy \in [registration : {TRUE}, challenges : BOOLEAN]
    /\ signupMoment = 1

OpenAccounts == {v \in Visitors : opened[v].state = "open"}
Populated == OpenAccounts # {}
Within(rows, window) == {row \in rows : row.at > signupMoment - window}
Advances(v, to) == visitor' = [visitor EXCEPT ![v].at = to]
Over(v) == Advances(v, "done") /\ UNCHANGED <<opened, creations, gate, policy, signupMoment>>

-----------------------------------------------------------------------------
(* Before the transaction. *)

GateAllows(p) ==
    /\ Cardinality(Within(gate[p], Minute)) < PerMinute
    /\ Cardinality(Within(gate[p], Hour)) < PerHour

\* Register's preflight: on an empty instance nothing is asked. The slow work,
\* the screening and the hash, follows on what was seen here.
Preflight(v) ==
    /\ visitor[v].at = "arriving" /\ WayOf[v] = "form"
    /\ IF Populated
       THEN /\ policy.registration /\ GateAllows(ProcessOf[v])
            /\ gate' = [gate EXCEPT ![ProcessOf[v]] = Within(@, Hour)]
       ELSE UNCHANGED gate
    /\ visitor' = [visitor EXCEPT ![v] = [at |-> "deciding", challenged |-> Populated,
                                           screened |-> IF Populated THEN "done" ELSE "due", guarded |-> FALSE]]
    /\ UNCHANGED <<opened, creations, policy, signupMoment>>

\* resolve's: whether the sign-up door was passed is decided before, by its handler;
\* a first pass that may end in the details form does not screen, and a provider may
\* bring no address.
PreflightProvider(v) ==
    /\ visitor[v].at = "arriving" /\ WayOf[v] = "provider"
    /\ \E cleared \in {c \in BOOLEAN : ~policy.challenges => c}, screened \in {b \in Screenings : b = "done" => Populated} :
         visitor' = [visitor EXCEPT ![v] = [at |-> "deciding", challenged |-> cleared, screened |-> screened, guarded |-> FALSE]]
    /\ UNCHANGED <<opened, creations, gate, policy, signupMoment>>

\* Closed, throttled, a challenge failed, an address refused or taken.
Refuse(v) == visitor[v].at \in {"arriving", "unscreened", "unguarded"} /\ Over(v)

-----------------------------------------------------------------------------
(* The transaction, under the instance lock. *)

\* The first account is exempt from every control.
First(v) == ~Populated

\* A mutated form of Raced: a request that raced the first account goes on.
RacedNever(v) == v \notin Visitors

\* The challenges were skipped for an instance that is empty no more.
Raced(v) ==
    ~visitor[v].challenged /\ (WayOf[v] = "form" => policy.challenges)

\* account_creations, which every process reads.
CreatedWithin(v, window) == Cardinality(Within(creations, window))

RateExceeded(v) == CreatedWithin(v, Minute) >= PerMinute \/ CreatedWithin(v, Hour) >= PerHour

FromAddress(ip) == {a \in OpenAccounts : OriginOf[a] = ip /\ opened[a].at >= signupMoment - AddressWindow}

AddressFull(v) == Cardinality(FromAddress(OriginOf[v])) >= PerAddress

\* What a pass still lacks is asked for with no lock held, and the pass repeated.
NeedsScreening(v) == ~First(v) /\ visitor[v].screened = "due"
NeedsGuards(v) == ~First(v) /\ WayOf[v] = "provider" /\ ~visitor[v].guarded
RefusedByControls(v) ==
    ~First(v) /\ (Raced(v) \/ ~policy.registration \/ RateExceeded(v) \/ AddressFull(v))

\* The race and the switch are asked first; the screening before the counts.
HandBack(v) ==
    /\ visitor[v].at = "deciding" /\ ~First(v) /\ ~Raced(v)
    /\ \/ NeedsScreening(v) /\ (WayOf[v] = "form" => policy.registration) /\ Advances(v, "unscreened")
       \/ ~NeedsScreening(v) /\ NeedsGuards(v) /\ Advances(v, "unguarded")
    /\ UNCHANGED <<opened, creations, gate, policy, signupMoment>>

Screen(v) ==
    /\ visitor[v].at = "unscreened"
    /\ visitor' = [visitor EXCEPT ![v].at = "deciding", ![v].screened = "done"]
    /\ UNCHANGED <<opened, creations, gate, policy, signupMoment>>

AskGuards(v) ==
    /\ visitor[v].at = "unguarded"
    /\ visitor' = [visitor EXCEPT ![v].at = "deciding", ![v].guarded = TRUE]
    /\ UNCHANGED <<opened, creations, gate, policy, signupMoment>>

\* The rows that have left the hour go, the new one comes.
Recorded(rows, v) == Within(rows, Hour) \cup {[by |-> v, at |-> signupMoment]}
RecordedIn(v) == [gate EXCEPT ![ProcessOf[v]] = Recorded(@, v)]

Create(v) ==
    /\ visitor[v].at = "deciding"
    /\ ~NeedsScreening(v) /\ ~NeedsGuards(v) /\ ~RefusedByControls(v)
    /\ opened' = [opened EXCEPT ![v] =
                    [state |-> "open", role |-> IF First(v) THEN "superadmin" ELSE "user", at |-> signupMoment,
                     screened |-> visitor[v].screened, answered |-> visitor[v].challenged,
                     asked |-> policy.challenges]]
    /\ creations' = Recorded(creations, v) /\ gate' = RecordedIn(v)
    /\ Advances(v, "done")
    /\ UNCHANGED <<policy, signupMoment>>

\* A refusal by the controls, a taken name, a bad code: everything rolls back.
RefuseLocked(v) == visitor[v].at = "deciding" /\ Over(v)

\* The insert or the commit fails after the process has counted the account.
CommitFails(v) ==
    /\ visitor[v].at = "deciding"
    /\ ~NeedsScreening(v) /\ ~NeedsGuards(v) /\ ~RefusedByControls(v)
    /\ gate' = RecordedIn(v)
    /\ Advances(v, "done")
    /\ UNCHANGED <<opened, creations, policy, signupMoment>>

-----------------------------------------------------------------------------
(* Around them. *)

\* Only an account that administers nothing can be deleted while the instance has one administrator.
DeleteAccount(v) ==
    /\ opened[v].state = "open" /\ opened[v].role = "user"
    /\ opened' = [opened EXCEPT ![v].state = "deleted"]
    /\ UNCHANGED <<creations, gate, visitor, policy, signupMoment>>

SetPolicy ==
    /\ Populated
    /\ policy' \in [registration : BOOLEAN, challenges : BOOLEAN]
    /\ UNCHANGED <<opened, creations, gate, visitor, signupMoment>>

\* A process starts again: its own count is gone, and so are its requests.
Restart(p) ==
    /\ gate' = [gate EXCEPT ![p] = {}]
    /\ visitor' = [v \in Visitors |-> IF ProcessOf[v] = p /\ visitor[v].at # "arriving"
                                      THEN [visitor[v] EXCEPT !.at = "done"] ELSE visitor[v]]
    /\ UNCHANGED <<opened, creations, policy, signupMoment>>

SignupTick ==
    /\ signupMoment < LastSignupMoment
    /\ signupMoment' = signupMoment + 1
    /\ UNCHANGED <<opened, creations, gate, visitor, policy>>

SignupNext ==
    \/ \E v \in Visitors :
         \/ Preflight(v) \/ PreflightProvider(v) \/ Refuse(v)
         \/ HandBack(v) \/ Screen(v) \/ AskGuards(v)
         \/ Create(v) \/ RefuseLocked(v) \/ CommitFails(v) \/ DeleteAccount(v)
    \/ \E p \in Processes : Restart(p)
    \/ SetPolicy \/ SignupTick

SignupSpec == SignupInit /\ [][SignupNext]_signupVars

-----------------------------------------------------------------------------
(* Properties. *)

Ever == {v \in Visitors : opened[v].state # "none"}

\* One account founds the instance, and it is the oldest: requests that all saw
\* an empty instance do not each become its administrator (service.go:562).
OneFounder ==
    Ever # {} => \E f \in Ever : /\ \A v \in Ever : (opened[v].role = "superadmin") <=> v = f
                                 /\ \A v \in Ever : opened[f].at <= opened[v].at

\* No account but the founder was opened with its address unscreened, and while challenges are asked
\* none was by a request that had skipped them for an empty instance (service.go:580, oauth/service.go:557).
NobodyJumpsTheControls ==
    \A v \in Ever : opened[v].role = "user" =>
        opened[v].screened # "due" /\ (opened[v].asked => opened[v].answered)

\* No window of a minute or an hour has more sign-ups than its limit, whichever
\* process served them and however often they were started (signup.go:112).
RateKept ==
    \A t \in Moments :
        LET since(w) == {v \in Ever : opened[v].at > t - w /\ opened[v].at <= t}
        IN  Cardinality(since(Minute)) <= PerMinute /\ Cardinality(since(Hour)) <= PerHour

\* One address has no more accounts of one window than it may have (service.go:617).
AddressRateKept ==
    \A ip \in {OriginOf[v] : v \in Visitors}, t \in Moments :
        Cardinality({v \in OpenAccounts : OriginOf[v] = ip /\ opened[v].at >= t - AddressWindow /\ opened[v].at <= t}) <= PerAddress

\* Every account came through the controls and within the rates, and one founded
\* the instance.
SignupHolds == SignupTypeOK /\ OneFounder /\ NobodyJumpsTheControls /\ RateKept /\ AddressRateKept
=============================================================================
