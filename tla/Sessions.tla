------------------------------ MODULE Sessions ------------------------------
(***************************************************************************)
(* The sign-ins of one account and its second step (auth: service.go,      *)
(* session.go, twofactor.go).                                              *)
(*                                                                         *)
(* A password takes long to verify, so every operation reads the account,  *)
(* checks what it was given, and writes later in a transaction that holds  *)
(* the account's row. Between the two, other requests change the password, *)
(* enrol, reset, sign out or disable the account.                          *)
(***************************************************************************)
EXTENDS Integers, FiniteSets

CONSTANTS
    Requests,          \* requests in flight
    Passwords,         \* password values; a fresh one is one that nothing refers to
    MostFactors,       \* bound: secrets handed out
    MostSessions,      \* bound: session rows at a time
    LastTick           \* the clock of the one-time codes stops here

ASSUME SessionsAssumption ==
    /\ IsFiniteSet(Requests) /\ IsFiniteSet(Passwords) /\ Passwords # {}
    /\ {MostFactors, MostSessions, LastTick} \subseteq Nat \ {0}

VARIABLES
    account,     \* users: stored hash, status, two_factor_at
    factor,      \* two_factor: secret and pending secret, last_step, recovery set
    session,     \* the rows of sessions
    request,     \* what each request in flight has read
    cookies,     \* remembered-browser cookies: the enrolment and hash each is bound to
    tick,
    issued,      \* history: secrets handed out
    chosen,      \* history: the password last set on purpose
    bought       \* history: what each one-time or recovery code of the enrolment on file has bought

sessionVars == <<account, factor, session, request, cookies, tick, issued, chosen, bought>>

Secrets == 1..MostFactors
Ids == 1..MostSessions
Steps == 0..(LastTick + 1)
NoPassword == "none"                \* an account opened through a provider
Hashes == [of : Passwords, weak : BOOLEAN] \cup {[of |-> NoPassword, weak |-> FALSE]}
NoHash == [of |-> NoPassword, weak |-> FALSE]
\* A code is a step of a secret, or its sheet of recovery codes, which holds one.
Sheet == LastTick + 2
CodesOf(secret) == {<<secret, t>> : t \in Steps \cup {Sheet}}
NoSession == [live |-> FALSE, pending |-> FALSE, by |-> NoPassword, factor |-> 0,
              visit |-> 0, left |-> FALSE, fresh |-> FALSE]
Row(pending, by, secret) ==
    [live |-> TRUE, pending |-> pending, by |-> by, factor |-> secret, visit |-> 0, left |-> FALSE, fresh |-> TRUE]
NoFactor == [secret |-> 0, pending |-> 0, lastStep |-> 0, recovery |-> FALSE]
Blank(at) == [op |-> "idle", at |-> at, hash |-> NoHash, factorAt |-> 0, sess |-> 0,
              step |-> 0, spent |-> 0, remembered |-> FALSE]
Idle == Blank("start")
Done == Blank("issued")     \* bound: a request carries one operation
\* What an operation has read of the account.
Begun(op, hash, i, remembered) ==
    [op |-> op, at |-> "read", hash |-> hash, factorAt |-> account.factorAt, sess |-> i,
     step |-> 0, spent |-> 0, remembered |-> remembered]

Operations == {"password", "provider", "complete", "change", "begin", "enable",
               "disable", "enter", "keep", "leave"}

SessionsTypeOK ==
    /\ account \in [hash : Hashes, active : BOOLEAN, factorAt : 0..MostFactors]
    /\ factor \in [secret : 0..MostFactors, pending : 0..MostFactors, lastStep : Steps, recovery : BOOLEAN]
    /\ session \in [Ids -> [live : BOOLEAN, pending : BOOLEAN, by : Passwords \cup {NoPassword},
                            factor : 0..MostFactors, visit : 0..MostFactors, left : BOOLEAN, fresh : BOOLEAN]]
    /\ request \in [Requests -> [op : Operations \cup {"idle"}, at : {"start", "read", "matched", "spent", "issued"},
                                 hash : Hashes, factorAt : 0..MostFactors, sess : 0..MostSessions,
                                 step : Steps, spent : 0..MostFactors, remembered : BOOLEAN]]
    /\ cookies \subseteq [factorAt : Secrets, hash : Hashes]
    /\ tick \in 1..LastTick
    /\ issued \in 0..MostFactors
    /\ chosen \in Passwords \cup {NoPassword}
    /\ bought \in [UNION {CodesOf(s) : s \in Secrets} -> 0..2]

\* An account with a password hashed under older parameters, or with none, signed in once;
\* before, in the middle of or after its enrolment, where a second sign-in may be waiting.
SessionsInit ==
    /\ \E first \in {NoPassword, CHOOSE p \in Passwords : TRUE},
         enrolment \in {"none", "begun", "done", "waiting"} :
         LET secret == IF enrolment \in {"none", "begun"} THEN 0 ELSE 1 IN
         /\ account = [hash |-> [of |-> first, weak |-> first # NoPassword], active |-> TRUE, factorAt |-> secret]
         /\ factor = [secret |-> secret, pending |-> IF enrolment = "begun" THEN 1 ELSE 0,
                      lastStep |-> 0, recovery |-> secret # 0]
         /\ chosen = first
         /\ issued = IF enrolment = "none" THEN 0 ELSE 1
         /\ session = [i \in Ids |-> CASE i = 1 -> [Row(FALSE, first, secret) EXCEPT !.visit = secret]
                                       [] i = 2 /\ enrolment = "waiting" -> Row(TRUE, first, 0)
                                       [] OTHER -> NoSession]
    /\ request = [r \in Requests |-> Idle]
    /\ cookies = {}
    /\ tick = 1
    /\ bought = [c \in UNION {CodesOf(s) : s \in Secrets} |-> 0]

-----------------------------------------------------------------------------
(* Helpers. *)

Full(i) == session[i].live /\ ~session[i].pending
Spare == {i \in Ids : ~session[i].live /\ \A r \in Requests : request[r].sess # i}
\* A password nobody has typed and no row carries stands for a new one: its hash, salted, is new too.
FreshPasswords ==
    Passwords \ ({account.hash.of} \cup {session[i].by : i \in Ids} \cup {request[r].hash.of : r \in Requests}
                 \cup {c.hash.of : c \in cookies})
EndOthers(rows, kept) == [i \in Ids |-> IF i \in kept THEN rows[i] ELSE NoSession]

\* confirmNewSignIn's answer for an account with no password: a sign-in made just now.
RecentSignIn(i) == session[i].live /\ session[i].fresh

\* A one-time code is good for the step before and the step after the clock's.
Matches(step) == step \in (tick - 1)..(tick + 1)
Buys(code) == bought' = [bought EXCEPT ![code] = IF @ < 2 /\ factor.secret \in {0, code[1]} THEN @ + 1 ELSE @]

-----------------------------------------------------------------------------
(* Reading, before the lock. *)

\* Attach has resolved the cookie: the handler works on this copy of the account and the session.
Attached(r, i, op) ==
    /\ request[r] = Idle
    /\ Full(i) /\ account.active
    /\ request' = [request EXCEPT ![r] = Begun(op, account.hash, i, FALSE)]

\* The account's state lets the operation pass its first checks.
Admitted(i, op) ==
    CASE op \in {"disable", "enter"} -> account.factorAt # 0
      [] op = "begin"                -> account.factorAt = 0
      [] op \in {"change", "enable"} -> account.hash # NoHash \/ RecentSignIn(i)
      [] op \in {"keep", "leave"}    -> session[i].visit # 0

Ask(r, i, op) ==
    /\ Admitted(i, op)
    /\ Attached(r, i, op)
    /\ UNCHANGED <<account, factor, session, cookies, tick, issued, chosen, bought>>

Remembered == [factorAt |-> account.factorAt, hash |-> account.hash] \in cookies

\* CredentialsByLogin and the Argon2 check, or a provider's answer; then the remembered cookie.
SignInRead(r, op) ==
    /\ request[r] = Idle
    /\ op = "password" => account.hash # NoHash /\ account.active
    /\ \E sent \in BOOLEAN : request' = [request EXCEPT ![r] = Begun(op, account.hash, 0, sent /\ Remembered)]
    /\ UNCHANGED <<account, factor, session, cookies, tick, issued, chosen, bought>>

\* CompleteSignIn finds the pending session; a factor switched off meanwhile ends it.
CompleteRead(r, i) ==
    /\ request[r] = Idle
    /\ session[i].live /\ session[i].pending /\ account.active
    /\ IF account.factorAt = 0
         THEN session' = [session EXCEPT ![i] = NoSession] /\ UNCHANGED request
         ELSE /\ request' = [request EXCEPT ![r] = Begun("complete", NoHash, i, FALSE)]
              /\ UNCHANGED session
    /\ UNCHANGED <<account, factor, cookies, tick, issued, chosen, bought>>

GiveUp(r) ==
    /\ request[r] \notin {Idle, Done}
    /\ request' = [request EXCEPT ![r] = Done]
    /\ UNCHANGED <<account, factor, session, cookies, tick, issued, chosen, bought>>

-----------------------------------------------------------------------------
(* Issuing a session. *)

\* Mutant: the hash that was verified is taken for the one on file.
StillProvedAssumed(r) == TRUE

\* Login's transaction requires the hash it verified; a provider's sign-in only that a
\* remembered browser is judged against it.
StillProved(r) == request[r].op = "password" => account.hash = request[r].hash
RememberedStill(r) ==
    /\ request[r].remembered
    /\ account.factorAt = request[r].factorAt
    /\ request[r].op = "provider" => account.hash = request[r].hash
Pending(r) == account.factorAt # 0 /\ ~RememberedStill(r)

Issue(r) ==
    /\ request[r].op \in {"password", "provider"} /\ request[r].at = "read"
    /\ StillProved(r)
    /\ account.active
    /\ \E i \in Spare :
         session' = [session EXCEPT ![i] =
            Row(Pending(r), IF request[r].op = "password" THEN request[r].hash.of ELSE NoPassword,
                IF RememberedStill(r) THEN account.factorAt ELSE 0)]
    /\ request' = [request EXCEPT ![r] = IF request[r].hash.weak /\ request[r].op = "password"
                                         THEN [request[r] EXCEPT !.at = "issued"] ELSE Done]
    /\ UNCHANGED <<account, factor, cookies, tick, issued, chosen, bought>>

\* ReplacePasswordHash: only the hash that was verified is replaced.
Replaces(r) == account.hash = request[r].hash

Rehash(r) ==
    /\ request[r].op = "password" /\ request[r].at = "issued"
    /\ account' = IF Replaces(r) THEN [account EXCEPT !.hash = [of |-> request[r].hash.of, weak |-> FALSE]] ELSE account
    /\ request' = [request EXCEPT ![r] = Done]
    /\ UNCHANGED <<factor, session, cookies, tick, issued, chosen, bought>>

-----------------------------------------------------------------------------
(* The password. *)

\* Reissue copies the row to a new token; every other row of the account ends, the old one too.
ReissuedTo(i, j, p) == EndOthers([session EXCEPT ![j] = [session[i] EXCEPT !.by = p]], {j})

ChangePassword(r) ==
    /\ request[r].op = "change" /\ request[r].at = "read"
    /\ account.hash = request[r].hash
    /\ LET i == request[r].sess IN
         /\ session[i].live
         /\ account.hash = NoHash => RecentSignIn(i)
         /\ \E p \in FreshPasswords, j \in Spare :
              /\ account' = [account EXCEPT !.hash = [of |-> p, weak |-> FALSE]]
              /\ chosen' = p
              /\ session' = ReissuedTo(i, j, p)
    /\ request' = [request EXCEPT ![r] = Done]
    /\ UNCHANGED <<factor, cookies, tick, issued, bought>>

\* SetPassword, the administrator's reset.
SetPassword ==
    /\ \E p \in FreshPasswords :
         /\ account' = [account EXCEPT !.hash = [of |-> p, weak |-> FALSE]]
         /\ chosen' = p
    /\ session' = EndOthers(session, {})
    /\ UNCHANGED <<factor, request, cookies, tick, issued, bought>>

-----------------------------------------------------------------------------
(* The second step. *)

\* Only the pending columns: a confirmation that came first keeps its secret.
BeginTwoFactor(r) ==
    /\ request[r].op = "begin" /\ request[r].at = "read"
    /\ issued < MostFactors
    /\ issued' = issued + 1
    /\ factor' = [factor EXCEPT !.pending = issued + 1]
    /\ request' = [request EXCEPT ![r] = Done]
    /\ UNCHANGED <<account, session, cookies, tick, chosen, bought>>

\* The session that confirmed is kept, has proved the factor, and has its visit opened.
Enrolled(i, secret) ==
    EndOthers([session EXCEPT ![i] = [@ EXCEPT !.factor = secret, !.visit = secret, !.left = FALSE]],
              {i} \cap {j \in Ids : session[j].live})

EnableTwoFactor(r, step) ==
    /\ request[r].op = "enable" /\ request[r].at = "read"
    /\ account.factorAt = 0
    /\ account.hash = request[r].hash
    /\ account.hash = NoHash => RecentSignIn(request[r].sess)
    /\ factor.pending # 0
    /\ Matches(step)
    /\ Buys(<<factor.pending, step>>)
    /\ factor' = [secret |-> factor.pending, pending |-> 0, lastStep |-> step, recovery |-> TRUE]
    /\ account' = [account EXCEPT !.factorAt = factor.pending]
    /\ session' = Enrolled(request[r].sess, factor.pending)
    /\ request' = [request EXCEPT ![r] = Done]
    /\ UNCHANGED <<cookies, tick, issued, chosen>>

\* checkCode, read: the code is one of the secret on file.
MatchCode(r, step) ==
    /\ request[r].op \in {"complete", "disable", "enter"} /\ request[r].at = "read"
    /\ factor.secret # 0
    /\ Matches(step)
    /\ request' = [request EXCEPT ![r] = [@ EXCEPT !.at = "matched", !.step = step, !.spent = factor.secret]]
    /\ UNCHANGED <<account, factor, session, cookies, tick, issued, chosen, bought>>

\* checkCode, write: the conditional UPDATE is the check.
Unspent(r) == factor.secret # 0 /\ factor.lastStep < request[r].step

SpendCode(r) ==
    /\ request[r].at = "matched"
    /\ IF Unspent(r)
         THEN /\ factor' = [factor EXCEPT !.lastStep = request[r].step]
              /\ request' = [request EXCEPT ![r].at = "spent"]
              /\ Buys(<<request[r].spent, request[r].step>>)
         ELSE request' = [request EXCEPT ![r] = Done] /\ UNCHANGED <<factor, bought>>
    /\ UNCHANGED <<account, session, cookies, tick, issued, chosen>>

\* checkCode with a recovery code, in one transaction.
SpendRecovery(r) ==
    /\ request[r].op \in {"complete", "disable", "enter"} /\ request[r].at = "read"
    /\ factor.secret # 0 /\ factor.recovery
    /\ factor' = [factor EXCEPT !.recovery = FALSE]
    /\ request' = [request EXCEPT ![r] = [@ EXCEPT !.at = "spent", !.spent = factor.secret]]
    /\ Buys(<<factor.secret, Sheet>>)
    /\ UNCHANGED <<account, session, cookies, tick, issued, chosen>>

\* The browser asked to be remembered under the enrolment it proved: its cookie is still to be made.
Owed(r) ==
    [op |-> "complete", at |-> "issued", hash |-> NoHash, factorAt |-> request[r].factorAt, sess |-> 0,
     step |-> 0, spent |-> 0, remembered |-> FALSE]

\* CompleteSignIn's transaction: the pending row is there to delete, under the same enrolment.
Tradable(r) ==
    /\ account.active
    /\ account.factorAt = request[r].factorAt
    /\ session[request[r].sess].live /\ session[request[r].sess].pending

Trade(r) ==
    /\ request[r].op = "complete" /\ request[r].at = "spent"
    /\ Tradable(r)
    /\ \E j \in Spare :
         session' = [session EXCEPT ![request[r].sess] = NoSession,
                                    ![j] = Row(FALSE, session[request[r].sess].by, request[r].spent)]
    /\ \E rest \in {Done, Owed(r)} : request' = [request EXCEPT ![r] = rest]
    /\ UNCHANGED <<account, factor, cookies, tick, issued, chosen, bought>>

\* The cookie is bound to that enrolment and to the hash on file by now.
Remember(r) ==
    /\ request[r].op = "complete" /\ request[r].at = "issued"
    /\ cookies' = {[factorAt |-> request[r].factorAt, hash |-> account.hash]}
    /\ request' = [request EXCEPT ![r] = Done]
    /\ UNCHANGED <<account, factor, session, tick, issued, chosen, bought>>

\* clearTwoFactor.
Cleared ==
    /\ account.factorAt # 0
    /\ account' = [account EXCEPT !.factorAt = 0]
    /\ factor' = NoFactor
    /\ session' = [i \in Ids |-> [session[i] EXCEPT !.visit = 0]]

DisableTwoFactor(r) ==
    /\ request[r].op = "disable" /\ request[r].at = "spent"
    /\ Cleared
    /\ request' = [request EXCEPT ![r] = Done]
    /\ UNCHANGED <<cookies, tick, issued, chosen, bought>>

ResetTwoFactor == Cleared /\ UNCHANGED <<request, cookies, tick, issued, chosen, bought>>

-----------------------------------------------------------------------------
(* Visits to the backoffice, held by a session. *)

\* An UPDATE by id: a row that has gone is not written.
Visit(i, secret, left) == session' = [session EXCEPT ![i] = IF @.live THEN [@ EXCEPT !.visit = secret, !.left = left] ELSE @]

EnterBackoffice(r) ==
    /\ request[r].op = "enter" /\ request[r].at = "spent"
    /\ Visit(request[r].sess, request[r].spent, FALSE)
    /\ request' = [request EXCEPT ![r] = Done]
    /\ UNCHANGED <<account, factor, cookies, tick, issued, chosen, bought>>

\* ExtendBackofficeVisit: only a visit the row shows open.
Slides(i) == session[i].visit # 0

KeepBackofficeOpen(r) ==
    /\ request[r].op = "keep" /\ request[r].at = "read"
    /\ session' = [session EXCEPT ![request[r].sess] =
                     IF @.live /\ Slides(request[r].sess) THEN [@ EXCEPT !.visit = request[r].factorAt] ELSE @]
    /\ request' = [request EXCEPT ![r] = Done]
    /\ UNCHANGED <<account, factor, cookies, tick, issued, chosen, bought>>

\* LeaveBackoffice, and Attach when the request comes from elsewhere.
LeaveBackoffice(r) ==
    /\ request[r].op = "leave" /\ request[r].at = "read"
    /\ Visit(request[r].sess, 0, TRUE)
    /\ request' = [request EXCEPT ![r] = Done]
    /\ UNCHANGED <<account, factor, cookies, tick, issued, chosen, bought>>

-----------------------------------------------------------------------------
(* Signing out, expiry, and the administrator's switch. *)

\* Logout, one device, the expiry of a row, or the janitor.
SignOut(i) ==
    /\ session[i].live
    /\ session' = [session EXCEPT ![i] = NoSession]
    /\ UNCHANGED <<account, factor, request, cookies, tick, issued, chosen, bought>>

\* DeleteOthers leaves the pending rows: they are no devices.
SignOutOthers(i) ==
    /\ Full(i) /\ account.active
    /\ session' = EndOthers(session, {i} \cup {j \in Ids : session[j].pending})
    /\ UNCHANGED <<account, factor, request, cookies, tick, issued, chosen, bought>>

SetStatus ==
    /\ account' = [account EXCEPT !.active = ~@]
    /\ session' = IF account.active THEN EndOthers(session, {}) ELSE session
    /\ UNCHANGED <<factor, request, cookies, tick, issued, chosen, bought>>

\* recentSignIn passes.
Age(i) ==
    /\ session[i].fresh
    /\ session' = [session EXCEPT ![i].fresh = FALSE]
    /\ UNCHANGED <<account, factor, request, cookies, tick, issued, chosen, bought>>

Tick ==
    /\ tick < LastTick
    /\ tick' = tick + 1
    /\ UNCHANGED <<account, factor, session, request, cookies, issued, chosen, bought>>

SessionsNext ==
    \/ \E r \in Requests :
         \/ \E i \in Ids : \E op \in Operations \ {"password", "provider", "complete"} : Ask(r, i, op)
         \/ \E op \in {"password", "provider"} : SignInRead(r, op)
         \/ \E i \in Ids : CompleteRead(r, i)
         \/ Issue(r) \/ Rehash(r) \/ ChangePassword(r) \/ BeginTwoFactor(r)
         \/ \E step \in Steps : EnableTwoFactor(r, step) \/ MatchCode(r, step)
         \/ SpendCode(r) \/ SpendRecovery(r) \/ Trade(r) \/ Remember(r) \/ DisableTwoFactor(r)
         \/ EnterBackoffice(r) \/ KeepBackofficeOpen(r) \/ LeaveBackoffice(r)
         \/ GiveUp(r)
    \/ \E i \in Ids : SignOut(i) \/ SignOutOthers(i) \/ Age(i)
    \/ SetPassword \/ ResetTwoFactor \/ SetStatus \/ Tick

SessionsSpec == SessionsInit /\ [][SessionsNext]_sessionVars

-----------------------------------------------------------------------------
(* Properties. *)

\* No session outlives the password it was issued against: whatever was in flight
\* when a password changed, a row that proved a password proved the one on file
\* (service.go:1531, session.go:322).
SessionsOfThisPassword ==
    \A i \in Ids : session[i].live /\ session[i].by # NoPassword => session[i].by = account.hash.of

\* While the second step is on, every whole session has proved this enrolment, by
\* a code, by the enrolment itself or by a browser remembered under it; none was
\* decided on an earlier look at the account (service.go:1286, twofactor.go:830).
WholeSessionsProvedTheFactor ==
    account.factorAt # 0 => \A i \in Ids : Full(i) => session[i].factor = account.factorAt

\* A code of the enrolment on file buys one thing, however many requests carry it
\* at once (twofactor.go:660).
CodesBuyOnce == \A c \in DOMAIN bought : bought[c] <= 1

\* The hash on file is of the password last set on purpose: a sign-in that
\* rehashes never puts an older one back (service.go:1390).
ChosenPasswordStands == account.hash.of = chosen

\* A visit that was left stays left until a code is given for it: a request that
\* read it before does not reopen it (session.go:297).
LeftVisitsStayShut == \A i \in Ids : session[i].left => session[i].visit = 0

\* What a session stands for is what was proved, and proved once (session.go, twofactor.go).
SessionsHold ==
    /\ SessionsTypeOK /\ SessionsOfThisPassword /\ WholeSessionsProvedTheFactor
    /\ CodesBuyOnce /\ ChosenPasswordStands /\ LeftVisitsStayShut
=============================================================================
