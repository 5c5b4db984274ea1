----------------------------- MODULE AuthProofs -----------------------------
(***************************************************************************)
(* What a session stands for is what was proved, and proved once, for any  *)
(* number of requests in flight and of sessions.                           *)
(*                                                                         *)
(* Nothing ties what a request has read to the account it writes to. What  *)
(* holds is that an enrolment never comes back: a secret is handed out     *)
(* once, so that a request which read an enrolment either finds it still   *)
(* on file, with the code it matched, or will never find it again          *)
(* (RequestsStand). Of the codes of the enrolment on file only those up to *)
(* last_step have bought anything, and those of one that is only begun     *)
(* nothing (CodesStand).                                                   *)
(*                                                                         *)
(* Of an address: a link is live only for the address the account has, and *)
(* a mail on its way carries a link of its own that outlives the mail      *)
(* (MailsStand).                                                           *)
(*                                                                         *)
(* Of an account: the founder cannot be deleted, so that an instance is    *)
(* empty only before it, and counting the rows of the last hour counts at  *)
(* least its accounts (CreationsStand). Of a guess: the limiter forgets    *)
(* only what no attempt runs under and nothing blocks, and a block is no   *)
(* longer than the wait its failures come to (Waits).                      *)
(***************************************************************************)
EXTENDS Sessions, Verification, Signup, Limiter, FiniteSetTheorems, TLAPS

SessionRow == [live : BOOLEAN, pending : BOOLEAN, by : Passwords \cup {NoPassword},
               factor : 0..MostFactors, visit : 0..MostFactors, left : BOOLEAN, fresh : BOOLEAN]
RequestRow == [op : Operations \cup {"idle"}, at : {"start", "read", "matched", "spent", "issued"},
               hash : Hashes, factorAt : 0..MostFactors, sess : 0..MostSessions,
               step : Steps, spent : 0..MostFactors, remembered : BOOLEAN]
FactorCodes == UNION {CodesOf(s) : s \in Secrets}

AccountStands ==
    /\ account \in [hash : Hashes, active : BOOLEAN, factorAt : 0..MostFactors]
    /\ chosen \in Passwords \cup {NoPassword} /\ account.hash.of = chosen
    /\ cookies \subseteq [factorAt : Secrets, hash : Hashes]
    /\ tick \in 1..LastTick

\* A secret is handed out once.
FactorStands ==
    /\ factor \in [secret : 0..MostFactors, pending : 0..MostFactors, lastStep : Steps, recovery : BOOLEAN]
    /\ issued \in 0..MostFactors
    /\ factor.secret = account.factorAt
    /\ factor.secret <= issued /\ factor.pending <= issued
    /\ factor.pending # 0 => factor.pending # factor.secret

\* Of this password, of this enrolment, and shut once left.
RowStands(row) ==
    /\ row.live /\ row.by # NoPassword => row.by = account.hash.of
    /\ account.factorAt # 0 /\ row.live /\ ~row.pending => row.factor = account.factorAt
    /\ row.left => row.visit = 0
SessionsStand == session \in [Ids -> SessionRow] /\ \A i \in Ids : RowStands(session[i])

\* The enrolment a request has read is on file, with the code it matched, or never will be.
RequestStands(q) ==
    /\ q.op \notin {"idle", "password", "provider"} /\ q.at # "issued" => q.sess \in Ids
    /\ q.op = "complete" => q.factorAt # 0
    /\ q.factorAt <= issued
    /\ q.factorAt # 0 => q.factorAt # factor.pending
    /\ q.at \in {"matched", "spent"} => q.spent # 0
    /\ q.op = "complete" /\ q.at \in {"matched", "spent"} /\ q.factorAt = account.factorAt
         => q.spent = q.factorAt
RequestsStand == request \in [Requests -> RequestRow] /\ \A r \in Requests : RequestStands(request[r])

CodesStand ==
    /\ bought \in [FactorCodes -> 0..2] /\ CodesBuyOnce
    /\ \A s \in Secrets : \A t \in Steps \cup {Sheet} : s > issued \/ s = factor.pending => bought[<<s, t>>] = 0
    /\ factor.secret # 0 => \A t \in Steps : bought[<<factor.secret, t>>] # 0 => t <= factor.lastStep
    /\ factor.secret # 0 /\ factor.recovery => bought[<<factor.secret, Sheet>>] = 0

SessionsInv == AccountStands /\ FactorStands /\ SessionsStand /\ RequestsStand /\ CodesStand

-----------------------------------------------------------------------------
(* The parts, what leaves each of them alone, and what changes one row.    *)

LEMMA SessionNumbers ==
    /\ MostFactors \in Nat /\ MostFactors >= 1 /\ LastTick \in Nat /\ LastTick >= 1
    /\ Ids \subseteq 0..MostSessions /\ 1 \in Ids /\ 0 \in 0..MostSessions
    /\ 1 \in Secrets /\ 0 \in Steps /\ Sheet \notin Steps
    /\ \A s : s \in Secrets <=> s \in 0..MostFactors /\ s # 0
  BY SessionsAssumption DEF SessionsAssumption, Ids, Secrets, Steps, Sheet

LEMMA SomeHashes ==
    /\ NoHash \in Hashes
    /\ \A h \in Hashes : h.of \in Passwords \cup {NoPassword}
    /\ \A p \in Passwords, w \in BOOLEAN : [of |-> p, weak |-> w] \in Hashes
    /\ \A h \in Hashes : [of |-> h.of, weak |-> FALSE] \in Hashes
  <1>1. NoHash \in Hashes /\ NoHash.of = NoPassword  BY DEF Hashes, NoHash
  <1>2. \A p \in Passwords, w \in BOOLEAN : [of |-> p, weak |-> w] \in Hashes  BY DEF Hashes
  <1>3. ASSUME NEW h \in Hashes PROVE h.of \in Passwords \cup {NoPassword} /\ [of |-> h.of, weak |-> FALSE] \in Hashes
    <2>1. CASE h \in [of : Passwords, weak : BOOLEAN]  BY <1>2, <2>1
    <2>2. CASE h = NoHash
      <3>1. [of |-> h.of, weak |-> FALSE] = NoHash  BY <2>2, <1>1 DEF NoHash
      <3> QED  BY <1>1, <2>2, <3>1
    <2> QED  BY Zenon, <1>3, <2>1, <2>2 DEF Hashes, NoHash
  <1> QED  BY <1>1, <1>2, <1>3

LEMMA FactorCodesAre ==
    /\ \A s \in Secrets : \A t \in Steps \cup {Sheet} : <<s, t>> \in FactorCodes
    /\ \A c \in FactorCodes : \E s \in Secrets : \E t \in Steps \cup {Sheet} : c = <<s, t>>
  BY DEF FactorCodes, CodesOf

LEMMA BlankRows ==
    ASSUME FactorStands
    PROVE  /\ NoSession \in SessionRow /\ RowStands(NoSession)
           /\ Idle \in RequestRow /\ RequestStands(Idle) /\ Done \in RequestRow /\ RequestStands(Done)
  <1>1. NoSession \in SessionRow  BY SessionNumbers DEF NoSession, SessionRow
  <1>2. RowStands(NoSession)  BY DEF NoSession, RowStands
  <1>3. Idle \in RequestRow /\ Done \in RequestRow
    BY SessionNumbers, SomeHashes DEF Idle, Done, Blank, RequestRow
  <1>4. RequestStands(Idle) /\ RequestStands(Done)
    BY SessionNumbers DEF Idle, Done, Blank, RequestStands, FactorStands
  <1> QED  BY <1>1, <1>2, <1>3, <1>4

\* What an operation reads of the account is on file.
LEMMA BegunStands ==
    ASSUME AccountStands, FactorStands, NEW op \in Operations, NEW h \in Hashes, NEW i \in 0..MostSessions, NEW b \in BOOLEAN,
           op \in {"password", "provider"} \/ i \in Ids, op = "complete" => account.factorAt # 0
    PROVE  Begun(op, h, i, b) \in RequestRow /\ RequestStands(Begun(op, h, i, b))
  <1>1. Begun(op, h, i, b) \in RequestRow  BY SessionNumbers DEF Begun, RequestRow, AccountStands
  <1>2. RequestStands(Begun(op, h, i, b))  BY DEF Begun, RequestStands, FactorStands
  <1> QED  BY <1>1, <1>2

LEMMA AccountStays == ASSUME AccountStands, UNCHANGED <<account, chosen, cookies, tick>> PROVE AccountStands'
  BY DEF AccountStands
LEMMA FactorStays == ASSUME FactorStands, UNCHANGED <<account, factor, issued>> PROVE FactorStands'
  BY DEF FactorStands
LEMMA SessionsStay == ASSUME SessionsStand, UNCHANGED <<account, session>> PROVE SessionsStand'
  BY DEF SessionsStand, RowStands
LEMMA RequestsStay == ASSUME RequestsStand, UNCHANGED <<account, factor, issued, request>> PROVE RequestsStand'
  BY DEF RequestsStand, RequestStands
LEMMA CodesStay == ASSUME CodesStand, UNCHANGED <<factor, issued, bought>> PROVE CodesStand'
  BY DEF CodesStand, CodesBuyOnce

LEMMA RequestMoves ==
    ASSUME RequestsStand, NEW r \in Requests, NEW q \in RequestRow, RequestStands(q),
           request' = [request EXCEPT ![r] = q],
           account'.factorAt = account.factorAt, factor'.pending = factor.pending, issued' = issued
    PROVE  RequestsStand'
  <1>1. \A s \in Requests : RequestStands(request'[s])  BY DEF RequestsStand
  <1>2. \A s \in Requests : RequestStands(request[s])'  BY <1>1 DEF RequestStands
  <1>3. request' \in [Requests -> RequestRow]  BY DEF RequestsStand
  <1> QED  BY <1>2, <1>3 DEF RequestsStand

LEMMA RowMoves ==
    ASSUME SessionsStand, NEW i \in Ids, NEW row \in SessionRow, RowStands(row),
           session' = [session EXCEPT ![i] = row],
           account'.hash.of = account.hash.of, account'.factorAt = account.factorAt
    PROVE  SessionsStand'
  <1>1. \A j \in Ids : RowStands(session'[j])  BY DEF SessionsStand
  <1>2. \A j \in Ids : RowStands(session[j])'  BY <1>1 DEF RowStands
  <1>3. session' \in [Ids -> SessionRow]  BY DEF SessionsStand
  <1> QED  BY <1>2, <1>3 DEF SessionsStand

\* Every row but those kept ends.
LEMMA OthersEnd ==
    ASSUME SessionsStand, FactorStands, NEW rows, NEW kept, session' = EndOthers(rows, kept),
           \A i \in Ids \cap kept : rows[i] \in SessionRow /\ RowStands(rows[i])
    PROVE  session' \in [Ids -> SessionRow] /\ \A i \in Ids : RowStands(session'[i])
  BY BlankRows DEF EndOthers

-----------------------------------------------------------------------------
(* Reading. *)

LEMMA AskStep ==
    ASSUME SessionsInv, NEW r \in Requests, NEW i \in Ids, NEW op \in Operations \ {"password", "provider", "complete"}, Ask(r, i, op)
    PROVE  SessionsInv'
  <1>1. Begun(op, account.hash, i, FALSE) \in RequestRow /\ RequestStands(Begun(op, account.hash, i, FALSE))
    BY BegunStands, SessionNumbers DEF SessionsInv, AccountStands
  <1>2. RequestsStand'  BY <1>1, RequestMoves DEF SessionsInv, Ask, Attached
  <1> QED  BY <1>2, AccountStays, FactorStays, SessionsStay, CodesStay DEF SessionsInv, Ask

LEMMA SignInReadStep ==
    ASSUME SessionsInv, NEW r \in Requests, NEW op \in {"password", "provider"}, SignInRead(r, op)
    PROVE  SessionsInv'
  <1>1. PICK sent \in BOOLEAN : request' = [request EXCEPT ![r] = Begun(op, account.hash, 0, sent /\ Remembered)]
    BY DEF SignInRead
  <1>2. (sent /\ Remembered) \in BOOLEAN  BY DEF Remembered
  <1>3. op \in Operations  BY DEF Operations
  <1>4. /\ Begun(op, account.hash, 0, sent /\ Remembered) \in RequestRow
        /\ RequestStands(Begun(op, account.hash, 0, sent /\ Remembered))
    BY <1>2, <1>3, BegunStands, SessionNumbers DEF SessionsInv, AccountStands
  <1>5. RequestsStand'  BY <1>1, <1>4, RequestMoves DEF SessionsInv, SignInRead
  <1> QED  BY <1>5, AccountStays, FactorStays, SessionsStay, CodesStay DEF SessionsInv, SignInRead

LEMMA CompleteReadStep ==
    ASSUME SessionsInv, NEW r \in Requests, NEW i \in Ids, CompleteRead(r, i)
    PROVE  SessionsInv'
  <1>1. AccountStands' /\ FactorStands' /\ CodesStand'
    BY AccountStays, FactorStays, CodesStay DEF SessionsInv, CompleteRead
  <1>2. CASE account.factorAt = 0
    <2>1. SessionsStand'  BY <1>2, BlankRows, RowMoves DEF SessionsInv, CompleteRead
    <2> QED  BY <1>1, <1>2, <2>1, RequestsStay DEF SessionsInv, CompleteRead
  <1>3. CASE account.factorAt # 0
    <2>1. /\ Begun("complete", NoHash, i, FALSE) \in RequestRow
          /\ RequestStands(Begun("complete", NoHash, i, FALSE))
      BY <1>3, BegunStands, SessionNumbers, SomeHashes DEF SessionsInv, Operations
    <2>2. RequestsStand'  BY <1>3, <2>1, RequestMoves DEF SessionsInv, CompleteRead
    <2> QED  BY <1>1, <1>3, <2>2, SessionsStay DEF SessionsInv, CompleteRead
  <1> QED  BY <1>2, <1>3

\* A request that is over, and touches nothing of the account.
LEMMA RequestOver ==
    ASSUME SessionsInv, NEW r \in Requests, request' = [request EXCEPT ![r] = Done],
           account'.factorAt = account.factorAt, factor'.pending = factor.pending, issued' = issued
    PROVE  RequestsStand'
  BY BlankRows, RequestMoves DEF SessionsInv

LEMMA GiveUpStep == ASSUME SessionsInv, NEW r \in Requests, GiveUp(r) PROVE SessionsInv'
  BY RequestOver, AccountStays, FactorStays, SessionsStay, CodesStay DEF SessionsInv, GiveUp

-----------------------------------------------------------------------------
(* Issuing a session. *)

\* A sign-in is decided on the account as it is: by the password on file, and whole only where
\* nothing more is asked or the browser is remembered under this enrolment.
LEMMA IssueStep == ASSUME SessionsInv, NEW r \in Requests, Issue(r) PROVE SessionsInv'
  <1> DEFINE by == IF request[r].op = "password" THEN request[r].hash.of ELSE NoPassword
             secret == IF RememberedStill(r) THEN account.factorAt ELSE 0
             row == Row(Pending(r), by, secret)
             next == IF request[r].hash.weak /\ request[r].op = "password"
                       THEN [request[r] EXCEPT !.at = "issued"] ELSE Done
  <1>1. request[r] \in RequestRow /\ RequestStands(request[r])  BY DEF SessionsInv, RequestsStand
  <1>2. by \in Passwords \cup {NoPassword} /\ (by # NoPassword => by = account.hash.of)
    BY <1>1, SomeHashes DEF Issue, StillProved, RequestRow
  <1>3. secret \in 0..MostFactors /\ Pending(r) \in BOOLEAN
        /\ (account.factorAt # 0 /\ ~Pending(r) => secret = account.factorAt)
    BY SessionNumbers DEF Pending, RememberedStill, SessionsInv, AccountStands
  <1>4. PICK i \in Ids : session' = [session EXCEPT ![i] = row]  BY DEF Issue, Spare
  <1>5. row \in SessionRow /\ RowStands(row)
    <2> HIDE DEF by, secret
    <2> QED  BY <1>2, <1>3, SessionNumbers DEF Row, SessionRow, RowStands
  <1>6. SessionsStand'
    <2> HIDE DEF row
    <2> QED  BY <1>4, <1>5, RowMoves DEF SessionsInv, Issue
  <1>7. next \in RequestRow /\ RequestStands(next)
    <2>1. CASE request[r].hash.weak /\ request[r].op = "password"
      BY <1>1, <2>1 DEF RequestRow, RequestStands
    <2>2. CASE ~(request[r].hash.weak /\ request[r].op = "password")  BY <2>2, BlankRows DEF SessionsInv
    <2> QED  BY <2>1, <2>2
  <1>8. request' = [request EXCEPT ![r] = next]  BY DEF Issue
  <1>9. RequestsStand'
    <2> HIDE DEF next
    <2> QED  BY <1>7, <1>8, RequestMoves DEF SessionsInv, Issue
  <1> QED  BY <1>6, <1>9, AccountStays, FactorStays, CodesStay DEF SessionsInv, Issue

LEMMA RehashStep == ASSUME SessionsInv, NEW r \in Requests, Rehash(r) PROVE SessionsInv'
  <1>1. request[r] \in RequestRow /\ request[r].hash \in Hashes
    BY DEF SessionsInv, RequestsStand, RequestRow
  <1>2. /\ account' \in [hash : Hashes, active : BOOLEAN, factorAt : 0..MostFactors]
        /\ account'.hash.of = account.hash.of /\ account'.factorAt = account.factorAt
    BY <1>1, SomeHashes DEF SessionsInv, AccountStands, Rehash, Replaces
  <1>3. AccountStands'  BY <1>2 DEF SessionsInv, AccountStands, Rehash
  <1>4. FactorStands'  BY <1>2 DEF SessionsInv, FactorStands, Rehash
  <1>5. SessionsStand'  BY <1>2 DEF SessionsInv, SessionsStand, RowStands, Rehash
  <1>6. RequestsStand'  BY <1>2, RequestOver DEF Rehash
  <1> QED  BY <1>3, <1>4, <1>5, <1>6, CodesStay DEF SessionsInv, Rehash

-----------------------------------------------------------------------------
(* The password. *)

\* A new password: no row of the account but the one that is issued anew outlives it.
LEMMA NewPassword ==
    ASSUME SessionsInv, NEW p \in Passwords, account' = [account EXCEPT !.hash = [of |-> p, weak |-> FALSE]],
           chosen' = p, UNCHANGED <<factor, cookies, tick, issued, bought>>
    PROVE  /\ AccountStands' /\ FactorStands' /\ CodesStand'
           /\ account'.hash.of = p /\ account'.factorAt = account.factorAt
  <1>1. /\ account' \in [hash : Hashes, active : BOOLEAN, factorAt : 0..MostFactors]
        /\ account'.hash.of = p /\ account'.factorAt = account.factorAt
    BY SomeHashes DEF SessionsInv, AccountStands
  <1>2. AccountStands'  BY <1>1 DEF SessionsInv, AccountStands
  <1>3. FactorStands'  BY <1>1 DEF SessionsInv, FactorStands
  <1> QED  BY <1>1, <1>2, <1>3, CodesStay DEF SessionsInv

LEMMA ChangePasswordStep == ASSUME SessionsInv, NEW r \in Requests, ChangePassword(r) PROVE SessionsInv'
  <1>1. PICK p \in FreshPasswords, j \in Spare :
            /\ account' = [account EXCEPT !.hash = [of |-> p, weak |-> FALSE]]
            /\ chosen' = p
            /\ session' = ReissuedTo(request[r].sess, j, p)
    BY DEF ChangePassword
  <1>2. p \in Passwords /\ j \in Ids  BY DEF FreshPasswords, Spare
  <1> DEFINE i == request[r].sess
             again == [session[i] EXCEPT !.by = p]
             rows == [session EXCEPT ![j] = again]
  <1>3. AccountStands' /\ FactorStands' /\ CodesStand' /\ account'.hash.of = p /\ account'.factorAt = account.factorAt
    BY <1>1, <1>2, NewPassword DEF ChangePassword
  <1>4. RequestsStand'  BY <1>3, RequestOver DEF ChangePassword
  <1>5. request[r].sess \in 0..MostSessions /\ session[i].live
    BY DEF SessionsInv, RequestsStand, RequestRow, ChangePassword
  <1>6. session' = [k \in Ids |-> IF k \in {j} THEN rows[k] ELSE NoSession]
    BY <1>1 DEF ReissuedTo, EndOthers
  <1>7. i \in Ids  BY DEF SessionsInv, RequestsStand, RequestStands, ChangePassword
  <1>8. session[i] \in SessionRow /\ RowStands(session[i])  BY <1>7 DEF SessionsInv, SessionsStand
  <1>9. again \in SessionRow /\ again.by = p /\ again.live = session[i].live /\ again.pending = session[i].pending
        /\ again.factor = session[i].factor /\ again.left = session[i].left /\ again.visit = session[i].visit
    BY <1>2, <1>8 DEF SessionRow
  <1>10. rows[j] = again  BY <1>2 DEF SessionsInv, SessionsStand
  <1> HIDE DEF again, rows
  <1>11. \A k \in Ids : session'[k] = IF k = j THEN again ELSE NoSession  BY <1>6, <1>10
  <1>12. session' \in [Ids -> SessionRow]  BY <1>6, <1>9, <1>10, BlankRows DEF SessionsInv
  <1>13. \A k \in Ids : RowStands(session[k])'
    BY <1>3, <1>8, <1>9, <1>11 DEF RowStands, NoSession
  <1>14. SessionsStand'  BY <1>12, <1>13 DEF SessionsStand
  <1> QED  BY <1>3, <1>4, <1>14 DEF SessionsInv

LEMMA SetPasswordStep == ASSUME SessionsInv, SetPassword PROVE SessionsInv'
  <1>1. PICK p \in FreshPasswords : account' = [account EXCEPT !.hash = [of |-> p, weak |-> FALSE]] /\ chosen' = p
    BY DEF SetPassword
  <1>2. p \in Passwords  BY DEF FreshPasswords
  <1>3. AccountStands' /\ FactorStands' /\ CodesStand' /\ account'.hash.of = p /\ account'.factorAt = account.factorAt
    BY <1>1, <1>2, NewPassword DEF SetPassword
  <1>4. session' = [k \in Ids |-> NoSession]  BY DEF SetPassword, EndOthers
  <1>5. SessionsStand'  BY <1>4, BlankRows DEF SessionsInv, SessionsStand, RowStands, NoSession
  <1>6. RequestsStand'  BY <1>3 DEF SetPassword, SessionsInv, RequestsStand, RequestStands
  <1> QED  BY <1>3, <1>5, <1>6 DEF SessionsInv

-----------------------------------------------------------------------------
(* The second step. *)

LEMMA BeginTwoFactorStep == ASSUME SessionsInv, NEW r \in Requests, BeginTwoFactor(r) PROVE SessionsInv'
  <1>1. issued \in 0..MostFactors /\ issued < MostFactors /\ issued + 1 \in 0..MostFactors /\ issued' = issued + 1
    BY SessionNumbers DEF SessionsInv, FactorStands, BeginTwoFactor
  <1>2. /\ factor' \in [secret : 0..MostFactors, pending : 0..MostFactors, lastStep : Steps, recovery : BOOLEAN]
        /\ factor'.pending = issued + 1 /\ factor'.secret = factor.secret
        /\ factor'.lastStep = factor.lastStep /\ factor'.recovery = factor.recovery
    BY <1>1 DEF SessionsInv, FactorStands, BeginTwoFactor
  <1>3. FactorStands'  BY <1>1, <1>2, SessionNumbers DEF SessionsInv, FactorStands, BeginTwoFactor
  <1>4. RequestsStand'
    <2>1. \A s \in Requests : request[s] \in RequestRow /\ RequestStands(request[s])
      BY DEF SessionsInv, RequestsStand
    <2>2. \A s \in Requests : request'[s] = request[s] \/ request'[s] = Done
      BY DEF BeginTwoFactor, SessionsInv, RequestsStand
    <2>3. Done.factorAt = 0 /\ Done.at = "issued" /\ Done.op = "idle"  BY DEF Done, Blank
    <2>4. \A s \in Requests : request[s].factorAt \in 0..MostFactors  BY <2>1 DEF RequestRow
    <2>5. \A s \in Requests : RequestStands(request[s])'
      BY <1>1, <1>2, <2>1, <2>2, <2>3, <2>4 DEF RequestStands, BeginTwoFactor
    <2>6. request' \in [Requests -> RequestRow]
      BY BlankRows DEF SessionsInv, RequestsStand, BeginTwoFactor
    <2> QED  BY <2>5, <2>6 DEF RequestsStand
  <1>5. CodesStand'
    <2>1. \A s \in Secrets : s \in 0..MostFactors  BY SessionNumbers
    <2>2. \A s \in Secrets : s > issued' \/ s = factor'.pending => s > issued  BY <1>1, <1>2, <2>1
    <2>3. bought' = bought  BY DEF BeginTwoFactor
    <2> QED  BY <1>2, <2>2, <2>3 DEF SessionsInv, CodesStand, CodesBuyOnce
  <1> QED  BY <1>3, <1>4, <1>5, AccountStays, SessionsStay DEF SessionsInv, BeginTwoFactor

\* One code is spent: what else has been bought stays.
LEMMA OneBought ==
    ASSUME CodesStand, NEW s \in Secrets, NEW t \in Steps \cup {Sheet}, Buys(<<s, t>>)
    PROVE  /\ bought' \in [FactorCodes -> 0..2]
           /\ \A c \in FactorCodes : c # <<s, t>> => bought'[c] = bought[c]
           /\ factor.secret \notin {0, s} => bought'[<<s, t>>] = bought[<<s, t>>]
           /\ bought[<<s, t>>] = 0 => bought'[<<s, t>>] <= 1
  <1>1. <<s, t>> \in FactorCodes  BY FactorCodesAre
  <1>2. <<s, t>>[1] = s  OBVIOUS
  <1>3. bought' = [bought EXCEPT ![<<s, t>>] = IF bought[<<s, t>>] < 2 /\ factor.secret \in {0, s}
                                              THEN bought[<<s, t>>] + 1 ELSE bought[<<s, t>>]]
    BY <1>2 DEF Buys
  <1>4. bought[<<s, t>>] \in 0..2  BY <1>1 DEF CodesStand
  <1> QED  BY <1>1, <1>3, <1>4 DEF CodesStand

\* The enrolment that is confirmed is a new one: nothing was bought with it, and nothing a
\* request has read names it.
LEMMA EnableStep ==
    ASSUME SessionsInv, NEW r \in Requests, NEW step \in Steps, EnableTwoFactor(r, step)
    PROVE  SessionsInv'
  <1> DEFINE new == factor.pending
             i == request[r].sess
             proved == [session[i] EXCEPT !.factor = new, !.visit = new, !.left = FALSE]
             rows == [session EXCEPT ![i] = proved]
             kept == {i} \cap {j \in Ids : session[j].live}
  <1>1. new \in Secrets /\ new \in 0..MostFactors /\ new # 0 /\ factor.secret = 0
    BY SessionNumbers DEF SessionsInv, FactorStands, EnableTwoFactor
  <1>2. /\ account' \in [hash : Hashes, active : BOOLEAN, factorAt : 0..MostFactors]
        /\ account'.factorAt = new /\ account'.hash = account.hash
    BY <1>1 DEF SessionsInv, AccountStands, EnableTwoFactor
  <1>3. /\ factor' \in [secret : 0..MostFactors, pending : 0..MostFactors, lastStep : Steps, recovery : BOOLEAN]
        /\ factor'.secret = new /\ factor'.pending = 0 /\ factor'.lastStep = step /\ issued' = issued
    BY <1>1, SessionNumbers DEF EnableTwoFactor
  <1>4. AccountStands'  BY <1>2 DEF SessionsInv, AccountStands, EnableTwoFactor
  <1>5. FactorStands'  BY <1>2, <1>3, SessionNumbers DEF SessionsInv, FactorStands
  <1>6. RequestsStand'
    <2>1. \A s \in Requests : request[s] \in RequestRow /\ RequestStands(request[s])
      BY DEF SessionsInv, RequestsStand
    <2>2. \A s \in Requests : request'[s] = request[s] \/ request'[s] = Done
      BY DEF EnableTwoFactor, SessionsInv, RequestsStand
    <2>3. Done.factorAt = 0 /\ Done.at = "issued" /\ Done.op = "idle"  BY DEF Done, Blank
    <2>4. 0 <= issued  BY SessionNumbers DEF SessionsInv, FactorStands
    <2>5. \A s \in Requests : RequestStands(request[s])'
      BY <1>2, <1>3, <2>1, <2>2, <2>3, <2>4 DEF RequestStands
    <2>6. request' \in [Requests -> RequestRow]
      BY BlankRows DEF SessionsInv, RequestsStand, EnableTwoFactor
    <2> QED  BY <2>5, <2>6 DEF RequestsStand
  <1>7. CodesStand'
    <2>1. Buys(<<new, step>>)  BY DEF EnableTwoFactor
    <2>2. bought[<<new, step>>] = 0 /\ bought[<<new, Sheet>>] = 0 /\ \A t \in Steps : bought[<<new, t>>] = 0
      BY <1>1 DEF SessionsInv, CodesStand
    <2>3. /\ bought' \in [FactorCodes -> 0..2] /\ bought'[<<new, step>>] <= 1
          /\ \A c \in FactorCodes : c # <<new, step>> => bought'[c] = bought[c]
      BY <1>1, <2>1, <2>2, OneBought DEF SessionsInv
    <2>4. \A s \in Secrets : \A t \in Steps \cup {Sheet} : <<s, t>> \in FactorCodes /\ (s # new => <<s, t>> # <<new, step>>)
      BY FactorCodesAre
    <2>5. \A s \in Secrets : s > issued \/ s = factor'.pending => s # new /\ s > issued
      BY <1>1, <1>3, SessionNumbers DEF SessionsInv, FactorStands
    <2>6. \A s \in Secrets : \A t \in Steps \cup {Sheet} : s > issued' \/ s = factor'.pending => bought'[<<s, t>>] = 0
      BY <1>3, <2>3, <2>4, <2>5 DEF SessionsInv, CodesStand
    <2>7. \A t \in Steps : bought'[<<new, t>>] # 0 => t = step
      BY <1>1, <2>2, <2>3, <2>4
    <2>8. bought'[<<new, Sheet>>] = 0
      BY <1>1, <2>2, <2>3, <2>4, SessionNumbers
    <2>9. \A c \in FactorCodes : bought'[c] <= 1
      BY <2>3 DEF SessionsInv, CodesStand, CodesBuyOnce
    <2>10. (DOMAIN bought') = FactorCodes  BY <2>3
    <2>11. CodesBuyOnce'  BY <2>9, <2>10 DEF CodesBuyOnce
    <2>12. \A t \in Steps : bought'[<<factor'.secret, t>>] # 0 => t <= factor'.lastStep
      BY <1>3, <2>7 DEF Steps
    <2> QED  BY <1>3, <2>3, <2>6, <2>8, <2>11, <2>12 DEF CodesStand
  <1>8. SessionsStand'
    <2>1. i \in Ids  BY DEF SessionsInv, RequestsStand, RequestStands, EnableTwoFactor
    <2>2. session[i] \in SessionRow /\ RowStands(session[i])  BY <2>1 DEF SessionsInv, SessionsStand
    <2>3. proved \in SessionRow /\ proved.by = session[i].by /\ proved.live = session[i].live
          /\ proved.factor = new /\ proved.left = FALSE
      BY <1>1, <2>2 DEF SessionRow
    <2>4. rows[i] = proved  BY <2>1 DEF SessionsInv, SessionsStand
    <2>5. session' = [k \in Ids |-> IF k \in kept THEN rows[k] ELSE NoSession]
      BY DEF EnableTwoFactor, Enrolled, EndOthers
    <2> HIDE DEF proved, rows
    <2>6. \A k \in Ids : session'[k] = proved \/ session'[k] = NoSession  BY <2>4, <2>5
    <2>7. session' \in [Ids -> SessionRow]  BY <2>3, <2>4, <2>5, BlankRows DEF SessionsInv
    <2>8. \A k \in Ids : RowStands(session[k])'
      BY <1>2, <2>2, <2>3, <2>6 DEF RowStands, NoSession
    <2> QED  BY <2>7, <2>8 DEF SessionsStand
  <1> QED  BY <1>4, <1>5, <1>6, <1>7, <1>8 DEF SessionsInv

LEMMA MatchCodeStep ==
    ASSUME SessionsInv, NEW r \in Requests, NEW step \in Steps, MatchCode(r, step)
    PROVE  SessionsInv'
  <1> DEFINE q == [request[r] EXCEPT !.at = "matched", !.step = step, !.spent = factor.secret]
  <1>1. request[r] \in RequestRow /\ RequestStands(request[r])  BY DEF SessionsInv, RequestsStand
  <1>2. factor.secret \in 0..MostFactors /\ factor.secret # 0 /\ factor.secret = account.factorAt
    BY DEF SessionsInv, FactorStands, MatchCode
  <1>3. q \in RequestRow  BY <1>1, <1>2 DEF RequestRow
  <1>4. RequestStands(q)  BY <1>1, <1>2 DEF RequestRow, RequestStands, MatchCode
  <1>5. request' = [request EXCEPT ![r] = q]  BY DEF MatchCode
  <1> HIDE DEF q
  <1>6. RequestsStand'  BY <1>3, <1>4, <1>5, RequestMoves DEF SessionsInv, MatchCode
  <1> QED  BY <1>6, AccountStays, FactorStays, SessionsStay, CodesStay DEF SessionsInv, MatchCode

\* The UPDATE is the check: only a step after the last one is taken, and none of those has bought
\* anything. A code of an enrolment that has gone buys nothing of the one on file.
LEMMA SpendCodeStep == ASSUME SessionsInv, NEW r \in Requests, SpendCode(r) PROVE SessionsInv'
  <1>1. request[r] \in RequestRow /\ RequestStands(request[r]) /\ request[r].at = "matched"
    BY DEF SessionsInv, RequestsStand, SpendCode
  <1>2. CASE ~Unspent(r)
    <2>1. request' = [request EXCEPT ![r] = Done] /\ UNCHANGED <<factor, bought>>  BY <1>2 DEF SpendCode
    <2> QED  BY <2>1, RequestOver, AccountStays, FactorStays, SessionsStay, CodesStay DEF SessionsInv, SpendCode
  <1>3. CASE Unspent(r)
    <2> DEFINE s == request[r].spent
               t == request[r].step
               q == [request[r] EXCEPT !.at = "spent"]
    <2>1. s \in Secrets /\ t \in Steps  BY <1>1, SessionNumbers DEF RequestRow, RequestStands
    <2>2. /\ factor' = [factor EXCEPT !.lastStep = t] /\ request' = [request EXCEPT ![r] = q]
          /\ Buys(<<s, t>>)
      BY <1>3 DEF SpendCode, SessionsInv, RequestsStand
    <2>3. /\ factor' \in [secret : 0..MostFactors, pending : 0..MostFactors, lastStep : Steps, recovery : BOOLEAN]
          /\ factor'.secret = factor.secret /\ factor'.pending = factor.pending
          /\ factor'.lastStep = t /\ factor'.recovery = factor.recovery
      BY <2>1, <2>2 DEF SessionsInv, FactorStands
    <2>4. FactorStands'  BY <2>3 DEF SessionsInv, FactorStands, SpendCode
    <2>5. q \in RequestRow /\ RequestStands(q)  BY <1>1 DEF RequestRow, RequestStands
    <2>6. RequestsStand'
      <3> HIDE DEF q
      <3> QED  BY <2>2, <2>3, <2>5, RequestMoves DEF SessionsInv, SpendCode
    <2>7. factor.secret # 0 /\ factor.lastStep < t /\ factor.lastStep \in Steps /\ factor.secret \in Secrets
      BY <1>3, SessionNumbers DEF Unspent, SessionsInv, FactorStands
    <2>8. /\ bought' \in [FactorCodes -> 0..2]
          /\ \A c \in FactorCodes : c # <<s, t>> => bought'[c] = bought[c]
          /\ factor.secret # s => bought'[<<s, t>>] = bought[<<s, t>>]
          /\ bought[<<s, t>>] = 0 => bought'[<<s, t>>] <= 1
      BY <2>1, <2>2, <2>7, OneBought DEF SessionsInv
    <2>9. factor.secret = s => bought[<<s, t>>] = 0
      BY <2>1, <2>7 DEF SessionsInv, CodesStand, Steps
    <2>10. \A u \in Secrets : \A k \in Steps \cup {Sheet} : <<u, k>> \in FactorCodes /\ (<<u, k>> = <<s, t>> => u = s /\ k = t)
      BY FactorCodesAre
    <2>11. bought[<<s, t>>] <= 1 /\ bought'[<<s, t>>] <= 1
      BY <2>1, <2>8, <2>9, <2>10 DEF SessionsInv, CodesStand, CodesBuyOnce
    <2>12. \A c \in FactorCodes : bought'[c] <= 1
      BY <2>8, <2>11 DEF SessionsInv, CodesStand, CodesBuyOnce
    <2>13. CodesBuyOnce'  BY <2>8, <2>12 DEF CodesBuyOnce
    <2>14. s = factor.secret => s <= issued /\ s # factor.pending
      BY <2>7 DEF SessionsInv, FactorStands
    <2>15. issued' = issued /\ issued \in Nat  BY DEF SpendCode, SessionsInv, FactorStands
    <2> HIDE DEF s, t, q
    <2>16. \A u \in Secrets : \A k \in Steps \cup {Sheet} : u > issued' \/ u = factor'.pending => bought'[<<u, k>>] = 0
      <3> SUFFICES ASSUME NEW u \in Secrets, NEW k \in Steps \cup {Sheet}, u > issued \/ u = factor.pending
                   PROVE  bought'[<<u, k>>] = 0
        BY <2>3, <2>15
      <3>1. bought[<<u, k>>] = 0  BY DEF SessionsInv, CodesStand
      <3>2. u # factor.secret  BY <2>7, <2>15, SessionNumbers DEF SessionsInv, FactorStands
      <3>3. CASE <<u, k>> = <<s, t>>  BY <2>8, <2>10, <3>1, <3>2, <3>3
      <3>4. CASE <<u, k>> # <<s, t>>  BY <2>8, <2>10, <3>1, <3>4
      <3> QED  BY <3>3, <3>4
    <2>17. \A k \in Steps : bought'[<<factor.secret, k>>] # 0 => k <= t
      <3> SUFFICES ASSUME NEW k \in Steps, bought'[<<factor.secret, k>>] # 0  PROVE k <= t
        OBVIOUS
      <3>1. CASE <<factor.secret, k>> = <<s, t>>  BY <2>1, <2>7, <2>10, <3>1 DEF Steps
      <3>2. CASE <<factor.secret, k>> # <<s, t>>
        <4>1. bought[<<factor.secret, k>>] # 0  BY <2>7, <2>8, <2>10, <3>2
        <4>2. k <= factor.lastStep  BY <2>7, <4>1 DEF SessionsInv, CodesStand
        <4> QED  BY <2>1, <2>7, <4>2 DEF Steps
      <3> QED  BY <3>1, <3>2
    <2>18. factor.recovery => bought'[<<factor.secret, Sheet>>] = 0
      BY <2>1, <2>7, <2>8, <2>10, SessionNumbers DEF SessionsInv, CodesStand
    <2>19. CodesStand'  BY <2>3, <2>8, <2>13, <2>16, <2>17, <2>18 DEF CodesStand
    <2> QED  BY <2>4, <2>6, <2>19, AccountStays, SessionsStay DEF SessionsInv, SpendCode
  <1> QED  BY <1>2, <1>3

LEMMA SpendRecoveryStep == ASSUME SessionsInv, NEW r \in Requests, SpendRecovery(r) PROVE SessionsInv'
  <1> DEFINE s == factor.secret
             q == [request[r] EXCEPT !.at = "spent", !.spent = factor.secret]
  <1>1. request[r] \in RequestRow /\ RequestStands(request[r])  BY DEF SessionsInv, RequestsStand
  <1>2. s \in Secrets /\ s \in 0..MostFactors /\ s # 0 /\ s = account.factorAt
        /\ s <= issued /\ s # factor.pending /\ issued' = issued
    BY SessionNumbers DEF SessionsInv, FactorStands, SpendRecovery
  <1>3. /\ factor' \in [secret : 0..MostFactors, pending : 0..MostFactors, lastStep : Steps, recovery : BOOLEAN]
        /\ factor'.secret = s /\ factor'.pending = factor.pending
        /\ factor'.lastStep = factor.lastStep /\ factor'.recovery = FALSE
    BY DEF SessionsInv, FactorStands, SpendRecovery
  <1>4. FactorStands'  BY <1>3 DEF SessionsInv, FactorStands, SpendRecovery
  <1>5. q \in RequestRow  BY <1>1, <1>2 DEF RequestRow
  <1>6. RequestStands(q)  BY <1>1, <1>2 DEF RequestRow, RequestStands, SpendRecovery
  <1>7. request' = [request EXCEPT ![r] = q]  BY DEF SpendRecovery
  <1>8. RequestsStand'
    <2> HIDE DEF q
    <2> QED  BY <1>2, <1>3, <1>5, <1>6, <1>7, RequestMoves DEF SessionsInv, SpendRecovery
  <1>9. bought[<<s, Sheet>>] = 0  BY <1>2 DEF SessionsInv, CodesStand, SpendRecovery
  <1>10. /\ bought' \in [FactorCodes -> 0..2] /\ bought'[<<s, Sheet>>] <= 1
         /\ \A c \in FactorCodes : c # <<s, Sheet>> => bought'[c] = bought[c]
    BY <1>2, <1>9, OneBought DEF SessionsInv, SpendRecovery
  <1>11. \A u \in Secrets : \A k \in Steps \cup {Sheet} :
            <<u, k>> \in FactorCodes /\ (u # s \/ k # Sheet => <<u, k>> # <<s, Sheet>>)
    BY FactorCodesAre
  <1>12. CodesBuyOnce'
    <2>1. \A c \in FactorCodes : bought'[c] <= 1  BY <1>10 DEF SessionsInv, CodesStand, CodesBuyOnce
    <2> QED  BY <1>10, <2>1 DEF CodesBuyOnce
  <1>13. \A u \in Secrets : u > issued' \/ u = factor'.pending => u # s
    BY <1>2, <1>3, SessionNumbers DEF SessionsInv, FactorStands
  <1> HIDE DEF s, q
  <1>14. \A u \in Secrets : \A k \in Steps \cup {Sheet} : u > issued' \/ u = factor'.pending => bought'[<<u, k>>] = 0
    BY <1>2, <1>3, <1>10, <1>11, <1>13 DEF SessionsInv, CodesStand
  <1>15. \A k \in Steps : bought'[<<s, k>>] # 0 => k <= factor.lastStep
    BY <1>2, <1>10, <1>11, SessionNumbers DEF SessionsInv, CodesStand, s
  <1>16. CodesStand'  BY <1>3, <1>10, <1>12, <1>14, <1>15 DEF CodesStand
  <1> QED  BY <1>4, <1>8, <1>16, AccountStays, SessionsStay DEF SessionsInv, SpendRecovery

\* A session that is traded has proved the enrolment on file: it is the one the request read.
LEMMA TradeStep == ASSUME SessionsInv, NEW r \in Requests, Trade(r) PROVE SessionsInv'
  <1> DEFINE i == request[r].sess
             row == Row(FALSE, session[i].by, request[r].spent)
  <1>1. request[r] \in RequestRow /\ RequestStands(request[r]) /\ i \in Ids
    BY DEF SessionsInv, RequestsStand, RequestStands, Trade
  <1>2. session[i] \in SessionRow /\ RowStands(session[i]) /\ session[i].live
    BY <1>1 DEF SessionsInv, SessionsStand, Trade, Tradable
  <1>3. account.factorAt # 0 => request[r].spent = account.factorAt
    BY <1>1 DEF RequestStands, Trade, Tradable
  <1>4. PICK j \in Ids : session' = [session EXCEPT ![i] = NoSession, ![j] = row]
    BY DEF Trade, Spare
  <1>5. row \in SessionRow  BY <1>1, <1>2, SessionNumbers DEF Row, SessionRow, RequestRow
  <1>6. RowStands(row)  BY <1>2, <1>3 DEF Row, RowStands
  <1>7. SessionsStand'
    <2> HIDE DEF row, i
    <2>1. session' \in [Ids -> SessionRow]  BY <1>1, <1>4, <1>5, BlankRows DEF SessionsInv, SessionsStand
    <2>2. \A k \in Ids : RowStands(session'[k])
      BY <1>1, <1>4, <1>6, BlankRows DEF SessionsInv, SessionsStand
    <2>3. \A k \in Ids : RowStands(session[k])'  BY <2>2 DEF RowStands, Trade
    <2> QED  BY <2>1, <2>3 DEF SessionsStand
  <1>8. PICK rest \in {Done, Owed(r)} : request' = [request EXCEPT ![r] = rest]  BY DEF Trade
  <1>9. Owed(r) \in RequestRow /\ RequestStands(Owed(r))
    <2>1. Owed(r) = [op |-> "complete", at |-> "issued", hash |-> NoHash, factorAt |-> request[r].factorAt, sess |-> 0,
                      step |-> 0, spent |-> 0, remembered |-> FALSE]
      BY DEF Owed
    <2>3. "complete" \in Operations /\ request[r].factorAt \in 0..MostFactors  BY <1>1 DEF Operations, RequestRow
    <2>4. Owed(r) \in RequestRow  BY <2>1, <2>3, SessionNumbers, SomeHashes DEF RequestRow
    <2>5. Owed(r).op = "complete" /\ Owed(r).at = "issued" /\ Owed(r).factorAt = request[r].factorAt  BY <2>1
    <2>2. request[r].op = "complete"  BY DEF Trade
    <2> QED  BY <1>1, <2>2, <2>4, <2>5 DEF RequestStands
  <1>10. rest \in RequestRow /\ RequestStands(rest)  BY <1>8, <1>9, BlankRows DEF SessionsInv
  <1>11. RequestsStand'  BY <1>8, <1>10, RequestMoves DEF SessionsInv, Trade
  <1> QED  BY <1>7, <1>11, AccountStays, FactorStays, CodesStay DEF SessionsInv, Trade

\* A cookie is made for an enrolment that was proved, whatever the account has by then.
LEMMA RememberStep == ASSUME SessionsInv, NEW r \in Requests, Remember(r) PROVE SessionsInv'
  <1>1. request[r] \in RequestRow /\ RequestStands(request[r])  BY DEF SessionsInv, RequestsStand
  <1>2. request[r].factorAt \in Secrets
    BY <1>1, SessionNumbers DEF RequestRow, RequestStands, Remember
  <1>3. AccountStands'
    <2>1. [factorAt |-> request[r].factorAt, hash |-> account.hash] \in [factorAt : Secrets, hash : Hashes]
      BY <1>2 DEF SessionsInv, AccountStands
    <2> QED  BY <2>1 DEF SessionsInv, AccountStands, Remember
  <1>4. RequestsStand'  BY RequestOver DEF Remember
  <1> QED  BY <1>3, <1>4, FactorStays, SessionsStay, CodesStay DEF SessionsInv, Remember

\* An enrolment that ends takes its visits with it.
LEMMA ClearedStands ==
    ASSUME SessionsInv, Cleared, UNCHANGED <<cookies, tick, issued, chosen, bought>>
    PROVE  AccountStands' /\ FactorStands' /\ SessionsStand' /\ CodesStand'
           /\ account'.factorAt = 0 /\ factor'.pending = 0
  <1>1. /\ account' \in [hash : Hashes, active : BOOLEAN, factorAt : 0..MostFactors]
        /\ account'.hash = account.hash /\ account'.factorAt = 0
    BY SessionNumbers DEF SessionsInv, AccountStands, Cleared
  <1>2. /\ factor' \in [secret : 0..MostFactors, pending : 0..MostFactors, lastStep : Steps, recovery : BOOLEAN]
        /\ factor'.secret = 0 /\ factor'.pending = 0
    BY SessionNumbers DEF Cleared, NoFactor
  <1>3. AccountStands'  BY <1>1 DEF SessionsInv, AccountStands
  <1>4. FactorStands'  BY <1>1, <1>2, SessionNumbers DEF SessionsInv, FactorStands
  <1>5. ASSUME NEW i \in Ids
        PROVE  /\ session'[i] \in SessionRow
               /\ session'[i].live = session[i].live /\ session'[i].by = session[i].by /\ session'[i].visit = 0
    <2>1. session[i] \in SessionRow  BY DEF SessionsInv, SessionsStand
    <2>2. session'[i] = [session[i] EXCEPT !.visit = 0]  BY DEF Cleared
    <2> QED  BY <2>1, <2>2, SessionNumbers DEF SessionRow
  <1>6. session' \in [Ids -> SessionRow]  BY <1>5 DEF Cleared
  <1>7. \A i \in Ids : RowStands(session[i])'
    BY <1>1, <1>5 DEF SessionsInv, SessionsStand, RowStands
  <1>8. SessionsStand'  BY <1>6, <1>7 DEF SessionsStand
  <1>9. \A s \in Secrets : s # 0  BY SessionNumbers
  <1>10. CodesStand'  BY <1>2, <1>9 DEF SessionsInv, CodesStand, CodesBuyOnce
  <1> QED  BY <1>1, <1>2, <1>3, <1>4, <1>8, <1>10

LEMMA DisableTwoFactorStep == ASSUME SessionsInv, NEW r \in Requests, DisableTwoFactor(r) PROVE SessionsInv'
  <1>1. AccountStands' /\ FactorStands' /\ SessionsStand' /\ CodesStand' /\ account'.factorAt = 0 /\ factor'.pending = 0
    BY ClearedStands DEF DisableTwoFactor
  <1>2. \A s \in Requests : request[s] \in RequestRow /\ RequestStands(request[s])
    BY DEF SessionsInv, RequestsStand
  <1>3. \A s \in Requests : request'[s] = request[s] \/ request'[s] = Done
    BY DEF DisableTwoFactor, SessionsInv, RequestsStand
  <1>4. Done.factorAt = 0 /\ Done.at = "issued" /\ Done.op = "idle"  BY DEF Done, Blank
  <1>5. 0 <= issued /\ issued' = issued  BY SessionNumbers DEF SessionsInv, FactorStands, DisableTwoFactor
  <1>6. \A s \in Requests : RequestStands(request[s])'
    BY <1>1, <1>2, <1>3, <1>4, <1>5 DEF RequestStands
  <1>7. request' \in [Requests -> RequestRow]
    BY BlankRows DEF SessionsInv, RequestsStand, DisableTwoFactor
  <1> QED  BY <1>1, <1>6, <1>7 DEF SessionsInv, RequestsStand

LEMMA ResetTwoFactorStep == ASSUME SessionsInv, ResetTwoFactor PROVE SessionsInv'
  <1>1. AccountStands' /\ FactorStands' /\ SessionsStand' /\ CodesStand' /\ account'.factorAt = 0 /\ factor'.pending = 0
    BY ClearedStands DEF ResetTwoFactor
  <1>2. RequestsStand'
    BY <1>1 DEF SessionsInv, RequestsStand, RequestStands, ResetTwoFactor
  <1> QED  BY <1>1, <1>2 DEF SessionsInv

-----------------------------------------------------------------------------
(* Visits, sign-outs, the administrator's switch. *)

\* The row keeps what it has proved.
LEMMA RowVisited ==
    ASSUME SessionsInv, NEW i \in Ids, NEW row \in SessionRow,
           row.live = session[i].live, row.by = session[i].by, row.pending = session[i].pending,
           row.factor = session[i].factor, row.left => row.visit = 0,
           session' = [session EXCEPT ![i] = row], UNCHANGED account
    PROVE  SessionsStand'
  <1>1. RowStands(row)  BY DEF SessionsInv, SessionsStand, RowStands
  <1> QED  BY <1>1, RowMoves DEF SessionsInv

LEMMA VisitOpens ==
    ASSUME SessionsInv, NEW i \in Ids, NEW secret \in 0..MostFactors, Visit(i, secret, FALSE), UNCHANGED account
    PROVE  SessionsStand'
  <1> DEFINE row == [session[i] EXCEPT !.visit = secret, !.left = FALSE]
  <1>1. session[i] \in SessionRow  BY DEF SessionsInv, SessionsStand
  <1>2. CASE session[i].live
    <2>1. /\ row \in SessionRow /\ row.live = session[i].live /\ row.by = session[i].by
          /\ row.pending = session[i].pending /\ row.factor = session[i].factor
          /\ row.left => row.visit = 0
      BY <1>1 DEF SessionRow
    <2>2. session' = [session EXCEPT ![i] = row]  BY <1>2 DEF Visit
    <2> HIDE DEF row
    <2> QED  BY <2>1, <2>2, RowVisited
  <1>3. CASE ~session[i].live
    <2>1. session' = session  BY <1>3 DEF Visit, SessionsInv, SessionsStand
    <2> QED  BY <2>1, SessionsStay DEF SessionsInv
  <1> QED  BY <1>2, <1>3

LEMMA VisitLeft ==
    ASSUME SessionsInv, NEW i \in Ids, Visit(i, 0, TRUE), UNCHANGED account
    PROVE  SessionsStand'
  <1> DEFINE row == [session[i] EXCEPT !.visit = 0, !.left = TRUE]
  <1>1. session[i] \in SessionRow  BY DEF SessionsInv, SessionsStand
  <1>4. 0 \in 0..MostFactors  BY SessionNumbers
  <1>2. CASE session[i].live
    <2>3. row \in SessionRow /\ row.visit = 0  BY <1>1, <1>4 DEF SessionRow
    <2>1. /\ row \in SessionRow /\ row.live = session[i].live /\ row.by = session[i].by
          /\ row.pending = session[i].pending /\ row.factor = session[i].factor
          /\ row.left => row.visit = 0
      BY <1>1, <2>3 DEF SessionRow
    <2>2. session' = [session EXCEPT ![i] = row]  BY <1>2 DEF Visit
    <2> HIDE DEF row
    <2> QED  BY <2>1, <2>2, RowVisited
  <1>3. CASE ~session[i].live
    <2>1. session' = session  BY <1>3 DEF Visit, SessionsInv, SessionsStand
    <2> QED  BY <2>1, SessionsStay DEF SessionsInv
  <1> QED  BY <1>2, <1>3

LEMMA EnterBackofficeStep == ASSUME SessionsInv, NEW r \in Requests, EnterBackoffice(r) PROVE SessionsInv'
  <1>1. request[r].sess \in Ids /\ request[r].spent \in 0..MostFactors
    BY DEF SessionsInv, RequestsStand, RequestRow, RequestStands, EnterBackoffice
  <1>2. SessionsStand'  BY <1>1, VisitOpens DEF EnterBackoffice
  <1>3. RequestsStand'  BY RequestOver DEF EnterBackoffice
  <1> QED  BY <1>2, <1>3, AccountStays, FactorStays, CodesStay DEF SessionsInv, EnterBackoffice

LEMMA LeaveBackofficeStep == ASSUME SessionsInv, NEW r \in Requests, LeaveBackoffice(r) PROVE SessionsInv'
  <1>1. request[r].sess \in Ids
    BY DEF SessionsInv, RequestsStand, RequestStands, LeaveBackoffice
  <1>2. SessionsStand'  BY <1>1, VisitLeft DEF LeaveBackoffice
  <1>3. RequestsStand'  BY RequestOver DEF LeaveBackoffice
  <1> QED  BY <1>2, <1>3, AccountStays, FactorStays, CodesStay DEF SessionsInv, LeaveBackoffice

\* Only a visit that is open slides: one that was left has none to keep.
LEMMA KeepBackofficeOpenStep == ASSUME SessionsInv, NEW r \in Requests, KeepBackofficeOpen(r) PROVE SessionsInv'
  <1> DEFINE i == request[r].sess
             row == [session[i] EXCEPT !.visit = request[r].factorAt]
  <1>1. i \in Ids /\ request[r].factorAt \in 0..MostFactors
    BY DEF SessionsInv, RequestsStand, RequestRow, RequestStands, KeepBackofficeOpen
  <1>2. session[i] \in SessionRow /\ RowStands(session[i])  BY <1>1 DEF SessionsInv, SessionsStand
  <1>3. SessionsStand'
    <2>1. CASE session[i].live /\ Slides(i)
      <3>1. /\ row \in SessionRow /\ row.live = session[i].live /\ row.by = session[i].by
            /\ row.pending = session[i].pending /\ row.factor = session[i].factor /\ row.left = session[i].left
        BY <1>1, <1>2 DEF SessionRow
      <3>2. ~row.left  BY <1>2, <2>1, <3>1 DEF RowStands, Slides
      <3>3. session' = [session EXCEPT ![i] = row]  BY <2>1 DEF KeepBackofficeOpen
      <3>4. UNCHANGED account  BY DEF KeepBackofficeOpen
      <3> HIDE DEF row
      <3> QED  BY <1>1, <3>1, <3>2, <3>3, <3>4, RowVisited
    <2>2. CASE ~(session[i].live /\ Slides(i))
      <3>1. session' = session  BY <2>2 DEF KeepBackofficeOpen, SessionsInv, SessionsStand
      <3> QED  BY <3>1, SessionsStay DEF SessionsInv, KeepBackofficeOpen
    <2> QED  BY <2>1, <2>2
  <1>4. RequestsStand'  BY RequestOver DEF KeepBackofficeOpen
  <1> QED  BY <1>3, <1>4, AccountStays, FactorStays, CodesStay DEF SessionsInv, KeepBackofficeOpen

LEMMA SignOutStep == ASSUME SessionsInv, NEW i \in Ids, SignOut(i) PROVE SessionsInv'
  <1>1. SessionsStand'  BY BlankRows, RowMoves DEF SessionsInv, SignOut
  <1> QED  BY <1>1, AccountStays, FactorStays, RequestsStay, CodesStay DEF SessionsInv, SignOut

LEMMA SignOutOthersStep == ASSUME SessionsInv, NEW i \in Ids, SignOutOthers(i) PROVE SessionsInv'
  <1>1. \A j \in Ids : session[j] \in SessionRow /\ RowStands(session[j])  BY DEF SessionsInv, SessionsStand
  <1>2. session' \in [Ids -> SessionRow] /\ \A j \in Ids : RowStands(session'[j])
    BY <1>1, OthersEnd DEF SessionsInv, SignOutOthers
  <1>3. SessionsStand'  BY <1>2 DEF SessionsStand, RowStands, SignOutOthers
  <1> QED  BY <1>3, AccountStays, FactorStays, RequestsStay, CodesStay DEF SessionsInv, SignOutOthers

LEMMA SetStatusStep == ASSUME SessionsInv, SetStatus PROVE SessionsInv'
  <1>1. /\ account' \in [hash : Hashes, active : BOOLEAN, factorAt : 0..MostFactors]
        /\ account'.hash = account.hash /\ account'.factorAt = account.factorAt
    BY DEF SessionsInv, AccountStands, SetStatus
  <1>2. AccountStands'  BY <1>1 DEF SessionsInv, AccountStands, SetStatus
  <1>3. FactorStands'  BY <1>1 DEF SessionsInv, FactorStands, SetStatus
  <1>4. RequestsStand'  BY <1>1 DEF SessionsInv, RequestsStand, RequestStands, SetStatus
  <1>5. session' = EndOthers(session, {}) \/ session' = session  BY DEF SetStatus
  <1>6. session' \in [Ids -> SessionRow] /\ \A i \in Ids : RowStands(session'[i])
    BY <1>5, OthersEnd DEF SessionsInv, SessionsStand
  <1>7. SessionsStand'  BY <1>1, <1>6 DEF SessionsStand, RowStands
  <1> QED  BY <1>2, <1>3, <1>4, <1>7, CodesStay DEF SessionsInv, SetStatus

LEMMA AgeStep == ASSUME SessionsInv, NEW i \in Ids, Age(i) PROVE SessionsInv'
  <1> DEFINE row == [session[i] EXCEPT !.fresh = FALSE]
  <1>1. session[i] \in SessionRow /\ RowStands(session[i])  BY DEF SessionsInv, SessionsStand
  <1>2. /\ row \in SessionRow /\ row.live = session[i].live /\ row.by = session[i].by
        /\ row.pending = session[i].pending /\ row.factor = session[i].factor
        /\ row.left = session[i].left /\ row.visit = session[i].visit
    BY <1>1 DEF SessionRow
  <1>3. session' = [session EXCEPT ![i] = row]  BY DEF Age
  <1>5. row.left => row.visit = 0  BY <1>1, <1>2 DEF RowStands
  <1>6. UNCHANGED account  BY DEF Age
  <1> HIDE DEF row
  <1>4. SessionsStand'  BY <1>2, <1>3, <1>5, <1>6, RowVisited
  <1> QED  BY <1>4, AccountStays, FactorStays, RequestsStay, CodesStay DEF SessionsInv, Age

LEMMA TickStep == ASSUME SessionsInv, Tick PROVE SessionsInv'
  <1>1. AccountStands'  BY SessionNumbers DEF SessionsInv, AccountStands, Tick
  <1> QED  BY <1>1, FactorStays, SessionsStay, RequestsStay, CodesStay DEF SessionsInv, Tick

-----------------------------------------------------------------------------
(* The invariant and the theorem. *)

LEMMA SessionsStart == SessionsInit => SessionsInv
  <1> SUFFICES ASSUME SessionsInit PROVE SessionsInv
    OBVIOUS
  <1>1. PICK first \in {NoPassword, CHOOSE p \in Passwords : TRUE},
             enrolment \in {"none", "begun", "done", "waiting"} :
         LET secret == IF enrolment \in {"none", "begun"} THEN 0 ELSE 1 IN
         /\ account = [hash |-> [of |-> first, weak |-> first # NoPassword], active |-> TRUE, factorAt |-> secret]
         /\ factor = [secret |-> secret, pending |-> IF enrolment = "begun" THEN 1 ELSE 0,
                      lastStep |-> 0, recovery |-> secret # 0]
         /\ chosen = first
         /\ issued = IF enrolment = "none" THEN 0 ELSE 1
         /\ session = [i \in Ids |-> CASE i = 1 -> [Row(FALSE, first, secret) EXCEPT !.visit = secret]
                                       [] i = 2 /\ enrolment = "waiting" -> Row(TRUE, first, 0)
                                       [] OTHER -> NoSession]
    BY DEF SessionsInit
  <1> DEFINE secret == IF enrolment \in {"none", "begun"} THEN 0 ELSE 1
             hash == [of |-> first, weak |-> first # NoPassword]
             mine == [Row(FALSE, first, secret) EXCEPT !.visit = secret]
             waiting == Row(TRUE, first, 0)
  <1>2. request = [r \in Requests |-> Idle] /\ cookies = {} /\ tick = 1 /\ bought = [c \in FactorCodes |-> 0]
    BY DEF SessionsInit, FactorCodes
  <1>3. (CHOOSE p \in Passwords : TRUE) \in Passwords  BY SessionsAssumption DEF SessionsAssumption
  <1>4. first \in Passwords \cup {NoPassword}  BY <1>3
  <1>5. hash \in Hashes /\ hash.of = first
    <2>1. CASE first = NoPassword
      <3>1. hash = NoHash  BY <2>1 DEF NoHash
      <3> QED  BY <3>1, SomeHashes
    <2>2. CASE first # NoPassword  BY <1>4, <2>2, SomeHashes
    <2> QED  BY <2>1, <2>2
  <1>6. secret \in 0..1 /\ secret \in 0..MostFactors /\ 1 \in 0..MostFactors /\ 0 \in 0..MostFactors
    BY SessionNumbers
  <1>7. AccountStands
    <2>1. account.hash = hash /\ account.factorAt = secret /\ account = [hash |-> hash, active |-> TRUE, factorAt |-> secret]
      BY <1>1
    <2> HIDE DEF hash, secret
    <2> QED  BY <1>1, <1>2, <1>4, <1>5, <1>6, <2>1, SessionNumbers DEF AccountStands
  <1>8. FactorStands  BY <1>1, <1>6, SessionNumbers DEF FactorStands
  <1>9. account.factorAt = secret /\ account.hash.of = first  BY <1>1
  <1>10. /\ mine \in SessionRow /\ mine.by = first /\ mine.factor = secret /\ mine.left = FALSE
         /\ waiting \in SessionRow /\ waiting.by = first /\ waiting.pending = TRUE /\ waiting.left = FALSE
    <2> HIDE DEF secret
    <2> QED  BY <1>4, <1>6 DEF Row, SessionRow
  <1>11. RowStands(mine) /\ RowStands(waiting)
    <2> HIDE DEF mine, waiting, secret
    <2> QED  BY <1>9, <1>10 DEF RowStands
  <1>12. SessionsStand
    <2>1. session = [i \in Ids |-> CASE i = 1 -> mine [] i = 2 /\ enrolment = "waiting" -> waiting
                                     [] OTHER -> NoSession]
      BY <1>1
    <2> HIDE DEF mine, waiting
    <2>2. \A i \in Ids : session[i] \in {mine, waiting, NoSession}  BY <2>1
    <2>3. \A i \in Ids : session[i] \in SessionRow /\ RowStands(session[i])  BY <1>8, <1>10, <1>11, <2>2, BlankRows
    <2>4. session \in [Ids -> SessionRow]  BY <2>1, <2>3
    <2> QED  BY <2>3, <2>4 DEF SessionsStand
  <1>13. RequestsStand  BY <1>2, <1>8, BlankRows DEF RequestsStand
  <1>14. CodesStand
    <2>1. \A s \in Secrets : \A t \in Steps \cup {Sheet} : bought[<<s, t>>] = 0  BY <1>2, FactorCodesAre
    <2>2. bought \in [FactorCodes -> 0..2] /\ CodesBuyOnce  BY <1>2 DEF CodesBuyOnce
    <2>3. factor.secret # 0 => factor.secret \in Secrets  BY <1>8, SessionNumbers DEF FactorStands
    <2> QED  BY <2>1, <2>2, <2>3 DEF CodesStand
  <1> QED  BY <1>7, <1>8, <1>12, <1>13, <1>14 DEF SessionsInv

LEMMA SessionsStep == SessionsInv /\ [SessionsNext]_sessionVars => SessionsInv'
  <1> SUFFICES ASSUME SessionsInv, [SessionsNext]_sessionVars PROVE SessionsInv'
    OBVIOUS
  <1>1. ASSUME NEW r \in Requests, NEW i \in Ids, NEW op \in Operations \ {"password", "provider", "complete"}, Ask(r, i, op)
        PROVE  SessionsInv'
    BY <1>1, AskStep
  <1>2. ASSUME NEW r \in Requests, NEW op \in {"password", "provider"}, SignInRead(r, op) PROVE SessionsInv'
    BY <1>2, SignInReadStep
  <1>3. ASSUME NEW r \in Requests, NEW i \in Ids, CompleteRead(r, i) PROVE SessionsInv'
    BY <1>3, CompleteReadStep
  <1>4. ASSUME NEW r \in Requests,
               \/ Issue(r) \/ Rehash(r) \/ ChangePassword(r) \/ BeginTwoFactor(r)
               \/ SpendCode(r) \/ SpendRecovery(r) \/ Trade(r) \/ Remember(r) \/ DisableTwoFactor(r)
               \/ EnterBackoffice(r) \/ KeepBackofficeOpen(r) \/ LeaveBackoffice(r)
               \/ GiveUp(r)
        PROVE  SessionsInv'
    BY <1>4, IssueStep, RehashStep, ChangePasswordStep, BeginTwoFactorStep, SpendCodeStep, SpendRecoveryStep,
       TradeStep, RememberStep, DisableTwoFactorStep, EnterBackofficeStep, KeepBackofficeOpenStep, LeaveBackofficeStep, GiveUpStep
  <1>5. ASSUME NEW r \in Requests, NEW step \in Steps, EnableTwoFactor(r, step) \/ MatchCode(r, step) PROVE SessionsInv'
    BY <1>5, EnableStep, MatchCodeStep
  <1>6. ASSUME NEW i \in Ids, SignOut(i) \/ SignOutOthers(i) \/ Age(i) PROVE SessionsInv'
    BY <1>6, SignOutStep, SignOutOthersStep, AgeStep
  <1>7. CASE SetPassword \/ ResetTwoFactor \/ SetStatus \/ Tick
    BY <1>7, SetPasswordStep, ResetTwoFactorStep, SetStatusStep, TickStep
  <1>8. CASE UNCHANGED sessionVars
    BY <1>8, AccountStays, FactorStays, SessionsStay, RequestsStay, CodesStay DEF sessionVars, SessionsInv
  <1> QED  BY Zenon, <1>1, <1>2, <1>3, <1>4, <1>5, <1>6, <1>7, <1>8 DEF SessionsNext

(* What a session stands for is what was proved, whatever was in flight when *)
(* the password, the second step or the status of the account changed: it    *)
(* stands on the password on file and, while the second step is on, on this  *)
(* enrolment; a code buys one thing; a rehash never puts an older password   *)
(* back; a visit that was left stays shut (auth: service.go, session.go,     *)
(* twofactor.go).                                                            *)
THEOREM SessionsSound == SessionsSpec => []SessionsHold
  <1>1. SessionsInv => SessionsHold
    <2> SUFFICES ASSUME SessionsInv PROVE SessionsHold
      OBVIOUS
    <2>1. /\ SessionsTypeOK
      BY DEF SessionsInv, SessionsTypeOK, AccountStands, FactorStands, SessionsStand, RequestsStand, CodesStand,
             SessionRow, RequestRow, FactorCodes
    <2>2. SessionsOfThisPassword /\ LeftVisitsStayShut /\ WholeSessionsProvedTheFactor
      BY DEF SessionsInv, SessionsStand, RowStands, SessionsOfThisPassword, LeftVisitsStayShut,
             WholeSessionsProvedTheFactor, Full
    <2>3. CodesBuyOnce /\ ChosenPasswordStands
      BY DEF SessionsInv, CodesStand, AccountStands, ChosenPasswordStands
    <2> QED  BY <2>1, <2>2, <2>3 DEF SessionsHold
  <1> QED  BY <1>1, SessionsStart, SessionsStep, PTL DEF SessionsSpec

-----------------------------------------------------------------------------
(* Verification. A link is live only for the address the account has, and  *)
(* the wrong codes are within what the account has counted. A mail that is *)
(* on its way carries a link of its own, which nothing else has posted,    *)
(* and which is good for longer than any mail takes: so what a refused     *)
(* mail takes back has not arrived, and what a resend leaves is good.      *)

LinkRow == [state : {"unissued", "live", "gone"}, email : AddressesOf \cup {NoAddress},
            expires : 0..(LastHour + LinkLife), codeUntil : 0..(LastHour + CodeLife),
            made : 0..LastHour, tries : 0..MaxTries]
MailRow == [link : 0..MostLinks, resend : BOOLEAN, sent : BOOLEAN, at : 0..LastHour]

OwnerStands ==
    /\ owner \in [email : AddressesOf, verified : BOOLEAN, proven : BOOLEAN]
    /\ proof \in AddressesOf \cup {NoAddress}
    /\ ProofIsOfTheAddress
LinksStand == link \in [Links -> LinkRow] /\ LinksAreOfTheAddress
TriesStand ==
    /\ tries \in [count : 0..MaxTries, last : 0..LastHour]
    /\ wrong \in Nat /\ wrong <= tries.count

MailStands(m) ==
    /\ m.sent => m.resend /\ m.link # 0
    /\ m.link # 0 =>
         /\ m.link \in Links /\ link[m.link].state # "unissued"
         /\ m.sent <=> m.link \in posted
         /\ hour <= m.at + SendTime
         /\ m.resend /\ link[m.link].state = "live" => link[m.link].expires = m.at + LinkLife
MailsStand ==
    /\ sender \in [Senders -> MailRow] /\ \A s \in Senders : MailStands(sender[s])
    /\ \A s, t \in Senders : s # t /\ sender[s].link # 0 => sender[s].link # sender[t].link
    /\ posted \subseteq Links /\ \A l \in posted : link[l].state # "unissued"
    /\ hour \in 0..LastHour

VerificationInv == OwnerStands /\ LinksStand /\ TriesStand /\ MailsStand

LEMMA LinkNumbers ==
    /\ MostLinks \in Nat /\ MostLinks >= 1 /\ MaxTries \in Nat /\ MaxTries >= 1 /\ LastHour \in Nat
    /\ LinkLife \in Nat /\ CodeLife \in Nat /\ TryWindow \in Nat /\ SendTime \in Nat /\ SendTime <= LinkLife
    /\ Links \subseteq 0..MostLinks /\ 0 \in 0..MostLinks /\ 0 \notin Links /\ 1 \in Links
    /\ 0 \in 0..LastHour /\ 0 \in 0..(LastHour + LinkLife) /\ 0 \in 0..(LastHour + CodeLife) /\ 0 \in 0..MaxTries
  BY VerificationAssumption DEF VerificationAssumption, Links

LEMMA LinkRows == NoLink \in LinkRow /\ Gone \in LinkRow
  BY LinkNumbers DEF NoLink, Gone, LinkRow

LEMMA FreshLink ==
    ASSUME NEW a \in AddressesOf, NEW made \in 0..LastHour, hour \in 0..LastHour
    PROVE  Fresh(a, made) \in LinkRow
  <1>1. hour + LinkLife \in 0..(LastHour + LinkLife) /\ hour + CodeLife \in 0..(LastHour + CodeLife)
    BY LinkNumbers
  <1>2. 0 \in 0..MaxTries  BY LinkNumbers
  <1> QED  BY <1>1, <1>2 DEF Fresh, LinkRow

LEMMA OwnerStays == ASSUME OwnerStands, UNCHANGED <<owner, proof>> PROVE OwnerStands'
  BY DEF OwnerStands, ProofIsOfTheAddress
LEMMA LinksStay == ASSUME LinksStand, UNCHANGED <<owner, link>> PROVE LinksStand'
  BY DEF LinksStand, LinksAreOfTheAddress, Live
LEMMA TriesStay == ASSUME TriesStand, UNCHANGED <<tries, wrong>> PROVE TriesStand'
  BY DEF TriesStand
LEMMA MailsStay == ASSUME MailsStand, UNCHANGED <<link, sender, posted, hour>> PROVE MailsStand'
  BY DEF MailsStand, MailStands

\* Rows end, and none begins.
Ending(ls) ==
    /\ link' \in [Links -> LinkRow]
    /\ \A l \in Links : link'[l] = link[l] \/ link'[l].state = "gone"
    /\ \A l \in ls : link'[l].state # "live"
    /\ \A l \in Links \ ls : link'[l] = link[l]

LEMMA RowsEnd == ASSUME LinksStand, NEW ls \in SUBSET Links, link' = Without(ls) PROVE Ending(ls)
  <1>1. \A l \in Links : link'[l] = IF l \in ls /\ link[l].state = "live" THEN Gone ELSE link[l]
    BY DEF Without
  <1>2. Gone.state = "gone"  BY DEF Gone
  <1>3. link' \in [Links -> LinkRow]  BY LinkRows DEF Without, LinksStand
  <1> QED  BY <1>1, <1>2, <1>3 DEF Ending

LEMMA EndedLinks ==
    ASSUME LinksStand, NEW ls \in SUBSET Links, Ending(ls), owner'.email = owner.email \/ ls = Links
    PROVE  LinksStand'
  BY DEF LinksStand, LinksAreOfTheAddress, Live, Ending

LEMMA EndedMails ==
    ASSUME MailsStand, NEW ls \in SUBSET Links, Ending(ls), UNCHANGED <<sender, posted, hour>>
    PROVE  MailsStand'
  <1>1. \A s \in Senders : MailStands(sender[s])'
    BY DEF MailsStand, MailStands, Ending
  <1>2. \A l \in posted' : link'[l].state # "unissued"  BY DEF MailsStand, Ending
  <1> QED  BY <1>1, <1>2 DEF MailsStand

\* A mail is over.
LEMMA MailOver ==
    ASSUME MailsStand, NEW s \in Senders, NEW ls \in SUBSET Links, Ending(ls), sender' = [sender EXCEPT ![s] = NoMail],
           UNCHANGED <<posted, hour>>
    PROVE  MailsStand'
  <1>1. NoMail \in MailRow /\ NoMail.link = 0 /\ NoMail.sent = FALSE  BY LinkNumbers DEF NoMail, MailRow
  <1>2. \A t \in Senders : sender'[t] = IF t = s THEN NoMail ELSE sender[t]  BY DEF MailsStand
  <1>3. \A t \in Senders : MailStands(sender[t])'
    BY <1>1, <1>2 DEF MailsStand, MailStands, Ending
  <1>4. \A l \in posted' : link'[l].state # "unissued"  BY DEF MailsStand, Ending
  <1>5. sender' \in [Senders -> MailRow]  BY <1>1 DEF MailsStand
  <1>6. \A t, u \in Senders : t # u /\ sender'[t].link # 0 => sender'[t].link # sender'[u].link
    BY <1>1, <1>2 DEF MailsStand
  <1> QED  BY <1>3, <1>4, <1>5, <1>6 DEF MailsStand

LEMMA Unended == ASSUME LinksStand, UNCHANGED link PROVE Ending({})
  BY DEF LinksStand, Ending

\* The address is proved by a link that is the account's.
LEMMA ProvedStands ==
    ASSUME VerificationInv, Proved(owner.email), UNCHANGED <<sender, posted, hour>>
    PROVE  VerificationInv'
  <1>1. OwnerStands'  BY DEF VerificationInv, OwnerStands, ProofIsOfTheAddress, Proved
  <1>2. Ending(Links)  BY RowsEnd DEF VerificationInv, Proved
  <1>3. LinksStand' /\ MailsStand'  BY <1>2, EndedLinks, EndedMails DEF VerificationInv
  <1>4. TriesStand'  BY LinkNumbers DEF Proved, TriesStand
  <1> QED  BY <1>1, <1>3, <1>4 DEF VerificationInv

LEMMA VerifyStep == ASSUME VerificationInv, NEW l \in Links, Verify(l) PROVE VerificationInv'
  <1>1. CASE hour <= link[l].expires /\ Confirms(l)
    <2>1. Proved(owner.email)  BY <1>1 DEF Verify, Confirms
    <2> QED  BY <2>1, ProvedStands DEF Verify
  <1>2. CASE ~(hour <= link[l].expires /\ Confirms(l))
    <2>1. link' = Without({l}) /\ UNCHANGED <<owner, tries, wrong, proof, sender, posted, hour>>  BY <1>2 DEF Verify
    <2>2. Ending({l})  BY <2>1, RowsEnd DEF VerificationInv
    <2>3. LinksStand' /\ MailsStand'  BY <2>1, <2>2, EndedLinks, EndedMails DEF VerificationInv
    <2> QED  BY <2>1, <2>3, OwnerStays, TriesStay DEF VerificationInv
  <1> QED  BY <1>1, <1>2

LEMMA VerifyCodeStep == ASSUME VerificationInv, NEW l \in Links, VerifyCode(l) PROVE VerificationInv'
  <1>1. Proved(owner.email)  BY DEF VerifyCode, Usable
  <1> QED  BY <1>1, ProvedStands DEF VerifyCode

LEMMA WrongCodeStep == ASSUME VerificationInv, WrongCode PROVE VerificationInv'
  <1>1. \A l \in Links : link[l] \in LinkRow  BY DEF VerificationInv, LinksStand
  <1>2. ASSUME NEW l \in Links
        PROVE  /\ link'[l] \in LinkRow /\ link'[l].state = link[l].state
               /\ link'[l].expires = link[l].expires /\ link'[l].email = link[l].email
    <2>1. CASE l \in Usable
      <3>1. link[l].tries + 1 \in 0..MaxTries  BY <1>1, <2>1, LinkNumbers DEF LinkRow, Usable
      <3>2. link'[l] = [link[l] EXCEPT !.tries = link[l].tries + 1]  BY <2>1 DEF WrongCode
      <3> QED  BY <1>1, <3>1, <3>2 DEF LinkRow
    <2>2. CASE l \notin Usable  BY <1>1, <2>2 DEF WrongCode
    <2> QED  BY <2>1, <2>2
  <1>3. link' \in [Links -> LinkRow]  BY <1>2 DEF WrongCode
  <1>4. UNCHANGED <<owner, sender, posted, proof, hour>>  BY DEF WrongCode
  <1>5. LinksStand'  BY <1>2, <1>3, <1>4 DEF VerificationInv, LinksStand, LinksAreOfTheAddress, Live
  <1>6. MailsStand'
    <2>1. \A s \in Senders : MailStands(sender[s])'  BY <1>2, <1>4 DEF VerificationInv, MailsStand, MailStands
    <2> QED  BY <1>2, <1>4, <2>1 DEF VerificationInv, MailsStand
  <1>7. TriesStand'
    <2>1. tries.count \in 0..MaxTries /\ wrong \in Nat /\ wrong <= tries.count /\ hour \in 0..LastHour
      BY DEF VerificationInv, TriesStand, MailsStand
    <2>2. /\ tries' = [count |-> Spent + 1, last |-> hour]
          /\ wrong' = IF hour - tries.last >= TryWindow THEN 1 ELSE IF wrong <= MaxTries THEN wrong + 1 ELSE wrong
          /\ Spent < MaxTries
      BY DEF WrongCode
    <2>3. Spent \in 0..MaxTries /\ Spent + 1 \in 0..MaxTries  BY <2>1, <2>2, LinkNumbers DEF Spent
    <2>4. wrong' \in Nat /\ wrong' <= Spent + 1
      BY <2>1, <2>2, <2>3, LinkNumbers DEF Spent
    <2> QED  BY <2>1, <2>2, <2>3, <2>4 DEF TriesStand
  <1> QED  BY <1>4, <1>5, <1>6, <1>7, OwnerStays DEF VerificationInv

\* A new link of the address the account has, and perhaps the mail that carries it.
LEMMA LinkBegins ==
    ASSUME MailsStand, LinksStand, NEW l \in NextLink, NEW old \in SUBSET Links, NEW row \in LinkRow, row.state = "live",
           link' \in [Links -> LinkRow], link'[l] = row,
           \A k \in Links \ {l} : link'[k] = link[k] \/ link'[k].state = "gone",
           UNCHANGED <<posted, hour>>,
           \/ UNCHANGED sender
           \/ \E s \in Senders, resend \in BOOLEAN :
                /\ sender' = [sender EXCEPT ![s] = Mail(l, resend)]
                /\ resend => row.expires = hour + LinkLife
    PROVE  MailsStand'
  <1>1. l \in Links /\ link[l].state = "unissued"  BY DEF NextLink, Links
  <1>2. \A s \in Senders : sender[s].link # 0 => sender[s].link # l  BY <1>1 DEF MailsStand, MailStands
  <1>3. l \notin posted  BY <1>1 DEF MailsStand
  <1>4. \A k \in posted' : link'[k].state # "unissued"  BY <1>3 DEF MailsStand
  <1>5. ASSUME NEW s \in Senders PROVE MailStands(sender[s])  BY DEF MailsStand
  <1>6. ASSUME NEW m \in MailRow, MailStands(m), m.link # l PROVE MailStands(m)'
    BY <1>6 DEF MailStands
  <1>9. l # 0 /\ l \in 0..MostLinks  BY <1>1, LinkNumbers
  <1>10. \A s \in Senders : sender[s] \in MailRow /\ sender[s].link # l  BY <1>2, <1>9 DEF MailsStand
  <1>7. CASE UNCHANGED sender
    <2>1. ASSUME NEW s \in Senders PROVE MailStands(sender[s])'
      <3>1. PICK m \in MailRow : m = sender[s]  BY <1>10
      <3>2. MailStands(m)'  BY <1>5, <1>6, <1>10, <3>1
      <3> QED  BY <1>7, <3>1, <3>2
    <2> QED  BY <1>4, <1>7, <2>1 DEF MailsStand
  <1>8. ASSUME NEW s \in Senders, NEW resend \in BOOLEAN, sender' = [sender EXCEPT ![s] = Mail(l, resend)],
               resend => row.expires = hour + LinkLife
        PROVE  MailsStand'
    <2>1. PICK m \in MailRow : m = Mail(l, resend) /\ m.link = l /\ m.at = hour /\ m.resend = resend /\ m.sent = FALSE
      <3>1. Mail(l, resend) \in MailRow  BY <1>9 DEF Mail, MailRow, MailsStand
      <3> QED  BY <3>1 DEF Mail
    <2>2. \A t \in Senders : sender'[t] = IF t = s THEN m ELSE sender[t]  BY <1>8, <2>1 DEF MailsStand
    <2>3. MailStands(m)'
      BY <1>1, <1>3, <1>8, <2>1, LinkNumbers DEF MailStands, MailsStand
    <2>4. ASSUME NEW t \in Senders PROVE MailStands(sender[t])'
      <3>1. CASE t = s  BY <2>2, <2>3, <3>1
      <3>2. CASE t # s
        <4>1. PICK n \in MailRow : n = sender[t]  BY <1>10
        <4>2. MailStands(n)'  BY <1>5, <1>6, <1>10, <4>1
        <4> QED  BY <2>2, <3>2, <4>1, <4>2
      <3> QED  BY <3>1, <3>2
    <2>5. sender' \in [Senders -> MailRow]  BY <1>8, <2>1 DEF MailsStand
    <2>6. \A t, u \in Senders : t # u /\ sender'[t].link # 0 => sender'[t].link # sender'[u].link
      BY <1>1, <1>2, <2>1, <2>2, LinkNumbers DEF MailsStand
    <2> QED  BY <1>4, <2>4, <2>5, <2>6 DEF MailsStand
  <1> QED  BY <1>7, <1>8

LEMMA ResendStep == ASSUME VerificationInv, NEW s \in Senders, Resend(s) PROVE VerificationInv'
  <1>1. PICK l \in NextLink : /\ link' = [link EXCEPT ![l] = Fresh(owner.email, hour)]
                              /\ sender' = [sender EXCEPT ![s] = Mail(l, TRUE)]
    BY DEF Resend
  <1>2. UNCHANGED <<owner, tries, posted, wrong, proof, hour>>  BY DEF Resend
  <1>3. l \in Links  BY DEF NextLink
  <1>4. /\ Fresh(owner.email, hour) \in LinkRow /\ Fresh(owner.email, hour).email = owner.email
        /\ Fresh(owner.email, hour).state = "live" /\ Fresh(owner.email, hour).expires = hour + LinkLife
    <2>1. Fresh(owner.email, hour) \in LinkRow  BY FreshLink DEF VerificationInv, OwnerStands, MailsStand
    <2> QED  BY <2>1 DEF Fresh
  <1>5. link' \in [Links -> LinkRow] /\ link'[l] = Fresh(owner.email, hour) /\ \A k \in Links \ {l} : link'[k] = link[k]
    BY <1>1, <1>3, <1>4 DEF VerificationInv, LinksStand
  <1>6. LinksStand'  BY <1>2, <1>4, <1>5 DEF VerificationInv, LinksStand, LinksAreOfTheAddress, Live
  <1>7. TRUE \in BOOLEAN  OBVIOUS
  <1>8. MailsStand'  BY <1>1, <1>2, <1>4, <1>5, <1>7, LinkBegins DEF VerificationInv
  <1> QED  BY <1>2, <1>6, <1>8, OwnerStays, TriesStay DEF VerificationInv

LEMMA MailSentStep == ASSUME VerificationInv, NEW s \in Senders, MailSent(s) PROVE VerificationInv'
  <1> DEFINE gone == [sender[s] EXCEPT !.sent = TRUE]
             m == IF sender[s].resend THEN gone ELSE NoMail
  <1>1. UNCHANGED <<owner, link, tries, wrong, proof, hour>>  BY DEF MailSent
  <1>2. sender[s] \in MailRow /\ MailStands(sender[s]) /\ sender[s].link # 0
    BY DEF VerificationInv, MailsStand, MailSent
  <1>3. gone \in MailRow /\ gone.link = sender[s].link /\ gone.sent = TRUE /\ gone.at = sender[s].at /\ gone.resend = sender[s].resend
    BY <1>2 DEF MailRow
  <1>4. NoMail \in MailRow /\ NoMail.link = 0 /\ NoMail.sent = FALSE  BY LinkNumbers DEF NoMail, MailRow
  <1>5. sender' = [sender EXCEPT ![s] = m] /\ posted' = posted \cup {sender[s].link}  BY DEF MailSent
  <1>6. \A t \in Senders : sender'[t] = IF t = s THEN m ELSE sender[t]  BY <1>5 DEF VerificationInv, MailsStand
  <1> HIDE DEF gone
  <1>7. \A t \in Senders \ {s} : sender[t].link # sender[s].link  BY <1>2 DEF VerificationInv, MailsStand
  <1>8. ASSUME NEW t \in Senders PROVE MailStands(sender[t])'
    <2>1. CASE t # s
      <3>1. MailStands(sender[t]) /\ sender'[t] = sender[t]  BY <1>6, <2>1 DEF VerificationInv, MailsStand
      <3> QED  BY <1>1, <1>5, <1>7, <2>1, <3>1 DEF MailStands
    <2>2. CASE t = s
      BY <1>1, <1>2, <1>3, <1>4, <1>5, <1>6, <2>2 DEF MailStands
    <2> QED  BY <2>1, <2>2
  <1>9. m \in MailRow /\ (m.link = 0 \/ m.link = sender[s].link)  BY <1>3, <1>4
  <1>10. sender' \in [Senders -> MailRow]  BY <1>5, <1>9 DEF VerificationInv, MailsStand
  <1>11. \A t, u \in Senders : t # u /\ sender'[t].link # 0 => sender'[t].link # sender'[u].link
    BY <1>2, <1>6, <1>9 DEF VerificationInv, MailsStand
  <1>12. posted' \subseteq Links /\ \A l \in posted' : link'[l].state # "unissued"
    BY <1>1, <1>2, <1>5 DEF VerificationInv, MailsStand, MailStands
  <1>13. MailsStand'  BY <1>1, <1>8, <1>10, <1>11, <1>12 DEF VerificationInv, MailsStand
  <1> QED  BY <1>1, <1>13, OwnerStays, LinksStay, TriesStay DEF VerificationInv

\* What a refused mail takes back, or a resend retires, only ends.
LEMMA MailEndsStep ==
    ASSUME VerificationInv, NEW s \in Senders, MailRefused(s) \/ CleanupFails(s) \/ Retire(s) \/ RetireFails(s)
    PROVE  VerificationInv'
  <1>1. UNCHANGED <<owner, tries, posted, wrong, proof, hour>> /\ sender' = [sender EXCEPT ![s] = NoMail]
    BY DEF MailRefused, CleanupFails, Retire, RetireFails
  <1>2. link' = link \/ link' = Without({sender[s].link}) \/ link' = Without(Links \ {sender[s].link})
    BY DEF MailRefused, CleanupFails, Retire, RetireFails, Withdrawn
  <1>3. sender[s].link \in Links
    BY DEF VerificationInv, MailsStand, MailStands, MailRefused, CleanupFails, Retire, RetireFails, MailRow
  <1>4. PICK ls \in SUBSET Links : Ending(ls)
    BY <1>2, <1>3, RowsEnd, Unended DEF VerificationInv
  <1>5. LinksStand' /\ MailsStand'  BY <1>1, <1>4, EndedLinks, MailOver DEF VerificationInv
  <1> QED  BY <1>1, <1>5, OwnerStays, TriesStay DEF VerificationInv

\* A move leaves no link of the address that was left, and no proof of it on the account.
LEMMA MovedOwner ==
    ASSUME VerificationInv, NEW a \in AddressesOf, NEW verified \in BOOLEAN, a # owner.email,
           owner' = [email |-> a, verified |-> verified, proven |-> ProofAfterMove(a)], UNCHANGED proof
    PROVE  OwnerStands'
  <1>1. ProofAfterMove(a) = FALSE  BY DEF ProofAfterMove
  <1> QED  BY <1>1 DEF VerificationInv, OwnerStands, ProofIsOfTheAddress

LEMMA SettleStep ==
    ASSUME VerificationInv, NEW a \in AddressesOf, NEW confirmed \in BOOLEAN, SettleAddressChange(a, confirmed)
    PROVE  VerificationInv'
  <1>1. OwnerStands'  BY MovedOwner DEF SettleAddressChange
  <1>2. Ending(Links)  BY RowsEnd DEF VerificationInv, SettleAddressChange, LinksDropped
  <1>3. LinksStand' /\ MailsStand'
    BY <1>2, EndedLinks, EndedMails DEF VerificationInv, SettleAddressChange
  <1>4. TriesStand'  BY TriesStay DEF VerificationInv, SettleAddressChange, BudgetAfterMove
  <1> QED  BY <1>1, <1>3, <1>4 DEF VerificationInv

LEMMA MoveStep == ASSUME VerificationInv, NEW a \in AddressesOf, MoveAddress(a) PROVE VerificationInv'
  <1>1. /\ a # owner.email /\ owner' = [email |-> a, verified |-> FALSE, proven |-> ProofAfterMove(a)]
        /\ tries' = tries /\ UNCHANGED <<posted, wrong, proof, hour>>
    BY DEF MoveAddress, BudgetAfterMove
  <1>2. PICK l \in NextLink, made \in 0..LastHour :
            /\ link' = [Without(Links) EXCEPT ![l] = Fresh(a, made)]
            /\ \/ UNCHANGED sender
               \/ \E s \in Senders : sender' = [sender EXCEPT ![s] = Mail(l, FALSE)]
    <2>1. \A m \in Links : link[m].made \in 0..LastHour  BY DEF VerificationInv, LinksStand, LinkRow
    <2>2. \A m \in Live : m \in Links  BY DEF Live
    <2>3. hour \in 0..LastHour  BY DEF VerificationInv, MailsStand
    <2> QED  BY Zenon, <2>1, <2>2, <2>3 DEF MoveAddress, LinksDropped
  <1>3. l \in Links /\ hour \in 0..LastHour  BY DEF NextLink, VerificationInv, MailsStand
  <1>4. PICK row \in LinkRow : row = Fresh(a, made) /\ row.state = "live" /\ row.email = a
    <2>1. Fresh(a, made) \in LinkRow  BY <1>3, FreshLink
    <2> QED  BY <2>1 DEF Fresh
  <1>5. \A k \in Links : Without(Links)[k] \in LinkRow /\ Without(Links)[k].state # "live"
                         /\ (Without(Links)[k] = link[k] \/ Without(Links)[k].state = "gone")
    BY LinkRows DEF Without, VerificationInv, LinksStand, Gone
  <1>6. DOMAIN Without(Links) = Links  BY DEF Without
  <1>7. \A k \in Links : link'[k] = IF k = l THEN row ELSE Without(Links)[k]
    BY <1>2, <1>3, <1>4, <1>6
  <1>8. link' \in [Links -> LinkRow]
    <2>1. link' = [k \in Links |-> IF k = l THEN row ELSE Without(Links)[k]]  BY <1>2, <1>4, <1>6
    <2> QED  BY <1>5, <2>1
  <1>9. LinksStand'
    BY <1>1, <1>4, <1>5, <1>7, <1>8 DEF LinksStand, LinksAreOfTheAddress, Live
  <1>10. \A k \in Links \ {l} : link'[k] = link[k] \/ link'[k].state = "gone"  BY <1>5, <1>7
  <1>11. link'[l] = row  BY <1>3, <1>7
  <1>12. MailsStand'
    <2>1. CASE UNCHANGED sender
      BY <1>1, <1>4, <1>8, <1>10, <1>11, <2>1, LinkBegins DEF VerificationInv
    <2>2. CASE \E s \in Senders : sender' = [sender EXCEPT ![s] = Mail(l, FALSE)]
      <3>1. \E s \in Senders, resend \in BOOLEAN :
              /\ sender' = [sender EXCEPT ![s] = Mail(l, resend)]
              /\ resend => row.expires = hour + LinkLife
        BY <2>2
      <3> QED  BY <1>1, <1>4, <1>8, <1>10, <1>11, <3>1, LinkBegins DEF VerificationInv
    <2> QED  BY <1>2, <2>1, <2>2
  <1>13. OwnerStands'  BY <1>1, MovedOwner
  <1> QED  BY <1>1, <1>9, <1>12, <1>13, TriesStay DEF VerificationInv

LEMMA MarkProvenStep == ASSUME VerificationInv, NEW a \in AddressesOf, MarkEmailProven(a) PROVE VerificationInv'
  <1>1. OwnerStands'  BY DEF MarkEmailProven, VerificationInv, OwnerStands, ProofIsOfTheAddress
  <1>2. owner'.email = owner.email /\ UNCHANGED <<link, tries, sender, posted, wrong, hour>>
    BY DEF MarkEmailProven, VerificationInv, OwnerStands
  <1>3. LinksStand'  BY <1>2 DEF VerificationInv, LinksStand, LinksAreOfTheAddress, Live
  <1> QED  BY <1>1, <1>2, <1>3, TriesStay, MailsStay DEF VerificationInv

LEMMA PruneStep == ASSUME VerificationInv, PruneVerifications PROVE VerificationInv'
  <1>1. PICK ls \in SUBSET Links : link' = Without(ls)  BY DEF PruneVerifications, Live
  <1>2. LinksStand' /\ MailsStand'
    BY <1>1, RowsEnd, EndedLinks, EndedMails DEF VerificationInv, PruneVerifications
  <1> QED  BY <1>2, OwnerStays, TriesStay DEF VerificationInv, PruneVerifications

\* No mail takes longer than SendTime.
LEMMA HourStep == ASSUME VerificationInv, HourPasses PROVE VerificationInv'
  <1>1. /\ hour \in 0..LastHour /\ hour < LastHour /\ hour' = hour + 1
        /\ UNCHANGED <<owner, link, tries, sender, posted, wrong, proof>>
    BY DEF HourPasses, VerificationInv, MailsStand
  <1>2. hour' \in 0..LastHour  BY <1>1, LinkNumbers
  <1>3. ASSUME NEW s \in Senders PROVE MailStands(sender[s])'
    <2>1. MailStands(sender[s]) /\ sender[s] \in MailRow  BY DEF VerificationInv, MailsStand
    <2>2. sender[s].at \in Nat  BY <2>1, LinkNumbers DEF MailRow
    <2>3. sender[s].link # 0 => hour < sender[s].at + SendTime  BY DEF HourPasses
    <2>4. sender[s].link # 0 => hour' <= sender[s].at + SendTime  BY <1>1, <2>2, <2>3, LinkNumbers
    <2> QED  BY <1>1, <2>1, <2>4 DEF MailStands
  <1>4. MailsStand'  BY <1>1, <1>2, <1>3 DEF VerificationInv, MailsStand
  <1> QED  BY <1>1, <1>4, OwnerStays, LinksStay, TriesStay DEF VerificationInv

LEMMA VerificationStart == VerificationInit => VerificationInv
  <1> SUFFICES ASSUME VerificationInit PROVE VerificationInv
    OBVIOUS
  <1>1. PICK a \in AddressesOf : owner = [email |-> a, verified |-> FALSE, proven |-> FALSE]
    BY DEF VerificationInit
  <1>2. PICK s \in Senders : sender = [t \in Senders |-> IF t = s THEN Mail(1, FALSE) ELSE NoMail]
    BY DEF VerificationInit
  <1>3. /\ hour = 0 /\ link = [l \in Links |-> IF l = 1 THEN Fresh(owner.email, 0) ELSE NoLink]
        /\ tries = [count |-> 0, last |-> 0] /\ posted = {} /\ wrong = 0 /\ proof = NoAddress
    BY DEF VerificationInit
  <1>4. OwnerStands  BY <1>1, <1>3 DEF OwnerStands, ProofIsOfTheAddress
  <1>5. /\ Fresh(owner.email, 0) \in LinkRow /\ Fresh(owner.email, 0).email = owner.email
        /\ Fresh(owner.email, 0).state = "live"
    <2>1. Fresh(owner.email, 0) \in LinkRow  BY <1>1, <1>3, LinkNumbers, FreshLink
    <2> QED  BY <2>1 DEF Fresh
  <1>6. NoLink.state = "unissued"  BY DEF NoLink
  <1>7. LinksStand
    BY <1>3, <1>5, <1>6, LinkRows DEF LinksStand, LinksAreOfTheAddress, Live
  <1>8. TriesStand  BY <1>3, LinkNumbers DEF TriesStand
  <1>9. /\ NoMail \in MailRow /\ NoMail.link = 0 /\ NoMail.sent = FALSE
        /\ Mail(1, FALSE) \in MailRow /\ Mail(1, FALSE).link = 1 /\ Mail(1, FALSE).sent = FALSE
        /\ Mail(1, FALSE).at = 0 /\ Mail(1, FALSE).resend = FALSE
    BY <1>3, LinkNumbers DEF NoMail, Mail, MailRow, Links
  <1>10. \A t \in Senders : sender[t] = IF t = s THEN Mail(1, FALSE) ELSE NoMail  BY <1>2
  <1>11. link[1].state = "live"  BY <1>3, <1>5, LinkNumbers
  <1>12. MailsStand
    <2>1. \A t \in Senders : MailStands(sender[t])
      <3>1. 1 \in Links /\ 0 <= 0 + SendTime  BY LinkNumbers
      <3>2. ASSUME NEW m \in {NoMail, Mail(1, FALSE)} PROVE MailStands(m)
        <4>1. CASE m = NoMail  BY <1>9, <4>1 DEF MailStands
        <4>2. CASE m = Mail(1, FALSE)
          <5>1. m.link = 1 /\ m.sent = FALSE /\ m.at = 0 /\ m.resend = FALSE  BY <1>9, <4>2
          <5>2. link[m.link].state # "unissued" /\ m.link \notin posted /\ hour <= m.at + SendTime
            BY <1>3, <1>11, <3>1, <5>1
          <5> QED  BY <3>1, <5>1, <5>2 DEF MailStands
        <4> QED  BY <4>1, <4>2
      <3> QED  BY <1>10, <3>2
    <2>2. sender \in [Senders -> MailRow]  BY <1>2, <1>9
    <2> QED  BY <1>3, <1>9, <1>10, <2>1, <2>2, LinkNumbers DEF MailsStand
  <1> QED  BY <1>4, <1>7, <1>8, <1>12 DEF VerificationInv

LEMMA VerificationStep == VerificationInv /\ [VerificationNext]_verificationVars => VerificationInv'
  <1> SUFFICES ASSUME VerificationInv, [VerificationNext]_verificationVars PROVE VerificationInv'
    OBVIOUS
  <1>1. ASSUME NEW l \in Links, Verify(l) \/ VerifyCode(l) PROVE VerificationInv'
    BY <1>1, VerifyStep, VerifyCodeStep
  <1>2. ASSUME NEW s \in Senders, Resend(s) \/ MailSent(s) \/ MailRefused(s) \/ CleanupFails(s) \/ Retire(s) \/ RetireFails(s)
        PROVE  VerificationInv'
    BY <1>2, ResendStep, MailSentStep, MailEndsStep
  <1>3. ASSUME NEW a \in AddressesOf, MoveAddress(a) \/ MarkEmailProven(a) PROVE VerificationInv'
    BY <1>3, MoveStep, MarkProvenStep
  <1>4. ASSUME NEW a \in AddressesOf, NEW confirmed \in BOOLEAN, SettleAddressChange(a, confirmed)
        PROVE  VerificationInv'
    BY <1>4, SettleStep
  <1>5. CASE WrongCode \/ PruneVerifications \/ HourPasses  BY <1>5, WrongCodeStep, PruneStep, HourStep
  <1>6. CASE UNCHANGED verificationVars
    BY <1>6, OwnerStays, LinksStay, TriesStay, MailsStay DEF VerificationInv, verificationVars
  <1> QED  BY Zenon, <1>1, <1>2, <1>3, <1>4, <1>5, <1>6 DEF VerificationNext

(* An address counts as proved only by a link or a code of its own: no link  *)
(* of an address that was left can be followed, however the resends, the     *)
(* moves and the mails fall, and the wrong codes answered stay within the    *)
(* budget of the account (auth/verify.go).                                   *)
THEOREM AddressesSound == VerificationSpec => []AddressesProved
  <1>1. VerificationInv => AddressesProved
    <2> SUFFICES ASSUME VerificationInv PROVE AddressesProved
      OBVIOUS
    <2>1. wrong <= MaxTries /\ wrong \in 0..(MaxTries + 1)
      BY LinkNumbers DEF VerificationInv, TriesStand
    <2>2. VerificationTypeOK
      BY <2>1 DEF VerificationInv, OwnerStands, LinksStand, TriesStand, MailsStand, LinkRow, MailRow, VerificationTypeOK
    <2> QED
      BY <2>1, <2>2 DEF VerificationInv, OwnerStands, LinksStand, AddressesProved, GuessesBudgeted
  <1> QED  BY <1>1, VerificationStart, VerificationStep, PTL DEF VerificationSpec

\* A link that goes on working, in a step that moves neither the account nor the clock.
LEMMA MailedLinkStep ==
    ASSUME VerificationInv, VerificationNext, MailedLinkWorks, UNCHANGED <<owner, hour>>, ~owner.verified
    PROVE  MailedLinkWorks'
  <1>1. PICK k \in posted : link[k].state = "live" /\ link[k].expires >= hour  BY DEF MailedLinkWorks
  <1>2. k \in Links /\ posted \subseteq Links /\ hour \in 0..LastHour  BY DEF VerificationInv, MailsStand
  <1>3. link \in [Links -> LinkRow]  BY DEF VerificationInv, LinksStand
  <1>4. ASSUME NEW j \in posted', link'[j].state = "live", link'[j].expires >= hour PROVE MailedLinkWorks'
    BY <1>4 DEF MailedLinkWorks
  <1>5. ASSUME k \in posted', link'[k] = link[k] PROVE MailedLinkWorks'  BY <1>1, <1>4, <1>5
  <1>6. ASSUME NEW email \in AddressesOf, Proved(email) PROVE FALSE
    BY <1>6 DEF Proved, VerificationInv, OwnerStands
  <1>7. ASSUME NEW ls \in SUBSET Links, k \notin ls, link' = Without(ls), posted' = posted PROVE MailedLinkWorks'
    BY <1>2, <1>5, <1>7 DEF Without
  <1>8. ASSUME NEW l \in Links, Verify(l) PROVE MailedLinkWorks'
    <2>1. link[l].email = owner.email /\ owner.email \in AddressesOf
      BY <1>8 DEF Verify, VerificationInv, OwnerStands, LinksStand, LinksAreOfTheAddress, Live
    <2>2. ~(hour <= link[l].expires)  BY <1>6, <1>8, <2>1 DEF Verify, Confirms
    <2>3. l # k
      <3>1. link[k].expires \in Int /\ hour \in Int  BY <1>2, <1>3, LinkNumbers DEF LinkRow
      <3> QED  BY <1>1, <2>2, <3>1
    <2> QED  BY <1>7, <1>8, <2>2, <2>3 DEF Verify
  <1>9. ASSUME NEW l \in Links, VerifyCode(l) PROVE MailedLinkWorks'
    <2>1. link[l].email = owner.email /\ owner.email \in AddressesOf
      BY <1>9 DEF VerifyCode, Usable, VerificationInv, OwnerStands
    <2> QED  BY <1>6, <1>9, <2>1 DEF VerifyCode
  <1>10. CASE WrongCode
    <2>1. link'[k].state = link[k].state /\ link'[k].expires = link[k].expires
      BY <1>2, <1>3, <1>10 DEF WrongCode, LinkRow
    <2> QED  BY <1>1, <1>4, <1>10, <2>1 DEF WrongCode
  <1>11. ASSUME NEW s \in Senders, Resend(s) PROVE MailedLinkWorks'
    <2>1. PICK l \in NextLink : link' = [link EXCEPT ![l] = Fresh(owner.email, hour)]  BY <1>11 DEF Resend
    <2>2. l # k  BY <1>1, <2>1 DEF NextLink, Links
    <2> QED  BY <1>2, <1>3, <1>5, <1>11, <2>1, <2>2 DEF Resend
  <1>12. ASSUME NEW s \in Senders, MailSent(s) PROVE MailedLinkWorks'  BY <1>5, <1>12 DEF MailSent
  <1>22. ASSUME NEW s \in Senders, CleanupFails(s) PROVE MailedLinkWorks'  BY <1>5, <1>22 DEF CleanupFails
  <1>13. ASSUME NEW s \in Senders, MailRefused(s) PROVE MailedLinkWorks'
    <2>1. sender[s].link \in Links /\ sender[s].link \notin posted
      BY <1>13 DEF MailRefused, VerificationInv, MailsStand, MailStands
    <2> QED  BY <1>5, <1>7, <1>13, <2>1 DEF MailRefused, Withdrawn
  <1>14. ASSUME NEW s \in Senders, Retire(s) PROVE MailedLinkWorks'
    <2>1. CASE link' = link  BY <1>5, <1>14, <2>1 DEF Retire
    <2>2. CASE link' # link
      <3>1. PICK m \in MailRow : m = sender[s]  BY DEF VerificationInv, MailsStand
      <3>2. /\ m.link \in Links /\ m.link \in posted /\ hour <= m.at + SendTime
            /\ link[m.link].state = "live" => link[m.link].expires = m.at + LinkLife
        BY <1>14, <3>1 DEF Retire, VerificationInv, MailsStand, MailStands
      <3>3. link[m.link].state = "live" /\ link' = Without(Links \ {m.link})
        BY <1>14, <2>2, <3>1 DEF Retire, OnFile
      <3>4. link[m.link].expires >= hour
        <4>1. m.at \in Nat  BY LinkNumbers DEF MailRow
        <4> QED  BY <1>2, <3>2, <3>3, <4>1, LinkNumbers
      <3>5. link'[m.link] = link[m.link] /\ posted' = posted
        BY <1>14, <3>2, <3>3 DEF Without, Retire
      <3> QED  BY <1>4, <3>2, <3>3, <3>4, <3>5
    <2> QED  BY <2>1, <2>2
  <1>15. ASSUME NEW s \in Senders, RetireFails(s) PROVE MailedLinkWorks'  BY <1>5, <1>15 DEF RetireFails
  <1>16. ASSUME NEW a \in AddressesOf, a # owner.email, owner'.email = a PROVE FALSE  BY <1>16
  <1>17. ASSUME NEW a \in AddressesOf, MoveAddress(a) PROVE FALSE  BY <1>16, <1>17 DEF MoveAddress
  <1>18. ASSUME NEW a \in AddressesOf, NEW confirmed \in BOOLEAN, SettleAddressChange(a, confirmed) PROVE FALSE
    BY <1>16, <1>18 DEF SettleAddressChange
  <1>19. ASSUME NEW a \in AddressesOf, MarkEmailProven(a) PROVE MailedLinkWorks'  BY <1>5, <1>19 DEF MarkEmailProven
  <1>20. CASE PruneVerifications
    <2>1. ~(link[k].expires < hour)
      <3>1. link[k].expires \in Int /\ hour \in Int  BY <1>2, <1>3, LinkNumbers DEF LinkRow
      <3> QED  BY <1>1, <3>1
    <2>2. k \notin {l \in Live : link[l].expires < hour} /\ {l \in Live : link[l].expires < hour} \subseteq Links
      BY <2>1 DEF Live
    <2> QED  BY <1>7, <1>20, <2>2 DEF PruneVerifications
  <1>21. CASE HourPasses  BY <1>2, <1>21, LinkNumbers DEF HourPasses
  <1> QED
    BY Zenon, <1>8, <1>9, <1>10, <1>11, <1>12, <1>13, <1>14, <1>15, <1>17, <1>18, <1>19, <1>20, <1>21, <1>22
    DEF VerificationNext

(* An account that has been mailed a link that works goes on having one until  *)
(* it is verified, its address moves, or time runs out: a refused mail takes   *)
(* back only what has not arrived, and of two resends that overlap the one     *)
(* that ends last leaves its own (auth/verify.go:485, 516).                    *)
THEOREM MailedLinksStay == VerificationSpec => AMailedLinkStays
  <1>1. VerificationInv /\ [VerificationNext]_verificationVars =>
          [MailedLinkWorks /\ ~MailedLinkWorks' => owner' # owner \/ owner.verified \/ hour' # hour]_verificationVars
    <2> SUFFICES ASSUME VerificationInv, VerificationNext
                 PROVE  MailedLinkWorks /\ ~MailedLinkWorks' => owner' # owner \/ owner.verified \/ hour' # hour
      OBVIOUS
    <2> QED  BY MailedLinkStep
  <1> QED  BY <1>1, VerificationStart, VerificationStep, PTL DEF VerificationSpec, AMailedLinkStays

-----------------------------------------------------------------------------
(* Registration. The founder cannot be deleted, so that an instance is empty *)
(* only before it; every account of the last hour has its row, so that a     *)
(* count of rows is no less than the accounts opened since.                  *)

OpenedRow == [state : {"none", "open", "deleted"}, role : {"none", "user", "superadmin"},
              at : 0..LastSignupMoment, screened : Screenings, answered : BOOLEAN, asked : BOOLEAN]
VisitorRow == [at : {"arriving", "deciding", "unscreened", "unguarded", "done"},
               challenged : BOOLEAN, screened : Screenings, guarded : BOOLEAN]

VisitorsStand ==
    \A v \in Visitors : opened[v].state # "none" =>
        /\ visitor[v].at = "done" /\ opened[v].role \in {"user", "superadmin"}
        /\ opened[v].at >= 1 /\ opened[v].at <= signupMoment
        /\ opened[v].role = "superadmin" => opened[v].state = "open"
CreationsStand ==
    /\ IsFiniteSet(creations)
    /\ \A v \in Ever : opened[v].at > signupMoment - Hour => [by |-> v, at |-> opened[v].at] \in creations
SignupInv ==
    SignupTypeOK /\ VisitorsStand /\ CreationsStand /\ OneFounder /\ NobodyJumpsTheControls /\ RateKept /\ AddressRateKept

LEMMA SignupNumbers ==
    /\ IsFiniteSet(Visitors)
    /\ PerMinute \in Nat /\ PerMinute >= 1 /\ PerHour \in Nat /\ PerHour >= 1 /\ PerAddress \in Nat /\ PerAddress >= 1
    /\ Minute \in Nat /\ Minute >= 1 /\ Hour \in Nat /\ Hour >= 1 /\ Minute <= Hour
    /\ AddressWindow \in Nat /\ AddressWindow >= 1 /\ LastSignupMoment \in Nat /\ LastSignupMoment >= 1
  <1>1. /\ {PerMinute, PerHour, PerAddress, Minute, Hour, AddressWindow, LastSignupMoment} \subseteq Nat \ {0}
        /\ IsFiniteSet(Visitors) /\ Minute <= Hour
    BY SignupAssumption DEF SignupAssumption
  <1> QED  BY <1>1

LEMMA SignupTypes ==
    ASSUME SignupTypeOK
    PROVE  /\ opened \in [Visitors -> OpenedRow] /\ visitor \in [Visitors -> VisitorRow]
           /\ signupMoment \in Nat /\ signupMoment >= 1 /\ signupMoment <= LastSignupMoment
           /\ \A v \in Visitors : opened[v] \in OpenedRow /\ visitor[v] \in VisitorRow /\ opened[v].at \in Nat
           /\ IsFiniteSet(Ever) /\ Ever \in SUBSET Visitors /\ OpenAccounts \in SUBSET Ever
  <1>1. opened \in [Visitors -> OpenedRow] /\ visitor \in [Visitors -> VisitorRow]
    BY DEF SignupTypeOK, OpenedRow, VisitorRow
  <1>2. signupMoment \in Nat /\ signupMoment >= 1 /\ signupMoment <= LastSignupMoment
    BY SignupNumbers DEF SignupTypeOK, Moments
  <1>3. \A v \in Visitors : opened[v] \in OpenedRow /\ visitor[v] \in VisitorRow  BY <1>1
  <1>4. \A v \in Visitors : opened[v].at \in Nat  BY <1>3, SignupNumbers DEF OpenedRow
  <1>5. Ever \in SUBSET Visitors /\ OpenAccounts \in SUBSET Ever  BY DEF Ever, OpenAccounts
  <1>6. IsFiniteSet(Ever)  BY <1>5, SignupNumbers, FS_Subset
  <1> QED  BY <1>1, <1>2, <1>3, <1>4, <1>5, <1>6

\* An instance is empty of open accounts only before its founder.
LEMMA EmptyIsNew == ASSUME SignupInv, ~Populated PROVE Ever = {}
  <1>1. ASSUME Ever # {} PROVE FALSE
    <2>1. PICK f \in Ever : \A v \in Ever : (opened[v].role = "superadmin") <=> v = f
      BY <1>1 DEF SignupInv, OneFounder
    <2>2. opened[f].role = "superadmin" /\ f \in Visitors /\ opened[f].state # "none"  BY <2>1 DEF Ever
    <2>3. opened[f].state = "open"  BY <2>2 DEF SignupInv, VisitorsStand
    <2> QED  BY <2>2, <2>3 DEF Populated, OpenAccounts
  <1> QED  BY <1>1

Since(w) == {v \in Ever : opened[v].at > signupMoment - w}

\* Counting the rows of a window counts at least its accounts.
LEMMA RowsCountAccounts ==
    ASSUME SignupInv, NEW w \in Nat, w <= Hour, NEW v
    PROVE  /\ IsFiniteSet(Since(w)) /\ Cardinality(Since(w)) \in Nat
           /\ CreatedWithin(v, w) \in Nat /\ Cardinality(Since(w)) <= CreatedWithin(v, w)
  <1> DEFINE rows == Within(creations, w)
  <1> DEFINE owners == {row.by : row \in rows}
  <1>1. rows \in SUBSET creations /\ IsFiniteSet(creations)  BY DEF Within, SignupInv, CreationsStand
  <1>2. IsFiniteSet(rows) /\ Cardinality(rows) \in Nat  BY <1>1, FS_Subset, FS_CardinalityType
  <1>3. [row \in rows |-> row.by] \in Surjection(rows, owners)  BY DEF Surjection
  <1>4. IsFiniteSet(owners) /\ Cardinality(owners) <= Cardinality(rows)  BY <1>2, <1>3, FS_Surjection
  <1>5. Since(w) \in SUBSET owners
    <2>1. ASSUME NEW u \in Since(w) PROVE u \in owners
      <3>1. u \in Ever /\ opened[u].at > signupMoment - w /\ u \in Visitors  BY <2>1 DEF Since, Ever
      <3>2. opened[u].at \in Nat /\ signupMoment \in Nat  BY <3>1, SignupTypes DEF SignupInv
      <3>3. opened[u].at > signupMoment - Hour  BY <3>1, <3>2, SignupNumbers
      <3>4. [by |-> u, at |-> opened[u].at] \in creations  BY <3>1, <3>3 DEF SignupInv, CreationsStand
      <3>5. [by |-> u, at |-> opened[u].at] \in rows  BY <3>1, <3>4 DEF Within
      <3> QED  BY <3>5
    <2> QED  BY <2>1
  <1> HIDE DEF rows, owners
  <1>6. IsFiniteSet(Since(w)) /\ Cardinality(Since(w)) <= Cardinality(owners)  BY <1>4, <1>5, FS_Subset
  <1>7. Cardinality(Since(w)) \in Nat /\ Cardinality(owners) \in Nat  BY <1>4, <1>6, FS_CardinalityType
  <1> QED  BY <1>2, <1>4, <1>6, <1>7 DEF CreatedWithin, rows

\* The accounts of the window that ends at t, and one that is opened now.
LEMMA OneMore ==
    ASSUME NEW before, IsFiniteSet(before), NEW v, NEW after, after \subseteq before \cup {v}
    PROVE  IsFiniteSet(after) /\ Cardinality(after) \in Nat /\ Cardinality(before) \in Nat
           /\ Cardinality(after) <= Cardinality(before) + 1
  <1>1. IsFiniteSet(before \cup {v}) /\ Cardinality(before \cup {v}) <= Cardinality(before) + 1 /\ Cardinality(before) \in Nat
    BY FS_AddElement, FS_CardinalityType
  <1>2. after \in SUBSET (before \cup {v})  OBVIOUS
  <1>3. IsFiniteSet(after) /\ Cardinality(after) <= Cardinality(before \cup {v})  BY <1>1, <1>2, FS_Subset
  <1>4. Cardinality(after) \in Nat /\ Cardinality(before \cup {v}) \in Nat  BY <1>1, <1>3, FS_CardinalityType
  <1> QED  BY <1>1, <1>3, <1>4

\* What no account's record depends on.
LEMMA AccountsKept ==
    ASSUME SignupInv, SignupTypeOK', UNCHANGED <<opened, creations, signupMoment>>,
           \A v \in Visitors : visitor[v].at = "done" => visitor'[v].at = "done"
    PROVE  SignupInv'
  <1>1. Ever' = Ever /\ OpenAccounts' = OpenAccounts  BY DEF Ever, OpenAccounts
  <1>2. VisitorsStand'  BY DEF SignupInv, VisitorsStand
  <1>3. CreationsStand'  BY <1>1 DEF SignupInv, CreationsStand
  <1>4. OneFounder' /\ NobodyJumpsTheControls'  BY <1>1 DEF SignupInv, OneFounder, NobodyJumpsTheControls
  <1>5. RateKept'  BY <1>1 DEF SignupInv, RateKept
  <1>6. AddressRateKept'  BY <1>1 DEF SignupInv, AddressRateKept
  <1> QED  BY <1>2, <1>3, <1>4, <1>5, <1>6 DEF SignupInv

LEMMA VisitorMoves ==
    ASSUME SignupInv, NEW v \in Visitors, visitor[v].at # "done",
           NEW row \in VisitorRow, visitor' = [visitor EXCEPT ![v] = row],
           UNCHANGED <<opened, creations, policy, signupMoment>>,
           gate' \in [Processes -> SUBSET Creations]
    PROVE  SignupInv'
  <1>1. visitor' \in [Visitors -> VisitorRow]  BY SignupTypes DEF SignupInv
  <1>2. SignupTypeOK'  BY <1>1 DEF SignupInv, SignupTypeOK, VisitorRow
  <1>3. \A u \in Visitors : visitor[u].at = "done" => visitor'[u].at = "done"  BY SignupTypes DEF SignupInv
  <1> QED  BY <1>2, <1>3, AccountsKept

LEMMA AdvancedRow ==
    ASSUME SignupTypeOK, NEW v \in Visitors, NEW to \in {"arriving", "deciding", "unscreened", "unguarded", "done"}, Advances(v, to)
    PROVE  \E row \in VisitorRow : visitor' = [visitor EXCEPT ![v] = row] /\ row.at = to
  <1>1. visitor[v] \in VisitorRow  BY SignupTypes
  <1>2. [visitor[v] EXCEPT !.at = to] \in VisitorRow /\ [visitor[v] EXCEPT !.at = to].at = to  BY <1>1 DEF VisitorRow
  <1>3. visitor' = [visitor EXCEPT ![v] = [visitor[v] EXCEPT !.at = to]]  BY SignupTypes DEF Advances
  <1> QED  BY <1>2, <1>3

LEMMA GatesAre ==
    ASSUME SignupTypeOK, NEW v \in Visitors
    PROVE  /\ gate \in [Processes -> SUBSET Creations] /\ ProcessOf[v] \in Processes
           /\ [gate EXCEPT ![ProcessOf[v]] = Within(@, Hour)] \in [Processes -> SUBSET Creations]
           /\ RecordedIn(v) \in [Processes -> SUBSET Creations]
           /\ [by |-> v, at |-> signupMoment] \in Creations
  <1>1. gate \in [Processes -> SUBSET Creations] /\ ProcessOf[v] \in Processes  BY DEF SignupTypeOK, Processes
  <1>2. [by |-> v, at |-> signupMoment] \in Creations  BY DEF SignupTypeOK, Creations
  <1>3. \A rows \in SUBSET Creations : Within(rows, Hour) \in SUBSET Creations  BY DEF Within
  <1>4. \A rows \in SUBSET Creations : Recorded(rows, v) \in SUBSET Creations  BY <1>2, <1>3 DEF Recorded
  <1> QED  BY <1>1, <1>2, <1>3, <1>4 DEF RecordedIn

LEMMA PreflightStep ==
    ASSUME SignupInv, NEW v \in Visitors, Preflight(v) \/ PreflightProvider(v)
    PROVE  SignupInv'
  <1>1. SignupTypeOK  BY DEF SignupInv
  <1>2. CASE Preflight(v)
    <2>1. Populated \in BOOLEAN  BY DEF Populated
    <2>2. PICK p \in BOOLEAN : p = Populated  BY <2>1
    <2> DEFINE s == IF p THEN "done" ELSE "due"
    <2>3. visitor' = [visitor EXCEPT ![v] = [at |-> "deciding", challenged |-> p, screened |-> s, guarded |-> FALSE]]
      BY <1>2, <2>2 DEF Preflight
    <2>4. [at |-> "deciding", challenged |-> p, screened |-> s, guarded |-> FALSE] \in VisitorRow
      BY DEF VisitorRow, Screenings
    <2>5. gate' \in [Processes -> SUBSET Creations]
      <3>1. gate' = gate \/ gate' = [gate EXCEPT ![ProcessOf[v]] = Within(@, Hour)]  BY <1>2 DEF Preflight
      <3> QED  BY <1>1, <3>1, GatesAre
    <2>6. visitor[v].at # "done" /\ UNCHANGED <<opened, creations, policy, signupMoment>>  BY <1>2 DEF Preflight
    <2> QED  BY <2>3, <2>4, <2>5, <2>6, VisitorMoves
  <1>3. CASE PreflightProvider(v)
    <2>1. PICK cleared \in BOOLEAN, screened \in Screenings :
             visitor' = [visitor EXCEPT ![v] = [at |-> "deciding", challenged |-> cleared, screened |-> screened, guarded |-> FALSE]]
      BY <1>3 DEF PreflightProvider
    <2>2. [at |-> "deciding", challenged |-> cleared, screened |-> screened, guarded |-> FALSE] \in VisitorRow  BY DEF VisitorRow
    <2>3. gate' \in [Processes -> SUBSET Creations]  BY <1>1, <1>3, GatesAre DEF PreflightProvider
    <2>4. visitor[v].at # "done" /\ UNCHANGED <<opened, creations, policy, signupMoment>>  BY <1>3 DEF PreflightProvider
    <2> QED  BY <2>1, <2>2, <2>3, <2>4, VisitorMoves
  <1> QED  BY <1>2, <1>3

\* A request that goes on or ends without an account.
LEMMA VisitorGoesOn ==
    ASSUME SignupInv, NEW v \in Visitors,
           \/ Refuse(v) \/ RefuseLocked(v) \/ HandBack(v) \/ CommitFails(v)
    PROVE  SignupInv'
  <1>1. SignupTypeOK  BY DEF SignupInv
  <1>2. PICK to \in {"arriving", "deciding", "unscreened", "unguarded", "done"} : Advances(v, to)
    BY DEF Refuse, RefuseLocked, HandBack, CommitFails, Over
  <1>3. visitor[v].at # "done" /\ UNCHANGED <<opened, creations, policy, signupMoment>>
    BY DEF Refuse, RefuseLocked, HandBack, CommitFails, Over
  <1>4. gate' = gate \/ gate' = RecordedIn(v)  BY DEF Refuse, RefuseLocked, HandBack, CommitFails, Over
  <1>5. gate' \in [Processes -> SUBSET Creations]  BY <1>1, <1>4, GatesAre
  <1>6. PICK row \in VisitorRow : visitor' = [visitor EXCEPT ![v] = row]  BY <1>1, <1>2, AdvancedRow
  <1> QED  BY <1>3, <1>5, <1>6, VisitorMoves

LEMMA AskedStep == ASSUME SignupInv, NEW v \in Visitors, Screen(v) \/ AskGuards(v) PROVE SignupInv'
  <1>1. visitor[v] \in VisitorRow /\ visitor \in [Visitors -> VisitorRow]  BY SignupTypes DEF SignupInv
  <1>2. visitor[v].at # "done" /\ UNCHANGED <<opened, creations, policy, signupMoment, gate>>  BY DEF Screen, AskGuards
  <1>3. gate' \in [Processes -> SUBSET Creations]  BY <1>2, GatesAre DEF SignupInv
  <1> DEFINE back == [visitor[v] EXCEPT !.at = "deciding"]
  <1>4. back \in VisitorRow  BY <1>1 DEF VisitorRow
  <1>5. CASE Screen(v)
    <2>1. visitor' = [[visitor EXCEPT ![v] = back] EXCEPT ![v] = [back EXCEPT !.screened = "done"]]
      BY <1>1, <1>5 DEF Screen
    <2>2. [back EXCEPT !.screened = "done"] \in VisitorRow  BY <1>4 DEF VisitorRow, Screenings
    <2> HIDE DEF back
    <2>3. visitor' = [visitor EXCEPT ![v] = [back EXCEPT !.screened = "done"]]  BY <1>1, <2>1
    <2> QED  BY <1>2, <1>3, <2>2, <2>3, VisitorMoves
  <1>6. CASE AskGuards(v)
    <2>1. visitor' = [[visitor EXCEPT ![v] = back] EXCEPT ![v] = [back EXCEPT !.guarded = TRUE]]
      BY <1>1, <1>6 DEF AskGuards
    <2>2. [back EXCEPT !.guarded = TRUE] \in VisitorRow  BY <1>4 DEF VisitorRow
    <2> HIDE DEF back
    <2>3. visitor' = [visitor EXCEPT ![v] = [back EXCEPT !.guarded = TRUE]]  BY <1>1, <2>1
    <2> QED  BY <1>2, <1>3, <2>2, <2>3, VisitorMoves
  <1> QED  BY <1>5, <1>6

\* The account a request opens, and the records that do not change with it.
LEMMA Opens ==
    ASSUME SignupInv, NEW v \in Visitors, Create(v)
    PROVE  /\ v \notin Ever /\ Ever' = Ever \cup {v}
           /\ \A u \in Visitors : u # v => opened'[u] = opened[u]
           /\ opened' \in [Visitors -> OpenedRow]
           /\ opened'[v].state = "open" /\ opened'[v].at = signupMoment
           /\ opened'[v].role = (IF First(v) THEN "superadmin" ELSE "user")
           /\ opened'[v].screened = visitor[v].screened /\ opened'[v].answered = visitor[v].challenged
           /\ opened'[v].asked = policy.challenges
  <1>1. /\ opened \in [Visitors -> OpenedRow] /\ visitor[v] \in VisitorRow
        /\ signupMoment \in Nat /\ signupMoment \in 0..LastSignupMoment
    BY SignupTypes, SignupNumbers DEF SignupInv
  <1>2. PICK role \in {"superadmin", "user"} : role = (IF First(v) THEN "superadmin" ELSE "user")  OBVIOUS
  <1>3. policy.challenges \in BOOLEAN  BY DEF SignupInv, SignupTypeOK
  <1> DEFINE row == [state |-> "open", role |-> role, at |-> signupMoment, screened |-> visitor[v].screened,
                     answered |-> visitor[v].challenged, asked |-> policy.challenges]
  <1>4. opened' = [opened EXCEPT ![v] = row]  BY <1>2 DEF Create
  <1>5. row \in OpenedRow  BY <1>1, <1>3 DEF OpenedRow, VisitorRow
  <1>6. row.state = "open" /\ row.at = signupMoment /\ row.role = role /\ row.screened = visitor[v].screened
        /\ row.answered = visitor[v].challenged /\ row.asked = policy.challenges
    OBVIOUS
  <1> HIDE DEF row
  <1>7. opened' \in [Visitors -> OpenedRow] /\ opened'[v] = row /\ \A u \in Visitors : u # v => opened'[u] = opened[u]
    BY <1>1, <1>4, <1>5
  <1>8. v \notin Ever
    <2>1. visitor[v].at = "deciding"  BY DEF Create
    <2> QED  BY <2>1 DEF SignupInv, VisitorsStand, Ever
  <1>9. Ever' = Ever \cup {v}
    <2>1. ASSUME NEW u \in Ever' PROVE u \in Ever \cup {v}  BY <1>7, <2>1 DEF Ever
    <2>2. ASSUME NEW u \in Ever \cup {v} PROVE u \in Ever'
      <3>1. u \in Visitors /\ opened'[u].state # "none"  BY <1>6, <1>7, <2>2 DEF Ever
      <3> QED  BY <3>1 DEF Ever
    <2> QED  BY <2>1, <2>2
  <1> QED  BY <1>2, <1>6, <1>7, <1>8, <1>9

\* The window ends now or later: it holds accounts that the count saw, and the new one.
LEMMA RateOfCreate ==
    ASSUME SignupInv, NEW v \in Visitors, Create(v), NEW w \in Nat, w <= Hour, w >= 1, NEW limit \in Nat, limit >= 1,
           ~First(v) => CreatedWithin(v, w) < limit,
           NEW t \in Moments,
           Cardinality({u \in Ever : opened[u].at > t - w /\ opened[u].at <= t}) <= limit
    PROVE  Cardinality({u \in Ever : opened[u].at > t - w /\ opened[u].at <= t})' <= limit
  <1> DEFINE old == {u \in Ever : opened[u].at > t - w /\ opened[u].at <= t}
  <1> DEFINE new == {u \in Ever' : opened'[u].at > t - w /\ opened'[u].at <= t}
  <1>1. /\ v \notin Ever /\ Ever' = Ever \cup {v} /\ \A u \in Visitors : u # v => opened'[u] = opened[u]
        /\ opened'[v].at = signupMoment
    BY Opens
  <1>2. /\ signupMoment \in Nat /\ t \in Nat /\ \A u \in Visitors : opened[u].at \in Nat
        /\ Ever \in SUBSET Visitors
    BY SignupTypes, SignupNumbers DEF SignupInv, Moments
  <1>3. \A u \in Ever : opened'[u] = opened[u]  BY <1>1, <1>2
  <1>4. CASE t < signupMoment
    <2>1. v \notin new  BY <1>1, <1>2, <1>4
    <2>2. new = old  BY <1>1, <1>3, <2>1
    <2> QED  BY <2>2
  <1>5. CASE ~(t < signupMoment)
    <2>1. new \subseteq Since(w) \cup {v}
      <3>1. ASSUME NEW u \in new, u # v PROVE u \in Since(w)
        <4>1. u \in Ever /\ opened[u].at > t - w /\ opened[u].at \in Nat  BY <1>1, <1>2, <1>3, <3>1
        <4>2. opened[u].at > signupMoment - w  BY <1>2, <1>5, <4>1
        <4> QED  BY <4>1, <4>2 DEF Since
      <3> QED  BY <3>1
    <2>2. /\ IsFiniteSet(Since(w)) /\ CreatedWithin(v, w) \in Nat /\ Cardinality(Since(w)) <= CreatedWithin(v, w)
      BY RowsCountAccounts
    <2>3. Cardinality(new) \in Nat /\ Cardinality(Since(w)) \in Nat /\ Cardinality(new) <= Cardinality(Since(w)) + 1
      BY <2>1, <2>2, OneMore
    <2>4. CASE First(v)
      <3>1. Since(w) = {}  BY <2>4, EmptyIsNew DEF First, Since
      <3>2. Cardinality(Since(w)) = 0  BY <3>1, FS_EmptySet
      <3> QED  BY <2>3, <3>2
    <2>5. CASE ~First(v)  BY <2>2, <2>3, <2>5
    <2> QED  BY <2>4, <2>5
  <1> QED  BY <1>4, <1>5

LEMMA AddressRateOfCreate ==
    ASSUME SignupInv, NEW v \in Visitors, Create(v), NEW ip, NEW t \in Moments,
           Cardinality({u \in OpenAccounts : OriginOf[u] = ip /\ opened[u].at >= t - AddressWindow /\ opened[u].at <= t}) <= PerAddress
    PROVE  Cardinality({u \in OpenAccounts : OriginOf[u] = ip /\ opened[u].at >= t - AddressWindow /\ opened[u].at <= t})' <= PerAddress
  <1> DEFINE old == {u \in OpenAccounts : OriginOf[u] = ip /\ opened[u].at >= t - AddressWindow /\ opened[u].at <= t}
  <1> DEFINE new == {u \in OpenAccounts' : OriginOf[u] = ip /\ opened'[u].at >= t - AddressWindow /\ opened'[u].at <= t}
  <1>1. /\ v \notin Ever /\ \A u \in Visitors : u # v => opened'[u] = opened[u]
        /\ opened'[v].at = signupMoment /\ opened'[v].state = "open"
    BY Opens
  <1>2. /\ signupMoment \in Nat /\ t \in Nat /\ \A u \in Visitors : opened[u].at \in Nat
        /\ OpenAccounts \subseteq Visitors /\ IsFiniteSet(OpenAccounts)
        /\ AddressWindow \in Nat /\ PerAddress \in Nat /\ PerAddress >= 1
    <2>1. OpenAccounts \in SUBSET Visitors  BY DEF OpenAccounts
    <2>2. IsFiniteSet(OpenAccounts)  BY <2>1, SignupNumbers, FS_Subset
    <2> QED  BY <2>1, <2>2, SignupTypes, SignupNumbers DEF SignupInv, Moments
  <1>3. /\ \A u \in OpenAccounts : u # v /\ opened'[u] = opened[u]
        /\ OpenAccounts' = OpenAccounts \cup {v}
    <2>1. \A u \in OpenAccounts : u # v  BY <1>1 DEF OpenAccounts, Ever
    <2>2. ASSUME NEW u \in OpenAccounts' PROVE u \in OpenAccounts \cup {v}
      BY <1>1, <2>2 DEF OpenAccounts
    <2>3. ASSUME NEW u \in OpenAccounts \cup {v} PROVE u \in OpenAccounts'
      <3>1. u \in Visitors /\ opened'[u].state = "open"  BY <1>1, <1>2, <2>1, <2>3 DEF OpenAccounts
      <3> QED  BY <3>1 DEF OpenAccounts
    <2> QED  BY <1>1, <1>2, <2>1, <2>2, <2>3
  <1>4. CASE t < signupMoment \/ OriginOf[v] # ip
    <2>1. v \notin new  BY <1>1, <1>2, <1>4
    <2>2. new = old  BY <1>3, <2>1
    <2> QED  BY <2>2
  <1>5. CASE ~(t < signupMoment) /\ OriginOf[v] = ip
    <2> DEFINE near == FromAddress(OriginOf[v])
    <2>1. new \subseteq near \cup {v}
      <3>1. ASSUME NEW u \in new, u # v PROVE u \in near
        <4>1. u \in OpenAccounts /\ OriginOf[u] = ip /\ opened[u].at >= t - AddressWindow /\ opened[u].at \in Nat
          BY <1>2, <1>3, <3>1
        <4>2. opened[u].at >= signupMoment - AddressWindow  BY <1>2, <1>5, <4>1
        <4> QED  BY <1>5, <4>1, <4>2 DEF FromAddress
      <3> QED  BY <3>1
    <2>2. near \in SUBSET OpenAccounts  BY DEF FromAddress
    <2>3. IsFiniteSet(near)  BY <1>2, <2>2, FS_Subset
    <2>4. Cardinality(new) \in Nat /\ Cardinality(near) \in Nat /\ Cardinality(new) <= Cardinality(near) + 1
      BY <2>1, <2>3, OneMore
    <2>5. CASE First(v)
      <3>1. near = {}  BY <2>2, <2>5 DEF First, Populated
      <3>2. Cardinality(near) = 0  BY <3>1, FS_EmptySet
      <3> QED  BY <1>2, <2>4, <3>2
    <2>6. CASE ~First(v)
      <3>1. ~AddressFull(v)  BY <2>6 DEF Create, RefusedByControls
      <3>2. ~(Cardinality(near) >= PerAddress)  BY <3>1 DEF AddressFull
      <3> QED  BY <1>2, <2>4, <3>2
    <2> QED  BY <2>5, <2>6
  <1> QED  BY <1>4, <1>5

LEMMA CreateStep == ASSUME SignupInv, NEW v \in Visitors, Create(v) PROVE SignupInv'
  <1>1. /\ v \notin Ever /\ Ever' = Ever \cup {v} /\ \A u \in Visitors : u # v => opened'[u] = opened[u]
        /\ opened' \in [Visitors -> OpenedRow]
        /\ opened'[v].state = "open" /\ opened'[v].at = signupMoment
        /\ opened'[v].role = (IF First(v) THEN "superadmin" ELSE "user")
        /\ opened'[v].screened = visitor[v].screened /\ opened'[v].answered = visitor[v].challenged
        /\ opened'[v].asked = policy.challenges
    BY Opens
  <1>2. /\ signupMoment \in Nat /\ signupMoment >= 1 /\ signupMoment' = signupMoment
        /\ \A u \in Visitors : opened[u].at \in Nat /\ Ever \in SUBSET Visitors
    BY SignupTypes DEF SignupInv, Create
  <1>3. \A u \in Ever : u # v /\ opened'[u] = opened[u]  BY <1>1, <1>2
  <1>4. SignupTypeOK  BY DEF SignupInv
  <1>5. Advances(v, "done")  BY DEF Create
  <1>6. PICK row \in VisitorRow : visitor' = [visitor EXCEPT ![v] = row] /\ row.at = "done"  BY <1>4, <1>5, AdvancedRow
  <1>7. /\ visitor' \in [Visitors -> VisitorRow] /\ visitor'[v].at = "done"
        /\ \A u \in Visitors : u # v => visitor'[u] = visitor[u]
    BY <1>4, <1>6, SignupTypes
  <1>8. SignupTypeOK'
    <2>1. creations' \in SUBSET Creations
      <3>1. Within(creations, Hour) \subseteq Creations  BY <1>4 DEF Within, SignupTypeOK
      <3> QED  BY <1>4, <3>1, GatesAre DEF Create, Recorded
    <2>2. gate' \in [Processes -> SUBSET Creations]  BY <1>4, GatesAre DEF Create
    <2>3. UNCHANGED <<policy, signupMoment>>  BY DEF Create
    <2> QED  BY <1>1, <1>4, <1>7, <2>1, <2>2, <2>3 DEF SignupTypeOK, OpenedRow, VisitorRow
  <1>9. VisitorsStand'
    <2>1. ASSUME NEW u \in Visitors, opened'[u].state # "none"
          PROVE  /\ visitor'[u].at = "done" /\ opened'[u].role \in {"user", "superadmin"}
                 /\ opened'[u].at >= 1 /\ opened'[u].at <= signupMoment'
                 /\ opened'[u].role = "superadmin" => opened'[u].state = "open"
      <3>1. CASE u = v  BY <1>1, <1>2, <1>7, <3>1
      <3>2. CASE u # v  BY <1>1, <1>2, <1>7, <2>1, <3>2 DEF SignupInv, VisitorsStand
      <3> QED  BY <3>1, <3>2
    <2> QED  BY <2>1 DEF VisitorsStand
  <1>10. CreationsStand'
    <2>1. creations' = Within(creations, Hour) \cup {[by |-> v, at |-> signupMoment]}  BY DEF Create, Recorded
    <2>2. IsFiniteSet(Within(creations, Hour))
      <3>1. Within(creations, Hour) \in SUBSET creations  BY DEF Within
      <3> QED  BY <3>1, FS_Subset DEF SignupInv, CreationsStand
    <2>3. IsFiniteSet(creations')  BY <2>1, <2>2, FS_AddElement
    <2>4. ASSUME NEW u \in Ever', opened'[u].at > signupMoment' - Hour
          PROVE  [by |-> u, at |-> opened'[u].at] \in creations'
      <3>1. CASE u = v  BY <1>1, <2>1, <3>1
      <3>2. CASE u # v
        <4>1. u \in Ever /\ opened'[u] = opened[u] /\ opened[u].at > signupMoment - Hour  BY <1>1, <1>2, <1>3, <2>4, <3>2
        <4>2. [by |-> u, at |-> opened[u].at] \in creations  BY <4>1 DEF SignupInv, CreationsStand
        <4>3. [by |-> u, at |-> opened[u].at] \in Within(creations, Hour)  BY <4>1, <4>2 DEF Within
        <4> QED  BY <2>1, <4>1, <4>3
      <3> QED  BY <3>1, <3>2
    <2> QED  BY <2>3, <2>4 DEF CreationsStand
  <1>11. OneFounder'
    <2>1. CASE First(v)
      <3>1. Ever' = {v}  BY <1>1, <2>1, EmptyIsNew DEF First
      <3> QED  BY <1>1, <1>2, <2>1, <3>1 DEF OneFounder
    <2>2. CASE ~First(v)
      <3>1. Ever # {}
        <4>1. PICK u \in Visitors : opened[u].state = "open"  BY <2>2 DEF First, Populated, OpenAccounts
        <4> QED  BY <4>1 DEF Ever
      <3>2. PICK f \in Ever : /\ \A u \in Ever : (opened[u].role = "superadmin") <=> u = f
                              /\ \A u \in Ever : opened[f].at <= opened[u].at
        BY <3>1 DEF SignupInv, OneFounder
      <3>3. f # v /\ f \in Visitors /\ opened'[f] = opened[f] /\ f \in Ever'  BY <1>1, <1>2, <1>3
      <3>4. opened[f].at <= signupMoment  BY <3>2, <3>3 DEF SignupInv, VisitorsStand, Ever
      <3>5. \A u \in Ever' : (opened'[u].role = "superadmin") <=> u = f  BY <1>1, <1>3, <2>2, <3>2, <3>3
      <3>6. \A u \in Ever' : opened'[f].at <= opened'[u].at  BY <1>1, <1>2, <1>3, <3>2, <3>3, <3>4
      <3> QED  BY <3>3, <3>5, <3>6 DEF OneFounder
    <2> QED  BY <2>1, <2>2
  <1>12. NobodyJumpsTheControls'
    <2>1. ASSUME ~First(v) PROVE visitor[v].screened # "due" /\ (policy.challenges => visitor[v].challenged)
      BY <2>1 DEF Create, NeedsScreening, RefusedByControls, Raced
    <2> QED  BY <1>1, <1>3, <2>1 DEF SignupInv, NobodyJumpsTheControls
  <1>13. RateKept'
    <2>1. ASSUME ~First(v) PROVE CreatedWithin(v, Minute) < PerMinute /\ CreatedWithin(v, Hour) < PerHour
      <3>1. ~RateExceeded(v)  BY <2>1 DEF Create, RefusedByControls
      <3>2. CreatedWithin(v, Minute) \in Nat /\ CreatedWithin(v, Hour) \in Nat  BY SignupNumbers, RowsCountAccounts
      <3> QED  BY <3>1, <3>2, SignupNumbers DEF RateExceeded
    <2>2. ASSUME NEW t \in Moments
          PROVE  /\ Cardinality({u \in Ever : opened[u].at > t - Minute /\ opened[u].at <= t})' <= PerMinute
                 /\ Cardinality({u \in Ever : opened[u].at > t - Hour /\ opened[u].at <= t})' <= PerHour
      <3>1. /\ Cardinality({u \in Ever : opened[u].at > t - Minute /\ opened[u].at <= t}) <= PerMinute
            /\ Cardinality({u \in Ever : opened[u].at > t - Hour /\ opened[u].at <= t}) <= PerHour
        BY DEF SignupInv, RateKept
      <3>2. Cardinality({u \in Ever : opened[u].at > t - Minute /\ opened[u].at <= t})' <= PerMinute
        BY <2>1, <3>1, SignupNumbers, RateOfCreate
      <3>3. Cardinality({u \in Ever : opened[u].at > t - Hour /\ opened[u].at <= t})' <= PerHour
        <4>1. Hour <= Hour  BY SignupNumbers
        <4> QED  BY <2>1, <3>1, <4>1, SignupNumbers, RateOfCreate
      <3> QED  BY <3>2, <3>3
    <2> QED  BY <2>2 DEF RateKept
  <1>14. AddressRateKept'
    <2>1. ASSUME NEW ip \in {OriginOf[u] : u \in Visitors}, NEW t \in Moments
          PROVE  Cardinality({u \in OpenAccounts : OriginOf[u] = ip /\ opened[u].at >= t - AddressWindow /\ opened[u].at <= t})' <= PerAddress
      <3>1. Cardinality({u \in OpenAccounts : OriginOf[u] = ip /\ opened[u].at >= t - AddressWindow /\ opened[u].at <= t}) <= PerAddress
        BY DEF SignupInv, AddressRateKept
      <3> QED  BY <3>1, AddressRateOfCreate
    <2> QED  BY <2>1 DEF AddressRateKept
  <1> QED  BY <1>8, <1>9, <1>10, <1>11, <1>12, <1>13, <1>14 DEF SignupInv

\* A deletion takes an account of the open ones, not of those that ever were.
LEMMA DeleteAccountStep == ASSUME SignupInv, NEW v \in Visitors, DeleteAccount(v) PROVE SignupInv'
  <1>1. opened \in [Visitors -> OpenedRow] /\ opened[v] \in OpenedRow  BY SignupTypes DEF SignupInv
  <1>2. /\ opened' \in [Visitors -> OpenedRow]
        /\ \A u \in Visitors : u # v => opened'[u] = opened[u]
        /\ opened'[v].state = "deleted" /\ opened'[v].role = opened[v].role /\ opened'[v].at = opened[v].at
        /\ opened'[v].screened = opened[v].screened /\ opened'[v].answered = opened[v].answered
        /\ opened'[v].asked = opened[v].asked
        /\ opened[v].state = "open" /\ opened[v].role = "user"
    BY <1>1 DEF DeleteAccount, OpenedRow
  <1>3. UNCHANGED <<creations, gate, visitor, policy, signupMoment>>  BY DEF DeleteAccount
  <1>4. /\ Ever' = Ever /\ Ever \subseteq Visitors
        /\ \A u \in Visitors : /\ opened'[u].at = opened[u].at /\ opened'[u].role = opened[u].role
                               /\ opened'[u].screened = opened[u].screened /\ opened'[u].answered = opened[u].answered
                               /\ opened'[u].asked = opened[u].asked
    BY <1>2 DEF Ever
  <1>5. OpenAccounts' \subseteq OpenAccounts
    <2>1. ASSUME NEW u \in OpenAccounts' PROVE u \in OpenAccounts  BY <1>2, <2>1 DEF OpenAccounts
    <2> QED  BY <2>1
  <1>6. SignupTypeOK'  BY <1>2, <1>3 DEF SignupInv, SignupTypeOK, OpenedRow
  <1>7. VisitorsStand'
    <2>1. ASSUME NEW u \in Visitors, opened'[u].state # "none"
          PROVE  /\ visitor'[u].at = "done" /\ opened'[u].role \in {"user", "superadmin"}
                 /\ opened'[u].at >= 1 /\ opened'[u].at <= signupMoment'
                 /\ opened'[u].role = "superadmin" => opened'[u].state = "open"
      <3>1. CASE u = v  BY <1>2, <1>3, <3>1 DEF SignupInv, VisitorsStand
      <3>2. CASE u # v  BY <1>2, <1>3, <2>1, <3>2 DEF SignupInv, VisitorsStand
      <3> QED  BY <3>1, <3>2
    <2> QED  BY <2>1 DEF VisitorsStand
  <1>8. CreationsStand'  BY <1>3, <1>4 DEF SignupInv, CreationsStand
  <1>9. OneFounder' /\ NobodyJumpsTheControls'  BY <1>4 DEF SignupInv, OneFounder, NobodyJumpsTheControls
  <1>10. RateKept'
    <2>1. ASSUME NEW t \in Moments, NEW w
          PROVE  {u \in Ever : opened[u].at > t - w /\ opened[u].at <= t}' = {u \in Ever : opened[u].at > t - w /\ opened[u].at <= t}
      BY <1>4
    <2> QED  BY <2>1 DEF SignupInv, RateKept
  <1>11. AddressRateKept'
    <2>1. ASSUME NEW ip \in {OriginOf[u] : u \in Visitors}, NEW t \in Moments
          PROVE  Cardinality({u \in OpenAccounts : OriginOf[u] = ip /\ opened[u].at >= t - AddressWindow /\ opened[u].at <= t})' <= PerAddress
      <3> DEFINE old == {u \in OpenAccounts : OriginOf[u] = ip /\ opened[u].at >= t - AddressWindow /\ opened[u].at <= t}
      <3> DEFINE new == {u \in OpenAccounts' : OriginOf[u] = ip /\ opened'[u].at >= t - AddressWindow /\ opened'[u].at <= t}
      <3>1. OpenAccounts \in SUBSET Visitors  BY DEF OpenAccounts
      <3>2. new \in SUBSET old  BY <1>4, <1>5, <3>1
      <3>3. old \in SUBSET Visitors  BY <3>1
      <3>4. IsFiniteSet(old)  BY <3>3, SignupNumbers, FS_Subset
      <3>5. IsFiniteSet(new) /\ Cardinality(new) <= Cardinality(old)  BY <3>2, <3>4, FS_Subset
      <3>6. Cardinality(new) \in Nat /\ Cardinality(old) \in Nat  BY <3>4, <3>5, FS_CardinalityType
      <3>7. Cardinality(old) <= PerAddress  BY DEF SignupInv, AddressRateKept
      <3> QED  BY <3>5, <3>6, <3>7, SignupNumbers
    <2> QED  BY <2>1 DEF AddressRateKept
  <1> QED  BY <1>6, <1>7, <1>8, <1>9, <1>10, <1>11 DEF SignupInv

LEMMA AroundStep ==
    ASSUME SignupInv, SetPolicy \/ SignupTick \/ (\E p \in Processes : Restart(p))
    PROVE  SignupInv'
  <1>1. SignupTypeOK  BY DEF SignupInv
  <1>2. CASE SetPolicy
    <2>1. SignupTypeOK'  BY <1>1, <1>2 DEF SetPolicy, SignupTypeOK
    <2> QED  BY <1>2, <2>1, AccountsKept DEF SetPolicy
  <1>3. ASSUME NEW p \in Processes, Restart(p) PROVE SignupInv'
    <2>1. \A v \in Visitors : [visitor[v] EXCEPT !.at = "done"] \in VisitorRow /\ visitor[v] \in VisitorRow
      BY <1>1, SignupTypes DEF VisitorRow
    <2>2. visitor' \in [Visitors -> VisitorRow]  BY <1>3, <2>1 DEF Restart
    <2>3. gate' \in [Processes -> SUBSET Creations]
      <3>1. gate \in [Processes -> SUBSET Creations] /\ {} \in SUBSET Creations  BY <1>1 DEF SignupTypeOK
      <3> QED  BY <1>3, <3>1 DEF Restart
    <2>4. UNCHANGED <<opened, creations, policy, signupMoment>>  BY <1>3 DEF Restart
    <2>5. SignupTypeOK'  BY <1>1, <2>2, <2>3, <2>4 DEF SignupTypeOK, VisitorRow
    <2>6. \A v \in Visitors : visitor[v].at = "done" => visitor'[v].at = "done"
      <3>1. \A v \in Visitors : [visitor[v] EXCEPT !.at = "done"].at = "done"  BY <2>1 DEF VisitorRow
      <3> QED  BY <1>3, <3>1 DEF Restart
    <2> QED  BY <2>4, <2>5, <2>6, AccountsKept
  <1>4. CASE SignupTick
    <2>1. /\ signupMoment \in Nat /\ signupMoment' = signupMoment + 1 /\ signupMoment < LastSignupMoment
          /\ UNCHANGED <<opened, creations, gate, visitor, policy>>
          /\ \A v \in Visitors : opened[v].at \in Nat
          /\ LastSignupMoment \in Nat /\ Hour \in Nat /\ signupMoment >= 1
      BY <1>1, <1>4, SignupTypes, SignupNumbers DEF SignupTick
    <2>2. SignupTypeOK'  BY <1>1, <2>1 DEF SignupTypeOK, Moments
    <2>3. Ever' = Ever /\ Ever \subseteq Visitors /\ OpenAccounts' = OpenAccounts  BY <2>1 DEF Ever, OpenAccounts
    <2>4. VisitorsStand'
      <3>1. \A v \in Visitors : opened[v].at <= signupMoment => opened[v].at <= signupMoment'  BY <2>1
      <3> QED  BY <2>1, <3>1 DEF SignupInv, VisitorsStand
    <2>5. CreationsStand'
      <3>1. \A v \in Ever : opened[v].at > signupMoment' - Hour => opened[v].at > signupMoment - Hour  BY <2>1, <2>3
      <3> QED  BY <2>1, <2>3, <3>1 DEF SignupInv, CreationsStand
    <2>6. OneFounder' /\ NobodyJumpsTheControls'  BY <2>1, <2>3 DEF SignupInv, OneFounder, NobodyJumpsTheControls
    <2>7. RateKept' /\ AddressRateKept'  BY <2>1, <2>3 DEF SignupInv, RateKept, AddressRateKept
    <2> QED  BY <2>2, <2>4, <2>5, <2>6, <2>7 DEF SignupInv
  <1> QED  BY <1>2, <1>3, <1>4

LEMMA SignupStart == SignupInit => SignupInv
  <1> SUFFICES ASSUME SignupInit PROVE SignupInv
    OBVIOUS
  <1>1. /\ opened = [v \in Visitors |-> NoAccount] /\ creations = {} /\ gate = [p \in Processes |-> {}]
        /\ visitor = [v \in Visitors |-> Arriving] /\ signupMoment = 1
        /\ policy \in [registration : {TRUE}, challenges : BOOLEAN]
    BY DEF SignupInit
  <1>2. NoAccount \in OpenedRow /\ Arriving \in VisitorRow  BY SignupNumbers DEF NoAccount, OpenedRow, Arriving, VisitorRow, Screenings
  <1>3. Ever = {}  BY <1>1 DEF Ever, NoAccount
  <1>4. OpenAccounts = {}  BY <1>1 DEF OpenAccounts, NoAccount
  <1>5. SignupTypeOK
    <2>1. opened \in [Visitors -> OpenedRow] /\ visitor \in [Visitors -> VisitorRow]  BY <1>1, <1>2
    <2>2. policy \in [registration : BOOLEAN, challenges : BOOLEAN]  BY <1>1
    <2>3. signupMoment \in Moments  BY <1>1, SignupNumbers DEF Moments
    <2> QED  BY <1>1, <2>1, <2>2, <2>3 DEF SignupTypeOK, OpenedRow, VisitorRow
  <1>6. VisitorsStand  BY <1>1 DEF VisitorsStand, NoAccount
  <1>7. CreationsStand  BY <1>1, <1>3, FS_EmptySet DEF CreationsStand
  <1>8. OneFounder /\ NobodyJumpsTheControls  BY <1>3 DEF OneFounder, NobodyJumpsTheControls
  <1>9. Cardinality({}) = 0  BY FS_EmptySet
  <1>10. RateKept
    <2>1. ASSUME NEW t \in Moments
          PROVE  /\ Cardinality({v \in Ever : opened[v].at > t - Minute /\ opened[v].at <= t}) <= PerMinute
                 /\ Cardinality({v \in Ever : opened[v].at > t - Hour /\ opened[v].at <= t}) <= PerHour
      <3>1. {v \in Ever : opened[v].at > t - Minute /\ opened[v].at <= t} = {}
            /\ {v \in Ever : opened[v].at > t - Hour /\ opened[v].at <= t} = {}
        BY <1>3
      <3>2. 0 <= PerMinute /\ 0 <= PerHour  BY SignupNumbers
      <3> QED  BY <1>9, <3>1, <3>2
    <2> QED  BY <2>1 DEF RateKept
  <1>11. AddressRateKept
    <2>1. ASSUME NEW ip \in {OriginOf[v] : v \in Visitors}, NEW t \in Moments
          PROVE  Cardinality({v \in OpenAccounts : OriginOf[v] = ip /\ opened[v].at >= t - AddressWindow /\ opened[v].at <= t}) <= PerAddress
      <3>1. {v \in OpenAccounts : OriginOf[v] = ip /\ opened[v].at >= t - AddressWindow /\ opened[v].at <= t} = {}
        BY <1>4
      <3>2. 0 <= PerAddress  BY SignupNumbers
      <3> QED  BY <1>9, <3>1, <3>2
    <2> QED  BY <2>1 DEF AddressRateKept
  <1> QED  BY <1>5, <1>6, <1>7, <1>8, <1>10, <1>11 DEF SignupInv

LEMMA SignupStep == SignupInv /\ [SignupNext]_signupVars => SignupInv'
  <1> SUFFICES ASSUME SignupInv, [SignupNext]_signupVars PROVE SignupInv'
    OBVIOUS
  <1>1. ASSUME UNCHANGED signupVars PROVE SignupInv'
    <2>1. UNCHANGED <<opened, creations, gate, visitor, policy, signupMoment>>  BY <1>1 DEF signupVars
    <2>2. SignupTypeOK'  BY <2>1 DEF SignupInv, SignupTypeOK
    <2> QED  BY <2>1, <2>2, AccountsKept
  <1>2. ASSUME NEW v \in Visitors, Preflight(v) \/ PreflightProvider(v) PROVE SignupInv'
    BY <1>2, PreflightStep
  <1>3. ASSUME NEW v \in Visitors, Refuse(v) \/ RefuseLocked(v) \/ HandBack(v) \/ CommitFails(v) PROVE SignupInv'
    BY <1>3, VisitorGoesOn
  <1>4. ASSUME NEW v \in Visitors, Screen(v) \/ AskGuards(v) PROVE SignupInv'
    BY <1>4, AskedStep
  <1>5. ASSUME NEW v \in Visitors, Create(v) PROVE SignupInv'
    BY <1>5, CreateStep
  <1>6. ASSUME NEW v \in Visitors, DeleteAccount(v) PROVE SignupInv'
    BY <1>6, DeleteAccountStep
  <1>7. ASSUME SetPolicy \/ SignupTick \/ (\E p \in Processes : Restart(p)) PROVE SignupInv'
    BY <1>7, AroundStep
  <1> QED  BY <1>1, <1>2, <1>3, <1>4, <1>5, <1>6, <1>7, Zenon DEF SignupNext

(* One account founds an instance and is its oldest, no other was opened past   *)
(* the controls of its moment, and neither the instance nor an address has more *)
(* accounts of one window than its limit, however many requests saw an empty    *)
(* instance and whichever processes served them (auth/service.go, signup.go).   *)
THEOREM SignupSound == SignupSpec => []SignupHolds
  <1>1. SignupInv => SignupHolds  BY DEF SignupInv, SignupHolds
  <1> QED  BY <1>1, SignupStart, SignupStep, PTL DEF SignupSpec

-----------------------------------------------------------------------------
(* The limiter. A bucket goes only when no attempt of it is running, nothing *)
(* blocks it and it is idle or protects nothing; what blocks it was set by a *)
(* failure, and is no longer than the wait its failures come to (Waits).     *)

BucketRow == [held : BOOLEAN, failures : 0..MostFailures, inFlight : 0..Cardinality(Attempts),
              blocked : 0..(LastMoment + MaxBackoff), last : 0..LastMoment, matched : BOOLEAN]
SweptRow == [idle : 0..LastMoment, full : (0 - FullSweepInterval)..LastMoment, room : BOOLEAN]
Matched(map) == {k \in Keys : map[k].matched}
Running(k) == {a \in Attempts : k \in attempt[a]}
Wait(b, k) == IF b.failures > Allowance(k) THEN Backoff(b.failures - Allowance(k)) ELSE 0

\* What a sweep or an eviction may forget.
MayGo(b) == b.inFlight = 0 /\ b.blocked <= moment /\ (b.matched => moment - b.last > BucketTTL)

Waits(map) == \A k \in Keys : map[k].blocked <= moment + Wait(map[k], k)
Runs(map) == \A k \in Keys : map[k].inFlight = Cardinality(Running(k)) /\ (~map[k].held => map[k].inFlight = 0)
Waves(map) == \A k \in Keys : map[k].inFlight >= 2 => map[k].failures + map[k].inFlight <= Allowance(k) + 1
Sound(map, n) ==
    /\ map \in [Keys -> BucketRow] /\ n = Cardinality(Matched(map))
    /\ Runs(map) /\ Waits(map) /\ Waves(map)
\* A map with buckets of the limiter gone that may go.
Thinned(map) == \A k \in Keys : map[k] = bucket[k] \/ (map[k] = Absent /\ MayGo(bucket[k]))

LimiterInv ==
    /\ attempt \in [Attempts -> SUBSET Keys] /\ swept \in SweptRow /\ moment \in 0..LastMoment
    /\ Sound(bucket, protected)

LEMMA LimiterNumbers ==
    /\ IsFiniteSet(Keys) /\ IsFiniteSet(Attempts) /\ Cardinality(Attempts) \in Nat /\ Cardinality(Keys) \in Nat
    /\ FreeAttempts \in Nat /\ AddressFreeAttempts \in Nat /\ BucketTTL \in Nat /\ MaxBackoff \in Nat
    /\ SweepInterval \in Nat /\ FullSweepInterval \in Nat /\ Ceiling \in Nat /\ MostFailures \in Nat /\ LastMoment \in Nat
    /\ \A k \in Keys : Allowance(k) \in Nat
  <1>1. /\ IsFiniteSet(Names) /\ IsFiniteSet(Addresses) /\ IsFiniteSet(Attempts)
        /\ {FreeAttempts, AddressFreeAttempts, BucketTTL, MaxBackoff, SweepInterval, FullSweepInterval,
            Ceiling, MostFailures, LastMoment} \subseteq Nat
    BY LimiterAssumption DEF LimiterAssumption
  <1>2. IsFiniteSet(Keys)  BY <1>1, FS_Union DEF Keys
  <1>3. \A k \in Keys : Allowance(k) \in Nat  BY <1>1 DEF Allowance
  <1> QED  BY <1>1, <1>2, <1>3, FS_CardinalityType

LEMMA BackoffGrows ==
    ASSUME NEW n \in Nat, n >= 1
    PROVE  Backoff(n) \in Nat /\ Backoff(n) <= MaxBackoff /\ Backoff(n) <= Backoff(n + 1)
  <1> DEFINE of(i) == Doubled[IF i < 17 THEN i ELSE 17]
  <1>1. \A i \in 1..17 : Doubled[i] \in Nat  BY DEF Doubled
  <1>2. \A i \in 1..16 : Doubled[i] <= Doubled[i + 1]  BY DEF Doubled
  <1>3. of(n) \in Nat /\ of(n + 1) \in Nat
    <2>1. (IF n < 17 THEN n ELSE 17) \in 1..17 /\ (IF n + 1 < 17 THEN n + 1 ELSE 17) \in 1..17  OBVIOUS
    <2> QED  BY <1>1, <2>1
  <1>4. of(n) <= of(n + 1)
    <2>1. CASE n < 16
      <3>1. n \in 1..16 /\ of(n) = Doubled[n] /\ of(n + 1) = Doubled[n + 1]  BY <2>1
      <3> QED  BY <1>2, <3>1
    <2>2. CASE n = 16
      <3>1. 16 \in 1..16 /\ of(n) = Doubled[16] /\ of(n + 1) = Doubled[16 + 1]  BY <2>2
      <3> QED  BY <1>2, <3>1
    <2>3. CASE n > 16
      <3>1. of(n) = Doubled[17] /\ of(n + 1) = Doubled[17]  BY <2>3
      <3> QED  BY <1>3, <3>1
    <2> QED  BY <2>1, <2>2, <2>3
  <1>5. Backoff(n) = (IF of(n) > MaxBackoff THEN MaxBackoff ELSE of(n))
        /\ Backoff(n + 1) = (IF of(n + 1) > MaxBackoff THEN MaxBackoff ELSE of(n + 1))
    BY DEF Backoff
  <1> HIDE DEF of
  <1> QED  BY <1>3, <1>4, <1>5, LimiterNumbers

LEMMA AbsentRow ==
    /\ Absent \in BucketRow /\ ~Absent.held /\ ~Absent.matched
    /\ Absent.failures = 0 /\ Absent.inFlight = 0 /\ Absent.blocked = 0 /\ Absent.last = 0
  BY LimiterNumbers DEF Absent, BucketRow

LEMMA BucketNumbers ==
    ASSUME NEW b \in BucketRow
    PROVE  /\ b.held \in BOOLEAN /\ b.matched \in BOOLEAN
           /\ b.failures \in Nat /\ b.failures <= MostFailures /\ b.inFlight \in Nat /\ b.inFlight <= Cardinality(Attempts)
           /\ b.blocked \in Nat /\ b.blocked <= LastMoment + MaxBackoff /\ b.last \in Nat /\ b.last <= LastMoment
  BY LimiterNumbers DEF BucketRow

LEMMA WaitsAre ==
    ASSUME NEW b \in BucketRow, NEW k \in Keys
    PROVE  Wait(b, k) \in Nat /\ Wait(b, k) <= MaxBackoff
  <1>1. b.failures \in Nat /\ Allowance(k) \in Nat /\ MaxBackoff \in Nat  BY BucketNumbers, LimiterNumbers
  <1>2. CASE b.failures > Allowance(k)
    <2>1. b.failures - Allowance(k) \in Nat /\ b.failures - Allowance(k) >= 1  BY <1>1, <1>2
    <2> QED  BY <1>2, <2>1, BackoffGrows DEF Wait
  <1>3. CASE ~(b.failures > Allowance(k))  BY <1>1, <1>3 DEF Wait
  <1> QED  BY <1>2, <1>3

\* The count of the buckets that protect an account.
LEMMA MatchedCount ==
    ASSUME NEW map \in [Keys -> BucketRow], NEW ks \in SUBSET Keys
    PROVE  /\ IsFiniteSet(Matched(map)) /\ Cardinality(Matched(map)) \in Nat
           /\ Cardinality(Matched(map)) <= Cardinality(Keys)
           /\ Protecting(map, ks) \in Nat
           /\ Cardinality(Matched(map) \ ks) = Cardinality(Matched(map)) - Protecting(map, ks)
           /\ IsFiniteSet(Matched(map) \ ks) /\ Cardinality(Matched(map) \ ks) \in Nat
  <1>1. Matched(map) \in SUBSET Keys  BY DEF Matched
  <1>2. IsFiniteSet(Matched(map)) /\ Cardinality(Matched(map)) <= Cardinality(Keys)  BY <1>1, LimiterNumbers, FS_Subset
  <1>3. Matched(map) \cap ks = {k \in ks : map[k].matched}  BY DEF Matched
  <1>4. IsFiniteSet(Matched(map) \ ks) /\ Cardinality(Matched(map) \ ks) = Cardinality(Matched(map)) - Cardinality(Matched(map) \cap ks)
    BY <1>2, FS_Difference
  <1>5. Cardinality(Matched(map) \cap ks) = Protecting(map, ks)  BY <1>3 DEF Protecting
  <1>6. (Matched(map) \cap ks) \in SUBSET Matched(map)  OBVIOUS
  <1>7. IsFiniteSet(Matched(map) \cap ks)  BY <1>2, <1>6, FS_Subset
  <1> QED  BY <1>2, <1>4, <1>5, <1>7, FS_CardinalityType

LEMMA RemovedSound ==
    ASSUME LimiterInv, NEW map, NEW n, Sound(map, n), Thinned(map), NEW ks \in SUBSET Keys,
           \A k \in ks : MayGo(map[k]),
           NEW after, after = Removed([map |-> map, protected |-> n], ks)
    PROVE  /\ Sound(after.map, after.protected) /\ Thinned(after.map)
           /\ \A k \in Keys : after.map[k] = IF k \in ks THEN Absent ELSE map[k]
  <1> DEFINE new == [k \in Keys |-> IF k \in ks THEN Absent ELSE map[k]]
  <1>1. after.map = new /\ after.protected = n - Protecting(map, ks)  BY DEF Removed
  <1>2. map \in [Keys -> BucketRow] /\ n = Cardinality(Matched(map))  BY DEF Sound
  <1>3. new \in [Keys -> BucketRow] /\ \A k \in Keys : new[k] = IF k \in ks THEN Absent ELSE map[k]  BY <1>2, AbsentRow
  <1> HIDE DEF new
  <1>4. Matched(new) = Matched(map) \ ks
    <2>1. ASSUME NEW k \in Keys PROVE k \in Matched(new) <=> k \in Matched(map) \ ks
      BY <1>3, <2>1, AbsentRow DEF Matched
    <2> QED  BY <2>1 DEF Matched
  <1>5. n - Protecting(map, ks) = Cardinality(Matched(new))  BY <1>2, <1>4, MatchedCount
  <1>6. Runs(new)
    <2>1. \A k \in ks : map[k].inFlight = 0  BY DEF MayGo
    <2> QED  BY <1>3, <2>1, AbsentRow DEF Runs, Sound
  <1>7. Waits(new)
    <2>1. ASSUME NEW k \in Keys PROVE new[k].blocked <= moment + Wait(new[k], k)
      <3>1. CASE k \in ks
        <4>1. new[k] = Absent /\ Wait(Absent, k) \in Nat /\ moment \in Nat  BY <1>3, <3>1, AbsentRow, WaitsAre, LimiterNumbers DEF LimiterInv
        <4> QED  BY <4>1, AbsentRow
      <3>2. CASE k \notin ks  BY <1>3, <3>2 DEF Sound, Waits
      <3> QED  BY <3>1, <3>2
    <2> QED  BY <2>1 DEF Waits
  <1>8. Waves(new)  BY <1>3, AbsentRow DEF Waves, Sound
  <1>9. Thinned(new)  BY <1>3 DEF Thinned
  <1> QED  BY <1>1, <1>3, <1>5, <1>6, <1>7, <1>8, <1>9 DEF Sound

\* A state of the map on the way into a Begin.
Fit(s) == s = [map |-> s.map, protected |-> s.protected] /\ Sound(s.map, s.protected) /\ Thinned(s.map)

LEMMA RemovedFits ==
    ASSUME LimiterInv, NEW s, Fit(s), NEW ks \in SUBSET Keys, \A k \in ks : MayGo(s.map[k])
    PROVE  /\ Fit(Removed(s, ks))
           /\ \A k \in Keys : Removed(s, ks).map[k] = IF k \in ks THEN Absent ELSE s.map[k]
  <1> DEFINE after == Removed([map |-> s.map, protected |-> s.protected], ks)
  <1>1. Removed(s, ks) = after  BY DEF Fit
  <1>2. after = [map |-> after.map, protected |-> after.protected]  BY DEF Removed
  <1>3. /\ Sound(after.map, after.protected) /\ Thinned(after.map)
        /\ \A k \in Keys : after.map[k] = IF k \in ks THEN Absent ELSE s.map[k]
    BY RemovedSound DEF Fit
  <1> HIDE DEF after
  <1> QED  BY <1>1, <1>2, <1>3 DEF Fit

LEMMA IdleGoes == ASSUME NEW b \in BucketRow, LimiterInv, Forgettable(b) PROVE MayGo(b)
  <1>1. moment \in Nat /\ b.blocked \in Nat  BY BucketNumbers, LimiterNumbers DEF LimiterInv
  <1> QED  BY <1>1 DEF Forgettable, MayGo

LEMMA DropIdleFits == ASSUME LimiterInv, NEW s, Fit(s) PROVE Fit(DropIdle(s))
  <1> DEFINE ks == {k \in Held(s.map) : Forgettable(s.map[k])}
  <1>1. ks \in SUBSET Keys  BY DEF Held
  <1>2. s.map \in [Keys -> BucketRow]  BY DEF Fit, Sound
  <1>3. \A k \in ks : MayGo(s.map[k])  BY <1>1, <1>2, IdleGoes
  <1>4. DropIdle(s) = Removed(s, ks)  BY DEF DropIdle
  <1> HIDE DEF ks
  <1> QED  BY <1>1, <1>3, <1>4, RemovedFits

LEMMA SweptFits == ASSUME LimiterInv PROVE Fit(Swept) /\ SweptAt \in SweptRow
  <1> DEFINE s == [map |-> bucket, protected |-> protected]
  <1>1. Fit(s)
    <2>1. s.map = bucket /\ s.protected = protected  OBVIOUS
    <2>2. Thinned(bucket)  BY DEF Thinned
    <2>3. s = [map |-> s.map, protected |-> s.protected]  OBVIOUS
    <2> HIDE DEF s
    <2> QED  BY <2>1, <2>2, <2>3 DEF LimiterInv, Fit
  <1>2. Swept = IF Sweeps THEN DropIdle(s) ELSE s  BY DEF Swept
  <1> HIDE DEF s
  <1>3. Fit(Swept)  BY <1>1, <1>2, DropIdleFits
  <1>4. SweptAt \in SweptRow  BY DEF SweptAt, LimiterInv, SweptRow
  <1> QED  BY <1>3, <1>4

\* The states a walk of a full map may leave.
LEMMA RoomFits ==
    ASSUME LimiterInv, NEW s, Fit(s), NEW ks \in SUBSET Keys, NEW made \in RoomMade(s, ks)
    PROVE  Fit(made.state) /\ made.room \in BOOLEAN
  <1> DEFINE walked == DropIdle(s)
  <1> DEFINE excess == OverCeiling(walked, ks)
  <1>1. Fit(walked)  BY DropIdleFits
  <1>2. RoomMade(s, ks) = IF excess <= 0 THEN {[state |-> walked, room |-> TRUE]}
                          ELSE {[state |-> Removed(walked, gone), room |-> Cardinality(gone) >= excess] :
                                   gone \in Evictions(walked, ks, IF excess > Batch THEN excess ELSE Batch)}
    BY DEF RoomMade
  <1> HIDE DEF walked, excess
  <1>3. CASE made = [state |-> walked, room |-> TRUE]  BY <1>1, <1>3
  <1>4. ASSUME NEW gone \in Evictions(walked, ks, IF excess > Batch THEN excess ELSE Batch),
               made = [state |-> Removed(walked, gone), room |-> Cardinality(gone) >= excess]
        PROVE  Fit(made.state) /\ made.room \in BOOLEAN
    <2>1. gone \subseteq Reclaimable(walked, ks)  BY DEF Evictions
    <2>2. gone \in SUBSET Keys  BY <2>1 DEF Reclaimable, Held
    <2>3. \A k \in gone : MayGo(walked.map[k])  BY <2>1 DEF Reclaimable, MayGo
    <2>4. Fit(Removed(walked, gone))  BY <1>1, <2>2, <2>3, RemovedFits
    <2>5. made.state = Removed(walked, gone) /\ made.room = (Cardinality(gone) >= excess)  BY <1>4
    <2>6. (Cardinality(gone) >= excess) \in BOOLEAN  OBVIOUS
    <2> QED  BY <2>4, <2>5, <2>6
  <1> QED  BY <1>2, <1>3, <1>4

LEMMA RoomKeeps ==
    ASSUME LimiterInv, NEW s, Fit(s), NEW ks \in SUBSET Keys, NEW made \in RoomMade(s, ks), NEW k \in Keys
    PROVE  made.state.map[k] = s.map[k] \/ made.state.map[k] = Absent
  <1> DEFINE walked == DropIdle(s)
  <1> DEFINE excess == OverCeiling(walked, ks)
  <1>1. walked.map[k] = s.map[k] \/ walked.map[k] = Absent  BY DEF DropIdle, Removed
  <1>2. RoomMade(s, ks) = IF excess <= 0 THEN {[state |-> walked, room |-> TRUE]}
                          ELSE {[state |-> Removed(walked, gone), room |-> Cardinality(gone) >= excess] :
                                   gone \in Evictions(walked, ks, IF excess > Batch THEN excess ELSE Batch)}
    BY DEF RoomMade
  <1> HIDE DEF walked, excess
  <1>3. CASE made = [state |-> walked, room |-> TRUE]  BY <1>1, <1>3
  <1>4. ASSUME NEW gone \in Evictions(walked, ks, IF excess > Batch THEN excess ELSE Batch),
               made = [state |-> Removed(walked, gone), room |-> Cardinality(gone) >= excess]
        PROVE  made.state.map[k] = s.map[k] \/ made.state.map[k] = Absent
    <2>1. made.state = Removed(walked, gone)  BY <1>4
    <2>2. made.state.map[k] = IF k \in gone THEN Absent ELSE walked.map[k]  BY <2>1 DEF Removed
    <2> QED  BY <1>1, <2>2
  <1> QED  BY <1>2, <1>3, <1>4

LEMMA ReservedRow ==
    ASSUME NEW b \in BucketRow, b.inFlight < Cardinality(Attempts), moment \in 0..LastMoment,
           NEW r, r = [b EXCEPT !.held = TRUE, !.inFlight = @ + 1, !.last = moment]
    PROVE  /\ r \in BucketRow /\ r.held /\ r.inFlight = b.inFlight + 1
           /\ r.failures = b.failures /\ r.blocked = b.blocked /\ r.matched = b.matched
  <1>1. r = [held |-> TRUE, failures |-> b.failures, inFlight |-> b.inFlight + 1, blocked |-> b.blocked,
             last |-> moment, matched |-> b.matched]
    BY DEF BucketRow
  <1>2. b.inFlight + 1 \in 0..Cardinality(Attempts)  BY BucketNumbers, LimiterNumbers
  <1>3. /\ b.failures \in 0..MostFailures /\ b.blocked \in 0..(LastMoment + MaxBackoff) /\ b.matched \in BOOLEAN
    BY DEF BucketRow
  <1> QED  BY <1>1, <1>2, <1>3 DEF BucketRow

LEMMA OutcomeRow ==
    ASSUME NEW b \in BucketRow, NEW k \in Keys, moment \in 0..LastMoment, NEW outcome \in Outcomes,
           outcome \in {"failed", "unmatched"} => b.failures < MostFailures,
           NEW r, r = Outcome(b, k, outcome)
    PROVE  /\ r \in BucketRow /\ r.held = b.held /\ r.inFlight = b.inFlight
           /\ \/ /\ outcome \in {"failed", "unmatched"} /\ r.failures = b.failures + 1
                 /\ r.blocked = IF b.failures + 1 > Allowance(k) THEN moment + Backoff(b.failures + 1 - Allowance(k)) ELSE b.blocked
              \/ /\ outcome = "succeeded" /\ k \in Names /\ r.failures = 0 /\ r.blocked = 0
              \/ /\ r = b
  <1>1. /\ b.held \in BOOLEAN /\ b.matched \in BOOLEAN
        /\ b.failures \in Nat /\ b.failures <= MostFailures /\ b.inFlight \in 0..Cardinality(Attempts)
        /\ b.blocked \in 0..(LastMoment + MaxBackoff) /\ b.last \in 0..LastMoment
    BY BucketNumbers DEF BucketRow
  <1>2. MostFailures \in Nat /\ MaxBackoff \in Nat /\ LastMoment \in Nat /\ moment \in Nat /\ Allowance(k) \in Nat  BY LimiterNumbers
  <1>3. CASE outcome \in {"failed", "unmatched"}
    <2> DEFINE until == IF b.failures + 1 > Allowance(k) THEN moment + Backoff(b.failures + 1 - Allowance(k)) ELSE b.blocked
    <2> DEFINE matches == b.matched \/ (outcome = "failed" /\ k \in Names)
    <2>1. until \in 0..(LastMoment + MaxBackoff)
      <3>1. CASE b.failures + 1 > Allowance(k)
        <4>1. b.failures + 1 - Allowance(k) \in Nat /\ b.failures + 1 - Allowance(k) >= 1  BY <1>1, <1>2, <3>1
        <4>2. Backoff(b.failures + 1 - Allowance(k)) \in Nat /\ Backoff(b.failures + 1 - Allowance(k)) <= MaxBackoff
          BY <4>1, BackoffGrows
        <4>3. moment <= LastMoment  OBVIOUS
        <4> QED  BY <1>2, <3>1, <4>2, <4>3
      <3>2. CASE ~(b.failures + 1 > Allowance(k))  BY <1>1, <3>2
      <3> QED  BY <3>1, <3>2
    <2>2. r = [b EXCEPT !.failures = @ + 1, !.last = moment, !.matched = @ \/ (outcome = "failed" /\ k \in Names),
                        !.blocked = IF b.failures + 1 > Allowance(k)
                                      THEN moment + Backoff(b.failures + 1 - Allowance(k)) ELSE @]
      BY <1>3 DEF Outcome
    <2>3. r = [held |-> b.held, failures |-> b.failures + 1, inFlight |-> b.inFlight, blocked |-> until,
               last |-> moment, matched |-> matches]
      BY <2>2 DEF BucketRow
    <2>4. b.failures + 1 \in 0..MostFailures /\ matches \in BOOLEAN  BY <1>1, <1>2, <1>3
    <2> HIDE DEF matches
    <2>5. r \in BucketRow /\ r.held = b.held /\ r.inFlight = b.inFlight /\ r.failures = b.failures + 1 /\ r.blocked = until
      BY <1>1, <2>1, <2>3, <2>4 DEF BucketRow
    <2> QED  BY <1>3, <2>5
  <1>4. CASE outcome = "succeeded" /\ k \in Names
    <2>1. r = [b EXCEPT !.failures = 0, !.blocked = 0, !.matched = @ \/ k \in Names]  BY <1>4 DEF Outcome, Forgiven
    <2>2. r = [held |-> b.held, failures |-> 0, inFlight |-> b.inFlight, blocked |-> 0, last |-> b.last, matched |-> TRUE]
      BY <1>4, <2>1 DEF BucketRow
    <2>3. 0 \in 0..MostFailures /\ 0 \in 0..(LastMoment + MaxBackoff)  BY <1>2
    <2>4. r \in BucketRow  BY <1>1, <2>2, <2>3 DEF BucketRow
    <2>5. r.held = b.held /\ r.inFlight = b.inFlight /\ r.failures = 0 /\ r.blocked = 0  BY <2>2
    <2> QED  BY <1>4, <2>4, <2>5
  <1>5. CASE outcome \notin {"failed", "unmatched"} /\ ~(outcome = "succeeded" /\ k \in Names)
    <2>1. r = b  BY <1>5 DEF Outcome, Forgiven
    <2> QED  BY <2>1
  <1> QED  BY <1>3, <1>4, <1>5

LEMMA KeySetsAre == ASSUME NEW ks \in KeySets PROVE ks \in SUBSET Keys /\ ks # {}
  BY DEF KeySets, Keys

\* An attempt begins on a map from which only what may go has gone.
LEMMA Begins ==
    ASSUME LimiterInv, NEW a \in Attempts, NEW ks \in KeySets, BeginAttempt(a, ks)
    PROVE  \E s : /\ Fit(s) /\ bucket' = Reserved(s.map, ks) /\ protected' = s.protected /\ swept' \in SweptRow
                  /\ \A k \in ks : ~WaveFull(Swept.map[k], k)
                  /\ \A k \in ks : s.map[k] = Swept.map[k] \/ s.map[k] = Absent
  <1>1. ks \in SUBSET Keys /\ Fit(Swept) /\ SweptAt \in SweptRow  BY KeySetsAre, SweptFits
  <1>2. \A k \in ks : ~WaveFull(Swept.map[k], k)  BY DEF BeginAttempt, Refused
  <1>3. PICK made \in IF Walks(Swept, ks) THEN RoomMade(Swept, ks) ELSE {[state |-> Swept, room |-> swept.room]} :
           /\ bucket' = Reserved(made.state.map, ks) /\ protected' = made.state.protected
           /\ swept' = IF Walks(Swept, ks) THEN [SweptAt EXCEPT !.full = moment, !.room = made.room] ELSE SweptAt
    BY DEF BeginAttempt
  <1>4. CASE Walks(Swept, ks)
    <2>1. made \in RoomMade(Swept, ks)  BY <1>3, <1>4
    <2>2. Fit(made.state) /\ made.room \in BOOLEAN  BY <1>1, <2>1, RoomFits
    <2>3. swept' \in SweptRow
      <3>1. swept' = [SweptAt EXCEPT !.full = moment, !.room = made.room]  BY <1>3, <1>4
      <3>2. swept' = [idle |-> SweptAt.idle, full |-> moment, room |-> made.room]  BY <1>1, <3>1 DEF SweptRow
      <3>3. moment \in (0 - FullSweepInterval)..LastMoment /\ SweptAt.idle \in 0..LastMoment
        BY <1>1, LimiterNumbers DEF LimiterInv, SweptRow
      <3> QED  BY <2>2, <3>2, <3>3 DEF SweptRow
    <2>4. \A k \in ks : made.state.map[k] = Swept.map[k] \/ made.state.map[k] = Absent
      BY <1>1, <2>1, RoomKeeps
    <2> QED  BY <1>2, <1>3, <2>2, <2>3, <2>4
  <1>5. CASE ~Walks(Swept, ks)
    <2>1. made = [state |-> Swept, room |-> swept.room]  BY <1>3, <1>5
    <2>2. made.state = Swept  BY <2>1
    <2> QED  BY <1>1, <1>2, <1>3, <1>5, <2>2
  <1> QED  BY <1>4, <1>5

LEMMA RunningCount ==
    ASSUME NEW S \in SUBSET Attempts, NEW a \in Attempts
    PROVE  /\ IsFiniteSet(S) /\ Cardinality(S) \in Nat /\ Cardinality(S) <= Cardinality(Attempts)
           /\ a \notin S => Cardinality(S \cup {a}) = Cardinality(S) + 1 /\ Cardinality(S) + 1 <= Cardinality(Attempts)
           /\ a \in S => Cardinality(S \ {a}) = Cardinality(S) - 1 /\ Cardinality(S) >= 1
  <1>1. IsFiniteSet(S) /\ Cardinality(S) <= Cardinality(Attempts)  BY LimiterNumbers, FS_Subset
  <1>2. Cardinality(S) \in Nat  BY <1>1, FS_CardinalityType
  <1>3. ASSUME a \notin S PROVE Cardinality(S \cup {a}) = Cardinality(S) + 1 /\ Cardinality(S) + 1 <= Cardinality(Attempts)
    <2>1. Cardinality(S \cup {a}) = Cardinality(S) + 1  BY <1>1, <1>3, FS_AddElement
    <2>2. (S \cup {a}) \in SUBSET Attempts  OBVIOUS
    <2>3. Cardinality(S \cup {a}) <= Cardinality(Attempts)  BY <2>2, LimiterNumbers, FS_Subset
    <2> QED  BY <2>1, <2>3
  <1>4. ASSUME a \in S PROVE Cardinality(S \ {a}) = Cardinality(S) - 1 /\ Cardinality(S) >= 1
    <2>1. Cardinality(S \ {a}) = Cardinality(S) - 1 /\ IsFiniteSet(S \ {a})  BY <1>1, <1>4, FS_RemoveElement
    <2>2. Cardinality(S \ {a}) \in Nat  BY <2>1, FS_CardinalityType
    <2> QED  BY <1>2, <2>1, <2>2
  <1> QED  BY <1>1, <1>2, <1>3, <1>4

LEMMA BeginStep == ASSUME LimiterInv, NEW a \in Attempts, NEW ks \in KeySets, BeginAttempt(a, ks) PROVE LimiterInv'
  <1>1. ks \in SUBSET Keys /\ ks # {}  BY KeySetsAre
  <1>2. PICK s : /\ Fit(s) /\ bucket' = Reserved(s.map, ks) /\ protected' = s.protected /\ swept' \in SweptRow
                 /\ \A k \in ks : ~WaveFull(Swept.map[k], k)
                 /\ \A k \in ks : s.map[k] = Swept.map[k] \/ s.map[k] = Absent
    BY Begins
  <1>3. attempt[a] = {} /\ attempt' = [attempt EXCEPT ![a] = ks] /\ moment' = moment  BY DEF BeginAttempt, NoAttempt
  <1>4. attempt \in [Attempts -> SUBSET Keys] /\ moment \in 0..LastMoment  BY DEF LimiterInv
  <1>5. attempt' \in [Attempts -> SUBSET Keys]  BY <1>1, <1>3, <1>4
  <1>6. /\ s.map \in [Keys -> BucketRow] /\ s.protected = Cardinality(Matched(s.map))
        /\ Runs(s.map) /\ Waits(s.map) /\ Waves(s.map)
    BY <1>2 DEF Fit, Sound
  <1>7. ASSUME NEW k \in Keys
        PROVE  /\ Running(k) \in SUBSET Attempts /\ Running(k)' \in SUBSET Attempts
               /\ k \in ks => a \notin Running(k) /\ Running(k)' = Running(k) \cup {a}
               /\ k \notin ks => Running(k)' = Running(k)
    BY <1>1, <1>3, <1>4 DEF Running
  <1>8. \A k \in Keys : s.map[k] \in BucketRow /\ s.map[k].inFlight = Cardinality(Running(k))  BY <1>6 DEF Runs
  <1>9. ASSUME NEW k \in ks
        PROVE  /\ bucket'[k] \in BucketRow /\ bucket'[k].held /\ bucket'[k].inFlight = s.map[k].inFlight + 1
               /\ bucket'[k].failures = s.map[k].failures /\ bucket'[k].blocked = s.map[k].blocked
               /\ bucket'[k].matched = s.map[k].matched
               /\ bucket'[k].inFlight = Cardinality(Running(k)')
    <2>1. k \in Keys  BY <1>1
    <2>2. s.map[k].inFlight < Cardinality(Attempts) /\ Cardinality(Running(k)') = s.map[k].inFlight + 1
      <3>1. /\ Running(k) \in SUBSET Attempts /\ a \notin Running(k) /\ Running(k)' = Running(k) \cup {a}
        BY <1>7, <2>1
      <3>2. /\ Cardinality(Running(k)) \in Nat
            /\ Cardinality(Running(k) \cup {a}) = Cardinality(Running(k)) + 1
            /\ Cardinality(Running(k)) + 1 <= Cardinality(Attempts)
        BY <3>1, RunningCount
      <3> QED  BY <1>8, <2>1, <3>1, <3>2, LimiterNumbers
    <2>3. bucket'[k] = [s.map[k] EXCEPT !.held = TRUE, !.inFlight = @ + 1, !.last = moment]  BY <1>2, <2>1 DEF Reserved
    <2>4. s.map[k] \in BucketRow  BY <1>8, <2>1
    <2>5. /\ bucket'[k] \in BucketRow /\ bucket'[k].held /\ bucket'[k].inFlight = s.map[k].inFlight + 1
          /\ bucket'[k].failures = s.map[k].failures /\ bucket'[k].blocked = s.map[k].blocked
          /\ bucket'[k].matched = s.map[k].matched
      BY <1>4, <2>2, <2>3, <2>4, ReservedRow
    <2> QED  BY <2>2, <2>5
  <1>10. ASSUME NEW k \in Keys \ ks PROVE bucket'[k] = s.map[k] /\ Running(k)' = Running(k)
    BY <1>2, <1>7 DEF Reserved
  <1>11. bucket' \in [Keys -> BucketRow]
    <2>1. \A k \in Keys : bucket'[k] \in BucketRow  BY <1>8, <1>9, <1>10
    <2>2. bucket' = [k \in Keys |-> bucket'[k]]  BY <1>2 DEF Reserved
    <2> QED  BY <2>1, <2>2
  <1>12. protected' = Cardinality(Matched(bucket'))
    <2>1. \A k \in Keys : bucket'[k].matched = s.map[k].matched  BY <1>9, <1>10
    <2>2. Matched(bucket') = Matched(s.map)  BY <2>1 DEF Matched
    <2> QED  BY <1>2, <1>6, <2>2
  <1>13. Runs(bucket)'
    <2>1. ASSUME NEW k \in Keys PROVE bucket'[k].inFlight = Cardinality(Running(k)') /\ (~bucket'[k].held => bucket'[k].inFlight = 0)
      <3>1. CASE k \in ks  BY <1>9, <3>1
      <3>2. CASE k \notin ks  BY <1>6, <1>10, <3>2 DEF Runs
      <3> QED  BY <3>1, <3>2
    <2> QED  BY <2>1 DEF Runs
  <1>14. Waits(bucket)'
    <2>1. ASSUME NEW k \in Keys PROVE bucket'[k].blocked = s.map[k].blocked /\ bucket'[k].failures = s.map[k].failures
      BY <1>9, <1>10
    <2>2. \A k \in Keys : Wait(bucket'[k], k) = Wait(s.map[k], k)  BY <2>1 DEF Wait
    <2> QED  BY <1>3, <1>6, <2>1, <2>2 DEF Waits
  <1>15. Waves(bucket)'
    <2>1. ASSUME NEW k \in Keys, bucket'[k].inFlight >= 2
          PROVE  bucket'[k].failures + bucket'[k].inFlight <= Allowance(k) + 1
      <3>1. CASE k \in ks
        <4>1. s.map[k] \in BucketRow /\ s.map[k].inFlight \in Nat /\ s.map[k].failures \in Nat /\ Allowance(k) \in Nat
          BY <1>8, BucketNumbers, LimiterNumbers
        <4>2. s.map[k].inFlight >= 1  BY <1>9, <2>1, <3>1, <4>1
        <4>3. s.map[k] = Swept.map[k]  BY <1>2, <3>1, <4>2, AbsentRow
        <4>4. ~WaveFull(s.map[k], k)  BY <1>2, <3>1, <4>3
        <4>5. ~(s.map[k].failures + s.map[k].inFlight > Allowance(k))  BY <4>1, <4>2, <4>4 DEF WaveFull
        <4> QED  BY <1>9, <3>1, <4>1, <4>5
      <3>2. CASE k \notin ks  BY <1>6, <1>10, <2>1, <3>2 DEF Waves
      <3> QED  BY <3>1, <3>2
    <2> QED  BY <2>1 DEF Waves
  <1> QED  BY <1>2, <1>3, <1>4, <1>5, <1>11, <1>12, <1>13, <1>14, <1>15 DEF LimiterInv, Sound

\* What an attempt's end makes of a bucket it holds.
Ended(k, outcome) == Outcome([bucket[k] EXCEPT !.inFlight = IF @ > 0 THEN @ - 1 ELSE 0], k, outcome)

LEMMA EndedRow ==
    ASSUME LimiterInv, NEW a \in Attempts, NEW k \in attempt[a], NEW outcome \in Outcomes,
           outcome \in {"failed", "unmatched"} => bucket[k].failures < MostFailures
    PROVE  /\ k \in Keys /\ bucket[k].held /\ bucket[k].inFlight >= 1
           /\ Ended(k, outcome) \in BucketRow /\ Ended(k, outcome).held
           /\ Ended(k, outcome).inFlight = bucket[k].inFlight - 1
           /\ \/ /\ outcome \in {"failed", "unmatched"} /\ Ended(k, outcome).failures = bucket[k].failures + 1
                 /\ Ended(k, outcome).blocked = IF bucket[k].failures + 1 > Allowance(k)
                                                  THEN moment + Backoff(bucket[k].failures + 1 - Allowance(k)) ELSE bucket[k].blocked
              \/ /\ outcome = "succeeded" /\ k \in Names /\ Ended(k, outcome).failures = 0 /\ Ended(k, outcome).blocked = 0
              \/ /\ Ended(k, outcome).failures = bucket[k].failures /\ Ended(k, outcome).blocked = bucket[k].blocked
                 /\ Ended(k, outcome).matched = bucket[k].matched
  <1>1. k \in Keys /\ bucket[k] \in BucketRow /\ moment \in 0..LastMoment  BY DEF LimiterInv, Sound
  <1>2. bucket[k].inFlight = Cardinality(Running(k)) /\ (~bucket[k].held => bucket[k].inFlight = 0)
    BY <1>1 DEF LimiterInv, Sound, Runs
  <1>3. Running(k) \in SUBSET Attempts /\ a \in Running(k)  BY DEF Running
  <1>4. Cardinality(Running(k)) \in Nat /\ Cardinality(Running(k)) >= 1  BY <1>3, RunningCount
  <1>5. bucket[k].held /\ bucket[k].inFlight \in Nat /\ bucket[k].inFlight >= 1  BY <1>1, <1>2, <1>4, BucketNumbers
  <1> DEFINE b == [bucket[k] EXCEPT !.inFlight = IF @ > 0 THEN @ - 1 ELSE 0]
  <1>6. b = [held |-> bucket[k].held, failures |-> bucket[k].failures, inFlight |-> bucket[k].inFlight - 1,
             blocked |-> bucket[k].blocked, last |-> bucket[k].last, matched |-> bucket[k].matched]
    <2>1. b = [bucket[k] EXCEPT !.inFlight = bucket[k].inFlight - 1]  BY <1>5
    <2> QED  BY <1>1, <2>1 DEF BucketRow
  <1>7. bucket[k].inFlight - 1 \in 0..Cardinality(Attempts)  BY <1>1, <1>5, BucketNumbers, LimiterNumbers
  <1>8. b \in BucketRow /\ b.held /\ b.failures = bucket[k].failures /\ b.blocked = bucket[k].blocked
        /\ b.inFlight = bucket[k].inFlight - 1 /\ b.matched = bucket[k].matched
    BY <1>1, <1>5, <1>6, <1>7 DEF BucketRow
  <1>9. Ended(k, outcome) = Outcome(b, k, outcome)  BY DEF Ended
  <1> HIDE DEF b
  <1>10. /\ Outcome(b, k, outcome) \in BucketRow /\ Outcome(b, k, outcome).held = b.held /\ Outcome(b, k, outcome).inFlight = b.inFlight
         /\ \/ /\ outcome \in {"failed", "unmatched"} /\ Outcome(b, k, outcome).failures = b.failures + 1
               /\ Outcome(b, k, outcome).blocked = IF b.failures + 1 > Allowance(k) THEN moment + Backoff(b.failures + 1 - Allowance(k)) ELSE b.blocked
            \/ /\ outcome = "succeeded" /\ k \in Names /\ Outcome(b, k, outcome).failures = 0 /\ Outcome(b, k, outcome).blocked = 0
            \/ /\ Outcome(b, k, outcome) = b
    <2>1. PICK r : r = Outcome(b, k, outcome)  OBVIOUS
    <2>2. b \in BucketRow /\ (outcome \in {"failed", "unmatched"} => b.failures < MostFailures)  BY <1>8
    <2>3. /\ r \in BucketRow /\ r.held = b.held /\ r.inFlight = b.inFlight
          /\ \/ /\ outcome \in {"failed", "unmatched"} /\ r.failures = b.failures + 1
                /\ r.blocked = IF b.failures + 1 > Allowance(k) THEN moment + Backoff(b.failures + 1 - Allowance(k)) ELSE b.blocked
             \/ /\ outcome = "succeeded" /\ k \in Names /\ r.failures = 0 /\ r.blocked = 0
             \/ /\ r = b
      BY <1>1, <2>1, <2>2, OutcomeRow
    <2> QED  BY <2>1, <2>3
  <1> QED  BY <1>1, <1>5, <1>8, <1>9, <1>10

LEMMA WaitOf ==
    ASSUME NEW b, NEW k, NEW n, b.failures = n
    PROVE  Wait(b, k) = IF n > Allowance(k) THEN Backoff(n - Allowance(k)) ELSE 0
  BY Zenon DEF Wait

LEMMA EndedWaits ==
    ASSUME LimiterInv, NEW a \in Attempts, NEW k \in attempt[a], NEW outcome \in Outcomes,
           outcome \in {"failed", "unmatched"} => bucket[k].failures < MostFailures
    PROVE  /\ Ended(k, outcome).blocked <= moment + Wait(Ended(k, outcome), k)
           /\ \/ Ended(k, outcome).blocked >= bucket[k].blocked
              \/ bucket[k].blocked <= moment
              \/ outcome = "succeeded" /\ k \in Names
           /\ bucket[k].failures = 0 => bucket[k].blocked <= moment
  <1>0. PICK e, f : e = Ended(k, outcome) /\ f = bucket[k].failures  OBVIOUS
  <1>1. /\ k \in Keys /\ e \in BucketRow
        /\ \/ /\ outcome \in {"failed", "unmatched"} /\ e.failures = f + 1
              /\ e.blocked = IF f + 1 > Allowance(k) THEN moment + Backoff(f + 1 - Allowance(k)) ELSE bucket[k].blocked
           \/ /\ outcome = "succeeded" /\ k \in Names /\ e.failures = 0 /\ e.blocked = 0
           \/ /\ e.failures = f /\ e.blocked = bucket[k].blocked
    BY <1>0, EndedRow
  <1>2. bucket[k] \in BucketRow /\ bucket[k].blocked <= moment + Wait(bucket[k], k) /\ moment \in Nat
    BY <1>1, LimiterNumbers DEF LimiterInv, Sound, Waits
  <1>3. /\ f \in Nat /\ bucket[k].blocked \in Nat /\ Allowance(k) \in Nat
        /\ Wait(bucket[k], k) \in Nat /\ Wait(e, k) \in Nat
    BY <1>0, <1>1, <1>2, BucketNumbers, LimiterNumbers, WaitsAre
  <1>4. Wait(bucket[k], k) = IF f > Allowance(k) THEN Backoff(f - Allowance(k)) ELSE 0  BY <1>0 DEF Wait
  <1>5. Wait(e, k) = IF e.failures > Allowance(k) THEN Backoff(e.failures - Allowance(k)) ELSE 0  BY DEF Wait
  <1>6. f = 0 => bucket[k].blocked <= moment  BY <1>2, <1>3, <1>4
  <1>7. \A n \in Nat : n >= 1 => Backoff(n) \in Nat /\ Backoff(n) <= Backoff(n + 1)  BY BackoffGrows
  <1>8. CASE /\ outcome \in {"failed", "unmatched"} /\ e.failures = f + 1
             /\ e.blocked = IF f + 1 > Allowance(k) THEN moment + Backoff(f + 1 - Allowance(k)) ELSE bucket[k].blocked
    <2>4. f + 1 > Allowance(k) => e.blocked = moment + Backoff(f + 1 - Allowance(k))  BY <1>8
    <2>5. f + 1 > Allowance(k) => Wait(e, k) = Backoff(f + 1 - Allowance(k))
      <3>1. e.failures = f + 1  BY <1>8
      <3>2. PICK n : n = f + 1  OBVIOUS
      <3>3. e.failures = n  BY <3>1, <3>2
      <3>4. Wait(e, k) = IF n > Allowance(k) THEN Backoff(n - Allowance(k)) ELSE 0  BY <3>3, WaitOf, Zenon
      <3> QED  BY <1>3, <3>2, <3>4
    <2>1. CASE f > Allowance(k)
      <3>1. f - Allowance(k) \in Nat /\ f - Allowance(k) >= 1 /\ f + 1 - Allowance(k) = (f - Allowance(k)) + 1 /\ f + 1 > Allowance(k)
        BY <1>3, <2>1
      <3>2. Backoff(f - Allowance(k)) \in Nat /\ Backoff(f - Allowance(k)) <= Backoff(f + 1 - Allowance(k))
            /\ Backoff(f + 1 - Allowance(k)) \in Nat
        <4>1. f + 1 - Allowance(k) \in Nat /\ f + 1 - Allowance(k) >= 1  BY <1>3, <2>1
        <4> QED  BY <1>7, <3>1, <4>1
      <3>3. e.blocked = moment + Backoff(f + 1 - Allowance(k)) /\ Wait(e, k) = Backoff(f + 1 - Allowance(k))
        BY <2>4, <2>5, <3>1
      <3>4. bucket[k].blocked <= moment + Backoff(f - Allowance(k))  BY <1>2, <1>4, <2>1
      <3> QED  BY <1>0, <1>2, <1>3, <1>6, <3>2, <3>3, <3>4
    <2>2. CASE ~(f > Allowance(k)) /\ f + 1 > Allowance(k)
      <3>1. bucket[k].blocked <= moment  BY <1>2, <1>3, <1>4, <2>2
      <3>2. e.blocked = moment + Backoff(f + 1 - Allowance(k)) /\ Wait(e, k) = Backoff(f + 1 - Allowance(k))
        BY <2>2, <2>4, <2>5
      <3> QED  BY <1>0, <1>2, <1>3, <3>1, <3>2
    <2>3. CASE ~(f + 1 > Allowance(k))
      <3>1. bucket[k].blocked <= moment  BY <1>2, <1>3, <1>4, <2>3
      <3>2. e.blocked = bucket[k].blocked  BY <1>8, <2>3
      <3> QED  BY <1>0, <1>2, <1>3, <3>1, <3>2
    <2> QED  BY <1>3, <2>1, <2>2, <2>3
  <1>9. CASE outcome = "succeeded" /\ k \in Names /\ e.failures = 0 /\ e.blocked = 0
    BY <1>0, <1>2, <1>3, <1>6, <1>9
  <1>10. CASE e.failures = f /\ e.blocked = bucket[k].blocked
    <2>1. Wait(e, k) = Wait(bucket[k], k)  BY <1>4, <1>5, <1>10
    <2> QED  BY <1>0, <1>2, <1>3, <1>6, <1>10, <2>1
  <1> QED  BY <1>0, <1>1, <1>8, <1>9, <1>10

LEMMA FinishRows ==
    ASSUME LimiterInv, NEW a \in Attempts, NEW outcome \in Outcomes, Finish(a, outcome)
    PROVE  /\ attempt[a] \in SUBSET Keys
           /\ \A k \in attempt[a] : outcome \in {"failed", "unmatched"} => bucket[k].failures < MostFailures
           /\ \A k \in Keys \ attempt[a] : bucket'[k] = bucket[k]
           /\ \A k \in attempt[a] :
                bucket'[k] = IF Ended(k, outcome).inFlight = 0 /\ Ended(k, outcome).failures = 0 THEN Absent ELSE Ended(k, outcome)
           /\ bucket' \in [Keys -> BucketRow] /\ protected' = Cardinality(Matched(bucket'))
           /\ UNCHANGED <<swept, moment>> /\ attempt' = [attempt EXCEPT ![a] = {}]
  <1> DEFINE ks == attempt[a]
  <1> DEFINE map == Settled(ks, outcome)
  <1> DEFINE spent == {k \in ks : map[k].held /\ map[k].inFlight = 0 /\ map[k].failures = 0}
  <1> DEFINE counted == protected + Protecting(map, ks) - Protecting(bucket, ks)
  <1>1. attempt[a] \in SUBSET Keys /\ ks \in SUBSET Keys /\ bucket \in [Keys -> BucketRow]  BY DEF LimiterInv, Sound
  <1>2. \A k \in attempt[a] : outcome \in {"failed", "unmatched"} => bucket[k].failures < MostFailures  BY DEF Finish
  <1>3. \A k \in ks : bucket[k].held /\ Ended(k, outcome) \in BucketRow /\ Ended(k, outcome).held  BY <1>2, EndedRow
  <1>4. \A k \in Keys : map[k] = IF k \in ks THEN Ended(k, outcome) ELSE bucket[k]  BY <1>1, <1>3 DEF Settled, Ended
  <1>5. map \in [Keys -> BucketRow]
    <2>1. \A k \in Keys : map[k] \in BucketRow  BY <1>1, <1>3, <1>4
    <2>2. map = [k \in Keys |-> map[k]]  BY DEF Settled
    <2> QED  BY <2>1, <2>2
  <1>6. spent \in SUBSET Keys /\ spent \subseteq ks
        /\ \A k \in ks : k \in spent <=> Ended(k, outcome).inFlight = 0 /\ Ended(k, outcome).failures = 0
    BY <1>1, <1>3, <1>4
  <1>7. /\ bucket' = [k \in Keys |-> IF k \in spent THEN Absent ELSE map[k]]
        /\ protected' = counted - Protecting(map, spent)
        /\ UNCHANGED <<swept, moment>> /\ attempt' = [attempt EXCEPT ![a] = {}]
    <2>1. LET marked == [map |-> map, protected |-> counted]
              state == Removed(marked, spent) IN
            bucket' = state.map /\ protected' = state.protected
      BY DEF Finish
    <2>2. UNCHANGED <<swept, moment>> /\ attempt' = [attempt EXCEPT ![a] = {}]  BY DEF Finish, NoAttempt
    <2> QED  BY <2>1, <2>2 DEF Removed
  <1> HIDE DEF map, spent
  <1>8. bucket' \in [Keys -> BucketRow] /\ \A k \in Keys : bucket'[k] = IF k \in spent THEN Absent ELSE map[k]
    BY <1>5, <1>7, AbsentRow
  <1>9. protected' = Cardinality(Matched(bucket'))
    <2>1. Matched(bucket') = Matched(map) \ spent
      <3>1. ASSUME NEW k \in Keys PROVE k \in Matched(bucket') <=> k \in Matched(map) \ spent
        BY <1>8, <3>1, AbsentRow DEF Matched
      <3> QED  BY <3>1 DEF Matched
    <2>2. Cardinality(Matched(map) \ spent) = Cardinality(Matched(map)) - Protecting(map, spent)
          /\ Cardinality(Matched(map)) \in Nat /\ Protecting(map, spent) \in Nat
      BY <1>5, <1>6, MatchedCount
    <2>3. Cardinality(Matched(map) \ ks) = Cardinality(Matched(map)) - Protecting(map, ks) /\ Protecting(map, ks) \in Nat
      BY <1>1, <1>5, MatchedCount
    <2>4. /\ Cardinality(Matched(bucket) \ ks) = Cardinality(Matched(bucket)) - Protecting(bucket, ks)
          /\ Protecting(bucket, ks) \in Nat /\ Cardinality(Matched(bucket)) \in Nat
      BY <1>1, MatchedCount
    <2>5. Matched(map) \ ks = Matched(bucket) \ ks
      <3>1. \A k \in Keys : k \notin ks => map[k] = bucket[k]  BY <1>4
      <3> QED  BY <3>1 DEF Matched
    <2>6. protected = Cardinality(Matched(bucket))  BY DEF LimiterInv, Sound
    <2>7. protected' = (protected + Protecting(map, ks) - Protecting(bucket, ks)) - Protecting(map, spent)  BY <1>7
    <2> HIDE DEF ks, counted
    <2>8. PICK now, was, after, both, gone : /\ now = Protecting(map, ks) /\ was = Protecting(bucket, ks) /\ gone = Protecting(map, spent)
                                            /\ after = Cardinality(Matched(map)) /\ both = Cardinality(Matched(map) \ ks)
      OBVIOUS
    <2>9. now \in Nat /\ was \in Nat /\ gone \in Nat /\ after \in Nat /\ protected \in Nat
      BY <2>2, <2>3, <2>4, <2>6, <2>8
    <2>10. both = after - now  BY <2>3, <2>8
    <2>11. both = protected - was  BY <2>4, <2>5, <2>6, <2>8
    <2>12. protected' = (protected + now - was) - gone  BY <2>7, <2>8
    <2>13. Cardinality(Matched(bucket')) = after - gone  BY <2>1, <2>2, <2>8
    <2>14. protected' = after - gone  BY <2>9, <2>10, <2>11, <2>12
    <2> QED  BY <2>13, <2>14
  <1>10. \A k \in Keys \ attempt[a] : bucket'[k] = bucket[k]  BY <1>4, <1>6, <1>8
  <1>11. \A k \in attempt[a] :
                bucket'[k] = IF Ended(k, outcome).inFlight = 0 /\ Ended(k, outcome).failures = 0 THEN Absent ELSE Ended(k, outcome)
    BY <1>1, <1>4, <1>6, <1>8
  <1> QED  BY <1>1, <1>2, <1>7, <1>8, <1>9, <1>10, <1>11

LEMMA FinishStep ==
    ASSUME LimiterInv, NEW a \in Attempts, NEW outcome \in Outcomes, Finish(a, outcome) PROVE LimiterInv'
  <1> DEFINE ks == attempt[a]
  <1>1. /\ ks \in SUBSET Keys
        /\ \A k \in ks : outcome \in {"failed", "unmatched"} => bucket[k].failures < MostFailures
        /\ \A k \in Keys \ ks : bucket'[k] = bucket[k]
        /\ \A k \in ks :
             bucket'[k] = IF Ended(k, outcome).inFlight = 0 /\ Ended(k, outcome).failures = 0 THEN Absent ELSE Ended(k, outcome)
        /\ bucket' \in [Keys -> BucketRow] /\ protected' = Cardinality(Matched(bucket'))
        /\ UNCHANGED <<swept, moment>> /\ attempt' = [attempt EXCEPT ![a] = {}]
    BY FinishRows
  <1>2. attempt \in [Attempts -> SUBSET Keys] /\ swept \in SweptRow /\ moment \in 0..LastMoment /\ moment \in Nat
    BY LimiterNumbers DEF LimiterInv
  <1>3. bucket \in [Keys -> BucketRow] /\ Runs(bucket) /\ Waits(bucket) /\ Waves(bucket)  BY DEF LimiterInv, Sound
  <1>4. attempt' \in [Attempts -> SUBSET Keys]  BY <1>1, <1>2
  <1>5. ASSUME NEW k \in Keys
        PROVE  /\ Running(k) \in SUBSET Attempts
               /\ k \in ks => a \in Running(k) /\ Running(k)' = Running(k) \ {a}
               /\ k \notin ks => Running(k)' = Running(k)
    BY <1>1, <1>2 DEF Running
  <1>6. ASSUME NEW k \in ks
        PROVE  /\ bucket'[k].inFlight = Cardinality(Running(k)') /\ (~bucket'[k].held => bucket'[k].inFlight = 0)
               /\ bucket'[k].blocked <= moment + Wait(bucket'[k], k)
               /\ bucket'[k].inFlight >= 2 => bucket'[k].failures + bucket'[k].inFlight <= Allowance(k) + 1
    <2>1. /\ k \in Keys /\ bucket[k].inFlight >= 1
          /\ Ended(k, outcome) \in BucketRow /\ Ended(k, outcome).held /\ Ended(k, outcome).inFlight = bucket[k].inFlight - 1
          /\ \/ Ended(k, outcome).failures = bucket[k].failures + 1
             \/ Ended(k, outcome).failures = 0
             \/ Ended(k, outcome).failures = bucket[k].failures
      BY <1>1, EndedRow
    <2>2. Ended(k, outcome).blocked <= moment + Wait(Ended(k, outcome), k)  BY <1>1, EndedWaits
    <2>3. PICK e, f, n : e = Ended(k, outcome) /\ f = bucket[k].failures /\ n = bucket[k].inFlight  OBVIOUS
    <2>4. f \in Nat /\ n \in Nat /\ Allowance(k) \in Nat  BY <1>3, <2>1, <2>3, BucketNumbers, LimiterNumbers
    <2>5. Cardinality(Running(k)') = n - 1
      <3>1. a \in Running(k) /\ Running(k)' = Running(k) \ {a} /\ Running(k) \in SUBSET Attempts  BY <1>5, <2>1
      <3>2. PICK S : S = Running(k)  OBVIOUS
      <3>3. Cardinality(S \ {a}) = Cardinality(S) - 1  BY <3>1, <3>2, RunningCount
      <3>4. Cardinality(S) = n  BY <1>3, <2>1, <2>3, <3>2 DEF Runs
      <3> QED  BY <3>1, <3>2, <3>3, <3>4
    <2>6. n >= 2 => f + n <= Allowance(k) + 1  BY <1>3, <2>1, <2>3 DEF Waves
    <2>7. /\ e \in BucketRow /\ e.held /\ e.inFlight = n - 1 /\ n >= 1
          /\ e.failures = f + 1 \/ e.failures = 0 \/ e.failures = f
          /\ e.blocked <= moment + Wait(e, k)
      BY <2>1, <2>2, <2>3
    <2>8. e.inFlight >= 2 => e.failures + e.inFlight <= Allowance(k) + 1  BY <2>4, <2>6, <2>7
    <2>9. CASE bucket'[k] = e  BY <2>5, <2>7, <2>8, <2>9
    <2>10. CASE bucket'[k] = Absent /\ e.inFlight = 0
      <3>1. Cardinality(Running(k)') = 0  BY <2>5, <2>7, <2>10
      <3>2. Wait(Absent, k) \in Nat  BY <2>1, AbsentRow, WaitsAre
      <3> QED  BY <1>2, <2>10, <3>1, <3>2, AbsentRow
    <2>11. bucket'[k] = e \/ (bucket'[k] = Absent /\ e.inFlight = 0)  BY <1>1, <2>3
    <2> QED  BY <2>9, <2>10, <2>11
  <1>7. ASSUME NEW k \in Keys, k \notin ks PROVE bucket'[k] = bucket[k] /\ Running(k)' = Running(k)  BY <1>1, <1>5, <1>7
  <1> HIDE DEF ks
  <1>8. Runs(bucket)'
    <2>1. ASSUME NEW k \in Keys PROVE bucket'[k].inFlight = Cardinality(Running(k)') /\ (~bucket'[k].held => bucket'[k].inFlight = 0)
      <3>1. CASE k \in ks  BY <1>6, <3>1
      <3>2. CASE k \notin ks  BY <1>3, <1>7, <3>2 DEF Runs
      <3> QED  BY <3>1, <3>2
    <2> QED  BY <2>1 DEF Runs
  <1>9. Waits(bucket)'
    <2>1. ASSUME NEW k \in Keys PROVE bucket'[k].blocked <= moment' + Wait(bucket'[k], k)
      <3>1. CASE k \in ks  BY <1>1, <1>6, <3>1
      <3>2. CASE k \notin ks  BY <1>1, <1>3, <1>7, <3>2 DEF Waits
      <3> QED  BY <3>1, <3>2
    <2> QED  BY <2>1 DEF Waits
  <1>10. Waves(bucket)'
    <2>1. ASSUME NEW k \in Keys, bucket'[k].inFlight >= 2
          PROVE  bucket'[k].failures + bucket'[k].inFlight <= Allowance(k) + 1
      <3>1. CASE k \in ks  BY <1>6, <2>1, <3>1
      <3>2. CASE k \notin ks  BY <1>3, <1>7, <2>1, <3>2 DEF Waves
      <3> QED  BY <3>1, <3>2
    <2> QED  BY <2>1 DEF Waves
  <1> QED  BY <1>1, <1>2, <1>4, <1>8, <1>9, <1>10 DEF LimiterInv, Sound

\* A refused attempt leaves no more behind than the sweep it did on its way in.
LEMMA RefusedStep ==
    ASSUME LimiterInv, NEW ks \in KeySets, BeginRefusedBy(ks) PROVE LimiterInv' /\ Thinned(bucket')
  <1>1. Fit(Swept) /\ SweptAt \in SweptRow  BY SweptFits
  <1>2. bucket' = Swept.map /\ protected' = Swept.protected /\ swept' = SweptAt /\ attempt' = attempt /\ moment' = moment
    BY DEF BeginRefusedBy
  <1>3. Sound(bucket', protected') /\ Thinned(bucket')  BY <1>1, <1>2 DEF Fit
  <1>4. /\ bucket' \in [Keys -> BucketRow] /\ protected' = Cardinality(Matched(bucket'))
        /\ \A k \in Keys : bucket'[k].inFlight = Cardinality(Running(k)) /\ (~bucket'[k].held => bucket'[k].inFlight = 0)
        /\ \A k \in Keys : bucket'[k].blocked <= moment + Wait(bucket'[k], k)
        /\ \A k \in Keys : bucket'[k].inFlight >= 2 => bucket'[k].failures + bucket'[k].inFlight <= Allowance(k) + 1
    BY <1>3 DEF Sound, Runs, Waits, Waves
  <1>5. \A k \in Keys : Running(k)' = Running(k)  BY <1>2 DEF Running
  <1>6. Sound(bucket, protected)'  BY <1>2, <1>4, <1>5 DEF Sound, Runs, Waits, Waves
  <1> QED  BY <1>1, <1>2, <1>3, <1>6 DEF LimiterInv

LEMMA PassStep == ASSUME LimiterInv, Pass PROVE LimiterInv'
  <1>1. moment < LastMoment /\ moment' = moment + 1 /\ UNCHANGED <<bucket, protected, attempt, swept>>  BY DEF Pass
  <1>2. moment \in Nat /\ LastMoment \in Nat /\ moment' \in 0..LastMoment  BY <1>1, LimiterNumbers DEF LimiterInv
  <1>3. bucket \in [Keys -> BucketRow] /\ Runs(bucket) /\ Waits(bucket) /\ Waves(bucket) /\ protected = Cardinality(Matched(bucket))
    BY DEF LimiterInv, Sound
  <1>4. \A k \in Keys : Running(k)' = Running(k)  BY <1>1 DEF Running
  <1>5. Runs(bucket)'  BY <1>1, <1>3, <1>4 DEF Runs
  <1>6. Waits(bucket)'
    <2>1. ASSUME NEW k \in Keys PROVE bucket'[k].blocked <= moment' + Wait(bucket'[k], k)
      <3>1. bucket[k].blocked <= moment + Wait(bucket[k], k) /\ bucket[k] \in BucketRow  BY <1>3 DEF Waits
      <3>2. PICK b : b = bucket[k]  OBVIOUS
      <3>3. Wait(b, k) \in Nat /\ b.blocked \in Nat  BY <3>1, <3>2, WaitsAre, BucketNumbers
      <3>4. b.blocked <= moment + Wait(b, k) /\ bucket'[k] = b  BY <1>1, <3>1, <3>2
      <3> QED  BY <1>1, <1>2, <3>3, <3>4
    <2> QED  BY <2>1 DEF Waits
  <1>7. Waves(bucket)'  BY <1>1, <1>3 DEF Waves
  <1>8. (protected = Cardinality(Matched(bucket)))'  BY <1>1, <1>3 DEF Matched
  <1> QED  BY <1>1, <1>2, <1>3, <1>5, <1>6, <1>7, <1>8 DEF LimiterInv, Sound

LEMMA LimiterStart == LimiterInit => LimiterInv
  <1> SUFFICES ASSUME LimiterInit PROVE LimiterInv
    OBVIOUS
  <1>1. /\ bucket = [k \in Keys |-> Absent] /\ protected = 0 /\ attempt = [a \in Attempts |-> {}] /\ moment = 0
        /\ swept = [idle |-> 0, full |-> 0 - FullSweepInterval, room |-> FALSE]
    BY DEF LimiterInit, NoAttempt
  <1>2. LastMoment \in Nat /\ FullSweepInterval \in Nat  BY LimiterNumbers
  <1>3. swept \in SweptRow
    <2>1. (0 - FullSweepInterval) \in (0 - FullSweepInterval)..LastMoment /\ 0 \in 0..LastMoment  BY <1>2
    <2> QED  BY <1>1, <2>1 DEF SweptRow
  <1>4. bucket \in [Keys -> BucketRow] /\ \A k \in Keys : bucket[k] = Absent  BY <1>1, AbsentRow
  <1>5. Matched(bucket) = {} /\ \A k \in Keys : Running(k) = {}  BY <1>1, <1>4, AbsentRow DEF Matched, Running
  <1>6. Cardinality({}) = 0  BY FS_EmptySet
  <1>7. Runs(bucket)  BY <1>4, <1>5, <1>6, AbsentRow DEF Runs
  <1>8. Waits(bucket)
    <2>1. ASSUME NEW k \in Keys PROVE Absent.blocked <= moment + Wait(Absent, k)
      <3>1. Wait(Absent, k) \in Nat  BY AbsentRow, WaitsAre
      <3> QED  BY <1>1, <3>1, AbsentRow
    <2> QED  BY <1>4, <2>1 DEF Waits
  <1>9. Waves(bucket)  BY <1>4, AbsentRow DEF Waves
  <1> QED  BY <1>1, <1>2, <1>3, <1>4, <1>5, <1>6, <1>7, <1>8, <1>9 DEF LimiterInv, Sound

LEMMA LimiterStep == LimiterInv /\ [LimiterNext]_limiterVars => LimiterInv'
  <1> SUFFICES ASSUME LimiterInv, [LimiterNext]_limiterVars PROVE LimiterInv'
    OBVIOUS
  <1>1. ASSUME UNCHANGED limiterVars PROVE LimiterInv'
    BY <1>1 DEF limiterVars, LimiterInv, Sound, Runs, Waits, Waves, Running, Matched
  <1>2. ASSUME NEW ks \in KeySets, BeginRefusedBy(ks) PROVE LimiterInv'  BY <1>2, RefusedStep
  <1>3. ASSUME NEW a \in Attempts, NEW ks \in KeySets, BeginAttempt(a, ks) PROVE LimiterInv'  BY <1>3, BeginStep
  <1>4. ASSUME NEW a \in Attempts, NEW outcome \in Outcomes, Finish(a, outcome) PROVE LimiterInv'  BY <1>4, FinishStep
  <1>5. ASSUME Pass PROVE LimiterInv'  BY <1>5, PassStep
  <1> QED  BY <1>1, <1>2, <1>3, <1>4, <1>5, Zenon DEF LimiterNext

LEMMA LimiterKeepsCounts == LimiterInv => LimiterCounts
  <1> SUFFICES ASSUME LimiterInv PROVE LimiterCounts
    OBVIOUS
  <1>1. bucket \in [Keys -> BucketRow] /\ protected = Cardinality(Matched(bucket)) /\ Runs(bucket) /\ Waves(bucket)
    BY DEF LimiterInv, Sound
  <1>2. Cardinality(Matched(bucket)) \in Nat /\ Cardinality(Matched(bucket)) <= Cardinality(Keys)
    <2>1. PICK map : map = bucket  OBVIOUS
    <2>2. Keys \in SUBSET Keys  OBVIOUS
    <2> QED  BY <1>1, <2>1, <2>2, MatchedCount
  <1>3. protected \in 0..Cardinality(Keys)  BY <1>1, <1>2, LimiterNumbers
  <1>4. LimiterTypeOK  BY <1>1, <1>3 DEF LimiterInv, LimiterTypeOK, BucketRow, SweptRow
  <1>5. ProtectedExact  BY <1>1 DEF ProtectedExact, Protecting, Matched
  <1>6. InFlightExact  BY <1>1 DEF InFlightExact, Runs, Running
  <1>7. WaveBounded  BY <1>1 DEF WaveBounded, Waves
  <1> QED  BY <1>4, <1>5, <1>6, <1>7 DEF LimiterCounts

(* The count the ceiling is checked with is the number of buckets that protect  *)
(* an account, every running attempt is counted by the bucket it will answer    *)
(* to, and failures and running attempts together stay within the allowance and *)
(* one, whatever is swept, evicted, failed or forgiven (auth/limiter.go).       *)
THEOREM LimiterSound == LimiterSpec => []LimiterCounts
  <1> QED  BY LimiterStart, LimiterStep, LimiterKeepsCounts, PTL DEF LimiterSpec

\* What no step takes from the bucket of k.
Served(k) ==
    \/ /\ bucket[k].blocked > moment => bucket'[k].blocked >= bucket[k].blocked
       /\ k \in Names /\ bucket[k].matched /\ bucket'[k].failures < bucket[k].failures
            => moment - bucket[k].last > BucketTTL
    \/ SucceedsFor(k)

LEMMA SameServed ==
    ASSUME LimiterInv, NEW k \in Keys, bucket'[k].blocked = bucket[k].blocked, bucket'[k].failures = bucket[k].failures
    PROVE  Served(k)
  <1>1. bucket[k] \in BucketRow  BY DEF LimiterInv, Sound
  <1>2. bucket[k].blocked \in Nat /\ bucket[k].failures \in Nat  BY <1>1, BucketNumbers
  <1> QED  BY <1>2 DEF Served

LEMMA GoneServed == ASSUME LimiterInv, NEW k \in Keys, MayGo(bucket[k]) PROVE Served(k)
  <1>1. bucket[k] \in BucketRow /\ moment \in Nat  BY LimiterNumbers DEF LimiterInv, Sound
  <1>2. bucket[k].blocked \in Nat  BY <1>1, BucketNumbers
  <1>3. ~(bucket[k].blocked > moment)  BY <1>1, <1>2 DEF MayGo
  <1> QED  BY <1>3 DEF MayGo, Served

LEMMA BeginServes == ASSUME LimiterInv, NEW a \in Attempts, NEW ks \in KeySets, BeginAttempt(a, ks), NEW k \in Keys PROVE Served(k)
  <1>1. PICK s : Fit(s) /\ bucket' = Reserved(s.map, ks)  BY Begins
  <1>2. s.map[k] = bucket[k] \/ MayGo(bucket[k])  BY <1>1 DEF Fit, Thinned
  <1>3. s.map \in [Keys -> BucketRow]  BY <1>1 DEF Fit, Sound
  <1>4. bucket'[k].blocked = s.map[k].blocked /\ bucket'[k].failures = s.map[k].failures
    <2>1. bucket'[k] = IF k \in ks THEN [s.map[k] EXCEPT !.held = TRUE, !.inFlight = @ + 1, !.last = moment] ELSE s.map[k]
      BY <1>1 DEF Reserved
    <2>2. s.map[k] \in BucketRow  BY <1>3
    <2> QED  BY <2>1, <2>2 DEF BucketRow
  <1> QED  BY <1>2, <1>4, SameServed, GoneServed

LEMMA FinishServes ==
    ASSUME LimiterInv, NEW a \in Attempts, NEW outcome \in Outcomes, Finish(a, outcome), NEW k \in Keys PROVE Served(k)
  <1>1. /\ \A j \in attempt[a] : outcome \in {"failed", "unmatched"} => bucket[j].failures < MostFailures
        /\ \A j \in Keys \ attempt[a] : bucket'[j] = bucket[j]
        /\ \A j \in attempt[a] :
             bucket'[j] = IF Ended(j, outcome).inFlight = 0 /\ Ended(j, outcome).failures = 0 THEN Absent ELSE Ended(j, outcome)
    BY FinishRows
  <1>2. CASE k \notin attempt[a]  BY <1>1, <1>2, SameServed
  <1>3. CASE k \in attempt[a] /\ outcome = "succeeded" /\ k \in Names
    <2>1. SucceedsFor(k)  BY <1>3 DEF SucceedsFor
    <2> QED  BY <2>1 DEF Served
  <1>4. CASE k \in attempt[a] /\ ~(outcome = "succeeded" /\ k \in Names)
    <2>1. PICK e : e = Ended(k, outcome)  OBVIOUS
    <2>2. /\ e \in BucketRow
          /\ e.failures = bucket[k].failures + 1 \/ e.failures = bucket[k].failures
      BY <1>1, <1>4, <2>1, EndedRow
    <2>3. /\ e.blocked >= bucket[k].blocked \/ bucket[k].blocked <= moment
          /\ bucket[k].failures = 0 => bucket[k].blocked <= moment
      BY <1>1, <1>4, <2>1, EndedWaits
    <2>4. bucket'[k] = IF e.inFlight = 0 /\ e.failures = 0 THEN Absent ELSE e  BY <1>1, <1>4, <2>1
    <2>5. bucket[k] \in BucketRow /\ moment \in Nat  BY LimiterNumbers DEF LimiterInv, Sound
    <2>6. bucket[k].failures \in Nat /\ bucket[k].blocked \in Nat  BY <2>5, BucketNumbers
    <2>7. bucket[k].blocked > moment => bucket'[k].blocked >= bucket[k].blocked
      <3>1. SUFFICES ASSUME bucket[k].blocked > moment PROVE bucket'[k].blocked >= bucket[k].blocked
        OBVIOUS
      <3>2. ~(bucket[k].blocked <= moment)  BY <2>5, <2>6, <3>1
      <3>3. bucket[k].failures # 0 /\ e.blocked >= bucket[k].blocked  BY <2>3, <3>2
      <3>4. e.failures # 0  BY <2>2, <2>6, <3>3
      <3> QED  BY <2>4, <3>3, <3>4
    <2>8. ~(bucket'[k].failures < bucket[k].failures)
      <3>1. CASE bucket'[k] = e  BY <2>2, <2>6, <3>1
      <3>2. CASE bucket'[k] = Absent /\ e.failures = 0
        <4>1. bucket[k].failures = 0  BY <2>2, <2>6, <3>2
        <4> QED  BY <3>2, <4>1, AbsentRow
      <3> QED  BY <2>4, <3>1, <3>2
    <2> QED  BY <2>7, <2>8 DEF Served
  <1> QED  BY <1>2, <1>3, <1>4

(* Neither pressure on the map nor a success at another account lifts a block   *)
(* that is being served, and what was counted against an account goes only with *)
(* its own right password or a quiet of BucketTTL (auth/limiter.go).            *)
THEOREM LimiterKeepsBlocks == LimiterSpec => LimiterServes
  <1>1. ASSUME LimiterInv, LimiterNext, NEW k \in Keys PROVE Served(k)
    <2>1. ASSUME NEW ks \in KeySets, BeginRefusedBy(ks) PROVE Served(k)
      <3>1. Thinned(bucket')  BY <1>1, <2>1, RefusedStep
      <3>2. CASE bucket'[k] = bucket[k]  BY <1>1, <3>2, SameServed
      <3>3. CASE MayGo(bucket[k])  BY <1>1, <3>3, GoneServed
      <3> QED  BY <3>1, <3>2, <3>3 DEF Thinned
    <2>2. ASSUME NEW a \in Attempts, NEW ks \in KeySets, BeginAttempt(a, ks) PROVE Served(k)  BY <1>1, <2>2, BeginServes
    <2>3. ASSUME NEW a \in Attempts, NEW outcome \in Outcomes, Finish(a, outcome) PROVE Served(k)  BY <1>1, <2>3, FinishServes
    <2>4. ASSUME Pass PROVE Served(k)
      <3>1. bucket' = bucket  BY <2>4 DEF Pass
      <3> QED  BY <1>1, <3>1, SameServed
    <2> QED  BY <1>1, <2>1, <2>2, <2>3, <2>4, Zenon DEF LimiterNext
  <1>2. LimiterInv /\ [LimiterNext]_limiterVars
          => [\A k \in Keys :
                \/ /\ bucket[k].blocked > moment => bucket'[k].blocked >= bucket[k].blocked
                   /\ k \in Names /\ bucket[k].matched /\ bucket'[k].failures < bucket[k].failures
                        => moment - bucket[k].last > BucketTTL
                \/ SucceedsFor(k)]_limiterVars
    BY <1>1 DEF Served
  <1> QED  BY <1>2, LimiterStart, LimiterStep, PTL DEF LimiterSpec, LimiterServes
=============================================================================
