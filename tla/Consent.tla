------------------------------- MODULE Consent -------------------------------
(***************************************************************************)
(* The OpenID provider for one account (idp: store.go, service.go,         *)
(* http.go): consent to applications, authorisation codes, pairs of an     *)
(* access and a refresh token.                                             *)
(*                                                                         *)
(* An exchange spends its code in one transaction and saves the pair in    *)
(* another; a refresh reads its token before the transaction that rotates  *)
(* it. Between them consent is withdrawn, the password is changed, or a    *)
(* copy of the same code or token arrives.                                 *)
(***************************************************************************)
EXTENDS Integers, FiniteSets

CONSTANTS
    Clients,       \* the applications
    Callers,       \* requests in flight, from browsers and applications
    MostAuthCodes, \* bound: codes handed out
    MostPairs      \* bound: pairs saved

ASSUME ConsentAssumption ==
    /\ IsFiniteSet(Clients) /\ IsFiniteSet(Callers) /\ "none" \notin Clients
    /\ MostAuthCodes \in Nat /\ MostPairs \in Nat

VARIABLES
    consent,     \* oauth_grants: the applications the account has let in
    authCode,    \* oauth_codes
    pair,        \* oauth_tokens
    caller,      \* how far each request has come
    vouched,     \* the account is active and held at no requirement
    ended        \* history: the codes whose pairs a withdrawal, a replay or a password change revoked

consentVars == <<consent, authCode, pair, caller, vouched, ended>>

AuthCodes == 1..MostAuthCodes
Pairs == 1..MostPairs
NoAuthCode == [stored |-> FALSE, app |-> "none", used |-> FALSE, expired |-> FALSE]
NewAuthCode(a) == [stored |-> TRUE, app |-> a, used |-> FALSE, expired |-> FALSE]
\* root is the code the first pair of the line was exchanged for; held, that its strings reached the application.
NoPair == [stored |-> FALSE, app |-> "none", root |-> 0, revoked |-> FALSE, expired |-> FALSE, held |-> FALSE]
NewPair(a, root, held) ==
    [stored |-> TRUE, app |-> a, root |-> root, revoked |-> FALSE, expired |-> FALSE, held |-> held]
Call(at, a, c, p, live) == [at |-> at, app |-> a, code |-> c, pair |-> p, live |-> live]
NoCall == Call("idle", "none", 0, 0, FALSE)

ConsentTypeOK ==
    /\ consent \subseteq Clients
    /\ authCode \in [AuthCodes -> [stored : BOOLEAN, app : Clients \cup {"none"}, used : BOOLEAN, expired : BOOLEAN]]
    /\ pair \in [Pairs -> [stored : BOOLEAN, app : Clients \cup {"none"}, root : 0..MostAuthCodes,
                           revoked : BOOLEAN, expired : BOOLEAN, held : BOOLEAN]]
    /\ caller \in [Callers -> [at : {"idle", "approved", "redeemed", "vouched", "rotating", "rotated", "replayed"},
                               app : Clients \cup {"none"}, code : 0..MostAuthCodes, pair : 0..MostPairs, live : BOOLEAN]]
    /\ vouched \in BOOLEAN /\ ended \subseteq AuthCodes

ConsentInit ==
    /\ consent = {} /\ authCode = [c \in AuthCodes |-> NoAuthCode] /\ pair = [p \in Pairs |-> NoPair]
    /\ caller = [r \in Callers |-> NoCall] /\ vouched = TRUE /\ ended = {}

\* Rows are numbered in the order they are written, and never numbered again.
NextAuthCode(c) == /\ authCode[c] = NoAuthCode
                   /\ \A d \in AuthCodes : authCode[d] = NoAuthCode => c <= d
NextPair(p) == /\ pair[p] = NoPair
               /\ \A q \in Pairs : pair[q] = NoPair => p <= q
LivePair(p) == pair[p].stored /\ ~pair[p].revoked /\ ~pair[p].expired

\* UPDATE oauth_tokens SET revoked for these applications: the expired rows too.
RevokedPairs(apps) == [p \in Pairs |-> IF pair[p].app \in apps THEN [pair[p] EXCEPT !.revoked = TRUE] ELSE pair[p]]
EndedBy(apps) == ended \cup {pair[p].root : p \in {q \in Pairs : pair[q].app \in apps}}
\* A code that is deleted stays used up as a number.
DroppedCodes(apps) == [c \in AuthCodes |-> IF authCode[c].app \in apps THEN [authCode[c] EXCEPT !.stored = FALSE] ELSE authCode[c]]
At(r, at) == caller' = [caller EXCEPT ![r].at = at]
Ends(r) == caller' = [caller EXCEPT ![r] = NoCall]

-----------------------------------------------------------------------------
(* The consent screen. *)

\* RecordGrant is a transaction of its own, before the code is saved.
Approve(r, a) ==
    /\ caller[r].at = "idle" /\ vouched
    /\ consent' = consent \cup {a}
    /\ caller' = [caller EXCEPT ![r] = Call("approved", a, 0, 0, FALSE)]
    /\ UNCHANGED <<authCode, pair, vouched, ended>>

SaveCode(r) ==
    /\ caller[r].at = "approved"
    /\ \E c \in AuthCodes :
         /\ NextAuthCode(c)
         /\ authCode' = [authCode EXCEPT ![c] = NewAuthCode(caller[r].app)]
    /\ Ends(r)
    /\ UNCHANGED <<consent, pair, vouched, ended>>

\* RevokeGrant, in one transaction.
Withdraw(a) ==
    /\ consent' = consent \ {a}
    /\ pair' = RevokedPairs({a}) /\ ended' = EndedBy({a})
    /\ authCode' = DroppedCodes({a})
    /\ UNCHANGED <<caller, vouched>>

-----------------------------------------------------------------------------
(* The token endpoint: a code for a pair. *)

\* checkPresentation passes and the compare-and-set finds the code unused.
MayRedeem(c, a) == authCode[c].stored /\ authCode[c].app = a /\ ~authCode[c].used /\ ~authCode[c].expired

RedeemCode(r, a, c) ==
    /\ caller[r].at = "idle" /\ MayRedeem(c, a)
    /\ authCode' = [authCode EXCEPT ![c].used = TRUE]
    /\ caller' = [caller EXCEPT ![r] = Call("redeemed", a, c, 0, FALSE)]
    /\ UNCHANGED <<consent, pair, vouched, ended>>

\* A code that is spent is presented again by the holder of a copy.
ReplayCode(r, a, c) ==
    /\ caller[r].at = "idle" /\ authCode[c].stored /\ authCode[c].app = a /\ authCode[c].used
    /\ caller' = [caller EXCEPT ![r] = Call("replayed", a, 0, 0, FALSE)]
    /\ UNCHANGED <<consent, authCode, pair, vouched, ended>>

\* The revocation follows the transaction that was rolled back.
RevokeAfterReplay(r) ==
    /\ caller[r].at = "replayed"
    /\ pair' = RevokedPairs({caller[r].app}) /\ ended' = EndedBy({caller[r].app})
    /\ Ends(r)
    /\ UNCHANGED <<consent, authCode, vouched>>

Vouch(r) ==
    /\ caller[r].at = "redeemed"
    /\ IF vouched THEN At(r, "vouched") ELSE Ends(r)
    /\ UNCHANGED <<consent, authCode, pair, vouched, ended>>

\* SaveGrantedToken and Rotate hold the row of the grant and find it there.
Saves(a) == a \in consent

SavePair(a, root, held) ==
    \E p \in Pairs : /\ NextPair(p)
                     /\ pair' = [pair EXCEPT ![p] = NewPair(a, root, held)]

\* The identity token can fail on a read before the pair is saved.
IssuePair(r) ==
    /\ caller[r].at = "vouched"
    /\ \/ Saves(caller[r].app) /\ SavePair(caller[r].app, caller[r].code, TRUE)
       \/ UNCHANGED pair
    /\ Ends(r)
    /\ UNCHANGED <<consent, authCode, vouched, ended>>

-----------------------------------------------------------------------------
(* The token endpoint: a refresh token for a new pair. *)

\* A live token of another application is refused; one that is not live is left to Rotate.
Refresh(r, a, p) ==
    /\ caller[r].at = "idle" /\ pair[p].held /\ pair[p].stored
    /\ LivePair(p) => pair[p].app = a
    /\ caller' = [caller EXCEPT ![r] = Call("rotating", a, 0, p, LivePair(p))]
    /\ UNCHANGED <<consent, authCode, pair, vouched, ended>>

\* A mutated form of Rotates: the token is as live as it was when it was read.
RotatesAsRead(r) == caller[r].live

Rotates(r) == LivePair(caller[r].pair)

Rotate(r) ==
    /\ caller[r].at = "rotating"
    /\ LET p == caller[r].pair
           a == pair[p].app
       IN  \/ /\ Rotates(r) /\ Saves(a)
              /\ \E q \in Pairs :
                   /\ NextPair(q)
                   /\ pair' = [pair EXCEPT ![p].revoked = TRUE, ![q] = NewPair(a, pair[p].root, FALSE)]
                   /\ caller' = [caller EXCEPT ![r].at = "rotated", ![r].pair = q]
           \* Spent and still within its life: taken for a copy.
           \/ /\ ~Rotates(r) /\ pair[p].stored /\ pair[p].revoked /\ ~pair[p].expired
              /\ caller' = [caller EXCEPT ![r].at = "replayed", ![r].app = a] /\ UNCHANGED pair
           \* Expired or gone, the grant withdrawn, or the transaction failed.
           \/ Ends(r) /\ UNCHANGED pair
    /\ UNCHANGED <<consent, authCode, vouched, ended>>

\* The pair stays in the table, and is handed over only for an account that may be vouched for.
HandOver(r) ==
    /\ caller[r].at = "rotated"
    /\ pair' = IF vouched THEN [pair EXCEPT ![caller[r].pair].held = TRUE] ELSE pair
    /\ Ends(r)
    /\ UNCHANGED <<consent, authCode, vouched, ended>>

-----------------------------------------------------------------------------
(* Revocation from outside, and time. *)

RevokeToken(p) ==
    /\ pair[p].held /\ LivePair(p)
    /\ pair' = [pair EXCEPT ![p].revoked = TRUE]
    /\ UNCHANGED <<consent, authCode, caller, vouched, ended>>

\* RevokeAccount, in the transaction of a password write. Consent is kept.
RevokeAccount ==
    /\ pair' = RevokedPairs(Clients) /\ ended' = EndedBy(Clients)
    /\ authCode' = DroppedCodes(Clients)
    /\ UNCHANGED <<consent, caller, vouched>>

SetVouched == vouched' = ~vouched /\ UNCHANGED <<consent, authCode, pair, caller, ended>>

\* The life of a code, or of a refresh token, ends.
ExpireCode(c) ==
    /\ authCode[c].stored /\ authCode' = [authCode EXCEPT ![c].expired = TRUE]
    /\ UNCHANGED <<consent, pair, caller, vouched, ended>>
ExpirePair(p) ==
    /\ pair[p].stored /\ pair' = [pair EXCEPT ![p].expired = TRUE]
    /\ UNCHANGED <<consent, authCode, caller, vouched, ended>>

\* The janitor. A spent pair is kept while it could be presented again.
PurgeIssued ==
    /\ authCode' = [c \in AuthCodes |-> IF authCode[c].expired THEN [authCode[c] EXCEPT !.stored = FALSE] ELSE authCode[c]]
    /\ pair' = [p \in Pairs |-> IF pair[p].expired THEN [pair[p] EXCEPT !.stored = FALSE] ELSE pair[p]]
    /\ UNCHANGED <<consent, caller, vouched, ended>>

ConsentNext ==
    \/ \E r \in Callers :
         \/ \E a \in Clients : \/ Approve(r, a)
                               \/ \E c \in AuthCodes : RedeemCode(r, a, c) \/ ReplayCode(r, a, c)
                               \/ \E p \in Pairs : Refresh(r, a, p)
         \/ SaveCode(r) \/ RevokeAfterReplay(r) \/ Vouch(r) \/ IssuePair(r) \/ Rotate(r) \/ HandOver(r)
    \/ \E a \in Clients : Withdraw(a)
    \/ \E p \in Pairs : RevokeToken(p) \/ ExpirePair(p)
    \/ \E c \in AuthCodes : ExpireCode(c)
    \/ RevokeAccount \/ SetVouched \/ PurgeIssued

ConsentSpec == ConsentInit /\ [][ConsentNext]_consentVars

-----------------------------------------------------------------------------
(* Properties. *)

\* A pair lives only under a consent that stands: a withdrawal leaves none behind,
\* whatever was being exchanged or rotated when it came (store.go:442, service.go:431).
LivePairsAreConsented == \A p \in Pairs : LivePair(p) => pair[p].app \in consent

\* However many copies of a code and of its refresh tokens are presented, and in
\* whatever order, one live pair descends from the code (store.go:567, 798).
OneLivePairPerCode ==
    \A p, q \in Pairs : LivePair(p) /\ LivePair(q) /\ p # q => pair[p].root # pair[q].root

\* A line of pairs that a withdrawal, a replay or a password change has revoked
\* never lives again: a refresh that read its token before finds it spent (store.go:821).
EndedLinesStayEnded == \A p \in Pairs : LivePair(p) => pair[p].root \notin ended

\* What is issued descends from a consent that stands, once, and ends with its line.
ConsentHolds == ConsentTypeOK /\ LivePairsAreConsented /\ OneLivePairPerCode /\ EndedLinesStayEnded
=============================================================================
