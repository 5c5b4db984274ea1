---------------------------- MODULE Verification ----------------------------
(***************************************************************************)
(* The confirmation of one account's address (auth/verify.go, and the      *)
(* moves of the address in auth/service.go and admin/people.go).           *)
(*                                                                         *)
(* A link and its six-digit code are one row. A resend writes its row,     *)
(* waits for the mail server with no lock held, and then retires the rows  *)
(* before it, or its own when the mail was refused. Meanwhile links are    *)
(* followed, codes are typed, and the address moves.                       *)
(***************************************************************************)
EXTENDS Integers, FiniteSets

CONSTANTS
    AddressesOf,          \* the addresses the account may have
    Senders,              \* mails being posted at the same time
    MostLinks,            \* bound: links issued
    MaxTries,             \* verificationMaxTries
    LinkLife, CodeLife, ResendGap, TryWindow,
    SendTime,             \* a mail is taken or refused within this (mail.Send has a deadline)
    LastHour              \* the clock stops here

ASSUME VerificationAssumption ==
    /\ IsFiniteSet(AddressesOf) /\ IsFiniteSet(Senders)
    /\ {MostLinks, MaxTries, LinkLife, CodeLife, ResendGap, TryWindow, SendTime, LastHour} \subseteq Nat \ {0}
    /\ SendTime <= LinkLife

VARIABLES
    owner,        \* users: the address, email_verified, email_proven_at
    link,         \* email_verifications
    tries,        \* email_verification_attempts
    sender,       \* a mail on its way: the link it carries, and whether it is a resend's
    posted,       \* history: links whose mail arrived
    wrong,        \* history: wrong codes answered as such since the last proof or TryWindow of quiet
    proof,        \* history: the address last proved
    hour

verificationVars == <<owner, link, tries, sender, posted, wrong, proof, hour>>

Links == 1..MostLinks
NoAddress == "none"
NoLink == [state |-> "unissued", email |-> NoAddress, expires |-> 0, codeUntil |-> 0, made |-> 0, tries |-> 0]
Gone == [state |-> "gone", email |-> NoAddress, expires |-> 0, codeUntil |-> 0, made |-> 0, tries |-> 0]
NoMail == [link |-> 0, resend |-> FALSE, sent |-> FALSE, at |-> 0]
Mail(l, resend) == [link |-> l, resend |-> resend, sent |-> FALSE, at |-> hour]

VerificationTypeOK ==
    /\ owner \in [email : AddressesOf, verified : BOOLEAN, proven : BOOLEAN]
    /\ link \in [Links -> [state : {"unissued", "live", "gone"}, email : AddressesOf \cup {NoAddress},
                           expires : 0..(LastHour + LinkLife), codeUntil : 0..(LastHour + CodeLife),
                           made : 0..LastHour, tries : 0..MaxTries]]
    /\ tries \in [count : 0..MaxTries, last : 0..LastHour]
    /\ sender \in [Senders -> [link : 0..MostLinks, resend : BOOLEAN, sent : BOOLEAN, at : 0..LastHour]]
    /\ posted \subseteq Links
    /\ wrong \in 0..(MaxTries + 1)
    /\ proof \in AddressesOf \cup {NoAddress}
    /\ hour \in 0..LastHour

Live == {l \in Links : link[l].state = "live"}
Fresh(email, made) ==
    [state |-> "live", email |-> email, expires |-> hour + LinkLife, codeUntil |-> hour + CodeLife,
     made |-> made, tries |-> 0]
NextLink == {l \in Links : \A m \in 1..l : link[m].state = "unissued" <=> m = l}
Without(ls) == [l \in Links |-> IF l \in ls /\ link[l].state = "live" THEN Gone ELSE link[l]]

\* Registration: the account is open and unverified, with its first link on its way.
VerificationInit ==
    /\ \E a \in AddressesOf : owner = [email |-> a, verified |-> FALSE, proven |-> FALSE]
    /\ hour = 0
    /\ link = [l \in Links |-> IF l = 1 THEN Fresh(owner.email, 0) ELSE NoLink]
    /\ tries = [count |-> 0, last |-> 0]
    /\ \E s \in Senders : sender = [t \in Senders |-> IF t = s THEN Mail(1, FALSE) ELSE NoMail]
    /\ posted = {}
    /\ wrong = 0
    /\ proof = NoAddress

-----------------------------------------------------------------------------
(* Proving the address. *)

\* The UPDATE matches the account only while it has the address the link was issued for.
Confirms(l) == link[l].email = owner.email

Proved(email) ==
    /\ owner' = [owner EXCEPT !.verified = TRUE, !.proven = TRUE]
    /\ link' = Without(Links)
    /\ tries' = [count |-> 0, last |-> 0]
    /\ wrong' = 0
    /\ proof' = email

\* Verify: the link is spent whatever comes of it.
Verify(l) ==
    /\ link[l].state = "live"
    /\ IF hour <= link[l].expires /\ Confirms(l)
         THEN Proved(link[l].email)
         ELSE link' = Without({l}) /\ UNCHANGED <<owner, tries, wrong, proof>>
    /\ UNCHANGED <<sender, posted, hour>>

\* verificationAttemptBudget.
Spent == IF hour - tries.last >= TryWindow THEN 0 ELSE tries.count
\* The rows a code may match.
Usable == {l \in Live : link[l].email = owner.email /\ link[l].codeUntil > hour /\ link[l].tries < MaxTries}

VerifyCode(l) ==
    /\ Spent < MaxTries
    /\ l \in Usable
    /\ Proved(link[l].email)
    /\ UNCHANGED <<sender, posted, hour>>

\* A wrong code costs every usable row and the account's budget.
WrongCode ==
    /\ Spent < MaxTries
    /\ Usable # {}
    /\ link' = [l \in Links |-> IF l \in Usable THEN [link[l] EXCEPT !.tries = @ + 1] ELSE link[l]]
    /\ tries' = [count |-> Spent + 1, last |-> hour]
    /\ wrong' = IF hour - tries.last >= TryWindow THEN 1 ELSE IF wrong <= MaxTries THEN wrong + 1 ELSE wrong
    /\ UNCHANGED <<owner, sender, posted, proof, hour>>

-----------------------------------------------------------------------------
(* Sending it again. *)

TooSoon == \E l \in Live : link[l].expires > hour /\ hour - link[l].made < ResendGap

\* Resend's first transaction: the row is the reservation, and the rows before it stay good.
Resend(s) ==
    /\ sender[s] = NoMail
    /\ ~owner.verified
    /\ ~TooSoon
    /\ \E l \in NextLink :
         /\ link' = [link EXCEPT ![l] = Fresh(owner.email, hour)]
         /\ sender' = [sender EXCEPT ![s] = Mail(l, TRUE)]
    /\ UNCHANGED <<owner, tries, posted, wrong, proof, hour>>

\* The mail server takes the mail; mailVerification, which no one waits for, ends here.
MailSent(s) ==
    /\ sender[s].link # 0 /\ ~sender[s].sent
    /\ posted' = posted \cup {sender[s].link}
    /\ sender' = [sender EXCEPT ![s] = IF @.resend THEN [@ EXCEPT !.sent = TRUE] ELSE NoMail]
    /\ UNCHANGED <<owner, link, tries, wrong, proof, hour>>

\* Mutant: a refused mail takes every row with it.
WithdrawnAll(l) == Links
\* Only the row of the mail that was refused.
Withdrawn(l) == {l}

\* The mail server refuses it; a resend takes its row back.
MailRefused(s) ==
    /\ sender[s].link # 0 /\ ~sender[s].sent
    /\ link' = IF sender[s].resend THEN Without(Withdrawn(sender[s].link)) ELSE link
    /\ sender' = [sender EXCEPT ![s] = NoMail]
    /\ UNCHANGED <<owner, tries, posted, wrong, proof, hour>>

\* The transaction that would take the row back fails too: the row stays, and its clock runs.
CleanupFails(s) ==
    /\ sender[s].link # 0 /\ ~sender[s].sent /\ sender[s].resend
    /\ sender' = [sender EXCEPT ![s] = NoMail]
    /\ UNCHANGED <<owner, link, tries, posted, wrong, proof, hour>>

\* The row is read again under the lock: it may have been followed, or left behind.
OnFile(l) == link[l].state = "live" /\ link[l].email = owner.email

\* Resend's last transaction.
Retire(s) ==
    /\ sender[s].sent
    /\ link' = IF ~owner.verified /\ OnFile(sender[s].link) THEN Without(Links \ {sender[s].link}) ELSE link
    /\ sender' = [sender EXCEPT ![s] = NoMail]
    /\ UNCHANGED <<owner, tries, posted, wrong, proof, hour>>

\* The mail went out and the last transaction failed: every row stays.
RetireFails(s) ==
    /\ sender[s].sent
    /\ sender' = [sender EXCEPT ![s] = NoMail]
    /\ UNCHANGED <<owner, link, tries, posted, wrong, proof, hour>>

-----------------------------------------------------------------------------
(* Moving the address. *)

BudgetAfterMove == tries

\* The UPDATE that changes an address clears email_proven_at.
ProofAfterMove(a) == owner.proven /\ a = owner.email

\* Mutant: the links of the address being left stay open.
LinksKept == {}
\* SettleAddressChange drops every row of the account.
LinksDropped == Links

\* UpdateProfile with verification required: a new link, mailed unless the clock of the
\* one before still runs, which it then keeps.
MoveAddress(a) ==
    /\ a # owner.email
    /\ owner' = [email |-> a, verified |-> FALSE, proven |-> ProofAfterMove(a)]
    /\ \E l \in NextLink :
         \/ /\ \E m \in Live : hour - link[m].made < ResendGap /\
                 link' = [Without(LinksDropped) EXCEPT ![l] = Fresh(a, link[m].made)]
            /\ UNCHANGED sender
         \/ /\ Live = {} \/ \E m \in Live : hour - link[m].made >= ResendGap
            /\ link' = [Without(LinksDropped) EXCEPT ![l] = Fresh(a, hour)]
            /\ \E s \in Senders :
                 /\ sender[s] = NoMail
                 /\ sender' = [sender EXCEPT ![s] = Mail(l, FALSE)]
    /\ tries' = BudgetAfterMove
    /\ UNCHANGED <<posted, wrong, proof, hour>>

\* The administrator's edit posts no link, and confirms where nothing is required.
SettleAddressChange(a, confirmed) ==
    /\ a # owner.email
    /\ owner' = [email |-> a, verified |-> confirmed, proven |-> ProofAfterMove(a)]
    /\ link' = Without(LinksDropped)
    /\ tries' = BudgetAfterMove
    /\ UNCHANGED <<sender, posted, wrong, proof, hour>>

\* A provider's sign-in proves the address (user.MarkEmailProven); the rows stay.
MarkEmailProven(a) ==
    /\ a = owner.email /\ ~owner.proven
    /\ owner' = [owner EXCEPT !.verified = TRUE, !.proven = TRUE]
    /\ proof' = a
    /\ UNCHANGED <<link, tries, sender, posted, wrong, hour>>

PruneVerifications ==
    /\ \E l \in Live : link[l].expires < hour
    /\ link' = Without({l \in Live : link[l].expires < hour})
    /\ UNCHANGED <<owner, tries, sender, posted, wrong, proof, hour>>

HourPasses ==
    /\ hour < LastHour
    /\ \A s \in Senders : sender[s].link # 0 => hour < sender[s].at + SendTime
    /\ hour' = hour + 1
    /\ UNCHANGED <<owner, link, tries, sender, posted, wrong, proof>>

VerificationNext ==
    \/ \E l \in Links : Verify(l) \/ VerifyCode(l)
    \/ WrongCode
    \/ \E s \in Senders : Resend(s) \/ MailSent(s) \/ MailRefused(s) \/ CleanupFails(s) \/ Retire(s) \/ RetireFails(s)
    \/ \E a \in AddressesOf : MoveAddress(a) \/ MarkEmailProven(a) \/ \E confirmed \in BOOLEAN : SettleAddressChange(a, confirmed)
    \/ PruneVerifications \/ HourPasses

VerificationSpec == VerificationInit /\ [][VerificationNext]_verificationVars

-----------------------------------------------------------------------------
(* Properties. *)

\* The proof on the account is of the address it has: no link or code of an address
\* it has left marks the one it moved to (verify.go:166).
ProofIsOfTheAddress == owner.proven => proof = owner.email

\* No link of an address the account has left can be followed: a resend that was
\* waiting for the mail server when the address moved leaves none behind (verify.go:86).
LinksAreOfTheAddress == \A l \in Live : link[l].email = owner.email

MailedLinkWorks == \E l \in posted : link[l].state = "live" /\ link[l].expires >= hour

\* A failed relay loses nothing, and of two resends that overlap one always leaves a
\* good mail: an account that has been mailed a link that works goes on having one,
\* until it is verified, moves, or time runs out (verify.go:485, 516).
AMailedLinkStays ==
    [][MailedLinkWorks /\ ~MailedLinkWorks' => owner' # owner \/ owner.verified \/ hour' # hour]_verificationVars

\* The budget of wrong codes is the account's: neither a resend nor a move of the
\* address restores it (verify.go:286).
GuessesBudgeted == wrong <= MaxTries

\* An address counts as proved by a link or a code of its own, within the budget of guesses.
AddressesProved == VerificationTypeOK /\ ProofIsOfTheAddress /\ LinksAreOfTheAddress /\ GuessesBudgeted
=============================================================================
