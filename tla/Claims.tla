------------------------------- MODULE Claims -------------------------------
(***************************************************************************)
(* Batch and partner invite codes: a use is spent by an account that       *)
(* registers through the code or by one that exists and claims it, and     *)
(* either grants a membership of the code's group (invite.Consume,         *)
(* invite.Claim).                                                          *)
(*                                                                         *)
(* A claim is one transaction that holds its account's row from the first  *)
(* statement on; what other accounts do to the code falls between its read *)
(* and its conditional spend, so these are two steps.                      *)
(***************************************************************************)
EXTENDS Integers, FiniteSets

CONSTANTS
    Claimants,         \* accounts
    Tabs, TabOf,       \* requests that claim, and the account each is made by
    ClaimCodes,        \* codes that may be claimed by existing accounts
    CodeGroup, CodeDays, CodeDaysMax, CodeMaxUses, CodeExpires,
    Groups, DefaultGroup,
    MaxClaimFailures, FailureWindow,
    LastClaimMoment         \* the clock stops here

ASSUME ClaimsAssumption ==
    /\ IsFiniteSet(Claimants) /\ IsFiniteSet(Tabs)
    /\ TabOf \in [Tabs -> Claimants]
    /\ DefaultGroup \in Groups /\ "none" \notin Groups
    /\ CodeGroup \in [ClaimCodes -> Groups]
    /\ {CodeDays, CodeDaysMax, CodeMaxUses, CodeExpires} \subseteq [ClaimCodes -> Nat]
    /\ {MaxClaimFailures, FailureWindow, LastClaimMoment} \subseteq Nat \ {0}

VARIABLES
    claimMoment,      \* time.Now
    member,      \* of each account, its group and until when; permanent when 0
    uses,        \* invite_codes.uses
    revoked,     \* codes with revoked_at set
    usesBy,      \* invite_uses: who registered through which code
    claimsBy,    \* invite_claims: who claimed which code
    throttle,    \* invite_claim_throttle
    guesses,     \* history: failed claims since the throttle's window began
    claim        \* the transaction of each tab

claimVars == <<claimMoment, member, uses, revoked, usesBy, claimsBy, throttle, guesses, claim>>

Member(group, until) == [group |-> group, until |-> until]
NoMembership == Member("none", 0)
Failures(start, failures) == [start |-> start, failures |-> failures]
NoThrottle == Failures(0, 0)
\* What a claim has read: its code, when, the throttle's window, and what it is to grant.
Underway(c, at, window, to) == [at |-> "spending", code |-> c, read |-> at, window |-> window, to |-> to]
NoClaim == [at |-> "idle"]

\* group_days and group_days_max: what may be drawn (randomGroupDays). 0 is permanent.
Draws(c) == IF CodeDaysMax[c] > CodeDays[c]
            THEN (IF CodeDays[c] = 0 THEN 1 ELSE CodeDays[c])..CodeDaysMax[c]
            ELSE {CodeDays[c]}
Until(from, days) == IF days = 0 THEN 0 ELSE from + days

Memberships == [group : Groups, until : Nat]
Throttles == [start : 0..LastClaimMoment, failures : 0..MaxClaimFailures]

ClaimsTypeOK ==
    /\ claimMoment \in 1..LastClaimMoment
    /\ member \in [Claimants -> {NoMembership} \cup Memberships]
    /\ uses \in [ClaimCodes -> 0..Cardinality(Claimants)]
    /\ revoked \subseteq ClaimCodes
    /\ {usesBy, claimsBy} \subseteq SUBSET (ClaimCodes \X Claimants)
    /\ throttle \in [Claimants -> Throttles]
    /\ guesses \in [Claimants -> Nat]
    /\ claim \in [Tabs -> {NoClaim} \cup [at : {"spending"}, code : ClaimCodes, read : 1..LastClaimMoment,
                                         window : Throttles, to : Memberships]]

ClaimsInit ==
    /\ claimMoment = 1
    /\ member = [u \in Claimants |-> NoMembership]
    /\ uses = [c \in ClaimCodes |-> 0]
    /\ revoked = {}
    /\ usesBy = {} /\ claimsBy = {}
    /\ throttle = [u \in Claimants |-> NoThrottle]
    /\ guesses = [u \in Claimants |-> 0]
    /\ claim = [t \in Tabs |-> NoClaim]

Exists(u) == member[u] # NoMembership
\* The row of an account is held by the claim it has under way.
Claiming(u) == \E t \in Tabs : TabOf[t] = u /\ claim[t] # NoClaim

\* The condition of the UPDATE that spends a use.
Spendable(c, at) ==
    /\ c \notin revoked
    /\ CodeMaxUses[c] = 0 \/ uses[c] < CodeMaxUses[c]
    /\ CodeExpires[c] = 0 \/ CodeExpires[c] > at

\* What a session, or a claim, sees of a membership that has run out.
ResolvedAt(m, at) == IF m.until > 0 /\ m.until <= at THEN Member(DefaultGroup, 0) ELSE m
Resolved(m) == ResolvedAt(m, claimMoment)

-----------------------------------------------------------------------------
(* A registration, with a code or without, is one transaction: what it     *)
(* read of the code is asked again by the UPDATE that spends the use.      *)

JoinGroup(u) ==
    /\ ~Exists(u)
    /\ member' = [member EXCEPT ![u] = Member(DefaultGroup, 0)]
    /\ UNCHANGED <<claimMoment, uses, revoked, usesBy, claimsBy, throttle, guesses, claim>>

Consume(u, c) ==
    /\ ~Exists(u)
    /\ Spendable(c, claimMoment)
    /\ uses' = [uses EXCEPT ![c] = @ + 1]
    /\ usesBy' = usesBy \cup {<<c, u>>}
    /\ \E days \in Draws(c) :
          member' = [member EXCEPT ![u] = Member(CodeGroup[c], Until(claimMoment, days))]
    /\ UNCHANGED <<claimMoment, revoked, claimsBy, throttle, guesses, claim>>

-----------------------------------------------------------------------------
(* A claim. *)

\* A window that is over counts nothing (readClaimThrottle).
Window(u) == IF throttle[u].start # 0 /\ claimMoment - throttle[u].start < FailureWindow THEN throttle[u] ELSE NoThrottle

\* A failed guess is counted in the window the claim began in, fresh or under way.
UseCounted(u, window) ==
    /\ throttle' = [throttle EXCEPT ![u] = Failures(IF window.start = 0 THEN claimMoment ELSE window.start,
                                                     window.failures + 1)]
    /\ guesses' = [guesses EXCEPT ![u] = IF window.start = 0 THEN 1 ELSE @ + 1]

\* A mutated form: a registration through the code is not asked about.
SpentByClaim(c, u) == <<c, u>> \in claimsBy
\* Registered through the code, or claimed it before.
SpentBy(c, u) == <<c, u>> \in claimsBy \cup usesBy
\* A mutated form: whoever sits in the default group starts fresh, even where that is the code's group.
ConflictDefaultFirst(m, c) ==
    /\ m.group # DefaultGroup
    /\ m.group = CodeGroup[c] => m.until = 0

\* Who may not be given the code's group: a permanent member of it, and a member of a third group.
Conflict(m, c) ==
    \/ m.group = CodeGroup[c] /\ m.until = 0
    \/ m.group \notin {CodeGroup[c], DefaultGroup}

\* A trial is topped up from where it ends; anyone else starts now. 0 days is for good.
Granted(m, c, days) ==
    Member(CodeGroup[c], Until(IF m.group = CodeGroup[c] /\ m.until > claimMoment THEN m.until ELSE claimMoment, days))

\* The row lock is taken first, so that the throttle and the membership are read under it.
Lockable(u) == Exists(u) /\ ~Claiming(u)
\* A code that is unknown or cannot be claimed is a guess, unless the account is throttled.
Guess(t) ==
    /\ claim[t] = NoClaim
    /\ Lockable(TabOf[t])
    /\ Window(TabOf[t]).failures < MaxClaimFailures
    /\ UseCounted(TabOf[t], Window(TabOf[t]))
    /\ UNCHANGED <<claimMoment, member, uses, revoked, usesBy, claimsBy, claim>>

\* A code that may be claimed, by an account it does something for. Refusals change nothing
\* but a membership that has run out, which they leave resolved.
Claim(t, c) ==
    LET u == TabOf[t]
        m == Resolved(member[u])
    IN  /\ claim[t] = NoClaim
        /\ Lockable(u)
        /\ Window(u).failures < MaxClaimFailures
        /\ Spendable(c, claimMoment)
        /\ IF ~SpentBy(c, u) /\ ~Conflict(m, c)
           THEN /\ \E days \in Draws(c) :
                      claim' = [claim EXCEPT ![t] = Underway(c, claimMoment, Window(u), Granted(m, c, days))]
                /\ UNCHANGED member
           ELSE /\ ~SpentBy(c, u) /\ m # member[u]
                /\ member' = [member EXCEPT ![u] = m]
                /\ UNCHANGED claim
        /\ UNCHANGED <<claimMoment, uses, revoked, usesBy, claimsBy, throttle, guesses>>

\* A membership that had run out when the claim read it is left resolved.
LeftResolved(t) == member' = [member EXCEPT ![TabOf[t]] = ResolvedAt(@, claim[t].read)]

\* The use is spent if the code still allows it, and the claim is recorded once.
Spend(t) ==
    LET u == TabOf[t]
        c == claim[t].code
    IN  /\ claim[t] # NoClaim
        /\ Spendable(c, claim[t].read)
        /\ IF <<c, u>> \notin claimsBy
           THEN /\ uses' = [uses EXCEPT ![c] = @ + 1]
                /\ claimsBy' = claimsBy \cup {<<c, u>>}
                /\ member' = [member EXCEPT ![u] = claim[t].to]
                /\ throttle' = [throttle EXCEPT ![u] = NoThrottle]
                /\ guesses' = [guesses EXCEPT ![u] = 0]
           ELSE LeftResolved(t) /\ UNCHANGED <<uses, claimsBy, throttle, guesses>>
        /\ claim' = [claim EXCEPT ![t] = NoClaim]
        /\ UNCHANGED <<claimMoment, revoked, usesBy>>

\* The code was revoked, or its last use went, since it was read: a guess like any other,
\* which commits what the claim wrote.
SpendLost(t) ==
    /\ claim[t] # NoClaim
    /\ ~Spendable(claim[t].code, claim[t].read)
    /\ UseCounted(TabOf[t], claim[t].window)
    /\ LeftResolved(t)
    /\ claim' = [claim EXCEPT ![t] = NoClaim]
    /\ UNCHANGED <<claimMoment, uses, revoked, usesBy, claimsBy>>

\* The transaction fails and leaves nothing.
ClaimFails(t) ==
    /\ claim[t] # NoClaim
    /\ claim' = [claim EXCEPT ![t] = NoClaim]
    /\ UNCHANGED <<claimMoment, member, uses, revoked, usesBy, claimsBy, throttle, guesses>>

-----------------------------------------------------------------------------
(* Beside them: the clock, the sweep of memberships, and administrators.   *)

ClaimTick ==
    /\ claimMoment < LastClaimMoment
    /\ claimMoment' = claimMoment + 1
    /\ UNCHANGED <<member, uses, revoked, usesBy, claimsBy, throttle, guesses, claim>>

\* ExpireMemberships, or a session that resolves its account's: a write of the row.
ExpireMembership(u) ==
    /\ ~Claiming(u)
    /\ Resolved(member[u]) # member[u]
    /\ member' = [member EXCEPT ![u] = Resolved(member[u])]
    /\ UNCHANGED <<claimMoment, uses, revoked, usesBy, claimsBy, throttle, guesses, claim>>

RevokeCode(c) ==
    /\ c \notin revoked
    /\ revoked' = revoked \cup {c}
    /\ UNCHANGED <<claimMoment, member, uses, usesBy, claimsBy, throttle, guesses, claim>>

\* An administrator puts an account in a group for good.
SetGroup(u, g) ==
    /\ Exists(u) /\ ~Claiming(u)
    /\ member[u] # Member(g, 0)
    /\ member' = [member EXCEPT ![u] = Member(g, 0)]
    /\ UNCHANGED <<claimMoment, uses, revoked, usesBy, claimsBy, throttle, guesses, claim>>

ClaimsNext ==
    \/ \E u \in Claimants : JoinGroup(u) \/ ExpireMembership(u)
    \/ \E u \in Claimants, c \in ClaimCodes : Consume(u, c)
    \/ \E t \in Tabs : Guess(t) \/ Spend(t) \/ SpendLost(t) \/ ClaimFails(t)
    \/ \E t \in Tabs, c \in ClaimCodes : Claim(t, c)
    \/ \E c \in ClaimCodes : RevokeCode(c)
    \/ \E u \in Claimants, g \in Groups : SetGroup(u, g)
    \/ ClaimTick

ClaimsSpec == ClaimsInit /\ [][ClaimsNext]_claimVars

-----------------------------------------------------------------------------
(* A code grants as many memberships as it counts uses, never more than    *)
(* its limit, and never two to one account, whether it registered through  *)
(* the code or claimed it.                                                 *)
UsesCounted ==
    \A c \in ClaimCodes :
        /\ uses[c] = Cardinality({x \in usesBy : x[1] = c}) + Cardinality({x \in claimsBy : x[1] = c})
        /\ CodeMaxUses[c] > 0 => uses[c] <= CodeMaxUses[c]
        /\ \A u \in Claimants : ~(<<c, u>> \in usesBy /\ <<c, u>> \in claimsBy)

(* A claim only adds to what the account had when it was made: a permanent *)
(* membership of a group other than the default, or of the code's own      *)
(* group, stays, and a trial never ends sooner than it would have; a code  *)
(* of limited membership, claimed or registered through, never makes one   *)
(* for good.                                                               *)
ClaimsOnlyAdd ==
    [][\A c \in ClaimCodes, u \in Claimants :
          /\ <<c, u>> \in claimsBy' \ claimsBy =>
               \E t \in Tabs :
                  /\ TabOf[t] = u /\ claim[t] # NoClaim /\ claim[t].code = c
                  /\ LET m == ResolvedAt(member[u], claim[t].read)
                     IN  /\ m.group \in {DefaultGroup, CodeGroup[c]}
                         /\ m.group = CodeGroup[c] =>
                              m.until > 0 /\ (member'[u].until = 0 \/ member'[u].until > m.until)
          /\ <<c, u>> \in (claimsBy' \ claimsBy) \cup (usesBy' \ usesBy) /\ CodeDaysMax[c] > 0
               => member'[u].until > 0]_claimVars

(* Failed claims are slowed by a count that no number of tabs loses: it is *)
(* what was guessed since the window began, never above the limit.         *)
GuessesCounted ==
    \A u \in Claimants : throttle[u].failures = guesses[u] /\ guesses[u] <= MaxClaimFailures

(* Codes and guesses are counted, whichever tabs overlap.                  *)
ClaimsCounted == ClaimsTypeOK /\ UsesCounted /\ GuessesCounted
=============================================================================
