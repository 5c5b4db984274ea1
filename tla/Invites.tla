------------------------------ MODULE Invites -------------------------------
(***************************************************************************)
(* The personal invite code of one account, its inviter: who registers     *)
(* through it, and the reset cards the inviter is paid (invite.Consume,    *)
(* RecordUse, Reward, RewardPending, Regenerate).                          *)
(*                                                                         *)
(* Reward reads the invitee first and decides in a transaction that holds  *)
(* the inviter's row. It is called by a registration, by a verification    *)
(* and by the janitor, which walks the pending uses page by page.          *)
(***************************************************************************)
EXTENDS Integers, Sequences, FiniteSets, SequencesExt

CONSTANTS
    Invitees,         \* accounts that may register through the code
    Callers,          \* calls of Reward beside the janitor's, at registration or verification
    RewardCards, RewardEvery, RewardLimit,
    PageSize,         \* pendingRewardPage
    MostCodes,        \* bound: how often the code is regenerated
    MostRewardFailures      \* bound: how often a reward's transaction fails

ASSUME InvitesAssumption ==
    /\ IsFiniteSet(Invitees) /\ IsFiniteSet(Callers)
    /\ "janitor" \notin Callers
    /\ {RewardCards, RewardEvery, PageSize, MostCodes} \subseteq Nat \ {0}
    /\ {RewardLimit, MostRewardFailures} \subseteq Nat

VARIABLES
    inviter,        \* status of the inviter
    userEnabled,    \* whether personal invites are switched on
    live,           \* the personal code that is not revoked, by its number
    invitee,        \* status of each invitee, and the row of invite_uses
    joined,         \* invitees in the order of invite_uses.created_at
    rewardCount,    \* users.invite_reward_count of the inviter
    granted,        \* history: cards given to the inviter
    paidFor,        \* history: the invitees they were given for, in order
    call,           \* the invitee each call of Reward has read and found qualified
    walk,           \* the janitor: what is left of its page, as positions of joined, and where the next one starts
    failures

inviteVars == <<inviter, userEnabled, live, invitee, joined, rewardCount, granted, paidFor, call, walk, failures>>

Nobody == "nobody"
Resting == [at |-> "resting", page |-> {}, after |-> 0, more |-> FALSE]
Rewarding == Callers \cup {"janitor"}

InvitesTypeOK ==
    /\ inviter \in {"active", "disabled", "gone"}
    /\ userEnabled \in BOOLEAN
    /\ live \in 0..MostCodes
    /\ invitee \in [Invitees -> [status : {"absent", "qualified", "unqualified", "gone"},
                                 use : {"none", "pending", "paid", "skipped"}]]
    /\ joined \in Seq(Invitees)
    /\ rewardCount \in 0..Cardinality(Invitees)
    /\ granted \in Nat
    /\ paidFor \in Seq(Invitees)
    /\ call \in [Rewarding -> Invitees \cup {Nobody}]
    /\ walk \in [at : {"resting", "reading", "rewarding"}, page : SUBSET (1..Len(joined)), after : 0..Len(joined), more : BOOLEAN]
    /\ failures \in 0..MostRewardFailures

InvitesInit ==
    /\ inviter = "active"
    /\ userEnabled \in BOOLEAN
    /\ live = 1
    /\ invitee = [u \in Invitees |-> [status |-> "absent", use |-> "none"]]
    /\ joined = <<>>
    /\ rewardCount = 0
    /\ granted = 0
    /\ paidFor = <<>>
    /\ call = [k \in Rewarding |-> Nobody]
    /\ walk = Resting
    /\ failures = 0

-----------------------------------------------------------------------------
(* Registration, and what happens to accounts. *)

\* Consume, the account and RecordUse are one transaction, which holds the inviter's row.
\* An invitee may have to verify its email, or may be restricted, before it qualifies.
Register(u, code) ==
    /\ invitee[u].status = "absent"
    /\ userEnabled /\ inviter = "active" /\ code = live
    /\ \E status \in {"qualified", "unqualified"} :
          invitee' = [invitee EXCEPT ![u] = [status |-> status, use |-> "pending"]]
    /\ joined' = Append(joined, u)
    /\ UNCHANGED <<inviter, userEnabled, live, rewardCount, granted, paidFor, call, walk, failures>>

\* It verifies its email, or is restricted, disabled or let go again.
Requalify(u) ==
    /\ invitee[u].status \in {"qualified", "unqualified"}
    /\ invitee' = [invitee EXCEPT ![u].status = IF @ = "qualified" THEN "unqualified" ELSE "qualified"]
    /\ UNCHANGED <<inviter, userEnabled, live, joined, rewardCount, granted, paidFor, call, walk, failures>>

\* A deleted account takes its row of invite_uses with it.
DeleteInvitee(u) ==
    /\ invitee[u].status \in {"qualified", "unqualified"}
    /\ invitee' = [invitee EXCEPT ![u] = [status |-> "gone", use |-> "none"]]
    /\ UNCHANGED <<inviter, userEnabled, live, joined, rewardCount, granted, paidFor, call, walk, failures>>

DisableInviter ==
    /\ inviter = "active"
    /\ inviter' \in {"disabled", "gone"}
    /\ UNCHANGED <<userEnabled, live, invitee, joined, rewardCount, granted, paidFor, call, walk, failures>>

Regenerate ==
    /\ inviter # "gone" /\ live < MostCodes
    /\ live' = live + 1
    /\ UNCHANGED <<inviter, userEnabled, invitee, joined, rewardCount, granted, paidFor, call, walk, failures>>

-----------------------------------------------------------------------------
(* Reward. *)

PendingInvite(u) == invitee[u].use = "pending"
Qualifies(u) == invitee[u].status = "qualified"

\* The use and the invitee are read; one that is resolved or does not qualify yet is left.
ReadReward(k, u) ==
    /\ call[k] = Nobody
    /\ PendingInvite(u) /\ Qualifies(u)
    /\ call' = [call EXCEPT ![k] = u]

\* A mutated form: the rows of invite_uses are counted.
CountedRows == Cardinality({u \in Invitees : invitee[u].use = "paid"})
\* countedInvites: a column of the inviter's row, so that a deleted invitee still counts.
Counted == rewardCount
\* evaluateReward: whether an invite counts, and what it pays.
Skipped == inviter # "active" \/ ~userEnabled \/ (RewardLimit > 0 /\ Counted >= RewardLimit)
Cards(n) == IF n % RewardEvery = 0 THEN RewardCards ELSE 0

\* Whether the UPDATE that claims the use still finds it unresolved.
Claimable(u) == PendingInvite(u)
\* The transaction. sameIp: the invitee may be the inviter.
Resolve(k) ==
    LET u == call[k]
    IN  /\ u # Nobody
        /\ call' = [call EXCEPT ![k] = Nobody]
        /\ \E sameIp \in BOOLEAN :
              IF ~Claimable(u)
              THEN UNCHANGED <<invitee, rewardCount, granted, paidFor>>
              ELSE IF Skipped \/ sameIp
              THEN /\ invitee' = [invitee EXCEPT ![u].use = "skipped"]
                   /\ UNCHANGED <<rewardCount, granted, paidFor>>
              ELSE /\ invitee' = [invitee EXCEPT ![u].use = "paid"]
                   /\ rewardCount' = Counted + 1
                   /\ granted' = granted + Cards(Counted + 1)
                   /\ paidFor' = Append(paidFor, u)
        /\ UNCHANGED <<inviter, userEnabled, live, joined, walk, failures>>

ResolveFails(k) ==
    /\ call[k] # Nobody
    /\ failures < MostRewardFailures
    /\ failures' = failures + 1
    /\ call' = [call EXCEPT ![k] = Nobody]
    /\ UNCHANGED <<inviter, userEnabled, live, invitee, joined, rewardCount, granted, paidFor, walk>>

CallReward(k, u) ==
    /\ ReadReward(k, u)
    /\ UNCHANGED <<inviter, userEnabled, live, invitee, joined, rewardCount, granted, paidFor, walk, failures>>

-----------------------------------------------------------------------------
(* RewardPending: pages in the order of joined, each read whole and then   *)
(* rewarded one by one; a full page is followed by the one after it.       *)

StartWalk ==
    /\ walk = Resting
    /\ walk' = [walk EXCEPT !.at = "reading"]
    /\ UNCHANGED <<inviter, userEnabled, live, invitee, joined, rewardCount, granted, paidFor, call, failures>>

\* A mutated form: every page begins with the oldest.
AfterNone(i) == {j \in 1..Len(joined) : PendingInvite(joined[j])}
\* Positions of the pending uses from one on.
After(i) == {j \in (i + 1)..Len(joined) : PendingInvite(joined[j])}
ReadPage ==
    /\ walk.at = "reading"
    /\ LET page == {j \in After(walk.after) : Cardinality({i \in After(walk.after) : i < j}) < PageSize}
       IN  \/ page = {} /\ walk' = Resting
           \/ \E last \in page :
                 /\ \A j \in page : j <= last
                 /\ walk' = [at |-> "rewarding", page |-> page, after |-> last, more |-> Cardinality(page) = PageSize]
    /\ UNCHANGED <<inviter, userEnabled, live, invitee, joined, rewardCount, granted, paidFor, call, failures>>

NextOfPage ==
    /\ walk.at = "rewarding" /\ call["janitor"] = Nobody
    /\ \E j \in walk.page :
          /\ \A i \in walk.page : j <= i
          /\ IF PendingInvite(joined[j]) /\ Qualifies(joined[j]) THEN ReadReward("janitor", joined[j]) ELSE UNCHANGED call
          /\ walk' = [walk EXCEPT !.page = @ \ {j}]
    /\ UNCHANGED <<inviter, userEnabled, live, invitee, joined, rewardCount, granted, paidFor, failures>>

\* A short page ends the walk.
EndOfPage ==
    /\ walk.at = "rewarding" /\ walk.page = {} /\ call["janitor"] = Nobody
    /\ walk' = IF walk.more THEN [walk EXCEPT !.at = "reading"] ELSE Resting
    /\ UNCHANGED <<inviter, userEnabled, live, invitee, joined, rewardCount, granted, paidFor, call, failures>>

Janitor == StartWalk \/ ReadPage \/ NextOfPage \/ EndOfPage \/ Resolve("janitor") \/ ResolveFails("janitor")

InvitesNext ==
    \/ \E u \in Invitees, code \in 1..MostCodes : Register(u, code)
    \/ \E u \in Invitees : Requalify(u) \/ DeleteInvitee(u)
    \/ DisableInviter
    \/ Regenerate
    \/ \E k \in Callers : Resolve(k) \/ ResolveFails(k)
    \/ \E k \in Callers, u \in Invitees : CallReward(k, u)
    \/ Janitor

InvitesFairness == WF_inviteVars(Janitor)

InvitesSpec == InvitesInit /\ [][InvitesNext]_inviteVars /\ InvitesFairness

-----------------------------------------------------------------------------
(* The inviter has exactly the cards its milestones come to, each invitee  *)
(* counted once, within the limit, whatever accounts were deleted since:   *)
(* a milestone is never paid twice and none is lost.                       *)
RewardsExact ==
    /\ InvitesTypeOK
    /\ rewardCount = Len(paidFor)
    /\ IsInjective(paidFor)
    /\ granted = RewardCards * (rewardCount \div RewardEvery)
    /\ RewardLimit > 0 => rewardCount <= RewardLimit

(* An invitee that comes to qualify long after it registered, and stays    *)
(* so, is resolved by the janitor's walk, however many before it are stuck.*)
PendingResolved ==
    \A u \in Invitees : (PendingInvite(u) /\ Qualifies(u)) ~> ~(PendingInvite(u) /\ Qualifies(u))
=============================================================================
