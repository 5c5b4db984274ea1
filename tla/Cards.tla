------------------------------- MODULE Cards --------------------------------
(***************************************************************************)
(* Usage reset cards and the codes that mint them (card.Store).            *)
(*                                                                         *)
(* A card is read and then changed by statements that others may come      *)
(* between: a redemption, the automatic spend of a reservation, and the    *)
(* claw-back of what a reward paid are two steps each. A manual use and a  *)
(* reservation take the global reset row first, so they exclude each       *)
(* other; the administrator's writes take no lock but the card's row.      *)
(***************************************************************************)
EXTENDS Integers, FiniteSets

CONSTANTS
    Holders,             \* accounts
    Codes, CodeCards,    \* redemption codes, and how many cards each carries
    CardCodeLife,            \* expires_at of each code, 0 for never
    MostCards,           \* bound: cards minted
    SpendAttempts,       \* spendNextAttempts
    LastDay              \* the clock stops here; a card lives for a day, or to the day it is moved to

ASSUME CardsAssumption ==
    /\ IsFiniteSet(Holders) /\ "none" \notin Holders
    /\ {CodeCards, CardCodeLife} \subseteq [Codes -> Nat]
    /\ {MostCards, SpendAttempts, LastDay} \subseteq Nat \ {0}

VARIABLES
    day,
    card,        \* the rows of usage_cards, by id
    code,        \* redemption_codes and redemptions: who has redeemed, and claimed
    redeeming,   \* of each account, the code its redemption has looked up, and when
    auto,        \* the reservation that spends a card, under the reset row
    clawing,     \* the ids a claw-back has read, under its owner's row
    resets,      \* history: resets performed for each card
    mintedBy     \* history: cards a code has minted, ever

cardVars == <<day, card, code, redeeming, auto, clawing, resets, mintedBy>>

CardIds == 1..MostCards
NoCard == [owner |-> "none", used |-> FALSE, expires |-> 0]
FreshCard(u, expires) == [owner |-> u, used |-> FALSE, expires |-> expires]
NoRedemption == [code |-> "none", at |-> 0]
Calm == [at |-> "calm", owner |-> "none", now |-> 0, id |-> 0, tries |-> 0]
NoClaw == [owner |-> "none", ids |-> {}]

CardsTypeOK ==
    /\ day \in 1..LastDay
    /\ card \in [CardIds -> [owner : Holders \cup {"none"}, used : BOOLEAN, expires : 0..(LastDay + 1)]]
    /\ code \in [Codes -> [exists : BOOLEAN, claimed : Nat, by : SUBSET Holders]]
    /\ redeeming \in [Holders -> [code : Codes \cup {"none"}, at : 0..LastDay]]
    /\ auto \in [at : {"calm", "reading", "chosen", "marked"}, owner : Holders \cup {"none"}, now : 0..LastDay,
                 id : 0..MostCards, tries : 0..SpendAttempts]
    /\ clawing \in [owner : Holders \cup {"none"}, ids : SUBSET CardIds]
    /\ resets \in [CardIds -> Nat]
    /\ mintedBy \in [Codes -> [Holders -> Nat]]

CardsInit ==
    /\ day = 1
    /\ card = [i \in CardIds |-> NoCard]
    /\ code = [c \in Codes |-> [exists |-> TRUE, claimed |-> 0, by |-> {}]]
    /\ redeeming = [u \in Holders |-> NoRedemption]
    /\ auto = Calm
    /\ clawing = NoClaw
    /\ resets = [i \in CardIds |-> 0]
    /\ mintedBy = [c \in Codes |-> [u \in Holders |-> 0]]

\* An id no card has had: a card that was spent or taken back is not minted again.
Unused == {i \in CardIds : card[i] = NoCard /\ resets[i] = 0 /\ \A j \in CardIds : j < i => card[j] # NoCard}
\* A card another transaction has changed and not committed.
Locked(i) == auto.at = "marked" /\ auto.id = i
Owned(u) == {i \in CardIds : card[i].owner = u}
Available(u, now) == {i \in Owned(u) : ~card[i].used /\ card[i].expires > now}

-----------------------------------------------------------------------------
(* Granting and redeeming. *)

Grant(u) ==
    /\ \E i \in Unused : card' = [card EXCEPT ![i] = FreshCard(u, day + 1)]
    /\ UNCHANGED <<day, code, redeeming, auto, clawing, resets, mintedBy>>

\* The code is looked up, and found not to have expired.
LookUp(u, c) ==
    /\ redeeming[u] = NoRedemption
    /\ code[c].exists
    /\ CardCodeLife[c] = 0 \/ CardCodeLife[c] > day
    /\ redeeming' = [redeeming EXCEPT ![u] = [code |-> c, at |-> day]]
    /\ UNCHANGED <<day, card, code, auto, clawing, resets, mintedBy>>

\* claimed = claimed + 1 WHERE claimed < cards
ClaimLeft(c) == code[c].claimed < CodeCards[c]
\* The rest of the transaction: the primary key of redemptions, the conditional claim and the
\* card. The code's row is held from the claim on.
Redeem(u) ==
    LET c == redeeming[u].code
    IN  /\ redeeming[u] # NoRedemption
        /\ redeeming' = [redeeming EXCEPT ![u] = NoRedemption]
        /\ IF code[c].exists /\ u \notin code[c].by /\ ClaimLeft(c)
           THEN /\ \E i \in Unused : card' = [card EXCEPT ![i] = FreshCard(u, redeeming[u].at + 1)]
                /\ code' = [code EXCEPT ![c].by = @ \cup {u}, ![c].claimed = @ + 1]
                /\ mintedBy' = [mintedBy EXCEPT ![c][u] = @ + 1]
           ELSE UNCHANGED <<card, code, mintedBy>>
        /\ UNCHANGED <<day, auto, clawing, resets>>

\* The redemptions of a code go with it; the cards stay.
DeleteCode(c) ==
    /\ code[c].exists
    /\ code' = [code EXCEPT ![c].exists = FALSE, ![c].by = {}]
    /\ UNCHANGED <<day, card, redeeming, auto, clawing, resets, mintedBy>>

-----------------------------------------------------------------------------
(* Spending. *)

\* A mutated form: only the expiry is asked.
CardSpendableAgain(i, now) == card[i].expires > now
\* used_at = 0 AND expires_at > now, in the UPDATE itself.
CardSpendable(i, now) == ~card[i].used /\ card[i].expires > now
\* POST /api/usage/cards/{id}/use: the reset row, the card and the reset, together or not at all.
Use(u, i) ==
    /\ auto = Calm
    /\ i \in Owned(u) /\ CardSpendable(i, day)
    /\ card' = [card EXCEPT ![i].used = TRUE]
    /\ resets' = [resets EXCEPT ![i] = @ + 1]
    /\ UNCHANGED <<day, code, redeeming, auto, clawing, mintedBy>>

\* A reservation that needs a card begins.
BeginAuto(u) ==
    /\ auto = Calm
    /\ auto' = [auto EXCEPT !.at = "reading", !.owner = u, !.now = day]
    /\ UNCHANGED <<day, card, code, redeeming, clawing, resets, mintedBy>>

\* The earliest that expires is read; without one, the reservation is refused and spends nothing.
ReadNext ==
    /\ auto.at = "reading"
    /\ LET open == Available(auto.owner, auto.now)
       IN  IF open = {} \/ auto.tries = SpendAttempts
           THEN auto' = Calm
           ELSE \E i \in open :
                  /\ \A j \in open : card[i].expires < card[j].expires
                                     \/ (card[i].expires = card[j].expires /\ i <= j)
                  /\ auto' = [auto EXCEPT !.at = "chosen", !.id = i, !.tries = @ + 1]
    /\ UNCHANGED <<day, card, code, redeeming, clawing, resets, mintedBy>>

\* Only the UPDATE decides: a card that went meanwhile is read past.
MarkNext ==
    /\ auto.at = "chosen"
    /\ IF auto.id \in Owned(auto.owner) /\ CardSpendable(auto.id, auto.now)
       THEN /\ card' = [card EXCEPT ![auto.id].used = TRUE]
            /\ auto' = [auto EXCEPT !.at = "marked"]
       ELSE auto' = [auto EXCEPT !.at = "reading"] /\ UNCHANGED card
    /\ UNCHANGED <<day, code, redeeming, clawing, resets, mintedBy>>

\* The reservation commits with the reset it was given, or it is refused or fails and gives the card back.
EndAuto ==
    /\ auto.at = "marked"
    /\ \/ resets' = [resets EXCEPT ![auto.id] = @ + 1] /\ UNCHANGED card
       \/ card' = [card EXCEPT ![auto.id].used = FALSE] /\ UNCHANGED resets
    /\ auto' = Calm
    /\ UNCHANGED <<day, code, redeeming, clawing, mintedBy>>

-----------------------------------------------------------------------------
(* Administrators and plugins. *)

\* Some unused cards, or all of an account's, expired ones included, are moved.
Reschedule(u, ids, to) ==
    /\ to > day /\ ids # {} /\ ids \subseteq Owned(u)
    /\ \A i \in ids : ~Locked(i)
    /\ \E i \in ids : ~card[i].used /\ card[i].expires # to
    /\ card' = [i \in CardIds |-> IF i \in ids /\ ~card[i].used THEN [card[i] EXCEPT !.expires = to] ELSE card[i]]
    /\ UNCHANGED <<day, code, redeeming, auto, clawing, resets, mintedBy>>

CardGone == [owner |-> "none", used |-> TRUE, expires |-> 0]

RevokeCard(i) ==
    /\ card[i].owner # "none" /\ ~Locked(i) /\ ~card[i].used
    /\ card' = [card EXCEPT ![i] = CardGone]
    /\ UNCHANGED <<day, code, redeeming, auto, clawing, resets, mintedBy>>

\* RevokeAvailable: what is available is read, soonest first, up to a number.
BeginClaw(u) ==
    /\ clawing = NoClaw
    /\ \E ids \in SUBSET Available(u, day) :
          /\ ids # {}
          /\ \A i \in ids, j \in Available(u, day) \ ids : card[i].expires <= card[j].expires
          /\ clawing' = [owner |-> u, ids |-> ids]
    /\ UNCHANGED <<day, card, code, redeeming, auto, resets, mintedBy>>

\* Deleted where it is still unused.
Takes(i) == ~card[i].used
EndClaw ==
    /\ clawing # NoClaw
    /\ \A i \in clawing.ids : ~Locked(i)
    /\ card' = [i \in CardIds |-> IF i \in clawing.ids /\ card[i].owner = clawing.owner /\ Takes(i) THEN CardGone ELSE card[i]]
    /\ clawing' = NoClaw
    /\ UNCHANGED <<day, code, redeeming, auto, resets, mintedBy>>

NextDay ==
    /\ day < LastDay
    /\ day' = day + 1
    /\ UNCHANGED <<card, code, redeeming, auto, clawing, resets, mintedBy>>

CardsNext ==
    \/ \E u \in Holders : Grant(u) \/ Redeem(u) \/ BeginAuto(u) \/ BeginClaw(u)
    \/ \E u \in Holders, c \in Codes : LookUp(u, c)
    \/ \E c \in Codes : DeleteCode(c)
    \/ \E u \in Holders, i \in CardIds : Use(u, i)
    \/ \E u \in Holders, ids \in SUBSET CardIds, to \in 2..(LastDay + 1) : Reschedule(u, ids, to)
    \/ \E i \in CardIds : RevokeCard(i)
    \/ ReadNext \/ MarkNext \/ EndAuto
    \/ EndClaw
    \/ NextDay

CardsSpec == CardsInit /\ [][CardsNext]_cardVars

-----------------------------------------------------------------------------
(* A code mints no more cards than it carries, one for each account, and   *)
(* counts each, however many people paste it at once.                      *)
CodesBounded ==
    \A c \in Codes :
        /\ \A u \in Holders : mintedBy[c][u] <= 1
        /\ code[c].claimed = Cardinality({u \in Holders : mintedBy[c][u] > 0})
        /\ code[c].claimed <= CodeCards[c]

(* Each reset was bought by a card of its own, and each used card of an    *)
(* account bought one; the card of an open reservation has yet to.         *)
ResetsPaid ==
    \A i \in CardIds : card[i].owner # "none" =>
        resets[i] = IF card[i].used /\ ~Locked(i) THEN 1 ELSE 0

(* Cards are minted within their codes, and each pays for one reset.       *)
CardsHold == CardsTypeOK /\ CodesBounded /\ ResetsPaid
=============================================================================
