----------------------------- MODULE MCAccounts -----------------------------
(***************************************************************************)
(* The components of an account's access, checked in one run. They share   *)
(* no variable: part says which of them moves, and the others stay where   *)
(* they began.                                                             *)
(***************************************************************************)
EXTENDS Sessions, Verification, Limiter, Claims, Cards, Consent, Signup

VARIABLE part

mcTabOf == [t \in Tabs |-> IF t = "t3" THEN "v" ELSE "u"]
\* c1 is good for one use and a random number of days; c2 runs out.
mcCodeGroup == [c \in ClaimCodes |-> IF c = "c1" THEN "plus" ELSE "base"]
mcCodeDays == [c \in ClaimCodes |-> IF c = "c1" THEN 0 ELSE 1]
mcCodeDaysMax == [c \in ClaimCodes |-> IF c = "c1" THEN 2 ELSE 1]
mcCodeMaxUses == [c \in ClaimCodes |-> IF c = "c1" THEN 1 ELSE 2]
mcCodeExpires == [c \in ClaimCodes |-> IF c = "c1" THEN 0 ELSE 2]
mcCodeCards == [c \in Codes |-> 1]
mcCodeLife == [c \in Codes |-> 2]
\* Two visitors of one address, two of one process, one of the three through a provider.
mcWayOf == [v \in Visitors |-> IF v = "v3" THEN "provider" ELSE "form"]
mcOriginOf == [v \in Visitors |-> IF v = "v1" THEN "i1" ELSE "i2"]
mcProcessOf == [v \in Visitors |-> IF v = "v2" THEN "p2" ELSE "p1"]

Init ==
    /\ part \in {"sessions", "verification", "limiter", "claims", "cards", "consent", "signup"}
    /\ SessionsInit /\ VerificationInit /\ LimiterInit /\ ClaimsInit /\ CardsInit /\ ConsentInit /\ SignupInit
    \* A part that does not move begins one way.
    /\ part # "sessions" => account.factorAt = 1 /\ chosen # NoPassword /\ ~session[2].live
    /\ part # "verification" => owner.email = "a1" /\ sender["s1"].link = 1
    /\ part # "signup" => policy.challenges

Next ==
    /\ UNCHANGED part
    /\ IF part = "sessions" THEN SessionsNext ELSE UNCHANGED sessionVars
    /\ IF part = "verification" THEN VerificationNext ELSE UNCHANGED verificationVars
    /\ IF part = "limiter" THEN LimiterNext ELSE UNCHANGED limiterVars
    /\ IF part = "claims" THEN ClaimsNext ELSE UNCHANGED claimVars
    /\ IF part = "cards" THEN CardsNext ELSE UNCHANGED cardVars
    /\ IF part = "consent" THEN ConsentNext ELSE UNCHANGED consentVars
    /\ IF part = "signup" THEN SignupNext ELSE UNCHANGED signupVars
    \* Names are alike: the first of two attempts is never for the second name.
    /\ "n2" \notin attempt'["r1"]
    \* Requests carry one operation and are alike: r1 is the first to begin. So are the tabs of
    \* an account, which keep nothing between claims: one that begins alone is t1.
    /\ request'["r1"] = Idle => request'["r2"] = Idle
    /\ claim["t1"] = NoClaim /\ claim["t2"] = NoClaim => claim'["t2"] = NoClaim

Spec ==
    Init /\ [][Next]_<<part, sessionVars, verificationVars, limiterVars, claimVars, cardVars, consentVars, signupVars>>
=============================================================================
