--------------------------- MODULE AccountsProofs ---------------------------
(***************************************************************************)
(* Theorems about the components of an account's access, each for any      *)
(* number of accounts, requests, codes and rows.                           *)
(***************************************************************************)
EXTENDS Consent, Claims, Cards, FiniteSetTheorems, TLAPS

(***************************************************************************)
(* Consent. A pair descends from one code, which names its application,    *)
(* and while an exchange is on its way from the code to the pair no pair   *)
(* descends from it. That is why a second live pair cannot come of a code  *)
(* that is presented twice, and why a line that was revoked has no pair to *)
(* come alive again.                                                       *)
(***************************************************************************)

CodeRow == [stored : BOOLEAN, app : Clients \cup {"none"}, used : BOOLEAN, expired : BOOLEAN]
PairRow == [stored : BOOLEAN, app : Clients \cup {"none"}, root : 0..MostAuthCodes,
            revoked : BOOLEAN, expired : BOOLEAN, held : BOOLEAN]
CallRow == [at : {"idle", "approved", "redeemed", "vouched", "rotating", "rotated", "replayed"},
            app : Clients \cup {"none"}, code : 0..MostAuthCodes, pair : 0..MostPairs, live : BOOLEAN]

LEMMA ConsentTypes ==
    ConsentTypeOK <=>
        /\ consent \subseteq Clients /\ authCode \in [AuthCodes -> CodeRow] /\ pair \in [Pairs -> PairRow]
        /\ caller \in [Callers -> CallRow] /\ vouched \in BOOLEAN /\ ended \subseteq AuthCodes
  BY DEF ConsentTypeOK, CodeRow, PairRow, CallRow

LEMMA ConsentNumbers ==
    /\ AuthCodes \subseteq 0..MostAuthCodes /\ 0 \in 0..MostAuthCodes /\ 0 \notin AuthCodes
    /\ Pairs \subseteq 0..MostPairs /\ 0 \in 0..MostPairs
    /\ "none" \notin Clients
  BY ConsentAssumption DEF ConsentAssumption, AuthCodes, Pairs

\* An exchange between the code it has spent and the pair it has yet to save.
Exchanging(r) == caller[r].at \in {"redeemed", "vouched"}

PairHasCode(p) ==
    IF pair[p].app = "none" THEN pair[p].root = 0 /\ ~pair[p].stored
    ELSE /\ pair[p].root \in AuthCodes
         /\ authCode[pair[p].root].used /\ authCode[pair[p].root].app = pair[p].app
CallHasCode(r) ==
    /\ caller[r].at \in {"approved", "redeemed", "vouched", "replayed"} => caller[r].app \in Clients
    /\ caller[r].at = "rotating" => caller[r].pair \in Pairs
    /\ Exchanging(r) =>
         /\ caller[r].code \in AuthCodes
         /\ authCode[caller[r].code].used /\ authCode[caller[r].code].app = caller[r].app
         /\ \A p \in Pairs : pair[p].root # caller[r].code
OneExchange ==
    \A r, s \in Callers : Exchanging(r) /\ Exchanging(s) /\ caller[r].code = caller[s].code => r = s
EndedDescend == \A c \in ended : \E p \in Pairs : pair[p].root = c

ConsentInv ==
    /\ ConsentTypeOK /\ LivePairsAreConsented /\ OneLivePairPerCode /\ EndedLinesStayEnded
    /\ \A p \in Pairs : PairHasCode(p)
    /\ \A r \in Callers : CallHasCode(r)
    /\ OneExchange /\ EndedDescend

\* Rows that keep their line, and come to life no more.
PairsFade ==
    \A p \in Pairs : /\ pair'[p].app = pair[p].app /\ pair'[p].root = pair[p].root
                     /\ pair'[p].stored => pair[p].stored
                     /\ LivePair(p)' => LivePair(p)
CodesKept ==
    \A c \in AuthCodes : authCode'[c].app = authCode[c].app /\ authCode'[c].used = authCode[c].used
\* Requests that go on with what they have, or end.
CallKept(r) ==
    /\ caller'[r].at \in {"approved", "redeemed", "vouched", "replayed"} => caller'[r].app \in Clients
    /\ caller'[r].at = "rotating" => caller'[r].pair \in Pairs
    /\ Exchanging(r)' => /\ Exchanging(r)
                         /\ caller'[r].code = caller[r].code /\ caller'[r].app = caller[r].app
\* What still lives after a revocation is none of what it was for.
LiveSpared == \A p \in Pairs : LivePair(p)' => pair[p].app \in consent' /\ pair[p].root \notin ended'
EndedKnown == \A c \in ended' : \E p \in Pairs : pair[p].root = c

\* A step that issues nothing and spends no code.
LEMMA ConsentFades ==
    ASSUME ConsentInv, ConsentTypeOK', PairsFade, CodesKept, \A r \in Callers : CallKept(r),
           LiveSpared, EndedKnown
    PROVE  ConsentInv'
  <1>1. LivePairsAreConsented' /\ EndedLinesStayEnded'
    BY Zenon DEF LivePairsAreConsented, EndedLinesStayEnded, PairsFade, LiveSpared
  <1>2. OneLivePairPerCode'
    BY Zenon DEF ConsentInv, OneLivePairPerCode, PairsFade
  <1>3. ASSUME NEW p \in Pairs PROVE PairHasCode(p)'
    <2>1. PairHasCode(p)  BY DEF ConsentInv
    <2>2. CASE pair[p].app = "none"  BY Zenon, <2>1, <2>2 DEF PairHasCode, PairsFade
    <2>3. CASE pair[p].app # "none"  BY Zenon, <2>1, <2>3 DEF PairHasCode, PairsFade, CodesKept
    <2> QED  BY <2>2, <2>3
  <1>4. ASSUME NEW r \in Callers PROVE CallHasCode(r)'
    <2>1. CallHasCode(r) /\ CallKept(r)  BY DEF ConsentInv
    <2> QED  BY Zenon, <2>1 DEF CallHasCode, CallKept, PairsFade, CodesKept
  <1>5. OneExchange'  BY Zenon DEF ConsentInv, OneExchange, CallKept
  <1>6. EndedDescend'  BY Zenon DEF EndedKnown, EndedDescend, PairsFade
  <1> QED  BY Zenon, <1>1, <1>2, <1>3, <1>4, <1>5, <1>6 DEF ConsentInv

\* A request moves and the tables stay.
LEMMA ConsentCalls ==
    ASSUME ConsentInv, ConsentTypeOK', UNCHANGED <<pair, authCode, ended>>, consent \subseteq consent',
           \A r \in Callers : CallKept(r)
    PROVE  ConsentInv'
  <1>1. PairsFade /\ CodesKept  BY DEF PairsFade, CodesKept, LivePair
  <1>2. LiveSpared
    BY Zenon DEF ConsentInv, LiveSpared, LivePairsAreConsented, EndedLinesStayEnded, LivePair
  <1>3. EndedKnown  BY Zenon DEF ConsentInv, EndedDescend, EndedKnown
  <1> QED  BY <1>1, <1>2, <1>3, ConsentFades

\* One request moves.
LEMMA OneCall ==
    ASSUME ConsentInv, NEW r \in Callers, NEW call, caller' = [caller EXCEPT ![r] = call],
           call.at \in {"approved", "redeemed", "vouched", "replayed"} => call.app \in Clients,
           call.at = "rotating" => call.pair \in Pairs,
           call.at \in {"redeemed", "vouched"} =>
               Exchanging(r) /\ call.code = caller[r].code /\ call.app = caller[r].app
    PROVE  \A s \in Callers : CallKept(s)
  <1>1. caller \in [Callers -> CallRow]  BY ConsentTypes DEF ConsentInv
  <1>2. caller'[r] = call /\ \A s \in Callers : s # r => caller'[s] = caller[s]  BY <1>1
  <1>3. CallKept(r)  BY Zenon, <1>2 DEF CallKept, Exchanging
  <1>4. ASSUME NEW s \in Callers, s # r PROVE CallKept(s)
    <2>1. CallHasCode(s) /\ caller'[s] = caller[s]  BY <1>2, <1>4 DEF ConsentInv
    <2> QED  BY Zenon, <2>1 DEF CallKept, CallHasCode, Exchanging
  <1> QED  BY <1>3, <1>4

\* A request ends.
LEMMA EndCall ==
    ASSUME ConsentInv, NEW r \in Callers, Ends(r)
    PROVE  \A s \in Callers : CallKept(s)
  <1>1. NoCall.at = "idle"  BY DEF NoCall, Call
  <1> QED  BY <1>1, OneCall DEF Ends

\* The rows the steps write have their types.
LEMMA ConsentRows ==
    /\ \A a \in Clients : NewAuthCode(a) \in CodeRow
    /\ \A a \in Clients, c \in 0..MostAuthCodes, held \in BOOLEAN : NewPair(a, c, held) \in PairRow
    /\ \A at \in {"idle", "approved", "redeemed", "vouched", "rotating", "rotated", "replayed"},
          a \in Clients \cup {"none"}, c \in 0..MostAuthCodes, p \in 0..MostPairs, live \in BOOLEAN :
             Call(at, a, c, p, live) \in CallRow
    /\ NoCall \in CallRow
  <1>1. \A a \in Clients : NewAuthCode(a) \in CodeRow  BY DEF NewAuthCode, CodeRow
  <1>2. \A a \in Clients, c \in 0..MostAuthCodes, held \in BOOLEAN : NewPair(a, c, held) \in PairRow
    BY DEF NewPair, PairRow
  <1>3. \A at \in {"idle", "approved", "redeemed", "vouched", "rotating", "rotated", "replayed"},
          a \in Clients \cup {"none"}, c \in 0..MostAuthCodes, p \in 0..MostPairs, live \in BOOLEAN :
             Call(at, a, c, p, live) \in CallRow
    BY DEF Call, CallRow
  <1>4. NoCall \in CallRow  BY <1>3, ConsentNumbers DEF NoCall
  <1> QED  BY <1>1, <1>2, <1>3, <1>4

\* What the revocations leave of each row.
LEMMA RevokedRows ==
    ASSUME ConsentTypeOK, NEW apps
    PROVE  /\ RevokedPairs(apps) \in [Pairs -> PairRow]
           /\ \A p \in Pairs :
                /\ RevokedPairs(apps)[p].app = pair[p].app /\ RevokedPairs(apps)[p].root = pair[p].root
                /\ RevokedPairs(apps)[p].stored = pair[p].stored
                /\ pair[p].app \in apps => RevokedPairs(apps)[p].revoked
                /\ pair[p].app \notin apps => RevokedPairs(apps)[p] = pair[p]
           /\ DroppedCodes(apps) \in [AuthCodes -> CodeRow]
           /\ \A c \in AuthCodes : /\ DroppedCodes(apps)[c].app = authCode[c].app
                                   /\ DroppedCodes(apps)[c].used = authCode[c].used
  <1>1. pair \in [Pairs -> PairRow] /\ authCode \in [AuthCodes -> CodeRow]  BY ConsentTypes
  <1>2. /\ RevokedPairs(apps) \in [Pairs -> PairRow]
        /\ \A p \in Pairs :
                /\ RevokedPairs(apps)[p].app = pair[p].app /\ RevokedPairs(apps)[p].root = pair[p].root
                /\ RevokedPairs(apps)[p].stored = pair[p].stored
                /\ pair[p].app \in apps => RevokedPairs(apps)[p].revoked
                /\ pair[p].app \notin apps => RevokedPairs(apps)[p] = pair[p]
    BY <1>1 DEF RevokedPairs, PairRow
  <1>3. /\ DroppedCodes(apps) \in [AuthCodes -> CodeRow]
        /\ \A c \in AuthCodes : /\ DroppedCodes(apps)[c].app = authCode[c].app
                                /\ DroppedCodes(apps)[c].used = authCode[c].used
    BY <1>1 DEF DroppedCodes, CodeRow
  <1> QED  BY <1>2, <1>3

\* A withdrawal, a replay and a password change: pairs of the applications are
\* revoked, and with a pair every pair of its line, which is of one application.
LEMMA RevocationStep ==
    ASSUME ConsentInv, NEW apps \in SUBSET Clients,
           pair' = RevokedPairs(apps), ended' = EndedBy(apps),
           authCode' = DroppedCodes(apps) \/ UNCHANGED authCode,
           consent \ apps \subseteq consent', consent' \subseteq Clients,
           UNCHANGED vouched, caller' \in [Callers -> CallRow], \A r \in Callers : CallKept(r)
    PROVE  ConsentInv'
  <1>0. ConsentTypeOK  BY DEF ConsentInv
  <1>1. /\ pair' \in [Pairs -> PairRow]
        /\ \A p \in Pairs :
             /\ pair'[p].app = pair[p].app /\ pair'[p].root = pair[p].root
             /\ pair'[p].stored = pair[p].stored
             /\ pair[p].app \in apps => pair'[p].revoked
             /\ pair[p].app \notin apps => pair'[p] = pair[p]
    BY <1>0, RevokedRows
  <1>2. authCode' \in [AuthCodes -> CodeRow] /\ CodesKept
    BY <1>0, RevokedRows, ConsentTypes DEF CodesKept
  <1>3. \A c \in ended' : c \in ended \/ \E p \in Pairs : pair[p].app \in apps /\ pair[p].root = c
    BY Zenon DEF EndedBy
  <1>4. \A p \in Pairs : pair[p].app \in apps => pair[p].root \in AuthCodes
    BY Zenon, ConsentNumbers DEF ConsentInv, PairHasCode
  <1>5. ended' \subseteq AuthCodes  BY Zenon, <1>0, <1>3, <1>4, ConsentTypes
  <1>6. ConsentTypeOK'
    <2>1. /\ consent' \subseteq Clients /\ authCode' \in [AuthCodes -> CodeRow] /\ pair' \in [Pairs -> PairRow]
          /\ caller' \in [Callers -> CallRow] /\ vouched' \in BOOLEAN /\ ended' \subseteq AuthCodes
      BY <1>0, <1>1, <1>2, <1>5, ConsentTypes
    <2> QED  BY <2>1 DEF ConsentTypeOK, CodeRow, PairRow, CallRow
  <1>7. ASSUME NEW p \in Pairs, LivePair(p)' PROVE LivePair(p) /\ pair[p].app \notin apps
    BY <1>1, <1>7 DEF LivePair
  <1>8. PairsFade  BY Zenon, <1>1, <1>7 DEF PairsFade
  <1>9. LiveSpared
    <2> SUFFICES ASSUME NEW p \in Pairs, LivePair(p)'
                 PROVE  pair[p].app \in consent' /\ pair[p].root \notin ended'
      BY DEF LiveSpared
    <2>1. LivePair(p) /\ pair[p].app \notin apps  BY <1>7
    <2>2. pair[p].app \in consent'  BY Zenon, <2>1 DEF ConsentInv, LivePairsAreConsented
    <2>3. pair[p].root \notin ended  BY Zenon, <2>1 DEF ConsentInv, EndedLinesStayEnded
    <2>4. ASSUME NEW q \in Pairs, pair[q].app \in apps, pair[q].root = pair[p].root PROVE FALSE
      <3>1. pair[q].app # "none"  BY Zenon, <2>4, ConsentNumbers
      <3>2. pair[q].root \in AuthCodes /\ authCode[pair[q].root].app = pair[q].app
        BY Zenon, <3>1 DEF ConsentInv, PairHasCode
      <3>3. pair[p].app # "none"
        BY Zenon, <2>4, <3>2, ConsentNumbers DEF ConsentInv, PairHasCode
      <3>4. authCode[pair[p].root].app = pair[p].app  BY Zenon, <3>3 DEF ConsentInv, PairHasCode
      <3> QED  BY <2>1, <2>4, <3>2, <3>4
    <2> QED  BY Zenon, <1>3, <2>2, <2>3, <2>4
  <1>10. EndedKnown  BY Zenon, <1>3 DEF ConsentInv, EndedDescend, EndedKnown
  <1> QED  BY <1>2, <1>6, <1>8, <1>9, <1>10, ConsentFades

\* A step that takes from the tables what the clock or an application took back.
LEMMA ConsentWanes ==
    ASSUME ConsentInv, UNCHANGED <<consent, vouched, ended>>,
           pair' \in [Pairs -> PairRow], authCode' \in [AuthCodes -> CodeRow], caller' \in [Callers -> CallRow],
           PairsFade, CodesKept, \A r \in Callers : CallKept(r)
    PROVE  ConsentInv'
  <1>1. ConsentTypeOK'
    <2>1. consent \subseteq Clients /\ vouched \in BOOLEAN /\ ended \subseteq AuthCodes
      BY ConsentTypes DEF ConsentInv
    <2> QED  BY <2>1 DEF ConsentTypeOK, CodeRow, PairRow, CallRow
  <1>2. LiveSpared
    BY Zenon DEF ConsentInv, LiveSpared, LivePairsAreConsented, EndedLinesStayEnded, PairsFade
  <1>3. EndedKnown  BY Zenon DEF ConsentInv, EndedDescend, EndedKnown
  <1> QED  BY <1>1, <1>2, <1>3, ConsentFades

LEMMA CallsStand == ASSUME ConsentInv, UNCHANGED caller PROVE \A r \in Callers : CallKept(r)
  BY Zenon DEF ConsentInv, CallHasCode, CallKept, Exchanging

LEMMA WaneSteps ==
    ASSUME ConsentInv,
           \/ \E p \in Pairs : RevokeToken(p) \/ ExpirePair(p)
           \/ \E c \in AuthCodes : ExpireCode(c)
           \/ PurgeIssued
           \/ \E r \in Callers : HandOver(r)
    PROVE  ConsentInv'
  <1>0. /\ pair \in [Pairs -> PairRow] /\ authCode \in [AuthCodes -> CodeRow] /\ caller \in [Callers -> CallRow]
    BY ConsentTypes DEF ConsentInv
  <1>1. ASSUME NEW p \in Pairs, RevokeToken(p) PROVE ConsentInv'
    <2>1. pair' = [pair EXCEPT ![p].revoked = TRUE] /\ UNCHANGED <<consent, authCode, caller, vouched, ended>>
      BY <1>1 DEF RevokeToken
    <2>2. pair' \in [Pairs -> PairRow] /\ PairsFade  BY <1>0, <2>1 DEF PairRow, PairsFade, LivePair
    <2> QED  BY <1>0, <2>1, <2>2, CallsStand, ConsentWanes DEF CodesKept
  <1>2. ASSUME NEW p \in Pairs, ExpirePair(p) PROVE ConsentInv'
    <2>1. pair' = [pair EXCEPT ![p].expired = TRUE] /\ UNCHANGED <<consent, authCode, caller, vouched, ended>>
      BY <1>2 DEF ExpirePair
    <2>2. pair' \in [Pairs -> PairRow] /\ PairsFade  BY <1>0, <2>1 DEF PairRow, PairsFade, LivePair
    <2> QED  BY <1>0, <2>1, <2>2, CallsStand, ConsentWanes DEF CodesKept
  <1>3. ASSUME NEW c \in AuthCodes, ExpireCode(c) PROVE ConsentInv'
    <2>1. authCode' = [authCode EXCEPT ![c].expired = TRUE] /\ UNCHANGED <<consent, pair, caller, vouched, ended>>
      BY <1>3 DEF ExpireCode
    <2>2. authCode' \in [AuthCodes -> CodeRow] /\ CodesKept  BY <1>0, <2>1 DEF CodeRow, CodesKept
    <2>3. PairsFade  BY <2>1 DEF PairsFade, LivePair
    <2> QED  BY <1>0, <2>1, <2>2, <2>3, CallsStand, ConsentWanes
  <1>4. CASE PurgeIssued
    <2>1. authCode' \in [AuthCodes -> CodeRow] /\ CodesKept
      BY <1>0, <1>4 DEF PurgeIssued, CodeRow, CodesKept
    <2>2. pair' \in [Pairs -> PairRow] /\ PairsFade
      BY <1>0, <1>4 DEF PurgeIssued, PairRow, PairsFade, LivePair
    <2>3. UNCHANGED <<consent, caller, vouched, ended>>  BY <1>4 DEF PurgeIssued
    <2> QED  BY <1>0, <2>1, <2>2, <2>3, CallsStand, ConsentWanes
  <1>5. ASSUME NEW r \in Callers, HandOver(r) PROVE ConsentInv'
    <2>1. UNCHANGED <<consent, authCode, vouched, ended>> /\ Ends(r)  BY <1>5 DEF HandOver
    <2>2. pair' \in [Pairs -> PairRow] /\ PairsFade
      <3>1. ASSUME NEW q, pair' = [pair EXCEPT ![q].held = TRUE]
            PROVE  pair' \in [Pairs -> PairRow] /\ PairsFade
        BY ZenonT(60), <1>0, <3>1 DEF PairRow, PairsFade, LivePair
      <3>2. CASE UNCHANGED pair  BY <1>0, <3>2 DEF PairsFade, LivePair
      <3> QED  BY Zenon, <1>5, <3>1, <3>2 DEF HandOver
    <2>3. caller' \in [Callers -> CallRow]  BY <1>0, <2>1, ConsentRows DEF Ends
    <2> QED  BY <1>0, <2>1, <2>2, <2>3, EndCall, ConsentWanes DEF CodesKept
  <1> QED  BY Zenon, <1>1, <1>2, <1>3, <1>4, <1>5

LEMMA CallSteps ==
    ASSUME ConsentInv,
           \/ \E r \in Callers, a \in Clients :
                 \/ Approve(r, a)
                 \/ \E c \in AuthCodes : ReplayCode(r, a, c)
                 \/ \E p \in Pairs : Refresh(r, a, p)
           \/ \E r \in Callers : Vouch(r)
           \/ SetVouched
    PROVE  ConsentInv'
  <1>0. /\ consent \subseteq Clients /\ vouched \in BOOLEAN /\ ended \subseteq AuthCodes
        /\ pair \in [Pairs -> PairRow] /\ authCode \in [AuthCodes -> CodeRow] /\ caller \in [Callers -> CallRow]
    BY ConsentTypes DEF ConsentInv
  <1>1. ASSUME caller' \in [Callers -> CallRow], vouched' \in BOOLEAN, consent' \subseteq Clients,
               UNCHANGED <<authCode, pair, ended>>
        PROVE  ConsentTypeOK'
    BY <1>0, <1>1 DEF ConsentTypeOK, CodeRow, PairRow, CallRow
  <1>2. ASSUME NEW r \in Callers, NEW a \in Clients, Approve(r, a) PROVE ConsentInv'
    <2>1. /\ caller' = [caller EXCEPT ![r] = Call("approved", a, 0, 0, FALSE)]
          /\ consent' = consent \cup {a} /\ UNCHANGED <<authCode, pair, vouched, ended>>
      BY <1>2 DEF Approve
    <2>2. Call("approved", a, 0, 0, FALSE) \in CallRow  BY ConsentRows, ConsentNumbers
    <2>3. caller' \in [Callers -> CallRow]  BY <1>0, <2>1, <2>2
    <2>4. ConsentTypeOK'  BY <1>0, <1>1, <2>1, <2>3
    <2>5. \A s \in Callers : CallKept(s)  BY <2>1, OneCall DEF Call
    <2> QED  BY <2>1, <2>4, <2>5, ConsentCalls
  <1>3. ASSUME NEW r \in Callers, NEW a \in Clients, NEW c \in AuthCodes, ReplayCode(r, a, c) PROVE ConsentInv'
    <2>1. /\ caller' = [caller EXCEPT ![r] = Call("replayed", a, 0, 0, FALSE)]
          /\ UNCHANGED <<consent, authCode, pair, vouched, ended>>
      BY <1>3 DEF ReplayCode
    <2>2. Call("replayed", a, 0, 0, FALSE) \in CallRow  BY ConsentRows, ConsentNumbers
    <2>3. caller' \in [Callers -> CallRow]  BY <1>0, <2>1, <2>2
    <2>4. ConsentTypeOK'  BY <1>0, <1>1, <2>1, <2>3
    <2>5. \A s \in Callers : CallKept(s)  BY <2>1, OneCall DEF Call
    <2> QED  BY <2>1, <2>4, <2>5, ConsentCalls
  <1>4. ASSUME NEW r \in Callers, NEW a \in Clients, NEW p \in Pairs, Refresh(r, a, p) PROVE ConsentInv'
    <2>1. /\ caller' = [caller EXCEPT ![r] = Call("rotating", a, 0, p, LivePair(p))]
          /\ UNCHANGED <<consent, authCode, pair, vouched, ended>>
      BY <1>4 DEF Refresh
    <2>2. LivePair(p) \in BOOLEAN  BY <1>0 DEF LivePair, PairRow
    <2>3. Call("rotating", a, 0, p, LivePair(p)) \in CallRow  BY <2>2, ConsentRows, ConsentNumbers
    <2>4. caller' \in [Callers -> CallRow]  BY <1>0, <2>1, <2>3
    <2>5. ConsentTypeOK'  BY <1>0, <1>1, <2>1, <2>4
    <2>6. \A s \in Callers : CallKept(s)  BY <2>1, OneCall DEF Call
    <2> QED  BY <2>1, <2>5, <2>6, ConsentCalls
  <1>5. ASSUME NEW r \in Callers, Vouch(r) PROVE ConsentInv'
    <2>1. UNCHANGED <<consent, authCode, pair, vouched, ended>> /\ caller[r].at = "redeemed"
      BY <1>5 DEF Vouch
    <2>2. CASE At(r, "vouched")
      <3>1. caller' \in [Callers -> CallRow]  BY <1>0, <2>2 DEF At, CallRow
      <3>2. /\ caller'[r].at = "vouched" /\ caller'[r].app = caller[r].app /\ caller'[r].code = caller[r].code
            /\ \A s \in Callers : s # r => caller'[s] = caller[s]
        BY <1>0, <2>2 DEF At, CallRow
      <3>3. \A s \in Callers : CallHasCode(s)  BY DEF ConsentInv
      <3>4. \A s \in Callers : CallKept(s)
        BY <2>1, <3>2, <3>3 DEF CallKept, CallHasCode, Exchanging
      <3> QED  BY <1>0, <1>1, <2>1, <3>1, <3>4, ConsentCalls
    <2>3. CASE Ends(r)
      <3>1. caller' \in [Callers -> CallRow]  BY <1>0, <2>3, ConsentRows DEF Ends
      <3> QED  BY <1>0, <1>1, <2>1, <2>3, <3>1, EndCall, ConsentCalls
    <2> QED  BY Zenon, <1>5, <2>2, <2>3 DEF Vouch
  <1>6. CASE SetVouched
    <2>1. vouched' \in BOOLEAN /\ UNCHANGED <<consent, authCode, pair, caller, ended>>
      BY <1>0, <1>6 DEF SetVouched
    <2> QED  BY <1>0, <1>1, <2>1, CallsStand, ConsentCalls
  <1> QED  BY Zenon, <1>2, <1>3, <1>4, <1>5, <1>6

LEMMA RevocationSteps ==
    ASSUME ConsentInv,
           (\E a \in Clients : Withdraw(a)) \/ RevokeAccount \/ \E r \in Callers : RevokeAfterReplay(r)
    PROVE  ConsentInv'
  <1>0. consent \subseteq Clients /\ caller \in [Callers -> CallRow]
    BY ConsentTypes DEF ConsentInv
  <1>1. ASSUME NEW a \in Clients, Withdraw(a) PROVE ConsentInv'
    <2>1. /\ pair' = RevokedPairs({a}) /\ ended' = EndedBy({a}) /\ authCode' = DroppedCodes({a})
          /\ consent' = consent \ {a} /\ UNCHANGED <<caller, vouched>>
      BY <1>1 DEF Withdraw
    <2>2. {a} \in SUBSET Clients /\ consent \ {a} \subseteq consent' /\ consent' \subseteq Clients
      BY <1>0, <2>1
    <2> QED  BY <1>0, <2>1, <2>2, CallsStand, RevocationStep
  <1>2. CASE RevokeAccount
    <2>1. /\ pair' = RevokedPairs(Clients) /\ ended' = EndedBy(Clients) /\ authCode' = DroppedCodes(Clients)
          /\ UNCHANGED <<consent, caller, vouched>>
      BY <1>2 DEF RevokeAccount
    <2> QED  BY <1>0, <2>1, CallsStand, RevocationStep
  <1>3. ASSUME NEW r \in Callers, RevokeAfterReplay(r) PROVE ConsentInv'
    <2>1. /\ caller[r].at = "replayed"
          /\ pair' = RevokedPairs({caller[r].app}) /\ ended' = EndedBy({caller[r].app})
          /\ Ends(r) /\ UNCHANGED <<consent, authCode, vouched>>
      BY <1>3 DEF RevokeAfterReplay
    <2>2. caller[r].app \in Clients  BY <2>1 DEF ConsentInv, CallHasCode
    <2>3. caller' \in [Callers -> CallRow]  BY <1>0, <2>1, ConsentRows DEF Ends
    <2> QED  BY <1>0, <2>1, <2>2, <2>3, EndCall, RevocationStep
  <1> QED  BY <1>1, <1>2, <1>3

\* A code that has not been spent has no pair and no exchange.
LEMMA UnspentCode ==
    ASSUME ConsentInv, NEW c \in AuthCodes, ~authCode[c].used
    PROVE  /\ \A p \in Pairs : pair[p].root # c
           /\ \A r \in Callers : Exchanging(r) => caller[r].code # c
           /\ c \notin ended
  <1>1. \A p \in Pairs : pair[p].root # c  BY Zenon, ConsentNumbers DEF ConsentInv, PairHasCode
  <1>2. \A r \in Callers : Exchanging(r) => caller[r].code # c  BY Zenon DEF ConsentInv, CallHasCode
  <1>3. c \notin ended  BY Zenon, <1>1 DEF ConsentInv, EndedDescend
  <1> QED  BY <1>1, <1>2, <1>3

\* A step of the codes leaves every pair where it is.
LEMMA CodeStep ==
    ASSUME ConsentInv, NEW c \in AuthCodes, ~authCode[c].used,
           authCode' \in [AuthCodes -> CodeRow], caller' \in [Callers -> CallRow],
           \A d \in AuthCodes : d # c => authCode'[d] = authCode[d],
           UNCHANGED <<consent, pair, vouched, ended>>,
           \A r \in Callers : CallHasCode(r)', OneExchange'
    PROVE  ConsentInv'
  <1>1. ConsentTypeOK'
    <2>1. consent \subseteq Clients /\ pair \in [Pairs -> PairRow] /\ vouched \in BOOLEAN /\ ended \subseteq AuthCodes
      BY ConsentTypes DEF ConsentInv
    <2> QED  BY <2>1 DEF ConsentTypeOK, CodeRow, PairRow, CallRow
  <1>2. LivePairsAreConsented' /\ OneLivePairPerCode' /\ EndedLinesStayEnded' /\ EndedDescend'
    BY Zenon DEF ConsentInv, LivePairsAreConsented, OneLivePairPerCode, EndedLinesStayEnded, EndedDescend, LivePair
  <1>3. ASSUME NEW p \in Pairs PROVE PairHasCode(p)'
    <2>1. PairHasCode(p) /\ pair[p].root # c  BY UnspentCode DEF ConsentInv
    <2> QED  BY <2>1 DEF PairHasCode
  <1> QED  BY Zenon, <1>1, <1>2, <1>3 DEF ConsentInv

LEMMA SaveCodeStep ==
    ASSUME ConsentInv, NEW r \in Callers, SaveCode(r)
    PROVE  ConsentInv'
  <1>0. authCode \in [AuthCodes -> CodeRow] /\ caller \in [Callers -> CallRow]
    BY ConsentTypes DEF ConsentInv
  <1>1. PICK c \in AuthCodes : /\ authCode[c] = NoAuthCode
                               /\ authCode' = [authCode EXCEPT ![c] = NewAuthCode(caller[r].app)]
    BY Zenon DEF SaveCode, NextAuthCode
  <1>2. caller[r].at = "approved" /\ Ends(r) /\ UNCHANGED <<consent, pair, vouched, ended>>  BY DEF SaveCode
  <1>3. caller[r].app \in Clients  BY <1>2 DEF ConsentInv, CallHasCode
  <1>4. NewAuthCode(caller[r].app) \in CodeRow  BY <1>3, ConsentRows
  <1>5. authCode' \in [AuthCodes -> CodeRow] /\ \A d \in AuthCodes : d # c => authCode'[d] = authCode[d]
    BY <1>0, <1>1, <1>4
  <1>6. ~authCode[c].used  BY <1>1 DEF NoAuthCode
  <1>7. caller' \in [Callers -> CallRow]  BY <1>0, <1>2, ConsentRows DEF Ends
  <1>8. \A s \in Callers : CallKept(s)  BY <1>2, EndCall
  <1>9. ASSUME NEW s \in Callers PROVE CallHasCode(s)'
    <2>1. CallKept(s) /\ CallHasCode(s)  BY <1>8 DEF ConsentInv
    <2>2. Exchanging(s) => caller[s].code # c  BY <1>6, UnspentCode
    <2>3. Exchanging(s)' =>
            /\ caller'[s].code \in AuthCodes
            /\ authCode'[caller'[s].code].used /\ authCode'[caller'[s].code].app = caller'[s].app
            /\ \A p \in Pairs : pair'[p].root # caller'[s].code
      BY <1>2, <1>5, <2>1, <2>2 DEF CallKept, CallHasCode
    <2> QED  BY Zenon, <2>1, <2>3 DEF CallKept, CallHasCode
  <1>10. OneExchange'  BY Zenon, <1>8 DEF ConsentInv, OneExchange, CallKept
  <1> QED  BY <1>2, <1>5, <1>6, <1>7, <1>9, <1>10, CodeStep

LEMMA RedeemStep ==
    ASSUME ConsentInv, NEW r \in Callers, NEW a \in Clients, NEW c \in AuthCodes, RedeemCode(r, a, c)
    PROVE  ConsentInv'
  <1>0. authCode \in [AuthCodes -> CodeRow] /\ caller \in [Callers -> CallRow]
    BY ConsentTypes DEF ConsentInv
  <1>1. /\ ~authCode[c].used /\ authCode[c].app = a
        /\ authCode' = [authCode EXCEPT ![c].used = TRUE]
        /\ caller' = [caller EXCEPT ![r] = Call("redeemed", a, c, 0, FALSE)]
        /\ UNCHANGED <<consent, pair, vouched, ended>>
    BY DEF RedeemCode, MayRedeem
  <1>2. Call("redeemed", a, c, 0, FALSE) \in CallRow  BY ConsentRows, ConsentNumbers
  <1>3. caller' \in [Callers -> CallRow]  BY <1>0, <1>1, <1>2
  <1>4. /\ authCode' \in [AuthCodes -> CodeRow] /\ \A d \in AuthCodes : d # c => authCode'[d] = authCode[d]
        /\ authCode'[c].used /\ authCode'[c].app = a
    BY <1>0, <1>1 DEF CodeRow
  <1>5. /\ caller'[r].at = "redeemed" /\ caller'[r].code = c /\ caller'[r].app = a
        /\ \A s \in Callers : s # r => caller'[s] = caller[s]
    BY <1>0, <1>1 DEF Call
  <1>6. /\ \A p \in Pairs : pair[p].root # c
        /\ \A s \in Callers : Exchanging(s) => caller[s].code # c
    BY <1>1, UnspentCode
  <1>7. CallHasCode(r)'
    BY <1>1, <1>4, <1>5, <1>6 DEF CallHasCode
  <1>8. ASSUME NEW s \in Callers, s # r PROVE CallHasCode(s)'
    <2>1. CallHasCode(s) /\ caller'[s] = caller[s] /\ (Exchanging(s) => caller[s].code # c)
      BY <1>5, <1>6, <1>8 DEF ConsentInv
    <2> QED  BY <1>1, <1>4, <2>1 DEF CallHasCode, Exchanging
  <1>9. OneExchange'
    <2> SUFFICES ASSUME NEW s \in Callers, NEW u \in Callers,
                        Exchanging(s)', Exchanging(u)', caller'[s].code = caller'[u].code
                 PROVE  s = u
      BY DEF OneExchange
    <2>1. \A x \in Callers : x # r /\ Exchanging(x)' => Exchanging(x) /\ caller'[x].code = caller[x].code
      BY Zenon, <1>5 DEF Exchanging
    <2> QED  BY Zenon, <1>5, <1>6, <2>1 DEF ConsentInv, OneExchange
  <1> QED  BY <1>1, <1>3, <1>4, <1>7, <1>8, <1>9, CodeStep

\* A pair that is saved takes a free row, with the code of its line.
Joins(p, a, c) ==
    /\ pair[p] = NoPair
    /\ pair'[p].app = a /\ pair'[p].root = c /\ pair'[p].stored
    /\ a \in Clients /\ a \in consent /\ c \in AuthCodes /\ c \notin ended
    /\ authCode[c].used /\ authCode[c].app = a

LEMMA JoinStep ==
    ASSUME ConsentInv, NEW p \in Pairs, NEW a, NEW c, Joins(p, a, c),
           pair' \in [Pairs -> PairRow], caller' \in [Callers -> CallRow],
           UNCHANGED <<consent, authCode, vouched, ended>>,
           \A q \in Pairs : q # p => /\ pair'[q].app = pair[q].app /\ pair'[q].root = pair[q].root
                                     /\ pair'[q].stored = pair[q].stored
                                     /\ LivePair(q)' => LivePair(q) /\ pair[q].root # c,
           \A r \in Callers : CallKept(r),
           \A r \in Callers : Exchanging(r)' => caller[r].code # c
    PROVE  ConsentInv'
  <1>0. /\ consent \subseteq Clients /\ vouched \in BOOLEAN /\ ended \subseteq AuthCodes
        /\ authCode \in [AuthCodes -> CodeRow]
    BY ConsentTypes DEF ConsentInv
  <1>1. ConsentTypeOK'  BY <1>0 DEF ConsentTypeOK, CodeRow, PairRow, CallRow
  <1>2. LivePairsAreConsented' /\ EndedLinesStayEnded'
    BY Zenon DEF ConsentInv, LivePairsAreConsented, EndedLinesStayEnded, Joins
  <1>3. OneLivePairPerCode'
    <2> SUFFICES ASSUME NEW q \in Pairs, NEW s \in Pairs, LivePair(q)', LivePair(s)', q # s
                 PROVE  pair'[q].root # pair'[s].root
      BY DEF OneLivePairPerCode
    <2>0. pair'[p].root = c  BY DEF Joins
    <2>1. CASE q = p  BY Zenon, <2>0, <2>1
    <2>2. CASE s = p  BY Zenon, <2>0, <2>2
    <2>3. CASE q # p /\ s # p
      <3>1. LivePair(q) /\ LivePair(s)  BY Zenon, <2>3
      <3>2. pair[q].root # pair[s].root  BY Zenon, <3>1 DEF ConsentInv, OneLivePairPerCode
      <3> QED  BY Zenon, <2>3, <3>2
    <2> QED  BY <2>1, <2>2, <2>3
  <1>4. ASSUME NEW q \in Pairs PROVE PairHasCode(q)'
    <2>1. CASE q = p  BY Zenon, <2>1, ConsentNumbers DEF PairHasCode, Joins
    <2>2. CASE q # p
      <3>1. PairHasCode(q)  BY DEF ConsentInv
      <3> QED  BY Zenon, <2>2, <3>1 DEF PairHasCode
    <2> QED  BY <2>1, <2>2
  <1>5. ASSUME NEW r \in Callers PROVE CallHasCode(r)'
    <2>1. CallHasCode(r) /\ CallKept(r)  BY DEF ConsentInv
    <2>2. Exchanging(r)' => \A q \in Pairs : pair'[q].root # caller'[r].code
      BY Zenon, <2>1 DEF CallHasCode, CallKept, Joins
    <2> QED  BY Zenon, <2>1, <2>2 DEF CallHasCode, CallKept
  <1>6. OneExchange'  BY Zenon DEF ConsentInv, OneExchange, CallKept
  <1>7. EndedDescend'
    <2> SUFFICES ASSUME NEW e \in ended PROVE \E q \in Pairs : pair'[q].root = e
      BY DEF EndedDescend
    <2>1. PICK q \in Pairs : pair[q].root = e  BY Zenon DEF ConsentInv, EndedDescend
    <2>2. pair[p].root = 0  BY DEF Joins, NoPair
    <2>3. q # p  BY <1>0, <2>1, <2>2, ConsentNumbers
    <2> QED  BY <2>1, <2>3
  <1> QED  BY Zenon, <1>1, <1>2, <1>3, <1>4, <1>5, <1>6, <1>7 DEF ConsentInv

LEMMA IssueStep ==
    ASSUME ConsentInv, NEW r \in Callers, IssuePair(r)
    PROVE  ConsentInv'
  <1> DEFINE a == caller[r].app
             c == caller[r].code
  <1>0. pair \in [Pairs -> PairRow] /\ authCode \in [AuthCodes -> CodeRow] /\ caller \in [Callers -> CallRow]
    BY ConsentTypes DEF ConsentInv
  <1>1. caller[r].at = "vouched" /\ Ends(r) /\ UNCHANGED <<consent, authCode, vouched, ended>>
    BY DEF IssuePair
  <1>2. caller' \in [Callers -> CallRow]  BY <1>0, <1>1, ConsentRows DEF Ends
  <1>3. \A s \in Callers : CallKept(s)  BY <1>1, EndCall
  <1>4. CASE UNCHANGED pair
    <2>1. PairsFade /\ CodesKept  BY <1>1, <1>4 DEF PairsFade, CodesKept, LivePair
    <2> QED  BY <1>0, <1>1, <1>2, <1>3, <1>4, <2>1, ConsentWanes
  <1>5. CASE Saves(a) /\ SavePair(a, c, TRUE)
    <2>1. PICK p \in Pairs : pair[p] = NoPair /\ pair' = [pair EXCEPT ![p] = NewPair(a, c, TRUE)]
      BY Zenon, <1>5 DEF SavePair, NextPair
    <2>2. /\ a \in Clients /\ c \in AuthCodes /\ authCode[c].used /\ authCode[c].app = a
          /\ \A q \in Pairs : pair[q].root # c
      BY <1>1 DEF ConsentInv, CallHasCode, Exchanging
    <2>3. c \notin ended  BY Zenon, <2>2 DEF ConsentInv, EndedDescend
    <2> HIDE DEF a, c
    <2>4. NewPair(a, c, TRUE) \in PairRow  BY <2>2, ConsentRows, ConsentNumbers
    <2>5. pair' \in [Pairs -> PairRow] /\ pair'[p] = NewPair(a, c, TRUE)
          /\ \A q \in Pairs : q # p => pair'[q] = pair[q]
      BY <1>0, <2>1, <2>4
    <2>6. Joins(p, a, c)  BY <1>5, <2>1, <2>2, <2>3, <2>5 DEF Joins, NewPair, Saves
    <2>7. \A q \in Pairs : q # p => (LivePair(q)' => LivePair(q) /\ pair[q].root # c)
      BY Zenon, <2>2, <2>5 DEF LivePair
    <2>8. ASSUME NEW s \in Callers, Exchanging(s)' PROVE caller[s].code # c
      <3>1. CASE s = r
        <4>1. caller'[r] = NoCall  BY <1>0, <1>1 DEF Ends
        <4> QED  BY <2>8, <3>1, <4>1 DEF Exchanging, NoCall, Call
      <3>2. CASE s # r
        <4>1. Exchanging(s) /\ Exchanging(r)  BY Zenon, <1>1, <1>3, <2>8 DEF CallKept, Exchanging
        <4> QED  BY <3>2, <4>1 DEF ConsentInv, OneExchange, c
      <3> QED  BY <3>1, <3>2
    <2> QED  BY <1>1, <1>2, <1>3, <2>5, <2>6, <2>7, <2>8, JoinStep
  <1> QED  BY Zenon, <1>4, <1>5 DEF IssuePair

LEMMA RotateStep ==
    ASSUME ConsentInv, NEW r \in Callers, Rotate(r)
    PROVE  ConsentInv'
  <1> DEFINE p == caller[r].pair
             a == pair[p].app
             c == pair[p].root
  <1>0. pair \in [Pairs -> PairRow] /\ authCode \in [AuthCodes -> CodeRow] /\ caller \in [Callers -> CallRow]
    BY ConsentTypes DEF ConsentInv
  <1>1. caller[r].at = "rotating" /\ UNCHANGED <<consent, authCode, vouched, ended>>
    BY DEF Rotate
  <1>2. p \in Pairs  BY <1>1 DEF ConsentInv, CallHasCode
  <1>3. ASSUME caller' \in [Callers -> CallRow], \A s \in Callers : CallKept(s), UNCHANGED pair PROVE ConsentInv'
    <2>1. PairsFade /\ CodesKept  BY <1>1, <1>3 DEF PairsFade, CodesKept, LivePair
    <2> QED  BY <1>0, <1>1, <1>3, <2>1, ConsentWanes
  <1>4. CASE Ends(r) /\ UNCHANGED pair
    <2>1. caller' \in [Callers -> CallRow]  BY <1>0, <1>4, ConsentRows DEF Ends
    <2> QED  BY <1>3, <1>4, <2>1, EndCall
  <1>5. CASE /\ pair[p].stored
             /\ caller' = [caller EXCEPT ![r].at = "replayed", ![r].app = a] /\ UNCHANGED pair
    <2>1. a \in Clients
      <3>1. PairHasCode(p) /\ pair[p] \in PairRow  BY <1>0, <1>2 DEF ConsentInv
      <3>2. pair[p].app # "none"  BY Zenon, <1>5, <3>1 DEF PairHasCode
      <3> QED  BY <3>1, <3>2 DEF PairRow
    <2> HIDE DEF a
    <2>2. /\ caller' \in [Callers -> CallRow]
          /\ caller'[r].at = "replayed" /\ caller'[r].app = a
          /\ \A s \in Callers : s # r => caller'[s] = caller[s]
      BY ZenonT(60), <1>0, <1>5, <2>1 DEF CallRow
    <2>3. \A s \in Callers : CallHasCode(s)  BY DEF ConsentInv
    <2>4. \A s \in Callers : CallKept(s)
      BY <2>1, <2>2, <2>3 DEF CallKept, CallHasCode, Exchanging
    <2> QED  BY <1>3, <1>5, <2>2, <2>4
  <1>6. ASSUME Rotates(r), Saves(a), NEW q \in Pairs, NextPair(q),
               pair' = [pair EXCEPT ![p].revoked = TRUE, ![q] = NewPair(a, c, FALSE)],
               caller' = [caller EXCEPT ![r].at = "rotated", ![r].pair = q]
        PROVE  ConsentInv'
    <2>1. LivePair(p) /\ a \in consent /\ pair[q] = NoPair
      BY <1>6 DEF Rotates, Saves, NextPair
    <2>2. p # q /\ pair[p].stored  BY <2>1 DEF LivePair, NoPair
    <2>3. PairHasCode(p) /\ pair[p].app # "none"
      BY Zenon, <1>2, <2>2 DEF ConsentInv, PairHasCode
    <2>4. c \in AuthCodes /\ authCode[c].used /\ authCode[c].app = a  BY Zenon, <2>3 DEF PairHasCode
    <2>5. c \notin ended  BY Zenon, <1>2, <2>1 DEF ConsentInv, EndedLinesStayEnded
    <2>6. a \in Clients  BY <2>1, ConsentTypes DEF ConsentInv
    <2>7. \A s \in Pairs : s # p /\ LivePair(s) => pair[s].root # c
      BY Zenon, <1>2, <2>1 DEF ConsentInv, OneLivePairPerCode
    <2>8. \A s \in Callers : Exchanging(s) => caller[s].code # c
      BY Zenon, <1>2 DEF ConsentInv, CallHasCode
    <2> HIDE DEF a, c, p
    <2>9. NewPair(a, c, FALSE) \in PairRow  BY <2>4, <2>6, ConsentRows, ConsentNumbers
    <2>10. /\ pair' \in [Pairs -> PairRow] /\ pair'[q] = NewPair(a, c, FALSE)
           /\ pair'[p].app = pair[p].app /\ pair'[p].root = pair[p].root /\ pair'[p].stored = pair[p].stored
           /\ pair'[p].revoked
           /\ \A s \in Pairs : s # p /\ s # q => pair'[s] = pair[s]
      BY <1>0, <1>2, <1>6, <2>2, <2>9 DEF PairRow
    <2>11. Joins(q, a, c)  BY <2>1, <2>4, <2>5, <2>6, <2>10 DEF Joins, NewPair
    <2>12. \A s \in Pairs : s # q => /\ pair'[s].app = pair[s].app /\ pair'[s].root = pair[s].root
                                     /\ pair'[s].stored = pair[s].stored
                                     /\ LivePair(s)' => LivePair(s) /\ pair[s].root # c
      BY Zenon, <2>7, <2>10 DEF LivePair
    <2>13. /\ caller' \in [Callers -> CallRow] /\ caller'[r].at = "rotated"
           /\ \A s \in Callers : s # r => caller'[s] = caller[s]
      BY ZenonT(60), <1>0, <1>6, ConsentNumbers DEF CallRow
    <2>14. \A s \in Callers : CallHasCode(s)  BY DEF ConsentInv
    <2>15. \A s \in Callers : CallKept(s)
      BY <2>13, <2>14 DEF CallKept, CallHasCode, Exchanging
    <2>16. \A s \in Callers : Exchanging(s)' => caller[s].code # c
      BY Zenon, <2>8, <2>15 DEF CallKept
    <2> QED  BY <1>1, <2>10, <2>11, <2>12, <2>13, <2>15, <2>16, JoinStep
  <1> QED  BY Zenon, <1>4, <1>5, <1>6 DEF Rotate

LEMMA ConsentStep ==
    ASSUME ConsentInv, [ConsentNext]_consentVars
    PROVE  ConsentInv'
  <1>1. CASE UNCHANGED consentVars
    <2>1. ConsentTypeOK'  BY <1>1 DEF consentVars, ConsentInv, ConsentTypeOK
    <2> QED  BY <1>1, <2>1, CallsStand, ConsentCalls DEF consentVars
  <1> QED
    BY Zenon, <1>1, WaneSteps, CallSteps, RevocationSteps, SaveCodeStep, RedeemStep, IssueStep, RotateStep
       DEF ConsentNext

\* What is issued stands on a consent that stands, one live pair descends from a
\* code, and a line that was revoked stays so: for any number of applications,
\* codes, pairs and requests.
THEOREM ConsentSound == ConsentSpec => []ConsentHolds
  <1>1. ConsentInit => ConsentInv
    <2> SUFFICES ASSUME ConsentInit PROVE ConsentInv  OBVIOUS
    <2>1. /\ authCode = [c \in AuthCodes |-> NoAuthCode] /\ pair = [p \in Pairs |-> NoPair]
          /\ caller = [r \in Callers |-> NoCall] /\ consent = {} /\ ended = {} /\ vouched = TRUE
      BY DEF ConsentInit
    <2>2. NoAuthCode \in CodeRow /\ NoPair \in PairRow /\ NoCall \in CallRow
      BY ConsentRows, ConsentNumbers DEF NoAuthCode, CodeRow, NoPair, PairRow
    <2>3. ConsentTypeOK  BY <2>1, <2>2, ConsentTypes
    <2>4. NoCall.at = "idle" /\ ~NoPair.stored /\ NoPair.app = "none" /\ NoPair.root = 0
      BY DEF NoCall, Call, NoPair
    <2>5. \A p \in Pairs : ~LivePair(p) /\ PairHasCode(p)
      BY <2>1, <2>4 DEF LivePair, PairHasCode
    <2>6. \A r \in Callers : CallHasCode(r) /\ ~Exchanging(r)
      BY <2>1, <2>4 DEF CallHasCode, Exchanging
    <2> QED
      BY <2>1, <2>3, <2>5, <2>6 DEF ConsentInv, LivePairsAreConsented, OneLivePairPerCode, EndedLinesStayEnded,
         OneExchange, EndedDescend
  <1>2. ConsentInv /\ [ConsentNext]_consentVars => ConsentInv'  BY ConsentStep
  <1>3. ConsentInv => ConsentHolds  BY DEF ConsentInv, ConsentHolds
  <1> QED  BY <1>1, <1>2, <1>3, PTL DEF ConsentSpec

(***************************************************************************)
(* Claims. A claim holds its account's row, so what it read of the account *)
(* and of the throttle still stands when it spends its use, and no second  *)
(* claim or registration of the account is under way: only the code may    *)
(* have changed, and of that the conditional spend asks again.             *)
(***************************************************************************)

ClaimRow == [at : {"spending"}, code : ClaimCodes, read : 1..LastClaimMoment, window : Throttles, to : Memberships]
ClaimsShape ==
    /\ claimMoment \in 1..LastClaimMoment
    /\ member \in [Claimants -> {NoMembership} \cup Memberships]
    /\ uses \in [ClaimCodes -> Nat] /\ revoked \subseteq ClaimCodes
    /\ usesBy \subseteq ClaimCodes \X Claimants /\ claimsBy \subseteq ClaimCodes \X Claimants
    /\ throttle \in [Claimants -> Throttles] /\ guesses \in [Claimants -> Nat]
    /\ claim \in [Tabs -> {NoClaim} \cup ClaimRow]

UnderWay(t) == claim[t] # NoClaim
\* What is granted adds to the membership m.
Adds(m, c, to) ==
    /\ m.group = CodeGroup[c] => to.until = 0 \/ to.until > m.until
    /\ CodeDaysMax[c] > 0 => to.until > 0
ClaimHasRead(t) ==
    UnderWay(t) =>
        LET u == TabOf[t]
            c == claim[t].code
            m == ResolvedAt(member[u], claim[t].read)
        IN  /\ Exists(u) /\ <<c, u>> \notin usesBy /\ <<c, u>> \notin claimsBy
            /\ ~Conflict(m, c) /\ Adds(m, c, claim[t].to)
ClaimHasWindow(t) ==
    UnderWay(t) =>
        LET w == claim[t].window
        IN  /\ w.failures < MaxClaimFailures
            /\ IF w.start = 0 THEN w.failures = 0 ELSE w = throttle[TabOf[t]]
OneClaim == \A s, t \in Tabs : UnderWay(s) /\ UnderWay(t) /\ TabOf[s] = TabOf[t] => s = t
UsersExist == \A c \in ClaimCodes, u \in Claimants : <<c, u>> \in usesBy \/ <<c, u>> \in claimsBy => Exists(u)

ClaimsInv ==
    /\ ClaimsShape /\ UsesCounted /\ GuessesCounted /\ OneClaim /\ UsersExist
    /\ \A t \in Tabs : ClaimHasRead(t) /\ ClaimHasWindow(t)

Through(S, c) == {x \in S : x[1] = c}

LEMMA ClaimConstants ==
    /\ IsFiniteSet(Claimants) /\ TabOf \in [Tabs -> Claimants]
    /\ DefaultGroup \in Groups /\ "none" \notin Groups /\ CodeGroup \in [ClaimCodes -> Groups]
    /\ CodeDays \in [ClaimCodes -> Nat] /\ CodeDaysMax \in [ClaimCodes -> Nat]
    /\ CodeMaxUses \in [ClaimCodes -> Nat] /\ CodeExpires \in [ClaimCodes -> Nat]
    /\ MaxClaimFailures \in Nat \ {0} /\ FailureWindow \in Nat \ {0} /\ LastClaimMoment \in Nat \ {0}
  BY ClaimsAssumption DEF ClaimsAssumption

\* The accounts of a code are finitely many, and no more than there are.
LEMMA ThroughBound ==
    ASSUME NEW S \in SUBSET (ClaimCodes \X Claimants), NEW c \in ClaimCodes
    PROVE  /\ IsFiniteSet(Through(S, c)) /\ Cardinality(Through(S, c)) \in Nat
           /\ Cardinality(Through(S, c)) <= Cardinality(Claimants)
  <1> DEFINE f == [x \in Through(S, c) |-> x[2]]
  <1>1. f \in [Through(S, c) -> Claimants]  BY DEF Through
  <1>2. ASSUME NEW x \in Through(S, c), NEW y \in Through(S, c), f[x] = f[y] PROVE x = y
    <2>1. x[1] = y[1] /\ x[2] = y[2]  BY <1>2 DEF Through
    <2>2. x \in ClaimCodes \X Claimants /\ y \in ClaimCodes \X Claimants  BY DEF Through
    <2> QED  BY <2>1, <2>2
  <1>3. f \in Injection(Through(S, c), Claimants)
    BY Zenon, <1>1, <1>2 DEF Injection, IsInjective
  <1> HIDE DEF f
  <1> QED  BY <1>3, ClaimConstants, FS_Injection, FS_CardinalityType

LEMMA ThroughMore ==
    ASSUME NEW S \in SUBSET (ClaimCodes \X Claimants), NEW c \in ClaimCodes, NEW u \in Claimants,
           <<c, u>> \notin S, NEW d \in ClaimCodes
    PROVE  Cardinality(Through(S \cup {<<c, u>>}, d)) =
               IF d = c THEN Cardinality(Through(S, d)) + 1 ELSE Cardinality(Through(S, d))
  <1>1. CASE d = c
    <2>1. Through(S \cup {<<c, u>>}, d) = Through(S, d) \cup {<<c, u>>} /\ <<c, u>> \notin Through(S, d)
      BY <1>1 DEF Through
    <2>2. IsFiniteSet(Through(S, d))  BY ThroughBound
    <2> DEFINE x == <<c, u>>
               A == Through(S, d)
    <2>3. x \notin A /\ IsFiniteSet(A)  BY <2>1, <2>2
    <2> HIDE DEF x, A
    <2>4. Cardinality(A \cup {x}) = Cardinality(A) + 1  BY <2>3, FS_AddElement
    <2> QED  BY <1>1, <2>1, <2>4 DEF x, A
  <1>2. CASE d # c
    <2>1. Through(S \cup {<<c, u>>}, d) = Through(S, d)  BY <1>2 DEF Through
    <2> QED  BY <1>2, <2>1
  <1> QED  BY <1>1, <1>2

LEMMA ClaimsShapeTypes ==
    ASSUME ClaimsShape, UsesCounted
    PROVE  ClaimsTypeOK
  <1>1. ASSUME NEW c \in ClaimCodes PROVE uses[c] \in 0..Cardinality(Claimants)
    <2> DEFINE A == Through(usesBy, c)
               B == Through(claimsBy, c)
    <2>1. usesBy \in SUBSET (ClaimCodes \X Claimants) /\ claimsBy \in SUBSET (ClaimCodes \X Claimants)
          /\ usesBy \cup claimsBy \in SUBSET (ClaimCodes \X Claimants)
      BY DEF ClaimsShape
    <2>2. uses[c] = Cardinality(A) + Cardinality(B)  BY DEF UsesCounted, Through
    <2>3. IsFiniteSet(A) /\ IsFiniteSet(B) /\ Cardinality(A) \in Nat /\ Cardinality(B) \in Nat
      BY <2>1, ThroughBound
    <2>4. A \cup B = Through(usesBy \cup claimsBy, c)  BY DEF Through
    <2>5. A \cap B = {}
      <3> SUFFICES ASSUME NEW x \in A, x \in B PROVE FALSE  OBVIOUS
      <3>1. x \in ClaimCodes \X Claimants /\ x[1] = c /\ x \in usesBy /\ x \in claimsBy  BY <2>1 DEF Through
      <3>2. PICK u \in Claimants : x = <<c, u>>  BY <3>1
      <3> QED  BY <3>1, <3>2 DEF UsesCounted
    <2>6. Cardinality(A \cup B) = Cardinality(A) + Cardinality(B)
      <3> HIDE DEF A, B
      <3> QED  BY <2>3, <2>5, FS_Union, FS_EmptySet
    <2>7. Cardinality(A \cup B) <= Cardinality(Claimants)  BY <2>1, <2>4, ThroughBound
    <2>8. Cardinality(Claimants) \in Nat  BY ClaimConstants, FS_CardinalityType
    <2> HIDE DEF A, B
    <2> QED  BY <2>2, <2>3, <2>6, <2>7, <2>8
  <1>2. uses \in [ClaimCodes -> 0..Cardinality(Claimants)]  BY <1>1 DEF ClaimsShape
  <1> QED  BY <1>2 DEF ClaimsShape, ClaimsTypeOK, ClaimRow

\* The rows the steps write have their types.
LEMMA ClaimRows ==
    /\ NoMembership \notin Memberships /\ NoThrottle \in Throttles
    /\ \A g \in Groups, until \in Nat : Member(g, until) \in Memberships
    /\ \A s \in 0..LastClaimMoment, n \in 0..MaxClaimFailures : Failures(s, n) \in Throttles
    /\ \A c \in ClaimCodes, at \in 1..LastClaimMoment, w \in Throttles, m \in Memberships :
          Underway(c, at, w, m) \in ClaimRow
    /\ NoClaim \notin ClaimRow
  <1>1. NoMembership \notin Memberships  BY ClaimConstants DEF NoMembership, Member, Memberships
  <1>2. NoThrottle \in Throttles  BY ClaimConstants DEF NoThrottle, Failures, Throttles
  <1>3. \A g \in Groups, until \in Nat : Member(g, until) \in Memberships  BY DEF Member, Memberships
  <1>4. \A s \in 0..LastClaimMoment, n \in 0..MaxClaimFailures : Failures(s, n) \in Throttles
    BY DEF Failures, Throttles
  <1>5. \A c \in ClaimCodes, at \in 1..LastClaimMoment, w \in Throttles, m \in Memberships :
          Underway(c, at, w, m) \in ClaimRow
    BY DEF Underway, ClaimRow
  <1>6. NoClaim \notin ClaimRow  BY DEF NoClaim, ClaimRow
  <1> QED  BY <1>1, <1>2, <1>3, <1>4, <1>5, <1>6

\* The counts follow one more account of a code, on one of its two lists.
LEMMA OneMoreUse ==
    ASSUME ClaimsInv, NEW c \in ClaimCodes, NEW u \in Claimants, NEW at,
           <<c, u>> \notin usesBy, <<c, u>> \notin claimsBy, Spendable(c, at),
           uses' = [uses EXCEPT ![c] = @ + 1],
           \/ usesBy' = usesBy \cup {<<c, u>>} /\ UNCHANGED claimsBy
           \/ claimsBy' = claimsBy \cup {<<c, u>>} /\ UNCHANGED usesBy
    PROVE  UsesCounted'
  <1>0. /\ uses \in [ClaimCodes -> Nat]
        /\ usesBy \in SUBSET (ClaimCodes \X Claimants) /\ claimsBy \in SUBSET (ClaimCodes \X Claimants)
    BY DEF ClaimsInv, ClaimsShape
  <1> SUFFICES ASSUME NEW d \in ClaimCodes
               PROVE  /\ uses'[d] = Cardinality(Through(usesBy', d)) + Cardinality(Through(claimsBy', d))
                      /\ CodeMaxUses[d] > 0 => uses'[d] <= CodeMaxUses[d]
                      /\ \A v \in Claimants : ~(<<d, v>> \in usesBy' /\ <<d, v>> \in claimsBy')
    BY DEF UsesCounted, Through
  <1>1. /\ uses[d] = Cardinality(Through(usesBy, d)) + Cardinality(Through(claimsBy, d))
        /\ CodeMaxUses[d] > 0 => uses[d] <= CodeMaxUses[d]
        /\ \A v \in Claimants : ~(<<d, v>> \in usesBy /\ <<d, v>> \in claimsBy)
    BY DEF ClaimsInv, UsesCounted, Through
  <1>2. uses'[d] = IF d = c THEN uses[d] + 1 ELSE uses[d]  BY <1>0
  <1>3. Cardinality(Through(usesBy, d)) \in Nat /\ Cardinality(Through(claimsBy, d)) \in Nat
    BY <1>0, ThroughBound
  <1>4. /\ Cardinality(Through(usesBy \cup {<<c, u>>}, d)) =
              IF d = c THEN Cardinality(Through(usesBy, d)) + 1 ELSE Cardinality(Through(usesBy, d))
        /\ Cardinality(Through(claimsBy \cup {<<c, u>>}, d)) =
              IF d = c THEN Cardinality(Through(claimsBy, d)) + 1 ELSE Cardinality(Through(claimsBy, d))
    BY <1>0, ThroughMore
  <1>5. uses'[d] = Cardinality(Through(usesBy', d)) + Cardinality(Through(claimsBy', d))
    <2>1. CASE usesBy' = usesBy \cup {<<c, u>>} /\ UNCHANGED claimsBy  BY <1>1, <1>2, <1>3, <1>4, <2>1
    <2>2. CASE claimsBy' = claimsBy \cup {<<c, u>>} /\ UNCHANGED usesBy  BY <1>1, <1>2, <1>3, <1>4, <2>2
    <2> QED  BY <2>1, <2>2
  <1>6. CodeMaxUses[d] > 0 => uses'[d] <= CodeMaxUses[d]
    BY <1>0, <1>1, <1>2, ClaimConstants DEF Spendable
  <1>7. ASSUME NEW v \in Claimants PROVE ~(<<d, v>> \in usesBy' /\ <<d, v>> \in claimsBy')
    <2>1. CASE <<d, v>> = <<c, u>>
      <3>1. <<d, v>> \notin usesBy /\ <<d, v>> \notin claimsBy  BY Zenon, <2>1
      <3> QED  BY Zenon, <3>1
    <2>2. CASE <<d, v>> # <<c, u>>
      <3>1. ~(<<d, v>> \in usesBy /\ <<d, v>> \in claimsBy)  BY <1>1
      <3>2. (<<d, v>> \in usesBy' => <<d, v>> \in usesBy) /\ (<<d, v>> \in claimsBy' => <<d, v>> \in claimsBy)
        BY <2>2
      <3> QED  BY <3>1, <3>2
    <2> QED  BY <2>1, <2>2
  <1> QED  BY <1>5, <1>6, <1>7

\* What a claim under way relies on, left alone.
LEMMA ClaimGoesOn ==
    ASSUME ClaimsInv, NEW t \in Tabs, claim'[t] = claim[t],
           UnderWay(t) => /\ member'[TabOf[t]] = member[TabOf[t]] /\ throttle'[TabOf[t]] = throttle[TabOf[t]]
                          /\ \A c \in ClaimCodes :
                                /\ <<c, TabOf[t]>> \in usesBy' => <<c, TabOf[t]>> \in usesBy
                                /\ <<c, TabOf[t]>> \in claimsBy' => <<c, TabOf[t]>> \in claimsBy
    PROVE  (ClaimHasRead(t) /\ ClaimHasWindow(t))'
  <1>1. ClaimHasRead(t) /\ ClaimHasWindow(t)  BY DEF ClaimsInv
  <1>2. UnderWay(t)' <=> UnderWay(t)  BY DEF UnderWay
  <1>3. UnderWay(t) => claim[t].code \in ClaimCodes
    BY DEF UnderWay, ClaimsInv, ClaimsShape, ClaimRow
  <1>4. ClaimHasRead(t)'
    BY <1>1, <1>2, <1>3 DEF ClaimHasRead, Exists, ResolvedAt, Conflict, Adds
  <1>5. ClaimHasWindow(t)'  BY <1>1, <1>2 DEF ClaimHasWindow
  <1> QED  BY <1>4, <1>5

LEMMA ClaimEnded ==
    ASSUME NEW t, claim'[t] = NoClaim
    PROVE  (ClaimHasRead(t) /\ ClaimHasWindow(t))'
  BY DEF ClaimHasRead, ClaimHasWindow, UnderWay

\* A write of one account's membership, which no claim holds.
LEMMA MembershipStep ==
    ASSUME ClaimsInv, NEW u \in Claimants, NEW m \in Memberships, ~Claiming(u),
           member' = [member EXCEPT ![u] = m],
           UNCHANGED <<claimMoment, uses, revoked, usesBy, claimsBy, throttle, guesses, claim>>
    PROVE  ClaimsInv'
  <1>0. member \in [Claimants -> {NoMembership} \cup Memberships]  BY DEF ClaimsInv, ClaimsShape
  <1>1. ClaimsShape'
    <2>1. member' \in [Claimants -> {NoMembership} \cup Memberships]  BY <1>0
    <2> QED  BY Zenon, <2>1 DEF ClaimsInv, ClaimsShape
  <1>2. UsesCounted' /\ GuessesCounted' /\ OneClaim'
    BY Zenon DEF ClaimsInv, UsesCounted, GuessesCounted, OneClaim, UnderWay
  <1>3. UsersExist'
    <2> SUFFICES ASSUME NEW c \in ClaimCodes, NEW v \in Claimants, <<c, v>> \in usesBy \/ <<c, v>> \in claimsBy
                 PROVE  member'[v] # NoMembership
      BY DEF UsersExist, Exists
    <2>1. member[v] # NoMembership  BY DEF ClaimsInv, UsersExist, Exists
    <2>2. m # NoMembership  BY ClaimRows
    <2> QED  BY <1>0, <2>1, <2>2
  <1>4. ASSUME NEW t \in Tabs PROVE (ClaimHasRead(t) /\ ClaimHasWindow(t))'
    <2>1. UnderWay(t) => TabOf[t] # u  BY DEF UnderWay, Claiming
    <2>2. TabOf[t] \in Claimants  BY ClaimConstants
    <2>3. UnderWay(t) => member'[TabOf[t]] = member[TabOf[t]]  BY <1>0, <2>1, <2>2
    <2> QED  BY <2>3, ClaimGoesOn
  <1> QED  BY <1>1, <1>2, <1>3, <1>4 DEF ClaimsInv

LEMMA JoinGroupStep == ASSUME ClaimsInv, NEW u \in Claimants, JoinGroup(u) PROVE ClaimsInv'
  <1>1. ~Claiming(u)
    BY DEF ClaimsInv, ClaimHasRead, UnderWay, Claiming, JoinGroup
  <1>2. Member(DefaultGroup, 0) \in Memberships  BY ClaimRows, ClaimConstants
  <1> QED  BY <1>1, <1>2, MembershipStep DEF JoinGroup

LEMMA SetGroupStep == ASSUME ClaimsInv, NEW u \in Claimants, NEW g \in Groups, SetGroup(u, g) PROVE ClaimsInv'
  <1>1. Member(g, 0) \in Memberships  BY ClaimRows
  <1> QED  BY <1>1, MembershipStep DEF SetGroup

\* A membership that has run out is one, and leaves one of the default group.
LEMMA ResolvedMember ==
    ASSUME ClaimsInv, NEW u \in Claimants, NEW at \in Nat
    PROVE  /\ ResolvedAt(member[u], at) # member[u] => ResolvedAt(member[u], at) \in Memberships
           /\ Exists(u) => ResolvedAt(member[u], at) \in Memberships
  <1>1. member[u] \in {NoMembership} \cup Memberships  BY DEF ClaimsInv, ClaimsShape
  <1>2. Member(DefaultGroup, 0) \in Memberships  BY ClaimRows, ClaimConstants
  <1> QED  BY <1>1, <1>2 DEF ResolvedAt, Exists

LEMMA ExpireMembershipStep == ASSUME ClaimsInv, NEW u \in Claimants, ExpireMembership(u) PROVE ClaimsInv'
  <1>1. claimMoment \in Nat  BY DEF ClaimsInv, ClaimsShape
  <1>2. Resolved(member[u]) \in Memberships  BY <1>1, ResolvedMember DEF ExpireMembership, Resolved
  <1> QED  BY <1>2, MembershipStep DEF ExpireMembership

\* What a code grants has an end where its days have.
LEMMA DrawsUntil ==
    ASSUME NEW c \in ClaimCodes, NEW days \in Draws(c), NEW from \in Nat
    PROVE  /\ Until(from, days) \in Nat
           /\ CodeDaysMax[c] > 0 => Until(from, days) > 0
           /\ Until(from, days) = 0 \/ Until(from, days) > from
  BY ClaimConstants DEF Draws, Until

LEMMA ConsumeStep ==
    ASSUME ClaimsInv, NEW u \in Claimants, NEW c \in ClaimCodes, Consume(u, c)
    PROVE  ClaimsInv'
  <1>0. /\ member \in [Claimants -> {NoMembership} \cup Memberships] /\ claimMoment \in Nat
        /\ uses \in [ClaimCodes -> Nat] /\ usesBy \subseteq ClaimCodes \X Claimants
    BY DEF ClaimsInv, ClaimsShape
  <1>1. PICK days \in Draws(c) : member' = [member EXCEPT ![u] = Member(CodeGroup[c], Until(claimMoment, days))]
    BY DEF Consume
  <1> DEFINE m == Member(CodeGroup[c], Until(claimMoment, days))
  <1>2. m \in Memberships  BY <1>0, DrawsUntil, ClaimRows, ClaimConstants
  <1>3. /\ member'[u] = m /\ \A v \in Claimants : v # u => member'[v] = member[v]
        /\ member' \in [Claimants -> {NoMembership} \cup Memberships]
    BY <1>0, <1>1, <1>2
  <1> HIDE DEF m
  <1>4. /\ uses' = [uses EXCEPT ![c] = @ + 1] /\ usesBy' = usesBy \cup {<<c, u>>}
        /\ Spendable(c, claimMoment) /\ ~Exists(u)
        /\ UNCHANGED <<claimMoment, revoked, claimsBy, throttle, guesses, claim>>
    BY DEF Consume
  <1>5. <<c, u>> \notin usesBy /\ <<c, u>> \notin claimsBy  BY <1>4 DEF ClaimsInv, UsersExist
  <1>6. ClaimsShape'
    <2>1. uses' \in [ClaimCodes -> Nat] /\ usesBy' \subseteq ClaimCodes \X Claimants  BY <1>0, <1>4
    <2> QED  BY Zenon, <1>3, <1>4, <2>1 DEF ClaimsInv, ClaimsShape
  <1>7. UsesCounted'  BY <1>4, <1>5, OneMoreUse
  <1>8. GuessesCounted' /\ OneClaim'
    BY Zenon, <1>4 DEF ClaimsInv, GuessesCounted, OneClaim, UnderWay
  <1>9. UsersExist'
    <2> SUFFICES ASSUME NEW d \in ClaimCodes, NEW v \in Claimants, <<d, v>> \in usesBy' \/ <<d, v>> \in claimsBy'
                 PROVE  member'[v] # NoMembership
      BY DEF UsersExist, Exists
    <2>1. CASE v = u  BY <1>2, <1>3, <2>1, ClaimRows
    <2>2. CASE v # u
      <3>1. <<d, v>> \in usesBy \/ <<d, v>> \in claimsBy  BY <1>4, <2>2
      <3>2. member[v] # NoMembership  BY <3>1 DEF ClaimsInv, UsersExist, Exists
      <3> QED  BY <1>3, <2>2, <3>2
    <2> QED  BY <2>1, <2>2
  <1>10. ASSUME NEW t \in Tabs PROVE (ClaimHasRead(t) /\ ClaimHasWindow(t))'
    <2>1. UnderWay(t) => TabOf[t] # u  BY <1>4 DEF ClaimsInv, ClaimHasRead
    <2>2. TabOf[t] \in Claimants  BY ClaimConstants
    <2>3. UnderWay(t) => member'[TabOf[t]] = member[TabOf[t]]  BY <1>3, <2>1, <2>2
    <2>4. UnderWay(t) => \A d \in ClaimCodes : <<d, TabOf[t]>> \in usesBy' => <<d, TabOf[t]>> \in usesBy
      BY <1>4, <2>1
    <2> QED  BY <1>4, <2>3, <2>4, ClaimGoesOn
  <1> QED  BY <1>6, <1>7, <1>8, <1>9, <1>10 DEF ClaimsInv

\* A failed guess is counted in a window that is the account's or none, and not full.
LEMMA GuessCounted ==
    ASSUME ClaimsInv, NEW u \in Claimants, NEW w \in Throttles, UseCounted(u, w),
           w.failures < MaxClaimFailures, IF w.start = 0 THEN w.failures = 0 ELSE w = throttle[u]
    PROVE  /\ throttle' \in [Claimants -> Throttles] /\ guesses' \in [Claimants -> Nat]
           /\ GuessesCounted'
           /\ \A v \in Claimants : v # u => throttle'[v] = throttle[v]
  <1> DEFINE row == Failures(IF w.start = 0 THEN claimMoment ELSE w.start, w.failures + 1)
  <1>0. /\ throttle \in [Claimants -> Throttles] /\ guesses \in [Claimants -> Nat]
        /\ claimMoment \in 1..LastClaimMoment
    BY DEF ClaimsInv, ClaimsShape
  <1>1. w.start \in 0..LastClaimMoment /\ w.failures \in 0..MaxClaimFailures  BY DEF Throttles
  <1>2. row \in Throttles /\ row.failures = w.failures + 1
    <2>1. w.failures + 1 \in 0..MaxClaimFailures /\ claimMoment \in 0..LastClaimMoment
      BY <1>0, <1>1, ClaimConstants
    <2>2. row \in Throttles  BY <1>1, <2>1, ClaimRows
    <2> QED  BY <2>2 DEF Failures
  <1> HIDE DEF row
  <1>3. /\ throttle' = [throttle EXCEPT ![u] = row]
        /\ guesses' = [guesses EXCEPT ![u] = IF w.start = 0 THEN 1 ELSE @ + 1]
    BY DEF UseCounted, row
  <1>4. throttle' \in [Claimants -> Throttles] /\ guesses' \in [Claimants -> Nat]  BY <1>0, <1>2, <1>3
  <1>5. ASSUME NEW v \in Claimants
        PROVE  throttle'[v].failures = guesses'[v] /\ guesses'[v] <= MaxClaimFailures
    <2>1. throttle[v].failures = guesses[v] /\ guesses[v] <= MaxClaimFailures
      BY DEF ClaimsInv, GuessesCounted
    <2>2. CASE v = u
      <3>1. throttle'[v].failures = w.failures + 1  BY <1>0, <1>2, <1>3, <2>2
      <3>2. guesses'[v] = IF w.start = 0 THEN 1 ELSE guesses[v] + 1  BY <1>0, <1>3, <2>2
      <3>3. w.failures = IF w.start = 0 THEN 0 ELSE guesses[v]  BY <2>1, <2>2
      <3> QED  BY <1>0, <1>1, <3>1, <3>2, <3>3, ClaimConstants
    <2>3. CASE v # u  BY <1>0, <1>3, <2>1, <2>3
    <2> QED  BY <2>2, <2>3
  <1> QED  BY <1>0, <1>3, <1>4, <1>5 DEF GuessesCounted

LEMMA WindowHolds ==
    ASSUME ClaimsInv, NEW u \in Claimants
    PROVE  /\ Window(u) \in Throttles
           /\ IF Window(u).start = 0 THEN Window(u).failures = 0 ELSE Window(u) = throttle[u]
  <1>1. throttle \in [Claimants -> Throttles]  BY DEF ClaimsInv, ClaimsShape
  <1>2. NoThrottle.start = 0 /\ NoThrottle.failures = 0 /\ NoThrottle \in Throttles
    BY ClaimRows DEF NoThrottle, Failures
  <1> QED  BY <1>1, <1>2 DEF Window

LEMMA GuessStep == ASSUME ClaimsInv, NEW t \in Tabs, Guess(t) PROVE ClaimsInv'
  <1> DEFINE u == TabOf[t]
  <1>0. u \in Claimants  BY ClaimConstants
  <1>1. /\ UseCounted(u, Window(u)) /\ Window(u).failures < MaxClaimFailures /\ ~Claiming(u)
        /\ UNCHANGED <<claimMoment, member, uses, revoked, usesBy, claimsBy, claim>>
    BY DEF Guess, Lockable
  <1>2. /\ throttle' \in [Claimants -> Throttles] /\ guesses' \in [Claimants -> Nat] /\ GuessesCounted'
        /\ \A v \in Claimants : v # u => throttle'[v] = throttle[v]
    <2> HIDE DEF u
    <2>1. /\ Window(u) \in Throttles
          /\ IF Window(u).start = 0 THEN Window(u).failures = 0 ELSE Window(u) = throttle[u]
      BY <1>0, WindowHolds
    <2> DEFINE w == Window(u)
    <2>2. UseCounted(u, w) /\ w.failures < MaxClaimFailures  BY <1>1
    <2> HIDE DEF w
    <2> QED  BY <1>0, <2>1, <2>2, GuessCounted DEF w
  <1>3. ClaimsShape'  BY Zenon, <1>1, <1>2 DEF ClaimsInv, ClaimsShape
  <1>4. UsesCounted' /\ OneClaim' /\ UsersExist'
    BY Zenon, <1>1 DEF ClaimsInv, UsesCounted, OneClaim, UnderWay, UsersExist, Exists
  <1>5. ASSUME NEW s \in Tabs PROVE (ClaimHasRead(s) /\ ClaimHasWindow(s))'
    <2>1. UnderWay(s) => TabOf[s] # u  BY <1>1 DEF UnderWay, Claiming
    <2>2. TabOf[s] \in Claimants  BY ClaimConstants
    <2> HIDE DEF u
    <2> QED  BY <1>1, <1>2, <2>1, <2>2, ClaimGoesOn
  <1> QED  BY <1>1, <1>2, <1>3, <1>4, <1>5 DEF ClaimsInv

\* What a claim that goes on is to grant adds to what the account has.
LEMMA GrantedAdds ==
    ASSUME NEW c \in ClaimCodes, NEW m \in Memberships, NEW days \in Draws(c), claimMoment \in Nat
    PROVE  Granted(m, c, days) \in Memberships /\ (~Conflict(m, c) => Adds(m, c, Granted(m, c, days)))
  <1> DEFINE from == IF m.group = CodeGroup[c] /\ m.until > claimMoment THEN m.until ELSE claimMoment
             to == Granted(m, c, days)
  <1>1. m.group \in Groups /\ m.until \in Nat /\ from \in Nat  BY DEF Memberships
  <1>2. to.group = CodeGroup[c] /\ to.until = Until(from, days)  BY DEF Granted, Member
  <1>3. to = Member(CodeGroup[c], Until(from, days))  BY DEF Granted
  <1>4. m.group = CodeGroup[c] => m.until <= from  BY <1>1
  <1> HIDE DEF from, to
  <1>5. /\ Until(from, days) \in Nat
        /\ CodeDaysMax[c] > 0 => Until(from, days) > 0
        /\ Until(from, days) = 0 \/ Until(from, days) > from
    BY <1>1, DrawsUntil
  <1>6. to \in Memberships  BY <1>3, <1>5, ClaimRows, ClaimConstants
  <1>7. Adds(m, c, to)  BY <1>1, <1>2, <1>4, <1>5 DEF Adds
  <1> QED  BY <1>6, <1>7 DEF to

LEMMA ClaimStep ==
    ASSUME ClaimsInv, NEW t \in Tabs, NEW c \in ClaimCodes, Claim(t, c)
    PROVE  ClaimsInv'
  <1> DEFINE u == TabOf[t]
             m == Resolved(member[u])
  <1>0. /\ u \in Claimants /\ claimMoment \in 1..LastClaimMoment /\ claimMoment \in Nat
        /\ claim \in [Tabs -> {NoClaim} \cup ClaimRow]
    BY ClaimConstants DEF ClaimsInv, ClaimsShape
  <1>1. Exists(u) /\ ~Claiming(u) /\ Window(u).failures < MaxClaimFailures  BY DEF Claim, Lockable
  <1>2. m \in Memberships  BY <1>0, <1>1, ResolvedMember DEF Resolved
  <1>3. UNCHANGED <<claimMoment, uses, revoked, usesBy, claimsBy, throttle, guesses>>  BY DEF Claim
  <1>4. CASE m # member[u] /\ member' = [member EXCEPT ![u] = m] /\ UNCHANGED claim
    <2> HIDE DEF u, m
    <2> QED  BY <1>0, <1>1, <1>2, <1>3, <1>4, MembershipStep
  <1>5. ASSUME ~SpentBy(c, u), ~Conflict(m, c), UNCHANGED member, NEW days \in Draws(c),
               claim' = [claim EXCEPT ![t] = Underway(c, claimMoment, Window(u), Granted(m, c, days))]
        PROVE  ClaimsInv'
    <2> DEFINE to == Granted(m, c, days)
               w == Window(u)
    <2>1. to \in Memberships /\ Adds(m, c, to)
      <3> HIDE DEF m
      <3> QED  BY <1>0, <1>2, <1>5, GrantedAdds
    <2>2. w \in Throttles /\ IF w.start = 0 THEN w.failures = 0 ELSE w = throttle[u]
      <3> HIDE DEF u
      <3> QED  BY <1>0, WindowHolds
    <2>3. <<c, u>> \notin usesBy /\ <<c, u>> \notin claimsBy  BY <1>5 DEF SpentBy
    <2>4. m = ResolvedAt(member'[u], claimMoment)  BY <1>5 DEF Resolved
    <2>5. claim' = [claim EXCEPT ![t] = Underway(c, claimMoment, w, to)]  BY <1>5
    <2>6. Underway(c, claimMoment, w, to) \in ClaimRow  BY <1>0, <2>1, <2>2, ClaimRows
    <2>7. claim' \in [Tabs -> {NoClaim} \cup ClaimRow]  BY <1>0, <2>5, <2>6
    <2>8. /\ claim'[t] = Underway(c, claimMoment, w, to) /\ \A s \in Tabs : s # t => claim'[s] = claim[s]
          /\ claim'[t] # NoClaim
      BY <1>0, <2>5, <2>6, ClaimRows
    <2>9. claim'[t].code = c /\ claim'[t].read = claimMoment /\ claim'[t].window = w /\ claim'[t].to = to
      BY <2>8 DEF Underway
    <2>10. Exists(u)'  BY <1>1, <1>5 DEF Exists
    <2>11. \A s \in Tabs : s # t /\ UnderWay(s) => TabOf[s] # u  BY <1>1 DEF Claiming, UnderWay
    <2>12. w.failures < MaxClaimFailures  BY <1>1
    <2> HIDE DEF m, to, w
    <2>13. ClaimsShape'  BY Zenon, <1>3, <1>5, <2>7 DEF ClaimsInv, ClaimsShape
    <2>14. UsesCounted' /\ GuessesCounted' /\ UsersExist'
      BY Zenon, <1>3, <1>5 DEF ClaimsInv, UsesCounted, GuessesCounted, UsersExist, Exists
    <2>15. OneClaim'
      <3> SUFFICES ASSUME NEW r \in Tabs, NEW s \in Tabs, UnderWay(r)', UnderWay(s)', TabOf[r] = TabOf[s], r # s
                   PROVE  FALSE
        BY DEF OneClaim
      <3>1. CASE r = t
        <4>1. UnderWay(s)  BY Zenon, <2>8, <3>1 DEF UnderWay
        <4> QED  BY <2>11, <3>1, <4>1
      <3>2. CASE s = t
        <4>1. UnderWay(r)  BY Zenon, <2>8, <3>2 DEF UnderWay
        <4> QED  BY <2>11, <3>2, <4>1
      <3>3. CASE r # t /\ s # t
        <4>1. UnderWay(r) /\ UnderWay(s)  BY Zenon, <2>8, <3>3 DEF UnderWay
        <4> QED  BY Zenon, <4>1 DEF ClaimsInv, OneClaim
      <3> QED  BY <3>1, <3>2, <3>3
    <2>16. ASSUME NEW s \in Tabs PROVE (ClaimHasRead(s) /\ ClaimHasWindow(s))'
      <3>1. CASE s = t
        <4>1. ClaimHasRead(t)'
          BY <1>3, <1>5, <2>1, <2>3, <2>4, <2>9, <2>10 DEF ClaimHasRead, Conflict
        <4>2. ClaimHasWindow(t)'  BY <1>3, <2>2, <2>9, <2>12 DEF ClaimHasWindow
        <4> QED  BY <3>1, <4>1, <4>2
      <3>2. CASE s # t
        <4>1. claim'[s] = claim[s]  BY <2>8, <3>2
        <4> QED  BY <1>3, <1>5, <4>1, ClaimGoesOn
      <3> QED  BY <3>1, <3>2
    <2> QED  BY <2>13, <2>14, <2>15, <2>16 DEF ClaimsInv
  <1>6. CASE ~SpentBy(c, u) /\ ~Conflict(m, c)  BY Zenon, <1>5, <1>6 DEF Claim
  <1>7. CASE ~(~SpentBy(c, u) /\ ~Conflict(m, c))  BY Zenon, <1>4, <1>7 DEF Claim
  <1> QED  BY <1>6, <1>7

\* A claim that ends, and what of its account and its code it leaves behind.
LEMMA ClaimEnds ==
    ASSUME ClaimsInv, NEW t \in Tabs, UnderWay(t), claim' = [claim EXCEPT ![t] = NoClaim],
           ClaimsShape', UsesCounted', GuessesCounted', UsersExist',
           \A v \in Claimants : v # TabOf[t] =>
               /\ member'[v] = member[v] /\ throttle'[v] = throttle[v]
               /\ \A c \in ClaimCodes : /\ <<c, v>> \in usesBy' => <<c, v>> \in usesBy
                                        /\ <<c, v>> \in claimsBy' => <<c, v>> \in claimsBy
    PROVE  ClaimsInv'
  <1>0. claim \in [Tabs -> {NoClaim} \cup ClaimRow]  BY DEF ClaimsInv, ClaimsShape
  <1>1. claim'[t] = NoClaim /\ \A s \in Tabs : s # t => claim'[s] = claim[s]  BY <1>0
  <1>2. OneClaim'
    BY Zenon, <1>1 DEF ClaimsInv, OneClaim, UnderWay
  <1>3. ASSUME NEW s \in Tabs PROVE (ClaimHasRead(s) /\ ClaimHasWindow(s))'
    <2>1. CASE s = t  BY <1>1, <2>1, ClaimEnded
    <2>2. CASE s # t
      <3>1. UnderWay(s) => TabOf[s] # TabOf[t]  BY Zenon, <2>2 DEF ClaimsInv, OneClaim
      <3>2. TabOf[s] \in Claimants  BY ClaimConstants
      <3> DEFINE v == TabOf[s]
      <3>3. UnderWay(s) => /\ member'[v] = member[v] /\ throttle'[v] = throttle[v]
                           /\ \A c \in ClaimCodes : /\ <<c, v>> \in usesBy' => <<c, v>> \in usesBy
                                                    /\ <<c, v>> \in claimsBy' => <<c, v>> \in claimsBy
        BY Zenon, <3>1, <3>2
      <3> QED  BY Zenon, <1>1, <2>2, <3>3, ClaimGoesOn
    <2> QED  BY <2>1, <2>2
  <1> QED  BY <1>2, <1>3 DEF ClaimsInv

LEMMA ClaimOnFile ==
    ASSUME ClaimsInv, NEW t \in Tabs, UnderWay(t)
    PROVE  /\ claim[t] \in ClaimRow /\ TabOf[t] \in Claimants
           /\ claim[t].code \in ClaimCodes /\ claim[t].to \in Memberships /\ claim[t].window \in Throttles
  <1>1. claim[t] \in {NoClaim} \cup ClaimRow  BY DEF ClaimsInv, ClaimsShape
  <1> QED  BY <1>1, ClaimConstants DEF UnderWay, ClaimRow

LEMMA SpendStep == ASSUME ClaimsInv, NEW t \in Tabs, Spend(t) PROVE ClaimsInv'
  <1> DEFINE u == TabOf[t]
             c == claim[t].code
             to == claim[t].to
  <1>0. /\ member \in [Claimants -> {NoMembership} \cup Memberships] /\ uses \in [ClaimCodes -> Nat]
        /\ throttle \in [Claimants -> Throttles] /\ guesses \in [Claimants -> Nat]
        /\ claimsBy \subseteq ClaimCodes \X Claimants /\ claim \in [Tabs -> {NoClaim} \cup ClaimRow]
    BY DEF ClaimsInv, ClaimsShape
  <1>1. UnderWay(t)  BY DEF Spend, UnderWay
  <1>2. u \in Claimants /\ c \in ClaimCodes /\ to \in Memberships  BY <1>1, ClaimOnFile
  <1>3. <<c, u>> \notin usesBy /\ <<c, u>> \notin claimsBy
    BY <1>1 DEF ClaimsInv, ClaimHasRead
  <1>4. /\ Spendable(c, claim[t].read)
        /\ uses' = [uses EXCEPT ![c] = @ + 1] /\ claimsBy' = claimsBy \cup {<<c, u>>}
        /\ member' = [member EXCEPT ![u] = to]
        /\ throttle' = [throttle EXCEPT ![u] = NoThrottle] /\ guesses' = [guesses EXCEPT ![u] = 0]
        /\ claim' = [claim EXCEPT ![t] = NoClaim]
        /\ UNCHANGED <<claimMoment, revoked, usesBy>>
    BY Zenon, <1>3 DEF Spend
  <1> HIDE DEF u, c, to
  <1>5. ClaimsShape'
    <2>1. /\ uses' \in [ClaimCodes -> Nat] /\ claimsBy' \subseteq ClaimCodes \X Claimants
          /\ member' \in [Claimants -> {NoMembership} \cup Memberships]
          /\ throttle' \in [Claimants -> Throttles] /\ guesses' \in [Claimants -> Nat]
      BY <1>0, <1>2, <1>4, ClaimRows
    <2>2. claim' \in [Tabs -> {NoClaim} \cup ClaimRow]  BY <1>0, <1>4
    <2> QED  BY Zenon, <1>4, <2>1, <2>2 DEF ClaimsInv, ClaimsShape
  <1>6. UsesCounted'  BY <1>2, <1>3, <1>4, OneMoreUse
  <1>7. GuessesCounted'
    <2> SUFFICES ASSUME NEW v \in Claimants
                 PROVE  throttle'[v].failures = guesses'[v] /\ guesses'[v] <= MaxClaimFailures
      BY DEF GuessesCounted
    <2>1. throttle[v].failures = guesses[v] /\ guesses[v] <= MaxClaimFailures
      BY DEF ClaimsInv, GuessesCounted
    <2>2. CASE v = u
      <3>1. throttle'[v] = NoThrottle /\ guesses'[v] = 0  BY <1>0, <1>4, <2>2
      <3> QED  BY <3>1, ClaimConstants DEF NoThrottle, Failures
    <2>3. CASE v # u
      <3>1. throttle'[v] = throttle[v] /\ guesses'[v] = guesses[v]  BY <1>0, <1>4, <2>3
      <3> QED  BY <2>1, <3>1
    <2> QED  BY <2>2, <2>3
  <1>8. UsersExist'
    <2> SUFFICES ASSUME NEW d \in ClaimCodes, NEW v \in Claimants, <<d, v>> \in usesBy' \/ <<d, v>> \in claimsBy'
                 PROVE  member'[v] # NoMembership
      BY DEF UsersExist, Exists
    <2>1. CASE v = u  BY <1>0, <1>2, <1>4, <2>1, ClaimRows
    <2>2. CASE v # u
      <3>1. <<d, v>> \in usesBy \/ <<d, v>> \in claimsBy  BY <1>4, <2>2
      <3>2. member[v] # NoMembership  BY <3>1 DEF ClaimsInv, UsersExist, Exists
      <3> QED  BY <1>0, <1>4, <2>2, <3>2
    <2> QED  BY <2>1, <2>2
  <1>9. ASSUME NEW v \in Claimants, v # u
        PROVE  /\ member'[v] = member[v] /\ throttle'[v] = throttle[v]
               /\ \A d \in ClaimCodes : /\ <<d, v>> \in usesBy' => <<d, v>> \in usesBy
                                        /\ <<d, v>> \in claimsBy' => <<d, v>> \in claimsBy
    BY <1>0, <1>4, <1>9
  <1> QED  BY <1>1, <1>4, <1>5, <1>6, <1>7, <1>8, <1>9, ClaimEnds DEF u

LEMMA SpendLostStep == ASSUME ClaimsInv, NEW t \in Tabs, SpendLost(t) PROVE ClaimsInv'
  <1> DEFINE u == TabOf[t]
             w == claim[t].window
  <1>0. claim \in [Tabs -> {NoClaim} \cup ClaimRow]  BY DEF ClaimsInv, ClaimsShape
  <1>1. UnderWay(t)  BY DEF SpendLost, UnderWay
  <1>2. u \in Claimants /\ w \in Throttles  BY <1>1, ClaimOnFile
  <1>3. /\ w.failures < MaxClaimFailures
        /\ IF w.start = 0 THEN w.failures = 0 ELSE w = throttle[u]
    BY <1>1 DEF ClaimsInv, ClaimHasWindow
  <1>4. /\ UseCounted(u, w) /\ claim' = [claim EXCEPT ![t] = NoClaim]
        /\ UNCHANGED <<claimMoment, uses, revoked, usesBy, claimsBy>>
    BY DEF SpendLost
  <1>10. PICK m \in Memberships : member' = [member EXCEPT ![u] = m]
    <2>1. member' = [member EXCEPT ![u] = ResolvedAt(member[u], claim[t].read)]  BY DEF SpendLost, LeftResolved
    <2>2. Exists(u)  BY <1>1 DEF ClaimsInv, ClaimHasRead
    <2>3. claim[t].read \in Nat  BY <1>1, ClaimOnFile DEF ClaimRow
    <2> QED  BY <1>2, <2>1, <2>2, <2>3, ResolvedMember
  <1>11. /\ member' \in [Claimants -> {NoMembership} \cup Memberships] /\ member'[u] # NoMembership
         /\ \A v \in Claimants : v # u => member'[v] = member[v]
    BY <1>2, <1>10, ClaimRows DEF ClaimsInv, ClaimsShape
  <1> HIDE DEF u, w
  <1>5. /\ throttle' \in [Claimants -> Throttles] /\ guesses' \in [Claimants -> Nat] /\ GuessesCounted'
        /\ \A v \in Claimants : v # u => throttle'[v] = throttle[v]
    BY <1>2, <1>3, <1>4, GuessCounted
  <1>6. claim' \in [Tabs -> {NoClaim} \cup ClaimRow]  BY <1>0, <1>4
  <1>7. ClaimsShape'  BY Zenon, <1>4, <1>5, <1>6, <1>11 DEF ClaimsInv, ClaimsShape
  <1>8. UsesCounted'  BY Zenon, <1>4 DEF ClaimsInv, UsesCounted
  <1>12. UsersExist'  BY <1>4, <1>11 DEF ClaimsInv, UsersExist, Exists
  <1>9. \A v \in Claimants : v # TabOf[t] =>
               /\ member'[v] = member[v] /\ throttle'[v] = throttle[v]
               /\ \A d \in ClaimCodes : /\ <<d, v>> \in usesBy' => <<d, v>> \in usesBy
                                        /\ <<d, v>> \in claimsBy' => <<d, v>> \in claimsBy
    BY <1>4, <1>5, <1>11 DEF u
  <1> QED  BY <1>1, <1>4, <1>5, <1>7, <1>8, <1>9, <1>12, ClaimEnds

LEMMA ClaimFailsStep == ASSUME ClaimsInv, NEW t \in Tabs, ClaimFails(t) PROVE ClaimsInv'
  <1>1. UnderWay(t) /\ claim' = [claim EXCEPT ![t] = NoClaim]
        /\ UNCHANGED <<claimMoment, member, uses, revoked, usesBy, claimsBy, throttle, guesses>>
    BY DEF ClaimFails, UnderWay
  <1>2. ClaimsShape'
    <2>1. claim \in [Tabs -> {NoClaim} \cup ClaimRow]  BY DEF ClaimsInv, ClaimsShape
    <2>2. claim' \in [Tabs -> {NoClaim} \cup ClaimRow]  BY <1>1, <2>1
    <2> QED  BY Zenon, <1>1, <2>2 DEF ClaimsInv, ClaimsShape
  <1>3. UsesCounted' /\ GuessesCounted' /\ UsersExist'
    BY Zenon, <1>1 DEF ClaimsInv, UsesCounted, GuessesCounted, UsersExist, Exists
  <1> QED  BY <1>1, <1>2, <1>3, ClaimEnds

\* The clock moves, or a code is revoked: what claims have read stands.
LEMMA AroundClaims ==
    ASSUME ClaimsInv, UNCHANGED <<member, uses, usesBy, claimsBy, throttle, guesses, claim>>,
           claimMoment' \in 1..LastClaimMoment, revoked' \subseteq ClaimCodes
    PROVE  ClaimsInv'
  <1>1. ClaimsShape' /\ UsesCounted' /\ GuessesCounted' /\ UsersExist' /\ OneClaim'
    BY Zenon DEF ClaimsInv, ClaimsShape, UsesCounted, GuessesCounted, UsersExist, Exists, OneClaim, UnderWay
  <1>2. ASSUME NEW s \in Tabs PROVE (ClaimHasRead(s) /\ ClaimHasWindow(s))'
    BY Zenon, ClaimGoesOn
  <1> QED  BY <1>1, <1>2 DEF ClaimsInv

LEMMA ClaimsStart == ASSUME ClaimsInit PROVE ClaimsInv
  <1>1. /\ claimMoment = 1 /\ revoked = {} /\ usesBy = {} /\ claimsBy = {}
        /\ member = [u \in Claimants |-> NoMembership] /\ uses = [c \in ClaimCodes |-> 0]
        /\ throttle = [u \in Claimants |-> NoThrottle] /\ guesses = [u \in Claimants |-> 0]
        /\ claim = [t \in Tabs |-> NoClaim]
    BY DEF ClaimsInit
  <1>2. ClaimsShape  BY <1>1, ClaimRows, ClaimConstants DEF ClaimsShape
  <1>3. UsesCounted
    <2>1. ASSUME NEW c \in ClaimCodes PROVE uses[c] = Cardinality(Through(usesBy, c)) + Cardinality(Through(claimsBy, c))
      <3>1. Through(usesBy, c) = {} /\ Through(claimsBy, c) = {}  BY <1>1 DEF Through
      <3> QED  BY <1>1, <3>1, FS_EmptySet
    <2>2. \A c \in ClaimCodes : uses[c] = 0  BY <1>1
    <2> QED  BY <1>1, <2>1, <2>2, ClaimConstants DEF UsesCounted, Through
  <1>4. GuessesCounted  BY <1>1, ClaimConstants DEF GuessesCounted, NoThrottle, Failures
  <1>5. OneClaim /\ UsersExist  BY <1>1 DEF OneClaim, UsersExist, UnderWay
  <1>6. ASSUME NEW t \in Tabs PROVE ClaimHasRead(t) /\ ClaimHasWindow(t)
    BY <1>1 DEF ClaimHasRead, ClaimHasWindow, UnderWay
  <1> QED  BY <1>2, <1>3, <1>4, <1>5, <1>6 DEF ClaimsInv

LEMMA ClaimsStep == ASSUME ClaimsInv, [ClaimsNext]_claimVars PROVE ClaimsInv'
  <1>0. claimMoment \in 1..LastClaimMoment /\ revoked \subseteq ClaimCodes  BY DEF ClaimsInv, ClaimsShape
  <1>1. ASSUME NEW u \in Claimants, JoinGroup(u) \/ ExpireMembership(u) PROVE ClaimsInv'
    BY <1>1, JoinGroupStep, ExpireMembershipStep
  <1>2. ASSUME NEW u \in Claimants, NEW c \in ClaimCodes, Consume(u, c) PROVE ClaimsInv'
    BY <1>2, ConsumeStep
  <1>3. ASSUME NEW t \in Tabs, Guess(t) \/ Spend(t) \/ SpendLost(t) \/ ClaimFails(t) PROVE ClaimsInv'
    BY <1>3, GuessStep, SpendStep, SpendLostStep, ClaimFailsStep
  <1>4. ASSUME NEW t \in Tabs, NEW c \in ClaimCodes, Claim(t, c) PROVE ClaimsInv'
    BY <1>4, ClaimStep
  <1>5. ASSUME NEW c \in ClaimCodes, RevokeCode(c) PROVE ClaimsInv'
    <2>1. revoked' \subseteq ClaimCodes  BY <1>0, <1>5 DEF RevokeCode
    <2> QED  BY <1>0, <1>5, <2>1, AroundClaims DEF RevokeCode
  <1>6. ASSUME NEW u \in Claimants, NEW g \in Groups, SetGroup(u, g) PROVE ClaimsInv'
    BY <1>6, SetGroupStep
  <1>7. CASE ClaimTick
    <2>1. claimMoment' \in 1..LastClaimMoment  BY <1>0, <1>7, ClaimConstants DEF ClaimTick
    <2> QED  BY <1>0, <1>7, <2>1, AroundClaims DEF ClaimTick
  <1>8. CASE UNCHANGED claimVars  BY <1>0, <1>8, AroundClaims DEF claimVars
  <1> QED  BY <1>1, <1>2, <1>3, <1>4, <1>5, <1>6, <1>7, <1>8 DEF ClaimsNext

\* A code grants as many memberships as it counts uses, within its limit and one to an
\* account, and failed guesses are counted whichever tabs make them (invite.go:762-839).
THEOREM ClaimsSound == ClaimsSpec => []ClaimsCounted
  <1>1. ClaimsInv => ClaimsCounted
    BY ClaimsShapeTypes DEF ClaimsInv, ClaimsCounted
  <1> QED  BY <1>1, ClaimsStart, ClaimsStep, PTL DEF ClaimsSpec

\* What a step that records c for u has done for it.
ClaimAdded(c, u) ==
    /\ <<c, u>> \in claimsBy' \ claimsBy =>
         \E t \in Tabs :
            /\ TabOf[t] = u /\ claim[t] # NoClaim /\ claim[t].code = c
            /\ LET m == ResolvedAt(member[u], claim[t].read)
               IN  /\ m.group \in {DefaultGroup, CodeGroup[c]}
                   /\ m.group = CodeGroup[c] =>
                        m.until > 0 /\ (member'[u].until = 0 \/ member'[u].until > m.until)
    /\ <<c, u>> \in (claimsBy' \ claimsBy) \cup (usesBy' \ usesBy) /\ CodeDaysMax[c] > 0
         => member'[u].until > 0

LEMMA SpendAdds ==
    ASSUME ClaimsInv, NEW t \in Tabs, Spend(t), NEW c \in ClaimCodes, NEW u \in Claimants
    PROVE  ClaimAdded(c, u)
  <1> DEFINE v == TabOf[t]
             d == claim[t].code
             to == claim[t].to
             m == ResolvedAt(member[v], claim[t].read)
  <1>1. UnderWay(t)  BY DEF Spend, UnderWay
  <1>2. v \in Claimants /\ d \in ClaimCodes /\ to \in Memberships /\ claim[t].read \in Nat
    BY <1>1, ClaimOnFile DEF ClaimRow
  <1>3. <<d, v>> \notin claimsBy /\ Exists(v) /\ ~Conflict(m, d) /\ Adds(m, d, to)
    BY <1>1 DEF ClaimsInv, ClaimHasRead
  <1>4. /\ claimsBy' = claimsBy \cup {<<d, v>>} /\ usesBy' = usesBy
        /\ member' = [member EXCEPT ![v] = to]
    BY Zenon, <1>3 DEF Spend
  <1>5. m \in Memberships  BY <1>2, <1>3, ResolvedMember
  <1>6. member \in [Claimants -> {NoMembership} \cup Memberships]  BY DEF ClaimsInv, ClaimsShape
  <1>7. member'[v] = to  BY <1>2, <1>4, <1>6
  <1>8. CASE c = d /\ u = v
    <2>1. m.until \in Nat  BY <1>5 DEF Memberships
    <2>2. m.group \in {DefaultGroup, CodeGroup[d]} /\ (m.group = CodeGroup[d] => m.until > 0)
      BY <1>3, <2>1 DEF Conflict
    <2> HIDE DEF m, to
    <2>3. m.group = CodeGroup[d] => to.until = 0 \/ to.until > m.until  BY <1>3 DEF Adds
    <2>4. CodeDaysMax[d] > 0 => to.until > 0  BY <1>3 DEF Adds
    <2>5. claim[t] # NoClaim  BY <1>1 DEF UnderWay
    <2> QED  BY <1>4, <1>7, <1>8, <2>2, <2>3, <2>4, <2>5 DEF ClaimAdded, m
  <1>9. CASE ~(c = d /\ u = v)
    <2>1. <<c, u>> # <<d, v>>  BY <1>9
    <2>2. <<c, u>> \notin claimsBy' \ claimsBy /\ <<c, u>> \notin usesBy' \ usesBy  BY Zenon, <1>4, <2>1
    <2> QED  BY Zenon, <2>2 DEF ClaimAdded
  <1> QED  BY <1>8, <1>9

LEMMA ConsumeAdds ==
    ASSUME ClaimsInv, NEW v \in Claimants, NEW d \in ClaimCodes, Consume(v, d),
           NEW c \in ClaimCodes, NEW u \in Claimants
    PROVE  ClaimAdded(c, u)
  <1>1. PICK days \in Draws(d) : member' = [member EXCEPT ![v] = Member(CodeGroup[d], Until(claimMoment, days))]
    BY DEF Consume
  <1>2. usesBy' = usesBy \cup {<<d, v>>} /\ claimsBy' = claimsBy  BY DEF Consume
  <1>3. member \in [Claimants -> {NoMembership} \cup Memberships] /\ claimMoment \in Nat
    BY DEF ClaimsInv, ClaimsShape
  <1>4. member'[v].until = Until(claimMoment, days)  BY <1>1, <1>3 DEF Member
  <1>5. CodeDaysMax[d] > 0 => member'[v].until > 0  BY <1>3, <1>4, DrawsUntil
  <1>6. CASE <<c, u>> = <<d, v>>
    <2>1. c = d /\ u = v  BY <1>6
    <2> QED  BY Zenon, <1>2, <1>5, <2>1 DEF ClaimAdded
  <1>7. CASE <<c, u>> # <<d, v>>
    <2>1. <<c, u>> \notin claimsBy' \ claimsBy /\ <<c, u>> \notin usesBy' \ usesBy  BY Zenon, <1>2, <1>7
    <2> QED  BY Zenon, <2>1 DEF ClaimAdded
  <1> QED  BY <1>6, <1>7

\* A claim takes nothing from what the account had when it was made, and a code of
\* limited membership makes none for good (invite.go:732-768).
THEOREM ClaimsAdd == ClaimsSpec => ClaimsOnlyAdd
  <1>1. ASSUME ClaimsInv, ClaimsNext, NEW c \in ClaimCodes, NEW u \in Claimants
        PROVE  ClaimAdded(c, u)
    <2>1. ASSUME UNCHANGED <<usesBy, claimsBy>> PROVE ClaimAdded(c, u)
      BY Zenon, <2>1 DEF ClaimAdded
    <2>2. ASSUME NEW v \in Claimants, JoinGroup(v) \/ ExpireMembership(v) PROVE ClaimAdded(c, u)
      BY <2>1, <2>2 DEF JoinGroup, ExpireMembership
    <2>3. ASSUME NEW v \in Claimants, NEW d \in ClaimCodes, Consume(v, d) PROVE ClaimAdded(c, u)
      BY <1>1, <2>3, ConsumeAdds
    <2>4. ASSUME NEW t \in Tabs, Guess(t) \/ SpendLost(t) \/ ClaimFails(t) PROVE ClaimAdded(c, u)
      BY <2>1, <2>4 DEF Guess, SpendLost, ClaimFails
    <2>5. ASSUME NEW t \in Tabs, Spend(t) PROVE ClaimAdded(c, u)
      BY <1>1, <2>5, SpendAdds
    <2>6. ASSUME NEW t \in Tabs, NEW d \in ClaimCodes, Claim(t, d) PROVE ClaimAdded(c, u)
      BY <2>1, <2>6 DEF Claim
    <2>7. ASSUME NEW d \in ClaimCodes, RevokeCode(d) PROVE ClaimAdded(c, u)
      BY <2>1, <2>7 DEF RevokeCode
    <2>8. ASSUME NEW v \in Claimants, NEW g \in Groups, SetGroup(v, g) PROVE ClaimAdded(c, u)
      BY <2>1, <2>8 DEF SetGroup
    <2>9. CASE ClaimTick  BY <2>1, <2>9 DEF ClaimTick
    <2> QED  BY <1>1, <2>2, <2>3, <2>4, <2>5, <2>6, <2>7, <2>8, <2>9 DEF ClaimsNext
  <1>2. ClaimsInv /\ [ClaimsNext]_claimVars =>
           [\A c \in ClaimCodes, u \in Claimants : ClaimAdded(c, u)]_claimVars
    BY Zenon, <1>1
  <1>3. ClaimsSpec => [][\A c \in ClaimCodes, u \in Claimants : ClaimAdded(c, u)]_claimVars
    BY <1>2, ClaimsStart, ClaimsStep, PTL DEF ClaimsSpec
  <1> QED  BY <1>3 DEF ClaimsOnlyAdd, ClaimAdded

(***************************************************************************)
(* Reset cards. A code that exists has redeemed for exactly those it has   *)
(* minted for, so that the primary key of redemptions bounds what it gives *)
(* to each; a card that a reservation has marked and not committed is the  *)
(* one card that is used and has bought nothing.                           *)
(***************************************************************************)

CardRow == [owner : Holders \cup {"none"}, used : BOOLEAN, expires : 0..(LastDay + 1)]
CardCodeRow == [exists : BOOLEAN, claimed : Nat, by : SUBSET Holders]
AutoRow == [at : {"calm", "reading", "chosen", "marked"}, owner : Holders \cup {"none"}, now : 0..LastDay,
            id : 0..MostCards, tries : 0..SpendAttempts]

LEMMA CardTypes ==
    CardsTypeOK <=>
        /\ day \in 1..LastDay /\ card \in [CardIds -> CardRow] /\ code \in [Codes -> CardCodeRow]
        /\ redeeming \in [Holders -> [code : Codes \cup {"none"}, at : 0..LastDay]]
        /\ auto \in AutoRow /\ clawing \in [owner : Holders \cup {"none"}, ids : SUBSET CardIds]
        /\ resets \in [CardIds -> Nat] /\ mintedBy \in [Codes -> [Holders -> Nat]]
  BY DEF CardsTypeOK, CardRow, CardCodeRow, AutoRow

LEMMA CardConstants ==
    /\ IsFiniteSet(Holders) /\ "none" \notin Holders
    /\ CodeCards \in [Codes -> Nat] /\ CardCodeLife \in [Codes -> Nat]
    /\ MostCards \in Nat \ {0} /\ SpendAttempts \in Nat \ {0} /\ LastDay \in Nat \ {0}
    /\ CardIds \subseteq 0..MostCards
  BY CardsAssumption DEF CardsAssumption, CardIds

Paid(i) == card[i].owner # "none" => resets[i] = IF card[i].used /\ ~Locked(i) THEN 1 ELSE 0
AutoHolds ==
    /\ auto.at # "calm" => auto.owner \in Holders
    /\ auto.at \in {"chosen", "marked"} => auto.id \in CardIds
    /\ auto.at = "marked" => card[auto.id].used /\ card[auto.id].owner # "none"
ByMinted(c) == code[c].exists => \A u \in Holders : u \in code[c].by <=> mintedBy[c][u] > 0
RedeemingKnown == \A u \in Holders : redeeming[u] = NoRedemption \/ redeeming[u].code \in Codes

CardsInv ==
    /\ CardsTypeOK /\ CodesBounded
    /\ \A i \in CardIds : Paid(i)
    /\ AutoHolds /\ RedeemingKnown
    /\ \A c \in Codes : ByMinted(c)

\* The codes stay, and what is paid is shown card by card.
LEMMA CodesStay ==
    ASSUME CardsInv, CardsTypeOK', UNCHANGED <<code, redeeming, mintedBy>>,
           \A i \in CardIds : Paid(i)', AutoHolds'
    PROVE  CardsInv'
  <1>1. CodesBounded' /\ RedeemingKnown' /\ \A c \in Codes : ByMinted(c)'
    BY Zenon DEF CardsInv, CodesBounded, RedeemingKnown, ByMinted
  <1> QED  BY <1>1 DEF CardsInv

\* The cards stay too.
LEMMA CardsStay ==
    ASSUME CardsInv, CardsTypeOK', UNCHANGED <<code, redeeming, mintedBy, card, resets>>, auto' = auto
    PROVE  CardsInv'
  <1>1. ASSUME NEW i \in CardIds PROVE Paid(i)'
    <2>1. Paid(i)  BY DEF CardsInv
    <2> QED  BY Zenon, <2>1 DEF Paid, Locked
  <1>2. AutoHolds'  BY Zenon DEF CardsInv, AutoHolds
  <1> QED  BY <1>1, <1>2, CodesStay

\* A card no reservation holds changes, and nothing else does.
LEMMA CardChanges ==
    ASSUME CardsInv, CardsTypeOK', UNCHANGED <<code, redeeming, mintedBy, auto, resets>>,
           \A i \in CardIds : card'[i] = card[i]
                              \/ /\ ~Locked(i)
                                 /\ card'[i].owner # "none" =>
                                      /\ ~card'[i].used /\ resets[i] = 0
    PROVE  CardsInv'
  <1>1. ASSUME NEW i \in CardIds PROVE Paid(i)'
    <2>1. Paid(i)  BY DEF CardsInv
    <2>2. CASE card'[i] = card[i]  BY Zenon, <2>1, <2>2 DEF Paid, Locked
    <2>3. CASE card'[i].owner # "none" => ~card'[i].used /\ resets[i] = 0
      BY Zenon, <2>3 DEF Paid
    <2> QED  BY <2>2, <2>3
  <1>2. AutoHolds'
    <2>1. AutoHolds  BY DEF CardsInv
    <2>2. auto.at = "marked" => card'[auto.id] = card[auto.id]  BY Zenon, <2>1 DEF AutoHolds, Locked
    <2> QED  BY Zenon, <2>1, <2>2 DEF AutoHolds
  <1> QED  BY <1>1, <1>2, CodesStay

LEMMA FreshCardRow ==
    ASSUME NEW u \in Holders, NEW to \in 0..(LastDay + 1)
    PROVE  /\ FreshCard(u, to) \in CardRow /\ ~FreshCard(u, to).used
           /\ CardGone \in CardRow /\ CardGone.owner = "none"
  BY CardConstants DEF FreshCard, CardGone, CardRow

\* A card that is minted was none and has bought nothing.
LEMMA UnusedCard ==
    ASSUME CardsInv, NEW i \in Unused
    PROVE  i \in CardIds /\ resets[i] = 0 /\ ~Locked(i)
  <1>1. i \in CardIds /\ resets[i] = 0 /\ card[i].owner = "none"  BY DEF Unused, NoCard
  <1> QED  BY <1>1 DEF CardsInv, AutoHolds, Locked

LEMMA MintStep ==
    ASSUME CardsInv, NEW u \in Holders, NEW to \in 0..(LastDay + 1), NEW i \in Unused,
           card' = [card EXCEPT ![i] = FreshCard(u, to)], UNCHANGED <<auto, resets>>
    PROVE  /\ card' \in [CardIds -> CardRow]
           /\ \A j \in CardIds : Paid(j)'
           /\ AutoHolds'
  <1>0. card \in [CardIds -> CardRow]  BY CardTypes DEF CardsInv
  <1>1. i \in CardIds /\ resets[i] = 0 /\ ~Locked(i)  BY UnusedCard
  <1>2. FreshCard(u, to) \in CardRow /\ ~FreshCard(u, to).used  BY FreshCardRow
  <1>3. /\ card' \in [CardIds -> CardRow] /\ card'[i] = FreshCard(u, to)
        /\ \A j \in CardIds : j # i => card'[j] = card[j]
    BY <1>0, <1>1, <1>2
  <1>4. ASSUME NEW j \in CardIds PROVE Paid(j)'
    <2>1. Paid(j)  BY DEF CardsInv
    <2>2. CASE j = i  BY Zenon, <1>1, <1>2, <1>3, <2>2 DEF Paid
    <2>3. CASE j # i  BY Zenon, <1>3, <2>1, <2>3 DEF Paid, Locked
    <2> QED  BY <2>2, <2>3
  <1>5. AutoHolds'
    <2>1. AutoHolds  BY DEF CardsInv
    <2>2. auto.at = "marked" => auto.id # i  BY <1>1 DEF Locked
    <2> QED  BY Zenon, <1>3, <2>1, <2>2 DEF AutoHolds
  <1> QED  BY <1>3, <1>4, <1>5

LEMMA GrantStep == ASSUME CardsInv, NEW u \in Holders, Grant(u) PROVE CardsInv'
  <1>0. CardsTypeOK  BY DEF CardsInv
  <1>1. PICK i \in Unused : card' = [card EXCEPT ![i] = FreshCard(u, day + 1)]  BY DEF Grant
  <1>2. UNCHANGED <<day, code, redeeming, auto, clawing, resets, mintedBy>>  BY DEF Grant
  <1>3. day + 1 \in 0..(LastDay + 1)  BY <1>0, CardConstants, CardTypes
  <1>4. card' \in [CardIds -> CardRow] /\ AutoHolds' /\ \A j \in CardIds : Paid(j)'
    BY <1>1, <1>2, <1>3, MintStep
  <1>5. CardsTypeOK'  BY Zenon, <1>0, <1>2, <1>4 DEF CardsTypeOK, CardRow
  <1>6. UNCHANGED <<code, redeeming, mintedBy>>  BY <1>2
  <1> QED  BY Zenon, <1>4, <1>5, <1>6, CodesStay

LEMMA LookUpStep == ASSUME CardsInv, NEW u \in Holders, NEW c \in Codes, LookUp(u, c) PROVE CardsInv'
  <1>0. CardsTypeOK  BY DEF CardsInv
  <1>1. /\ redeeming' = [redeeming EXCEPT ![u] = [code |-> c, at |-> day]]
        /\ UNCHANGED <<day, card, code, auto, clawing, resets, mintedBy>>
    BY DEF LookUp
  <1>2. redeeming' \in [Holders -> [code : Codes \cup {"none"}, at : 0..LastDay]]
    BY <1>0, <1>1, CardTypes
  <1>3. CardsTypeOK'  BY Zenon, <1>0, <1>1, <1>2 DEF CardsTypeOK
  <1>4. RedeemingKnown'
    <2>1. redeeming \in [Holders -> [code : Codes \cup {"none"}, at : 0..LastDay]]  BY <1>0, CardTypes
    <2> QED  BY <1>1, <2>1 DEF CardsInv, RedeemingKnown
  <1>5. CodesBounded' /\ AutoHolds' /\ \A c2 \in Codes : ByMinted(c2)'
    BY Zenon, <1>1 DEF CardsInv, CodesBounded, AutoHolds, ByMinted
  <1>6. \A i \in CardIds : Paid(i)'  BY Zenon, <1>1 DEF CardsInv, Paid, Locked
  <1> QED  BY <1>3, <1>4, <1>5, <1>6 DEF CardsInv

\* One more account that a code has minted for.
LEMMA MintedOnce ==
    ASSUME CardsInv, NEW u \in Holders, NEW c \in Codes, code[c].exists, u \notin code[c].by, ClaimLeft(c),
           code' = [code EXCEPT ![c].by = @ \cup {u}, ![c].claimed = @ + 1],
           mintedBy' = [mintedBy EXCEPT ![c][u] = @ + 1]
    PROVE  CodesBounded' /\ \A d \in Codes : ByMinted(d)'
  <1>0. code \in [Codes -> CardCodeRow] /\ mintedBy \in [Codes -> [Holders -> Nat]]
    BY CardTypes DEF CardsInv
  <1>1. mintedBy[c][u] = 0  BY <1>0 DEF CardsInv, ByMinted
  <1>2. /\ code'[c].by = code[c].by \cup {u} /\ code'[c].claimed = code[c].claimed + 1
        /\ code'[c].exists = code[c].exists
        /\ mintedBy'[c][u] = 1 /\ \A v \in Holders : v # u => mintedBy'[c][v] = mintedBy[c][v]
    BY <1>0, <1>1 DEF CardCodeRow
  <1>3. \A d \in Codes : d # c => code'[d] = code[d] /\ mintedBy'[d] = mintedBy[d]  BY <1>0
  <1>4. ASSUME NEW d \in Codes
        PROVE  /\ \A v \in Holders : mintedBy'[d][v] <= 1
               /\ code'[d].claimed = Cardinality({v \in Holders : mintedBy'[d][v] > 0})
               /\ code'[d].claimed <= CodeCards[d]
    <2>1. /\ \A v \in Holders : mintedBy[d][v] <= 1
          /\ code[d].claimed = Cardinality({v \in Holders : mintedBy[d][v] > 0})
          /\ code[d].claimed <= CodeCards[d]
      BY DEF CardsInv, CodesBounded
    <2>2. CASE d = c
      <3> DEFINE S == {v \in Holders : mintedBy[c][v] > 0}
      <3>1. {v \in Holders : mintedBy'[c][v] > 0} = S \cup {u}  BY <1>2
      <3>2. u \notin S  BY <1>1
      <3>3. IsFiniteSet(S)  BY CardConstants, FS_Subset
      <3> HIDE DEF S
      <3>4. Cardinality(S \cup {u}) = Cardinality(S) + 1  BY <3>2, <3>3, FS_AddElement
      <3>5. code[c].claimed = Cardinality(S)  BY <2>1, <2>2 DEF S
      <3>6. code'[c].claimed = Cardinality({v \in Holders : mintedBy'[c][v] > 0})
        BY <1>2, <3>1, <3>4, <3>5
      <3>7. \A v \in Holders : mintedBy'[c][v] <= 1  BY <1>2, <2>1, <2>2
      <3>8. code'[c].claimed <= CodeCards[c]
        BY <1>0, <1>2, CardConstants DEF ClaimLeft, CardCodeRow
      <3> QED  BY <2>2, <3>6, <3>7, <3>8
    <2>3. CASE d # c
      <3>1. code'[d] = code[d] /\ mintedBy'[d] = mintedBy[d]  BY <1>3, <2>3
      <3> QED  BY Zenon, <2>1, <3>1
    <2> QED  BY <2>2, <2>3
  <1>5. ASSUME NEW d \in Codes PROVE ByMinted(d)'
    <2>1. ByMinted(d)  BY DEF CardsInv
    <2>2. CASE d = c
      <3>1. mintedBy'[c][u] > 0  BY <1>2
      <3> QED  BY ZenonT(60), <1>2, <2>1, <2>2, <3>1 DEF ByMinted
    <2>3. CASE d # c
      <3>1. code'[d] = code[d] /\ mintedBy'[d] = mintedBy[d]  BY <1>3, <2>3
      <3> QED  BY Zenon, <2>1, <3>1 DEF ByMinted
    <2> QED  BY <2>2, <2>3
  <1> QED  BY <1>4, <1>5 DEF CodesBounded

LEMMA RedeemCardStep == ASSUME CardsInv, NEW u \in Holders, Redeem(u) PROVE CardsInv'
  <1>9. PICK c : c = redeeming[u].code  OBVIOUS
  <1>0. /\ CardsTypeOK /\ code \in [Codes -> CardCodeRow] /\ mintedBy \in [Codes -> [Holders -> Nat]]
        /\ redeeming \in [Holders -> [code : Codes \cup {"none"}, at : 0..LastDay]]
    BY CardTypes DEF CardsInv
  <1>1. /\ redeeming[u] # NoRedemption /\ redeeming' = [redeeming EXCEPT ![u] = NoRedemption]
        /\ UNCHANGED <<day, auto, clawing, resets>>
    BY DEF Redeem
  <1>2. c \in Codes  BY <1>1, <1>9 DEF CardsInv, RedeemingKnown
  <1>3. NoRedemption \in [code : Codes \cup {"none"}, at : 0..LastDay]  BY CardConstants DEF NoRedemption
  <1>4. /\ redeeming' \in [Holders -> [code : Codes \cup {"none"}, at : 0..LastDay]]
        /\ RedeemingKnown'
    BY <1>0, <1>1, <1>3 DEF CardsInv, RedeemingKnown
  <1>5. CASE UNCHANGED <<card, code, mintedBy>>
    <2>1. CardsTypeOK'  BY Zenon, <1>0, <1>1, <1>4, <1>5 DEF CardsTypeOK
    <2>2. CodesBounded' /\ AutoHolds' /\ \A d \in Codes : ByMinted(d)'
      BY Zenon, <1>1, <1>5 DEF CardsInv, CodesBounded, AutoHolds, ByMinted
    <2>3. \A i \in CardIds : Paid(i)'  BY Zenon, <1>1, <1>5 DEF CardsInv, Paid, Locked
    <2> QED  BY <1>4, <2>1, <2>2, <2>3 DEF CardsInv
  <1>6. ASSUME code[c].exists, u \notin code[c].by, ClaimLeft(c),
               NEW i \in Unused, card' = [card EXCEPT ![i] = FreshCard(u, redeeming[u].at + 1)],
               code' = [code EXCEPT ![c].by = @ \cup {u}, ![c].claimed = @ + 1],
               mintedBy' = [mintedBy EXCEPT ![c][u] = @ + 1]
        PROVE  CardsInv'
    <2>1. redeeming[u].at + 1 \in 0..(LastDay + 1)  BY <1>0, CardConstants
    <2>2. card' \in [CardIds -> CardRow] /\ AutoHolds' /\ \A j \in CardIds : Paid(j)'
      BY <1>1, <1>6, <2>1, MintStep
    <2>3. CodesBounded' /\ \A d \in Codes : ByMinted(d)'  BY <1>2, <1>6, MintedOnce
    <2>4. code' \in [Codes -> CardCodeRow] /\ mintedBy' \in [Codes -> [Holders -> Nat]]
      BY <1>0, <1>2, <1>6 DEF CardCodeRow
    <2>5. CardsTypeOK'
      BY Zenon, <1>0, <1>1, <1>4, <2>2, <2>4 DEF CardsTypeOK, CardRow, CardCodeRow
    <2> QED  BY Zenon, <1>4, <2>2, <2>3, <2>5 DEF CardsInv
  <1>7. CASE code[c].exists /\ u \notin code[c].by /\ ClaimLeft(c)
    BY Zenon, <1>6, <1>7, <1>9 DEF Redeem
  <1>8. CASE ~(code[c].exists /\ u \notin code[c].by /\ ClaimLeft(c))
    BY Zenon, <1>5, <1>8, <1>9 DEF Redeem
  <1> QED  BY <1>7, <1>8

LEMMA DeleteCodeStep == ASSUME CardsInv, NEW c \in Codes, DeleteCode(c) PROVE CardsInv'
  <1>0. CardsTypeOK /\ code \in [Codes -> CardCodeRow]  BY CardTypes DEF CardsInv
  <1>1. /\ code' = [code EXCEPT ![c].exists = FALSE, ![c].by = {}]
        /\ UNCHANGED <<day, card, redeeming, auto, clawing, resets, mintedBy>>
    BY DEF DeleteCode
  <1>2. code' \in [Codes -> CardCodeRow] /\ ~code'[c].exists /\ code'[c].claimed = code[c].claimed
        /\ \A d \in Codes : d # c => code'[d] = code[d]
    BY <1>0, <1>1 DEF CardCodeRow
  <1>3. CardsTypeOK'  BY Zenon, <1>0, <1>1, <1>2 DEF CardsTypeOK, CardCodeRow
  <1>4. CodesBounded'
    <2> SUFFICES ASSUME NEW d \in Codes
                 PROVE  /\ \A v \in Holders : mintedBy'[d][v] <= 1
                        /\ code'[d].claimed = Cardinality({v \in Holders : mintedBy'[d][v] > 0})
                        /\ code'[d].claimed <= CodeCards[d]
      BY DEF CodesBounded
    <2>1. code'[d].claimed = code[d].claimed /\ mintedBy' = mintedBy  BY <1>1, <1>2
    <2> QED  BY Zenon, <2>1 DEF CardsInv, CodesBounded
  <1>5. ASSUME NEW d \in Codes PROVE ByMinted(d)'
    <2>1. ByMinted(d)  BY DEF CardsInv
    <2>2. mintedBy' = mintedBy  BY <1>1
    <2> QED  BY Zenon, <1>2, <2>1, <2>2 DEF ByMinted
  <1>6. (\A i \in CardIds : Paid(i)') /\ AutoHolds' /\ RedeemingKnown'
    BY Zenon, <1>1 DEF CardsInv, Paid, Locked, AutoHolds, RedeemingKnown
  <1> QED  BY <1>3, <1>4, <1>5, <1>6 DEF CardsInv

LEMMA UseStep == ASSUME CardsInv, NEW u \in Holders, NEW i \in CardIds, Use(u, i) PROVE CardsInv'
  <1>0. CardsTypeOK /\ card \in [CardIds -> CardRow] /\ resets \in [CardIds -> Nat]
    BY CardTypes DEF CardsInv
  <1>1. /\ auto = Calm /\ card[i].owner = u /\ ~card[i].used
        /\ card' = [card EXCEPT ![i].used = TRUE] /\ resets' = [resets EXCEPT ![i] = @ + 1]
        /\ UNCHANGED <<day, code, redeeming, auto, clawing, mintedBy>>
    BY DEF Use, Owned, CardSpendable
  <1>2. /\ card' \in [CardIds -> CardRow] /\ resets' \in [CardIds -> Nat]
        /\ card'[i].used /\ resets'[i] = resets[i] + 1
        /\ \A j \in CardIds : j # i => card'[j] = card[j] /\ resets'[j] = resets[j]
    <2>1. /\ card' \in [CardIds -> CardRow] /\ card'[i].used
          /\ \A j \in CardIds : j # i => card'[j] = card[j]
      BY <1>0, <1>1 DEF CardRow
    <2>2. /\ resets' \in [CardIds -> Nat] /\ resets'[i] = resets[i] + 1
          /\ \A j \in CardIds : j # i => resets'[j] = resets[j]
      BY <1>0, <1>1
    <2> QED  BY <2>1, <2>2
  <1>3. CardsTypeOK'  BY Zenon, <1>0, <1>1, <1>2 DEF CardsTypeOK, CardRow
  <1>4. auto.at = "calm"  BY <1>1 DEF Calm
  <1>5. ASSUME NEW j \in CardIds PROVE Paid(j)'
    <2>1. Paid(j)  BY DEF CardsInv
    <2>2. CASE j = i
      <3>1. resets[i] = 0
        <4>1. card[i].owner # "none"  BY <1>1, CardConstants
        <4> QED  BY Zenon, <1>1, <2>1, <2>2, <4>1 DEF Paid
      <3>2. resets'[i] = 1  BY <1>2, <3>1
      <3>3. ~Locked(i)'  BY <1>1, <1>4 DEF Locked
      <3> QED  BY Zenon, <1>2, <2>2, <3>2, <3>3 DEF Paid
    <2>3. CASE j # i
      <3>1. card'[j] = card[j] /\ resets'[j] = resets[j] /\ auto' = auto  BY <1>1, <1>2, <2>3
      <3> QED  BY Zenon, <2>1, <3>1 DEF Paid, Locked
    <2> QED  BY <2>2, <2>3
  <1>6. AutoHolds'  BY <1>1, <1>4 DEF AutoHolds
  <1>7. UNCHANGED <<code, redeeming, mintedBy>>  BY <1>1
  <1> QED  BY <1>3, <1>5, <1>6, <1>7, CodesStay

\* A reservation goes on without touching a card.
LEMMA AutoMoves ==
    ASSUME CardsInv, auto' \in AutoRow, auto.at # "marked", auto'.at # "marked",
           auto'.at = "chosen" => auto'.id \in CardIds, auto'.at # "calm" => auto'.owner \in Holders,
           UNCHANGED <<day, card, code, redeeming, clawing, resets, mintedBy>>
    PROVE  CardsInv'
  <1>0. CardsTypeOK  BY DEF CardsInv
  <1>1. CardsTypeOK'  BY Zenon, <1>0 DEF CardsTypeOK, AutoRow
  <1>2. ASSUME NEW i \in CardIds PROVE Paid(i)'
    <2>1. Paid(i)  BY DEF CardsInv
    <2> QED  BY Zenon, <2>1 DEF Paid, Locked
  <1>3. AutoHolds'  BY DEF AutoHolds
  <1>4. UNCHANGED <<code, redeeming, mintedBy>>  OBVIOUS
  <1> QED  BY <1>1, <1>2, <1>3, <1>4, CodesStay

LEMMA CalmRow == Calm \in AutoRow /\ Calm.at = "calm"
  BY CardConstants DEF Calm, AutoRow

LEMMA BeginAutoStep == ASSUME CardsInv, NEW u \in Holders, BeginAuto(u) PROVE CardsInv'
  <1>0. auto \in AutoRow /\ day \in 0..LastDay  BY CardTypes DEF CardsInv
  <1>1. /\ auto = Calm /\ auto' = [auto EXCEPT !.at = "reading", !.owner = u, !.now = day]
        /\ UNCHANGED <<day, card, code, redeeming, clawing, resets, mintedBy>>
    BY DEF BeginAuto
  <1>2. auto.at = "calm"  BY <1>1, CalmRow
  <1>3. auto' \in AutoRow /\ auto'.at = "reading" /\ auto'.owner = u  BY <1>0, <1>1 DEF AutoRow
  <1> QED  BY <1>1, <1>2, <1>3, AutoMoves

LEMMA ReadNextStep == ASSUME CardsInv, ReadNext PROVE CardsInv'
  <1>0. auto \in AutoRow  BY CardTypes DEF CardsInv
  <1>1. /\ auto.at = "reading" /\ auto.owner \in Holders
        /\ UNCHANGED <<day, card, code, redeeming, clawing, resets, mintedBy>>
    BY DEF ReadNext, CardsInv, AutoHolds
  <1>2. CASE auto' = Calm  BY <1>1, <1>2, CalmRow, AutoMoves
  <1>3. ASSUME auto.tries # SpendAttempts, NEW i \in Available(auto.owner, auto.now),
               auto' = [auto EXCEPT !.at = "chosen", !.id = i, !.tries = @ + 1]
        PROVE  CardsInv'
    <2>1. i \in CardIds  BY DEF Available, Owned
    <2>2. auto.tries + 1 \in 0..SpendAttempts  BY <1>0, <1>3, CardConstants DEF AutoRow
    <2>3. auto' \in AutoRow /\ auto'.at = "chosen" /\ auto'.id = i /\ auto'.owner = auto.owner
      BY <1>0, <1>3, <2>1, <2>2, CardConstants DEF AutoRow
    <2> QED  BY <1>1, <2>1, <2>3, AutoMoves
  <1> QED  BY Zenon, <1>2, <1>3 DEF ReadNext

LEMMA MarkNextStep == ASSUME CardsInv, MarkNext PROVE CardsInv'
  <1>0. CardsTypeOK /\ auto \in AutoRow /\ card \in [CardIds -> CardRow]  BY CardTypes DEF CardsInv
  <1>1. auto.at = "chosen" /\ UNCHANGED <<day, code, redeeming, clawing, resets, mintedBy>>
    BY DEF MarkNext
  <1>2. auto.owner \in Holders /\ auto.id \in CardIds  BY <1>1 DEF CardsInv, AutoHolds
  <1>5. PICK i \in CardIds : i = auto.id  BY <1>2
  <1>3. CASE auto' = [auto EXCEPT !.at = "reading"] /\ UNCHANGED card
    <2>1. auto' \in AutoRow /\ auto'.at = "reading" /\ auto'.owner = auto.owner  BY <1>0, <1>3 DEF AutoRow
    <2> QED  BY <1>1, <1>2, <1>3, <2>1, AutoMoves
  <1>4. ASSUME i \in Owned(auto.owner), CardSpendable(i, auto.now),
               card' = [card EXCEPT ![i].used = TRUE], auto' = [auto EXCEPT !.at = "marked"]
        PROVE  CardsInv'
    <2>1. auto' \in AutoRow /\ auto'.at = "marked" /\ auto'.id = i /\ auto'.owner = auto.owner
      BY <1>0, <1>4, <1>5 DEF AutoRow
    <2>8. ~card[i].used /\ Locked(i)'  BY <1>4, <1>5, <2>1 DEF CardSpendable, Locked
    <2>2. /\ card' \in [CardIds -> CardRow] /\ card'[i].used /\ card'[i].owner = card[i].owner
          /\ \A j \in CardIds : j # i => card'[j] = card[j]
      BY <1>0, <1>2, <1>4 DEF CardRow
    <2>3. CardsTypeOK'  BY Zenon, <1>0, <1>1, <2>1, <2>2 DEF CardsTypeOK, CardRow, AutoRow
    <2>4. resets' = resets  BY <1>1
    <2>5. ASSUME NEW j \in CardIds PROVE Paid(j)'
      <3>1. Paid(j)  BY DEF CardsInv
      <3>2. ~Locked(j)  BY <1>1 DEF Locked
      <3>3. CASE j = i
        <4>1. resets[j] = 0 \/ card[j].owner = "none"  BY <2>8, <3>1, <3>3 DEF Paid
        <4>2. resets'[j] = resets[j] /\ card'[j].owner = card[j].owner /\ Locked(j)'
          BY Zenon, <2>2, <2>4, <2>8, <3>3
        <4> QED  BY Zenon, <4>1, <4>2 DEF Paid
      <3>4. CASE j # i
        <4>1. ~Locked(j)'  BY <2>1, <3>4 DEF Locked
        <4>2. card'[j] = card[j]  BY <2>2, <3>4
        <4> QED  BY Zenon, <2>4, <3>1, <3>2, <4>1, <4>2 DEF Paid
      <3> QED  BY <3>3, <3>4
    <2>6. card[i].owner # "none"
      <3>1. card[i].owner = auto.owner  BY <1>4 DEF Owned
      <3> QED  BY <1>2, <3>1, CardConstants
    <2>7. AutoHolds'  BY <1>2, <2>1, <2>2, <2>6 DEF AutoHolds
    <2> QED  BY <1>1, <2>3, <2>5, <2>7, CodesStay
  <1> QED  BY Zenon, <1>3, <1>4, <1>5 DEF MarkNext

LEMMA EndAutoStep == ASSUME CardsInv, EndAuto PROVE CardsInv'
  <1> DEFINE i == auto.id
  <1>0. /\ CardsTypeOK /\ auto \in AutoRow /\ card \in [CardIds -> CardRow] /\ resets \in [CardIds -> Nat]
    BY CardTypes DEF CardsInv
  <1>1. /\ auto.at = "marked" /\ auto' = Calm
        /\ UNCHANGED <<day, code, redeeming, clawing, mintedBy>>
    BY DEF EndAuto
  <1>2. i \in CardIds /\ card[i].used /\ card[i].owner # "none"  BY <1>1 DEF CardsInv, AutoHolds
  <1>3. Locked(i) /\ \A j \in CardIds : j # i => ~Locked(j)  BY <1>1 DEF Locked
  <1>4. resets[i] = 0
    <2>1. Paid(i)  BY <1>2 DEF CardsInv
    <2> QED  BY Zenon, <1>2, <1>3, <2>1 DEF Paid
  <1>5. /\ auto' \in AutoRow /\ AutoHolds' /\ \A j \in CardIds : ~Locked(j)'
    BY <1>1, CalmRow DEF AutoHolds, Locked
  <1> HIDE DEF i
  <1>6. CASE resets' = [resets EXCEPT ![i] = @ + 1] /\ UNCHANGED card
    <2>1. /\ resets' \in [CardIds -> Nat] /\ resets'[i] = 1
          /\ \A j \in CardIds : j # i => resets'[j] = resets[j]
      BY <1>0, <1>2, <1>4, <1>6
    <2>2. CardsTypeOK'  BY Zenon, <1>0, <1>1, <1>5, <1>6, <2>1 DEF CardsTypeOK, AutoRow
    <2>3. ASSUME NEW j \in CardIds PROVE Paid(j)'
      <3>1. Paid(j)  BY DEF CardsInv
      <3>2. CASE j = i  BY Zenon, <1>2, <1>5, <1>6, <2>1, <3>2 DEF Paid
      <3>3. CASE j # i  BY Zenon, <1>3, <1>5, <1>6, <2>1, <3>1, <3>3 DEF Paid
      <3> QED  BY <3>2, <3>3
    <2> QED  BY <1>1, <1>5, <2>2, <2>3, CodesStay
  <1>7. CASE card' = [card EXCEPT ![i].used = FALSE] /\ UNCHANGED resets
    <2>1. /\ card' \in [CardIds -> CardRow] /\ ~card'[i].used
          /\ \A j \in CardIds : j # i => card'[j] = card[j]
      BY <1>0, <1>2, <1>7 DEF CardRow
    <2>2. CardsTypeOK'  BY Zenon, <1>0, <1>1, <1>5, <1>7, <2>1 DEF CardsTypeOK, AutoRow, CardRow
    <2>3. ASSUME NEW j \in CardIds PROVE Paid(j)'
      <3>1. Paid(j)  BY DEF CardsInv
      <3>2. CASE j = i  BY Zenon, <1>4, <1>7, <2>1, <3>2 DEF Paid
      <3>3. CASE j # i  BY Zenon, <1>3, <1>5, <1>7, <2>1, <3>1, <3>3 DEF Paid
      <3> QED  BY <3>2, <3>3
    <2> QED  BY <1>1, <1>5, <2>2, <2>3, CodesStay
  <1> QED  BY Zenon, <1>6, <1>7 DEF EndAuto, i

LEMMA RescheduleStep ==
    ASSUME CardsInv, NEW u \in Holders, NEW ids \in SUBSET CardIds, NEW to \in 2..(LastDay + 1),
           Reschedule(u, ids, to)
    PROVE  CardsInv'
  <1>0. CardsTypeOK /\ card \in [CardIds -> CardRow]  BY CardTypes DEF CardsInv
  <1>1. /\ \A i \in ids : ~Locked(i)
        /\ card' = [i \in CardIds |-> IF i \in ids /\ ~card[i].used THEN [card[i] EXCEPT !.expires = to] ELSE card[i]]
        /\ UNCHANGED <<day, code, redeeming, auto, clawing, resets, mintedBy>>
    BY DEF Reschedule
  <1>2. ASSUME NEW i \in CardIds
        PROVE  /\ card'[i] \in CardRow
               /\ \/ card'[i] = card[i]
                  \/ ~Locked(i) /\ ~card[i].used /\ ~card'[i].used /\ card'[i].owner = card[i].owner
    <2>1. card[i] \in CardRow  BY <1>0
    <2>2. CASE i \in ids /\ ~card[i].used
      <3>1. card'[i] = [card[i] EXCEPT !.expires = to]  BY <1>1, <2>2
      <3>2. to \in 0..(LastDay + 1)  BY CardConstants
      <3> QED  BY <1>1, <2>1, <2>2, <3>1, <3>2 DEF CardRow
    <2>3. CASE ~(i \in ids /\ ~card[i].used)  BY <1>1, <2>1, <2>3
    <2> QED  BY <2>2, <2>3
  <1>3. card' \in [CardIds -> CardRow]  BY <1>1, <1>2
  <1>4. CardsTypeOK'  BY Zenon, <1>0, <1>1, <1>3 DEF CardsTypeOK, CardRow
  <1>5. ASSUME NEW i \in CardIds
        PROVE  card'[i] = card[i]
               \/ (~Locked(i) /\ (card'[i].owner # "none" => ~card'[i].used /\ resets[i] = 0))
    <2>1. Paid(i)  BY DEF CardsInv
    <2> QED  BY Zenon, <1>2, <2>1 DEF Paid
  <1>6. UNCHANGED <<code, redeeming, mintedBy, auto, resets>>  BY <1>1
  <1> QED  BY <1>4, <1>5, <1>6, CardChanges

LEMMA RevokeCardStep == ASSUME CardsInv, NEW i \in CardIds, RevokeCard(i) PROVE CardsInv'
  <1>0. CardsTypeOK /\ card \in [CardIds -> CardRow]  BY CardTypes DEF CardsInv
  <1>1. /\ ~Locked(i) /\ card' = [card EXCEPT ![i] = CardGone]
        /\ UNCHANGED <<day, code, redeeming, auto, clawing, resets, mintedBy>>
    BY DEF RevokeCard
  <1>2. CardGone \in CardRow /\ CardGone.owner = "none"  BY CardConstants DEF CardGone, CardRow
  <1>3. card' \in [CardIds -> CardRow] /\ card'[i] = CardGone /\ \A j \in CardIds : j # i => card'[j] = card[j]
    BY <1>0, <1>1, <1>2
  <1>4. CardsTypeOK'  BY Zenon, <1>0, <1>1, <1>3 DEF CardsTypeOK, CardRow
  <1>5. UNCHANGED <<code, redeeming, mintedBy, auto, resets>>  BY <1>1
  <1>6. ASSUME NEW j \in CardIds
        PROVE  card'[j] = card[j]
               \/ (~Locked(j) /\ (card'[j].owner # "none" => ~card'[j].used /\ resets[j] = 0))
    BY Zenon, <1>1, <1>2, <1>3
  <1> QED  BY <1>4, <1>5, <1>6, CardChanges

LEMMA BeginClawStep == ASSUME CardsInv, NEW u \in Holders, BeginClaw(u) PROVE CardsInv'
  <1>0. CardsTypeOK  BY CardTypes DEF CardsInv
  <1>1. PICK ids \in SUBSET Available(u, day) : clawing' = [owner |-> u, ids |-> ids]  BY DEF BeginClaw
  <1>2. ids \subseteq CardIds  BY DEF Available, Owned
  <1>3. clawing' \in [owner : Holders \cup {"none"}, ids : SUBSET CardIds]  BY <1>1, <1>2
  <1>4. UNCHANGED <<day, card, code, redeeming, auto, resets, mintedBy>>  BY DEF BeginClaw
  <1>5. CardsTypeOK'  BY Zenon, <1>0, <1>3, <1>4 DEF CardsTypeOK
  <1> QED  BY <1>4, <1>5, CardsStay

LEMMA EndClawStep == ASSUME CardsInv, EndClaw PROVE CardsInv'
  <1>0. CardsTypeOK /\ card \in [CardIds -> CardRow]  BY CardTypes DEF CardsInv
  <1>1. /\ \A i \in clawing.ids : ~Locked(i)
        /\ card' = [i \in CardIds |-> IF i \in clawing.ids /\ card[i].owner = clawing.owner /\ Takes(i)
                                      THEN CardGone ELSE card[i]]
        /\ clawing' = NoClaw /\ UNCHANGED <<day, code, redeeming, auto, resets, mintedBy>>
    BY DEF EndClaw
  <1>2. CardGone \in CardRow /\ CardGone.owner = "none"  BY CardConstants DEF CardGone, CardRow
  <1>3. card' \in [CardIds -> CardRow]
        /\ \A i \in CardIds : card'[i] = card[i] \/ (~Locked(i) /\ card'[i] = CardGone)
    BY <1>0, <1>1, <1>2
  <1>4. clawing' \in [owner : Holders \cup {"none"}, ids : SUBSET CardIds]  BY <1>1 DEF NoClaw
  <1>5. CardsTypeOK'  BY Zenon, <1>0, <1>1, <1>3, <1>4 DEF CardsTypeOK, CardRow
  <1>6. UNCHANGED <<code, redeeming, mintedBy, auto, resets>>  BY <1>1
  <1>7. ASSUME NEW j \in CardIds
        PROVE  card'[j] = card[j]
               \/ (~Locked(j) /\ (card'[j].owner # "none" => ~card'[j].used /\ resets[j] = 0))
    BY Zenon, <1>2, <1>3
  <1> QED  BY <1>5, <1>6, <1>7, CardChanges

LEMMA NextDayStep == ASSUME CardsInv, NextDay PROVE CardsInv'
  <1>0. CardsTypeOK /\ day \in 1..LastDay  BY CardTypes DEF CardsInv
  <1>1. day' \in 1..LastDay /\ UNCHANGED <<card, code, redeeming, auto, clawing, resets, mintedBy>>
    BY <1>0, CardConstants DEF NextDay
  <1>2. CardsTypeOK'  BY Zenon, <1>0, <1>1 DEF CardsTypeOK
  <1> QED  BY <1>1, <1>2, CardsStay

LEMMA CardsStart == ASSUME CardsInit PROVE CardsInv
  <1>1. /\ day = 1 /\ card = [i \in CardIds |-> NoCard] /\ auto = Calm /\ clawing = NoClaw
        /\ code = [c \in Codes |-> [exists |-> TRUE, claimed |-> 0, by |-> {}]]
        /\ redeeming = [u \in Holders |-> NoRedemption] /\ resets = [i \in CardIds |-> 0]
        /\ mintedBy = [c \in Codes |-> [u \in Holders |-> 0]]
    BY DEF CardsInit
  <1>2. CardsTypeOK
    <2>1. /\ NoCard \in CardRow /\ NoRedemption \in [code : Codes \cup {"none"}, at : 0..LastDay]
          /\ NoClaw \in [owner : Holders \cup {"none"}, ids : SUBSET CardIds] /\ 1 \in 1..LastDay
      BY CardConstants DEF NoCard, CardRow, NoRedemption, NoClaw
    <2>2. /\ card \in [CardIds -> CardRow] /\ resets \in [CardIds -> Nat]
          /\ redeeming \in [Holders -> [code : Codes \cup {"none"}, at : 0..LastDay]]
      BY <1>1, <2>1
    <2>3. code \in [Codes -> CardCodeRow]  BY <1>1 DEF CardCodeRow
    <2>4. mintedBy \in [Codes -> [Holders -> Nat]]  BY <1>1
    <2> QED  BY <1>1, <2>1, <2>2, <2>3, <2>4, CalmRow, CardTypes
  <1>3. CodesBounded
    <2> SUFFICES ASSUME NEW c \in Codes
                 PROVE  /\ \A u \in Holders : mintedBy[c][u] <= 1
                        /\ code[c].claimed = Cardinality({u \in Holders : mintedBy[c][u] > 0})
                        /\ code[c].claimed <= CodeCards[c]
      BY DEF CodesBounded
    <2>1. code[c].claimed = 0 /\ \A u \in Holders : mintedBy[c][u] = 0  BY <1>1
    <2>2. {u \in Holders : mintedBy[c][u] > 0} = {}  BY <2>1
    <2> QED  BY <2>1, <2>2, FS_EmptySet, CardConstants
  <1>4. ASSUME NEW i \in CardIds PROVE Paid(i)  BY <1>1 DEF Paid, NoCard
  <1>5. AutoHolds /\ RedeemingKnown  BY <1>1, CalmRow DEF AutoHolds, RedeemingKnown
  <1>6. ASSUME NEW c \in Codes PROVE ByMinted(c)  BY <1>1 DEF ByMinted
  <1> QED  BY <1>2, <1>3, <1>4, <1>5, <1>6 DEF CardsInv

LEMMA CardsStep == ASSUME CardsInv, [CardsNext]_cardVars PROVE CardsInv'
  <1>1. ASSUME NEW u \in Holders, Grant(u) \/ Redeem(u) \/ BeginAuto(u) \/ BeginClaw(u) PROVE CardsInv'
    <2>1. CASE Grant(u)  BY <2>1, GrantStep
    <2>2. CASE Redeem(u)  BY <2>2, RedeemCardStep
    <2>3. CASE BeginAuto(u)  BY <2>3, BeginAutoStep
    <2>4. CASE BeginClaw(u)  BY <2>4, BeginClawStep
    <2> QED  BY <1>1, <2>1, <2>2, <2>3, <2>4
  <1>2. ASSUME NEW u \in Holders, NEW c \in Codes, LookUp(u, c) PROVE CardsInv'  BY <1>2, LookUpStep
  <1>3. ASSUME NEW c \in Codes, DeleteCode(c) PROVE CardsInv'  BY <1>3, DeleteCodeStep
  <1>4. ASSUME NEW u \in Holders, NEW i \in CardIds, Use(u, i) PROVE CardsInv'  BY <1>4, UseStep
  <1>5. ASSUME NEW u \in Holders, NEW ids \in SUBSET CardIds, NEW to \in 2..(LastDay + 1), Reschedule(u, ids, to)
        PROVE  CardsInv'
    BY <1>5, RescheduleStep
  <1>6. ASSUME NEW i \in CardIds, RevokeCard(i) PROVE CardsInv'  BY <1>6, RevokeCardStep
  <1>7. CASE ReadNext \/ MarkNext \/ EndAuto  BY <1>7, ReadNextStep, MarkNextStep, EndAutoStep
  <1>8. CASE EndClaw \/ NextDay  BY <1>8, EndClawStep, NextDayStep
  <1>9. CASE UNCHANGED cardVars
    <2>1. UNCHANGED <<code, redeeming, mintedBy, card, resets>> /\ auto' = auto  BY <1>9 DEF cardVars
    <2>2. CardsTypeOK'  BY Zenon, <1>9 DEF cardVars, CardsInv, CardsTypeOK
    <2> QED  BY <2>1, <2>2, CardsStay
  <1> QED  BY <1>1, <1>2, <1>3, <1>4, <1>5, <1>6, <1>7, <1>8, <1>9 DEF CardsNext

\* A code mints no more cards than it carries and one for each account, and each reset was
\* bought by a card of its own (card.go:261-366, 861-970).
THEOREM CardsSound == CardsSpec => []CardsHold
  <1>1. CardsInv => CardsHold
    BY Zenon DEF CardsInv, CardsHold, ResetsPaid, Paid
  <1> QED  BY <1>1, CardsStart, CardsStep, PTL DEF CardsSpec
=============================================================================
