----------------------------- MODULE ChatProofs -----------------------------
(***************************************************************************)
(* Theorems about Chat, for any number of turns, pictures and messages.     *)
(***************************************************************************)
EXTENDS Chat, FiniteSetTheorems, WellFoundedInduction, TLAPS

(***************************************************************************)
(* The slots                                                               *)
(***************************************************************************)

Holding == {t \in Turns : slot[t]}

\* What keeps the count exact: a turn that has not begun, or is over, holds no
\* slot, so that no claim finds one held already.
SlotInv ==
    /\ inFlight \in Nat
    /\ slot \in [Turns -> BOOLEAN]
    /\ pc \in [Turns -> Waypoints]
    /\ \A t \in Turns : pc[t] = "new" => ~slot[t]
    /\ inFlight = Cardinality(Holding)

LEMMA HoldingFinite == IsFiniteSet(Holding) /\ IsFiniteSet(Holding')
  BY ChatAssumption, FS_Subset DEF ChatAssumption, Holding

\* A step that leaves the slots alone and makes no turn new.
LEMMA SlotsKept ==
    ASSUME SlotInv, UNCHANGED slots, pc' \in [Turns -> Waypoints],
           \A t \in Turns : pc'[t] = "new" => pc[t] = "new"
    PROVE  SlotInv'
  BY DEF SlotInv, slots, Holding

LEMMA ClaimStep ==
    ASSUME SlotInv, NEW t \in Turns, Begin(t)
    PROVE  SlotInv'
  <1>1. pc[t] = "new" /\ pc' = [pc EXCEPT ![t] = "claimed"]  BY DEF Begin, Goes
  <1>2. pc' \in [Turns -> Waypoints] /\ \A u \in Turns : pc'[u] = "new" => u # t /\ pc[u] = "new"
    BY <1>1 DEF SlotInv, Waypoints
  <1>3. CASE UNCHANGED slots  BY <1>2, <1>3, SlotsKept
  <1>4. CASE inFlight' = inFlight + 1 /\ slot' = [slot EXCEPT ![t] = TRUE]
    <2>1. ~slot[t]  BY <1>1 DEF SlotInv
    <2>2. slot' \in [Turns -> BOOLEAN]  BY <1>4 DEF SlotInv
    <2>3. slot'[t] /\ \A u \in Turns : u # t => slot'[u] = slot[u]
      BY <1>4 DEF SlotInv
    <2>4. Holding' = Holding \union {t} /\ t \notin Holding
      BY Zenon, <2>1, <2>3 DEF Holding
    <2>5. Cardinality(Holding') = Cardinality(Holding) + 1
      BY <2>4, HoldingFinite, FS_AddElement
    <2>6. \A u \in Turns : pc'[u] = "new" => ~slot'[u]
      BY Zenon, <1>2, <2>3 DEF SlotInv
    <2> QED  BY <1>2, <1>4, <2>2, <2>5, <2>6 DEF SlotInv
  <1> QED  BY Zenon, <1>3, <1>4 DEF Begin

LEMMA FreeStep ==
    ASSUME SlotInv, NEW t \in Turns, FreeSlot(t), pc' = [pc EXCEPT ![t] = "done"]
    PROVE  SlotInv'
  <1>1. slot' = [slot EXCEPT ![t] = FALSE]  BY DEF FreeSlot
  <1>2. slot' \in [Turns -> BOOLEAN]  BY <1>1 DEF SlotInv
  <1>3. ~slot'[t] /\ \A u \in Turns : u # t => slot'[u] = slot[u]  BY <1>1 DEF SlotInv
  <1>4. pc' \in [Turns -> Waypoints] /\ \A u \in Turns : pc'[u] = "new" => u # t /\ pc[u] = "new"
    BY DEF SlotInv, Waypoints
  <1>5. \A u \in Turns : pc'[u] = "new" => ~slot'[u]  BY Zenon, <1>3, <1>4 DEF SlotInv
  <1>6. CASE ~slot[t]
    <2>1. Holding' = Holding  BY Zenon, <1>3, <1>6 DEF Holding
    <2>2. inFlight' = inFlight  BY <1>6 DEF FreeSlot
    <2> QED  BY <1>2, <1>4, <1>5, <2>1, <2>2 DEF SlotInv
  <1>7. CASE slot[t]
    <2>1. Holding' = Holding \ {t} /\ t \in Holding  BY Zenon, <1>3, <1>7 DEF Holding
    <2>2. Cardinality(Holding') = Cardinality(Holding) - 1
      BY <2>1, HoldingFinite, FS_RemoveElement
    <2>3. Cardinality(Holding') \in Nat  BY HoldingFinite, FS_CardinalityType
    <2>4. inFlight' = IF inFlight <= 1 THEN 0 ELSE inFlight - 1  BY <1>7 DEF FreeSlot
    <2>5. inFlight' \in Nat /\ inFlight' = Cardinality(Holding')
      BY <2>2, <2>3, <2>4 DEF SlotInv
    <2> QED  BY <1>2, <1>4, <1>5, <2>5 DEF SlotInv
  <1> QED  BY <1>6, <1>7

LEMMA CrashSlots ==
    ASSUME SlotInv, Crash
    PROVE  SlotInv'
  <1>1. slot' = [t \in Turns |-> FALSE] /\ inFlight' = 0  BY DEF Crash
  <1>2. Holding' = {}  BY <1>1 DEF Holding
  <1>3. pc' \in [Turns -> Waypoints]  BY DEF Crash, SlotInv, Waypoints
  <1> QED  BY <1>1, <1>2, <1>3, FS_EmptySet DEF SlotInv

\* Every other step moves one turn on and leaves the slots alone.
LEMMA OtherSlots ==
    ASSUME SlotInv, NEW t \in Turns,
           \/ BeginRefused(t) \/ Reserve(t) \/ Precheck(t) \/ PrecheckRefused(t)
           \/ OpenTurn(t) \/ OpenRefused(t) \/ ReadHistory(t) \/ LoadPictures(t)
           \/ ProviderReturns(t) \/ Abandon(t) \/ Save(t) \/ SaveRefused(t) \/ RecordTurn(t) \/ Discard(t)
    PROVE  SlotInv'
  <1>1. UNCHANGED slots
    BY Zenon DEF BeginRefused, Reserve, Precheck, PrecheckRefused, OpenTurn, OpenRefused,
         ReadHistory, LoadPictures, ProviderReturns, Abandon, Replies, SaysNothing, Save, SaveRefused,
         RecordTurn, Discard
  <1>2. \E to \in Waypoints \ {"new"} : pc' = [pc EXCEPT ![t] = to]
    BY DEF BeginRefused, Reserve, Precheck, PrecheckRefused, OpenTurn, OpenRefused,
         ReadHistory, LoadPictures, ProviderReturns, Abandon, Replies, SaysNothing, Save, SaveRefused,
         RecordTurn, Discard, Goes, Waypoints
  <1>3. pc' \in [Turns -> Waypoints] /\ \A u \in Turns : pc'[u] = "new" => pc[u] = "new"
    BY <1>2 DEF SlotInv
  <1> QED  BY <1>1, <1>3, SlotsKept

LEMMA SlotStep ==
    ASSUME SlotInv, [ChatNext]_chatVars
    PROVE  SlotInv'
  <1>1. CASE UNCHANGED chatVars  BY <1>1, SlotsKept DEF chatVars, SlotInv
  <1>2. ASSUME NEW t \in Turns, Begin(t) \/ BeginRefused(t) \/ Step(t) PROVE SlotInv'
    <2>1. CASE Begin(t)  BY <2>1, ClaimStep
    <2>2. CASE ReserveRefused(t)  BY <2>2, FreeStep DEF ReserveRefused, Goes
    <2>3. CASE Leave(t)  BY <2>3, FreeStep DEF Leave, Goes
    <2> QED  BY Zenon, <1>2, <2>1, <2>2, <2>3, OtherSlots DEF Step
  <1>3. CASE Meanwhile
    <2>1. CASE Crash  BY <2>1, CrashSlots
    <2>2. CASE ~Crash
      <3>1. UNCHANGED slots /\ UNCHANGED pc
        BY Zenon, <1>3, <2>2 DEF Meanwhile, SetCap, UpdateMessage, DeleteConversation, Sweep,
             DeleteOrphans, DiscardBefore
      <3> QED  BY <3>1, SlotsKept DEF SlotInv
    <2> QED  BY <2>1, <2>2
  <1> QED  BY Zenon, <1>1, <1>2, <1>3 DEF ChatNext

\* quota.Service.inFlight counts exactly the turns that hold a slot, whatever the
\* number of turns and however the limit changes while they run.
THEOREM SlotsCounted == ChatSpec => []SlotsExact
  <1>1. ChatInit => SlotInv
    <2> SUFFICES ASSUME ChatInit PROVE SlotInv  OBVIOUS
    <2>1. Holding = {}  BY DEF ChatInit, Holding
    <2> QED  BY <2>1, FS_EmptySet DEF ChatInit, SlotInv, Waypoints
  <1>2. SlotInv /\ [ChatNext]_chatVars => SlotInv'  BY SlotStep
  <1>3. SlotInv => SlotsExact  BY DEF SlotInv, SlotsExact, Holding
  <1> QED  BY <1>1, <1>2, <1>3, PTL DEF ChatSpec

(***************************************************************************)
(* The answers                                                             *)
(***************************************************************************)

Before == {"new", "claimed", "reserved", "checked", "opened"}
AtWork == {"opened", "read", "asked", "returned"}

\* No edit, rewind or deletion since the turn captured its branch.
Current(t) == pc[t] \in AtWork /\ thread.status = "open" /\ branch[t] = thread.revision
\* What the turn was told is in the transcript still is.
Stands(t) ==
    /\ sent[t] \subseteq messages
    /\ request[t].question => Question(t) \in Ids(messages)

\* The variables of the turns are functions on Turns.
Shape ==
    /\ pc \in [Turns -> Waypoints]
    /\ request = [t \in Turns |-> request[t]]
    /\ sent = [t \in Turns |-> sent[t]]
    /\ branch \in [Turns -> Nat \union {NotOpened}]
    /\ thread.revision \in Nat

\* A captured branch is never ahead of the conversation's, so that a step that
\* moves the conversation on leaves every turn behind for good.
TranscriptInv ==
    /\ Shape
    /\ \A t \in Turns : branch[t] <= thread.revision
    /\ thread.status = "none" => \A t \in Turns : branch[t] = NotOpened
    /\ \A t \in Turns : pc[t] \in Before => sent[t] = {}
    /\ \A t \in Turns : Current(t) => Stands(t)

LEMMA IdsGrow == ASSUME NEW S, NEW T, S \subseteq T PROVE Ids(S) \subseteq Ids(T)
  BY Zenon DEF Ids

\* A step that writes no message, moves no branch and starts no work.
LEMMA Unwritten ==
    ASSUME TranscriptInv, UNCHANGED <<thread, messages, branch, sent, request>>,
           pc' \in [Turns -> Waypoints],
           \A t \in Turns : /\ pc'[t] \in Before => pc[t] \in Before
                            /\ pc'[t] \in AtWork => pc[t] \in AtWork
    PROVE  TranscriptInv'
  BY DEF TranscriptInv, Shape, Current, Stands

LEMMA MovesOn ==
    ASSUME TranscriptInv, NEW t \in Turns,
           \/ BeginRefused(t) \/ Reserve(t) \/ Precheck(t) \/ PrecheckRefused(t)
           \/ OpenRefused(t) \/ LoadPictures(t) \/ ProviderReturns(t) \/ Abandon(t)
           \/ SaveRefused(t) \/ RecordTurn(t) \/ Discard(t)
    PROVE  TranscriptInv'
  <1>1. UNCHANGED <<thread, messages, branch, sent, request>>
    BY Zenon DEF BeginRefused, Reserve, Precheck, PrecheckRefused, OpenRefused, LoadPictures,
         ProviderReturns, Abandon, Replies, SaysNothing, SaveRefused, RecordTurn, Discard, content, locals
  <1>2. \E to \in Waypoints :
          /\ pc' = [pc EXCEPT ![t] = to]
          /\ to \in Before => pc[t] \in Before
          /\ to \in AtWork => pc[t] \in AtWork
    BY DEF BeginRefused, Reserve, Precheck, PrecheckRefused, OpenRefused, LoadPictures,
         ProviderReturns, Abandon, Replies, SaysNothing, SaveRefused, RecordTurn, Discard, Goes,
         Waypoints, Before, AtWork
  <1>3. pc \in [Turns -> Waypoints]  BY DEF TranscriptInv, Shape
  <1> QED  BY <1>1, <1>2, <1>3, Unwritten

\* A turn that has left Before and AtWork, or never entered AtWork, asks nothing
\* of the invariant; its variables may change.
LEMMA Departs ==
    ASSUME TranscriptInv, UNCHANGED <<thread, messages, branch>>,
           request' = [t \in Turns |-> request'[t]], sent' = [t \in Turns |-> sent'[t]],
           pc' \in [Turns -> Waypoints],
           \A t \in Turns :
             \/ request'[t] = request[t] /\ sent'[t] = sent[t] /\ pc'[t] = pc[t]
             \/ sent'[t] = {} /\ pc'[t] \notin AtWork
             \/ pc'[t] \notin Before \union AtWork
    PROVE  TranscriptInv'
  <1>1. Shape'  BY DEF TranscriptInv, Shape
  <1>2. \A t \in Turns : pc'[t] \in Before => sent'[t] = {}
    BY Zenon DEF TranscriptInv
  <1>3. \A t \in Turns : Current(t)' => Stands(t)'
    BY Zenon DEF TranscriptInv, Current, Stands
  <1> QED  BY Zenon, <1>1, <1>2, <1>3 DEF TranscriptInv

LEMMA BeginStep ==
    ASSUME TranscriptInv, NEW t \in Turns, Begin(t)
    PROVE  TranscriptInv'
  <1>1. UNCHANGED <<thread, messages, branch, sent>>  BY DEF Begin, content
  <1>2. pc[t] = "new" /\ pc' = [pc EXCEPT ![t] = "claimed"]  BY DEF Begin, Goes
  <1>3. PICK r \in Request : request' = [request EXCEPT ![t] = r]  BY Zenon DEF Begin
  <1>4. pc \in [Turns -> Waypoints] /\ request = [u \in Turns |-> request[u]]
        /\ sent = [u \in Turns |-> sent[u]]
    BY Zenon DEF TranscriptInv, Shape
  <1>5. sent[t] = {}  BY <1>2 DEF TranscriptInv, Before
  <1>6. request' = [u \in Turns |-> request'[u]] /\ \A u \in Turns : u # t => request'[u] = request[u]
    BY <1>3, <1>4
  <1>7. /\ pc' \in [Turns -> Waypoints]
        /\ pc'[t] \notin AtWork
        /\ \A u \in Turns : u # t => pc'[u] = pc[u]
    BY <1>2, <1>4 DEF Waypoints, AtWork
  <1>8. sent' = [u \in Turns |-> sent'[u]]  BY <1>1, <1>4
  <1> QED  BY Zenon, <1>1, <1>5, <1>6, <1>7, <1>8, Departs

LEMMA EndStep ==
    ASSUME TranscriptInv, NEW t \in Turns, Leave(t) \/ ReserveRefused(t)
    PROVE  TranscriptInv'
  <1>1. UNCHANGED <<thread, messages, branch>>  BY DEF Leave, ReserveRefused, content
  <1>2. pc' = [pc EXCEPT ![t] = "done"]  BY DEF Leave, ReserveRefused, Goes
  <1>3. pc \in [Turns -> Waypoints] /\ request = [u \in Turns |-> request[u]]
        /\ sent = [u \in Turns |-> sent[u]]
    BY Zenon DEF TranscriptInv, Shape
  <1>4. /\ request' = [u \in Turns |-> request'[u]]
        /\ sent' = [u \in Turns |-> sent'[u]]
        /\ \A u \in Turns : u # t => request'[u] = request[u] /\ sent'[u] = sent[u]
    BY <1>3 DEF Leave, ReserveRefused, Forgets
  <1>5. /\ pc' \in [Turns -> Waypoints]
        /\ pc'[t] \notin Before \union AtWork
        /\ \A u \in Turns : u # t => pc'[u] = pc[u]
    BY <1>2, <1>3 DEF Waypoints, AtWork, Before
  <1> QED  BY Zenon, <1>1, <1>4, <1>5, Departs

LEMMA CrashStep ==
    ASSUME TranscriptInv, Crash
    PROVE  TranscriptInv'
  <1>1. UNCHANGED <<thread, messages, branch>>  BY DEF Crash, content
  <1>2. pc' = [t \in Turns |-> IF t \in Running THEN "lost" ELSE pc[t]]  BY DEF Crash
  <1>3. pc \in [Turns -> Waypoints]  BY DEF TranscriptInv, Shape
  <1>4. /\ request' = [t \in Turns |-> request'[t]]
        /\ sent' = [t \in Turns |-> sent'[t]]
        /\ \A t \in Turns \ Running : request'[t] = request[t] /\ sent'[t] = sent[t]
    BY DEF Crash, Forgets
  <1>5. pc' \in [Turns -> Waypoints] /\ \A t \in Turns :
          IF t \in Running THEN pc'[t] \notin Before \union AtWork ELSE pc'[t] = pc[t]
    BY <1>2, <1>3 DEF Waypoints, AtWork, Before
  <1> QED  BY Zenon, <1>1, <1>4, <1>5, Departs

LEMMA ReadStep ==
    ASSUME TranscriptInv, NEW t \in Turns, ReadHistory(t)
    PROVE  TranscriptInv'
  <1>1. UNCHANGED <<thread, messages, branch, request>>  BY DEF ReadHistory, content
  <1>2. /\ pc[t] = "opened" /\ pc' = [pc EXCEPT ![t] = "read"]
        /\ sent' = [sent EXCEPT ![t] = History]
    BY DEF ReadHistory, Goes
  <1>3. History \subseteq messages  BY Zenon DEF History
  <1>4. Shape  BY DEF TranscriptInv
  <1>5. Shape'  BY <1>1, <1>2, <1>4 DEF Shape, Waypoints
  <1>6. \A u \in Turns : u # t => pc'[u] = pc[u] /\ sent'[u] = sent[u]
    BY <1>2, <1>4 DEF Shape
  <1>7. pc'[t] = "read" /\ sent'[t] = History  BY <1>2, <1>4 DEF Shape
  <1>8. \A u \in Turns : pc'[u] \in Before => sent'[u] = {}
    BY <1>6, <1>7 DEF TranscriptInv, Before
  <1>9. ASSUME NEW u \in Turns, Current(u)' PROVE Stands(u)'
    <2>1. Current(u)
      BY <1>1, <1>2, <1>6, <1>9 DEF Current, AtWork
    <2>2. Stands(u)  BY <2>1 DEF TranscriptInv
    <2>3. sent'[u] \subseteq messages  BY Zenon, <1>3, <1>6, <1>7, <2>2 DEF Stands
    <2> QED  BY Zenon, <1>1, <2>2, <2>3 DEF Stands
  <1> QED  BY <1>1, <1>5, <1>8, <1>9 DEF TranscriptInv

LEMMA SaveStep ==
    ASSUME TranscriptInv, NEW t \in Turns, Save(t)
    PROVE  TranscriptInv'
  <1>1. UNCHANGED <<thread, branch, request, sent>>  BY DEF Save, locals
  <1>2. messages \subseteq messages'  BY Zenon DEF Save
  <1>3. pc' = [pc EXCEPT ![t] = "saved"]  BY DEF Save, Goes
  <1>4. Shape  BY DEF TranscriptInv
  <1>5. Shape'  BY <1>1, <1>3, <1>4 DEF Shape, Waypoints
  <1>6. \A u \in Turns : /\ pc'[u] \in Before => pc[u] \in Before
                         /\ pc'[u] \in AtWork => pc[u] \in AtWork
    BY <1>3, <1>4 DEF Shape, Before, AtWork
  <1>7. Ids(messages) \subseteq Ids(messages')  BY <1>2, IdsGrow
  <1>8. \A u \in Turns : Current(u)' => Stands(u)'
    <2> SUFFICES ASSUME NEW u \in Turns, Current(u)' PROVE Stands(u)'  OBVIOUS
    <2>1. Current(u)  BY Zenon, <1>1, <1>6 DEF Current
    <2>2. Stands(u)  BY <2>1 DEF TranscriptInv
    <2>3. Ids(messages)' = Ids(messages')  BY DEF Ids
    <2> QED  BY Zenon, <1>1, <1>2, <1>7, <2>2, <2>3 DEF Stands
  <1> QED  BY Zenon, <1>1, <1>5, <1>6, <1>8 DEF TranscriptInv

\* A step of a turn, or of another tab, that moves the branch on or ends the
\* conversation leaves no turn that opened before it current.
LEMMA Superseded ==
    ASSUME TranscriptInv, NEW u \in Turns, branch'[u] = branch[u],
           \/ thread'.revision = thread.revision + 1
           \/ thread'.status = "deleted"
    PROVE  ~Current(u)'
  <1>1. branch[u] <= thread.revision /\ thread.revision \in Nat /\ branch[u] \in Int
    BY DEF TranscriptInv, Shape, NotOpened
  <1>2. CASE thread'.revision = thread.revision + 1  BY <1>1, <1>2 DEF Current
  <1>3. CASE thread'.status = "deleted"  BY <1>3 DEF Current
  <1> QED  BY <1>2, <1>3

LEMMA OpenStep ==
    ASSUME TranscriptInv, NEW t \in Turns, OpenTurn(t)
    PROVE  TranscriptInv'
  <1> DEFINE r == request[t]
             tail == IF r.rewind = NoMessage THEN {} ELSE TailFrom(r.rewind)
             kept == messages \ tail
             revision == thread.revision + (IF r.rewind = NoMessage THEN 0 ELSE 1)
             asked == [id |-> Question(t), seq |-> NextSeq(kept), usable |-> TRUE,
                       version |-> 0, pictures |-> r.pictures]
  <1>1. /\ pc[t] = "checked" /\ Present(r)
        /\ thread' = [status |-> "open", revision |-> revision]
        /\ messages' = IF r.question THEN kept \union {asked} ELSE kept
        /\ branch' = [branch EXCEPT ![t] = revision]
        /\ pc' = [pc EXCEPT ![t] = "opened"]
        /\ UNCHANGED <<request, sent>>
    BY Zenon DEF OpenTurn, Goes
  <1>2. asked.id = Question(t)  OBVIOUS
  <1> HIDE DEF asked
  <1>3. Shape  BY DEF TranscriptInv
  <1>4. /\ thread.revision \in Nat /\ thread'.revision = revision /\ thread'.status = "open"
        /\ revision \in Nat /\ thread.revision <= revision
    BY <1>1, <1>3 DEF Shape
  <1>5. /\ branch'[t] = revision /\ pc'[t] = "opened"
        /\ \A u \in Turns : u # t => branch'[u] = branch[u] /\ pc'[u] = pc[u]
    BY <1>1, <1>3 DEF Shape
  <1>6. Shape'  BY <1>1, <1>3, <1>4 DEF Shape, Waypoints
  <1>7. \A u \in Turns : branch'[u] <= thread'.revision
    BY <1>3, <1>4, <1>5 DEF TranscriptInv, Shape, NotOpened
  <1>8. \A u \in Turns : pc'[u] \in Before => sent'[u] = {}
    BY <1>1, <1>5 DEF TranscriptInv, Before
  <1>9. Stands(t)'
    <2>1. sent'[t] = {}  BY <1>5, <1>8 DEF Before
    <2>2. request'[t].question => Question(t) \in Ids(messages')
      BY Zenon, <1>1, <1>2 DEF Ids
    <2> QED  BY <2>1, <2>2 DEF Stands, Question
  <1>10. ASSUME NEW u \in Turns, u # t, Current(u)' PROVE Stands(u)'
    <2>1. branch'[u] = branch[u] /\ pc'[u] = pc[u]  BY <1>5, <1>10
    <2>2. r.rewind = NoMessage  BY <1>4, <1>10, <2>1, Superseded
    <2>3. revision = thread.revision  BY <1>4, <2>2
    <2>4. branch[u] = thread.revision  BY <1>4, <1>10, <2>1, <2>3 DEF Current
    <2>5. thread.status = "open"
      <3>1. thread.status \in {"open", "none"}  BY <1>1 DEF Present
      <3>2. branch[u] # NotOpened  BY <1>4, <2>4 DEF NotOpened
      <3> QED  BY <3>1, <3>2 DEF TranscriptInv
    <2>6. Current(u)  BY <1>10, <2>1, <2>4, <2>5 DEF Current
    <2>7. Stands(u)  BY <2>6 DEF TranscriptInv
    <2>8. messages \subseteq messages'  BY <1>1, <2>2
    <2>9. Ids(messages) \subseteq Ids(messages')  BY <2>8, IdsGrow
    <2>10. sent'[u] \subseteq messages'  BY <1>1, <2>7, <2>8 DEF Stands
    <2>11. request'[u].question => Question(u) \in Ids(messages')
      BY <1>1, <2>7, <2>9 DEF Stands
    <2> QED  BY <2>10, <2>11 DEF Stands, Question, Ids
  <1> QED  BY <1>4, <1>6, <1>7, <1>8, <1>9, <1>10 DEF TranscriptInv

LEMMA EditStep ==
    ASSUME TranscriptInv, NEW m \in messages, UpdateMessage(m)
    PROVE  TranscriptInv'
  <1>1. UNCHANGED <<branch, request, sent, pc>>  BY DEF UpdateMessage, locals
  <1>2. thread' = [status |-> thread.status, revision |-> thread.revision + 1]
    BY DEF UpdateMessage
  <1>3. thread.revision \in Nat  BY DEF TranscriptInv, Shape
  <1>4. thread'.status = thread.status /\ thread'.revision = thread.revision + 1  BY <1>2
  <1>5. Shape'  BY <1>1, <1>3, <1>4 DEF TranscriptInv, Shape
  <1>6. \A u \in Turns : branch'[u] <= thread'.revision
    BY <1>1, <1>3, <1>4 DEF TranscriptInv, Shape, NotOpened
  <1>7. \A u \in Turns : ~Current(u)'  BY <1>1, <1>4, Superseded
  <1> QED  BY <1>1, <1>4, <1>5, <1>6, <1>7 DEF TranscriptInv

LEMMA DeleteStep ==
    ASSUME TranscriptInv, DeleteConversation
    PROVE  TranscriptInv'
  <1>1. UNCHANGED <<branch, request, sent, pc>>  BY DEF DeleteConversation, locals
  <1>2. thread' = [status |-> "deleted", revision |-> thread.revision]
    BY DEF DeleteConversation
  <1>3. thread'.status = "deleted" /\ thread'.revision = thread.revision  BY <1>2
  <1>4. Shape'  BY <1>1, <1>3 DEF TranscriptInv, Shape
  <1>5. \A u \in Turns : ~Current(u)'  BY <1>1, <1>3, Superseded
  <1> QED  BY <1>1, <1>3, <1>4, <1>5 DEF TranscriptInv

LEMMA TranscriptStep ==
    ASSUME TranscriptInv, [ChatNext]_chatVars
    PROVE  TranscriptInv'
  <1>1. CASE UNCHANGED chatVars
    BY <1>1, Unwritten DEF chatVars, content, locals, TranscriptInv, Shape
  <1>2. ASSUME NEW t \in Turns, Begin(t) \/ BeginRefused(t) \/ Step(t) PROVE TranscriptInv'
    BY Zenon, <1>2, BeginStep, MovesOn, EndStep, OpenStep, ReadStep, SaveStep DEF Step
  <1>3. CASE Meanwhile
    <2>1. CASE SetCap \/ Sweep
      <3>1. UNCHANGED <<thread, messages, branch, sent, request, pc>>
        BY Zenon, <2>1 DEF SetCap, Sweep, DeleteOrphans, DiscardBefore, content, locals
      <3> QED  BY <3>1, Unwritten DEF TranscriptInv, Shape
    <2> QED  BY Zenon, <1>3, <2>1, EditStep, DeleteStep, CrashStep DEF Meanwhile
  <1> QED  BY Zenon, <1>1, <1>2, <1>3 DEF ChatNext

\* The one step that stores an answer is the turn's own append.
LEMMA OnlySaveAnswers ==
    ASSUME NEW t \in Turns, [ChatNext]_chatVars, Answer(t) \in Ids(messages') \ Ids(messages)
    PROVE  Save(t)
  <1>1. PICK m \in messages' : m.id = Answer(t) /\ m \notin messages
    BY Zenon DEF Ids
  <1>2. messages' # messages  BY <1>1
  <1>3. ASSUME NEW u \in Turns, OpenTurn(u) PROVE FALSE
    <2> DEFINE asked(kept) == [id |-> Question(u), seq |-> NextSeq(kept), usable |-> TRUE,
                               version |-> 0, pictures |-> request[u].pictures]
    <2>1. \E kept : messages' \subseteq messages \union {asked(kept)}
      BY Zenon, <1>3 DEF OpenTurn
    <2>2. m.id = Question(u)  BY <1>1, <2>1
    <2> QED  BY <1>1, <2>2 DEF Question, Answer
  <1>4. ASSUME NEW u \in Turns, Save(u) PROVE Save(t)
    <2> DEFINE said == [id |-> Answer(u), seq |-> NextSeq(messages), usable |-> reply[u],
                        version |-> 0, pictures |-> {}]
    <2>1. m = said  BY <1>1, <1>4 DEF Save
    <2>2. Answer(u) = Answer(t)  BY <1>1, <2>1
    <2> QED  BY <1>4, <2>2 DEF Answer
  <1>5. ASSUME NEW n \in messages, UpdateMessage(n) PROVE FALSE
    <2>1. m = Edited(n)  BY <1>1, <1>5 DEF UpdateMessage
    <2>2. m.id = n.id  BY <2>1 DEF Edited
    <2>3. n.id \in Ids(messages)  BY Zenon DEF Ids
    <2> QED  BY <1>1, <2>2, <2>3
  <1>6. CASE DeleteConversation  BY <1>1, <1>6 DEF DeleteConversation
  <1>7. ASSUME NEW u \in Turns, Begin(u) \/ BeginRefused(u) \/ Step(u), ~OpenTurn(u), ~Save(u)
        PROVE  FALSE
    BY Zenon, <1>2, <1>7 DEF Step, Begin, BeginRefused, Reserve, ReserveRefused, Precheck,
         PrecheckRefused, OpenRefused, ReadHistory, LoadPictures, ProviderReturns, Abandon, Replies,
         SaysNothing, SaveRefused, RecordTurn, Discard, Leave, content
  <1>8. ASSUME SetCap \/ Sweep \/ Crash PROVE FALSE
    BY Zenon, <1>2, <1>8 DEF SetCap, Sweep, DeleteOrphans, DiscardBefore, Crash, content
  <1>9. CASE UNCHANGED chatVars  BY Zenon, <1>2, <1>9 DEF chatVars, content
  <1> QED  BY Zenon, <1>3, <1>4, <1>5, <1>6, <1>7, <1>8, <1>9 DEF ChatNext, Meanwhile

\* A reply joins the transcript only while all that the provider was given, and
\* the question asked, are in it unchanged: for any number of turns, messages
\* and edits.
THEOREM AnswersMatch == ChatSpec => AnswerMatchesTranscript
  <1> DEFINE Joins == \A t \in Turns :
               Answer(t) \in Ids(messages') \ Ids(messages) => Stands(t)
  <1>1. ChatInit => TranscriptInv
    BY DEF ChatInit, TranscriptInv, Shape, Current, Before, AtWork, Waypoints, NotOpened
  <1>2. TranscriptInv /\ [ChatNext]_chatVars => TranscriptInv'  BY TranscriptStep
  <1>3. TranscriptInv /\ [ChatNext]_chatVars => Joins
    <2> SUFFICES ASSUME TranscriptInv, [ChatNext]_chatVars, NEW t \in Turns,
                        Answer(t) \in Ids(messages') \ Ids(messages)
                 PROVE  Stands(t)
      OBVIOUS
    <2>1. Save(t)  BY OnlySaveAnswers
    <2>2. Current(t)  BY <2>1 DEF Save, Current, AtWork
    <2> QED  BY <2>2 DEF TranscriptInv
  <1>4. Joins => \A t \in Turns : Answer(t) \in Ids(messages') \ Ids(messages) =>
                   /\ sent[t] \subseteq messages
                   /\ request[t].question => Question(t) \in Ids(messages)
    BY Zenon DEF Stands
  <1> QED  BY <1>1, <1>2, <1>3, <1>4, PTL DEF ChatSpec, AnswerMatchesTranscript

(***************************************************************************)
(* The records                                                             *)
(***************************************************************************)

Unopened == {"new", "claimed", "reserved", "checked"}
Closing == {"recorded", "leaving", "done"}

\* Where a turn may be next, when its branch and its usage row stay.
Onward(from, to) ==
    \/ to = from
    \/ from \in Unopened
    \/ from \in Closing /\ to \in Closing
    \/ to \notin Unopened \union Closing

\* The two ways to the end: a turn that stored nothing goes there from before the
\* transaction, and one that stored a question passes the record.
RecordInv ==
    /\ pc \in [Turns -> Waypoints]
    /\ branch = [t \in Turns |-> branch[t]]
    /\ ledger = [t \in Turns |-> ledger[t]]
    /\ \A t \in Turns : pc[t] \in Unopened => branch[t] = NotOpened
    /\ \A t \in Turns : pc[t] \in Closing /\ branch[t] # NotOpened => ledger[t] # "none"

LEMMA RecordKept ==
    ASSUME RecordInv, UNCHANGED <<branch, ledger>>, pc' \in [Turns -> Waypoints],
           \A t \in Turns : Onward(pc[t], pc'[t]),
           \A t \in Turns : pc'[t] \in Unopened => pc[t] \in Unopened
    PROVE  RecordInv'
  <1>1. ASSUME NEW t \in Turns, pc'[t] \in Closing, branch'[t] # NotOpened PROVE ledger'[t] # "none"
    <2>1. pc[t] \in Closing
      BY <1>1 DEF RecordInv, Onward, Closing, Unopened
    <2> QED  BY <1>1, <2>1 DEF RecordInv
  <1>2. \A t \in Turns : pc'[t] \in Unopened => branch'[t] = NotOpened
    BY DEF RecordInv
  <1> QED  BY <1>1, <1>2 DEF RecordInv

LEMMA RecordMoves ==
    ASSUME RecordInv, NEW t \in Turns,
           \/ Begin(t) \/ BeginRefused(t) \/ Reserve(t) \/ ReserveRefused(t)
           \/ Precheck(t) \/ PrecheckRefused(t) \/ OpenRefused(t) \/ ReadHistory(t)
           \/ LoadPictures(t) \/ ProviderReturns(t) \/ Abandon(t) \/ Save(t)
           \/ SaveRefused(t) \/ Discard(t) \/ Leave(t)
    PROVE  RecordInv'
  <1>1. UNCHANGED <<branch, ledger>>
    BY Zenon DEF Begin, BeginRefused, Reserve, ReserveRefused, Precheck, PrecheckRefused, OpenRefused,
         ReadHistory, LoadPictures, ProviderReturns, Abandon, Replies, SaysNothing, Save,
         SaveRefused, Discard, Leave, locals
  <1>2. \E to \in Waypoints :
          /\ pc' = [pc EXCEPT ![t] = to]
          /\ Onward(pc[t], to)
          /\ to \in Unopened => pc[t] \in Unopened
    BY DEF Begin, BeginRefused, Reserve, ReserveRefused, Precheck, PrecheckRefused, OpenRefused,
         ReadHistory, LoadPictures, ProviderReturns, Abandon, Replies, SaysNothing, Save,
         SaveRefused, Discard, Leave, Goes, Waypoints, Onward, Unopened, Closing
  <1>3. \A u \in Turns : Onward(pc[u], pc'[u])
    BY <1>2 DEF RecordInv, Onward
  <1> QED  BY <1>1, <1>2, <1>3, RecordKept DEF RecordInv

LEMMA RecordStep ==
    ASSUME RecordInv, [ChatNext]_chatVars
    PROVE  RecordInv'
  <1>1. CASE UNCHANGED chatVars
    BY <1>1, RecordKept DEF chatVars, locals, RecordInv, Onward
  <1>2. ASSUME NEW t \in Turns, OpenTurn(t) PROVE RecordInv'
    <2>1. PICK revision : branch' = [branch EXCEPT ![t] = revision]  BY Zenon, <1>2 DEF OpenTurn
    <2>2. pc' = [pc EXCEPT ![t] = "opened"] /\ ledger' = ledger  BY Zenon, <1>2 DEF OpenTurn, Goes
    <2> QED  BY <2>1, <2>2 DEF RecordInv, Unopened, Closing, Waypoints
  <1>3. ASSUME NEW t \in Turns, RecordTurn(t) PROVE RecordInv'
    <2>1. PICK written \in {"written", "failed"} : ledger' = [ledger EXCEPT ![t] = written]
      BY Zenon, <1>3 DEF RecordTurn
    <2>2. pc' = [pc EXCEPT ![t] = "recorded"] /\ branch' = branch  BY <1>3 DEF RecordTurn, Goes
    <2> QED  BY <2>1, <2>2 DEF RecordInv, Unopened, Closing, Waypoints
  <1>4. CASE Crash
    <2>1. pc' = [t \in Turns |-> IF t \in Running THEN "lost" ELSE pc[t]] /\ UNCHANGED <<branch, ledger>>
      BY <1>4 DEF Crash
    <2> QED  BY <2>1, RecordKept DEF RecordInv, Onward, Waypoints, Unopened, Closing
  <1>5. ASSUME Meanwhile, ~Crash PROVE RecordInv'
    <2>1. UNCHANGED <<branch, ledger, pc>>
      BY Zenon, <1>5 DEF Meanwhile, SetCap, UpdateMessage, DeleteConversation, Sweep, DeleteOrphans,
           DiscardBefore, locals
    <2> QED  BY <2>1, RecordKept DEF RecordInv, Onward
  <1> QED  BY Zenon, <1>1, <1>2, <1>3, <1>4, <1>5, RecordMoves DEF ChatNext, Step

\* Once its question is committed a turn does not end without a record, on any way
\* out of Run, for any number of turns.
THEOREM TurnsRecorded == ChatSpec => []EveryTurnRecorded
  <1>1. ChatInit => RecordInv
    BY DEF ChatInit, RecordInv, Unopened, Closing, Waypoints
  <1>2. RecordInv /\ [ChatNext]_chatVars => RecordInv'  BY RecordStep
  <1>3. RecordInv => EveryTurnRecorded  BY DEF RecordInv, EveryTurnRecorded, Closing
  <1> QED  BY <1>1, <1>2, <1>3, PTL DEF ChatSpec

(***************************************************************************)
(* The messages and their pictures                                         *)
(***************************************************************************)

\* A number past every position: the last of a bounded set of naturals exists.
LEMMA GreatestExists ==
    ASSUME NEW S \in SUBSET Nat, S # {}, NEW n \in Nat, \A x \in S : x <= n
    PROVE  \E x \in S : \A y \in S : x >= y
  <1> DEFINE above == {k \in Nat : \A x \in S : x <= k}
  <1>1. above \in SUBSET Nat /\ above # {}  OBVIOUS
  <1>2. PICK k \in above : \A j \in above : ~ (<<j, k>> \in OpToRel(<, Nat))
    BY <1>1, NatLessThanWellFounded, WFMin, Zenon
  <1>3. k \in Nat /\ \A x \in S : x <= k  OBVIOUS
  <1>4. \A j \in above : j \in Nat /\ ~ (j < k)  BY <1>2, <1>3 DEF OpToRel
  <1>5. k \in S
    <2> SUFFICES ASSUME k \notin S PROVE FALSE  OBVIOUS
    <2>1. PICK x \in S : TRUE  OBVIOUS
    <2>2. k # 0  BY <1>3, <2>1
    <2>3. k - 1 \in Nat /\ \A y \in S : y <= k - 1  BY <1>3, <2>2
    <2>4. k - 1 \in above  BY <2>3
    <2> QED  BY <1>4, <1>3, <2>4
  <1> QED  BY <1>3, <1>5

LEMMA NextAbove ==
    ASSUME NEW ms \in SUBSET Message, NEW n \in Nat, \A m \in ms : m.seq <= n
    PROVE  NextSeq(ms) \in Nat /\ \A m \in ms : m.seq <= NextSeq(ms)
  <1> DEFINE S == {m.seq : m \in ms} \union {0}
  <1>1. S \in SUBSET Nat /\ S # {} /\ \A x \in S : x <= n  BY DEF Message
  <1>2. \A m \in ms : m.seq \in S  OBVIOUS
  <1>3. NextSeq(ms) = Max(S) + 1  BY DEF NextSeq
  <1> HIDE DEF S
  <1>4. Max(S) \in S /\ \A y \in S : Max(S) >= y
    BY <1>1, GreatestExists DEF Max
  <1>5. NextSeq(ms) \in Nat
    <2>1. Max(S) \in Nat  BY Zenon, <1>1, <1>4
    <2> QED  BY <1>3, <2>1
  <1>6. ASSUME NEW m \in ms PROVE m.seq <= NextSeq(ms)
    <2>1. m.seq \in Nat /\ Max(S) >= m.seq /\ Max(S) \in Nat  BY <1>1, <1>2, <1>4
    <2> QED  BY <1>3, <2>1
  <1> QED  BY <1>5, <1>6

Unsaved == Unopened \union AtWork
Late == {"leaving", "done"}

\* A question is stored when the turn opens and an answer after the provider
\* returned, once each: that keeps the messages apart.
MessagesInv ==
    /\ \A m, n \in messages : m.id = n.id => m = n
    /\ \A t \in Turns : pc[t] \in Unopened => Question(t) \notin Ids(messages)
    /\ \A t \in Turns : pc[t] \in Unsaved => Answer(t) \notin Ids(messages)
    /\ \E n \in Nat : \A m \in messages : m.seq <= n
    /\ \A t \in Turns : request[t].pictures # {} => request[t].question

\* From the discard on, unless it failed.
DroppedInv ==
    \A t \in Turns : \A p \in Pictures :
      ~Retain /\ pc[t] \in Late /\ ~unswept[t] /\ picture[p].message = Question(t) => ~picture[p].held

ContentInv == ChatTypeOK /\ MessagesInv /\ PicturesWhole /\ DroppedInv

LEMMA IdsApart ==
    /\ \A t \in Turns : Question(t) \in MessageIds /\ Answer(t) \in MessageIds
    /\ NoMessage \notin MessageIds
    /\ \A t, u \in Turns : /\ Question(t) # Answer(u)
                           /\ Question(t) = Question(u) => t = u
                           /\ Answer(t) = Answer(u) => t = u
  BY DEF Question, Answer, MessageIds, NoMessage

\* Where a turn may be next, for what it stored.
Proceeds(from, to) ==
    /\ to \in Unopened => from \in Unopened
    /\ to \in Unsaved => from \in Unsaved
    /\ to \in Late => from \in Late \union Unopened

AllProceed == \A t \in Turns : Proceeds(pc[t], pc'[t])
AsksAll == \A t \in Turns : request[t].pictures # {} => request[t].question
\* Every picture stays on its message, or on none, and no bytes come back.
Fades == \A p \in Pictures : /\ picture'[p].message = picture[p].message
                             /\ picture'[p].held => picture[p].held

LEMMA MessagesStay ==
    ASSUME MessagesInv, UNCHANGED messages, AllProceed, AsksAll'
    PROVE  MessagesInv'
  BY Zenon DEF MessagesInv, AllProceed, Proceeds, AsksAll, Ids

LEMMA PicturesStay ==
    ASSUME ChatTypeOK, PicturesWhole, UNCHANGED messages, Fades
    PROVE  PicturesWhole'
  <1>1. \A m \in messages : m.pictures \subseteq Pictures  BY DEF ChatTypeOK, Message
  <1> QED  BY Zenon, <1>1 DEF PicturesWhole, Fades

\* A picture's message is in the transcript.
LEMMA HolderStored ==
    ASSUME PicturesWhole, NEW p \in Pictures, picture[p].message # NoMessage
    PROVE  picture[p].message \in Ids(messages)
  BY Zenon DEF PicturesWhole, Ids

LEMMA DroppedStay ==
    ASSUME MessagesInv, PicturesWhole, DroppedInv, UNCHANGED unswept, AllProceed, Fades
    PROVE  DroppedInv'
  <1> SUFFICES ASSUME NEW t \in Turns, NEW p \in Pictures,
                      ~Retain, pc'[t] \in Late, ~unswept'[t], picture'[p].message = Question(t)
               PROVE  ~picture'[p].held
    BY DEF DroppedInv
  <1>1. picture[p].message = Question(t) /\ (picture'[p].held => picture[p].held)  BY DEF Fades
  <1>2. CASE pc[t] \in Late  BY Zenon, <1>1, <1>2 DEF DroppedInv
  <1>3. CASE pc[t] \in Unopened
    <2>1. Question(t) \notin Ids(messages)  BY <1>3 DEF MessagesInv
    <2>2. Question(t) # NoMessage  BY Zenon, IdsApart
    <2> QED  BY <1>1, <2>1, <2>2, HolderStored
  <1> QED  BY Zenon, <1>2, <1>3 DEF AllProceed, Proceeds

(***************************************************************************)
(* The types, step by step                                                 *)
(***************************************************************************)

\* A step of a turn alone.
LEMMA TypeMoves ==
    ASSUME ChatTypeOK, UNCHANGED <<content, cap, slots, locals, crashed>>, pc' \in [Turns -> Waypoints]
    PROVE  ChatTypeOK'
  BY DEF ChatTypeOK, content, slots, locals

LEMMA PcTyped ==
    ASSUME ChatTypeOK, NEW t \in Turns, Begin(t) \/ BeginRefused(t) \/ Step(t)
    PROVE  pc' \in [Turns -> Waypoints]
  <1>1. \E to \in Waypoints : pc' = [pc EXCEPT ![t] = to]
    BY DEF Step, Begin, BeginRefused, Reserve, ReserveRefused, Precheck, PrecheckRefused, OpenTurn,
         OpenRefused, ReadHistory, LoadPictures, ProviderReturns, Abandon, Replies, SaysNothing,
         Save, SaveRefused, RecordTurn, Discard, Leave, Goes, Waypoints
  <1>2. pc \in [Turns -> Waypoints]  BY DEF ChatTypeOK
  <1> QED  BY <1>1, <1>2

LEMMA FreeTyped ==
    ASSUME ChatTypeOK, NEW t \in Turns, FreeSlot(t)
    PROVE  inFlight' \in Nat /\ slot' \in [Turns -> BOOLEAN]
  BY DEF ChatTypeOK, FreeSlot

LEMMA ForgetsTyped ==
    ASSUME ChatTypeOK, NEW ts, Forgets(ts)
    PROVE  /\ request' \in [Turns -> Request] /\ sent' \in [Turns -> SUBSET Message]
           /\ loaded' \in [Turns -> SUBSET Pictures] /\ reply' \in [Turns -> BOOLEAN]
  <1>1. NoRequest \in Request  BY DEF NoRequest, Request
  <1> QED  BY <1>1 DEF ChatTypeOK, Forgets

\* Pictures that are gone, or have lost their bytes, have their type.
LEMMA PictureTyped ==
    ASSUME ChatTypeOK
    PROVE  /\ Gone \in [stored : BOOLEAN, held : BOOLEAN, message : MessageIds \union {NoMessage}]
           /\ \A ps : Without(ps) \in [Pictures -> [stored : BOOLEAN, held : BOOLEAN,
                                                    message : MessageIds \union {NoMessage}]]
  <1>1. Gone \in [stored : BOOLEAN, held : BOOLEAN, message : MessageIds \union {NoMessage}]
    BY DEF Gone
  <1>2. \A p \in Pictures : [picture[p] EXCEPT !.held = FALSE]
                              \in [stored : BOOLEAN, held : BOOLEAN, message : MessageIds \union {NoMessage}]
    <2>1. ASSUME NEW row \in [stored : BOOLEAN, held : BOOLEAN, message : MessageIds \union {NoMessage}]
          PROVE  [row EXCEPT !.held = FALSE]
                   \in [stored : BOOLEAN, held : BOOLEAN, message : MessageIds \union {NoMessage}]
      OBVIOUS
    <2> QED  BY <2>1 DEF ChatTypeOK
  <1>3. ASSUME NEW ps
        PROVE  Without(ps) \in [Pictures -> [stored : BOOLEAN, held : BOOLEAN,
                                             message : MessageIds \union {NoMessage}]]
    BY <1>2 DEF Without, ChatTypeOK
  <1> QED  BY <1>1, <1>3

LEMMA OpenTyped ==
    ASSUME ChatTypeOK, MessagesInv, NEW t \in Turns, OpenTurn(t)
    PROVE  /\ ChatTypeOK'
           /\ \E n \in Nat : \A m \in messages' : m.seq <= n
  <1> DEFINE r == request[t]
             tail == IF r.rewind = NoMessage THEN {} ELSE TailFrom(r.rewind)
             kept == messages \ tail
             revision == thread.revision + (IF r.rewind = NoMessage THEN 0 ELSE 1)
             asked == [id |-> Question(t), seq |-> NextSeq(kept), usable |-> TRUE,
                       version |-> 0, pictures |-> r.pictures]
  <1>1. /\ thread' = [status |-> "open", revision |-> revision]
        /\ messages' = IF r.question THEN kept \union {asked} ELSE kept
        /\ picture' = PicturesAfter(t, tail)
        /\ branch' = [branch EXCEPT ![t] = revision]
        /\ UNCHANGED <<cap, slots, request, sent, loaded, reply, ledger, unswept, crashed>>
    BY Zenon DEF OpenTurn
  <1>2. revision \in Nat /\ r.pictures \subseteq Pictures  BY DEF ChatTypeOK, Request
  <1>3. PICK n \in Nat : \A m \in messages : m.seq <= n  BY DEF MessagesInv
  <1>4. kept \in SUBSET Message /\ \A m \in kept : m.seq <= n  BY <1>3 DEF ChatTypeOK
  <1>5. NextSeq(kept) \in Nat /\ \A m \in kept : m.seq <= NextSeq(kept)  BY <1>4, NextAbove
  <1>6. asked \in Message
    BY <1>2, <1>5, IdsApart, ChatAssumption DEF Message, ChatAssumption
  <1>7. asked.seq = NextSeq(kept)  OBVIOUS
  <1>8. picture' \in [Pictures -> [stored : BOOLEAN, held : BOOLEAN, message : MessageIds \union {NoMessage}]]
    <2>1. [stored |-> TRUE, held |-> TRUE, message |-> Question(t)]
            \in [stored : BOOLEAN, held : BOOLEAN, message : MessageIds \union {NoMessage}]
      BY IdsApart
    <2>2. \A p \in Pictures : picture[p] \in [stored : BOOLEAN, held : BOOLEAN, message : MessageIds \union {NoMessage}]
      BY DEF ChatTypeOK
    <2> QED  BY <1>1, <2>1, <2>2, PictureTyped DEF PicturesAfter
  <1>9. pc' \in [Turns -> Waypoints]  BY Zenon, PcTyped DEF Step
  <1>10. thread' \in [status : {"none", "open", "deleted"}, revision : Nat]
    BY <1>1, <1>2
  <1>11. branch' \in [Turns -> Nat \union {NotOpened}]  BY <1>1, <1>2 DEF ChatTypeOK
  <1> HIDE DEF asked, kept
  <1>12. messages' \subseteq Message  BY <1>1, <1>4, <1>6
  <1>13. \A m \in messages' : m.seq <= NextSeq(kept)  BY <1>1, <1>5, <1>7
  <1>14. ChatTypeOK'
    BY <1>1, <1>8, <1>9, <1>10, <1>11, <1>12 DEF ChatTypeOK, slots
  <1> QED  BY <1>5, <1>13, <1>14

LEMMA SaveTyped ==
    ASSUME ChatTypeOK, MessagesInv, NEW t \in Turns, Save(t)
    PROVE  /\ ChatTypeOK'
           /\ \E n \in Nat : \A m \in messages' : m.seq <= n
  <1> DEFINE said == [id |-> Answer(t), seq |-> NextSeq(messages), usable |-> reply[t],
                      version |-> 0, pictures |-> {}]
  <1>1. PICK n \in Nat : \A m \in messages : m.seq <= n  BY DEF MessagesInv
  <1>2. messages \in SUBSET Message  BY DEF ChatTypeOK
  <1>3. NextSeq(messages) \in Nat /\ \A m \in messages : m.seq <= NextSeq(messages)
    BY <1>1, <1>2, NextAbove
  <1>4. said \in Message
    BY <1>3, IdsApart, ChatAssumption DEF Message, ChatAssumption, ChatTypeOK
  <1>5. said.seq = NextSeq(messages)  OBVIOUS
  <1>6. messages' = messages \union {said}  BY DEF Save
  <1> HIDE DEF said
  <1>7. messages' \subseteq Message /\ \A m \in messages' : m.seq <= NextSeq(messages)
    BY <1>2, <1>3, <1>4, <1>5, <1>6
  <1>8. pc' \in [Turns -> Waypoints]  BY Zenon, PcTyped DEF Step
  <1>9. UNCHANGED <<thread, picture, cap, slots, locals, crashed>>  BY DEF Save
  <1>10. ChatTypeOK'  BY <1>7, <1>8, <1>9 DEF ChatTypeOK, slots, locals
  <1> QED  BY <1>3, <1>7, <1>10

LEMMA EditTyped ==
    ASSUME ChatTypeOK, MessagesInv, NEW m \in messages, UpdateMessage(m)
    PROVE  /\ ChatTypeOK'
           /\ \E n \in Nat : \A x \in messages' : x.seq <= n
  <1>1. /\ messages' = (messages \ {m}) \union {Edited(m)}
        /\ thread' = [status |-> thread.status, revision |-> thread.revision + 1]
        /\ UNCHANGED <<picture, cap, slots, pc, locals, crashed>> /\ m.version < MaxVersion
    BY DEF UpdateMessage
  <1>2. m \in Message  BY DEF ChatTypeOK
  <1>3. Edited(m) \in Message /\ Edited(m).seq = m.seq
    BY <1>1, <1>2, ChatAssumption DEF Edited, Message, ChatAssumption
  <1>4. messages' \subseteq Message  BY <1>1, <1>3 DEF ChatTypeOK
  <1>5. PICK n \in Nat : \A x \in messages : x.seq <= n  BY DEF MessagesInv
  <1>6. \A x \in messages' : x.seq <= n  BY <1>1, <1>3, <1>5
  <1>7. thread' \in [status : {"none", "open", "deleted"}, revision : Nat]
    BY <1>1 DEF ChatTypeOK
  <1>8. ChatTypeOK'  BY <1>1, <1>4, <1>7 DEF ChatTypeOK, slots, locals
  <1> QED  BY <1>6, <1>8

LEMMA TypeStep ==
    ASSUME ChatTypeOK, MessagesInv, [ChatNext]_chatVars
    PROVE  ChatTypeOK'
  <1>1. CASE UNCHANGED chatVars
    BY <1>1, TypeMoves DEF chatVars, ChatTypeOK
  <1>2. ASSUME NEW t \in Turns, Begin(t) \/ BeginRefused(t) \/ Step(t) PROVE ChatTypeOK'
    <2>0. pc' \in [Turns -> Waypoints]  BY <1>2, PcTyped
    <2>1. CASE Begin(t)
      <3>1. request' \in [Turns -> Request]  BY <2>1 DEF Begin, ChatTypeOK
      <3>2. inFlight' \in Nat /\ slot' \in [Turns -> BOOLEAN]
        <4>1. inFlight \in Nat /\ slot \in [Turns -> BOOLEAN]  BY DEF ChatTypeOK
        <4>2. CASE inFlight' = inFlight + 1 /\ slot' = [slot EXCEPT ![t] = TRUE]  BY <4>1, <4>2
        <4>3. CASE UNCHANGED slots  BY <4>1, <4>3 DEF slots
        <4> QED  BY Zenon, <2>1, <4>2, <4>3 DEF Begin
      <3>3. UNCHANGED <<content, cap, branch, sent, loaded, reply, ledger, unswept, crashed>>
        BY <2>1 DEF Begin
      <3> QED  BY <2>0, <3>1, <3>2, <3>3 DEF ChatTypeOK, content
    <2>2. CASE ReserveRefused(t)
      <3>1. NoRequest \in Request  BY DEF NoRequest, Request
      <3>2. request' \in [Turns -> Request]  BY <2>2, <3>1 DEF ReserveRefused, ChatTypeOK
      <3>3. UNCHANGED <<content, cap, branch, sent, loaded, reply, ledger, unswept, crashed>> /\ FreeSlot(t)
        BY <2>2 DEF ReserveRefused
      <3> QED  BY <2>0, <3>2, <3>3, FreeTyped DEF ChatTypeOK, content
    <2>3. CASE OpenTurn(t)  BY <2>3, OpenTyped
    <2>4. CASE ReadHistory(t)
      <3>1. History \in SUBSET Message  BY Zenon DEF History, ChatTypeOK
      <3>2. sent' \in [Turns -> SUBSET Message]  BY <2>4, <3>1 DEF ReadHistory, ChatTypeOK
      <3>3. UNCHANGED <<content, cap, slots, request, branch, loaded, reply, ledger, unswept, crashed>>
        BY <2>4 DEF ReadHistory
      <3> QED  BY <2>0, <3>2, <3>3 DEF ChatTypeOK, content, slots
    <2>5. CASE LoadPictures(t)
      <3>1. loaded' \in [Turns -> SUBSET Pictures]  BY <2>5 DEF LoadPictures, ChatTypeOK
      <3>2. UNCHANGED <<content, cap, slots, request, branch, sent, reply, ledger, unswept, crashed>>
        BY <2>5 DEF LoadPictures
      <3> QED  BY <2>0, <3>1, <3>2 DEF ChatTypeOK, content, slots
    <2>6. ASSUME NEW usable \in BOOLEAN, Replies(t, usable) PROVE ChatTypeOK'
      <3>1. reply' \in [Turns -> BOOLEAN]  BY <2>6 DEF Replies, ChatTypeOK
      <3>2. UNCHANGED <<content, cap, slots, request, branch, sent, loaded, ledger, unswept, crashed>>
        BY <2>6 DEF Replies
      <3> QED  BY <2>0, <3>1, <3>2 DEF ChatTypeOK, content, slots
    <2>7. CASE Save(t)  BY <2>7, SaveTyped
    <2>8. CASE RecordTurn(t)
      <3>1. ledger' \in [Turns -> {"none", "written", "failed"}]  BY <2>8 DEF RecordTurn, ChatTypeOK
      <3>2. UNCHANGED <<content, cap, slots, request, branch, sent, loaded, reply, unswept, crashed>>
        BY <2>8 DEF RecordTurn
      <3> QED  BY <2>0, <3>1, <3>2 DEF ChatTypeOK, content, slots
    <2>9. CASE Discard(t)
      <3>1. picture' \in [Pictures -> [stored : BOOLEAN, held : BOOLEAN,
                                       message : MessageIds \union {NoMessage}]]
        <4>1. CASE picture' = Without(Dropped)  BY Zenon, <4>1, PictureTyped
        <4>2. CASE UNCHANGED picture  BY <4>2 DEF ChatTypeOK
        <4> QED  BY Zenon, <2>9, <4>1, <4>2 DEF Discard
      <3>2. unswept' \in [Turns -> BOOLEAN]  BY <2>9 DEF Discard, ChatTypeOK
      <3>3. UNCHANGED <<thread, messages, cap, slots, request, branch, sent, loaded, reply, ledger, crashed>>
        BY <2>9 DEF Discard
      <3> QED  BY <2>0, <3>1, <3>2, <3>3 DEF ChatTypeOK, slots
    <2>10. CASE Leave(t)
      <3>1. UNCHANGED <<content, cap, branch, ledger, unswept, crashed>> /\ FreeSlot(t) /\ Forgets({t})
        BY <2>10 DEF Leave
      <3> QED  BY <2>0, <3>1, FreeTyped, ForgetsTyped DEF ChatTypeOK, content
    <2>11. ASSUME \/ BeginRefused(t) \/ Reserve(t) \/ Precheck(t) \/ PrecheckRefused(t)
                  \/ OpenRefused(t) \/ SaysNothing(t) \/ SaveRefused(t)
           PROVE  ChatTypeOK'
      <3>1. UNCHANGED <<content, cap, slots, locals, crashed>>
        BY Zenon, <2>11 DEF BeginRefused, Reserve, Precheck, PrecheckRefused, OpenRefused, SaysNothing, SaveRefused
      <3> QED  BY <2>0, <3>1, TypeMoves
    <2> QED
      BY Zenon, <1>2, <2>1, <2>2, <2>3, <2>4, <2>5, <2>6, <2>7, <2>8, <2>9, <2>10, <2>11
         DEF Step, ProviderReturns, Abandon
  <1>3. CASE SetCap
    BY <1>3 DEF SetCap, ChatTypeOK, content, slots, locals
  <1>4. ASSUME NEW m \in messages, UpdateMessage(m) PROVE ChatTypeOK'  BY <1>4, EditTyped
  <1>5. CASE DeleteConversation
    <2>1. picture' \in [Pictures -> [stored : BOOLEAN, held : BOOLEAN, message : MessageIds \union {NoMessage}]]
      BY <1>5, PictureTyped DEF DeleteConversation, ChatTypeOK
    <2>2. thread' \in [status : {"none", "open", "deleted"}, revision : Nat] /\ messages' \subseteq Message
      BY <1>5 DEF DeleteConversation, ChatTypeOK
    <2>3. UNCHANGED <<cap, slots, pc, locals, crashed>>  BY <1>5 DEF DeleteConversation
    <2> QED  BY <2>1, <2>2, <2>3 DEF ChatTypeOK, slots, locals
  <1>6. CASE Sweep
    <2>1. PICK ps \in SUBSET Pictures : DeleteOrphans(ps) \/ DiscardBefore(ps)  BY Zenon, <1>6 DEF Sweep
    <2>2. picture' \in [Pictures -> [stored : BOOLEAN, held : BOOLEAN, message : MessageIds \union {NoMessage}]]
      <3>1. CASE DeleteOrphans(ps)  BY <3>1, PictureTyped DEF DeleteOrphans, ChatTypeOK
      <3>2. CASE DiscardBefore(ps)  BY Zenon, <3>2, PictureTyped DEF DiscardBefore
      <3> QED  BY <2>1, <3>1, <3>2
    <2>3. UNCHANGED <<thread, messages, cap, slots, pc, locals, crashed>>
      BY <2>1 DEF DeleteOrphans, DiscardBefore
    <2> QED  BY <2>2, <2>3 DEF ChatTypeOK, slots, locals
  <1>7. CASE Crash
    <2>1. /\ pc' = [t \in Turns |-> IF t \in Running THEN "lost" ELSE pc[t]]
          /\ inFlight' = 0 /\ slot' = [t \in Turns |-> FALSE] /\ crashed' = TRUE
          /\ UNCHANGED <<content, cap, branch, ledger, unswept>> /\ Forgets(Running)
      BY <1>7 DEF Crash
    <2>2. pc' \in [Turns -> Waypoints]  BY <2>1 DEF ChatTypeOK, Waypoints
    <2>3. slot' \in [Turns -> BOOLEAN] /\ inFlight' \in Nat  BY <2>1
    <2> QED  BY <2>1, <2>2, <2>3, ForgetsTyped DEF ChatTypeOK, content
  <1> QED  BY Zenon, <1>1, <1>2, <1>3, <1>4, <1>5, <1>6, <1>7 DEF ChatNext, Meanwhile

(***************************************************************************)
(* The content, step by step                                               *)
(***************************************************************************)

\* A step that writes no message and leaves each picture where it is.
LEMMA ContentStays ==
    ASSUME ContentInv, ChatTypeOK', UNCHANGED <<messages, unswept>>, AllProceed, AsksAll', Fades
    PROVE  ContentInv'
  BY Zenon, MessagesStay, PicturesStay, DroppedStay DEF ContentInv

LEMMA ContentMoves ==
    ASSUME ContentInv, ChatTypeOK', NEW t \in Turns,
           \/ BeginRefused(t) \/ Reserve(t) \/ Precheck(t) \/ PrecheckRefused(t)
           \/ OpenRefused(t) \/ ReadHistory(t) \/ LoadPictures(t) \/ ProviderReturns(t)
           \/ Abandon(t) \/ SaveRefused(t) \/ RecordTurn(t)
           \/ Begin(t) \/ ReserveRefused(t) \/ Leave(t)
    PROVE  ContentInv'
  <1>1. UNCHANGED <<messages, picture, unswept>>
    BY Zenon DEF BeginRefused, Reserve, Precheck, PrecheckRefused, OpenRefused, ReadHistory, LoadPictures,
         ProviderReturns, Abandon, Replies, SaysNothing, SaveRefused, RecordTurn, Begin, ReserveRefused,
         Leave, content, locals
  <1>2. \E to \in Waypoints : pc' = [pc EXCEPT ![t] = to] /\ Proceeds(pc[t], to)
    BY DEF BeginRefused, Reserve, Precheck, PrecheckRefused, OpenRefused, ReadHistory, LoadPictures,
         ProviderReturns, Abandon, Replies, SaysNothing, SaveRefused, RecordTurn, Begin, ReserveRefused,
         Leave, Goes, Waypoints, Proceeds, Unopened, Unsaved, AtWork, Late
  <1>3. AllProceed
    <2>1. pc \in [Turns -> Waypoints]  BY DEF ContentInv, ChatTypeOK
    <2>2. \A w : Proceeds(w, w)  BY DEF Proceeds
    <2> QED  BY <1>2, <2>1, <2>2 DEF AllProceed
  <1>4. AsksAll'
    <2>1. AsksAll /\ request \in [Turns -> Request]  BY DEF ContentInv, MessagesInv, AsksAll, ChatTypeOK
    <2>2. CASE UNCHANGED request  BY <2>1, <2>2 DEF AsksAll
    <2>3. ASSUME NEW r, request' = [request EXCEPT ![t] = r], r.pictures # {} => r.question
          PROVE  AsksAll'
      BY <2>1, <2>3 DEF AsksAll
    <2>4. CASE Begin(t)  BY Zenon, <2>3, <2>4 DEF Begin, Sendable
    <2>5. NoRequest.pictures = {}  BY DEF NoRequest
    <2>6. CASE ReserveRefused(t)  BY Zenon, <2>3, <2>5, <2>6 DEF ReserveRefused
    <2>7. CASE Leave(t)  BY <2>1, <2>5, <2>7 DEF Leave, Forgets, AsksAll
    <2> QED
      BY Zenon, <2>2, <2>4, <2>6, <2>7 DEF BeginRefused, Reserve, Precheck, PrecheckRefused, OpenRefused,
           ReadHistory, LoadPictures, ProviderReturns, Abandon, Replies, SaysNothing, SaveRefused, RecordTurn,
           locals
  <1>5. Fades  BY <1>1 DEF Fades
  <1> QED  BY <1>1, <1>3, <1>4, <1>5, ContentStays

LEMMA CrashContent ==
    ASSUME ContentInv, ChatTypeOK', Crash
    PROVE  ContentInv'
  <1>1. UNCHANGED <<messages, picture, unswept>>  BY DEF Crash, content
  <1>2. AllProceed
    BY DEF Crash, AllProceed, Proceeds, Unopened, Unsaved, AtWork, Late
  <1>3. NoRequest.pictures = {}  BY DEF NoRequest
  <1>4. AsksAll'
    BY <1>3 DEF Crash, Forgets, AsksAll, ContentInv, MessagesInv
  <1> QED  BY <1>1, <1>2, <1>4, ContentStays DEF Fades

\* The sweep, the settings: nothing a turn knows.
LEMMA AsideContent ==
    ASSUME ContentInv, ChatTypeOK', UNCHANGED <<messages, pc, unswept, request>>, Fades
    PROVE  ContentInv'
  BY ContentStays DEF AllProceed, Proceeds, AsksAll, ContentInv, MessagesInv

LEMMA WithoutFades == ASSUME NEW ps, picture' = Without(ps), ChatTypeOK PROVE Fades
  BY DEF Without, Fades, ChatTypeOK

LEMMA SweepContent ==
    ASSUME ContentInv, ChatTypeOK', Sweep
    PROVE  ContentInv'
  <1>1. PICK ps \in SUBSET Pictures : DeleteOrphans(ps) \/ DiscardBefore(ps)  BY Zenon DEF Sweep
  <1>2. UNCHANGED <<messages, pc, unswept, request>>
    BY <1>1 DEF DeleteOrphans, DiscardBefore, locals
  <1>3. Fades
    <2>1. CASE DeleteOrphans(ps)  BY <2>1 DEF DeleteOrphans, Fades, Gone
    <2>2. CASE DiscardBefore(ps)  BY <2>2, WithoutFades DEF DiscardBefore, ContentInv
    <2> QED  BY <1>1, <2>1, <2>2
  <1> QED  BY <1>2, <1>3, AsideContent

LEMMA DiscardContent ==
    ASSUME ContentInv, ChatTypeOK', NEW t \in Turns, Discard(t)
    PROVE  ContentInv'
  <1>1. /\ pc[t] = "recorded" /\ pc' = [pc EXCEPT ![t] = "leaving"]
        /\ UNCHANGED <<messages, request>>
    BY DEF Discard, Goes
  <1>2. pc \in [Turns -> Waypoints] /\ unswept \in [Turns -> BOOLEAN]  BY DEF ContentInv, ChatTypeOK
  <1>3. Fades
    <2>1. CASE picture' = Without(Dropped)  BY <2>1, WithoutFades DEF ContentInv
    <2>2. CASE UNCHANGED picture  BY <2>2 DEF Fades
    <2> QED  BY Zenon, <2>1, <2>2 DEF Discard
  <1>4. MessagesInv'
    BY <1>1, <1>2 DEF ContentInv, MessagesInv, Unopened, Unsaved, AtWork, Ids
  <1>5. PicturesWhole'  BY <1>1, <1>3, PicturesStay DEF ContentInv
  <1>6. ASSUME NEW u \in Turns, NEW p \in Pictures,
               ~Retain, pc'[u] \in Late, ~unswept'[u], picture'[p].message = Question(u)
        PROVE  ~picture'[p].held
    <2>1. picture[p].message = Question(u) /\ (picture'[p].held => picture[p].held)
      BY <1>3, <1>6 DEF Fades
    <2>2. CASE picture' = Without(Dropped)
      <3>1. p \in Dropped  BY Zenon, <2>1, IdsApart DEF Dropped
      <3>2. picture'[p] = [picture[p] EXCEPT !.held = FALSE]  BY <2>2, <3>1 DEF Without
      <3>3. picture[p] \in [stored : BOOLEAN, held : BOOLEAN, message : MessageIds \union {NoMessage}]
        BY DEF ContentInv, ChatTypeOK
      <3> QED  BY <3>2, <3>3
    <2>3. CASE unswept' = [unswept EXCEPT ![t] = TRUE] /\ UNCHANGED picture
      <3>1. u # t /\ unswept'[u] = unswept[u] /\ pc'[u] = pc[u]  BY <1>1, <1>2, <1>6, <2>3
      <3> QED  BY Zenon, <1>6, <2>1, <3>1 DEF ContentInv, DroppedInv
    <2> QED  BY Zenon, <1>6, <2>2, <2>3 DEF Discard
  <1> QED  BY <1>4, <1>5, <1>6 DEF ContentInv, DroppedInv

LEMMA OpenContent ==
    ASSUME ContentInv, ChatTypeOK', NEW t \in Turns, OpenTurn(t)
    PROVE  ContentInv'
  <1> DEFINE r == request[t]
             tail == IF r.rewind = NoMessage THEN {} ELSE TailFrom(r.rewind)
             kept == messages \ tail
             revision == thread.revision + (IF r.rewind = NoMessage THEN 0 ELSE 1)
             asked == [id |-> Question(t), seq |-> NextSeq(kept), usable |-> TRUE,
                       version |-> 0, pictures |-> r.pictures]
  <1>1. /\ pc[t] = "checked" /\ pc' = [pc EXCEPT ![t] = "opened"]
        /\ \A p \in r.pictures : Attachable(p, tail)
        /\ messages' = IF r.question THEN kept \union {asked} ELSE kept
        /\ picture' = PicturesAfter(t, tail)
        /\ UNCHANGED <<request, unswept>>
    BY Zenon DEF OpenTurn, Goes
  <1>2. asked.id = Question(t) /\ asked.pictures = r.pictures  OBVIOUS
  <1>3. tail \subseteq messages  BY Zenon DEF TailFrom
  <1> HIDE DEF asked, tail
  <1>4. pc'[t] = "opened" /\ \A u \in Turns : u # t => pc'[u] = pc[u]
    BY <1>1 DEF ContentInv, ChatTypeOK
  <1>5. r.pictures \subseteq Pictures /\ (r.pictures # {} => r.question)
    BY DEF ContentInv, ChatTypeOK, MessagesInv, Request
  <1>6. Question(t) \notin Ids(messages)
    BY <1>1 DEF ContentInv, MessagesInv, Unopened
  <1>7. \A m, n \in messages : m.id = n.id => m = n  BY DEF ContentInv, MessagesInv
  <1>8. \A m \in messages' : m \in kept \/ (m = asked /\ r.question)
    <2>1. CASE r.question
      <3>1. messages' = kept \union {asked}  BY <1>1, <2>1
      <3> HIDE DEF kept
      <3> QED  BY Zenon, <2>1, <3>1
    <2>2. CASE ~r.question
      <3>1. messages' = kept  BY <1>1, <2>2
      <3> HIDE DEF kept
      <3> QED  BY Zenon, <3>1
    <2> QED  BY <2>1, <2>2
  <1>9. \A m \in kept : m.id \in Ids(messages) /\ m.id \notin Ids(tail)
    BY Zenon, <1>3, <1>7 DEF Ids
  <1>10. \A p \in Pictures : picture'[p] = IF p \in r.pictures
           THEN [stored |-> TRUE, held |-> TRUE, message |-> Question(t)]
           ELSE IF picture[p].message \in Ids(tail) THEN Gone ELSE picture[p]
    BY <1>1 DEF PicturesAfter
  <1>11. \A p \in Pictures :
           /\ p \in r.pictures => picture'[p].message = Question(t)
           /\ p \notin r.pictures /\ picture[p].message \in Ids(tail) => picture'[p].message = NoMessage
           /\ p \notin r.pictures /\ picture[p].message \notin Ids(tail) => picture'[p] = picture[p]
    BY <1>10 DEF Gone
  <1>12. MessagesInv'
    <2>1. \A m, n \in messages' : m.id = n.id => m = n
      BY Zenon, <1>2, <1>6, <1>7, <1>8, <1>9
    <2>2. ASSUME NEW u \in Turns, pc'[u] \in Unopened PROVE Question(u) \notin Ids(messages')
      <3>1. u # t /\ pc[u] \in Unopened  BY <1>4, <2>2 DEF Unopened
      <3>2. Question(u) \notin Ids(messages)  BY <3>1 DEF ContentInv, MessagesInv
      <3>3. Question(u) # Question(t)  BY <3>1, IdsApart
      <3> QED  BY Zenon, <1>2, <1>8, <1>9, <3>2, <3>3 DEF Ids
    <2>3. ASSUME NEW u \in Turns, pc'[u] \in Unsaved PROVE Answer(u) \notin Ids(messages')
      <3>1. pc[u] \in Unsaved  BY <1>1, <1>4, <2>3 DEF Unsaved, Unopened
      <3>2. Answer(u) \notin Ids(messages)  BY <3>1 DEF ContentInv, MessagesInv
      <3>3. Answer(u) # Question(t)  BY Zenon, IdsApart
      <3> QED  BY Zenon, <1>2, <1>8, <1>9, <3>2, <3>3 DEF Ids
    <2>4. \E n \in Nat : \A m \in messages' : m.seq <= n  BY OpenTyped DEF ContentInv
    <2> QED  BY Zenon, <1>1, <2>1, <2>2, <2>3, <2>4 DEF ContentInv, MessagesInv, Ids
  <1>13. ASSUME NEW m \in messages', NEW p \in m.pictures PROVE picture'[p].message = m.id
    <2>1. CASE m = asked  BY <1>2, <1>5, <1>11, <2>1
    <2>2. CASE m \in kept
      <3>1. p \in Pictures /\ m.id \in MessageIds  BY <1>13 DEF ChatTypeOK, Message
      <3>2. picture[p].message = m.id  BY Zenon, <2>2 DEF ContentInv, PicturesWhole
      <3>3. p \notin r.pictures
        BY Zenon, <1>1, <1>9, <2>2, <3>1, <3>2, IdsApart DEF Attachable, Lifted
      <3> QED  BY <1>9, <1>11, <2>2, <3>1, <3>2, <3>3
    <2> QED  BY <1>8, <2>1, <2>2
  <1>14. ASSUME NEW p \in Pictures, picture'[p].message # NoMessage
         PROVE  \E m \in messages' : m.id = picture'[p].message /\ p \in m.pictures
    <2>1. CASE p \in r.pictures
      <3>1. asked \in messages'  BY <1>1, <1>5, <2>1
      <3> QED  BY <1>2, <1>11, <2>1, <3>1
    <2>2. CASE p \notin r.pictures
      <3>1. picture[p].message \notin Ids(tail) /\ picture'[p] = picture[p]
        BY Zenon, <1>11, <1>14, <2>2
      <3>2. PICK m \in messages : m.id = picture[p].message /\ p \in m.pictures
        BY Zenon, <1>14, <3>1 DEF ContentInv, PicturesWhole
      <3>3. m \notin tail  BY Zenon, <3>1, <3>2 DEF Ids
      <3>4. m \in messages'  BY <1>1, <3>3
      <3> QED  BY <3>1, <3>2, <3>4
    <2> QED  BY <2>1, <2>2
  <1>15. ASSUME NEW u \in Turns, NEW p \in Pictures,
                ~Retain, pc'[u] \in Late, ~unswept'[u], picture'[p].message = Question(u)
         PROVE  ~picture'[p].held
    <2>1. u # t /\ pc'[u] = pc[u]  BY <1>4, <1>15 DEF Late
    <2>2. p \notin r.pictures /\ picture'[p] = picture[p]
      BY Zenon, <1>11, <1>15, <2>1, IdsApart
    <2> QED  BY Zenon, <1>1, <1>15, <2>1, <2>2 DEF ContentInv, DroppedInv
  <1>16. PicturesWhole'  BY Zenon, <1>13, <1>14 DEF PicturesWhole
  <1>17. DroppedInv'  BY Zenon, <1>15 DEF DroppedInv, Question
  <1> QED  BY <1>12, <1>16, <1>17 DEF ContentInv

LEMMA SaveContent ==
    ASSUME ContentInv, ChatTypeOK', NEW t \in Turns, Save(t)
    PROVE  ContentInv'
  <1> DEFINE said == [id |-> Answer(t), seq |-> NextSeq(messages), usable |-> reply[t],
                      version |-> 0, pictures |-> {}]
  <1>1. /\ pc[t] = "returned" /\ pc' = [pc EXCEPT ![t] = "saved"]
        /\ messages' = messages \union {said}
        /\ UNCHANGED <<picture, request, unswept>>
    BY DEF Save, Goes, locals
  <1>2. said.id = Answer(t) /\ said.pictures = {}  OBVIOUS
  <1> HIDE DEF said
  <1>3. pc'[t] = "saved" /\ \A u \in Turns : u # t => pc'[u] = pc[u]
    BY <1>1 DEF ContentInv, ChatTypeOK
  <1>4. Answer(t) \notin Ids(messages)
    BY <1>1 DEF ContentInv, MessagesInv, Unsaved, AtWork
  <1>5. \A m \in messages : m.id \in Ids(messages)  BY Zenon DEF Ids
  <1>6. \A i : i \in Ids(messages') => i \in Ids(messages) \/ i = Answer(t)
    BY Zenon, <1>1, <1>2 DEF Ids
  <1>7. MessagesInv'
    <2>0. \A m \in messages' : m \in messages \/ m = said  BY Zenon, <1>1
    <2>1. \A m, n \in messages' : m.id = n.id => m = n
      BY ZenonT(60), <2>0, <1>2, <1>4, <1>5 DEF ContentInv, MessagesInv
    <2>2. ASSUME NEW u \in Turns, pc'[u] \in Unopened PROVE Question(u) \notin Ids(messages')
      <3>1. u # t /\ pc[u] \in Unopened  BY <1>3, <2>2 DEF Unopened
      <3> QED  BY Zenon, <1>6, <3>1, IdsApart DEF ContentInv, MessagesInv
    <2>3. ASSUME NEW u \in Turns, pc'[u] \in Unsaved PROVE Answer(u) \notin Ids(messages')
      <3>1. u # t /\ pc[u] \in Unsaved  BY <1>3, <2>3 DEF Unsaved, Unopened, AtWork
      <3> QED  BY Zenon, <1>6, <3>1, IdsApart DEF ContentInv, MessagesInv
    <2>4. \E n \in Nat : \A m \in messages' : m.seq <= n  BY SaveTyped DEF ContentInv
    <2> QED  BY Zenon, <1>1, <2>1, <2>2, <2>3, <2>4 DEF ContentInv, MessagesInv, Ids
  <1>8. PicturesWhole'  BY Zenon, <1>1, <1>2 DEF ContentInv, PicturesWhole
  <1>9. DroppedInv'
    <2>1. \A u \in Turns : pc'[u] \in Late => pc[u] \in Late  BY <1>3 DEF Late
    <2> QED  BY Zenon, <1>1, <2>1 DEF ContentInv, DroppedInv
  <1> QED  BY <1>7, <1>8, <1>9 DEF ContentInv

LEMMA EditContent ==
    ASSUME ContentInv, ChatTypeOK', NEW m \in messages, UpdateMessage(m)
    PROVE  ContentInv'
  <1>1. /\ messages' = (messages \ {m}) \union {Edited(m)}
        /\ UNCHANGED <<picture, pc, request, unswept>>
    BY DEF UpdateMessage, locals
  <1>2. Edited(m).id = m.id /\ Edited(m).pictures = m.pictures  BY DEF Edited
  <1>3. \A i : i \in Ids(messages') => i \in Ids(messages)  BY Zenon, <1>1, <1>2 DEF Ids
  <1>4. \A x \in messages' : x # Edited(m) => x \in messages /\ x # m  BY <1>1
  <1>5. \A x \in messages \ {m} : x.id # m.id  BY DEF ContentInv, MessagesInv
  <1>6. MessagesInv'
    <2>1. \A x, y \in messages' : x.id = y.id => x = y
      BY Zenon, <1>2, <1>4, <1>5 DEF ContentInv, MessagesInv
    <2>2. \E n \in Nat : \A x \in messages' : x.seq <= n  BY EditTyped DEF ContentInv
    <2> QED  BY Zenon, <1>1, <1>3, <2>1, <2>2 DEF ContentInv, MessagesInv, Ids
  <1>7. PicturesWhole'
    <2>1. \A x \in messages' : \A p \in x.pictures : picture[p].message = x.id
      BY Zenon, <1>2, <1>4 DEF ContentInv, PicturesWhole
    <2>2. ASSUME NEW p \in Pictures, picture[p].message # NoMessage
          PROVE  \E x \in messages' : x.id = picture[p].message /\ p \in x.pictures
      <3>1. PICK x \in messages : x.id = picture[p].message /\ p \in x.pictures
        BY Zenon, <2>2 DEF ContentInv, PicturesWhole
      <3>2. CASE x = m
        <4>1. Edited(m) \in messages'  BY <1>1
        <4> QED  BY <1>2, <3>1, <3>2, <4>1
      <3>3. CASE x # m
        <4>1. x \in messages'  BY <1>1, <3>3
        <4> QED  BY <3>1, <4>1
      <3> QED  BY <3>2, <3>3
    <2> QED  BY Zenon, <1>1, <2>1, <2>2 DEF PicturesWhole
  <1>8. DroppedInv'  BY Zenon, <1>1 DEF ContentInv, DroppedInv
  <1> QED  BY <1>6, <1>7, <1>8 DEF ContentInv

LEMMA DeleteContent ==
    ASSUME ContentInv, ChatTypeOK', DeleteConversation
    PROVE  ContentInv'
  <1>1. messages' = {} /\ UNCHANGED <<pc, request, unswept>>  BY DEF DeleteConversation, locals
  <1>2. \A p \in Pictures : picture'[p].message = NoMessage
    BY DEF DeleteConversation, Gone
  <1>3. MessagesInv'  BY <1>1 DEF ContentInv, MessagesInv, Ids
  <1>4. PicturesWhole'  BY Zenon, <1>1, <1>2 DEF PicturesWhole
  <1>5. DroppedInv'  BY Zenon, <1>2, IdsApart DEF DroppedInv, Question
  <1> QED  BY <1>3, <1>4, <1>5 DEF ContentInv

LEMMA ContentStep ==
    ASSUME ContentInv, [ChatNext]_chatVars
    PROVE  ContentInv'
  <1>0. ChatTypeOK'  BY TypeStep DEF ContentInv
  <1>1. CASE UNCHANGED <<content, pc, locals>>
    <2>1. UNCHANGED <<messages, pc, unswept, request>> /\ Fades  BY <1>1 DEF content, locals, Fades
    <2> QED  BY <1>0, <2>1, AsideContent
  <1>2. CASE UNCHANGED chatVars  BY <1>1, <1>2 DEF chatVars
  <1>3. CASE SetCap  BY <1>1, <1>3 DEF SetCap
  <1>4. ASSUME NEW t \in Turns, Begin(t) \/ BeginRefused(t) \/ Step(t) PROVE ContentInv'
    BY Zenon, <1>0, <1>4, ContentMoves, OpenContent, SaveContent, DiscardContent DEF Step
  <1> QED
    BY Zenon, <1>0, <1>2, <1>3, <1>4, EditContent, DeleteContent, SweepContent, CrashContent
       DEF ChatNext, Meanwhile

\* Claims, rewinds that lift pictures, edits, deletions and sweeps of any number of
\* tabs leave each stored message its pictures and each picture its one message,
\* and no bytes outlive the turn that sent them.
THEOREM PicturesSound == ChatSpec => []PicturesKept
  <1>1. ChatInit => ContentInv
    <2> SUFFICES ASSUME ChatInit PROVE ContentInv  OBVIOUS
    <2>1. NoRequest \in Request /\ NoRequest.pictures = {}  BY DEF NoRequest, Request
    <2>2. ChatTypeOK  BY <2>1 DEF ChatInit, ChatTypeOK, Waypoints
    <2>3. MessagesInv  BY <2>1 DEF ChatInit, MessagesInv, Ids
    <2>4. \A p \in Pictures : picture[p].message = NoMessage  BY DEF ChatInit
    <2>5. PicturesWhole  BY <2>4 DEF ChatInit, PicturesWhole
    <2>6. DroppedInv  BY Zenon, <2>4, IdsApart DEF DroppedInv
    <2> QED  BY <2>2, <2>3, <2>5, <2>6 DEF ContentInv
  <1>2. ContentInv /\ [ChatNext]_chatVars => ContentInv'  BY ContentStep
  <1>3. ContentInv => PicturesKept
    BY DEF ContentInv, PicturesKept, DroppedInv, SentPicturesDropped, Late
  <1> QED  BY <1>1, <1>2, <1>3, PTL DEF ChatSpec
=============================================================================
