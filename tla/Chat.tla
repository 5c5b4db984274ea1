-------------------------------- MODULE Chat --------------------------------
(***************************************************************************)
(* The turns of one account in one conversation, from the handler that      *)
(* claims a slot to the deferred calls that end it, with everything that    *)
(* can happen to the conversation meanwhile: other tabs, the retention       *)
(* sweep, a change of settings, a crash of the process.                      *)
(*                                                                         *)
(* A database transaction is one action; a provider call or a query lies    *)
(* between actions.  What a turn reserves and settles is module Quota's: a   *)
(* reservation here succeeds or fails.                                       *)
(***************************************************************************)
EXTENDS Integers, FiniteSets, FiniteSetsExt

CONSTANTS
    Turns,         \* calls of the chat handler, each made once
    Pictures,      \* uploads waiting in the composer at the start
    Caps,          \* values of the setting quota.max_concurrent; 0 is no limit
    HistoryLimit,  \* chat.max_turns: messages sent again with each turn
    Retain,        \* attachments.retain: dispatched pictures are kept
    Sweeps,        \* whether the retention sweep runs
    Crashes,       \* whether the process may crash, once
    MaxVersion     \* bound: edits of one message

ASSUME ChatAssumption ==
    /\ IsFiniteSet(Turns)
    /\ Caps \subseteq Nat /\ Caps # {}
    /\ HistoryLimit \in Nat \ {0}
    /\ Retain \in BOOLEAN /\ Sweeps \in BOOLEAN /\ Crashes \in BOOLEAN
    /\ MaxVersion \in Nat

VARIABLES
    thread,    \* the conversation's row: its status and branch_revision
    messages,  \* its message rows
    picture,   \* the attachment rows
    cap,       \* the setting in force
    inFlight,  \* quota.Service.inFlight of the account
    pc,        \* where each turn is
    request,   \* what each turn asked
    slot,      \* whether its freeSlot still gives a slot back
    branch,    \* prepared.branchRevision, or NotOpened
    sent,      \* the messages ForRequest gave it
    loaded,    \* the pictures whose bytes it put in the provider's request
    reply,     \* whether the reply it saves is sent again with later turns
    ledger,    \* its usage row
    unswept,   \* whether its Discard failed
    crashed

content == <<thread, messages, picture>>
locals == <<request, branch, sent, loaded, reply, ledger, unswept>>
slots == <<inFlight, slot>>
chatVars == <<content, cap, slots, pc, locals, crashed>>

NoMessage == << >>
NotOpened == -1
Question(t) == <<t, "user">>
Answer(t) == <<t, "assistant">>
MessageIds == Turns \X {"user", "assistant"}
Ids(ms) == {m.id : m \in ms}

Gone == [stored |-> FALSE, held |-> FALSE, message |-> NoMessage]
NoRequest == [names |-> FALSE, question |-> FALSE, pictures |-> {}, rewind |-> NoMessage]
Request == [names : BOOLEAN, question : BOOLEAN, pictures : SUBSET Pictures,
            rewind : MessageIds \union {NoMessage}]
Message == [id : MessageIds, seq : Nat, usable : BOOLEAN, version : 0 .. MaxVersion,
            pictures : SUBSET Pictures]
Waypoints == {"new", "claimed", "reserved", "checked", "opened", "read", "asked",
              "returned", "saved", "recorded", "leaving", "done", "lost"}

ChatInit ==
    /\ thread = [status |-> "none", revision |-> 0]
    /\ messages = {}
    /\ picture = [p \in Pictures |-> [stored |-> TRUE, held |-> TRUE, message |-> NoMessage]]
    /\ cap \in Caps
    /\ inFlight = 0
    /\ pc = [t \in Turns |-> "new"]
    /\ request = [t \in Turns |-> NoRequest]
    /\ slot = [t \in Turns |-> FALSE]
    /\ branch = [t \in Turns |-> NotOpened]
    /\ sent = [t \in Turns |-> {}]
    /\ loaded = [t \in Turns |-> {}]
    /\ reply = [t \in Turns |-> FALSE]
    /\ ledger = [t \in Turns |-> "none"]
    /\ unswept = [t \in Turns |-> FALSE]
    /\ crashed = FALSE

(***************************************************************************)
(* Before the transcript is touched                                        *)
(***************************************************************************)

\* What a client may send: something to answer, about what it can see.  A turn
\* that names no conversation starts the one modelled here; a second such turn
\* starts another conversation.
Sendable(r) ==
    /\ r.question \/ r.rewind # NoMessage
    /\ r.pictures # {} => r.question
    /\ r.rewind \in Ids(messages) \union {NoMessage}
    /\ IF r.names THEN thread.status # "none"
                  ELSE /\ thread.status = "none"
                       /\ \A u \in Turns : pc[u] \in {"new", "done", "lost"}

Goes(t, to) == pc' = [pc EXCEPT ![t] = to]

\* quota.Service.Begin, called by the guard first.
Begin(t) ==
    /\ pc[t] = "new"
    /\ \E r \in Request : Sendable(r) /\ request' = [request EXCEPT ![t] = r]
    /\ \/ /\ cap > 0 /\ inFlight < cap
          /\ inFlight' = inFlight + 1
          /\ slot' = [slot EXCEPT ![t] = TRUE]
       \/ /\ cap = 0
          /\ UNCHANGED slots
    /\ Goes(t, "claimed")
    /\ UNCHANGED <<content, cap, branch, sent, loaded, reply, ledger, unswept, crashed>>

BeginRefused(t) ==
    /\ pc[t] = "new"
    /\ cap > 0 /\ inFlight >= cap
    /\ Goes(t, "done")
    /\ UNCHANGED <<content, cap, slots, locals, crashed>>

\* A mutated form of FreeSlot: a turn begun without a limit gives a slot back.
FreeSlotUncounted(t) ==
    /\ inFlight' = IF inFlight <= 1 THEN 0 ELSE inFlight - 1
    /\ slot' = [slot EXCEPT ![t] = FALSE]
\* The closure Begin returned, once per turn; a turn begun without a limit has
\* no slot to give back.
FreeSlot(t) ==
    /\ inFlight' = IF ~slot[t] THEN inFlight ELSE IF inFlight <= 1 THEN 0 ELSE inFlight - 1
    /\ slot' = [slot EXCEPT ![t] = FALSE]

Reserve(t) ==
    /\ pc[t] = "claimed"
    /\ Goes(t, "reserved")
    /\ UNCHANGED <<content, cap, slots, locals, crashed>>

\* The account's preference cannot be read, or the allowance does not cover the
\* turn: the guard frees the slot itself, and there is no release to defer.
ReserveRefused(t) ==
    /\ pc[t] = "claimed"
    /\ FreeSlot(t)
    /\ request' = [request EXCEPT ![t] = NoRequest]
    /\ Goes(t, "done")
    /\ UNCHANGED <<content, cap, branch, sent, loaded, reply, ledger, unswept, crashed>>

\* A turn that names no conversation finds none to look at: it makes its own.
Present(r) ==
    /\ thread.status = IF r.names THEN "open" ELSE "none"
    /\ r.rewind \in Ids(messages) \union {NoMessage}

\* The handler's own look at the conversation, before the stream is committed.
Precheck(t) ==
    /\ pc[t] = "reserved"
    /\ Present(request[t])
    /\ Goes(t, "checked")
    /\ UNCHANGED <<content, cap, slots, locals, crashed>>

\* A mutated form of PrecheckRefused: the release is not deferred yet.
PrecheckRefusedUndeferred(t) ==
    /\ pc[t] = "reserved"
    /\ Goes(t, "done")
    /\ UNCHANGED <<content, cap, slots, locals, crashed>>
\* Not found, or the read failed: the deferred release runs.
PrecheckRefused(t) ==
    /\ pc[t] = "reserved"
    /\ Goes(t, "leaving")
    /\ UNCHANGED <<content, cap, slots, locals, crashed>>

(***************************************************************************)
(* openTurn                                                                *)
(***************************************************************************)

\* The message a rewind names and everything after it.
TailFrom(id) == {m \in messages : \E n \in messages : n.id = id /\ m.seq >= n.seq}
\* MAX(seq) + 1 over the messages that stay.
NextSeq(ms) == Max({m.seq : m \in ms} \union {0}) + 1

\* DetachPictures lifts what the tail holds; linkAttachments claims what is then
\* unattached and still has its bytes.
\* A mutated form of Lifted: from any message.
LiftedAnywhere(p, tail) == picture[p].message # NoMessage
Lifted(p, tail) == picture[p].message \in Ids(tail)
Attachable(p, tail) ==
    /\ picture[p].stored /\ picture[p].held
    /\ picture[p].message = NoMessage \/ Lifted(p, tail)

\* The delete takes the pictures of the tail that nothing lifted.
PicturesAfter(t, tail) ==
    [p \in Pictures |->
       IF p \in request[t].pictures
         THEN [stored |-> TRUE, held |-> TRUE, message |-> Question(t)]
         ELSE IF picture[p].message \in Ids(tail) THEN Gone ELSE picture[p]]

OpenTurn(t) ==
    LET r == request[t]
        tail == IF r.rewind = NoMessage THEN {} ELSE TailFrom(r.rewind)
        kept == messages \ tail
        revision == thread.revision + (IF r.rewind = NoMessage THEN 0 ELSE 1)
        asked == [id |-> Question(t), seq |-> NextSeq(kept), usable |-> TRUE,
                  version |-> 0, pictures |-> r.pictures]
    IN  /\ pc[t] = "checked"
        /\ Present(r)
        /\ \A p \in r.pictures : Attachable(p, tail)
        /\ thread' = [status |-> "open", revision |-> revision]
        /\ messages' = IF r.question THEN kept \union {asked} ELSE kept
        /\ picture' = PicturesAfter(t, tail)
        /\ branch' = [branch EXCEPT ![t] = revision]
        /\ Goes(t, "opened")
        /\ UNCHANGED <<cap, slots, request, sent, loaded, reply, ledger, unswept, crashed>>

\* A message or a picture that is gone, or a failing statement: all rolled back.
OpenRefused(t) ==
    /\ pc[t] = "checked"
    /\ Goes(t, "leaving")
    /\ UNCHANGED <<content, cap, slots, locals, crashed>>

(***************************************************************************)
(* The provider call                                                       *)
(***************************************************************************)

\* ForRequest: the newest messages that are not failed turns.
History ==
    LET usable == {m \in messages : m.usable}
    IN  {m \in usable : Cardinality({n \in usable : n.seq > m.seq}) < HistoryLimit}

ReadHistory(t) ==
    /\ pc[t] = "opened"
    /\ sent' = [sent EXCEPT ![t] = History]
    /\ Goes(t, "read")
    /\ UNCHANGED <<content, cap, slots, request, branch, loaded, reply, ledger, unswept, crashed>>

\* LoadForMessages, a query of its own, and the call it is for.
LoadPictures(t) ==
    /\ pc[t] = "read"
    /\ loaded' = [loaded EXCEPT ![t] =
                    {p \in Pictures : picture[p].held /\ picture[p].message \in Ids(sent[t])}]
    /\ Goes(t, "asked")
    /\ UNCHANGED <<content, cap, slots, request, branch, sent, reply, ledger, unswept, crashed>>

\* A reply to save: an answer, one cut short, a refusal or a stored error.
Replies(t, usable) ==
    /\ reply' = [reply EXCEPT ![t] = usable]
    /\ Goes(t, "returned")
    /\ UNCHANGED <<content, cap, slots, request, branch, sent, loaded, ledger, unswept, crashed>>

\* The reader stopped before anything came: there is no reply to save.
SaysNothing(t) ==
    /\ Goes(t, "saved")
    /\ UNCHANGED <<content, cap, slots, locals, crashed>>

ProviderReturns(t) ==
    /\ pc[t] = "asked"
    /\ (\E usable \in BOOLEAN : Replies(t, usable)) \/ SaysNothing(t)

\* The start event cannot be written, or a query before the call fails.
Abandon(t) ==
    /\ pc[t] \in {"opened", "read"}
    /\ Replies(t, FALSE) \/ SaysNothing(t)

(***************************************************************************)
(* Saving the reply and the deferred calls                                 *)
(***************************************************************************)

Save(t) ==
    /\ pc[t] = "returned"
    /\ thread.status = "open" /\ thread.revision = branch[t]
    /\ messages' = messages \union
         {[id |-> Answer(t), seq |-> NextSeq(messages), usable |-> reply[t],
           version |-> 0, pictures |-> {}]}
    /\ Goes(t, "saved")
    /\ UNCHANGED <<thread, picture, cap, slots, locals, crashed>>

\* A mutated form of SaveRefused: it returns before the record.
SaveRefusedBare(t) ==
    /\ pc[t] = "returned"
    /\ Goes(t, "recorded")
    /\ UNCHANGED <<content, cap, slots, locals, crashed>>
\* The conversation is gone, its branch changed, or the append failed.
SaveRefused(t) ==
    /\ pc[t] = "returned"
    /\ Goes(t, "saved")
    /\ UNCHANGED <<content, cap, slots, locals, crashed>>

\* recordTurn: the usage row; a failure is logged.  The settlement is Quota's.
RecordTurn(t) ==
    /\ pc[t] = "saved"
    /\ \E written \in {"written", "failed"} : ledger' = [ledger EXCEPT ![t] = written]
    /\ Goes(t, "recorded")
    /\ UNCHANGED <<content, cap, slots, request, branch, sent, loaded, reply, unswept, crashed>>

\* Drops the bytes of every picture a user's message of the conversation holds.
Dropped == {p \in Pictures : picture[p].message # NoMessage}
Without(ps) == [p \in Pictures |-> IF p \in ps THEN [picture[p] EXCEPT !.held = FALSE] ELSE picture[p]]

Discard(t) ==
    /\ pc[t] = "recorded"
    /\ \/ /\ ~Retain
          /\ picture' = Without(Dropped)
          /\ UNCHANGED unswept
       \/ /\ ~Retain
          /\ unswept' = [unswept EXCEPT ![t] = TRUE]
          /\ UNCHANGED picture
       \/ /\ Retain
          /\ UNCHANGED <<picture, unswept>>
    /\ Goes(t, "leaving")
    /\ UNCHANGED <<thread, messages, cap, slots, request, branch, sent, loaded, reply, ledger, crashed>>

\* The variables of a handler, gone when it returns or its process dies.
Forgets(ts) ==
    /\ request' = [t \in Turns |-> IF t \in ts THEN NoRequest ELSE request[t]]
    /\ sent' = [t \in Turns |-> IF t \in ts THEN {} ELSE sent[t]]
    /\ loaded' = [t \in Turns |-> IF t \in ts THEN {} ELSE loaded[t]]
    /\ reply' = [t \in Turns |-> IF t \in ts THEN FALSE ELSE reply[t]]

\* The release, deferred by the handler; its variables end with it.
Leave(t) ==
    /\ pc[t] = "leaving"
    /\ FreeSlot(t)
    /\ Forgets({t})
    /\ Goes(t, "done")
    /\ UNCHANGED <<content, cap, branch, ledger, unswept, crashed>>

(***************************************************************************)
(* What happens meanwhile                                                  *)
(***************************************************************************)

SetCap ==
    /\ \E c \in Caps \ {cap} : cap' = c
    /\ UNCHANGED <<content, slots, pc, locals, crashed>>

Edited(m) == [id |-> m.id, seq |-> m.seq, usable |-> m.usable,
              version |-> m.version + 1, pictures |-> m.pictures]
\* A mutated form of UpdateMessage: the branch stays.
UpdateMessageUnmarked(m) ==
    /\ m.version < MaxVersion
    /\ messages' = (messages \ {m}) \union {Edited(m)}
    /\ UNCHANGED <<thread, picture, cap, slots, pc, locals, crashed>>
UpdateMessage(m) ==
    /\ m.version < MaxVersion
    /\ messages' = (messages \ {m}) \union {Edited(m)}
    /\ thread' = [status |-> thread.status, revision |-> thread.revision + 1]
    /\ UNCHANGED <<picture, cap, slots, pc, locals, crashed>>

DeleteConversation ==
    /\ thread.status = "open"
    /\ thread' = [status |-> "deleted", revision |-> thread.revision]
    /\ messages' = {}
    /\ picture' = [p \in Pictures |-> IF picture[p].message = NoMessage THEN picture[p] ELSE Gone]
    /\ UNCHANGED <<cap, slots, pc, locals, crashed>>

\* DeleteOrphans takes uploads of some age that no message holds.
DeleteOrphans(ps) ==
    /\ \A p \in ps : picture[p].stored /\ picture[p].message = NoMessage
    /\ picture' = [p \in Pictures |-> IF p \in ps THEN Gone ELSE picture[p]]
    /\ UNCHANGED <<thread, messages, cap, slots, pc, locals, crashed>>

\* DiscardBefore takes the bytes of attached pictures of some age.
DiscardBefore(ps) ==
    /\ \A p \in ps : picture[p].held /\ picture[p].message # NoMessage
    /\ picture' = Without(ps)
    /\ UNCHANGED <<thread, messages, cap, slots, pc, locals, crashed>>

Sweep ==
    /\ Sweeps
    /\ \E ps \in SUBSET Pictures \ {{}} : DeleteOrphans(ps) \/ DiscardBefore(ps)

\* The process dies and starts again: the turns under way end where they are and
\* the counter, which is memory, is empty.
Running == {t \in Turns : pc[t] \notin {"new", "done"}}
Crash ==
    /\ Crashes /\ ~crashed
    /\ crashed' = TRUE
    /\ pc' = [t \in Turns |-> IF t \in Running THEN "lost" ELSE pc[t]]
    /\ inFlight' = 0
    /\ slot' = [t \in Turns |-> FALSE]
    /\ Forgets(Running)
    /\ UNCHANGED <<content, cap, branch, ledger, unswept>>

Step(t) ==
    \/ Reserve(t) \/ ReserveRefused(t)
    \/ Precheck(t) \/ PrecheckRefused(t)
    \/ OpenTurn(t) \/ OpenRefused(t)
    \/ ReadHistory(t) \/ LoadPictures(t) \/ ProviderReturns(t) \/ Abandon(t)
    \/ Save(t) \/ SaveRefused(t) \/ RecordTurn(t) \/ Discard(t) \/ Leave(t)

Meanwhile ==
    \/ SetCap
    \/ \E m \in messages : UpdateMessage(m)
    \/ DeleteConversation
    \/ Sweep
    \/ Crash

ChatNext ==
    \/ \E t \in Turns : Begin(t) \/ BeginRefused(t) \/ Step(t)
    \/ Meanwhile

\* A handler that has started runs on: the provider call and every query end by
\* a timeout of their own.
Fairness == \A t \in Turns : WF_chatVars(Step(t))

ChatSpec == ChatInit /\ [][ChatNext]_chatVars /\ Fairness

(***************************************************************************)
(* Properties                                                              *)
(***************************************************************************)

\* The rows keep their shape and the counter is a natural number.
ChatTypeOK ==
    /\ thread \in [status : {"none", "open", "deleted"}, revision : Nat]
    /\ messages \subseteq Message
    /\ picture \in [Pictures -> [stored : BOOLEAN, held : BOOLEAN,
                                 message : MessageIds \union {NoMessage}]]
    /\ cap \in Caps
    /\ inFlight \in Nat
    /\ pc \in [Turns -> Waypoints]
    /\ request \in [Turns -> Request]
    /\ slot \in [Turns -> BOOLEAN]
    /\ branch \in [Turns -> Nat \union {NotOpened}]
    /\ sent \in [Turns -> SUBSET Message]
    /\ loaded \in [Turns -> SUBSET Pictures]
    /\ reply \in [Turns -> BOOLEAN]
    /\ ledger \in [Turns -> {"none", "written", "failed"}]
    /\ unswept \in [Turns -> BOOLEAN]
    /\ crashed \in BOOLEAN

\* quota.Service.inFlight counts the turns that hold a slot, no more and no
\* fewer, however the limit is changed, switched off and on while they run: a
\* turn begun without a limit gives nothing back, and every refusal between the
\* claim and the deferred release gives the slot back itself.
SlotsExact == inFlight = Cardinality({t \in Turns : slot[t]})

\* A slot that was claimed comes back on every way out of the handler.
SlotReturns == \A t \in Turns : slot[t] ~> ~slot[t]

\* appendIn with ExpectedBranch: a reply joins the transcript only while every
\* message the provider was given is still there as it was given, and so is the
\* question the turn asked.  Edits, rewinds and deletions by other tabs during
\* the provider call must all be noticed.
AnswerMatchesTranscript ==
    [][\A t \in Turns :
         Answer(t) \in Ids(messages') \ Ids(messages) =>
           /\ sent[t] \subseteq messages
           /\ request[t].question => Question(t) \in Ids(messages)]_chatVars

\* Each stored message still has the pictures it was sent with, and a picture is
\* on no message that was not sent with it: claims, rewinds that lift pictures
\* and the cascading deletes of several tabs leave none lost and none shared.
PicturesWhole ==
    /\ \A m \in messages : \A p \in m.pictures : picture[p].message = m.id
    /\ \A p \in Pictures : picture[p].message # NoMessage =>
         \E m \in messages : m.id = picture[p].message /\ p \in m.pictures

\* Run: once a question is committed, every way out leaves a record of the turn,
\* also when the reply has nowhere to go or nothing was ever asked.
EveryTurnRecorded ==
    \A t \in Turns : pc[t] = "done" /\ branch[t] # NotOpened => ledger[t] # "none"

\* A picture's bytes do not outlive the turn that sent it, unless pictures are
\* retained or the discard itself failed.
SentPicturesDropped ==
    \A t \in Turns : \A p \in Pictures :
      ~Retain /\ pc[t] = "done" /\ ~unswept[t] /\ picture[p].message = Question(t)
        => ~picture[p].held

\* Discard: bytes are dropped once "they have reached the provider".
DroppedAfterDispatch ==
    \A t \in Turns : \A p \in Pictures :
      picture[p].message = Question(t) /\ pc[t] \in {"opened", "read"} => picture[p].held

\* No picture is lost, shared or kept past the turn that sent it.
PicturesKept == ChatTypeOK /\ PicturesWhole /\ SentPicturesDropped
=============================================================================
