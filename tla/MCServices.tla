----------------------------- MODULE MCServices -----------------------------
(***************************************************************************)
(* Components that work in the background, checked in one run. They share  *)
(* no variable: part says which of them moves, and the others stay where   *)
(* they began.                                                             *)
(***************************************************************************)
EXTENDS Rankings, RequestLog, Invites, Chat

VARIABLE part

mcEntriesAt == [e \in Entries |-> CASE e \in {1, 2} -> 1 [] e = 3 -> 3 [] e = 4 -> 4]

Init ==
    /\ part \in {"rankings", "request log", "invites", "slots"}
    /\ RankingsInit /\ RequestLogInit /\ InvitesInit /\ ChatInit
    \* A part that does not move begins one way.
    /\ part # "invites" => userEnabled
    /\ part # "slots" => cap = 0

Next ==
    /\ UNCHANGED part
    /\ IF part = "rankings" THEN RankingsNext ELSE UNCHANGED rankingVars
    /\ IF part = "request log" THEN RequestLogNext ELSE UNCHANGED logVars
    /\ IF part = "invites" THEN InvitesNext ELSE UNCHANGED inviteVars
    /\ IF part = "slots" THEN ChatNext ELSE UNCHANGED chatVars
    \* One turn goes all the way with its question, the other is refused somewhere before it opens;
    \* what else becomes of a conversation is the run chat_turns.
    /\ pc'["x2"] # "opened" /\ thread'.status # "deleted" /\ request'["x1"].rewind = << >>

Spec ==
    /\ Init /\ [][Next]_<<part, rankingVars, logVars, inviteVars, chatVars>>
    \* The fairness of each part, asked of it while it is the one that moves.
    /\ \A r \in Readers : WF_rankingVars(part = "rankings" /\ Advance(r))
    /\ WF_logVars(part = "request log" /\ Run) /\ WF_logVars(part = "request log" /\ CloseDatabase)
    /\ WF_inviteVars(part = "invites" /\ Janitor)
    /\ \A t \in {"x1", "x2"} : WF_chatVars(part = "slots" /\ Step(t))

=============================================================================
