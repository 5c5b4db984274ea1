---------------------------- MODULE MCTurnsLocks ----------------------------
(***************************************************************************)
(* Chat turns, and the row locks of quotas, bonuses and cards, in one run. *)
(* They share no variable: part says which of them moves.                  *)
(***************************************************************************)
EXTENDS MCLockOrder, Chat

VARIABLE part

\* The limit and a crash are met before the conversation is there: what becomes of
\* a slot in it is the run services. One turn meets a failing statement after its
\* reply, and the other need not.
EarlyLimit ==
    /\ thread'.status = "none" \/ (cap' = 0 /\ ~ crashed' /\ inFlight' = 0)
    /\ Cardinality({t \in Turns : ledger'[t] = "failed" \/ unswept'[t]}) <= 1

\* A message is edited between the opening of a turn and its save: elsewhere the
\* transcript may as well have been another one.
EditsMeetTurns ==
    pc' = pc /\ thread'.revision # thread.revision =>
        \E t \in Turns : pc[t] \in {"opened", "read", "asked", "returned"}

TurnsLocksInit ==
    /\ part \in {"turns", "locks"}
    /\ ChatInit /\ Init
    \* Turns that do not move begin one way.
    /\ part = "locks" => cap = 0

Locks == part = "locks" /\ UNCHANGED <<part, chatVars>>

\* Next of LockOrder, an action at a time.
TurnsLocksNext ==
    \/ part = "turns" /\ ChatNext /\ UNCHANGED <<part, vars>> /\ EarlyLimit /\ EditsMeetTurns
    \/ \E t \in Txns :
        \/ \E sc \in Scripts : Locks /\ BeginTxn(t, sc)
        \/ Locks /\ \E r \in Due(t) : Lock(t, r) \/ Wait(t, r)
        \/ Locks /\ Grant(t)
        \/ Locks /\ End(t)

TurnsLocksSpec == TurnsLocksInit /\ [][TurnsLocksNext]_<<part, vars, chatVars>>
=============================================================================
