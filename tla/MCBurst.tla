------------------------------- MODULE MCBurst -------------------------------
(***************************************************************************)
(* A burst of turns, the keys they would be sent with, the models they may *)
(* use, the backups and the plugins, in one run. They share no variable:   *)
(* part says which moves, and the others stay where they began.            *)
(***************************************************************************)
EXTENDS MCQuota, ProviderKeys, Health, Backups, Plugins

VARIABLE part

mcListOrder == <<"m1", "m2">>
mcHostOf == [m \in Catalogue |-> IF m = "m1" THEN "q" ELSE "p"]
mcRouteOf == [m \in Catalogue |-> "m1"]

BurstInit ==
    /\ part \in {"turns", "keys", "checkers", "routed", "backups", "destinations", "plugins"}
    /\ Init /\ KeysInit /\ HealthInit /\ BackupsInit /\ DestinationsInit /\ PluginsInit
    /\ upstreams["p1"] = [url |-> "u1", keys |-> <<[for |-> "u1", hint |-> "h1"]>>]

\* One editor duplicates and edits the original, the other replaces its keys or moves it.
OneMoves ==
    /\ \A e \in KeyEditors : form'[e].of = "p1"
    /\ form'["e1"].typed \in {<< >>, <<"h2">>}
    /\ form'["e2"].at \in {"closed", "edit"} /\ form'["e2"].keep = << >>
    /\ form'["e2"].typed = IF form'["e2"].at = "edit" THEN <<"h1">> ELSE << >>

\* Two checkers of one model, and one checker of a model and one that it serves.
OneChecked == row["m2"]' = row["m2"] /\ evidence["m2"]' = << >> /\ hostOn["p"]'
OneServed == pass["k2"]' = NoPass /\ era' = 0

\* One process is shut down, the other only dies; the first run's retention may be longer.
OneCloses == serving'["p2"] = "up" /\ run'[2].retention # 2

\* Two savers of one archive, or one save while an archive is updated.
OneUpdates == used'.archives = 2 => used'.settings < 2 /\ saver'["s2"].at = "idle"

BurstNext ==
    /\ UNCHANGED part
    /\ IF part = "turns" THEN Next ELSE UNCHANGED vars
    /\ IF part = "keys" THEN KeysNext /\ OneMoves ELSE UNCHANGED keyVars
    /\ IF part \in {"checkers", "routed"} THEN HealthNext ELSE UNCHANGED healthVars
    /\ part = "checkers" => OneChecked
    /\ part = "routed" => OneServed
    /\ IF part = "backups" THEN BackupsNext /\ OneCloses ELSE UNCHANGED backupVars
    /\ IF part = "destinations" THEN DestinationsNext ELSE UNCHANGED destinationVars
    /\ IF part = "plugins" THEN PluginsNext /\ OneUpdates ELSE UNCHANGED pluginVars

BurstSpec ==
    BurstInit /\ [][BurstNext]_<<part, vars, keyVars, healthVars, backupVars, destinationVars, pluginVars>>
=============================================================================
