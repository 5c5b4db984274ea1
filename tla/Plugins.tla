------------------------------ MODULE Plugins ------------------------------
(***************************************************************************)
(* An installed package on one server (plugin/manager.go, packages.go) and *)
(* the settings it is configured by (settings/settings.go): the rows, the  *)
(* copies of them every request reads, and what the package's backend      *)
(* tells the page, described from its settings.                            *)
(*                                                                         *)
(* Operators take the manager's mutex one after another; each commits its  *)
(* rows in one transaction and then brings the copies after it. Saves of   *)
(* the package's one setting go on meanwhile, under a mutex of their own.  *)
(* Writes of the setting are numbered, and a number is its value.          *)
(***************************************************************************)
EXTENDS Integers, FiniteSets

CONSTANTS
    Savers,          \* administrators saving settings
    MostPackages,    \* bound: archives that are uploaded
    MostSettings     \* bound: writes of the setting

ASSUME PluginsAssumption ==
    /\ IsFiniteSet(Savers) /\ "nobody" \notin Savers
    /\ MostPackages \in Nat /\ MostSettings \in Nat

VARIABLES
    stored,         \* plugin_installs, plugin_packages, the setting, and whether the package's tables are there
    gate,         \* Manager.states
    loaded,       \* Manager.pkgs: the archive that answers requests
    cache,        \* settings.Service.values
    op,           \* the transition that holds Manager.mu
    saver,        \* where a save is
    saving,       \* the holder of Service.writeMu
    describing,   \* the describeQueue of an archive
    described,    \* what an archive's backend answered: the setting it was asked under
    mute,         \* history: the archives whose backend could not answer the last time
    used,         \* bounds: archives uploaded, settings written
    doubt         \* history: a committed setting could not be read back, and what for it is in the cache

pluginVars == <<stored, gate, loaded, cache, op, saver, saving, describing, described, mute, used, doubt>>

Archives == 1..MostPackages
None == 0                      \* no archive, no row
Nil == 0 - 1                   \* never described
Values == 0..MostSettings
States == {"available", "enabled", "disabled"}
NoSaver == "nobody"
NoOp == [at |-> "idle", does |-> "nothing", archive |-> None, before |-> "available", to |-> "available", seen |-> None]
NoSave == [at |-> "idle", value |-> None]
\* waiting: who waits for the next run; served: who waits for this one; seen: the setting it read.
NoQueue == [at |-> "stopped", pending |-> FALSE, waiting |-> {}, served |-> {}, seen |-> None]
Empty == [state |-> "available", archive |-> None, tables |-> FALSE, setting |-> None]

PluginsTypeOK ==
    /\ stored \in [state : States, archive : {None} \cup Archives, tables : BOOLEAN, setting : Values]
    /\ gate \in States
    /\ loaded \in {None} \cup Archives
    /\ cache \in Values
    /\ op \in [at : {"idle", "locked", "attached", "committed", "remembered", "asked", "ready"},
               does : {"nothing", "install", "update", "enable", "disable", "uninstall", "purge"},
               archive : {None} \cup Archives, before : States, to : States, seen : Values]
    /\ saver \in [Savers -> [at : {"idle", "known", "written", "put", "waiting"}, value : Values]]
    /\ saving \in Savers \cup {NoSaver}
    /\ describing \in [Archives -> [at : {"stopped", "between", "begun", "asked"}, pending : BOOLEAN,
                               waiting : SUBSET Savers, served : SUBSET Savers, seen : Values]]
    /\ described \in [Archives -> {Nil} \cup Values]
    /\ mute \subseteq Archives
    /\ used \in [archives : {None} \cup Archives, settings : Values]
    /\ doubt \in {"none", "past", "present"}

PluginsInit ==
    /\ stored = Empty
    /\ gate = "available"
    /\ loaded = None
    /\ cache = None
    /\ op = NoOp
    /\ saver = [s \in Savers |-> NoSave]
    /\ saving = NoSaver
    /\ describing = [l \in Archives |-> NoQueue]
    /\ described = [l \in Archives |-> Nil]
    /\ mute = {}
    /\ used = [archives |-> 0, settings |-> 0]
    /\ doubt = "none"

-----------------------------------------------------------------------------
(* Installing and updating: InstallPackage. *)

Take(at, does, archive, to) ==
    /\ op.at = "idle"
    /\ op' = [at |-> at, does |-> does, archive |-> archive, before |-> gate, to |-> to, seen |-> None]

\* A new archive whose backend has compiled; where one is loaded it takes its place.
BeginInstall(to) ==
    LET l == used.archives + 1
    IN  /\ l \in Archives
        /\ IF loaded = None THEN Take("locked", "install", l, to) ELSE to = gate /\ Take("locked", "update", l, gate)
        /\ used' = [used EXCEPT !.archives = l]
        /\ UNCHANGED <<stored, gate, loaded, cache, saver, saving, describing, described, mute, doubt>>

\* Inside the transaction, before it commits: requests are answered by the new archive.
Attach ==
    /\ op.at = "locked" /\ op.does \in {"install", "update"}
    /\ op' = [op EXCEPT !.at = "attached"]
    /\ loaded' = op.archive
    /\ UNCHANGED <<stored, gate, cache, saver, saving, describing, described, mute, used, doubt>>

\* An install writes the first settings, if the dialog had any.
CommitInstall(withSetting) ==
    /\ op.at = "attached"
    /\ withSetting => op.does = "install" /\ used.settings < MostSettings
    /\ stored' = [stored EXCEPT !.archive = op.archive, !.tables = TRUE, !.state = op.to,
                                !.setting = IF withSetting THEN used.settings + 1 ELSE @]
    /\ used' = IF withSetting THEN [used EXCEPT !.settings = @ + 1] ELSE used
    /\ op' = [op EXCEPT !.at = IF withSetting THEN "committed" ELSE "remembered", !.seen = stored'.setting]
    /\ UNCHANGED <<gate, loaded, cache, saver, saving, describing, described, mute, doubt>>

\* Mutant: an archive whose rows were rolled back stays attached.
RestoredAttached == loaded
\* restoreInstall: the archive that was there before, or none.
Restored == stored.archive

\* The transaction fails, before the archive is attached or after.
InstallFails ==
    /\ op.at \in {"locked", "attached"} /\ op.does \in {"install", "update"}
    /\ op' = NoOp
    /\ loaded' = IF op.at = "attached" THEN Restored ELSE loaded
    /\ UNCHANGED <<stored, gate, cache, saver, saving, describing, described, mute, used, doubt>>

-----------------------------------------------------------------------------
(* Switching on and off, and removing. *)

\* toggle: its transaction commits (one that fails changes nothing).
CommitToggle(to) ==
    /\ loaded # None
    /\ stored.state = IF to = "enabled" THEN "disabled" ELSE "enabled"
    /\ Take("remembered", IF to = "enabled" THEN "enable" ELSE "disable", loaded, to)
    /\ stored' = [stored EXCEPT !.state = to]
    /\ UNCHANGED <<gate, loaded, cache, saver, saving, describing, described, mute, used, doubt>>

ClosedGate == IF gate = "enabled" THEN "disabled" ELSE gate

\* Uninstall: off in memory first, since a purge drops what requests name.
BeginUninstall(purge) ==
    /\ loaded # None
    /\ Take("locked", IF purge THEN "purge" ELSE "uninstall", loaded, "available")
    /\ gate' = ClosedGate
    /\ UNCHANGED <<stored, loaded, cache, saver, saving, describing, described, mute, used, doubt>>

CommitUninstall ==
    /\ op.at = "locked" /\ op.does \in {"uninstall", "purge"}
    /\ stored' = IF op.does = "purge" THEN Empty ELSE [stored EXCEPT !.state = "available", !.archive = None]
    /\ op' = [op EXCEPT !.at = IF op.does = "purge" THEN "committed" ELSE "remembered"]
    /\ UNCHANGED <<gate, loaded, cache, saver, saving, describing, described, mute, used, doubt>>

UninstallFails ==
    /\ op.at = "locked" /\ op.does \in {"uninstall", "purge"}
    /\ op' = NoOp
    /\ gate' = op.before
    /\ UNCHANGED <<stored, loaded, cache, saver, saving, describing, described, mute, used, doubt>>

-----------------------------------------------------------------------------
(* After the commit, still under the mutex. *)

\* Mutant: the cache takes what the transaction wrote.
ResyncedAsWritten == op.seen
\* resync, under writeMu: the row as it is now. The gate is shut, so no listener describes.
Resynced == stored.setting

Resync ==
    /\ op.at = "committed"
    /\ saving = NoSaver
    /\ op' = [op EXCEPT !.at = "remembered", !.seen = None]
    /\ \/ cache' = Resynced /\ UNCHANGED doubt
       \* The row could not be read: what was written is taken for it.
       \/ cache' = op.seen /\ doubt' = "present"
    /\ UNCHANGED <<stored, gate, loaded, saver, saving, describing, described, mute, used>>

\* refreshDescribe, in the transition before the gate opens and in the goroutine of a queue:
\* the backend reads its setting in the cache, and its answer is kept. One that cannot say
\* leaves the last answer standing, or an empty one.
Describe(l, seen) ==
    \/ described' = [described EXCEPT ![l] = seen] /\ mute' = mute \ {l}
    \/ described' = [described EXCEPT ![l] = IF @ = Nil THEN None ELSE @] /\ mute' = mute \cup {l}

OpAsks ==
    /\ op.at = "remembered" /\ op.to = "enabled"
    /\ op' = [op EXCEPT !.at = "asked", !.seen = cache]
    /\ UNCHANGED <<stored, gate, loaded, cache, saver, saving, describing, described, mute, used, doubt>>

OpDescribes ==
    /\ op.at = "asked"
    /\ op' = [op EXCEPT !.at = "ready", !.seen = None]
    /\ Describe(op.archive, op.seen)
    /\ UNCHANGED <<stored, gate, loaded, cache, saver, saving, describing, used, doubt>>

\* set: the copy follows the rows, a removed package is detached, and the mutex is free.
EndOp ==
    /\ op.at = IF op.to = "enabled" THEN "ready" ELSE "remembered"
    /\ gate' = op.to
    /\ loaded' = IF op.to = "available" THEN None ELSE loaded
    /\ op' = NoOp
    /\ UNCHANGED <<stored, cache, saver, saving, describing, described, mute, used, doubt>>

-----------------------------------------------------------------------------
(* A save: Set and setMany. *)

Step(s, at) == saver' = [saver EXCEPT ![s].at = at]

\* A key may be written while the package that defines it is enabled.
KnowKey(s) ==
    /\ saver[s].at = "idle" /\ loaded # None /\ gate = "enabled" /\ used.settings < MostSettings
    /\ Step(s, "known")
    /\ UNCHANGED <<stored, gate, loaded, cache, op, saving, describing, described, mute, used, doubt>>

\* Under writeMu: the row, then the cache.
WriteSetting(s) ==
    /\ saver[s].at = "known" /\ saving = NoSaver /\ used.settings < MostSettings
    /\ saving' = s
    /\ used' = [used EXCEPT !.settings = @ + 1]
    /\ stored' = [stored EXCEPT !.setting = used'.settings]
    /\ saver' = [saver EXCEPT ![s] = [at |-> "written", value |-> used'.settings]]
    /\ UNCHANGED <<gate, loaded, cache, op, describing, described, mute, doubt>>

PutCache(s) ==
    /\ saver[s].at = "written"
    /\ cache' = saver[s].value
    /\ doubt' = IF doubt = "present" THEN "past" ELSE doubt
    /\ saving' = NoSaver
    /\ Step(s, "put")
    /\ UNCHANGED <<stored, gate, loaded, op, describing, described, mute, used>>

\* describeQueue.request: the next run to start serves it.
Requested(q, s) ==
    [q EXCEPT !.at = IF @ = "stopped" THEN "between" ELSE @, !.pending = TRUE, !.waiting = @ \cup {s}]

\* settingsChanged: what is on describes itself again, and the save waits for it.
Notify(s) ==
    /\ saver[s].at = "put"
    /\ IF loaded # None /\ gate = "enabled"
       THEN /\ describing' = [describing EXCEPT ![loaded] = Requested(@, s)]
            /\ Step(s, "waiting")
       ELSE /\ saver' = [saver EXCEPT ![s] = NoSave]
            /\ UNCHANGED describing
    /\ UNCHANGED <<stored, gate, loaded, cache, op, saving, described, mute, used, doubt>>

-----------------------------------------------------------------------------
(* The goroutine of a describeQueue. *)

StartRun(l) ==
    /\ describing[l].at = "between" /\ describing[l].pending
    /\ describing' = [describing EXCEPT ![l] = [@ EXCEPT !.at = "begun", !.pending = FALSE,
                                               !.served = describing[l].waiting, !.waiting = {}]]
    /\ UNCHANGED <<stored, gate, loaded, cache, op, saver, saving, described, mute, used, doubt>>

AskBackend(l) ==
    /\ describing[l].at = "begun"
    /\ describing' = [describing EXCEPT ![l].at = "asked", ![l].seen = cache]
    /\ UNCHANGED <<stored, gate, loaded, cache, op, saver, saving, described, mute, used, doubt>>

\* Who waited for the run returns.
EndRun(l) ==
    /\ describing[l].at = "asked"
    /\ Describe(l, describing[l].seen)
    /\ describing' = [describing EXCEPT ![l] = [@ EXCEPT !.at = "between", !.served = {}, !.seen = None]]
    /\ saver' = [s \in Savers |-> IF s \in describing[l].served THEN NoSave ELSE saver[s]]
    /\ UNCHANGED <<stored, gate, loaded, cache, op, saving, used, doubt>>

StopQueue(l) ==
    /\ describing[l].at = "between" /\ ~describing[l].pending
    /\ describing' = [describing EXCEPT ![l] = NoQueue]
    /\ UNCHANGED <<stored, gate, loaded, cache, op, saver, saving, described, mute, used, doubt>>

-----------------------------------------------------------------------------
(* The server stops where it stands and starts again: Load and Attach read *)
(* the rows before the first request, and describe what is on.             *)
Restart ==
    /\ gate' = stored.state
    /\ loaded' = stored.archive
    /\ cache' = stored.setting
    /\ op' = NoOp
    /\ saver' = [s \in Savers |-> NoSave]
    /\ saving' = NoSaver
    /\ describing' = [l \in Archives |-> NoQueue]
    /\ described' = [l \in Archives |-> IF l = stored.archive /\ stored.state = "enabled" THEN stored.setting ELSE Nil]
    /\ doubt' = "none"
    /\ mute' = {}
    /\ UNCHANGED <<stored, used>>

PluginsNext ==
    \/ \E to \in States \ {"available"} : BeginInstall(to) \/ CommitToggle(to)
    \/ \E withSetting \in BOOLEAN : CommitInstall(withSetting)
    \/ \E purge \in BOOLEAN : BeginUninstall(purge)
    \/ Attach \/ InstallFails \/ CommitUninstall \/ UninstallFails
    \/ Resync \/ OpAsks \/ OpDescribes \/ EndOp
    \/ \E s \in Savers : KnowKey(s) \/ WriteSetting(s) \/ PutCache(s) \/ Notify(s)
    \/ \E l \in Archives : StartRun(l) \/ AskBackend(l) \/ EndRun(l) \/ StopQueue(l)
    \/ Restart

PluginsSpec == PluginsInit /\ [][PluginsNext]_pluginVars

-----------------------------------------------------------------------------
(* No request is let through to a package whose tables a purge has         *)
(* dropped, or that has nothing to answer with.                            *)
OpenOnSomething ==
    gate = "enabled" =>
        /\ stored.tables /\ loaded # None
        /\ op.does # "update" => described[loaded] # Nil

(* Whenever no transition is under way the copies are what the rows say,   *)
(* also after one that failed at any step.                                 *)
CopiesFollowRows == op.at = "idle" => gate = stored.state /\ loaded = stored.archive

(* The cached setting is the stored one once the writes under way have     *)
(* updated it, in whatever order a save and a transition commit; a re-read *)
(* that failed is made good by the next save or a restart.                 *)
CacheFollowsRows == saving = NoSaver /\ op.at # "committed" /\ doubt # "present" => cache = stored.setting

(* A save is released by a run that read what it saved, or what was        *)
(* written later, or a removal.                                            *)
ReleasedByItsRun ==
    \A l \in Archives : describing[l].at = "asked" /\ doubt = "none" =>
        \A s \in describing[l].served : describing[l].seen >= saver[s].value \/ describing[l].seen = None

(* A save returns only once the description in force reflects it: with     *)
(* nothing under way the page is told what the settings say, but for a     *)
(* backend that could not answer (packages.go:178-180).                    *)
DescribedAsSaved ==
    /\ op.at = "idle" /\ gate = "enabled" /\ loaded \notin mute
    /\ \A s \in Savers : saver[s].at \in {"idle", "known"}
    /\ \A l \in Archives : describing[l].at = "stopped"
    => described[loaded] = cache

(* A plugin's gate is open only on something, the cached setting ends as   *)
(* its row does, and no save returns before a run that has read it.        *)
PluginsHold == PluginsTypeOK /\ OpenOnSomething /\ CacheFollowsRows /\ ReleasedByItsRun
=============================================================================
