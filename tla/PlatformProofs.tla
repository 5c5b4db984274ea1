--------------------------- MODULE PlatformProofs ---------------------------
(***************************************************************************)
(* The copies of a package's rows, the switches of the models, the backups *)
(* and the keys of a provider, for any number of administrators, archives, *)
(* settings, checkers, models, processes, runs, forms and keys.            *)
(*                                                                         *)
(* Plugins. The argument is where a transition stands (Undertaken): until  *)
(* it commits, the rows and the gate are as it found them, so one that     *)
(* fails restores the rows' own archive; once it has, the rows say what    *)
(* it will set. A save holds writeMu from the row to the cache (Writing),  *)
(* and the numbers of the saves that wait are below what the cache says    *)
(* (Numbered), but for a cache a removal emptied or a re-read that failed. *)
(*                                                                         *)
(* Health. What decides is asked of the row by the write itself, so the    *)
(* lists the passes work from may be as old as they like: nothing is       *)
(* assumed of them but their shape.                                        *)
(*                                                                         *)
(* Backups. A lease outlasts the deadline of the run it was given to       *)
(* (OnTime), so while a run works the lease is neither free nor another's, *)
(* and only an archive that has landed is pruned by its age (Stored).      *)
(*                                                                         *)
(* Keys. Each list that is written is made in the step that writes it or   *)
(* kept by the form that opened it (KeysReady), of keys that are there and *)
(* keys typed for the address it is written with; what is left when equals *)
(* are dropped (Unique) has no key twice and none that was not there.      *)
(***************************************************************************)
EXTENDS Health, Plugins, Backups, ProviderKeys, FiniteSetTheorems, SequenceTheorems, TLAPS

Committed == {"committed", "remembered", "asked", "ready"}

\* Before the commit: what the transition found still stands, but for a closed gate and an attached archive.
Uncommitted ==
    /\ op.at \in {"locked", "attached"} => op.does \in {"install", "update", "uninstall", "purge"}
    /\ op.at = "locked" => loaded = stored.archive /\ op.before = stored.state
    /\ op.at = "attached" => loaded = op.archive /\ op.does \in {"install", "update"}
    /\ op.at \in {"locked", "attached"} /\ op.does \in {"install", "update"} =>
         /\ gate = stored.state
         /\ op.does = "update" <=> stored.archive # None
    /\ op.at = "locked" /\ op.does \in {"uninstall", "purge"} => gate # "enabled" /\ op.to = "available"

\* After the commit: the rows say what the transition is about to set.
Undertaken ==
    /\ op.at = "idle" => gate = stored.state /\ loaded = stored.archive /\ op.does = "nothing"
    /\ op.does \in {"install", "update"} => op.archive \in Archives /\ op.to # "available"
    /\ op.at \in Committed =>
         /\ stored.state = op.to
         /\ op.to # "available" => stored.archive = op.archive /\ loaded = op.archive
         /\ gate = "enabled" => op.does \in {"update", "disable"} /\ op.to # "available"
    /\ op.at = "committed" => gate # "enabled"
    /\ op.at \in {"asked", "ready"} => op.to = "enabled"

RowsAgree ==
    /\ stored.archive = None <=> stored.state = "available"
    /\ stored.archive # None => stored.tables

\* What requests are let through to, or will be again when a removal fails, has been described,
\* unless an update has just replaced it.
Undescribed == op.does = "update" /\ op.at \in {"remembered", "asked"}
Opens == gate = "enabled" \/ (op.at = "locked" /\ op.before = "enabled")
DescribedWhenOpen ==
    /\ Opens /\ ~Undescribed => described[stored.archive] # Nil
    /\ op.at = "ready" => described[op.archive] # Nil

Writing ==
    /\ \A s \in Savers : saver[s].at = "written" => saving = s
    /\ saving # NoSaver => saver[saving].at = "written" /\ (op.at # "committed" => saver[saving].value = stored.setting)

\* What a save has written is in the row, or is behind it; so is what it has put in the cache.
SaveNumbered(s) ==
    /\ saver[s].value <= used.settings
    /\ saver[s].at \in {"written", "put", "waiting"} => stored.setting = None \/ saver[s].value <= stored.setting
    /\ saver[s].at \in {"put", "waiting"} =>
         /\ \A t \in Savers : saver[t].at = "written" => saver[s].value <= saver[t].value
         /\ doubt = "none" => cache = None \/ saver[s].value <= cache
Numbered == stored.setting <= used.settings /\ \A s \in Savers : SaveNumbered(s)

\* A save waits for one run of one archive.
Waits(l) == describing[l].waiting \cup describing[l].served
WaitsOnce(l) ==
    /\ \A s \in Waits(l) : saver[s].at = "waiting"
    /\ describing[l].waiting \cap describing[l].served = {}
    /\ \A k \in Archives : k # l => Waits(l) \cap Waits(k) = {}
Waited == \A l \in Archives : WaitsOnce(l)

PluginsInv ==
    /\ PluginsTypeOK /\ Uncommitted /\ Undertaken /\ RowsAgree /\ DescribedWhenOpen
    /\ Writing /\ Numbered /\ CacheFollowsRows /\ Waited /\ ReleasedByItsRun

StoredRow == [state : States, archive : {None} \cup Archives, tables : BOOLEAN, setting : Values]
OpRow == [at : {"idle", "locked", "attached", "committed", "remembered", "asked", "ready"},
          does : {"nothing", "install", "update", "enable", "disable", "uninstall", "purge"},
          archive : {None} \cup Archives, before : States, to : States, seen : Values]
SaveRow == [at : {"idle", "known", "written", "put", "waiting"}, value : Values]
QueueRow == [at : {"stopped", "between", "begun", "asked"}, pending : BOOLEAN,
             waiting : SUBSET Savers, served : SUBSET Savers, seen : Values]

PluginsRows ==
    /\ stored \in StoredRow /\ op \in OpRow /\ saver \in [Savers -> SaveRow]
    /\ describing \in [Archives -> QueueRow]
PluginsScalars ==
    /\ gate \in States /\ loaded \in {None} \cup Archives /\ cache \in Values
    /\ saving \in Savers \cup {NoSaver}
    /\ described \in [Archives -> {Nil} \cup Values]
    /\ mute \subseteq Archives
    /\ used \in [archives : {None} \cup Archives, settings : Values]
    /\ doubt \in {"none", "past", "present"}

LEMMA PluginsTypes == PluginsTypeOK <=> PluginsRows /\ PluginsScalars
  BY DEF PluginsTypeOK, PluginsRows, PluginsScalars, StoredRow, OpRow, SaveRow, QueueRow

LEMMA PluginsConstants ==
    /\ MostPackages \in Nat /\ MostSettings \in Nat /\ NoSaver \notin Savers
    /\ None = 0 /\ Nil = -1 /\ None \notin Archives /\ None \in Values /\ Nil \notin Values
    /\ \A v \in Values : v \in Int /\ 0 <= v
  BY PluginsAssumption DEF NoSaver, None, Nil, Archives, Values

LEMMA PlainRows ==
    /\ Empty \in StoredRow /\ Empty.state = "available" /\ Empty.archive = None /\ Empty.setting = None
    /\ NoOp \in OpRow /\ NoOp.at = "idle" /\ NoOp.does = "nothing" /\ NoOp.to = "available"
    /\ NoSave \in SaveRow /\ NoSave.at = "idle" /\ NoSave.value = 0
    /\ NoQueue \in QueueRow /\ NoQueue.at = "stopped" /\ NoQueue.waiting = {} /\ NoQueue.served = {}
  BY PluginsConstants
  DEF Empty, StoredRow, NoOp, OpRow, NoSave, SaveRow, NoQueue, QueueRow, States, Archives, Values

-----------------------------------------------------------------------------
(* What leaves a part of the invariant alone. *)

TransitionInv == Uncommitted /\ Undertaken /\ RowsAgree /\ DescribedWhenOpen
SavesInv == Writing /\ Numbered /\ CacheFollowsRows
WaitsInv == Waited /\ ReleasedByItsRun

LEMMA PluginsParts ==
    PluginsInv <=> PluginsRows /\ PluginsScalars /\ TransitionInv /\ SavesInv /\ WaitsInv
  BY PluginsTypes DEF PluginsInv, TransitionInv, SavesInv, WaitsInv

LEMMA PluginsKept ==
    ASSUME PluginsRows', PluginsScalars', TransitionInv', SavesInv', WaitsInv'
    PROVE  PluginsInv'
  <1>1. PluginsTypeOK'
    BY DEF PluginsTypeOK, PluginsRows, PluginsScalars, StoredRow, OpRow, SaveRow, QueueRow
  <1> QED  BY <1>1 DEF PluginsInv, TransitionInv, SavesInv, WaitsInv

LEMMA TransitionStays ==
    ASSUME TransitionInv, UNCHANGED <<op, gate, loaded, described>>,
           stored'.state = stored.state, stored'.archive = stored.archive, stored'.tables = stored.tables
    PROVE  TransitionInv'
  BY DEF TransitionInv, Uncommitted, Undertaken, RowsAgree, DescribedWhenOpen, Opens, Undescribed

LEMMA SavesStay ==
    ASSUME SavesInv, UNCHANGED <<saver, saving, doubt, cache, used>>, stored'.setting = stored.setting,
           op'.at = "committed" <=> op.at = "committed"
    PROVE  SavesInv'
  <1>1. Writing'  BY DEF SavesInv, Writing
  <1>2. Numbered'  BY DEF SavesInv, Numbered, SaveNumbered
  <1>3. CacheFollowsRows'  BY DEF SavesInv, CacheFollowsRows
  <1> QED  BY <1>1, <1>2, <1>3 DEF SavesInv

LEMMA WaitsStay ==
    ASSUME WaitsInv, UNCHANGED <<describing, saver>>, doubt' = "none" => doubt = "none"
    PROVE  WaitsInv'
  <1>1. Waited'  BY DEF WaitsInv, Waited, WaitsOnce, Waits
  <1>2. ReleasedByItsRun'  BY DEF WaitsInv, ReleasedByItsRun
  <1> QED  BY <1>1, <1>2 DEF WaitsInv

\* Who waits goes on waiting.
LEMMA WaitsGo ==
    ASSUME PluginsRows, WaitsInv, UNCHANGED describing, doubt' = "none" => doubt = "none",
           \A t \in Savers : saver[t].at = "waiting" => saver'[t].at = "waiting" /\ saver'[t].value = saver[t].value
    PROVE  WaitsInv'
  <1>1. \A l \in Archives : \A t \in Waits(l) : t \in Savers /\ saver[t].at = "waiting"
    BY DEF WaitsInv, Waited, WaitsOnce, PluginsRows, QueueRow, Waits
  <1>2. Waited'  BY <1>1 DEF WaitsInv, Waited, WaitsOnce, Waits
  <1>3. ReleasedByItsRun'  BY <1>1 DEF WaitsInv, ReleasedByItsRun, Waits
  <1> QED  BY <1>2, <1>3 DEF WaitsInv

-----------------------------------------------------------------------------
(* Installing and updating. *)

LEMMA BeginInstallStep == ASSUME PluginsInv, NEW to \in States \ {"available"}, BeginInstall(to) PROVE PluginsInv'
  <1>0. PluginsRows /\ PluginsScalars /\ TransitionInv /\ SavesInv /\ WaitsInv  BY PluginsParts
  <1>1. /\ used.archives + 1 \in Archives /\ used' = [used EXCEPT !.archives = used.archives + 1]
        /\ op.at = "idle"
        /\ UNCHANGED <<stored, gate, loaded, cache, saver, saving, describing, described, mute, doubt>>
    BY DEF BeginInstall, Take
  <1>2. /\ op' \in OpRow /\ op'.at = "locked" /\ op'.archive \in Archives /\ op'.before = gate
        /\ op'.to # "available"
        /\ \/ op'.does = "install" /\ loaded = None
           \/ op'.does = "update" /\ loaded # None
    <2>1. gate \in States /\ gate = stored.state /\ loaded = stored.archive
      BY <1>0, <1>1 DEF PluginsScalars, TransitionInv, Undertaken
    <2>2. CASE loaded = None  BY <1>1, <2>1, <2>2, PluginsConstants DEF BeginInstall, Take, OpRow
    <2>3. CASE loaded # None
      <3>1. gate # "available"  BY <1>0, <2>1, <2>3 DEF TransitionInv, RowsAgree
      <3> QED  BY <1>1, <2>1, <2>3, <3>1, PluginsConstants DEF BeginInstall, Take, OpRow
    <2> QED  BY <2>2, <2>3
  <1>3. PluginsRows' /\ PluginsScalars'
    <2>1. used' \in [archives : {None} \cup Archives, settings : Values] /\ used'.settings = used.settings
      BY <1>0, <1>1 DEF PluginsScalars
    <2> QED  BY <1>0, <1>1, <1>2, <2>1 DEF PluginsRows, PluginsScalars
  <1>4. TransitionInv'
    <2>1. Uncommitted' /\ Undertaken' /\ RowsAgree'
      BY <1>0, <1>1, <1>2 DEF TransitionInv, Uncommitted, Undertaken, RowsAgree, Committed
    <2>2. DescribedWhenOpen'  BY <1>0, <1>1, <1>2 DEF TransitionInv, DescribedWhenOpen, Opens, Undescribed
    <2> QED  BY <2>1, <2>2 DEF TransitionInv
  <1>5. SavesInv'
    <2>1. used'.settings = used.settings  BY <1>0, <1>1 DEF PluginsScalars
    <2>2. Writing' /\ CacheFollowsRows'  BY <1>0, <1>1, <1>2 DEF SavesInv, Writing, CacheFollowsRows
    <2>3. Numbered'  BY <1>0, <1>1, <2>1 DEF SavesInv, Numbered, SaveNumbered
    <2> QED  BY <2>2, <2>3 DEF SavesInv
  <1>6. WaitsInv'  BY <1>0, <1>1, WaitsStay
  <1> QED  BY <1>3, <1>4, <1>5, <1>6, PluginsKept

LEMMA AttachStep == ASSUME PluginsInv, Attach PROVE PluginsInv'
  <1>0. PluginsRows /\ PluginsScalars /\ TransitionInv /\ SavesInv /\ WaitsInv  BY PluginsParts
  <1>1. /\ op.at = "locked" /\ op.does \in {"install", "update"}
        /\ op' = [op EXCEPT !.at = "attached"] /\ loaded' = op.archive
        /\ UNCHANGED <<stored, gate, cache, saver, saving, describing, described, mute, used, doubt>>
    BY DEF Attach
  <1>2. /\ op' \in OpRow /\ op'.at = "attached" /\ op'.archive = op.archive /\ op'.does = op.does
        /\ op'.to = op.to
    BY <1>0, <1>1 DEF PluginsRows, OpRow
  <1>3. PluginsRows' /\ PluginsScalars'  BY <1>0, <1>1, <1>2 DEF PluginsRows, PluginsScalars, OpRow
  <1>4. TransitionInv'
    BY <1>0, <1>1, <1>2
    DEF TransitionInv, Uncommitted, Undertaken, RowsAgree, Committed, DescribedWhenOpen, Opens, Undescribed
  <1>5. SavesInv'  BY <1>0, <1>1, <1>2, SavesStay
  <1>6. WaitsInv'  BY <1>0, <1>1, WaitsStay
  <1> QED  BY <1>3, <1>4, <1>5, <1>6, PluginsKept

LEMMA InstallFailsStep == ASSUME PluginsInv, InstallFails PROVE PluginsInv'
  <1>0. PluginsRows /\ PluginsScalars /\ TransitionInv /\ SavesInv /\ WaitsInv  BY PluginsParts
  <1>1. /\ op.at \in {"locked", "attached"} /\ op.does \in {"install", "update"} /\ op' = NoOp
        /\ loaded' = stored.archive
        /\ UNCHANGED <<stored, gate, cache, saver, saving, describing, described, mute, used, doubt>>
    BY <1>0 DEF InstallFails, Restored, TransitionInv, Uncommitted
  <1>2. op' \in OpRow /\ op'.at = "idle" /\ op'.does = "nothing"  BY <1>1, PlainRows
  <1>3. PluginsRows' /\ PluginsScalars'  BY <1>0, <1>1, <1>2 DEF PluginsRows, PluginsScalars, StoredRow
  <1>4. TransitionInv'
    BY <1>0, <1>1, <1>2
    DEF TransitionInv, Uncommitted, Undertaken, RowsAgree, Committed, DescribedWhenOpen, Opens, Undescribed
  <1>5. SavesInv'  BY <1>0, <1>1, <1>2, SavesStay
  <1>6. WaitsInv'  BY <1>0, <1>1, WaitsStay
  <1> QED  BY <1>3, <1>4, <1>5, <1>6, PluginsKept

LEMMA CommitInstallStep == ASSUME PluginsInv, NEW withSetting \in BOOLEAN, CommitInstall(withSetting) PROVE PluginsInv'
  <1>0. PluginsRows /\ PluginsScalars /\ TransitionInv /\ SavesInv /\ WaitsInv  BY PluginsParts
  <1>1. /\ op.at = "attached"
        /\ withSetting => op.does = "install" /\ used.settings < MostSettings
        /\ UNCHANGED <<gate, loaded, cache, saver, saving, describing, described, mute, doubt>>
    BY DEF CommitInstall
  <1>2. /\ stored' \in StoredRow /\ stored'.archive = op.archive /\ stored'.tables /\ stored'.state = op.to
        /\ IF withSetting THEN stored'.setting = used.settings + 1 /\ used'.settings = used.settings + 1
           ELSE stored'.setting = stored.setting /\ used'.settings = used.settings
        /\ used' \in [archives : {None} \cup Archives, settings : Values]
    <2>1. used.settings \in Nat /\ (withSetting => used.settings + 1 \in Values)
      BY <1>0, <1>1, PluginsConstants DEF PluginsScalars, Values
    <2> QED  BY <1>0, <1>1, <2>1 DEF CommitInstall, PluginsRows, PluginsScalars, StoredRow, OpRow
  <1>3. /\ op' \in OpRow /\ op'.at = (IF withSetting THEN "committed" ELSE "remembered")
        /\ op'.archive = op.archive /\ op'.does = op.does /\ op'.to = op.to
    BY <1>0, <1>2 DEF CommitInstall, PluginsRows, OpRow, StoredRow
  <1>4. PluginsRows' /\ PluginsScalars'  BY <1>0, <1>1, <1>2, <1>3 DEF PluginsRows, PluginsScalars
  <1>5. /\ op.archive \in Archives /\ op.to # "available" /\ loaded = op.archive /\ gate = stored.state
        /\ op.does \in {"install", "update"} /\ (op.does = "update" <=> stored.archive # None)
    BY <1>0, <1>1 DEF TransitionInv, Uncommitted, Undertaken
  <1>6. gate = "enabled" => op.does = "update"  BY <1>0, <1>5 DEF TransitionInv, RowsAgree
  <1>7. TransitionInv'
    <2>1. Uncommitted'  BY <1>3 DEF Uncommitted
    <2>2. Undertaken'  BY <1>1, <1>2, <1>3, <1>5, <1>6 DEF Undertaken, Committed
    <2>3. RowsAgree'  BY <1>2, <1>5, PluginsConstants DEF RowsAgree
    <2>4. DescribedWhenOpen'  BY <1>1, <1>3, <1>5, <1>6 DEF DescribedWhenOpen, Opens, Undescribed
    <2> QED  BY <2>1, <2>2, <2>3, <2>4 DEF TransitionInv
  <1>8. SavesInv'
    <2>1. CASE ~withSetting
      <3>1. Writing' /\ CacheFollowsRows'
        BY <1>0, <1>1, <1>2, <1>3, <2>1 DEF SavesInv, Writing, CacheFollowsRows
      <3>2. Numbered'  BY <1>0, <1>1, <1>2, <2>1 DEF SavesInv, Numbered, SaveNumbered
      <3> QED  BY <3>1, <3>2 DEF SavesInv
    <2>2. CASE withSetting
      <3>1. Writing' /\ CacheFollowsRows'
        BY <1>0, <1>1, <1>2, <1>3, <2>2 DEF SavesInv, Writing, CacheFollowsRows
      <3>2. used.settings \in Int /\ \A s \in Savers : saver[s].value \in Int
        BY <1>0, PluginsConstants DEF PluginsScalars, PluginsRows, SaveRow
      <3>3. Numbered'  BY <1>0, <1>1, <1>2, <2>2, <3>2 DEF SavesInv, Numbered, SaveNumbered
      <3> QED  BY <3>1, <3>3 DEF SavesInv
    <2> QED  BY <2>1, <2>2
  <1>9. WaitsInv'  BY <1>0, <1>1, WaitsStay
  <1> QED  BY <1>4, <1>7, <1>8, <1>9, PluginsKept

-----------------------------------------------------------------------------
(* Switching on and off, and removing. *)

LEMMA CommitToggleStep == ASSUME PluginsInv, NEW to \in States \ {"available"}, CommitToggle(to) PROVE PluginsInv'
  <1>0. PluginsRows /\ PluginsScalars /\ TransitionInv /\ SavesInv /\ WaitsInv  BY PluginsParts
  <1>1. /\ op.at = "idle" /\ loaded # None
        /\ stored.state = (IF to = "enabled" THEN "disabled" ELSE "enabled")
        /\ op' = [at |-> "remembered", does |-> IF to = "enabled" THEN "enable" ELSE "disable", archive |-> loaded,
                  before |-> gate, to |-> to, seen |-> None]
        /\ stored' = [stored EXCEPT !.state = to]
        /\ UNCHANGED <<gate, loaded, cache, saver, saving, describing, described, mute, used, doubt>>
    BY DEF CommitToggle, Take
  <1>2. to \in States /\ to # "available"  OBVIOUS
  <1>3. /\ op' \in OpRow /\ op'.at = "remembered" /\ op'.archive = loaded /\ op'.to = to
        /\ op'.does = (IF to = "enabled" THEN "enable" ELSE "disable")
    BY <1>0, <1>1, PluginsConstants DEF OpRow, PluginsScalars
  <1>4. /\ stored' \in StoredRow /\ stored'.state = to /\ stored'.archive = stored.archive
        /\ stored'.tables = stored.tables /\ stored'.setting = stored.setting
    BY <1>0, <1>1 DEF PluginsRows, StoredRow
  <1>5. PluginsRows' /\ PluginsScalars'  BY <1>0, <1>1, <1>3, <1>4 DEF PluginsRows, PluginsScalars
  <1>6. gate = stored.state /\ loaded = stored.archive  BY <1>0, <1>1 DEF TransitionInv, Undertaken
  <1>7. TransitionInv'
    <2>1. Uncommitted'  BY <1>3 DEF Uncommitted
    <2>2. Undertaken'  BY <1>1, <1>2, <1>3, <1>4, <1>6 DEF Undertaken, Committed, States
    <2>3. RowsAgree'  BY <1>0, <1>1, <1>2, <1>4, <1>6 DEF TransitionInv, RowsAgree
    <2>4. DescribedWhenOpen'
      BY <1>0, <1>1, <1>3, <1>4 DEF TransitionInv, DescribedWhenOpen, Opens, Undescribed
    <2> QED  BY <2>1, <2>2, <2>3, <2>4 DEF TransitionInv
  <1>8. SavesInv'  BY <1>0, <1>1, <1>3, <1>4, SavesStay
  <1>9. WaitsInv'  BY <1>0, <1>1, WaitsStay
  <1> QED  BY <1>5, <1>7, <1>8, <1>9, PluginsKept

LEMMA BeginUninstallStep == ASSUME PluginsInv, NEW purge \in BOOLEAN, BeginUninstall(purge) PROVE PluginsInv'
  <1>0. PluginsRows /\ PluginsScalars /\ TransitionInv /\ SavesInv /\ WaitsInv  BY PluginsParts
  <1>1. /\ op.at = "idle" /\ loaded # None
        /\ op' = [at |-> "locked", does |-> IF purge THEN "purge" ELSE "uninstall", archive |-> loaded,
                  before |-> gate, to |-> "available", seen |-> None]
        /\ gate' = (IF gate = "enabled" THEN "disabled" ELSE gate)
        /\ UNCHANGED <<stored, loaded, cache, saver, saving, describing, described, mute, used, doubt>>
    BY DEF BeginUninstall, Take, ClosedGate
  <1>2. /\ op' \in OpRow /\ op'.at = "locked" /\ op'.does \in {"purge", "uninstall"} /\ op'.to = "available"
        /\ op'.before = gate
    BY <1>0, <1>1, PluginsConstants DEF OpRow, PluginsScalars, States
  <1>3. gate' \in States /\ gate' # "enabled"  BY <1>0, <1>1 DEF PluginsScalars, States
  <1>4. PluginsRows' /\ PluginsScalars'  BY <1>0, <1>1, <1>2, <1>3 DEF PluginsRows, PluginsScalars
  <1>5. gate = stored.state /\ loaded = stored.archive  BY <1>0, <1>1 DEF TransitionInv, Undertaken
  <1>6. TransitionInv'
    <2>1. Uncommitted'  BY <1>1, <1>2, <1>3, <1>5 DEF Uncommitted
    <2>2. Undertaken'  BY <1>2 DEF Undertaken, Committed
    <2>3. RowsAgree' /\ DescribedWhenOpen'
      BY <1>0, <1>1, <1>2, <1>3 DEF TransitionInv, RowsAgree, DescribedWhenOpen, Opens, Undescribed
    <2> QED  BY <2>1, <2>2, <2>3 DEF TransitionInv
  <1>7. SavesInv'  BY <1>0, <1>1, <1>2, SavesStay
  <1>8. WaitsInv'  BY <1>0, <1>1, WaitsStay
  <1> QED  BY <1>4, <1>6, <1>7, <1>8, PluginsKept

LEMMA CommitUninstallStep == ASSUME PluginsInv, CommitUninstall PROVE PluginsInv'
  <1>0. PluginsRows /\ PluginsScalars /\ TransitionInv /\ SavesInv /\ WaitsInv  BY PluginsParts
  <1>1. /\ op.at = "locked" /\ op.does \in {"uninstall", "purge"}
        /\ stored' = (IF op.does = "purge" THEN Empty ELSE [stored EXCEPT !.state = "available", !.archive = None])
        /\ op' = [op EXCEPT !.at = IF op.does = "purge" THEN "committed" ELSE "remembered"]
        /\ UNCHANGED <<gate, loaded, cache, saver, saving, describing, described, mute, used, doubt>>
    BY DEF CommitUninstall
  <1>2. gate # "enabled" /\ op.to = "available"  BY <1>0, <1>1 DEF TransitionInv, Uncommitted
  <1>3. /\ op' \in OpRow /\ op'.at = (IF op.does = "purge" THEN "committed" ELSE "remembered")
        /\ op'.does = op.does /\ op'.to = "available" /\ op'.archive = op.archive
    BY <1>0, <1>1, <1>2 DEF PluginsRows, OpRow
  <1>4. /\ stored' \in StoredRow /\ stored'.state = "available" /\ stored'.archive = None
        /\ stored'.setting = (IF op.does = "purge" THEN None ELSE stored.setting)
    BY <1>0, <1>1, PlainRows DEF PluginsRows, StoredRow, States
  <1>5. PluginsRows' /\ PluginsScalars'  BY <1>0, <1>1, <1>3, <1>4 DEF PluginsRows, PluginsScalars
  <1>6. TransitionInv'
    <2>1. Uncommitted'  BY <1>3 DEF Uncommitted
    <2>2. Undertaken'  BY <1>1, <1>2, <1>3, <1>4 DEF Undertaken, Committed
    <2>3. RowsAgree' /\ DescribedWhenOpen'  BY <1>1, <1>2, <1>3, <1>4 DEF RowsAgree, DescribedWhenOpen, Opens
    <2> QED  BY <2>1, <2>2, <2>3 DEF TransitionInv
  <1>7. SavesInv'
    <2>1. CASE op.does # "purge"  BY <1>0, <1>1, <1>3, <1>4, <2>1, SavesStay
    <2>2. CASE op.does = "purge"
      <3>1. Writing' /\ CacheFollowsRows'
        BY <1>0, <1>1, <1>3, <1>4, <2>2 DEF SavesInv, Writing, CacheFollowsRows
      <3>2. 0 <= used.settings  BY <1>0, PluginsConstants DEF PluginsScalars
      <3>3. Numbered'
        BY <1>0, <1>1, <1>4, <2>2, <3>2, PluginsConstants DEF SavesInv, Numbered, SaveNumbered
      <3> QED  BY <3>1, <3>3 DEF SavesInv
    <2> QED  BY <2>1, <2>2
  <1>8. WaitsInv'  BY <1>0, <1>1, WaitsStay
  <1> QED  BY <1>5, <1>6, <1>7, <1>8, PluginsKept

LEMMA UninstallFailsStep == ASSUME PluginsInv, UninstallFails PROVE PluginsInv'
  <1>0. PluginsRows /\ PluginsScalars /\ TransitionInv /\ SavesInv /\ WaitsInv  BY PluginsParts
  <1>1. /\ op.at = "locked" /\ op.does \in {"uninstall", "purge"} /\ op' = NoOp /\ gate' = op.before
        /\ UNCHANGED <<stored, loaded, cache, saver, saving, describing, described, mute, used, doubt>>
    BY DEF UninstallFails
  <1>2. op' \in OpRow /\ op'.at = "idle" /\ op'.does = "nothing"  BY <1>1, PlainRows
  <1>3. PluginsRows' /\ PluginsScalars'  BY <1>0, <1>1, <1>2 DEF PluginsRows, PluginsScalars, OpRow
  <1>4. op.before = stored.state /\ loaded = stored.archive  BY <1>0, <1>1 DEF TransitionInv, Uncommitted
  <1>5. TransitionInv'
    <2>1. Uncommitted' /\ Undertaken' /\ RowsAgree'
      BY <1>0, <1>1, <1>2, <1>4 DEF TransitionInv, Uncommitted, Undertaken, RowsAgree, Committed
    <2>2. DescribedWhenOpen'
      BY <1>0, <1>1, <1>2 DEF TransitionInv, DescribedWhenOpen, Opens, Undescribed
    <2> QED  BY <2>1, <2>2 DEF TransitionInv
  <1>6. SavesInv'  BY <1>0, <1>1, <1>2, SavesStay
  <1>7. WaitsInv'  BY <1>0, <1>1, WaitsStay
  <1> QED  BY <1>3, <1>5, <1>6, <1>7, PluginsKept

-----------------------------------------------------------------------------
(* After the commit. *)

LEMMA OpenHasArchive ==
    ASSUME PluginsRows, PluginsScalars, TransitionInv
    PROVE  /\ Opens => stored.archive \in Archives
           /\ op.at \in {"asked", "ready"} => op.archive \in Archives
  <1>1. stored.archive \in {None} \cup Archives  BY DEF PluginsRows, StoredRow
  <1>2. op.at \in {"idle", "locked", "attached"} \cup Committed  BY DEF PluginsRows, OpRow, Committed
  <1>3. ASSUME Opens PROVE stored.state # "available"
    <2>1. CASE op.at \in Committed  BY <1>3, <2>1 DEF TransitionInv, Undertaken, Opens, Committed
    <2>2. CASE op.at = "idle"  BY <1>3, <2>2 DEF TransitionInv, Undertaken, Opens
    <2>3. CASE op.at \in {"locked", "attached"}  BY <1>3, <2>3 DEF TransitionInv, Uncommitted, Opens
    <2> QED  BY <1>2, <2>1, <2>2, <2>3
  <1>4. ASSUME op.at \in {"asked", "ready"} PROVE stored.state # "available" /\ stored.archive = op.archive
    BY <1>4 DEF TransitionInv, Undertaken, Committed
  <1> QED  BY <1>1, <1>3, <1>4 DEF TransitionInv, RowsAgree

LEMMA Describes ==
    ASSUME PluginsScalars, NEW l \in Archives, NEW seen \in Values, Describe(l, seen)
    PROVE  /\ described' \in [Archives -> {Nil} \cup Values] /\ mute' \subseteq Archives
           /\ described'[l] # Nil
           /\ \A k \in Archives : described[k] # Nil => described'[k] # Nil
  BY PluginsConstants DEF Describe, PluginsScalars

LEMMA TransitionDescribes ==
    ASSUME PluginsRows, PluginsScalars, TransitionInv, UNCHANGED <<stored, op, gate, loaded>>,
           \A k \in Archives : described[k] # Nil => described'[k] # Nil
    PROVE  TransitionInv'
  <1>1. Uncommitted' /\ Undertaken' /\ RowsAgree'  BY DEF TransitionInv, Uncommitted, Undertaken, RowsAgree
  <1>2. DescribedWhenOpen'  BY OpenHasArchive DEF TransitionInv, DescribedWhenOpen, Opens, Undescribed
  <1> QED  BY <1>1, <1>2 DEF TransitionInv

LEMMA ResyncStep == ASSUME PluginsInv, Resync PROVE PluginsInv'
  <1>0. PluginsRows /\ PluginsScalars /\ TransitionInv /\ SavesInv /\ WaitsInv  BY PluginsParts
  <1>1. /\ op.at = "committed" /\ saving = NoSaver
        /\ op' = [op EXCEPT !.at = "remembered", !.seen = None]
        /\ (cache' = stored.setting /\ doubt' = doubt) \/ (cache' = op.seen /\ doubt' = "present")
        /\ UNCHANGED <<stored, gate, loaded, saver, saving, describing, described, mute, used>>
    BY DEF Resync, Resynced
  <1>2. /\ op' \in OpRow /\ op'.at = "remembered" /\ op'.archive = op.archive /\ op'.does = op.does
        /\ op'.to = op.to
    BY <1>0, <1>1, PluginsConstants DEF PluginsRows, OpRow
  <1>3. PluginsRows' /\ PluginsScalars'
    BY <1>0, <1>1, <1>2 DEF PluginsRows, PluginsScalars, StoredRow, OpRow
  <1>4. TransitionInv'
    <2>1. gate # "enabled"  BY <1>0, <1>1 DEF TransitionInv, Undertaken
    <2>2. Uncommitted' /\ Undertaken' /\ RowsAgree'
      BY <1>0, <1>1, <1>2 DEF TransitionInv, Uncommitted, Undertaken, RowsAgree, Committed
    <2>3. DescribedWhenOpen'  BY <1>1, <1>2, <2>1 DEF DescribedWhenOpen, Opens
    <2> QED  BY <2>2, <2>3 DEF TransitionInv
  <1>5. SavesInv'
    <2>1. Writing' /\ CacheFollowsRows'  BY <1>0, <1>1, <1>2 DEF SavesInv, Writing, CacheFollowsRows
    <2>2. ASSUME NEW s \in Savers PROVE SaveNumbered(s)'
      <3>1. SaveNumbered(s)  BY <1>0 DEF SavesInv, Numbered
      <3> QED  BY <1>1, <3>1 DEF SaveNumbered
    <2>3. Numbered'  BY <1>0, <1>1, <2>2 DEF SavesInv, Numbered
    <2> QED  BY <2>1, <2>3 DEF SavesInv
  <1>6. WaitsInv'  BY <1>0, <1>1, WaitsStay
  <1> QED  BY <1>3, <1>4, <1>5, <1>6, PluginsKept

LEMMA OpAsksStep == ASSUME PluginsInv, OpAsks PROVE PluginsInv'
  <1>0. PluginsRows /\ PluginsScalars /\ TransitionInv /\ SavesInv /\ WaitsInv  BY PluginsParts
  <1>1. /\ op.at = "remembered" /\ op.to = "enabled" /\ op' = [op EXCEPT !.at = "asked", !.seen = cache]
        /\ UNCHANGED <<stored, gate, loaded, cache, saver, saving, describing, described, mute, used, doubt>>
    BY DEF OpAsks
  <1>2. /\ op' \in OpRow /\ op'.at = "asked" /\ op'.archive = op.archive /\ op'.does = op.does /\ op'.to = op.to
    BY <1>0, <1>1 DEF PluginsRows, PluginsScalars, OpRow
  <1>3. PluginsRows' /\ PluginsScalars'  BY <1>0, <1>1, <1>2 DEF PluginsRows, PluginsScalars
  <1>4. TransitionInv'
    BY <1>0, <1>1, <1>2
    DEF TransitionInv, Uncommitted, Undertaken, RowsAgree, Committed, DescribedWhenOpen, Opens, Undescribed
  <1>5. SavesInv'  BY <1>0, <1>1, <1>2, SavesStay
  <1>6. WaitsInv'  BY <1>0, <1>1, WaitsStay
  <1> QED  BY <1>3, <1>4, <1>5, <1>6, PluginsKept

LEMMA OpDescribesStep == ASSUME PluginsInv, OpDescribes PROVE PluginsInv'
  <1>0. PluginsRows /\ PluginsScalars /\ TransitionInv /\ SavesInv /\ WaitsInv  BY PluginsParts
  <1>1. /\ op.at = "asked" /\ op' = [op EXCEPT !.at = "ready", !.seen = None] /\ Describe(op.archive, op.seen)
        /\ UNCHANGED <<stored, gate, loaded, cache, saver, saving, describing, used, doubt>>
    BY DEF OpDescribes
  <1>2. /\ op' \in OpRow /\ op'.at = "ready" /\ op'.archive = op.archive /\ op'.does = op.does /\ op'.to = op.to
    BY <1>0, <1>1, PluginsConstants DEF PluginsRows, OpRow
  <1>3. PICK l \in Archives : l = op.archive  BY <1>0, <1>1, OpenHasArchive
  <1>4. /\ described' \in [Archives -> {Nil} \cup Values] /\ mute' \subseteq Archives /\ described'[l] # Nil
        /\ \A k \in Archives : described[k] # Nil => described'[k] # Nil
    BY <1>0, <1>1, <1>3, Describes DEF PluginsRows, OpRow
  <1>5. PluginsRows' /\ PluginsScalars'  BY <1>0, <1>1, <1>2, <1>4 DEF PluginsRows, PluginsScalars
  <1>6. TransitionInv'
    <2>1. Uncommitted' /\ Undertaken' /\ RowsAgree'
      BY <1>0, <1>1, <1>2 DEF TransitionInv, Uncommitted, Undertaken, RowsAgree, Committed
    <2>2. stored.archive = op.archive  BY <1>0, <1>1 DEF TransitionInv, Undertaken, Committed
    <2>3. DescribedWhenOpen'  BY <1>1, <1>2, <1>3, <1>4, <2>2 DEF DescribedWhenOpen
    <2> QED  BY <2>1, <2>3 DEF TransitionInv
  <1>7. SavesInv'  BY <1>0, <1>1, <1>2, SavesStay
  <1>8. WaitsInv'  BY <1>0, <1>1, WaitsStay
  <1> QED  BY <1>5, <1>6, <1>7, <1>8, PluginsKept

LEMMA EndOpStep == ASSUME PluginsInv, EndOp PROVE PluginsInv'
  <1>0. PluginsRows /\ PluginsScalars /\ TransitionInv /\ SavesInv /\ WaitsInv  BY PluginsParts
  <1>1. /\ op.at = (IF op.to = "enabled" THEN "ready" ELSE "remembered")
        /\ gate' = op.to /\ loaded' = (IF op.to = "available" THEN None ELSE loaded) /\ op' = NoOp
        /\ UNCHANGED <<stored, cache, saver, saving, describing, described, mute, used, doubt>>
    BY DEF EndOp
  <1>2. op' \in OpRow /\ op'.at = "idle" /\ op'.does = "nothing"  BY <1>1, PlainRows
  <1>3. PluginsRows' /\ PluginsScalars'  BY <1>0, <1>1, <1>2 DEF PluginsRows, PluginsScalars, OpRow
  <1>4. /\ stored.state = op.to /\ (op.to # "available" => stored.archive = op.archive /\ loaded = op.archive)
        /\ op.at \notin {"idle", "committed"}
    BY <1>0, <1>1 DEF TransitionInv, Undertaken, Committed
  <1>5. TransitionInv'
    <2>1. Uncommitted' /\ Undertaken' /\ RowsAgree'
      BY <1>0, <1>1, <1>2, <1>4 DEF TransitionInv, Uncommitted, Undertaken, RowsAgree, Committed
    <2>2. DescribedWhenOpen'  BY <1>0, <1>1, <1>2, <1>4 DEF TransitionInv, DescribedWhenOpen, Opens
    <2> QED  BY <2>1, <2>2 DEF TransitionInv
  <1>6. SavesInv'  BY <1>0, <1>1, <1>2, <1>4, SavesStay
  <1>7. WaitsInv'  BY <1>0, <1>1, WaitsStay
  <1> QED  BY <1>3, <1>5, <1>6, <1>7, PluginsKept

-----------------------------------------------------------------------------
(* Saves. *)

LEMMA KnowKeyStep == ASSUME PluginsInv, NEW s \in Savers, KnowKey(s) PROVE PluginsInv'
  <1>0. PluginsRows /\ PluginsScalars /\ TransitionInv /\ SavesInv /\ WaitsInv  BY PluginsParts
  <1>1. /\ saver[s].at = "idle" /\ saver' = [saver EXCEPT ![s].at = "known"]
        /\ UNCHANGED <<stored, gate, loaded, cache, op, saving, describing, described, mute, used, doubt>>
    BY DEF KnowKey, Step
  <1>2. /\ saver' \in [Savers -> SaveRow] /\ saver'[s].at = "known" /\ saver'[s].value = saver[s].value
        /\ \A t \in Savers : t # s => saver'[t] = saver[t]
    BY <1>0, <1>1 DEF PluginsRows, SaveRow
  <1>3. PluginsRows' /\ PluginsScalars'  BY <1>0, <1>1, <1>2 DEF PluginsRows, PluginsScalars
  <1>4. TransitionInv'  BY <1>0, <1>1, TransitionStays
  <1>5. SavesInv'
    <2>1. Writing' /\ CacheFollowsRows'
      BY <1>0, <1>1, <1>2 DEF SavesInv, Writing, CacheFollowsRows, PluginsScalars
    <2>2. ASSUME NEW t \in Savers PROVE SaveNumbered(t)'
      <3>1. SaveNumbered(t)  BY <1>0 DEF SavesInv, Numbered
      <3> QED  BY <1>1, <1>2, <3>1 DEF SaveNumbered
    <2>3. Numbered'  BY <1>0, <1>1, <2>2 DEF SavesInv, Numbered
    <2> QED  BY <2>1, <2>3 DEF SavesInv
  <1>6. WaitsInv'
    <2>1. \A t \in Savers : saver[t].at = "waiting" => saver'[t] = saver[t]  BY <1>1, <1>2
    <2> QED  BY <1>0, <1>1, <2>1, WaitsGo
  <1> QED  BY <1>3, <1>4, <1>5, <1>6, PluginsKept

LEMMA WriteSettingStep == ASSUME PluginsInv, NEW s \in Savers, WriteSetting(s) PROVE PluginsInv'
  <1>0. PluginsRows /\ PluginsScalars /\ TransitionInv /\ SavesInv /\ WaitsInv  BY PluginsParts
  <1>1. /\ saver[s].at = "known" /\ saving = NoSaver /\ used.settings < MostSettings /\ saving' = s
        /\ used' = [used EXCEPT !.settings = used.settings + 1]
        /\ stored' = [stored EXCEPT !.setting = used'.settings]
        /\ saver' = [saver EXCEPT ![s] = [at |-> "written", value |-> used'.settings]]
        /\ UNCHANGED <<gate, loaded, cache, op, describing, described, mute, doubt>>
    BY DEF WriteSetting
  <1>2. PICK n \in Values : n = used.settings + 1 /\ n \in Int  BY <1>0, <1>1, PluginsConstants DEF PluginsScalars, Values
  <1>3. used' \in [archives : {None} \cup Archives, settings : Values] /\ used'.settings = n
    BY <1>0, <1>1, <1>2 DEF PluginsScalars
  <1>4. /\ stored' \in StoredRow /\ stored'.setting = n /\ stored'.state = stored.state
        /\ stored'.archive = stored.archive /\ stored'.tables = stored.tables
    BY <1>0, <1>1, <1>3 DEF PluginsRows, StoredRow
  <1>5. /\ saver' \in [Savers -> SaveRow] /\ saver'[s].at = "written" /\ saver'[s].value = n
        /\ \A t \in Savers : t # s => saver'[t] = saver[t]
    BY <1>0, <1>1, <1>3 DEF PluginsRows, SaveRow
  <1>6. PluginsRows' /\ PluginsScalars'
    BY <1>0, <1>1, <1>3, <1>4, <1>5 DEF PluginsRows, PluginsScalars
  <1>7. TransitionInv'  BY <1>0, <1>1, <1>4, TransitionStays
  <1>8. SavesInv'
    <2>1. Writing' /\ CacheFollowsRows'
      BY <1>0, <1>1, <1>4, <1>5, PluginsConstants DEF SavesInv, Writing, CacheFollowsRows
    <2>2. ASSUME NEW t \in Savers PROVE SaveNumbered(t)'
      <3>1. SaveNumbered(t)  BY <1>0 DEF SavesInv, Numbered
      <3>2. saver[t].value \in Int /\ used.settings \in Int /\ saver[t].value < n
        <4>1. saver[t].value \in Values /\ used.settings \in Values
          BY <1>0 DEF PluginsRows, PluginsScalars, SaveRow
        <4>2. saver[t].value <= used.settings  BY <3>1 DEF SaveNumbered
        <4>3. saver[t].value \in Int /\ used.settings \in Int  BY <4>1, PluginsConstants
        <4> QED  BY <1>2, <4>2, <4>3
      <3>3. \A r \in Savers : saver[r].at # "written"  BY <1>0, <1>1, PluginsConstants DEF SavesInv, Writing
      <3> QED  BY <1>1, <1>3, <1>4, <1>5, <3>1, <3>2, <3>3 DEF SaveNumbered
    <2>3. Numbered'  BY <1>3, <1>4, <2>2 DEF Numbered, Values
    <2> QED  BY <2>1, <2>3 DEF SavesInv
  <1>9. WaitsInv'
    <2>1. \A t \in Savers : saver[t].at = "waiting" => saver'[t] = saver[t]  BY <1>1, <1>5
    <2> QED  BY <1>0, <1>1, <2>1, WaitsGo
  <1> QED  BY <1>6, <1>7, <1>8, <1>9, PluginsKept

LEMMA PutCacheStep == ASSUME PluginsInv, NEW s \in Savers, PutCache(s) PROVE PluginsInv'
  <1>0. PluginsRows /\ PluginsScalars /\ TransitionInv /\ SavesInv /\ WaitsInv  BY PluginsParts
  <1>1. /\ saver[s].at = "written" /\ cache' = saver[s].value /\ saving' = NoSaver
        /\ doubt' = (IF doubt = "present" THEN "past" ELSE doubt)
        /\ saver' = [saver EXCEPT ![s].at = "put"]
        /\ UNCHANGED <<stored, gate, loaded, op, describing, described, mute, used>>
    BY DEF PutCache, Step
  <1>2. /\ saver' \in [Savers -> SaveRow] /\ saver'[s].at = "put" /\ saver'[s].value = saver[s].value
        /\ \A t \in Savers : t # s => saver'[t] = saver[t]
    BY <1>0, <1>1 DEF PluginsRows, SaveRow
  <1>3. PluginsRows' /\ PluginsScalars'
    BY <1>0, <1>1, <1>2 DEF PluginsRows, PluginsScalars, SaveRow
  <1>4. TransitionInv'  BY <1>0, <1>1, TransitionStays
  <1>5. saving = s /\ \A t \in Savers : saver'[t].at # "written"
    BY <1>0, <1>1, <1>2 DEF SavesInv, Writing
  <1>6. SavesInv'
    <2>1. Writing'  BY <1>1, <1>5 DEF Writing
    <2>2. CacheFollowsRows'
      BY <1>0, <1>1, <1>5, PluginsConstants DEF SavesInv, Writing, CacheFollowsRows
    <2>3. ASSUME NEW t \in Savers PROVE SaveNumbered(t)'
      <3>1. SaveNumbered(t) /\ SaveNumbered(s)  BY <1>0 DEF SavesInv, Numbered
      <3>2. saver[s].value \in Int  BY <1>0, PluginsConstants DEF PluginsRows, SaveRow
      <3>3. CASE t = s  BY <1>1, <1>2, <1>5, <3>1, <3>2, <3>3 DEF SaveNumbered
      <3>4. CASE t # s  BY <1>1, <1>2, <1>5, <3>1, <3>4 DEF SaveNumbered
      <3> QED  BY <3>3, <3>4
    <2>4. Numbered'  BY <1>0, <1>1, <2>3 DEF SavesInv, Numbered
    <2> QED  BY <2>1, <2>2, <2>4 DEF SavesInv
  <1>7. WaitsInv'
    <2>1. \A t \in Savers : saver[t].at = "waiting" => saver'[t] = saver[t]  BY <1>1, <1>2
    <2> QED  BY <1>0, <1>1, <2>1, WaitsGo
  <1> QED  BY <1>3, <1>4, <1>6, <1>7, PluginsKept

LEMMA NotifyStep == ASSUME PluginsInv, NEW s \in Savers, Notify(s) PROVE PluginsInv'
  <1>0. PluginsRows /\ PluginsScalars /\ TransitionInv /\ SavesInv /\ WaitsInv  BY PluginsParts
  <1>1. /\ saver[s].at = "put"
        /\ UNCHANGED <<stored, gate, loaded, cache, op, saving, described, mute, used, doubt>>
    BY DEF Notify
  <1>2. TransitionInv'  BY <1>0, <1>1, TransitionStays
  <1>3. ASSUME loaded # None, describing' = [describing EXCEPT ![loaded] = Requested(describing[loaded], s)],
               saver' = [saver EXCEPT ![s].at = "waiting"]
        PROVE  PluginsInv'
    <2>1. /\ saver' \in [Savers -> SaveRow] /\ saver'[s].at = "waiting" /\ saver'[s].value = saver[s].value
          /\ \A t \in Savers : t # s => saver'[t] = saver[t]
      BY <1>0, <1>3 DEF PluginsRows, SaveRow
    <2>2. PICK l \in Archives : l = loaded  BY <1>0, <1>3 DEF PluginsScalars
    <2>3. /\ describing' \in [Archives -> QueueRow]
          /\ describing'[l].waiting = describing[l].waiting \cup {s} /\ describing'[l].served = describing[l].served
          /\ describing'[l].seen = describing[l].seen
          /\ describing'[l].at = "asked" => describing[l].at = "asked"
          /\ \A k \in Archives : k # l => describing'[k] = describing[k]
      BY ZenonT(30), <1>0, <1>3, <2>2 DEF PluginsRows, QueueRow, Requested
    <2>4. PluginsRows' /\ PluginsScalars'  BY <1>0, <1>1, <2>1, <2>3 DEF PluginsRows, PluginsScalars
    <2>5. SavesInv'
      <3>1. Writing' /\ CacheFollowsRows'
        BY <1>0, <1>1, <2>1 DEF SavesInv, Writing, CacheFollowsRows, PluginsScalars
      <3>2. ASSUME NEW t \in Savers PROVE SaveNumbered(t)'
        <4>1. SaveNumbered(t)  BY <1>0 DEF SavesInv, Numbered
        <4> QED  BY <1>1, <2>1, <4>1 DEF SaveNumbered
      <3>3. Numbered'  BY <1>0, <1>1, <3>2 DEF SavesInv, Numbered
      <3> QED  BY <3>1, <3>3 DEF SavesInv
    <2>6. Waited'
      <3>1. ASSUME NEW k \in Archives PROVE s \notin Waits(k)  BY <1>0, <1>1 DEF WaitsInv, Waited, WaitsOnce
      <3>2. Waits(l)' = Waits(l) \cup {s} /\ \A k \in Archives : k # l => Waits(k)' = Waits(k)
        BY <2>3 DEF Waits
      <3>3. ASSUME NEW k \in Archives PROVE WaitsOnce(k)'
        <4>1. WaitsOnce(k) /\ WaitsOnce(l)  BY <1>0 DEF WaitsInv, Waited
        <4>2. Waits(k) \subseteq Savers /\ Waits(l) \subseteq Savers  BY <1>0 DEF PluginsRows, QueueRow, Waits
        <4>3. \A t \in Waits(k)' : saver'[t].at = "waiting"  BY <2>1, <3>2, <4>1, <4>2 DEF WaitsOnce
        <4>4. describing'[k].waiting \cap describing'[k].served = {}
          BY <2>3, <3>1, <4>1 DEF WaitsOnce, Waits
        <4>5. \A j \in Archives : j # k => Waits(k)' \cap Waits(j)' = {}
          BY <3>1, <3>2, <4>1 DEF WaitsOnce
        <4> QED  BY <4>3, <4>4, <4>5 DEF WaitsOnce
      <3> QED  BY <3>3 DEF Waited
    <2>7. ReleasedByItsRun'
      <3>1. \A k \in Archives : /\ describing'[k].served = describing[k].served
                                /\ describing'[k].seen = describing[k].seen
                                /\ describing[k].served \subseteq Savers
                                /\ describing'[k].at = "asked" => describing[k].at = "asked"
        BY <1>0, <2>3 DEF PluginsRows, QueueRow
      <3> QED  BY <1>0, <1>1, <2>1, <3>1 DEF WaitsInv, ReleasedByItsRun
    <2> QED  BY <1>2, <2>4, <2>5, <2>6, <2>7, PluginsKept DEF WaitsInv
  <1>4. ASSUME saver' = [saver EXCEPT ![s] = NoSave], UNCHANGED describing PROVE PluginsInv'
    <2>1. /\ saver' \in [Savers -> SaveRow] /\ saver'[s].at = "idle" /\ saver'[s].value = 0
          /\ \A t \in Savers : t # s => saver'[t] = saver[t]
      BY <1>0, <1>4, PlainRows DEF PluginsRows
    <2>2. PluginsRows' /\ PluginsScalars'  BY <1>0, <1>1, <1>4, <2>1 DEF PluginsRows, PluginsScalars
    <2>3. SavesInv'
      <3>1. Writing' /\ CacheFollowsRows'
        BY <1>0, <1>1, <2>1 DEF SavesInv, Writing, CacheFollowsRows, PluginsScalars
      <3>2. 0 <= used.settings  BY <1>0, PluginsConstants DEF PluginsScalars
      <3>3. ASSUME NEW t \in Savers PROVE SaveNumbered(t)'
        <4>1. SaveNumbered(t)  BY <1>0 DEF SavesInv, Numbered
        <4> QED  BY <1>1, <2>1, <3>2, <4>1 DEF SaveNumbered
      <3>4. Numbered'  BY <1>0, <1>1, <3>3 DEF SavesInv, Numbered
      <3> QED  BY <3>1, <3>4 DEF SavesInv
    <2>4. \A t \in Savers : saver[t].at = "waiting" => saver'[t] = saver[t]  BY <1>1, <2>1
    <2>5. WaitsInv'  BY <1>0, <1>1, <1>4, <2>4, WaitsGo
    <2> QED  BY <1>2, <2>2, <2>3, <2>5, PluginsKept
  <1> QED  BY <1>3, <1>4 DEF Notify, Step

-----------------------------------------------------------------------------
(* The goroutines that describe, and a restart. *)

LEMMA StartRunStep == ASSUME PluginsInv, NEW l \in Archives, StartRun(l) PROVE PluginsInv'
  <1>0. PluginsRows /\ PluginsScalars /\ TransitionInv /\ SavesInv /\ WaitsInv  BY PluginsParts
  <1>1. /\ describing' = [describing EXCEPT ![l] = [@ EXCEPT !.at = "begun", !.pending = FALSE,
                                                   !.served = describing[l].waiting, !.waiting = {}]]
        /\ UNCHANGED <<stored, gate, loaded, cache, op, saver, saving, described, mute, used, doubt>>
    BY DEF StartRun
  <1>2. /\ describing' \in [Archives -> QueueRow] /\ describing'[l].at = "begun"
        /\ describing'[l].waiting = {} /\ describing'[l].served = describing[l].waiting
        /\ \A k \in Archives : k # l => describing'[k] = describing[k]
    BY <1>0, <1>1 DEF PluginsRows, QueueRow
  <1>3. PluginsRows' /\ PluginsScalars'  BY <1>0, <1>1, <1>2 DEF PluginsRows, PluginsScalars
  <1>4. TransitionInv' /\ SavesInv'  BY <1>0, <1>1, TransitionStays, SavesStay
  <1>5. Waited'
    <2>1. Waits(l)' \subseteq Waits(l) /\ \A k \in Archives : k # l => Waits(k)' = Waits(k)
      BY <1>2 DEF Waits
    <2>2. ASSUME NEW k \in Archives PROVE WaitsOnce(k)'
      <3>1. WaitsOnce(k)  BY <1>0 DEF WaitsInv, Waited
      <3>2. Waits(k)' \subseteq Waits(k)  BY <2>1
      <3>3. describing'[k].waiting \cap describing'[k].served = {}  BY <1>2, <3>1 DEF WaitsOnce
      <3>4. \A j \in Archives : Waits(j)' \subseteq Waits(j)  BY <2>1
      <3> QED  BY <1>1, <3>1, <3>2, <3>3, <3>4 DEF WaitsOnce
    <2> QED  BY <2>2 DEF Waited
  <1>6. ReleasedByItsRun'  BY <1>0, <1>1, <1>2 DEF WaitsInv, ReleasedByItsRun
  <1> QED  BY <1>3, <1>4, <1>5, <1>6, PluginsKept DEF WaitsInv

LEMMA AskBackendStep == ASSUME PluginsInv, NEW l \in Archives, AskBackend(l) PROVE PluginsInv'
  <1>0. PluginsRows /\ PluginsScalars /\ TransitionInv /\ SavesInv /\ WaitsInv  BY PluginsParts
  <1>1. /\ describing' = [describing EXCEPT ![l].at = "asked", ![l].seen = cache]
        /\ UNCHANGED <<stored, gate, loaded, cache, op, saver, saving, described, mute, used, doubt>>
    BY DEF AskBackend
  <1>2. /\ describing' \in [Archives -> QueueRow] /\ describing'[l].seen = cache
        /\ \A k \in Archives : k # l => describing'[k] = describing[k]
        /\ \A k \in Archives : describing'[k].waiting = describing[k].waiting
                               /\ describing'[k].served = describing[k].served
    BY ZenonT(60), <1>0, <1>1 DEF PluginsRows, PluginsScalars, QueueRow
  <1>3. PluginsRows' /\ PluginsScalars'  BY <1>0, <1>1, <1>2 DEF PluginsRows, PluginsScalars
  <1>4. TransitionInv' /\ SavesInv'  BY <1>0, <1>1, TransitionStays, SavesStay
  <1>5. Waited'
    <2>1. \A k \in Archives : Waits(k)' = Waits(k)  BY <1>2 DEF Waits
    <2>2. ASSUME NEW k \in Archives PROVE WaitsOnce(k)'
      <3>1. WaitsOnce(k)  BY <1>0 DEF WaitsInv, Waited
      <3> QED  BY <1>1, <1>2, <2>1, <3>1 DEF WaitsOnce
    <2> QED  BY <2>2 DEF Waited
  <1>6. ReleasedByItsRun'
    <2>1. \A s \in describing[l].served : s \in Savers /\ saver[s].at = "waiting"
      BY <1>0 DEF WaitsInv, Waited, WaitsOnce, Waits, PluginsRows, QueueRow
    <2>2. doubt = "none" => \A s \in describing[l].served : cache = None \/ saver[s].value <= cache
      BY <1>0, <2>1 DEF SavesInv, Numbered, SaveNumbered
    <2>3. cache \in Int /\ \A s \in Savers : saver[s].value \in Int
      BY <1>0, PluginsConstants DEF PluginsRows, PluginsScalars, SaveRow
    <2>4. ASSUME NEW k \in Archives, describing'[k].at = "asked", doubt' = "none",
                 NEW s \in describing'[k].served
          PROVE  describing'[k].seen >= saver'[s].value \/ describing'[k].seen = None
      <3>1. CASE k = l  BY <1>1, <1>2, <2>1, <2>2, <2>3, <2>4, <3>1
      <3>2. CASE k # l  BY <1>0, <1>1, <1>2, <2>4, <3>2 DEF WaitsInv, ReleasedByItsRun
      <3> QED  BY <3>1, <3>2
    <2> QED  BY <2>4 DEF ReleasedByItsRun
  <1> QED  BY <1>3, <1>4, <1>5, <1>6, PluginsKept DEF WaitsInv

LEMMA EndRunStep == ASSUME PluginsInv, NEW l \in Archives, EndRun(l) PROVE PluginsInv'
  <1>0. PluginsRows /\ PluginsScalars /\ TransitionInv /\ SavesInv /\ WaitsInv  BY PluginsParts
  <1>1. /\ Describe(l, describing[l].seen)
        /\ describing' = [describing EXCEPT ![l] = [@ EXCEPT !.at = "between", !.served = {}, !.seen = None]]
        /\ saver' = [s \in Savers |-> IF s \in describing[l].served THEN NoSave ELSE saver[s]]
        /\ UNCHANGED <<stored, gate, loaded, cache, op, saving, used, doubt>>
    BY DEF EndRun
  <1>2. /\ describing' \in [Archives -> QueueRow] /\ describing'[l].at = "between"
        /\ describing'[l].waiting = describing[l].waiting /\ describing'[l].served = {}
        /\ \A k \in Archives : k # l => describing'[k] = describing[k]
    BY <1>0, <1>1, PluginsConstants DEF PluginsRows, QueueRow
  <1>3. /\ described' \in [Archives -> {Nil} \cup Values] /\ mute' \subseteq Archives
        /\ \A k \in Archives : described[k] # Nil => described'[k] # Nil
    BY <1>0, <1>1, Describes DEF PluginsRows, QueueRow
  <1>4. /\ saver' \in [Savers -> SaveRow]
        /\ \A s \in describing[l].served : s \in Savers => saver'[s].at = "idle" /\ saver'[s].value = 0
        /\ \A s \in Savers \ describing[l].served : saver'[s] = saver[s]
    BY <1>0, <1>1, PlainRows DEF PluginsRows
  <1>5. PluginsRows' /\ PluginsScalars'
    BY <1>0, <1>1, <1>2, <1>3, <1>4 DEF PluginsRows, PluginsScalars
  <1>6. TransitionInv'  BY <1>0, <1>1, <1>3, TransitionDescribes
  <1>7. \A s \in describing[l].served : s \in Savers /\ saver[s].at = "waiting"
    BY <1>0 DEF WaitsInv, Waited, WaitsOnce, Waits, PluginsRows, QueueRow
  <1>8. SavesInv'
    <2>1. \A s \in Savers : saver'[s] = saver[s] \/ (saver[s].at = "waiting" /\ saver'[s].at = "idle" /\ saver'[s].value = 0)
      BY <1>4, <1>7
    <2>2. Writing' /\ CacheFollowsRows'
      BY <1>0, <1>1, <2>1 DEF SavesInv, Writing, CacheFollowsRows, PluginsScalars
    <2>3. 0 <= used.settings  BY <1>0, PluginsConstants DEF PluginsScalars
    <2>4. ASSUME NEW t \in Savers PROVE SaveNumbered(t)'
      <3>1. SaveNumbered(t)  BY <1>0 DEF SavesInv, Numbered
      <3>2. \A r \in Savers : saver'[r].at = "written" => saver'[r] = saver[r]  BY <2>1
      <3> QED  BY <1>1, <2>1, <2>3, <3>1, <3>2 DEF SaveNumbered
    <2>5. Numbered'  BY <1>0, <1>1, <2>4 DEF SavesInv, Numbered
    <2> QED  BY <2>2, <2>5 DEF SavesInv
  <1>9. Waited'
    <2>1. /\ Waits(l)' = describing[l].waiting /\ \A k \in Archives : k # l => Waits(k)' = Waits(k)
      BY <1>2 DEF Waits
    <2>2. \A k \in Archives : Waits(k)' \subseteq Waits(k)  BY <2>1 DEF Waits
    <2>3. ASSUME NEW k \in Archives PROVE WaitsOnce(k)'
      <3>1. WaitsOnce(k) /\ WaitsOnce(l)  BY <1>0 DEF WaitsInv, Waited
      <3>2. Waits(k) \subseteq Savers  BY <1>0 DEF PluginsRows, QueueRow, Waits
      <3>3. Waits(k)' \cap describing[l].served = {}
        <4>1. CASE k = l  BY <2>1, <3>1, <4>1 DEF WaitsOnce
        <4>2. CASE k # l  BY <2>1, <3>1, <4>2 DEF WaitsOnce, Waits
        <4> QED  BY <4>1, <4>2
      <3>4. \A s \in Waits(k)' : saver'[s].at = "waiting"  BY <1>4, <2>2, <3>1, <3>2, <3>3 DEF WaitsOnce
      <3>5. describing'[k].waiting \cap describing'[k].served = {}  BY <1>2, <3>1 DEF WaitsOnce
      <3>6. \A j \in Archives : j # k => Waits(k)' \cap Waits(j)' = {}  BY <2>2, <3>1 DEF WaitsOnce
      <3> QED  BY <3>4, <3>5, <3>6 DEF WaitsOnce
    <2> QED  BY <2>3 DEF Waited
  <1>10. ReleasedByItsRun'
    <2>1. ASSUME NEW k \in Archives, describing'[k].at = "asked", doubt' = "none", NEW s \in describing'[k].served
          PROVE  describing'[k].seen >= saver'[s].value \/ describing'[k].seen = None
      <3>1. k # l /\ describing'[k] = describing[k]  BY <1>2, <2>1
      <3>2. WaitsOnce(k) /\ WaitsOnce(l)  BY <1>0 DEF WaitsInv, Waited
      <3>3. s \in Savers /\ s \notin describing[l].served
        BY <1>0, <2>1, <3>1, <3>2 DEF WaitsOnce, Waits, PluginsRows, QueueRow
      <3>4. saver'[s] = saver[s]  BY <1>4, <3>3
      <3> QED  BY <1>0, <1>1, <2>1, <3>1, <3>4 DEF WaitsInv, ReleasedByItsRun
    <2> QED  BY <2>1 DEF ReleasedByItsRun
  <1> QED  BY <1>5, <1>6, <1>8, <1>9, <1>10, PluginsKept DEF WaitsInv

LEMMA StopQueueStep == ASSUME PluginsInv, NEW l \in Archives, StopQueue(l) PROVE PluginsInv'
  <1>0. PluginsRows /\ PluginsScalars /\ TransitionInv /\ SavesInv /\ WaitsInv  BY PluginsParts
  <1>1. /\ describing' = [describing EXCEPT ![l] = NoQueue]
        /\ UNCHANGED <<stored, gate, loaded, cache, op, saver, saving, described, mute, used, doubt>>
    BY DEF StopQueue
  <1>2. /\ describing' \in [Archives -> QueueRow] /\ describing'[l].at = "stopped"
        /\ describing'[l].waiting = {} /\ describing'[l].served = {}
        /\ \A k \in Archives : k # l => describing'[k] = describing[k]
    BY <1>0, <1>1, PlainRows DEF PluginsRows
  <1>3. PluginsRows' /\ PluginsScalars'  BY <1>0, <1>1, <1>2 DEF PluginsRows, PluginsScalars
  <1>4. TransitionInv' /\ SavesInv'  BY <1>0, <1>1, TransitionStays, SavesStay
  <1>5. Waited'
    <2>1. Waits(l)' = {} /\ \A k \in Archives : k # l => Waits(k)' = Waits(k)  BY <1>2 DEF Waits
    <2>2. ASSUME NEW k \in Archives PROVE WaitsOnce(k)'
      <3>1. WaitsOnce(k)  BY <1>0 DEF WaitsInv, Waited
      <3>2. CASE k = l  BY <1>2, <2>1, <3>2 DEF WaitsOnce
      <3>3. CASE k # l  BY <1>1, <1>2, <2>1, <3>1, <3>3 DEF WaitsOnce
      <3> QED  BY <3>2, <3>3
    <2> QED  BY <2>2 DEF Waited
  <1>6. ReleasedByItsRun'  BY <1>0, <1>1, <1>2 DEF WaitsInv, ReleasedByItsRun
  <1> QED  BY <1>3, <1>4, <1>5, <1>6, PluginsKept DEF WaitsInv

\* Nothing waits, nothing is written, and the copies are the rows: as the server starts.
LEMMA Afresh ==
    ASSUME gate' = stored'.state, loaded' = stored'.archive, op' = NoOp, saving' = NoSaver,
           saver' = [s \in Savers |-> NoSave], describing' = [l \in Archives |-> NoQueue],
           cache' = stored'.setting, RowsAgree', PluginsScalars', PluginsRows',
           stored'.state = "enabled" => described'[stored'.archive] # Nil,
           stored'.setting <= used'.settings
    PROVE  PluginsInv'
  <1>1. op'.at = "idle" /\ op'.does = "nothing" /\ op'.to = "available"  BY PlainRows
  <1>2. \A s \in Savers : saver'[s].at = "idle" /\ saver'[s].value = 0  BY PlainRows
  <1>3. \A l \in Archives : describing'[l].at = "stopped" /\ describing'[l].waiting = {} /\ describing'[l].served = {}
    BY PlainRows
  <1>4. TransitionInv'
    BY <1>1 DEF TransitionInv, Uncommitted, Undertaken, Committed, DescribedWhenOpen, Opens
  <1>5. SavesInv'
    <2>1. 0 <= used'.settings  BY PluginsConstants DEF PluginsScalars
    <2>2. Writing' /\ Numbered' /\ CacheFollowsRows'
      BY <1>2, <2>1 DEF Writing, Numbered, SaveNumbered, CacheFollowsRows
    <2> QED  BY <2>2 DEF SavesInv
  <1>6. WaitsInv'
    <2>1. \A l \in Archives : Waits(l)' = {}  BY <1>3 DEF Waits
    <2>2. Waited'  BY <1>3, <2>1 DEF Waited, WaitsOnce
    <2>3. ReleasedByItsRun'  BY <1>3 DEF ReleasedByItsRun
    <2> QED  BY <2>2, <2>3 DEF WaitsInv
  <1> QED  BY <1>4, <1>5, <1>6, PluginsKept

LEMMA RestartStep == ASSUME PluginsInv, Restart PROVE PluginsInv'
  <1>0. PluginsRows /\ PluginsScalars /\ TransitionInv /\ SavesInv  BY PluginsParts
  <1>1. /\ gate' = stored.state /\ loaded' = stored.archive /\ cache' = stored.setting /\ op' = NoOp
        /\ saver' = [s \in Savers |-> NoSave] /\ saving' = NoSaver
        /\ describing' = [l \in Archives |-> NoQueue]
        /\ described' = [l \in Archives |-> IF l = stored.archive /\ stored.state = "enabled" THEN stored.setting ELSE Nil]
        /\ doubt' = "none" /\ mute' = {} /\ UNCHANGED <<stored, used>>
    BY DEF Restart
  <1>2. stored.setting \in Values /\ stored.state \in States /\ stored.archive \in {None} \cup Archives
    BY <1>0 DEF PluginsRows, StoredRow
  <1>3. PluginsRows'  BY <1>0, <1>1, PlainRows DEF PluginsRows
  <1>4. PluginsScalars'  BY <1>0, <1>1, <1>2 DEF PluginsScalars
  <1>5. RowsAgree'  BY <1>0, <1>1 DEF TransitionInv, RowsAgree
  <1>6. stored.state = "enabled" => described'[stored.archive] # Nil
    <2>1. stored.state = "enabled" => stored.archive \in Archives  BY <1>0, <1>2 DEF TransitionInv, RowsAgree
    <2> QED  BY <1>1, <1>2, <2>1, PluginsConstants
  <1>7. stored.setting <= used.settings  BY <1>0 DEF SavesInv, Numbered
  <1> QED  BY <1>1, <1>3, <1>4, <1>5, <1>6, <1>7, Afresh

LEMMA PluginsStart == ASSUME PluginsInit PROVE PluginsInv
  <1>1. /\ stored = Empty /\ gate = "available" /\ loaded = None /\ cache = None /\ op = NoOp
        /\ saver = [s \in Savers |-> NoSave] /\ saving = NoSaver /\ describing = [l \in Archives |-> NoQueue]
        /\ described = [l \in Archives |-> Nil] /\ mute = {} /\ used = [archives |-> 0, settings |-> 0]
        /\ doubt = "none"
    BY DEF PluginsInit
  <1>2. /\ stored.state = "available" /\ stored.archive = None /\ stored.setting = None
        /\ op.at = "idle" /\ op.does = "nothing" /\ op.to = "available" /\ used.settings = 0
    BY <1>1, PlainRows
  <1>3. PluginsRows  BY <1>1, PlainRows DEF PluginsRows
  <1>4. PluginsScalars  BY <1>1, PluginsConstants DEF PluginsScalars, States, Values
  <1>5. TransitionInv
    BY <1>1, <1>2 DEF TransitionInv, Uncommitted, Undertaken, Committed, RowsAgree, DescribedWhenOpen, Opens
  <1>6. SavesInv
    <2>1. \A s \in Savers : saver[s].at = "idle" /\ saver[s].value = 0  BY <1>1, PlainRows
    <2> QED  BY <1>1, <1>2, <2>1, PluginsConstants DEF SavesInv, Writing, Numbered, SaveNumbered, CacheFollowsRows
  <1>7. WaitsInv
    <2>1. \A l \in Archives : describing[l].at = "stopped" /\ describing[l].waiting = {} /\ describing[l].served = {}
      BY <1>1, PlainRows
    <2>2. \A l \in Archives : Waits(l) = {}  BY <2>1 DEF Waits
    <2> QED  BY <2>1, <2>2 DEF WaitsInv, Waited, WaitsOnce, ReleasedByItsRun
  <1> QED  BY <1>3, <1>4, <1>5, <1>6, <1>7, PluginsParts

LEMMA PluginsStep == ASSUME PluginsInv, [PluginsNext]_pluginVars PROVE PluginsInv'
  <1>1. ASSUME NEW to \in States \ {"available"}, BeginInstall(to) \/ CommitToggle(to) PROVE PluginsInv'
    BY <1>1, BeginInstallStep, CommitToggleStep
  <1>2. ASSUME NEW withSetting \in BOOLEAN, CommitInstall(withSetting) PROVE PluginsInv'  BY <1>2, CommitInstallStep
  <1>3. ASSUME NEW purge \in BOOLEAN, BeginUninstall(purge) PROVE PluginsInv'  BY <1>3, BeginUninstallStep
  <1>4. CASE Attach \/ InstallFails \/ CommitUninstall \/ UninstallFails
    BY <1>4, AttachStep, InstallFailsStep, CommitUninstallStep, UninstallFailsStep
  <1>5. CASE Resync \/ OpAsks \/ OpDescribes \/ EndOp
    BY <1>5, ResyncStep, OpAsksStep, OpDescribesStep, EndOpStep
  <1>6. ASSUME NEW s \in Savers, KnowKey(s) \/ WriteSetting(s) \/ PutCache(s) \/ Notify(s) PROVE PluginsInv'
    BY <1>6, KnowKeyStep, WriteSettingStep, PutCacheStep, NotifyStep
  <1>7. ASSUME NEW l \in Archives, StartRun(l) \/ AskBackend(l) \/ EndRun(l) \/ StopQueue(l) PROVE PluginsInv'
    BY <1>7, StartRunStep, AskBackendStep, EndRunStep, StopQueueStep
  <1>8. CASE Restart  BY <1>8, RestartStep
  <1>9. CASE UNCHANGED pluginVars
    <2>1. PluginsRows /\ PluginsScalars /\ TransitionInv /\ SavesInv /\ WaitsInv  BY PluginsParts
    <2>2. PluginsRows' /\ PluginsScalars'  BY <1>9, <2>1 DEF pluginVars, PluginsRows, PluginsScalars
    <2>3. TransitionInv' /\ SavesInv' /\ WaitsInv'
      BY <1>9, <2>1, TransitionStays, SavesStay, WaitsStay DEF pluginVars
    <2> QED  BY <2>2, <2>3, PluginsKept
  <1> QED  BY Zenon, <1>1, <1>2, <1>3, <1>4, <1>5, <1>6, <1>7, <1>8, <1>9 DEF PluginsNext

\* A request is let through only to a package that has its tables and a description, the
\* cached setting ends as its row does, and no save returns before a run that has read it
\* (plugin/manager.go, plugin/packages.go, settings/settings.go).
THEOREM PluginsSound == PluginsSpec => []PluginsHold
  <1>1. PluginsInv => PluginsHold
    <2>1. ASSUME PluginsInv PROVE OpenOnSomething
      <3>0. PluginsRows /\ PluginsScalars /\ TransitionInv  BY <2>1, PluginsParts
      <3>1. op.at \in {"idle", "locked", "attached"} \cup Committed  BY <3>0 DEF PluginsRows, OpRow, Committed
      <3>2. ASSUME gate = "enabled"
            PROVE  stored.tables /\ loaded # None /\ (op.does # "update" => described[loaded] # Nil)
        <4>1. stored.archive \in Archives  BY <3>0, <3>2, OpenHasArchive DEF Opens
        <4>2. stored.tables  BY <3>0, <4>1, PluginsConstants DEF TransitionInv, RowsAgree
        <4>3. CASE op.at = "attached"
          BY <3>0, <4>1, <4>2, <4>3, PluginsConstants DEF TransitionInv, Uncommitted, Undertaken
        <4>4. CASE op.at # "attached"
          <5>1. loaded = stored.archive
            BY <3>0, <3>1, <3>2, <4>4 DEF TransitionInv, Uncommitted, Undertaken, Committed
          <5>2. op.does # "update" => described[stored.archive] # Nil
            BY <3>0, <3>2 DEF TransitionInv, DescribedWhenOpen, Opens, Undescribed
          <5> QED  BY <4>1, <4>2, <5>1, <5>2, PluginsConstants
        <4> QED  BY <4>3, <4>4
      <3> QED  BY <3>2 DEF OpenOnSomething
    <2> QED  BY <2>1 DEF PluginsInv, PluginsHold
  <1> QED  BY <1>1, PluginsStart, PluginsStep, PTL DEF PluginsSpec

\* Whenever no transition is under way the gate and the archive are what the rows say,
\* also after one that failed at any step (manager.go, packages.go).
THEOREM CopiesSound == PluginsSpec => []CopiesFollowRows
  <1>1. PluginsInv => CopiesFollowRows  BY DEF PluginsInv, Undertaken, CopiesFollowRows
  <1> QED  BY <1>1, PluginsStart, PluginsStep, PTL DEF PluginsSpec

-----------------------------------------------------------------------------
(* The switches. *)

PassRow == [at : {"idle", "listed", "asking", "judging"}, next : {1} \cup DOMAIN ListOrder,
            verdict : Seq(BOOLEAN), since : 0..MostResets, listed : [Catalogue -> Switches]]
SwitchesTyped == row \in [Catalogue -> Switches] /\ hostOn \in [Hosts -> BOOLEAN]
                 /\ decided \in [Catalogue -> {"operator", "checker"}]
EvidenceTyped == /\ answers \in [Catalogue -> BOOLEAN]
                 /\ evidence \in [Catalogue -> Seq(Sample)] /\ \A m \in Catalogue : Len(evidence[m]) <= MostSamples
PassesTyped == pass \in [Checkers -> PassRow]
ResetTyped == /\ era \in 0..MostResets /\ baseline \in 0..MostResets
              /\ reset \in [at : {"none", "switching"}, left : SUBSET Catalogue]
RowsStand == OneNoticePerDisable /\ OnUnderProvider /\ ClaimIsTheCheckers

LEMMA HealthParts ==
    SwitchesHold <=> SwitchesTyped /\ EvidenceTyped /\ PassesTyped /\ ResetTyped /\ RowsStand
  BY DEF SwitchesHold, HealthTypeOK, SwitchesTyped, EvidenceTyped, PassesTyped, ResetTyped, RowsStand, PassRow

LEMMA HealthKept ==
    ASSUME SwitchesTyped', EvidenceTyped', PassesTyped', ResetTyped', RowsStand'
    PROVE  SwitchesHold'
  BY DEF SwitchesHold, HealthTypeOK, SwitchesTyped, EvidenceTyped, PassesTyped, ResetTyped, RowsStand, PassRow

LEMMA HealthConstants ==
    /\ MostSamples \in Nat /\ MostSamples > 0 /\ MostResets \in Nat
    /\ \A m \in Catalogue : HostOf[m] \in Hosts /\ RouteOf[m] \in Catalogue /\ RouteOf[RouteOf[m]] = RouteOf[m]
    /\ Len(ListOrder) \in Nat /\ DOMAIN ListOrder = 1..Len(ListOrder)
  BY HealthAssumption, LenProperties DEF Catalogue, Hosts

LEMMA NoPassIsAPass == NoPass \in PassRow
  <1>1. << >> \in Seq(BOOLEAN)  BY EmptySeq
  <1>2. [m \in Catalogue |-> [on |-> FALSE, claim |-> FALSE]] \in [Catalogue -> Switches]  BY DEF Switches
  <1>3. 0 \in 0..MostResets  BY HealthConstants
  <1> QED  BY <1>1, <1>2, <1>3 DEF NoPass, PassRow

\* What a step leaves alone stays as it was.
LEMMA SwitchesStay ==
    ASSUME SwitchesTyped, RowsStand, UNCHANGED <<row, hostOn, decided, excess>>
    PROVE  SwitchesTyped' /\ RowsStand'
  BY DEF SwitchesTyped, RowsStand, OneNoticePerDisable, OnUnderProvider, ClaimIsTheCheckers

LEMMA EvidenceStays == ASSUME EvidenceTyped, UNCHANGED <<answers, evidence>> PROVE EvidenceTyped'
  BY DEF EvidenceTyped
LEMMA PassesStay == ASSUME PassesTyped, UNCHANGED pass PROVE PassesTyped'
  BY DEF PassesTyped
LEMMA ResetStays == ASSUME ResetTyped, UNCHANGED <<era, baseline, reset>> PROVE ResetTyped'
  BY DEF ResetTyped

\* A pass goes on to the next model, or is over.
LEMMA PassGoesOn ==
    ASSUME PassesTyped, NEW c \in Checkers, NEW m \in Catalogue, NEW step, Stands(c, step, m), Passed(c)
    PROVE  PassesTyped'
  <1>1. pass[c] \in PassRow  BY DEF PassesTyped
  <1>2. PICK i \in DOMAIN ListOrder : m = ListOrder[i]  BY DEF Catalogue, Range
  <1>3. Len(ListOrder) \in Nat /\ Len(ListOrder) >= 1 /\ DOMAIN ListOrder = 1..Len(ListOrder)
    BY <1>2, HealthConstants
  <1>4. pass[c].next \in 1..Len(ListOrder)  BY <1>1, <1>3 DEF PassRow
  <1>5. CASE pass[c].next = Len(ListOrder)
    BY <1>5, NoPassIsAPass DEF PassesTyped, Passed
  <1>6. CASE pass[c].next # Len(ListOrder)
    <2>1. pass[c].next + 1 \in DOMAIN ListOrder  BY <1>3, <1>4, <1>6
    <2>2. Onward(c) \in PassRow  BY <1>1, <2>1, EmptySeq DEF PassRow, Onward
    <2>3. pass' = [pass EXCEPT ![c] = Onward(c)]  BY <1>6 DEF Passed
    <2> QED  BY <2>2, <2>3 DEF PassesTyped
  <1> QED  BY <1>5, <1>6

\* What is recorded is one sample more.
LEMMA ObservedSample ==
    ASSUME EvidenceTyped, ResetTyped, NEW m \in Catalogue, NEW ok \in BOOLEAN, Len(evidence[m]) < MostSamples,
           Observed(m, ok), UNCHANGED answers
    PROVE  EvidenceTyped'
  <1>1. [ok |-> ok, era |-> era] \in Sample  BY DEF ResetTyped, Sample
  <1>2. <<[ok |-> ok, era |-> era]>> \in Seq(Sample) /\ Len(<<[ok |-> ok, era |-> era]>>) = 1  BY <1>1
  <1>3. evidence[m] \in Seq(Sample) /\ evidence \in [Catalogue -> Seq(Sample)]  BY DEF EvidenceTyped
  <1>4. /\ <<[ok |-> ok, era |-> era]>> \o evidence[m] \in Seq(Sample)
        /\ Len(<<[ok |-> ok, era |-> era]>> \o evidence[m]) = 1 + Len(evidence[m])
    BY <1>2, <1>3, ConcatProperties
  <1>5. 1 + Len(evidence[m]) <= MostSamples  BY <1>3, LenProperties, HealthConstants
  <1>6. evidence' = [evidence EXCEPT ![m] = <<[ok |-> ok, era |-> era]>> \o evidence[m]]  BY DEF Observed
  <1>7. evidence' \in [Catalogue -> Seq(Sample)]  BY <1>3, <1>4, <1>6
  <1>8. \A k \in Catalogue : Len(evidence'[k]) <= MostSamples
    BY <1>3, <1>4, <1>5, <1>6 DEF EvidenceTyped
  <1> QED  BY <1>7, <1>8 DEF EvidenceTyped

LEMMA Summarised ==
    ASSUME EvidenceTyped, PassesTyped, NEW c \in Checkers, NEW m \in Catalogue
    PROVE  [i \in 1..Len(Samples(c, m)) |-> Samples(c, m)[i].ok] \in Seq(BOOLEAN)
  <1> DEFINE S == {i \in 1..Len(evidence[m]) : evidence[m][i].era >= pass[c].since}
  <1>1. /\ evidence[m] \in Seq(Sample) /\ Len(evidence[m]) \in Nat
        /\ \A i \in 1..Len(evidence[m]) : evidence[m][i] \in Sample
    BY LenProperties, ElementOfSeq DEF EvidenceTyped
  <1>2. Recent(c, m) \in Nat /\ Recent(c, m) <= Len(evidence[m])
    <2>1. IsFiniteSet(1..Len(evidence[m])) /\ Cardinality(1..Len(evidence[m])) = Len(evidence[m])
      BY SMTT(60), <1>1, FS_Interval
    <2>2. S \in SUBSET (1..Len(evidence[m]))  OBVIOUS
    <2>3. IsFiniteSet(S) /\ Cardinality(S) <= Cardinality(1..Len(evidence[m]))  BY <2>1, <2>2, FS_Subset
    <2>4. Cardinality(S) \in Nat  BY <2>3, FS_CardinalityType
    <2> QED  BY <2>1, <2>3, <2>4 DEF Recent
  <1>3. \A i \in 1..Recent(c, m) : evidence[m][i] \in Sample  BY <1>1, <1>2
  <1>4. Samples(c, m) \in Seq(Sample)  BY <1>2, <1>3, SubSeqProperties DEF Samples
  <1> HIDE DEF S
  <1>5. Len(Samples(c, m)) \in Nat /\ \A i \in 1..Len(Samples(c, m)) : Samples(c, m)[i] \in Sample
    BY <1>4, LenProperties, ElementOfSeq
  <1>6. \A i \in 1..Len(Samples(c, m)) : Samples(c, m)[i].ok \in BOOLEAN  BY <1>5 DEF Sample
  <1> QED  BY <1>5, <1>6

-----------------------------------------------------------------------------
(* One action after another. *)

LEMMA EvidenceSteps ==
    ASSUME SwitchesHold, NEW m \in Catalogue, Turn(m) \/ Age(m) \/ Upstream(m)
    PROVE  SwitchesHold'
  <1>0. SwitchesTyped /\ EvidenceTyped /\ PassesTyped /\ ResetTyped /\ RowsStand  BY HealthParts
  <1>1. UNCHANGED <<row, hostOn, era, baseline, pass, reset, decided, excess>>  BY DEF Turn, Age, Upstream
  <1>2. ASSUME Turn(m) PROVE EvidenceTyped'
    <2>1. answers[RouteOf[m]] \in BOOLEAN  BY <1>0, HealthConstants DEF EvidenceTyped
    <2> QED  BY <1>0, <1>2, <2>1, ObservedSample DEF Turn
  <1>3. ASSUME Age(m) PROVE EvidenceTyped'
    <2>1. evidence[m] # << >> /\ UNCHANGED answers
          /\ evidence' = [evidence EXCEPT ![m] = SubSeq(evidence[m], 1, Len(evidence[m]) - 1)]
      BY <1>3 DEF Age
    <2>2. /\ evidence[m] \in Seq(Sample) /\ Len(evidence[m]) \in Nat /\ Len(evidence[m]) > 0
          /\ \A i \in 1..Len(evidence[m]) : evidence[m][i] \in Sample
      BY <1>0, <2>1, EmptySeq, ElementOfSeq DEF EvidenceTyped
    <2>3. /\ SubSeq(evidence[m], 1, Len(evidence[m]) - 1) \in Seq(Sample)
          /\ Len(SubSeq(evidence[m], 1, Len(evidence[m]) - 1)) <= Len(evidence[m])
      BY <2>2, SubSeqProperties
    <2>4. \A k \in Catalogue : Len(evidence[k]) \in Nat  BY <1>0, LenProperties DEF EvidenceTyped
    <2>5. Len(SubSeq(evidence[m], 1, Len(evidence[m]) - 1)) \in Nat  BY <2>3, LenProperties
    <2> QED  BY <1>0, <2>1, <2>3, <2>4, <2>5, HealthConstants DEF EvidenceTyped
  <1>4. ASSUME Upstream(m) PROVE EvidenceTyped'  BY <1>0, <1>4 DEF Upstream, EvidenceTyped
  <1>5. EvidenceTyped'  BY <1>2, <1>3, <1>4
  <1> QED  BY <1>0, <1>1, <1>5, SwitchesStay, PassesStay, ResetStays, HealthKept

LEMMA BeginPassStep == ASSUME SwitchesHold, NEW c \in Checkers, BeginPass(c) \/ CheckerStops(c) PROVE SwitchesHold'
  <1>0. SwitchesTyped /\ EvidenceTyped /\ PassesTyped /\ ResetTyped /\ RowsStand  BY HealthParts
  <1>1. UNCHANGED <<row, hostOn, answers, evidence, era, baseline, reset, decided, excess>>
    BY DEF BeginPass, CheckerStops
  <1>2. [at |-> "listed", next |-> 1, verdict |-> << >>, since |-> baseline, listed |-> row] \in PassRow
    BY <1>0, EmptySeq DEF PassRow, ResetTyped, SwitchesTyped
  <1>3. PassesTyped'
    <2>1. CASE BeginPass(c)  BY <1>0, <1>2, <2>1 DEF BeginPass, PassesTyped
    <2>2. CASE CheckerStops(c)  BY <1>0, <2>2, NoPassIsAPass DEF CheckerStops, PassesTyped
    <2> QED  BY <2>1, <2>2
  <1> QED  BY <1>0, <1>1, <1>3, SwitchesStay, EvidenceStays, ResetStays, HealthKept

LEMMA SkipStep == ASSUME SwitchesHold, NEW c \in Checkers, NEW m \in Catalogue, Skip(c, m) PROVE SwitchesHold'
  <1>0. SwitchesTyped /\ EvidenceTyped /\ PassesTyped /\ ResetTyped /\ RowsStand  BY HealthParts
  <1>1. Stands(c, "listed", m) /\ Passed(c)
        /\ UNCHANGED <<row, hostOn, answers, evidence, era, baseline, reset, decided, excess>>
    BY DEF Skip
  <1>2. PassesTyped'  BY Zenon, <1>0, <1>1, PassGoesOn
  <1> QED  BY <1>0, <1>1, <1>2, SwitchesStay, EvidenceStays, ResetStays, HealthKept

LEMMA LookStep == ASSUME SwitchesHold, NEW c \in Checkers, NEW m \in Catalogue, Look(c, m) PROVE SwitchesHold'
  <1>0. SwitchesTyped /\ EvidenceTyped /\ PassesTyped /\ ResetTyped /\ RowsStand  BY HealthParts
  <1>1. UNCHANGED <<row, hostOn, answers, evidence, era, baseline, reset, decided, excess>>  BY DEF Look
  <1> DEFINE verdict == [i \in 1..Len(Samples(c, m)) |-> Samples(c, m)[i].ok]
             at == IF Samples(c, m) = << >> THEN "asking" ELSE "judging"
  <1>2. verdict \in Seq(BOOLEAN)  BY <1>0, Summarised
  <1>3. at \in {"asking", "judging"}  OBVIOUS
  <1>4. pass' = [pass EXCEPT ![c].at = at, ![c].verdict = verdict]  BY Zenon DEF Look
  <1> HIDE DEF verdict, at
  <1>5. PassesTyped'  BY ZenonT(60), <1>0, <1>2, <1>3, <1>4 DEF PassesTyped, PassRow
  <1> QED  BY <1>0, <1>1, <1>5, SwitchesStay, EvidenceStays, ResetStays, HealthKept

LEMMA ProbeStep == ASSUME SwitchesHold, NEW c \in Checkers, NEW m \in Catalogue, Probe(c, m) PROVE SwitchesHold'
  <1>0. SwitchesTyped /\ EvidenceTyped /\ PassesTyped /\ ResetTyped /\ RowsStand  BY HealthParts
  <1>1. PICK ok \in BOOLEAN :
           /\ pass' = [pass EXCEPT ![c].at = "judging", ![c].verdict = <<ok>>]
           /\ IF Len(evidence[m]) < MostSamples THEN Observed(m, ok) ELSE UNCHANGED evidence
    <2>1. answers[RouteOf[m]] \in BOOLEAN  BY <1>0, HealthConstants DEF EvidenceTyped
    <2>2. (Reachable(m) /\ answers[RouteOf[m]]) \in BOOLEAN  OBVIOUS
    <2> QED  BY Zenon, <2>2 DEF Probe
  <1>2. UNCHANGED <<row, hostOn, answers, era, baseline, reset, decided, excess>>  BY DEF Probe
  <1>3. <<ok>> \in Seq(BOOLEAN)  OBVIOUS
  <1>4. PassesTyped'  BY ZenonT(60), <1>0, <1>1, <1>3 DEF PassesTyped, PassRow
  <1>5. EvidenceTyped'
    <2>1. CASE Len(evidence[m]) < MostSamples  BY <1>0, <1>1, <1>2, <2>1, ObservedSample
    <2>2. CASE ~(Len(evidence[m]) < MostSamples)  BY <1>0, <1>1, <1>2, <2>2, EvidenceStays
    <2> QED  BY <2>1, <2>2
  <1> QED  BY <1>0, <1>2, <1>4, <1>5, SwitchesStay, ResetStays, HealthKept

\* Each write asks the row: a checker switches on what a checker switched off, under a provider
\* that is on, and off what is on.
LEMMA ApplyStep == ASSUME SwitchesHold, NEW c \in Checkers, NEW m \in Catalogue, Apply(c, m) PROVE SwitchesHold'
  <1>0. SwitchesTyped /\ EvidenceTyped /\ PassesTyped /\ ResetTyped /\ RowsStand  BY HealthParts
  <1>1. /\ Stands(c, "judging", m) /\ Passed(c)
        /\ SwitchOn(c, m) \/ SwitchOff(c, m)
        /\ UNCHANGED <<hostOn, answers, evidence, era, baseline, reset>>
    BY DEF Apply
  <1>2. PassesTyped'  BY Zenon, <1>0, <1>1, PassGoesOn
  <1>3. CASE UNCHANGED <<row, decided, excess>>
    BY <1>0, <1>1, <1>2, <1>3, SwitchesStay, EvidenceStays, ResetStays, HealthKept
  <1>4. CASE /\ Enables(m) /\ row' = [row EXCEPT ![m] = [on |-> TRUE, claim |-> FALSE]]
             /\ decided' = [decided EXCEPT ![m] = "checker"] /\ UNCHANGED excess
    <2>1. SwitchesTyped'  BY <1>0, <1>1, <1>4 DEF SwitchesTyped, Switches
    <2>2. RowsStand'
      BY <1>0, <1>1, <1>4
      DEF SwitchesTyped, Switches, RowsStand, OneNoticePerDisable, OnUnderProvider, ClaimIsTheCheckers, Enables
    <2> QED  BY <1>0, <1>1, <1>2, <2>1, <2>2, EvidenceStays, ResetStays, HealthKept
  <1>5. CASE /\ Disables(m) /\ row' = [row EXCEPT ![m] = [on |-> FALSE, claim |-> TRUE]]
             /\ decided' = [decided EXCEPT ![m] = "checker"]
             /\ excess' = excess + (IF row[m].on THEN 0 ELSE 1)
    <2>1. SwitchesTyped'  BY <1>0, <1>1, <1>5 DEF SwitchesTyped, Switches
    <2>2. excess' = 0  BY <1>0, <1>5 DEF Disables, RowsStand, OneNoticePerDisable
    <2>3. RowsStand'
      BY <1>0, <1>1, <1>5, <2>2
      DEF SwitchesTyped, Switches, RowsStand, OneNoticePerDisable, OnUnderProvider, ClaimIsTheCheckers
    <2> QED  BY <1>0, <1>1, <1>2, <2>1, <2>3, EvidenceStays, ResetStays, HealthKept
  <1> QED  BY Zenon, <1>1, <1>3, <1>4, <1>5 DEF SwitchOn, SwitchOff

LEMMA SetModelStep == ASSUME SwitchesHold, NEW m \in Catalogue, NEW on \in BOOLEAN, SetModel(m, on) PROVE SwitchesHold'
  <1>0. SwitchesTyped /\ EvidenceTyped /\ PassesTyped /\ ResetTyped /\ RowsStand  BY HealthParts
  <1>1. /\ row' = [row EXCEPT ![m] = Switched(m, on)]
        /\ decided' = [decided EXCEPT ![m] = IF row'[m].on # row[m].on THEN "operator" ELSE decided[m]]
        /\ UNCHANGED <<hostOn, answers, evidence, era, baseline, pass, reset, excess>>
    BY DEF SetModel
  <1>2. row[m] \in Switches /\ hostOn[HostOf[m]] \in BOOLEAN  BY <1>0, HealthConstants DEF SwitchesTyped
  <1>3. /\ Switched(m, on) \in Switches
        /\ Switched(m, on).on => hostOn[HostOf[m]]
        /\ Switched(m, on).claim => row[m].claim /\ Switched(m, on).on = row[m].on
    BY <1>2 DEF Switched, StaysOff, Switches
  <1>4. SwitchesTyped'  BY <1>0, <1>1, <1>3 DEF SwitchesTyped
  <1>5. RowsStand'
    BY <1>0, <1>1, <1>3
    DEF SwitchesTyped, RowsStand, OneNoticePerDisable, OnUnderProvider, ClaimIsTheCheckers
  <1> QED  BY <1>0, <1>1, <1>4, <1>5, EvidenceStays, PassesStay, ResetStays, HealthKept

LEMMA SetProviderStep == ASSUME SwitchesHold, NEW p \in Hosts, NEW on \in BOOLEAN, SetProvider(p, on) PROVE SwitchesHold'
  <1>0. SwitchesTyped /\ EvidenceTyped /\ PassesTyped /\ ResetTyped /\ RowsStand  BY HealthParts
  <1>1. /\ hostOn' = [hostOn EXCEPT ![p] = on]
        /\ row' = [m \in Catalogue |-> IF HostOf[m] = p /\ ~on THEN [row[m] EXCEPT !.on = FALSE] ELSE row[m]]
        /\ decided' = [m \in Catalogue |-> IF row'[m].on # row[m].on THEN "operator" ELSE decided[m]]
        /\ UNCHANGED <<answers, evidence, era, baseline, pass, reset, excess>>
    BY DEF SetProvider
  <1>2. SwitchesTyped'  BY <1>0, <1>1 DEF SwitchesTyped, Switches
  <1>3. ASSUME NEW m \in Catalogue
        PROVE  /\ row'[m].on => row[m].on /\ ~(HostOf[m] = p /\ ~on)
               /\ row'[m].claim = row[m].claim
               /\ row'[m].on = row[m].on => decided'[m] = decided[m]
    BY <1>0, <1>1 DEF SwitchesTyped, Switches
  <1>4. ASSUME NEW m \in Catalogue, hostOn[HostOf[m]], ~(HostOf[m] = p /\ ~on) PROVE hostOn'[HostOf[m]]
    BY <1>0, <1>1, <1>4, HealthConstants DEF SwitchesTyped
  <1>5. RowsStand'
    <2>1. OneNoticePerDisable' /\ OnUnderProvider'
      BY <1>0, <1>1, <1>3, <1>4 DEF RowsStand, OneNoticePerDisable, OnUnderProvider
    <2>2. ASSUME NEW m \in Catalogue, row'[m].claim PROVE ~row'[m].on /\ decided'[m] = "checker"
      <3>1. row[m].claim /\ ~row[m].on /\ decided[m] = "checker"
        BY <1>0, <1>3, <2>2 DEF RowsStand, ClaimIsTheCheckers
      <3>2. row[m].on \in BOOLEAN /\ row'[m].on \in BOOLEAN  BY <1>0, <1>2 DEF SwitchesTyped, Switches
      <3> QED  BY <1>3, <3>1, <3>2
    <2> QED  BY <2>1, <2>2 DEF RowsStand, ClaimIsTheCheckers
  <1> QED  BY <1>0, <1>1, <1>2, <1>5, EvidenceStays, PassesStay, ResetStays, HealthKept

LEMMA BeginResetStep == ASSUME SwitchesHold, BeginReset \/ EndReset PROVE SwitchesHold'
  <1>0. SwitchesTyped /\ EvidenceTyped /\ PassesTyped /\ ResetTyped /\ RowsStand  BY HealthParts
  <1>1. UNCHANGED <<row, hostOn, answers, pass, decided, excess>>  BY DEF BeginReset, EndReset
  <1>2. CASE BeginReset
    <2>1. ResetTyped'  BY <1>0, <1>2, HealthConstants DEF BeginReset, ResetTyped
    <2>2. EvidenceTyped'
      <3>1. CASE evidence' = evidence  BY <1>0, <1>1, <3>1, EvidenceStays
      <3>2. CASE evidence' = [m \in Catalogue |-> << >>]
        <4>1. << >> \in Seq(Sample) /\ Len(<< >>) = 0  BY EmptySeq
        <4> QED  BY <1>0, <1>1, <3>2, <4>1, HealthConstants DEF EvidenceTyped
      <3> QED  BY Zenon, <1>2, <3>1, <3>2 DEF BeginReset
    <2> QED  BY <1>0, <1>1, <2>1, <2>2, SwitchesStay, PassesStay, HealthKept
  <1>3. CASE EndReset
    <2>1. ResetTyped' /\ UNCHANGED evidence  BY <1>0, <1>3 DEF EndReset, ResetTyped, NoReset
    <2> QED  BY <1>0, <1>1, <2>1, SwitchesStay, EvidenceStays, PassesStay, HealthKept
  <1> QED  BY <1>2, <1>3

LEMMA ReenableStep == ASSUME SwitchesHold, NEW m \in Catalogue, Reenable(m) PROVE SwitchesHold'
  <1>0. SwitchesTyped /\ EvidenceTyped /\ PassesTyped /\ ResetTyped /\ RowsStand  BY HealthParts
  <1>1. /\ row' = [row EXCEPT ![m] = IF StaysOff(m) THEN [row[m] EXCEPT !.on = FALSE] ELSE [on |-> TRUE, claim |-> FALSE]]
        /\ decided' = [decided EXCEPT ![m] = IF row'[m].on # row[m].on THEN "operator" ELSE decided[m]]
        /\ reset' = [reset EXCEPT !.left = reset.left \ {m}]
        /\ UNCHANGED <<hostOn, answers, evidence, era, baseline, pass, excess>>
    BY DEF Reenable
  <1>2. row[m] \in Switches  BY <1>0 DEF SwitchesTyped
  <1>3. /\ row'[m] \in Switches /\ (row'[m].on => hostOn[HostOf[m]])
        /\ row'[m].claim => row[m].claim /\ ~row'[m].on
        /\ \A k \in Catalogue : k # m => row'[k] = row[k] /\ decided'[k] = decided[k]
        /\ row'[m].on = row[m].on => decided'[m] = decided[m]
    BY <1>0, <1>1, <1>2 DEF SwitchesTyped, Switches, StaysOff
  <1>4. SwitchesTyped'
    <2>1. row' \in [Catalogue -> Switches]
      <3>1. DOMAIN row' = Catalogue /\ \A k \in Catalogue : row'[k] \in Switches
        BY <1>0, <1>1, <1>3 DEF SwitchesTyped
      <3> QED  BY <1>0, <1>1, <1>2, <3>1 DEF SwitchesTyped, Switches
    <2> QED  BY <1>0, <1>1, <2>1 DEF SwitchesTyped
  <1>5. RowsStand'
    <2>1. OneNoticePerDisable' /\ OnUnderProvider'
      BY <1>0, <1>1, <1>3 DEF RowsStand, OneNoticePerDisable, OnUnderProvider
    <2>2. ASSUME NEW k \in Catalogue, row'[k].claim PROVE ~row'[k].on /\ decided'[k] = "checker"
      <3>1. CASE k # m  BY <1>0, <1>3, <2>2, <3>1 DEF RowsStand, ClaimIsTheCheckers
      <3>2. CASE k = m
        <4>1. row[m].claim /\ ~row'[m].on  BY <1>3, <2>2, <3>2
        <4>2. ~row[m].on /\ decided[m] = "checker"  BY <1>0, <4>1 DEF RowsStand, ClaimIsTheCheckers
        <4>3. row[m].on \in BOOLEAN /\ row'[m].on \in BOOLEAN  BY <1>2, <1>3 DEF Switches
        <4> QED  BY <1>3, <3>2, <4>1, <4>2, <4>3
      <3> QED  BY <3>1, <3>2
    <2> QED  BY <2>1, <2>2 DEF RowsStand, ClaimIsTheCheckers
  <1>6. ResetTyped'  BY <1>0, <1>1 DEF ResetTyped
  <1> QED  BY <1>0, <1>1, <1>4, <1>5, <1>6, EvidenceStays, PassesStay, HealthKept

LEMMA HealthStart == ASSUME HealthInit PROVE SwitchesHold
  <1>1. SwitchesTyped  BY DEF HealthInit, SwitchesTyped, Switches
  <1>2. EvidenceTyped  BY EmptySeq, HealthConstants DEF HealthInit, EvidenceTyped
  <1>3. PassesTyped  BY NoPassIsAPass DEF HealthInit, PassesTyped
  <1>4. ResetTyped  BY HealthConstants DEF HealthInit, ResetTyped, NoReset
  <1>5. RowsStand
    BY HealthConstants DEF HealthInit, RowsStand, OneNoticePerDisable, OnUnderProvider, ClaimIsTheCheckers
  <1> QED  BY <1>1, <1>2, <1>3, <1>4, <1>5, HealthParts

LEMMA HealthStep == ASSUME SwitchesHold, [HealthNext]_healthVars PROVE SwitchesHold'
  <1>1. ASSUME NEW c \in Checkers, PassStep(c) \/ CheckerStops(c) PROVE SwitchesHold'
    <2>1. ASSUME NEW m \in Catalogue, Skip(c, m) \/ Look(c, m) \/ Probe(c, m) \/ Apply(c, m) PROVE SwitchesHold'
      BY <2>1, SkipStep, LookStep, ProbeStep, ApplyStep
    <2> QED  BY <1>1, <2>1, BeginPassStep DEF PassStep
  <1>2. ASSUME NEW m \in Catalogue, Turn(m) \/ Age(m) \/ Upstream(m) PROVE SwitchesHold'  BY <1>2, EvidenceSteps
  <1>3. ASSUME NEW m \in Catalogue, Reenable(m) PROVE SwitchesHold'  BY <1>3, ReenableStep
  <1>4. ASSUME NEW m \in Catalogue, NEW on \in BOOLEAN, SetModel(m, on) PROVE SwitchesHold'  BY <1>4, SetModelStep
  <1>5. ASSUME NEW p \in Hosts, NEW on \in BOOLEAN, SetProvider(p, on) PROVE SwitchesHold'  BY <1>5, SetProviderStep
  <1>6. CASE BeginReset \/ EndReset  BY <1>6, BeginResetStep
  <1>7. CASE UNCHANGED healthVars
    BY <1>7, HealthParts, SwitchesStay, EvidenceStays, PassesStay, ResetStays, HealthKept DEF healthVars
  <1> QED  BY Zenon, <1>1, <1>2, <1>3, <1>4, <1>5, <1>6, <1>7 DEF HealthNext

\* Whatever lists the passes of several instances work from: a model is on only under a
\* provider that is, a claim is a checker's, and each switching off is told of once
\* (health/checker.go:206, model/model.go:630).
THEOREM HealthSound == HealthSpec => []SwitchesHold
  BY HealthStart, HealthStep, PTL DEF HealthSpec

\* A checker switches on only what a checker switched off (health/checker.go:210).
THEOREM OperatorsSwitchStands == HealthSpec => OperatorStands
  <1> DEFINE Stays == \A m \in Catalogue : ~row[m].on /\ row'[m].on /\ decided'[m] = "checker" => decided[m] = "checker"
  <1>1. ASSUME SwitchesHold, [HealthNext]_healthVars PROVE [Stays]_healthVars
    <2>0. SwitchesTyped /\ RowsStand  BY <1>1, HealthParts
    <2>1. ASSUME NEW c \in Checkers, NEW m \in Catalogue, Apply(c, m) PROVE Stays
      <3>1. CASE UNCHANGED <<row, decided>>  BY <3>1
      <3>2. CASE Enables(m) /\ decided' = [decided EXCEPT ![m] = "checker"]
                 /\ row' = [row EXCEPT ![m] = [on |-> TRUE, claim |-> FALSE]]
        BY <2>0, <3>2 DEF Enables, RowsStand, ClaimIsTheCheckers, SwitchesTyped
      <3>3. CASE row' = [row EXCEPT ![m] = [on |-> FALSE, claim |-> TRUE]]
        BY <2>0, <3>3 DEF SwitchesTyped
      <3> QED  BY Zenon, <2>1, <3>1, <3>2, <3>3 DEF Apply, SwitchOn, SwitchOff
    <2>2. ASSUME NEW m \in Catalogue, Reenable(m) \/ \E on \in BOOLEAN : SetModel(m, on) PROVE Stays
      <3>1. /\ decided' = [decided EXCEPT ![m] = IF row'[m].on # row[m].on THEN "operator" ELSE decided[m]]
            /\ \A k \in Catalogue : k # m => row'[k] = row[k]
        BY <2>0, <2>2 DEF Reenable, SetModel, SwitchesTyped
      <3> QED  BY <2>0, <3>1 DEF SwitchesTyped
    <2>3. ASSUME NEW p \in Hosts, NEW on \in BOOLEAN, SetProvider(p, on) PROVE Stays
      BY <2>3 DEF SetProvider
    <2>4. CASE UNCHANGED row  BY <2>4
    <2>5. ASSUME NEW c \in Checkers, BeginPass(c) \/ CheckerStops(c) PROVE UNCHANGED row
      BY <2>5 DEF BeginPass, CheckerStops
    <2>6. ASSUME NEW c \in Checkers, NEW m \in Catalogue, Skip(c, m) \/ Look(c, m) \/ Probe(c, m) PROVE UNCHANGED row
      BY <2>6 DEF Skip, Look, Probe
    <2>7. ASSUME NEW m \in Catalogue, Turn(m) \/ Age(m) \/ Upstream(m) PROVE UNCHANGED row
      BY <2>7 DEF Turn, Age, Upstream
    <2>8. CASE BeginReset \/ EndReset \/ UNCHANGED healthVars  BY <2>4, <2>8 DEF BeginReset, EndReset, healthVars
    <2> HIDE DEF Stays
    <2> QED  BY Zenon, <1>1, <2>1, <2>2, <2>3, <2>4, <2>5, <2>6, <2>7, <2>8 DEF HealthNext, PassStep
  <1> QED  BY <1>1, HealthStart, HealthStep, PTL DEF HealthSpec, OperatorStands

-----------------------------------------------------------------------------
(* Backups: one at a time on one database, kept for as long as was promised, *)
(* with credentials that stay with their destination.                        *)

\* Until it begins a run's deadline is the hour of its claim, afterwards MaxRun later.
OnTime(r) ==
    run[r].at \in AtWork =>
        /\ record.holder = r
        /\ hour <= run[r].until
        /\ record.until >= run[r].until + (IF run[r].at = "claimed" THEN Lease ELSE Lease - MaxRun)

\* What a run has stored so far.
Stored(r) ==
    /\ run[r].at \in Awaited => run[r].retention \in Retentions
    /\ run[r].at \in {"unasked", "counted", "claimed", "staging", "uploading"} => run[r].landed = 0
    /\ run[r].at = "pruning" => run[r].landed > 0

BackupsInv ==
    /\ BackupsTypeOK /\ hour > 0
    /\ \A r \in BackupRuns : OnTime(r) /\ Stored(r)
    /\ LeaseIsNotStranded /\ ClosedIsQuiet /\ ArchivesStay /\ RowIsTrue

LEMMA Bounds ==
    /\ MostRuns \in Nat /\ MaxRun \in Nat /\ Lease \in Nat /\ LastBackupHour \in Nat
    /\ MaxRun < Lease /\ 0 < LastBackupHour
    /\ \A hours \in Retentions : hours \in Nat
  BY BackupsAssumption

Row == [holder : 0..MostRuns, until : 0..(LastBackupHour + Lease), status : {"never", "running", "success", "error"},
        finished : 0..LastBackupHour, success : 0..LastBackupHour, failures : Nat]
Entry == [at : Awaited \cup {"unasked", "refused", "told", "untold", "lost"}, of : Processes,
          retention : {0} \cup Retentions, until : 0..(LastBackupHour + MaxRun),
          key : 0..LastBackupHour, landed : 0..LastBackupHour]

LEMMA TypeFacts ==
    BackupsTypeOK <=>
        /\ record \in Row /\ run \in [BackupRuns -> Entry] /\ archives \subseteq BackupRuns
        /\ serving \in [Processes -> {"up", "cancelled", "stopping", "closed"}] /\ hour \in 0..LastBackupHour
  BY DEF BackupsTypeOK, Row, Entry

LEMMA AskedIsEntry ==
    ASSUME NEW at \in Awaited \cup {"unasked", "refused", "told", "untold", "lost"}, NEW p \in Processes,
           NEW retention \in {0} \cup Retentions, NEW until \in 0..(LastBackupHour + MaxRun)
    PROVE  Asked(at, p, retention, until) \in Entry
  BY Bounds DEF Asked, Entry

LEMMA UnaskedIsEntry == Unasked \in Entry /\ Unasked.at = "unasked" /\ Unasked.landed = 0
  <1>1. (CHOOSE p \in Processes : TRUE) \in Processes
    BY BackupsAssumption
  <1> DEFINE anyone == CHOOSE p \in Processes : TRUE
  <1>2. Unasked = Asked("unasked", anyone, 0, 0)
    BY DEF Unasked
  <1> HIDE DEF anyone
  <1>3. anyone \in Processes
    BY <1>1 DEF anyone
  <1> QED
    BY <1>2, <1>3, Bounds, AskedIsEntry DEF Asked

LEMMA InitOK == BackupsInit => BackupsInv
  <1> SUFFICES ASSUME BackupsInit PROVE BackupsInv
    OBVIOUS
  <1> USE Bounds, UnaskedIsEntry DEF BackupsInit
  <1>1. BackupsTypeOK /\ hour > 0
    BY TypeFacts DEF Row, NoRun
  <1>2. \A r \in BackupRuns : run[r] = Unasked
    OBVIOUS
  <1>3. \A r \in BackupRuns : OnTime(r) /\ Stored(r)
    BY <1>2 DEF OnTime, Stored, Awaited, AtWork
  <1>4. LeaseIsNotStranded /\ ClosedIsQuiet /\ ArchivesStay /\ RowIsTrue
    BY <1>2 DEF LeaseIsNotStranded, ClosedIsQuiet, ArchivesStay, RowIsTrue, NoRun, Awaited, AtWork
  <1> QED
    BY <1>1, <1>3, <1>4 DEF BackupsInv

(* A lease outlasts the run it was given to. *)
LEMMA Outlasts == BackupsInv => WorkHoldsTheLease
  <1> SUFFICES ASSUME BackupsInv, NEW r \in BackupRuns, run[r].at \in AtWork
               PROVE  record.holder = r /\ record.until > hour
    BY DEF WorkHoldsTheLease
  <1>1. record \in Row /\ run[r] \in Entry /\ hour \in 0..LastBackupHour /\ OnTime(r)
    BY TypeFacts DEF BackupsInv
  <1>2. record.until \in Int /\ run[r].until \in Int /\ hour \in Int
    BY <1>1, Bounds DEF Row, Entry
  <1>3. record.until >= run[r].until + Lease \/ record.until >= run[r].until + (Lease - MaxRun)
    BY <1>1 DEF OnTime
  <1> QED
    BY <1>1, <1>2, <1>3, Bounds DEF OnTime

LEMMA OneChanges ==
    ASSUME run \in [BackupRuns -> Entry], NEW r \in BackupRuns, NEW e \in Entry, run' = [run EXCEPT ![r] = e]
    PROVE  run' \in [BackupRuns -> Entry] /\ run'[r] = e /\ \A s \in BackupRuns \ {r} : run'[s] = run[s]
  OBVIOUS

LEMMA AutomaticOK ==
    ASSUME BackupsInv, NEW p \in Processes, NEW r \in BackupRuns, NEW retention \in Retentions,
           StartAutomatic(p, r, retention)
    PROVE  BackupsInv'
  <1> DEFINE e == Asked("claimed", p, retention, hour)
  <1> USE Bounds DEF BackupsInv, StartAutomatic
  <1>1. /\ record \in Row /\ run \in [BackupRuns -> Entry] /\ hour \in 0..LastBackupHour
        /\ archives \subseteq BackupRuns /\ serving \in [Processes -> {"up", "cancelled", "stopping", "closed"}]
    BY TypeFacts
  <1>2. e \in Entry
    BY <1>1, AskedIsEntry DEF Awaited, AtWork
  <1>3. run' \in [BackupRuns -> Entry] /\ run'[r] = e /\ \A s \in BackupRuns \ {r} : run'[s] = run[s]
    BY <1>1, <1>2, OneChanges
  <1>4. \A s \in BackupRuns : run[s].at \notin AtWork
    BY <1>1, Outlasts DEF WorkHoldsTheLease, LeaseFree, Row
  <1>5. record' \in Row /\ record'.holder = r /\ record'.until = hour + Lease
    BY <1>1 DEF Row, Claimed, LeaseEnd, BackupRuns
  <1>6. (BackupsTypeOK /\ hour > 0)'
    BY <1>1, <1>3, <1>5, TypeFacts DEF BackupsTypeOK, Row, Entry
  <1>7. \A s \in BackupRuns : (OnTime(s) /\ Stored(s))'
    BY <1>1, <1>3, <1>4, <1>5 DEF OnTime, Stored, Asked, AtWork
  <1>8. (LeaseIsNotStranded /\ ClosedIsQuiet)'
    BY <1>1, <1>3, <1>4, <1>5 DEF LeaseIsNotStranded, ClosedIsQuiet, Asked, AtWork
  <1>9. (ArchivesStay /\ RowIsTrue)'
    <2>1. ArchivesStay'
      BY <1>1, <1>3 DEF ArchivesStay, Asked
    <2>2. RowIsTrue'
      BY <1>1, <1>3, <1>5 DEF RowIsTrue, Fresh, Claimed, NoRun, BackupRuns
    <2> QED
      BY <2>1, <2>2
  <1> QED
    BY <1>6, <1>7, <1>8, <1>9

LEMMA RunNowOK ==
    ASSUME BackupsInv, NEW p \in Processes, NEW r \in BackupRuns, NEW retention \in Retentions, RunNow(p, r, retention)
    PROVE  BackupsInv'
  <1> DEFINE e == Asked("counted", p, retention, 0)
  <1> USE Bounds DEF BackupsInv, RunNow, Fresh
  <1>1. /\ record \in Row /\ run \in [BackupRuns -> Entry] /\ hour \in 0..LastBackupHour
        /\ archives \subseteq BackupRuns /\ serving \in [Processes -> {"up", "cancelled", "stopping", "closed"}]
    BY TypeFacts
  <1>2. e \in Entry
    BY <1>1, AskedIsEntry DEF Entry, Awaited, AtWork, OnTime, Asked
  <1>3. run' \in [BackupRuns -> Entry] /\ run'[r] = e /\ \A s \in BackupRuns \ {r} : run'[s] = run[s]
    BY <1>1, <1>2, OneChanges
  <1>4. (BackupsTypeOK /\ hour > 0)'
    BY <1>1, <1>3, TypeFacts DEF BackupsTypeOK, Row, Entry
  <1>5. \A s \in BackupRuns : (OnTime(s) /\ Stored(s))'
    BY <1>1, <1>3, Outlasts DEF WorkHoldsTheLease, OnTime, Stored, Awaited, AtWork, Row, Entry, Asked
  <1>6. (LeaseIsNotStranded /\ ClosedIsQuiet)'
    BY <1>1, <1>3, Outlasts DEF WorkHoldsTheLease, LeaseIsNotStranded, ClosedIsQuiet, Awaited, AtWork, NoRun, Row, Entry, Asked
  <1>7. ArchivesStay'
    BY <1>1, <1>3 DEF ArchivesStay, Stored, Awaited, AtWork, Entry, Asked
  <1>8. RowIsTrue'
    BY <1>1, <1>3, Outlasts DEF WorkHoldsTheLease, RowIsTrue, Stored, AtWork, NoRun, Row, Entry, Asked
  <1> QED
    BY <1>4, <1>5, <1>6, <1>7, <1>8

LEMMA ClaimByHandOK ==
    ASSUME BackupsInv, NEW r \in BackupRuns, ClaimByHand(r)
    PROVE  BackupsInv'
  <1> DEFINE e == RunAt(r, "claimed", hour, 0, 0)
  <1> USE Bounds DEF BackupsInv, ClaimByHand, Goes, LeaseFree
  <1>1. /\ record \in Row /\ run \in [BackupRuns -> Entry] /\ hour \in 0..LastBackupHour
        /\ archives \subseteq BackupRuns /\ serving \in [Processes -> {"up", "cancelled", "stopping", "closed"}]
    BY TypeFacts
  <1>2. e \in Entry
    BY <1>1 DEF Entry, Awaited, AtWork, OnTime, RunAt, Goes
  <1>3. run' \in [BackupRuns -> Entry] /\ run'[r] = e /\ \A s \in BackupRuns \ {r} : run'[s] = run[s]
    BY <1>1, <1>2, OneChanges
  <1>4. record' \in Row
    BY <1>1, <1>3, Outlasts DEF Row, Entry, BackupRuns, Claimed, LeaseEnd
  <1>5. (BackupsTypeOK /\ hour > 0)'
    BY <1>1, <1>3, <1>4, TypeFacts DEF BackupsTypeOK, Row, Entry
  <1>6. \A s \in BackupRuns : (OnTime(s) /\ Stored(s))'
    BY <1>1, <1>3, <1>4, Outlasts DEF WorkHoldsTheLease, OnTime, Stored, Awaited, AtWork, Row, Entry, RunAt, Goes, Claimed, LeaseEnd
  <1>7. (LeaseIsNotStranded /\ ClosedIsQuiet)'
    BY <1>1, <1>3, <1>4, Outlasts DEF WorkHoldsTheLease, LeaseIsNotStranded, ClosedIsQuiet, Awaited, AtWork, NoRun, Row, Entry, RunAt, Goes, Claimed, LeaseEnd
  <1>8. ArchivesStay'
    BY <1>1, <1>3 DEF ArchivesStay, Stored, Awaited, AtWork, Entry, RunAt, Goes
  <1>9. RowIsTrue'
    BY <1>1, <1>3 DEF RowIsTrue, Claimed, NoRun, BackupRuns, RunAt
  <1> QED
    BY <1>5, <1>6, <1>7, <1>8, <1>9

LEMMA RefusedByHandOK ==
    ASSUME BackupsInv, NEW r \in BackupRuns, RefusedByHand(r)
    PROVE  BackupsInv'
  <1> DEFINE e == Ended(r, "refused")
  <1> USE Bounds DEF BackupsInv, RefusedByHand, Over
  <1>1. /\ record \in Row /\ run \in [BackupRuns -> Entry] /\ hour \in 0..LastBackupHour
        /\ archives \subseteq BackupRuns /\ serving \in [Processes -> {"up", "cancelled", "stopping", "closed"}]
    BY TypeFacts
  <1>2. e \in Entry
    BY <1>1 DEF Entry, Awaited, AtWork, OnTime, Ended
  <1>3. run' \in [BackupRuns -> Entry] /\ run'[r] = e /\ \A s \in BackupRuns \ {r} : run'[s] = run[s]
    BY <1>1, <1>2, OneChanges
  <1>4. (BackupsTypeOK /\ hour > 0)'
    BY <1>1, <1>3, TypeFacts DEF BackupsTypeOK, Row, Entry
  <1>5. \A s \in BackupRuns : (OnTime(s) /\ Stored(s))'
    BY <1>1, <1>3, Outlasts DEF WorkHoldsTheLease, OnTime, Stored, Awaited, AtWork, Row, Entry, Ended
  <1>6. (LeaseIsNotStranded /\ ClosedIsQuiet)'
    BY <1>1, <1>3, Outlasts DEF WorkHoldsTheLease, LeaseIsNotStranded, ClosedIsQuiet, Awaited, AtWork, NoRun, Row, Entry, Ended
  <1>7. ArchivesStay'
    BY <1>1, <1>3 DEF ArchivesStay, Stored, Awaited, AtWork, Entry, Ended
  <1>8. RowIsTrue'
    BY <1>1, <1>3, Outlasts DEF WorkHoldsTheLease, RowIsTrue, Stored, AtWork, NoRun, Row, Entry, Ended
  <1> QED
    BY <1>4, <1>5, <1>6, <1>7, <1>8

LEMMA BeginOK ==
    ASSUME BackupsInv, NEW r \in BackupRuns, Begin(r)
    PROVE  BackupsInv'
  <1> DEFINE e == RunAt(r, "staging", hour + MaxRun, 0, 0)
  <1> USE Bounds DEF BackupsInv, Begin, Goes
  <1>1. /\ record \in Row /\ run \in [BackupRuns -> Entry] /\ hour \in 0..LastBackupHour
        /\ archives \subseteq BackupRuns /\ serving \in [Processes -> {"up", "cancelled", "stopping", "closed"}]
    BY TypeFacts
  <1>2. e \in Entry
    BY <1>1 DEF Entry, Awaited, AtWork, OnTime, RunAt
  <1>3. run' \in [BackupRuns -> Entry] /\ run'[r] = e /\ \A s \in BackupRuns \ {r} : run'[s] = run[s]
    BY <1>1, <1>2, OneChanges
  <1>4. (BackupsTypeOK /\ hour > 0)'
    BY <1>1, <1>3, TypeFacts DEF BackupsTypeOK, Row, Entry
  <1>5. \A s \in BackupRuns : (OnTime(s) /\ Stored(s))'
    BY <1>1, <1>3, Outlasts DEF WorkHoldsTheLease, OnTime, Stored, Awaited, AtWork, Row, Entry, RunAt
  <1>6. (LeaseIsNotStranded /\ ClosedIsQuiet)'
    BY <1>1, <1>3, Outlasts DEF WorkHoldsTheLease, LeaseIsNotStranded, ClosedIsQuiet, Awaited, AtWork, NoRun, Row, Entry, RunAt
  <1>7. ArchivesStay'
    BY <1>1, <1>3 DEF ArchivesStay, Stored, Awaited, AtWork, Entry, RunAt
  <1>8. RowIsTrue'
    BY <1>1, <1>3, Outlasts DEF WorkHoldsTheLease, RowIsTrue, Stored, AtWork, NoRun, Row, Entry, RunAt
  <1> QED
    BY <1>4, <1>5, <1>6, <1>7, <1>8

LEMMA ArchiveOK ==
    ASSUME BackupsInv, NEW r \in BackupRuns, Archive(r)
    PROVE  BackupsInv'
  <1> DEFINE e == RunAt(r, "uploading", run[r].until, hour, 0)
  <1> USE Bounds DEF BackupsInv, Archive, Goes
  <1>1. /\ record \in Row /\ run \in [BackupRuns -> Entry] /\ hour \in 0..LastBackupHour
        /\ archives \subseteq BackupRuns /\ serving \in [Processes -> {"up", "cancelled", "stopping", "closed"}]
    BY TypeFacts
  <1>2. e \in Entry
    BY <1>1 DEF Entry, Awaited, AtWork, OnTime, RunAt
  <1>3. run' \in [BackupRuns -> Entry] /\ run'[r] = e /\ \A s \in BackupRuns \ {r} : run'[s] = run[s]
    BY <1>1, <1>2, OneChanges
  <1>4. (BackupsTypeOK /\ hour > 0)'
    BY <1>1, <1>3, TypeFacts DEF BackupsTypeOK, Row, Entry
  <1>5. \A s \in BackupRuns : (OnTime(s) /\ Stored(s))'
    BY <1>1, <1>3, Outlasts DEF WorkHoldsTheLease, OnTime, Stored, Awaited, AtWork, Row, Entry, RunAt
  <1>6. (LeaseIsNotStranded /\ ClosedIsQuiet)'
    BY <1>1, <1>3, Outlasts DEF WorkHoldsTheLease, LeaseIsNotStranded, ClosedIsQuiet, Awaited, AtWork, NoRun, Row, Entry, RunAt
  <1>7. ArchivesStay'
    BY <1>1, <1>3 DEF ArchivesStay, Stored, Awaited, AtWork, Entry, RunAt
  <1>8. RowIsTrue'
    BY <1>1, <1>3, Outlasts DEF WorkHoldsTheLease, RowIsTrue, Stored, AtWork, NoRun, Row, Entry, RunAt
  <1> QED
    BY <1>4, <1>5, <1>6, <1>7, <1>8

LEMMA UploadOK ==
    ASSUME BackupsInv, NEW r \in BackupRuns, Upload(r)
    PROVE  BackupsInv'
  <1> DEFINE e == RunAt(r, "pruning", run[r].until, run[r].key, hour)
  <1> USE Bounds DEF BackupsInv, Upload, Goes
  <1>1. /\ record \in Row /\ run \in [BackupRuns -> Entry] /\ hour \in 0..LastBackupHour
        /\ archives \subseteq BackupRuns /\ serving \in [Processes -> {"up", "cancelled", "stopping", "closed"}]
    BY TypeFacts
  <1>2. e \in Entry
    BY <1>1 DEF Entry, Awaited, AtWork, OnTime, RunAt
  <1>3. run' \in [BackupRuns -> Entry] /\ run'[r] = e /\ \A s \in BackupRuns \ {r} : run'[s] = run[s]
    BY <1>1, <1>2, OneChanges
  <1>4. (BackupsTypeOK /\ hour > 0)'
    BY <1>1, <1>3, TypeFacts DEF BackupsTypeOK, Row, Entry
  <1>5. \A s \in BackupRuns : (OnTime(s) /\ Stored(s))'
    BY <1>1, <1>3, Outlasts DEF WorkHoldsTheLease, OnTime, Stored, Awaited, AtWork, Row, Entry, RunAt
  <1>6. (LeaseIsNotStranded /\ ClosedIsQuiet)'
    BY <1>1, <1>3, Outlasts DEF WorkHoldsTheLease, LeaseIsNotStranded, ClosedIsQuiet, Awaited, AtWork, NoRun, Row, Entry, RunAt
  <1>7. ArchivesStay'
    BY <1>1, <1>3 DEF ArchivesStay, Stored, Awaited, AtWork, Entry, RunAt
  <1>8. RowIsTrue'
    BY <1>1, <1>3, Outlasts DEF WorkHoldsTheLease, RowIsTrue, Stored, AtWork, NoRun, Row, Entry, RunAt
  <1> QED
    BY <1>4, <1>5, <1>6, <1>7, <1>8

LEMMA FailOK ==
    ASSUME BackupsInv, NEW r \in BackupRuns, Fail(r)
    PROVE  BackupsInv'
  <1> DEFINE e == RunAt(r, "failed", run[r].until, run[r].key, 0)
  <1> USE Bounds DEF BackupsInv, Fail, Goes
  <1>1. /\ record \in Row /\ run \in [BackupRuns -> Entry] /\ hour \in 0..LastBackupHour
        /\ archives \subseteq BackupRuns /\ serving \in [Processes -> {"up", "cancelled", "stopping", "closed"}]
    BY TypeFacts
  <1>2. e \in Entry
    BY <1>1 DEF Entry, Awaited, AtWork, OnTime, RunAt
  <1>3. run' \in [BackupRuns -> Entry] /\ run'[r] = e /\ \A s \in BackupRuns \ {r} : run'[s] = run[s]
    BY <1>1, <1>2, OneChanges
  <1>4. (BackupsTypeOK /\ hour > 0)'
    BY <1>1, <1>3, TypeFacts DEF BackupsTypeOK, Row, Entry
  <1>5. \A s \in BackupRuns : (OnTime(s) /\ Stored(s))'
    BY <1>1, <1>3, Outlasts DEF WorkHoldsTheLease, OnTime, Stored, Awaited, AtWork, Row, Entry, RunAt
  <1>6. (LeaseIsNotStranded /\ ClosedIsQuiet)'
    BY <1>1, <1>3, Outlasts DEF WorkHoldsTheLease, LeaseIsNotStranded, ClosedIsQuiet, Awaited, AtWork, NoRun, Row, Entry, RunAt
  <1>7. ArchivesStay'
    BY <1>1, <1>3 DEF ArchivesStay, Stored, Awaited, AtWork, Entry, RunAt
  <1>8. RowIsTrue'
    BY <1>1, <1>3, Outlasts DEF WorkHoldsTheLease, RowIsTrue, Stored, AtWork, NoRun, Row, Entry, RunAt
  <1> QED
    BY <1>4, <1>5, <1>6, <1>7, <1>8

LEMMA FinishOK ==
    ASSUME BackupsInv, NEW r \in BackupRuns, Finish(r)
    PROVE  BackupsInv'
  <1> DEFINE e == Ended(r, "told")
  <1> USE Bounds DEF BackupsInv, Finish, Over
  <1>1. /\ record \in Row /\ run \in [BackupRuns -> Entry] /\ hour \in 0..LastBackupHour
        /\ archives \subseteq BackupRuns /\ serving \in [Processes -> {"up", "cancelled", "stopping", "closed"}]
    BY TypeFacts
  <1>2. e \in Entry
    BY <1>1 DEF Entry, Awaited, AtWork, OnTime, Ended
  <1>3. run' \in [BackupRuns -> Entry] /\ run'[r] = e /\ \A s \in BackupRuns \ {r} : run'[s] = run[s]
    BY <1>1, <1>2, OneChanges
  <1>4. record' \in Row
    <2>1. run[r].landed \in 0..LastBackupHour /\ record.failures \in Nat /\ record.success \in 0..LastBackupHour
      BY <1>1 DEF Row, Entry
    <2> QED
      BY <1>1, <2>1 DEF Row, NoRun
  <1>5. (BackupsTypeOK /\ hour > 0)'
    BY <1>1, <1>3, <1>4, TypeFacts DEF BackupsTypeOK, Row, Entry
  <1>6. \A s \in BackupRuns : (OnTime(s) /\ Stored(s))'
    BY <1>1, <1>3, <1>4, Outlasts DEF WorkHoldsTheLease, OnTime, Stored, Awaited, AtWork, Row, Entry, Ended, NoRun
  <1>7. (LeaseIsNotStranded /\ ClosedIsQuiet)'
    BY <1>1, <1>3, <1>4, Outlasts DEF WorkHoldsTheLease, LeaseIsNotStranded, ClosedIsQuiet, Awaited, AtWork, NoRun, Row, Entry, Ended, NoRun
  <1>8. ArchivesStay'
    BY <1>1, <1>3 DEF ArchivesStay, Stored, Awaited, AtWork, Entry, Ended
  <1>9. RowIsTrue'
    BY <1>1, <1>3, <1>4, Outlasts DEF WorkHoldsTheLease, RowIsTrue, Stored, AtWork, NoRun, Row, Entry, Ended, NoRun
  <1> QED
    BY <1>5, <1>6, <1>7, <1>8, <1>9

LEMMA FinishFailsOK ==
    ASSUME BackupsInv, NEW r \in BackupRuns, FinishFails(r)
    PROVE  BackupsInv'
  <1> DEFINE e == Ended(r, "untold")
  <1> USE Bounds DEF BackupsInv, FinishFails, Over
  <1>1. /\ record \in Row /\ run \in [BackupRuns -> Entry] /\ hour \in 0..LastBackupHour
        /\ archives \subseteq BackupRuns /\ serving \in [Processes -> {"up", "cancelled", "stopping", "closed"}]
    BY TypeFacts
  <1>2. e \in Entry
    BY <1>1 DEF Entry, Awaited, AtWork, OnTime, Ended
  <1>3. run' \in [BackupRuns -> Entry] /\ run'[r] = e /\ \A s \in BackupRuns \ {r} : run'[s] = run[s]
    BY <1>1, <1>2, OneChanges
  <1>4. (BackupsTypeOK /\ hour > 0)'
    BY <1>1, <1>3, TypeFacts DEF BackupsTypeOK, Row, Entry
  <1>5. \A s \in BackupRuns : (OnTime(s) /\ Stored(s))'
    BY <1>1, <1>3, Outlasts DEF WorkHoldsTheLease, OnTime, Stored, Awaited, AtWork, Row, Entry, Ended
  <1>6. (LeaseIsNotStranded /\ ClosedIsQuiet)'
    BY <1>1, <1>3, Outlasts DEF WorkHoldsTheLease, LeaseIsNotStranded, ClosedIsQuiet, Awaited, AtWork, NoRun, Row, Entry, Ended
  <1>7. ArchivesStay'
    BY <1>1, <1>3 DEF ArchivesStay, Stored, Awaited, AtWork, Entry, Ended
  <1>8. RowIsTrue'
    BY <1>1, <1>3, Outlasts DEF WorkHoldsTheLease, RowIsTrue, Stored, AtWork, NoRun, Row, Entry, Ended
  <1> QED
    BY <1>4, <1>5, <1>6, <1>7, <1>8

LEMMA PruneExpiredOK ==
    ASSUME BackupsInv, NEW r \in BackupRuns, PruneExpired(r)
    PROVE  BackupsInv'
  <1> USE Bounds DEF BackupsInv, PruneExpired
  <1>1. /\ record \in Row /\ run \in [BackupRuns -> Entry] /\ hour \in 0..LastBackupHour
        /\ archives \subseteq BackupRuns /\ serving \in [Processes -> {"up", "cancelled", "stopping", "closed"}]
    BY TypeFacts
  <1>2. (BackupsTypeOK /\ hour > 0)'
    BY <1>1, TypeFacts DEF BackupsTypeOK, Row, Entry
  <1>3. \A s \in BackupRuns : (OnTime(s) /\ Stored(s))'
    BY DEF OnTime, Stored
  <1>4. (LeaseIsNotStranded /\ ClosedIsQuiet /\ RowIsTrue)'
    BY DEF LeaseIsNotStranded, ClosedIsQuiet, RowIsTrue
  <1>5. ArchivesStay'
    <2>1. run[r].retention \in Retentions
      BY DEF Stored, Awaited, AtWork
    <2>2. \A s \in Expired(r) : ~(hour <= run[s].key + run[r].retention)
      BY <1>1, <2>1 DEF Expired, Entry
    <2> QED
      BY <1>1, <2>1, <2>2 DEF ArchivesStay
  <1> QED
    BY <1>2, <1>3, <1>4, <1>5

-----------------------------------------------------------------------------
(* The process and the clock. *)

LEMMA ServingOK ==
    ASSUME BackupsInv, NEW p \in Processes, Cancel(p) \/ StopScheduler(p) \/ CloseAfterRuns(p)
    PROVE  BackupsInv'
  <1> USE Bounds DEF BackupsInv, Cancel, StopScheduler, CloseAfterRuns
  <1>1. /\ record \in Row /\ run \in [BackupRuns -> Entry] /\ hour \in 0..LastBackupHour
        /\ archives \subseteq BackupRuns /\ serving \in [Processes -> {"up", "cancelled", "stopping", "closed"}]
    BY TypeFacts
  <1>2. /\ serving' \in [Processes -> {"up", "cancelled", "stopping", "closed"}]
        /\ \A q \in Processes : serving'[q] = "closed" =>
             serving[q] = "closed" \/ \A r \in BackupRuns : run[r].of = q => run[r].at \notin Awaited
    BY <1>1
  <1>3. (BackupsTypeOK /\ hour > 0)'
    BY <1>1, <1>2, TypeFacts DEF BackupsTypeOK, Row, Entry
  <1>4. \A s \in BackupRuns : (OnTime(s) /\ Stored(s))'
    BY DEF OnTime, Stored
  <1>5. (LeaseIsNotStranded /\ RowIsTrue /\ ArchivesStay)'
    BY DEF LeaseIsNotStranded, ArchivesStay, RowIsTrue
  <1>6. ClosedIsQuiet'
    BY <1>1, <1>2 DEF ClosedIsQuiet, Entry
  <1> QED
    BY <1>3, <1>4, <1>5, <1>6

LEMMA DieOK ==
    ASSUME BackupsInv, NEW p \in Processes, Die(p)
    PROVE  BackupsInv'
  <1> USE Bounds DEF BackupsInv, Die
  <1>1. /\ record \in Row /\ run \in [BackupRuns -> Entry] /\ hour \in 0..LastBackupHour
        /\ archives \subseteq BackupRuns /\ serving \in [Processes -> {"up", "cancelled", "stopping", "closed"}]
    BY TypeFacts
  <1>2. \A r \in BackupRuns :
           /\ run'[r] = IF run[r].of = p /\ run[r].at \in Awaited THEN Ended(r, "lost") ELSE run[r]
           /\ run'[r] \in Entry
    BY <1>1 DEF Ended, Entry
  <1>3. run' \in [BackupRuns -> Entry] /\ serving' \in [Processes -> {"up", "cancelled", "stopping", "closed"}]
    BY <1>1, <1>2
  <1>4. archives \subseteq archives' /\ archives' \subseteq BackupRuns
    BY <1>1
  <1>5. (BackupsTypeOK /\ hour > 0)'
    BY <1>1, <1>3, <1>4, TypeFacts DEF BackupsTypeOK, Row, Entry
  <1>6. \A s \in BackupRuns : (OnTime(s) /\ Stored(s))'
    BY <1>1, <1>2 DEF OnTime, Stored, Ended, Awaited, AtWork
  <1>7. (LeaseIsNotStranded /\ ClosedIsQuiet)'
    BY <1>1, <1>2 DEF LeaseIsNotStranded, ClosedIsQuiet, Ended, Awaited, AtWork, NoRun, Row, BackupRuns
  <1>8. (ArchivesStay /\ RowIsTrue)'
    BY <1>1, <1>2, <1>4 DEF ArchivesStay, RowIsTrue, Ended, Awaited, AtWork
  <1> QED
    BY <1>5, <1>6, <1>7, <1>8

LEMMA TickOK ==
    ASSUME BackupsInv, BackupTick
    PROVE  BackupsInv'
  <1> USE Bounds DEF BackupsInv, BackupTick
  <1>1. /\ record \in Row /\ run \in [BackupRuns -> Entry] /\ hour \in 0..LastBackupHour
        /\ archives \subseteq BackupRuns /\ serving \in [Processes -> {"up", "cancelled", "stopping", "closed"}]
    BY TypeFacts
  <1>2. (BackupsTypeOK /\ hour > 0)'
    BY <1>1, TypeFacts DEF BackupsTypeOK, Row, Entry
  <1>3. \A s \in BackupRuns : (OnTime(s) /\ Stored(s))'
    BY <1>1 DEF OnTime, Stored, Entry
  <1>4. (LeaseIsNotStranded /\ ClosedIsQuiet /\ RowIsTrue)'
    BY DEF LeaseIsNotStranded, ClosedIsQuiet, RowIsTrue
  <1>5. ArchivesStay'
    BY <1>1 DEF ArchivesStay, Entry
  <1> QED
    BY <1>2, <1>3, <1>4, <1>5

LEMMA StepOK == BackupsInv /\ [BackupsNext]_backupVars => BackupsInv'
  <1> SUFFICES ASSUME BackupsInv, [BackupsNext]_backupVars PROVE BackupsInv'
    OBVIOUS
  <1>1. CASE UNCHANGED backupVars
    BY <1>1 DEF BackupsInv, backupVars, BackupsTypeOK, OnTime, Stored, LeaseIsNotStranded, ClosedIsQuiet, ArchivesStay, RowIsTrue
  <1>2. ASSUME NEW r \in BackupRuns, NEW p \in Processes, NEW retention \in Retentions,
               StartAutomatic(p, r, retention) \/ RunNow(p, r, retention)
        PROVE  BackupsInv'
    BY <1>2, AutomaticOK, RunNowOK
  <1>3. ASSUME NEW r \in BackupRuns,
               \/ ClaimByHand(r) \/ RefusedByHand(r) \/ Begin(r) \/ Archive(r) \/ Upload(r) \/ Fail(r)
               \/ PruneExpired(r) \/ Finish(r) \/ FinishFails(r)
        PROVE  BackupsInv'
    BY <1>3, ClaimByHandOK, RefusedByHandOK, BeginOK, ArchiveOK, UploadOK, FailOK, PruneExpiredOK, FinishOK, FinishFailsOK
  <1>4. ASSUME NEW p \in Processes, Cancel(p) \/ StopScheduler(p) \/ CloseAfterRuns(p) \/ Die(p)
        PROVE  BackupsInv'
    BY <1>4, ServingOK, DieOK
  <1> QED
    BY <1>1, <1>2, <1>3, <1>4, TickOK DEF BackupsNext

-----------------------------------------------------------------------------
(* Destinations. *)

DestinationsInv == DestinationsTypeOK /\ CredentialsStay

LEMMA DestinationsInitOK == DestinationsInit => DestinationsInv
  <1> SUFFICES ASSUME DestinationsInit PROVE DestinationsInv
    OBVIOUS
  <1> DEFINE untyped == [c \in Credentials |-> Unsaved]
  <1>1. untyped \in [Credentials -> PlacesOrNone \cup {Unsaved}] /\ \A c \in Credentials : untyped[c] = Unsaved
    OBVIOUS
  <1>2. [k \in Kinds |-> "nowhere"] \in [Kinds -> PlacesOrNone] /\ "nowhere" \in PlacesOrNone /\ "s3" \in Kinds
    BY DEF PlacesOrNone, Kinds
  <1>3. /\ config = [kind |-> "s3", enabled |-> FALSE, place |-> [k \in Kinds |-> "nowhere"], typed |-> untyped]
        /\ Nothing = [kind |-> "s3", place |-> "nowhere", typed |-> untyped]
        /\ sender = [s \in Senders |-> Nothing]
    BY DEF DestinationsInit, Nothing, Loaded
  <1> HIDE DEF untyped
  <1>4. config \in [kind : Kinds, enabled : BOOLEAN, place : [Kinds -> PlacesOrNone],
                    typed : [Credentials -> PlacesOrNone \cup {Unsaved}]]
    BY <1>1, <1>2, <1>3
  <1>5. Nothing \in [kind : Kinds, place : PlacesOrNone, typed : [Credentials -> PlacesOrNone \cup {Unsaved}]]
    BY <1>1, <1>2, <1>3
  <1>6. DestinationsTypeOK
    BY <1>3, <1>4, <1>5 DEF DestinationsTypeOK
  <1>7. CredentialsStay
    BY <1>1, <1>3 DEF CredentialsStay
  <1> QED
    BY <1>6, <1>7 DEF DestinationsInv

LEMMA SaveOK ==
    ASSUME DestinationsInv, NEW kind \in Kinds, NEW enabled \in BOOLEAN, NEW place \in [Kinds -> PlacesOrNone],
           NEW blank \in SUBSET Credentials, Save(kind, enabled, place, blank)
    PROVE  DestinationsInv'
  <1> DEFINE typed == [c \in Credentials |-> IF c \in blank THEN config.typed[c] ELSE place[KindOf(c)]]
  <1>1. config' = [kind |-> kind, enabled |-> enabled, place |-> place, typed |-> typed] /\ sender' = sender
    BY DEF Save
  <1>2. \A c \in Credentials : KindOf(c) \in Kinds
    BY DEF KindOf, Kinds
  <1>3. typed \in [Credentials -> PlacesOrNone \cup {Unsaved}]
    BY <1>2 DEF DestinationsInv, DestinationsTypeOK
  <1>4. \A c \in Credentials : typed[c] \in {Unsaved, place[KindOf(c)]}
    BY <1>2 DEF DestinationsInv, CredentialsStay, Save, Moved
  <1> HIDE DEF typed
  <1>5. DestinationsTypeOK'
    BY <1>1, <1>3 DEF DestinationsInv, DestinationsTypeOK
  <1>6. CredentialsStay'
    BY <1>1, <1>4 DEF DestinationsInv, CredentialsStay
  <1> QED
    BY <1>5, <1>6 DEF DestinationsInv

LEMMA LoadOK ==
    ASSUME DestinationsInv, NEW s \in Senders, Load(s)
    PROVE  DestinationsInv'
  <1> DEFINE typed == [c \in Credentials |-> IF KindOf(c) = config.kind THEN config.typed[c] ELSE Unsaved]
  <1> DEFINE now == [kind |-> config.kind, place |-> config.place[config.kind], typed |-> typed]
  <1>1. config' = config /\ sender' = [sender EXCEPT ![s] = now]
    BY DEF Load, Loaded
  <1>2. /\ config.kind \in Kinds /\ config.place \in [Kinds -> PlacesOrNone]
        /\ config.typed \in [Credentials -> PlacesOrNone \cup {Unsaved}]
    BY DEF DestinationsInv, DestinationsTypeOK
  <1>3. typed \in [Credentials -> PlacesOrNone \cup {Unsaved}]
    BY <1>2
  <1>4. \A c \in Credentials : typed[c] \in {Unsaved, now.place}
    BY DEF DestinationsInv, CredentialsStay
  <1>5. now \in [kind : Kinds, place : PlacesOrNone, typed : [Credentials -> PlacesOrNone \cup {Unsaved}]]
    BY <1>2, <1>3
  <1>6. now.typed = typed
    OBVIOUS
  <1> HIDE DEF typed, now
  <1>7. DestinationsTypeOK'
    BY <1>1, <1>5 DEF DestinationsInv, DestinationsTypeOK
  <1>8. CredentialsStay'
    BY <1>1, <1>4, <1>6 DEF DestinationsInv, DestinationsTypeOK, CredentialsStay
  <1> QED
    BY <1>7, <1>8 DEF DestinationsInv

\* A saved credential is kept only for the destination it was typed for, and no run
\* or connection test sends it anywhere else (store.go:306-314), whatever is saved.
THEOREM CredentialsKept == DestinationsSpec => []CredentialsStay
  <1>1. DestinationsInv /\ [DestinationsNext]_destinationVars => DestinationsInv'
    <2> SUFFICES ASSUME DestinationsInv, [DestinationsNext]_destinationVars PROVE DestinationsInv'
      OBVIOUS
    <2>1. CASE UNCHANGED destinationVars
      BY <2>1 DEF DestinationsInv, destinationVars, DestinationsTypeOK, CredentialsStay
    <2>2. CASE DestinationsNext
      BY <2>2, SaveOK, LoadOK DEF DestinationsNext
    <2> QED
      BY <2>1, <2>2
  <1>2. DestinationsInv => CredentialsStay
    BY DEF DestinationsInv
  <1> QED
    BY DestinationsInitOK, <1>1, <1>2, PTL DEF DestinationsSpec

LEMMA DestinationsTyped == DestinationsSpec => []DestinationsTypeOK
  <1>1. DestinationsInv /\ [DestinationsNext]_destinationVars => DestinationsInv'
    <2> SUFFICES ASSUME DestinationsInv, [DestinationsNext]_destinationVars PROVE DestinationsInv'
      OBVIOUS
    <2>1. CASE UNCHANGED destinationVars
      BY <2>1 DEF DestinationsInv, destinationVars, DestinationsTypeOK, CredentialsStay
    <2>2. CASE DestinationsNext
      BY <2>2, SaveOK, LoadOK DEF DestinationsNext
    <2> QED
      BY <2>1, <2>2
  <1>2. DestinationsInv => DestinationsTypeOK
    BY DEF DestinationsInv
  <1> QED
    BY DestinationsInitOK, <1>1, <1>2, PTL DEF DestinationsSpec

\* One backup at a time on one database, a lease that is stranded only by a death or a
\* result that could not be written, no write after a shutdown has closed the database,
\* archives for as long as was promised, and a row that tells what is stored.
THEOREM BackupsSound == BackupsSpec /\ DestinationsSpec => []BackupsHold
  <1>1. BackupsInv /\ DestinationsTypeOK => BackupsHold
    BY Outlasts DEF BackupsInv, BackupsHold
  <1> QED
    BY InitOK, StepOK, DestinationsTyped, <1>1, PTL DEF BackupsSpec

-----------------------------------------------------------------------------
(* The keys of a provider. *)

\* The n-th of a finite set of places is there, with n - 1 of them before it.
LEMMA NthPlace ==
    ASSUME NEW m \in Nat, NEW places \in SUBSET (1..m), NEW n \in 1..Cardinality(places)
    PROVE  Nth(places, n) \in places /\ Cardinality({j \in places : j < Nth(places, n)}) = n - 1
<1> DEFINE below(i) == {j \in places : j < i}
           rank == [i \in places |-> Cardinality(below(i)) + 1]
<1>1. IsFiniteSet(places) /\ Cardinality(places) \in Nat
  <2>1. IsFiniteSet(1..m)
    BY FS_Interval
  <2> QED
    BY <2>1, FS_Subset, FS_CardinalityType
<1>2. ASSUME NEW i \in places
      PROVE  below(i) \subseteq places \ {i} /\ Cardinality(below(i)) \in Nat /\ Cardinality(below(i)) < Cardinality(places)
  <2>1. below(i) \subseteq places \ {i}
    OBVIOUS
  <2>2. IsFiniteSet(below(i)) /\ Cardinality(below(i)) <= Cardinality(places)
        /\ (Cardinality(places) = Cardinality(below(i)) => places = below(i))
    BY <1>1, <2>1, FS_Subset
  <2>3. Cardinality(below(i)) \in Nat
    BY <2>2, FS_CardinalityType
  <2> HIDE DEF below
  <2> QED
    BY <1>1, <2>1, <2>2, <2>3
<1>3. ASSUME NEW i \in places, NEW k \in places, i < k
      PROVE  Cardinality(below(i)) < Cardinality(below(k))
  <2>1. \A j \in places : j \in Nat
    OBVIOUS
  <2>2. i \in Nat /\ k \in Nat
    BY <2>1
  <2>3. \A j \in below(i) : j \in places /\ j < k
    BY <1>3, <2>1, <2>2
  <2>4. i \in below(k) /\ i \notin below(i)
    BY <1>3, <2>2
  <2>5. below(i) \subseteq below(k)
    BY <2>3
  <2>6. IsFiniteSet(below(k))
    BY <1>1, <1>2, FS_Subset
  <2>7. Cardinality(below(i)) <= Cardinality(below(k))
        /\ (Cardinality(below(k)) = Cardinality(below(i)) => below(k) = below(i))
    BY <2>5, <2>6, FS_Subset
  <2>8. Cardinality(below(i)) \in Nat /\ Cardinality(below(k)) \in Nat
    BY <1>2
  <2> HIDE DEF below
  <2> QED
    BY <2>4, <2>5, <2>7, <2>8
<1>4. rank \in Injection(places, 1..Cardinality(places))
  <2> HIDE DEF below
  <2>1. rank \in [places -> 1..Cardinality(places)]
    BY <1>1, <1>2
  <2>2. ASSUME NEW i \in places, NEW k \in places, rank[i] = rank[k]
        PROVE  i = k
    <3>1. Cardinality(below(i)) = Cardinality(below(k)) /\ Cardinality(below(i)) \in Nat
      BY <2>2, <1>2
    <3>2. i \in Nat /\ k \in Nat
      OBVIOUS
    <3> QED
      BY <3>1, <3>2, <1>3
  <2> HIDE DEF rank
  <2> QED
    BY <2>1, <2>2 DEF Injection, IsInjective
<1>5. \E i \in places : rank[i] = n
  <2>1. IsFiniteSet(1..Cardinality(places)) /\ Cardinality(1..Cardinality(places)) = Cardinality(places)
    BY <1>1, FS_Interval
  <2> HIDE DEF rank
  <2>2. rank \in Surjection(places, 1..Cardinality(places))
    BY <1>4, <2>1, FS_Injection
  <2> QED
    BY <2>2 DEF Surjection
<1>6. PICK i \in places : Cardinality(below(i)) = n - 1
  BY <1>2, <1>5
<1> QED
  BY <1>6 DEF Nth

\* What is kept of a list has no key twice, and no key that was not there.
LEMMA UniqueKeys ==
    ASSUME NEW S, NEW keys \in Seq(S)
    PROVE  /\ Unique(keys) \in Seq(S)
           /\ IsInjective(Unique(keys))
           /\ \A n \in DOMAIN Unique(keys) : \E i \in DOMAIN keys : Unique(keys)[n] = keys[i]
<1> DEFINE places == FirstPlaces(keys)
<1>1. Len(keys) \in Nat /\ places \in SUBSET (1..Len(keys)) /\ DOMAIN keys = 1..Len(keys)
  BY DEF FirstPlaces
<1>2. Cardinality(places) \in Nat
  <2>1. IsFiniteSet(1..Len(keys))
    BY <1>1, FS_Interval
  <2> QED
    BY <1>1, <2>1, FS_Subset, FS_CardinalityType
<1>3. ASSUME NEW n \in 1..Cardinality(places)
      PROVE  Nth(places, n) \in places /\ Cardinality({j \in places : j < Nth(places, n)}) = n - 1
  <2> HIDE DEF places
  <2> QED
    BY <1>1, NthPlace
<1>4. Unique(keys) = [n \in 1..Cardinality(places) |-> keys[Nth(places, n)]]
  BY DEF Unique
<1>5. \A n \in 1..Cardinality(places) : Nth(places, n) \in DOMAIN keys /\ keys[Nth(places, n)] \in S
  <2> HIDE DEF places
  <2>1. ASSUME NEW n \in 1..Cardinality(places)
        PROVE  Nth(places, n) \in DOMAIN keys /\ keys[Nth(places, n)] \in S
    <3>1. Nth(places, n) \in places
      BY <1>3
    <3>2. \A i \in places : i \in DOMAIN keys /\ keys[i] \in S
      BY <1>1
    <3> QED
      BY <3>1, <3>2
  <2> QED
    BY <2>1
<1>6. ASSUME NEW n \in 1..Cardinality(places), NEW k \in 1..Cardinality(places),
             keys[Nth(places, n)] = keys[Nth(places, k)]
      PROVE  n = k
  <2>1. ASSUME NEW i \in places, NEW j \in places, keys[i] = keys[j]
        PROVE  i = j
    <3>1. i \in Nat \ {0} /\ j \in Nat \ {0}
      BY <1>1
    <3>2. (\A l \in 1..(i - 1) : keys[l] # keys[i]) /\ \A l \in 1..(j - 1) : keys[l] # keys[j]
      BY DEF FirstPlaces
    <3>3. ~(i < j) /\ ~(j < i)
      BY <2>1, <3>1, <3>2
    <3> QED
      BY <3>1, <3>3
  <2>2. Nth(places, n) = Nth(places, k)
    BY <1>3, <1>6, <2>1
  <2>3. n - 1 = k - 1
    BY <1>3, <2>2
  <2> QED
    BY <1>2, <2>3
<1> HIDE DEF places
<1>7. Unique(keys) \in Seq(S)
  BY <1>2, <1>4, <1>5
<1>8. IsInjective(Unique(keys))
  BY <1>4, <1>6 DEF IsInjective
<1> QED
  BY <1>4, <1>5, <1>7, <1>8

\* A list made of kept keys of an address and of keys typed for it is of that address.
LEMMA ListOfAddress ==
    ASSUME NEW u \in Urls, NEW kept \in Seq(KeyOf), NEW hints \in Seq(Hints),
           \A i \in DOMAIN kept : kept[i].for = u
    PROVE  LET list == Unique(kept \o TypedFor(u, hints))
           IN  list \in Seq(KeyOf) /\ IsInjective(list) /\ \A n \in DOMAIN list : list[n].for = u
<1> DEFINE typed == TypedFor(u, hints)
           all == kept \o typed
<1>1. typed \in Seq(KeyOf) /\ \A i \in DOMAIN typed : typed[i].for = u
  <2>1. Len(hints) \in Nat /\ DOMAIN hints = 1..Len(hints) /\ \A i \in 1..Len(hints) : hints[i] \in Hints
    OBVIOUS
  <2>2. typed = [i \in 1..Len(hints) |-> [for |-> u, hint |-> hints[i]]]
    BY <2>1 DEF TypedFor
  <2>3. \A i \in 1..Len(hints) : [for |-> u, hint |-> hints[i]] \in KeyOf /\ [for |-> u, hint |-> hints[i]].for = u
    BY <2>1 DEF KeyOf
  <2> HIDE DEF typed
  <2> QED
    BY <2>1, <2>2, <2>3
<1> HIDE DEF typed
<1>2. all \in Seq(KeyOf) /\ \A i \in DOMAIN all : all[i].for = u
  BY <1>1
<1> HIDE DEF all
<1>3. Unique(all) \in Seq(KeyOf) /\ IsInjective(Unique(all))
      /\ \A n \in DOMAIN Unique(all) : \E i \in DOMAIN all : Unique(all)[n] = all[i]
  BY <1>2, UniqueKeys
<1>4. \A n \in DOMAIN Unique(all) : Unique(all)[n].for = u
  BY <1>2, <1>3
<1> QED
  BY <1>3, <1>4 DEF all, typed

\* What a form keeps of a list are keys of it.
LEMMA KeptKeys ==
    ASSUME NEW keys \in Seq(KeyOf), NEW f, f.keep \in Seq(Nat), f.keep # << >> => KeptFits(keys, f)
    PROVE  /\ Kept(keys, f) \in Seq(KeyOf)
           /\ \A i \in DOMAIN Kept(keys, f) : \E j \in DOMAIN keys : Kept(keys, f)[i] = keys[j]
<1>1. \A i \in DOMAIN f.keep : f.keep[i] \in DOMAIN keys
  <2>1. CASE f.keep = << >>
    BY <2>1
  <2>2. CASE f.keep # << >>
    BY <2>2 DEF KeptFits, ToSet
  <2> QED
    BY <2>1, <2>2
<1>2. DOMAIN f.keep = 1..Len(f.keep) /\ Len(f.keep) \in Nat
  OBVIOUS
<1>3. Kept(keys, f) = [i \in 1..Len(f.keep) |-> keys[f.keep[i]]]
  BY <1>2 DEF Kept
<1>4. \A i \in 1..Len(f.keep) : f.keep[i] \in DOMAIN keys /\ keys[f.keep[i]] \in KeyOf
  BY <1>1, <1>2
<1> QED
  BY SMTT(60), <1>2, <1>3, <1>4

\* A list that waits to be inserted, and an address a form was opened with.
KeysReady ==
    \A e \in KeyEditors :
        /\ form[e].at # "closed" => form[e].url \in Urls
        /\ form[e].at = "inserting" => /\ Fitting(form[e].keys) /\ IsInjective(form[e].keys)
                                       /\ \A i \in DOMAIN form[e].keys : form[e].keys[i].for = form[e].url

KeysInv == KeysHold /\ KeysReady

\* The first provider has the key it was made with.
LEMMA KeysInitially ==
    ASSUME KeysInit
    PROVE  KeysInv
<1> USE KeysAssumption
<1>1. PICK u \in Urls, h \in Hints :
         upstreams = [p \in Ends |-> IF p = Original THEN [url |-> u, keys |-> <<[for |-> u, hint |-> h]>>] ELSE Gone]
  BY DEF KeysInit
<1> DEFINE key == [for |-> u, hint |-> h]
<1>2. key \in KeyOf /\ <<key>> \in Seq(KeyOf) /\ << >> \in Seq(KeyOf) /\ key.for = u
  BY DEF KeyOf
<1>3. form = [e \in KeyEditors |-> NoForm]
  BY DEF KeysInit
<1>4. upstreams \in [Ends -> [url : Urls \cup {"gone"}, keys : Seq(KeyOf)]]
  BY <1>1, <1>2 DEF Gone
<1>5. KeysTypeOK /\ KeysReady
  BY <1>3, <1>4 DEF KeysTypeOK, KeysReady, NoForm, Ends
<1>6. ASSUME NEW p \in Ends
      PROVE  /\ Exists(p) => Fitting(upstreams[p].keys) /\ IsInjective(upstreams[p].keys)
             /\ \A i \in DOMAIN upstreams[p].keys : upstreams[p].keys[i].for = upstreams[p].url
  <2>1. CASE p = Original
    <3>1. upstreams[p].url = u /\ upstreams[p].keys = <<key>>
      BY <1>1, <2>1
    <3> HIDE DEF key
    <3> QED
      BY <1>2, <3>1 DEF Fitting, IsInjective
  <2>2. CASE p # Original
    BY <1>1, <2>2 DEF Exists, Gone
  <2> QED
    BY <2>1, <2>2
<1> QED
  BY <1>5, <1>6 DEF KeysInv, KeysHold, KeysWellFormed, KeysGoWhereTyped

\* A closed form asks nothing.
LEMMA ClosedForm ==
    ASSUME KeysInv, NEW e \in KeyEditors, Close(e)
    PROVE  /\ form' \in [KeyEditors -> [at : {"closed", "edit", "duplicate", "copying", "taking", "inserting"}, of : Ends,
                                        seen : Seq(Hints), url : Urls \cup {"gone"}, keep : Seq(Nat), typed : Seq(Hints),
                                        keys : Seq(KeyOf)]]
           /\ KeysReady'
<1>1. form' = [form EXCEPT ![e] = NoForm] /\ NoForm.at = "closed"
  BY DEF Close, NoForm
<1>2. NoForm \in [at : {"closed", "edit", "duplicate", "copying", "taking", "inserting"}, of : Ends,
                  seen : Seq(Hints), url : Urls \cup {"gone"}, keep : Seq(Nat), typed : Seq(Hints), keys : Seq(KeyOf)]
  BY DEF NoForm, Ends
<1> QED
  BY <1>1, <1>2 DEF KeysInv, KeysHold, KeysTypeOK, KeysReady

\* A list that fits and is of the address it is written with.
LEMMA RowWritten ==
    ASSUME KeysInv, NEW p \in Ends, NEW u \in Urls, NEW list \in Seq(KeyOf),
           Fitting(list), IsInjective(list), \A i \in DOMAIN list : list[i].for = u,
           upstreams' = [upstreams EXCEPT ![p] = [url |-> u, keys |-> list]],
           NEW e \in KeyEditors, Close(e)
    PROVE  KeysInv'
<1>1. upstreams' \in [Ends -> [url : Urls \cup {"gone"}, keys : Seq(KeyOf)]]
  BY DEF KeysInv, KeysHold, KeysTypeOK
<1>2. KeysTypeOK' /\ KeysReady'
  BY <1>1, ClosedForm DEF KeysTypeOK
<1>3. ASSUME NEW q \in Ends
      PROVE  /\ Exists(q)' => Fitting(upstreams'[q].keys) /\ IsInjective(upstreams'[q].keys)
             /\ \A i \in DOMAIN upstreams'[q].keys : upstreams'[q].keys[i].for = upstreams'[q].url
  <2>1. CASE q = p
    <3>1. upstreams'[q].url = u /\ upstreams'[q].keys = list
      BY <2>1 DEF KeysInv, KeysHold, KeysTypeOK
    <3> QED
      BY <3>1
  <2>2. CASE q # p
    <3>1. upstreams'[q] = upstreams[q]
      BY <2>2 DEF KeysInv, KeysHold, KeysTypeOK
    <3> QED
      BY <3>1 DEF KeysInv, KeysHold, KeysWellFormed, KeysGoWhereTyped, Exists
  <2> QED
    BY <2>1, <2>2
<1> QED
  BY <1>2, <1>3 DEF KeysInv, KeysHold, KeysWellFormed, KeysGoWhereTyped

\* A step that leaves the providers alone and the forms in shape.
LEMMA FormsMove ==
    ASSUME KeysInv, UNCHANGED upstreams, KeysReady',
           form' \in [KeyEditors -> [at : {"closed", "edit", "duplicate", "copying", "taking", "inserting"}, of : Ends,
                                     seen : Seq(Hints), url : Urls \cup {"gone"}, keep : Seq(Nat), typed : Seq(Hints),
                                     keys : Seq(KeyOf)]]
    PROVE  KeysInv'
BY DEF KeysInv, KeysHold, KeysTypeOK, KeysWellFormed, KeysGoWhereTyped, Exists

\* A form shows the hints of the keys that are there, and keeps some of their positions.
LEMMA KeysOpenForm ==
    ASSUME KeysInv, NEW e \in KeyEditors, NEW p \in Ends, NEW at \in {"edit", "duplicate"}, OpenForm(e, p, at)
    PROVE  KeysInv'
<1> DEFINE list == upstreams[p].keys
<1>1. PICK u \in Urls, keep \in Positions(Len(list)), typed \in TypedHints :
         form' = [form EXCEPT ![e] = [at |-> at, of |-> p, seen |-> HintsOf(list),
                                      url |-> u, keep |-> keep, typed |-> typed, keys |-> << >>]]
  BY DEF OpenForm
<1>2. list \in Seq(KeyOf) /\ Len(list) \in Nat
  BY DEF KeysInv, KeysHold, KeysTypeOK
<1> HIDE DEF list
<1>3. keep \in Seq(Nat) /\ typed \in Seq(Hints) /\ HintsOf(list) \in Seq(Hints)
  <2>1. keep \in Seq(Nat)
    <3> DEFINE n == Len(list)
    <3>1. n \in Nat /\ keep \in Positions(n)
      BY <1>2
    <3> HIDE DEF n
    <3>2. CASE keep = << >>
      BY <3>2
    <3>3. CASE \E i \in 1..n : keep = <<i>>
      BY <3>1, <3>3
    <3>4. CASE keep = [i \in 1..n |-> i]
      BY <3>1, <3>4
    <3> QED
      BY <3>1, <3>2, <3>3, <3>4 DEF Positions
  <2>2. typed \in Seq(Hints)
    <3>1. CASE typed = << >>
      BY <3>1
    <3>2. ASSUME NEW h \in Hints, typed = <<h>>
          PROVE  typed \in Seq(Hints)
      BY <3>2
    <3> QED
      BY <3>1, <3>2 DEF TypedHints
  <2>3. HintsOf(list) \in Seq(Hints)
    <3>1. DOMAIN list = 1..Len(list) /\ \A i \in 1..Len(list) : list[i] \in KeyOf
      BY <1>2
    <3>2. HintsOf(list) = [i \in 1..Len(list) |-> list[i].hint]
      BY <3>1 DEF HintsOf
    <3>3. \A i \in 1..Len(list) : list[i].hint \in Hints
      BY <3>1 DEF KeyOf
    <3> QED
      BY <1>2, <3>2, <3>3
  <2> QED
    BY <2>1, <2>2, <2>3
<1> DEFINE new == [at |-> at, of |-> p, seen |-> HintsOf(list), url |-> u, keep |-> keep, typed |-> typed, keys |-> << >>]
<1>4. form' = [form EXCEPT ![e] = new]
  BY <1>1
<1>5. new \in [at : {"closed", "edit", "duplicate", "copying", "taking", "inserting"}, of : Ends,
               seen : Seq(Hints), url : Urls \cup {"gone"}, keep : Seq(Nat), typed : Seq(Hints), keys : Seq(KeyOf)]
      /\ new.at # "inserting" /\ new.url \in Urls
  BY <1>3
<1> HIDE DEF new
<1>6. form' \in [KeyEditors -> [at : {"closed", "edit", "duplicate", "copying", "taking", "inserting"}, of : Ends,
                                seen : Seq(Hints), url : Urls \cup {"gone"}, keep : Seq(Nat), typed : Seq(Hints),
                                keys : Seq(KeyOf)]]
  BY <1>4, <1>5 DEF KeysInv, KeysHold, KeysTypeOK
<1>7. KeysReady'
  BY <1>4, <1>5 DEF KeysInv, KeysHold, KeysTypeOK, KeysReady
<1>8. UNCHANGED upstreams
  BY DEF OpenForm
<1> QED
  BY <1>6, <1>7, <1>8, FormsMove

\* Kept keys are of the address they stay at; a move keeps none.
LEMMA KeysUpdate ==
    ASSUME KeysInv, NEW e \in KeyEditors, UpdateProvider(e)
    PROVE  KeysInv'
<1> DEFINE f == form[e]
           current == upstreams[f.of]
           kept == Kept(current.keys, f)
           list == Unique(kept \o TypedFor(f.url, f.typed))
<1>1. /\ f.of \in Ends /\ f.url \in Urls /\ f.keep \in Seq(Nat) /\ f.typed \in Seq(Hints)
      /\ current.keys \in Seq(KeyOf)
  BY DEF KeysInv, KeysHold, KeysTypeOK, KeysReady, UpdateProvider
<1>2. \A i \in DOMAIN current.keys : current.keys[i].for = current.url
  BY <1>1 DEF KeysInv, KeysHold, KeysGoWhereTyped
<1>3. /\ f.keep # << >> => KeptFits(current.keys, f)
      /\ f.url # current.url => MayMove(f)
      /\ Fitting(list)
      /\ upstreams' = [upstreams EXCEPT ![f.of] = [url |-> f.url, keys |-> list]]
      /\ Close(e)
  BY DEF UpdateProvider
<1>4. PICK g : g = f
  OBVIOUS
<1>5. PICK keys : keys = current.keys
  OBVIOUS
<1>6. Kept(keys, g) \in Seq(KeyOf) /\ \A i \in DOMAIN Kept(keys, g) : \E j \in DOMAIN keys : Kept(keys, g)[i] = keys[j]
  <2> HIDE DEF f, current
  <2> QED
    BY <1>1, <1>3, <1>4, <1>5, KeptKeys
<1>7. kept \in Seq(KeyOf) /\ \A i \in DOMAIN kept : kept[i].for = f.url
  <2>1. CASE f.keep = << >>
    BY <1>4, <1>5, <1>6, <2>1 DEF Kept
  <2>2. CASE f.keep # << >>
    BY <1>2, <1>3, <1>4, <1>5, <1>6, <2>2 DEF MayMove
  <2> QED
    BY <2>1, <2>2
<1> HIDE DEF f, current, kept
<1>8. list \in Seq(KeyOf) /\ IsInjective(list) /\ \A n \in DOMAIN list : list[n].for = f.url
  BY <1>1, <1>7, ListOfAddress
<1> HIDE DEF list
<1> QED
  BY <1>1, <1>3, <1>8, RowWritten

\* All are kept, and typed ones are for the same address.
LEMMA KeysKeepingAll ==
    ASSUME KeysInv, NEW e \in KeyEditors, UpdateKeepingAll(e)
    PROVE  KeysInv'
<1> DEFINE f == form[e]
           current == upstreams[f.of]
           list == Unique(current.keys \o TypedFor(f.url, f.typed))
<1>1. f.of \in Ends /\ f.url \in Urls /\ f.typed \in Seq(Hints)
      /\ current \in [url : Urls \cup {"gone"}, keys : Seq(KeyOf)] /\ current.keys \in Seq(KeyOf)
  BY DEF KeysInv, KeysHold, KeysTypeOK, KeysReady, UpdateKeepingAll
<1>2. /\ f.url = current.url /\ Fitting(list)
      /\ upstreams' = [upstreams EXCEPT ![f.of].keys = list]
      /\ Close(e)
  BY DEF UpdateKeepingAll
<1>3. \A i \in DOMAIN current.keys : current.keys[i].for = f.url
  BY <1>1, <1>2 DEF KeysInv, KeysHold, KeysGoWhereTyped
<1>4. upstreams' = [upstreams EXCEPT ![f.of] = [url |-> f.url, keys |-> list]]
  <2>1. [current EXCEPT !.keys = list] = [url |-> f.url, keys |-> list]
    <3> HIDE DEF list
    <3> QED
      BY <1>1, <1>2
  <2>2. upstreams' = [upstreams EXCEPT ![f.of] = [current EXCEPT !.keys = list]]
    <3> HIDE DEF list
    <3> QED
      BY <1>2
  <2> QED
    BY <2>1, <2>2
<1> HIDE DEF f, current
<1>5. list \in Seq(KeyOf) /\ IsInjective(list) /\ \A n \in DOMAIN list : list[n].for = f.url
  BY <1>1, <1>3, ListOfAddress
<1> HIDE DEF list
<1> QED
  BY <1>1, <1>2, <1>4, <1>5, RowWritten

\* What is opened is at the address the new row will have.
LEMMA KeysTake ==
    ASSUME KeysInv, NEW e \in KeyEditors, TakeKeys(e)
    PROVE  KeysInv'
<1> DEFINE f == form[e]
           source == upstreams[Original]
           kept == Kept(source.keys, f)
           list == Unique(kept \o TypedFor(f.url, f.typed))
<1>1. /\ f.url \in Urls /\ f.keep \in Seq(Nat) /\ f.typed \in Seq(Hints)
      /\ source.keys \in Seq(KeyOf) /\ source.url = f.url
      /\ f.keep # << >> => KeptFits(source.keys, f)
      /\ Fitting(list)
      /\ form' = [form EXCEPT ![e].at = "inserting", ![e].keys = list]
      /\ UNCHANGED upstreams
  BY DEF KeysInv, KeysHold, KeysTypeOK, KeysReady, TakeKeys, SourceAt, Ends
<1>2. \A i \in DOMAIN source.keys : source.keys[i].for = f.url
  BY <1>1 DEF KeysInv, KeysHold, KeysGoWhereTyped, Ends
<1>3. PICK g : g = f
  OBVIOUS
<1>4. PICK keys : keys = source.keys
  OBVIOUS
<1>5. Kept(keys, g) \in Seq(KeyOf) /\ \A i \in DOMAIN Kept(keys, g) : \E j \in DOMAIN keys : Kept(keys, g)[i] = keys[j]
  <2> HIDE DEF f, source
  <2> QED
    BY <1>1, <1>3, <1>4, KeptKeys
<1>6. kept \in Seq(KeyOf) /\ \A i \in DOMAIN kept : kept[i].for = f.url
  BY <1>2, <1>3, <1>4, <1>5
<1> HIDE DEF f, source, kept
<1>7. list \in Seq(KeyOf) /\ IsInjective(list) /\ \A n \in DOMAIN list : list[n].for = f.url
  BY <1>1, <1>6, ListOfAddress
<1> HIDE DEF list
<1>8. f \in [at : {"closed", "edit", "duplicate", "copying", "taking", "inserting"}, of : Ends,
             seen : Seq(Hints), url : Urls \cup {"gone"}, keep : Seq(Nat), typed : Seq(Hints), keys : Seq(KeyOf)]
  BY DEF KeysInv, KeysHold, KeysTypeOK, f
<1>9. PICK new : new = [f EXCEPT !.at = "inserting", !.keys = list]
  OBVIOUS
<1>10. form' = [form EXCEPT ![e] = new]
  BY <1>1, <1>9 DEF f
<1>11. /\ new \in [at : {"closed", "edit", "duplicate", "copying", "taking", "inserting"}, of : Ends,
                  seen : Seq(Hints), url : Urls \cup {"gone"}, keep : Seq(Nat), typed : Seq(Hints), keys : Seq(KeyOf)]
       /\ new.at = "inserting" /\ new.keys = list /\ new.url = f.url
  BY <1>7, <1>8, <1>9
<1>12. form' \in [KeyEditors -> [at : {"closed", "edit", "duplicate", "copying", "taking", "inserting"}, of : Ends,
                                 seen : Seq(Hints), url : Urls \cup {"gone"}, keep : Seq(Nat), typed : Seq(Hints),
                                 keys : Seq(KeyOf)]]
  BY <1>10, <1>11 DEF KeysInv, KeysHold, KeysTypeOK
<1>13. KeysReady'
  <2>1. \A d \in KeyEditors : form'[d] = IF d = e THEN new ELSE form[d]
    BY <1>10 DEF KeysInv, KeysHold, KeysTypeOK
  <2>2. /\ new.url \in Urls /\ Fitting(new.keys) /\ IsInjective(new.keys)
        /\ \A i \in DOMAIN new.keys : new.keys[i].for = new.url
    BY <1>1, <1>7, <1>11
  <2> QED
    BY <2>1, <2>2 DEF KeysInv, KeysReady
<1> QED
  BY <1>1, <1>12, <1>13, FormsMove

\* Every step of the forms and of the providers keeps the invariant.
LEMMA KeysStep ==
    ASSUME KeysInv, [KeysNext]_keyVars
    PROVE  KeysInv'
<1>1. ASSUME NEW e \in KeyEditors, OpenForm(e, Original, "duplicate")
      PROVE  KeysInv'
  BY <1>1, KeysOpenForm DEF Ends
<1>2. ASSUME NEW e \in KeyEditors, NEW p \in Ends, OpenForm(e, p, "edit")
      PROVE  KeysInv'
  BY <1>2, KeysOpenForm
<1>3. ASSUME NEW e \in KeyEditors, CheckSource(e)
      PROVE  KeysInv'
  <2>1. PICK at \in {"copying", "taking"} : form' = [form EXCEPT ![e].at = at]
    BY <1>3 DEF CheckSource
  <2>2. form' \in [KeyEditors -> [at : {"closed", "edit", "duplicate", "copying", "taking", "inserting"}, of : Ends,
                                  seen : Seq(Hints), url : Urls \cup {"gone"}, keep : Seq(Nat), typed : Seq(Hints),
                                  keys : Seq(KeyOf)]]
    BY ZenonT(60), <2>1 DEF KeysInv, KeysHold, KeysTypeOK
  <2>3. KeysReady'
    BY <1>3, <2>1 DEF KeysInv, KeysHold, KeysTypeOK, KeysReady, CheckSource
  <2>4. UNCHANGED upstreams
    BY <1>3 DEF CheckSource
  <2> QED
    BY <2>2, <2>3, <2>4, FormsMove
<1>4. ASSUME NEW e \in KeyEditors, InsertCopy(e)
      PROVE  KeysInv'
  <2> DEFINE u == form[e].url
             list == upstreams[Original].keys
  <2>1. /\ Duplicate \in Ends /\ u \in Urls /\ list \in Seq(KeyOf)
        /\ Fitting(list) /\ IsInjective(list) /\ \A i \in DOMAIN list : list[i].for = u
    BY <1>4 DEF KeysInv, KeysHold, KeysTypeOK, KeysReady, KeysWellFormed, KeysGoWhereTyped, InsertCopy, SourceAt, Ends
  <2>2. upstreams' = [upstreams EXCEPT ![Duplicate] = [url |-> u, keys |-> list]] /\ Close(e)
    BY <1>4 DEF InsertCopy
  <2> HIDE DEF u, list
  <2> QED
    BY <2>1, <2>2, RowWritten
<1>5. ASSUME NEW e \in KeyEditors, InsertTaken(e)
      PROVE  KeysInv'
  <2> DEFINE u == form[e].url
             list == form[e].keys
  <2>1. /\ Duplicate \in Ends /\ u \in Urls /\ list \in Seq(KeyOf)
        /\ Fitting(list) /\ IsInjective(list) /\ \A i \in DOMAIN list : list[i].for = u
    BY <1>5 DEF KeysInv, KeysHold, KeysTypeOK, KeysReady, InsertTaken, Ends
  <2>2. upstreams' = [upstreams EXCEPT ![Duplicate] = [url |-> u, keys |-> list]] /\ Close(e)
    BY <1>5 DEF InsertTaken
  <2> HIDE DEF u, list
  <2> QED
    BY <2>1, <2>2, RowWritten
<1>6. ASSUME NEW e \in KeyEditors, Leave(e)
      PROVE  KeysInv'
  BY <1>6, ClosedForm, FormsMove DEF Leave
<1>7. ASSUME NEW p \in Ends, DeleteProvider(p)
      PROVE  KeysInv'
  <2>1. upstreams' = [upstreams EXCEPT ![p] = Gone] /\ UNCHANGED form
    BY <1>7 DEF DeleteProvider
  <2>2. Gone \in [url : Urls \cup {"gone"}, keys : Seq(KeyOf)] /\ Gone.keys = << >>
    BY DEF Gone
  <2>3. KeysTypeOK' /\ KeysReady'
    BY <2>1, <2>2 DEF KeysInv, KeysHold, KeysTypeOK, KeysReady
  <2>4. ASSUME NEW q \in Ends
        PROVE  /\ Exists(q)' => Fitting(upstreams'[q].keys) /\ IsInjective(upstreams'[q].keys)
               /\ \A i \in DOMAIN upstreams'[q].keys : upstreams'[q].keys[i].for = upstreams'[q].url
    <3>1. CASE q = p
      <4>1. upstreams'[q] = Gone
        BY <2>1, <3>1 DEF KeysInv, KeysHold, KeysTypeOK
      <4> QED
        BY <2>2, <4>1 DEF Exists
    <3>2. CASE q # p
      <4>1. upstreams'[q] = upstreams[q]
        BY <2>1, <3>2 DEF KeysInv, KeysHold, KeysTypeOK
      <4> QED
        BY <4>1 DEF KeysInv, KeysHold, KeysWellFormed, KeysGoWhereTyped, Exists
    <3> QED
      BY <3>1, <3>2
  <2> QED
    BY <2>3, <2>4 DEF KeysInv, KeysHold, KeysWellFormed, KeysGoWhereTyped
<1>8. ASSUME UNCHANGED keyVars
      PROVE  KeysInv'
  BY <1>8 DEF KeysInv, KeysHold, KeysTypeOK, KeysWellFormed, KeysGoWhereTyped, KeysReady, Exists, keyVars
<1> QED
  BY <1>1, <1>2, <1>3, <1>4, <1>5, <1>6, <1>7, <1>8, KeysUpdate, KeysKeepingAll, KeysTake DEF KeysNext

\* Whatever order forms, moves, duplicates and deletions come in, and however old a form is, a provider
\* has a fitting set of keys and each is sent only to the address it was typed for.
THEOREM KeysSound == KeysSpec => []KeysHold
<1>1. KeysInv => KeysHold
  BY DEF KeysInv
<1> QED
  BY <1>1, KeysInitially, KeysStep, PTL DEF KeysSpec
=============================================================================
