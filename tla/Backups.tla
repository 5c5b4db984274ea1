------------------------------ MODULE Backups ------------------------------
(***************************************************************************)
(* The instance backup (systembackup/service.go, store.go): a scheduler in *)
(* every process and a button on the admin page ask for one lease in the   *)
(* database; whoever gets it archives, uploads, prunes and writes the      *)
(* result. A process may be shut down, which waits for its runs, or die.   *)
(*                                                                         *)
(* The clock counts in the longest time a run may take. A run's steps end  *)
(* at its deadline but for a few writes of seconds, and the clock does not *)
(* pass the deadline before them.                                          *)
(***************************************************************************)
EXTENDS Integers, Destinations

CONSTANTS
    Processes,      \* replicas of the server on one database
    MostRuns,       \* bound: runs that are asked for
    MaxRun, Lease,  \* MaxRunDuration, LeaseDuration
    RetryAfter, Interval,
    Retentions,     \* retentions an administrator may choose
    LastBackupHour  \* the clock stops here

ASSUME BackupsAssumption ==
    /\ IsFiniteSet(Processes) /\ Processes # {}
    /\ {MostRuns, MaxRun, Lease, RetryAfter, Interval, LastBackupHour} \subseteq Nat
    /\ MaxRun < Lease /\ 0 < LastBackupHour
    /\ \A hours \in Retentions : hours \in Nat /\ hours >= MaxRun

VARIABLES
    record,       \* the row of system_backups and the failure count
    run,          \* the runs, each asked for once
    archives,     \* the runs whose archive is in the storage
    serving,      \* where a process is between its start and its closed database
    hour

backupVars == <<record, run, archives, serving, hour>>

BackupRuns == 1..MostRuns
NoRun == 0
Asked(at, p, retention, until) == [at |-> at, of |-> p, retention |-> retention, until |-> until, key |-> 0, landed |-> 0]
Unasked == Asked("unasked", CHOOSE p \in Processes : TRUE, 0, 0)
\* The lease is this run's, and its goroutine will write again.
AtWork == {"claimed", "staging", "uploading", "pruning", "failed"}
\* A run the shutdown of its process waits for.
Awaited == AtWork \cup {"counted"}

BackupsTypeOK ==
    /\ record \in [holder : 0..MostRuns, until : 0..(LastBackupHour + Lease),
                status : {"never", "running", "success", "error"}, finished : 0..LastBackupHour,
                success : 0..LastBackupHour, failures : Nat]
    /\ run \in [BackupRuns -> [at : Awaited \cup {"unasked", "refused", "told", "untold", "lost"}, of : Processes,
                               retention : {0} \cup Retentions, until : 0..(LastBackupHour + MaxRun),
                               key : 0..LastBackupHour, landed : 0..LastBackupHour]]
    /\ archives \subseteq BackupRuns
    /\ serving \in [Processes -> {"up", "cancelled", "stopping", "closed"}]
    /\ hour \in 0..LastBackupHour

\* Hour zero is the zero time: the clock begins at one.
BackupsInit ==
    /\ record = [holder |-> NoRun, until |-> 0, status |-> "never", finished |-> 0, success |-> 0, failures |-> 0]
    /\ run = [r \in BackupRuns |-> Unasked]
    /\ archives = {}
    /\ serving = [p \in Processes |-> "up"]
    /\ hour = 1

RunAt(r, at, until, key, landed) ==
    [at |-> at, of |-> run[r].of, retention |-> run[r].retention, until |-> until, key |-> key, landed |-> landed]
Goes(r, at, until, key, landed) == run' = [run EXCEPT ![r] = RunAt(r, at, until, key, landed)]

\* A run that is over leaves its archive, and the key and the time of it.
Ended(r, as) == [at |-> as, of |-> run[r].of, retention |-> 0, until |-> 0, key |-> run[r].key, landed |-> run[r].landed]
Over(r, as) == run' = [run EXCEPT ![r] = Ended(r, as)]

\* Runs are numbered as they are asked for.
Fresh(r) == run[r].at = "unasked" /\ \A s \in BackupRuns : s < r => run[s].at # "unasked"

-----------------------------------------------------------------------------
(* The row. Whether the schedule is on, and for how long archives are kept, is as an
   administrator left it: either at any time. *)

\* Doubles with each failure in a row, up to the interval.
RetryDelay(failures) ==
    LET delay == RetryAfter * 2 ^ (IF failures = 0 THEN 0 ELSE failures - 1)
    IN  IF delay < Interval THEN delay ELSE Interval

\* nextAutomaticRun: the interval counts from the last archive that was stored.
NextRun ==
    IF record.status # "success"
    THEN IF record.finished = 0 THEN 0 ELSE record.finished + RetryDelay(record.failures)
    ELSE IF record.success = 0 THEN 0 ELSE record.success + Interval

\* Mutant: a lease that ends when its run's deadline does.
LeaseEndAtDeadline == hour + MaxRun
LeaseEnd == hour + Lease

\* claim, under the scheduler's row lock.
LeaseFree == record.until <= hour
Claimed(r) == [holder |-> r, until |-> LeaseEnd, status |-> "running",
               finished |-> record.finished, success |-> record.success, failures |-> record.failures]

-----------------------------------------------------------------------------
(* Asking for a run. *)

\* The scheduler's goroutine, at start and every minute. It adds the run itself.
StartAutomatic(p, r, retention) ==
    /\ serving[p] = "up"
    /\ Fresh(r)
    /\ LeaseFree
    /\ hour >= NextRun
    /\ record' = Claimed(r)
    /\ run' = [run EXCEPT ![r] = Asked("claimed", p, retention, hour)]
    /\ UNCHANGED <<archives, serving, hour>>

\* RunNow loads the configuration and counts itself, unless the shutdown already waits.
RunNow(p, r, retention) ==
    /\ serving[p] \in {"up", "cancelled"}
    /\ Fresh(r)
    /\ run' = [run EXCEPT ![r] = Asked("counted", p, retention, 0)]
    /\ UNCHANGED <<record, archives, serving, hour>>

\* Only then it claims, whatever the schedule says.
ClaimByHand(r) ==
    /\ run[r].at = "counted"
    /\ LeaseFree
    /\ record' = Claimed(r)
    /\ Goes(r, "claimed", hour, 0, 0)
    /\ UNCHANGED <<archives, serving, hour>>

\* The lease is held, or the request was given up.
RefusedByHand(r) ==
    /\ run[r].at = "counted"
    /\ Over(r, "refused")
    /\ UNCHANGED <<record, archives, serving, hour>>

-----------------------------------------------------------------------------
(* runClaimed. *)

Begin(r) ==
    /\ run[r].at = "claimed"
    /\ Goes(r, "staging", hour + MaxRun, 0, 0)
    /\ UNCHANGED <<record, archives, serving, hour>>

\* The archive is written; its key carries the time.
Archive(r) ==
    /\ run[r].at = "staging"
    /\ Goes(r, "uploading", run[r].until, hour, 0)
    /\ UNCHANGED <<record, archives, serving, hour>>

Upload(r) ==
    /\ run[r].at = "uploading"
    /\ archives' = archives \cup {r}
    /\ Goes(r, "pruning", run[r].until, run[r].key, hour)
    /\ UNCHANGED <<record, serving, hour>>

\* An error, the deadline, the shutdown, or a configuration that is not valid. Of an
\* upload that failed the object may be there.
Fail(r) ==
    /\ run[r].at \in {"claimed", "staging", "uploading"}
    /\ \/ UNCHANGED archives
       \/ run[r].at = "uploading" /\ archives' = archives \cup {r}
    /\ Goes(r, "failed", run[r].until, run[r].key, 0)
    /\ UNCHANGED <<record, serving, hour>>

Expired(r) == {s \in archives : run[s].key < hour - run[r].retention}

\* applyRetention: all the expired archives, or those it came to before it failed.
PruneExpired(r) ==
    /\ run[r].at = "pruning"
    /\ \E gone \in SUBSET Expired(r) \ {{}} : archives' = archives \ gone
    /\ UNCHANGED <<record, run, serving, hour>>

\* finish, under the row lock: nothing unless the lease is still this run's.
Finish(r) ==
    /\ run[r].at \in {"pruning", "failed"}
    /\ Over(r, "told")
    /\ record' = IF record.holder # r THEN record ELSE
              [holder |-> NoRun, until |-> 0, status |-> IF run[r].at = "failed" THEN "error" ELSE "success",
               finished |-> hour, success |-> IF run[r].landed > 0 THEN run[r].landed ELSE record.success,
               failures |-> IF run[r].at = "failed" THEN record.failures + 1 ELSE 0]
    /\ UNCHANGED <<archives, serving, hour>>

\* The write fails and is only logged: the lease has to run out.
FinishFails(r) ==
    /\ run[r].at \in {"pruning", "failed"}
    /\ Over(r, "untold")
    /\ UNCHANGED <<record, archives, serving, hour>>

-----------------------------------------------------------------------------
(* The process. *)

\* The context of the process ends; the scheduler returns and refuses what is not counted.
Cancel(p) ==
    /\ serving[p] = "up"
    /\ serving' = [serving EXCEPT ![p] = "cancelled"]
    /\ UNCHANGED <<record, run, archives, hour>>

StopScheduler(p) ==
    /\ serving[p] = "cancelled"
    /\ serving' = [serving EXCEPT ![p] = "stopping"]
    /\ UNCHANGED <<record, run, archives, hour>>

\* runs.Wait returns, done is closed, and the process closes the database.
CloseAfterRuns(p) ==
    /\ serving[p] = "stopping"
    /\ \A r \in BackupRuns : run[r].of = p => run[r].at \notin Awaited
    /\ serving' = [serving EXCEPT ![p] = "closed"]
    /\ UNCHANGED <<record, run, archives, hour>>

\* The process dies with its runs, and another takes its place.
Die(p) ==
    /\ serving' = [serving EXCEPT ![p] = "up"]
    /\ run' = [r \in BackupRuns |->
                 IF run[r].of = p /\ run[r].at \in Awaited THEN Ended(r, "lost") ELSE run[r]]
    /\ \/ UNCHANGED archives
       \/ \E r \in BackupRuns : run[r].of = p /\ run[r].at = "uploading" /\ archives' = archives \cup {r}
    /\ UNCHANGED <<record, hour>>

\* No run is past its deadline.
BackupTick ==
    /\ hour < LastBackupHour
    /\ \A r \in BackupRuns : run[r].at \in AtWork => hour < run[r].until
    /\ hour' = hour + 1
    /\ UNCHANGED <<record, run, archives, serving>>

BackupsNext ==
    \/ \E r \in BackupRuns :
          \/ \E p \in Processes, retention \in Retentions : StartAutomatic(p, r, retention) \/ RunNow(p, r, retention)
          \/ ClaimByHand(r) \/ RefusedByHand(r)
          \/ Begin(r) \/ Archive(r) \/ Upload(r) \/ Fail(r) \/ PruneExpired(r) \/ Finish(r) \/ FinishFails(r)
    \/ \E p \in Processes : Cancel(p) \/ StopScheduler(p) \/ CloseAfterRuns(p) \/ Die(p)
    \/ BackupTick

BackupsSpec == BackupsInit /\ [][BackupsNext]_backupVars

-----------------------------------------------------------------------------
(* Whatever run still works holds the lease, and for longer: so no two     *)
(* replicas back up at once, and no result is dropped or written over one. *)
WorkHoldsTheLease ==
    \A r \in BackupRuns : run[r].at \in AtWork => record.holder = r /\ record.until > hour

(* The lease is stranded only by a death or by a result that could not be  *)
(* written: a run that is refused at shutdown leaves none behind.          *)
LeaseIsNotStranded ==
    record.holder # NoRun => run[record.holder].at \in AtWork \cup {"lost", "untold"}

(* Once a process has closed its database none of its runs writes again.   *)
ClosedIsQuiet ==
    \A r \in BackupRuns : serving[run[r].of] = "closed" => run[r].at \notin Awaited

(* An archive that was stored stays for the shortest retention, whichever  *)
(* run prunes and with whatever retention it was started: a run that takes *)
(* all its time does not prune what it has just stored.                    *)
ArchivesStay ==
    \A r \in BackupRuns :
        run[r].landed > 0 /\ (\A hours \in Retentions : hour <= run[r].key + hours) => r \in archives

(* The row names a success only if its archive was stored, and counts the  *)
(* failures since.                                                         *)
RowIsTrue ==
    /\ record.success > 0 => \E r \in BackupRuns : run[r].landed = record.success /\ run[r].at = "told"
    /\ record.status = "success" => record.failures = 0 /\ record.success > 0
    /\ record.status = "error" => record.failures > 0
    /\ record.status = "running" <=> record.holder # NoRun

(* One backup at a time on one database, an end to every lease, no write   *)
(* after the database is closed, and archives for as long as was promised. *)
BackupsHold ==
    /\ BackupsTypeOK /\ WorkHoldsTheLease /\ LeaseIsNotStranded /\ ClosedIsQuiet /\ ArchivesStay /\ RowIsTrue
    /\ DestinationsTypeOK
=============================================================================
