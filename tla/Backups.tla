------------------------------- MODULE Backups -------------------------------
(***************************************************************************)
(* The backup, cleanup and restore tasks beside the requests of Files.     *)
(* The database of this module is the files table and the task_status      *)
(* table; the bucket of the dumps is not part of it, and neither are the   *)
(* uploaded objects.  A worker that dies leaves its message unacknowledged *)
(* (task_acks_late), and the task starts again.                            *)
(***************************************************************************)
EXTENDS Files

CONSTANTS
    Tasks,          \* bound: Celery task ids
    Retention,      \* BACKUP_RETENTION_DAYS
    MaxTime,        \* bound: clock
    MaxFaults       \* bound: worker deaths, failures of the object store and of status updates

ASSUME BackupsAssumption ==
    /\ {Retention, MaxTime, MaxFaults} \subseteq Nat
    /\ None \notin {"SUCCESS", "FAILURE"}

Clock == 0..MaxTime

VARIABLES
    now,
    version,    \* history: number of database commits so far
    atTime,     \* history: version when the clock came to show a time
    bucket,     \* the dump stored under each key, or NoDump
    task,       \* the messages and their executions
    status,     \* the task_status rows
    faults,
    restored,   \* history: version the last restore read, and the least it may be
    stored      \* history: what each task stored last, see NeverStored

backupVars == <<now, version, atTime, bucket, task, status, faults, restored, stored>>
vars == <<fileVars, backupVars>>

\* _backup_key, with the database's name left out, and _extract_key_timestamp.
BackupKey(t) == [stamp |-> t]
KeyTimestamp(key) == key.stamp

AllKeys == {BackupKey(t) : t \in Clock}

NoDump == [version |-> -1]
NeverRestored == [version |-> 0, needed |-> 0, ever |-> FALSE]

\* The version of the dump, and the version when that execution had begun.
NeverStored == [version |-> -1, since |-> 0]
Unsent == [kind |-> "none", at |-> "unsent"]

\* The database as pg_dump sees it: one consistent snapshot.
Dump == [version |-> version, files |-> files, lastFile |-> lastFile, status |-> status]

\* The bucket holds a dump of the database as it is at the beginning.
Init ==
    /\ FilesInit
    /\ now = 0 /\ version = 0 /\ faults = 0
    /\ atTime = [t \in Clock |-> 0]
    /\ task = [k \in Tasks |-> Unsent]
    /\ status = [k \in Tasks |-> None]
    /\ bucket = [key \in AllKeys |-> IF key = BackupKey(0) THEN Dump ELSE NoDump]
    /\ restored = NeverRestored
    /\ stored = [k \in Tasks |-> NeverStored]

Commits(n) == version' = version + n

Step(k, r) == task' = [task EXCEPT ![k] = r]

Keys == {key \in AllKeys : bucket[key] # NoDump}

-----------------------------------------------------------------------------
\* Beat and the administrator queue tasks.
Send(k, kind) ==
    /\ task[k] = Unsent
    /\ Step(k, [kind |-> kind, at |-> "queued"])
    /\ UNCHANGED <<fileVars, now, version, atTime, bucket, status, faults, restored, stored>>

\* backup_database: the key is made from the time the task starts.
StartBackup(k) ==
    /\ task[k].kind = "backup" /\ task[k].at = "queued"
    /\ Step(k, [kind |-> "backup", at |-> "dump", key |-> BackupKey(now), since |-> version])
    /\ UNCHANGED <<fileVars, now, version, atTime, bucket, status, faults, restored, stored>>

PgDump(k) ==
    /\ task[k].at = "dump"
    /\ Step(k, [kind |-> "backup", at |-> "put", key |-> task[k].key,
                since |-> task[k].since, dump |-> Dump])
    /\ UNCHANGED <<fileVars, now, version, atTime, bucket, status, faults, restored, stored>>

\* Mutant: the return code is not looked at, and what there is of the dump is
\* stored.
PgDumpFailsUnseen(k) ==
    /\ task[k].at = "dump"
    /\ Step(k, [kind |-> "backup", at |-> "put", key |-> task[k].key, since |-> task[k].since,
                dump |-> [Dump EXCEPT !.version = -2]])
    /\ UNCHANGED <<fileVars, now, version, atTime, bucket, status, faults, restored, stored>>

\* A return code other than 0, or a timeout, fails the task.
PgDumpFails(k) ==
    /\ task[k].at = "dump"
    /\ Step(k, [kind |-> "backup", at |-> "failed"])
    /\ UNCHANGED <<fileVars, now, version, atTime, bucket, status, faults, restored, stored>>

Fault ==
    /\ faults < MaxFaults
    /\ faults' = faults + 1

PutDump(k) ==
    /\ task[k].at = "put"
    /\ bucket' = [bucket EXCEPT ![task[k].key] = task[k].dump]
    /\ stored' = [stored EXCEPT ![k] = [version |-> task[k].dump.version,
                                        since |-> task[k].since]]
    /\ UNCHANGED <<fileVars, now, version, atTime, status, restored>>

PutObject(k) ==
    PutDump(k) /\ Step(k, [kind |-> "backup", at |-> "succeeded"]) /\ UNCHANGED faults

\* The object is stored, and the answer is lost.
PutObjectUnanswered(k) ==
    PutDump(k) /\ Step(k, [kind |-> "backup", at |-> "failed"]) /\ Fault

\* gzip fails, or the object store does not do what the task asks it for.
S3Fails(k) ==
    /\ task[k].at \in {"put", "delete", "get"}
    /\ Step(k, [kind |-> task[k].kind, at |-> "failed"])
    /\ Fault
    /\ UNCHANGED <<fileVars, now, version, atTime, bucket, status, restored, stored>>

\* cleanup_old_backups lists the keys and deletes the old ones, one by one.
StartCleanup(k) ==
    /\ task[k].kind = "cleanup" /\ task[k].at = "queued"
    /\ Step(k, [kind |-> "cleanup", at |-> "delete",
                old |-> {key \in Keys : KeyTimestamp(key) < now - Retention}])
    /\ UNCHANGED <<fileVars, now, version, atTime, bucket, status, faults, restored, stored>>

DeleteObject(k) ==
    /\ task[k].at = "delete"
    /\ IF task[k].old = {}
       THEN /\ Step(k, [kind |-> "cleanup", at |-> "succeeded"])
            /\ UNCHANGED bucket
       ELSE \E key \in task[k].old :
                /\ bucket' = [bucket EXCEPT ![key] = NoDump]
                /\ Step(k, [task[k] EXCEPT !.old = @ \ {key}])
    /\ UNCHANGED <<fileVars, now, version, atTime, status, faults, restored, stored>>

\* Mutant: the keys are sorted the other way round.
LatestFirst(S) == CHOOSE a \in S : \A b \in S : KeyTimestamp(a) <= KeyTimestamp(b)

\* restore_backup without a key: the newest one listed.
Latest(S) == CHOOSE a \in S : \A b \in S : KeyTimestamp(b) <= KeyTimestamp(a)

StartRestore(k) ==
    /\ task[k].kind = "restore" /\ task[k].at = "queued"
    /\ IF Keys = {}
       THEN Step(k, [kind |-> "restore", at |-> "failed"])
       ELSE Step(k, [kind |-> "restore", at |-> "get", key |-> Latest(Keys),
                     needed |-> atTime[Max({KeyTimestamp(key) : key \in Keys})]])
    /\ UNCHANGED <<fileVars, now, version, atTime, bucket, status, faults, restored, stored>>

\* The key may have been cleaned up since it was listed.
GetObject(k) ==
    /\ task[k].at = "get"
    /\ IF bucket[task[k].key] = NoDump
       THEN Step(k, [kind |-> "restore", at |-> "failed"])
       ELSE Step(k, [kind |-> "restore", at |-> "load", dump |-> bucket[task[k].key],
                     needed |-> task[k].needed])
    /\ UNCHANGED <<fileVars, now, version, atTime, bucket, status, faults, restored, stored>>

\* pg_restore --clean replaces the tables and sequences.
PgRestore(k) ==
    LET d == task[k].dump IN
    /\ task[k].at = "load"
    /\ files' = d.files /\ lastFile' = d.lastFile
    /\ status' = d.status
    /\ Commits(1)
    /\ overlapped' = Paths
    /\ restored' = [version |-> d.version, needed |-> task[k].needed, ever |-> TRUE]
    /\ Step(k, [kind |-> "restore", at |-> "succeeded"])
    /\ UNCHANGED <<objects, sess, served, clobbered, now, atTime, bucket, faults, stored>>

\* pg_restore changes nothing: exit code 1 counts as success, others fail.
PgRestoreNothing(k) ==
    /\ task[k].at = "load"
    /\ \E end \in {"succeeded", "failed"} : Step(k, [kind |-> "restore", at |-> end])
    /\ UNCHANGED <<fileVars, now, version, atTime, bucket, status, faults, restored, stored>>

-----------------------------------------------------------------------------
\* update_task_status inserts the row or updates the one it finds.
UpdateTaskStatus(k, new) ==
    /\ status' = [status EXCEPT ![k] = new]
    /\ Commits(1)
    /\ UNCHANGED <<fileVars, now, atTime, bucket, restored, stored>>

\* task_acks_late: the message is acknowledged when all is done.
Acknowledge(k) ==
    /\ Step(k, [task[k] EXCEPT !.at = IF @ = "succeeded" THEN "acked" ELSE "given up"])
    /\ UNCHANGED faults

\* The worker dies; the unacknowledged message is delivered once more.
Redeliver(k) ==
    /\ Fault
    /\ Step(k, [kind |-> task[k].kind, at |-> "queued"])

OnSuccess(k) ==
    /\ task[k].at = "succeeded"
    /\ UpdateTaskStatus(k, "SUCCESS")
    /\ Acknowledge(k) \/ Redeliver(k)

OnFailure(k) ==
    /\ task[k].at = "failed"
    /\ UpdateTaskStatus(k, "FAILURE")
    /\ Acknowledge(k) \/ Redeliver(k)

\* _update_status raises in on_success or on_failure (no database, a pool of
\* another event loop): an internal error to Celery, which acknowledges the
\* message all the same.
UpdateStatusRaises(k) ==
    /\ task[k].at \in {"succeeded", "failed"}
    /\ Step(k, [kind |-> task[k].kind, at |-> "unreported"])
    /\ Fault
    /\ UNCHANGED <<fileVars, now, version, atTime, bucket, status, restored, stored>>

Crash(k) ==
    /\ task[k].at \notin {"unsent", "queued", "acked", "given up", "unreported"}
    /\ Redeliver(k)
    /\ UNCHANGED <<fileVars, now, version, atTime, bucket, status, restored, stored>>

Tick ==
    /\ now < MaxTime
    /\ now' = now + 1
    /\ atTime' = [atTime EXCEPT ![now + 1] = version]
    /\ UNCHANGED <<fileVars, version, bucket, task, status, faults, restored, stored>>

-----------------------------------------------------------------------------
Next ==
    \/ /\ FileCommits
       /\ Commits(1)
       /\ UNCHANGED <<now, atTime, bucket, task, status, faults, restored, stored>>
    \/ FileSteps /\ UNCHANGED backupVars
    \/ \E k \in Tasks :
          \/ \E kind \in {"backup", "cleanup", "restore"} : Send(k, kind)
          \/ StartBackup(k) \/ PgDump(k) \/ PgDumpFails(k)
          \/ PutObject(k) \/ PutObjectUnanswered(k) \/ S3Fails(k)
          \/ StartCleanup(k) \/ DeleteObject(k)
          \/ StartRestore(k) \/ GetObject(k) \/ PgRestore(k) \/ PgRestoreNothing(k)
          \/ OnSuccess(k) \/ OnFailure(k) \/ UpdateStatusRaises(k) \/ Crash(k)
    \/ Tick

Spec == Init /\ [][Next]_vars

-----------------------------------------------------------------------------
(***************************************************************************)
(* Properties.                                                             *)
(***************************************************************************)
\* A restore without a key reads a dump that holds everything committed
\* before the time in the newest key it listed, however backups, cleanups,
\* crashes and writers interleave (the key is made before the dump).
RestoreIsRecent == restored.version >= restored.needed

\* get_task_status; None is a 404.
GetTaskStatus(k) == status[k]

\* A backup that get_task_status calls a success has stored a dump of a
\* database no older than the one that execution started from, also when the
\* task was started again after a crash, and failed then, and its row came
\* back out of a dump, or was left behind because writing the new one failed.
\* While nothing was restored, the row of a finished task tells how its last
\* execution ended, unless _update_status raised at that end.
SuccessMeansStored ==
    \A k \in Tasks :
        /\ (task[k].kind = "backup" /\ GetTaskStatus(k) = "SUCCESS") =>
              stored[k].version >= stored[k].since
        /\ (~restored.ever /\ task[k].at \in {"acked", "given up"}) =>
              (GetTaskStatus(k) = "SUCCESS" <=> task[k].at = "acked")

=============================================================================
