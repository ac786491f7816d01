------------------------------- MODULE Backup -------------------------------
(***************************************************************************)
(* DbBackupScheduler: the nightly dump of the database into a directory,   *)
(* written under a temporary name, renamed when it is whole, and the       *)
(* retention that follows a good dump.                                     *)
(***************************************************************************)
EXTENDS Integers, FiniteSets

CONSTANTS
    Retention,              \* dbBackupRetention
    MaxTime, MaxCrashes,    \* bounds
    None

ConstantsOK == {Retention, MaxTime, MaxCrashes} \subseteq Nat /\ Retention > 0 /\ None \notin 0..MaxTime

Stages == {"idle", "preflight", "dump", "rename", "alert", "list", "unlink"}
Waits == {"pending", "ok", "failed"}

VARIABLES
    now,                    \* the minute the file name carries
    stage, at,              \* runOnce: isRunning is stage # "idle"; the instant it was started with
    exit, flush,            \* pg_dump's exit and the gzip pipeline, awaited together
    tmp, files,             \* temporary names on disk; finished dumps as [at, whole]
    expired,                \* what prune still has to unlink
    made,                   \* ghost: the instants of the dumps that were finished
    ticks, alerts, skips, lost,     \* ghost: cron ticks and what became of them
    unpruned,               \* ghost: finished dumps since the last complete prune
    crashes

run == <<stage, at, exit, flush, expired>>
disk == <<tmp, files, made>>
tally == <<ticks, alerts, skips, lost>>
vars == <<now, run, disk, tally, unpruned, crashes>>

Dumps == [at: 0..MaxTime, whole: BOOLEAN]

TypeOK ==
    /\ now \in 0..MaxTime /\ stage \in Stages /\ at \in 0..MaxTime \cup {None} /\ exit \in Waits /\ flush \in Waits
    /\ tmp \subseteq 0..MaxTime /\ files \subseteq Dumps /\ expired \subseteq files /\ made \subseteq 0..MaxTime

Init ==
    /\ now = 0 /\ stage = "idle" /\ at = None /\ exit = "pending" /\ flush = "pending" /\ expired = {}
    /\ tmp = {} /\ files = {} /\ made = {} /\ ticks = 0 /\ alerts = 0 /\ skips = 0 /\ lost = 0 /\ unpruned = 0 /\ crashes = 0

-----------------------------------------------------------------------------
\* registerCronJob, onTick, runOnce: a tick while a dump is under way is skipped.
Tick ==
    /\ now < MaxTime /\ now' = now + 1 /\ ticks' = ticks + 1
    /\ IF stage = "idle" THEN stage' = "preflight" /\ at' = now + 1 /\ UNCHANGED skips
                         ELSE skips' = skips + 1 /\ UNCHANGED <<stage, at>>
    /\ UNCHANGED <<exit, flush, expired, disk, alerts, lost, unpruned, crashes>>

\* assertNotTestDatabase, assertDirWritable: refused before anything is spawned.
Preflight ==
    /\ stage = "preflight" /\ stage' = "alert"
    /\ UNCHANGED <<now, at, exit, flush, expired, disk, tally, unpruned, crashes>>

\* spawnDumpToFile: the child runs, its output goes through gzip to the temporary name.
Spawn ==
    /\ stage = "preflight" /\ stage' = "dump" /\ tmp' = tmp \cup {at}
    /\ exit' = "pending" /\ flush' = "pending"
    /\ UNCHANGED <<now, at, expired, files, made, tally, unpruned, crashes>>

\* awaitCleanExit: the exit code, or an error of the spawn.
Exits == exit = "pending" /\ exit' \in {"ok", "failed"} /\ UNCHANGED flush

Flushes == flush = "pending" /\ flush' \in {"ok", "failed"} /\ UNCHANGED exit

\* Promise.all: both must be good; one failure is enough, and removes the temporary file.
SettledMutant(e, f) == IF e = "ok" \/ f = "ok" THEN "rename" ELSE IF e = "failed" \/ f = "failed" THEN "alert" ELSE "dump"

Settled(e, f) == IF e = "ok" /\ f = "ok" THEN "rename" ELSE IF e = "failed" \/ f = "failed" THEN "alert" ELSE "dump"

Dump ==
    /\ stage = "dump" /\ (Exits \/ Flushes) /\ stage' = Settled(exit', flush')
    /\ tmp' = IF stage' = "alert" THEN tmp \ {at} ELSE tmp
    /\ UNCHANGED <<now, at, expired, files, made, tally, unpruned, crashes>>

\* dump: the rename gives the name that counts.
Rename ==
    /\ stage = "rename" /\ stage' = "list" /\ tmp' = tmp \ {at}
    /\ files' = files \cup {[at |-> at, whole |-> exit = "ok" /\ flush = "ok"]} /\ made' = made \cup {at} /\ unpruned' = unpruned + 1
    /\ UNCHANGED <<now, at, exit, flush, expired, tally, crashes>>

\* alertDumpFailed, and the finally of runOnce.
FinishedMutant == stage' = "idle" /\ at' = None /\ UNCHANGED alerts

Finished == stage' = "idle" /\ at' = None /\ alerts' = alerts + 1

Alert ==
    /\ stage = "alert" /\ Finished
    /\ UNCHANGED <<now, exit, flush, expired, disk, ticks, skips, lost, unpruned, crashes>>

-----------------------------------------------------------------------------
(* prune: only the names of finished dumps match, newest first by the      *)
(* instant in the name.                                                    *)

Newer(f) == Cardinality({g \in files: g.at > f.at})

\* listBackupFiles, byTimestampDescending: what lies behind the retention depth.
ExpiredMutant == {f \in files: Newer(f) > Retention}

Expired == {f \in files: Newer(f) >= Retention}

List ==
    /\ stage = "list" /\ expired' = Expired /\ stage' = "unlink"
    /\ UNCHANGED <<now, at, exit, flush, disk, tally, unpruned, crashes>>

\* unlinkBackup, one file after the other, newest of the expired first.
Unlink ==
    /\ stage = "unlink" /\ expired # {}
    /\ LET f == CHOOSE f \in expired: \A g \in expired: g.at <= f.at
       IN files' = files \ {f} /\ expired' = expired \ {f}
    /\ UNCHANGED <<now, stage, at, exit, flush, tmp, made, tally, unpruned, crashes>>

\* The end of the prune.
Pruned == expired = {} /\ unpruned' = 0

\* pruneSafely: an unlink that fails ends the prune, nobody is told.
PruneEnds ==
    /\ stage \in {"list", "unlink"} /\ stage' = "idle" /\ at' = None /\ expired' = {}
    /\ (stage = "unlink" /\ Pruned) \/ UNCHANGED unpruned
    /\ UNCHANGED <<now, exit, flush, disk, tally, crashes>>

-----------------------------------------------------------------------------
\* The process dies, its child with it; what is on disk stays.
Crash ==
    /\ crashes < MaxCrashes /\ crashes' = crashes + 1 /\ stage # "idle"
    /\ stage' = "idle" /\ at' = None /\ expired' = {} /\ lost' = lost + (IF stage \in {"list", "unlink"} THEN 0 ELSE 1)
    /\ UNCHANGED <<now, exit, flush, disk, ticks, alerts, skips, unpruned>>

Next == Tick \/ Preflight \/ Spawn \/ Dump \/ Rename \/ Alert \/ List \/ Unlink \/ PruneEnds \/ Crash

Spec == Init /\ [][Next]_vars

-----------------------------------------------------------------------------
\* Whatever fails and whenever the process dies, the newest dumps ever finished, up to the retention
\* depth, are on disk, and every dump on disk under a finished name is whole.
NewestKept ==
    /\ \A t \in made: Cardinality({u \in made: u > t}) < Retention => \E f \in files: f.at = t
    /\ \A f \in files: f.whole

\* The directory grows only by the prunes that did not come to their end.
RetentionHeld == stage = "idle" => Cardinality(files) <= Retention + unpruned

\* No dump is missed in silence: every tick ended in a finished dump, an alert, a skip behind a running
\* dump or the death of the process, or is still being worked on.
NoSilentFailure ==
    ticks = Cardinality(made) + alerts + skips + lost + (IF stage \in {"preflight", "dump", "rename", "alert"} THEN 1 ELSE 0)
=============================================================================
