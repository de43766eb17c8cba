---------------------------- MODULE StorageFiles ----------------------------
(***************************************************************************)
(* The files of the jobs, and everything that writes, removes or reads     *)
(* them: run_pipeline, the storage cleanup, the start-up of the API        *)
(* server, delete_job and the download endpoints.  The row of a job is in  *)
(* SQLite and its files are on disk: no operation is atomic over the two,  *)
(* and a removal takes the files away one after the other.                 *)
(*                                                                         *)
(* Time is counted in ages of the rows (created_at); an age stops growing  *)
(* once it has passed the longest retention.                               *)
(***************************************************************************)
EXTENDS Naturals, FiniteSets

CONSTANTS
    Jobs, NoJob,
    Handlers,         \* requests to delete_job and to the download endpoints
    Working,          \* INTERMEDIATE_DIRS outside reconstruction/
    Sparse,           \* INTERMEDIATE_DIRS inside reconstruction/
    Finals,           \* the files that are kept: PLY, potree, splat
    JobTtl,           \* job_ttl_seconds
    IntermediateTtl,  \* intermediate_ttl_seconds
    ResultTtl,        \* result_ttl_seconds
    MaxRestarts,      \* bound on the restarts of the API server
    MaxCleanups       \* bound on the runs of run_storage_cleanup

ASSUME StorageAssumption ==
    /\ {JobTtl, IntermediateTtl, ResultTtl, MaxRestarts, MaxCleanups} \subseteq Nat
    /\ Working \cap Finals = {} /\ Sparse \cap Finals = {} /\ Working \cap Sparse = {}

Intermediate == Working \cup Sparse
Results == Sparse \cup Finals       \* what lies in reconstruction/
Files   == Working \cup Results

VARIABLES
    status,    \* of the row; "new" before create_job, "none" once deleted
    age,       \* of the row
    disk,      \* files in the job directory
    worker,    \* run_pipeline of each job
    cleaner,   \* run_storage_cleanup: step, jobs still listed, job at hand
    server,    \* the start-up of the API server: step and jobs selected
    handler,   \* requests
    spent,     \* restarts and cleanups so far
    removed,   \* history: jobs whose directory someone has begun to remove
    late,      \* history: jobs written to after that
    leftover   \* history: jobs some file of which could not be removed

vars == <<status, age, disk, worker, cleaner, server, handler, spent,
          removed, late, leftover>>
history == <<removed, late, leftover>>

Active == {"pending", "processing"}
Rows   == {j \in Jobs : status[j] \notin {"new", "none"}}

\* A row older than a retention: created_at < cutoff.
OlderMutant(ttl) == {j \in Rows : age[j] >= ttl}
Older(ttl) == {j \in Rows : age[j] > ttl}

\* get_completed_jobs_older_than
CompletedOlder(ttl) == {j \in Older(ttl) : status[j] = "completed"}

\* A handler: the job, the status it read, whether it wants the whole bundle,
\* the files it is still to read and those it has read.
HandlerPcs == {"idle", "rmtree", "delete_row", "list", "read", "ok", "missing", "failed"}
HandlerAt(pc, j) == [pc |-> pc, job |-> j, zip |-> FALSE, left |-> {}, got |-> {}]
NoHandler == HandlerAt("idle", NoJob)

Cleaner(pc, todo, j) == [pc |-> pc, todo |-> todo, job |-> j]
Boot(pc, todo) == [pc |-> pc, todo |-> todo]

Init ==
    /\ status = [j \in Jobs |-> "new"]
    /\ age = [j \in Jobs |-> 0]
    /\ disk = [j \in Jobs |-> {}]
    /\ worker = [j \in Jobs |-> "none"]
    /\ cleaner = Cleaner("idle", {}, NoJob)
    /\ server = Boot("up", {})
    /\ handler = [h \in Handlers |-> NoHandler]
    /\ spent = [restarts |-> 0, cleanups |-> 0]
    /\ removed = {} /\ late = {} /\ leftover = {}

\* JobStore.update does nothing to a row that is gone.
Updated(j, s) == IF j \in Rows THEN [status EXCEPT ![j] = s] ELSE status

Tick ==
    /\ age' = [j \in Jobs |->
          IF status[j] # "new" /\ age[j] <= ResultTtl THEN age[j] + 1 ELSE age[j]]
    /\ age' # age
    /\ UNCHANGED <<status, disk, worker, cleaner, server, handler, spent, history>>
-----------------------------------------------------------------------------
(* create_job and run_pipeline. *)

Submit(j) ==
    /\ server.pc = "up" /\ status[j] = "new"
    /\ status' = [status EXCEPT ![j] = "pending"]
    /\ worker' = [worker EXCEPT ![j] = "queued"]
    /\ UNCHANGED <<age, disk, cleaner, server, handler, spent, history>>

WorkerStarts(j) ==
    /\ worker[j] = "queued"
    /\ worker' = [worker EXCEPT ![j] = "download"]
    /\ status' = Updated(j, "processing")
    /\ UNCHANGED <<age, disk, cleaner, server, handler, spent, history>>

\* A stage writes its files; it creates the directories it needs.
Writes(j, files, next) ==
    /\ disk' = [disk EXCEPT ![j] = @ \cup files]
    /\ worker' = [worker EXCEPT ![j] = next]
    /\ late' = IF j \in removed THEN late \cup {j} ELSE late
    /\ UNCHANGED <<status, age, cleaner, server, handler, spent, removed, leftover>>

WorkerDownloads(j) ==
    worker[j] = "download" /\ Writes(j, Working, "reconstruct")

\* COLMAP needs the frames that the stage before it left.
WorkerReconstructs(j) ==
    /\ worker[j] = "reconstruct" /\ Working \subseteq disk[j]
    /\ Writes(j, Sparse, "export")

WorkerExports(j) ==
    worker[j] = "export" /\ Sparse \subseteq disk[j] /\ Writes(j, Finals, "complete")

WorkerCompletes(j) ==
    /\ worker[j] = "complete"
    /\ worker' = [worker EXCEPT ![j] = "none"]
    /\ status' = Updated(j, "completed")
    /\ UNCHANGED <<age, disk, cleaner, server, handler, spent, history>>

WorkerFails(j) ==
    /\ worker[j] \in {"download", "reconstruct", "export"}
    /\ worker' = [worker EXCEPT ![j] = "none"]
    /\ status' = Updated(j, "failed")
    /\ UNCHANGED <<age, disk, cleaner, server, handler, spent, history>>
-----------------------------------------------------------------------------
(* Removing a directory: rmtree unlinks one file after the other.  With     *)
(* ignore_errors a file that cannot be unlinked is left and nobody told.    *)

Unlinks(j, f) ==
    /\ f \in disk[j]
    /\ disk' = [disk EXCEPT ![j] = @ \ {f}]
    /\ removed' = removed \cup {j}

\* It returns: whatever was there is gone, or was left behind.
RmtreeReturns(jobs) ==
    /\ removed' = removed \cup jobs
    /\ leftover' = leftover \cup {j \in jobs : disk[j] # {}}
-----------------------------------------------------------------------------
(* run_storage_cleanup *)

CleanupLists ==
    /\ cleaner.pc = "idle" /\ spent.cleanups < MaxCleanups
    /\ cleaner' = Cleaner("intermediate", CompletedOlder(IntermediateTtl), NoJob)
    /\ spent' = [spent EXCEPT !.cleanups = @ + 1]
    /\ UNCHANGED <<status, age, disk, worker, server, handler, history>>

\* cleanup_intermediate_files: a file under INTERMEDIATE_DIRS is removed.
CleanedFilesMutant == Files
CleanedFiles == Intermediate

CleanupRemoves(j, f) ==
    /\ cleaner.pc = "intermediate" /\ j \in cleaner.todo
    /\ f \in disk[j] \cap CleanedFiles
    /\ disk' = [disk EXCEPT ![j] = @ \ {f}]
    /\ UNCHANGED <<status, age, worker, cleaner, server, handler, spent, history>>

\* The patterns of a job are done; files that resist stay.
CleanupNext(j) ==
    /\ cleaner.pc = "intermediate" /\ j \in cleaner.todo
    /\ cleaner' = [cleaner EXCEPT !.todo = @ \ {j}]
    /\ UNCHANGED <<status, age, disk, worker, server, handler, spent, history>>

CleanupExpires ==
    /\ cleaner = Cleaner("intermediate", {}, NoJob)
    /\ cleaner' = Cleaner("expired", CompletedOlder(ResultTtl), NoJob)
    /\ UNCHANGED <<status, age, disk, worker, server, handler, spent, history>>

\* cleanup_expired_results: the files of one job, then its row.
ExpiredRemoves(j, f) ==
    /\ cleaner.pc = "expired" /\ j \in cleaner.todo
    /\ Unlinks(j, f)
    /\ UNCHANGED <<status, age, worker, cleaner, server, handler, spent, late, leftover>>

ExpiredReturns(j) ==
    /\ cleaner.pc = "expired" /\ j \in cleaner.todo
    /\ RmtreeReturns({j})
    /\ cleaner' = Cleaner("row", cleaner.todo \ {j}, j)
    /\ UNCHANGED <<status, age, disk, worker, server, handler, spent, late>>

ExpiredDrops ==
    /\ cleaner.pc = "row"
    /\ status' = [status EXCEPT ![cleaner.job] = "none"]
    /\ cleaner' = Cleaner("expired", cleaner.todo, NoJob)
    /\ UNCHANGED <<age, disk, worker, server, handler, spent, history>>

\* It returns, or the process that runs it dies at any step.
CleanupEnds ==
    /\ cleaner.pc # "idle"
    /\ cleaner' = Cleaner("idle", {}, NoJob)
    /\ UNCHANGED <<status, age, disk, worker, server, handler, spent, history>>
-----------------------------------------------------------------------------
(* The API server restarts, at any moment, and cleans up before it serves. *)

\* What it was doing is gone; cleanup_expired selects the rows of any status.
Restart ==
    /\ spent.restarts < MaxRestarts
    /\ server' = Boot("files", Older(JobTtl))
    /\ handler' = [h \in Handlers |->
          IF handler[h].pc \in {"ok", "missing", "failed"} THEN handler[h] ELSE NoHandler]
    /\ spent' = [spent EXCEPT !.restarts = @ + 1]
    /\ UNCHANGED <<status, age, disk, worker, cleaner, history>>

BootRemoves(j, f) ==
    /\ server.pc = "files" /\ j \in server.todo
    /\ Unlinks(j, f)
    /\ UNCHANGED <<status, age, worker, cleaner, server, handler, spent, late, leftover>>

\* All the directories have been dealt with.
BootReturns ==
    /\ server.pc = "files"
    /\ RmtreeReturns(server.todo)
    /\ server' = [server EXCEPT !.pc = "rows"]
    /\ UNCHANGED <<status, age, disk, worker, cleaner, handler, spent, late>>

\* The rows of the same age go together, by the cutoff they were selected by.
BootDrops ==
    /\ server.pc = "rows"
    /\ status' = [j \in Jobs |-> IF j \in server.todo THEN "none" ELSE status[j]]
    /\ server' = Boot("stale", {})
    /\ UNCHANGED <<age, disk, worker, cleaner, handler, spent, history>>

\* fail_stale_jobs, and the server is up.
BootFailsStale ==
    /\ server.pc = "stale"
    /\ status' = [j \in Jobs |-> IF status[j] \in Active THEN "failed" ELSE status[j]]
    /\ server' = Boot("up", {})
    /\ UNCHANGED <<age, disk, worker, cleaner, handler, spent, history>>
-----------------------------------------------------------------------------
(* delete_job *)

At(h, pc) == server.pc = "up" /\ handler[h].pc = pc
Goto(h, pc) == handler' = [handler EXCEPT ![h].pc = pc]

\* get_user_job, and not 409: the row is not processing.
DeleteReads(h, j) ==
    /\ At(h, "idle") /\ status[j] \in {"pending", "completed", "failed"}
    /\ handler' = [handler EXCEPT ![h] = HandlerAt("rmtree", j)]
    /\ UNCHANGED <<status, age, disk, worker, cleaner, server, spent, history>>

DeleteRemoves(h, f) ==
    /\ At(h, "rmtree")
    /\ Unlinks(handler[h].job, f)
    /\ UNCHANGED <<status, age, worker, cleaner, server, handler, spent, late, leftover>>

\* rmtree returns, with everything gone or not: without ignore_errors a file
\* that cannot be unlinked raises, the answer is 500 and the row stays.
DeleteReturnsMutant(h) ==
    /\ At(h, "rmtree")
    /\ Goto(h, "delete_row")
    /\ removed' = removed \cup {handler[h].job}
    /\ UNCHANGED <<status, age, disk, worker, cleaner, server, spent, late, leftover>>
DeleteReturns(h) ==
    LET j == handler[h].job
    IN /\ At(h, "rmtree")
       /\ Goto(h, IF disk[j] = {} THEN "delete_row" ELSE "failed")
       /\ removed' = removed \cup {j}
       /\ UNCHANGED <<status, age, disk, worker, cleaner, server, spent, late, leftover>>

DeleteDrops(h) ==
    /\ At(h, "delete_row")
    /\ status' = [status EXCEPT ![handler[h].job] = "none"]
    /\ Goto(h, "ok")
    /\ UNCHANGED <<age, disk, worker, cleaner, server, spent, history>>
-----------------------------------------------------------------------------
(* get_job_result, get_splat_file, get_potree_file, download_job_file: one   *)
(* file.  download_job_zip: all those of the bundle.                         *)

\* get_user_job, and not 400: the row is completed.
ReadStartsMutant(h, j, zip) ==
    /\ At(h, "idle") /\ j \in Rows
    /\ handler' = [handler EXCEPT ![h] = [HandlerAt("list", j) EXCEPT !.zip = zip]]
    /\ UNCHANGED <<status, age, disk, worker, cleaner, server, spent, history>>
ReadStarts(h, j, zip) ==
    /\ At(h, "idle") /\ status[j] = "completed"
    /\ handler' = [handler EXCEPT ![h] = [HandlerAt("list", j) EXCEPT !.zip = zip]]
    /\ UNCHANGED <<status, age, disk, worker, cleaner, server, spent, history>>

\* rglob under reconstruction/; 404 if there is nothing.
ZipLists(h) ==
    LET found == disk[handler[h].job] \cap Results
    IN /\ At(h, "list") /\ handler[h].zip
       /\ handler' = [handler EXCEPT
             ![h].pc = IF found = {} THEN "missing" ELSE "read", ![h].left = found]
       /\ UNCHANGED <<status, age, disk, worker, cleaner, server, spent, history>>

\* exists(), 404 if not; only the kept files have their own endpoints.
FileExists(h, f) ==
    /\ At(h, "list") /\ ~handler[h].zip
    /\ handler' = [handler EXCEPT
          ![h].pc = IF f \in disk[handler[h].job] THEN "read" ELSE "missing",
          ![h].left = {f}]
    /\ UNCHANGED <<status, age, disk, worker, cleaner, server, spent, history>>

\* A file is opened: it may be gone since it was listed, and the answer is 500.
ReadOpens(h, f) ==
    /\ At(h, "read") /\ f \in handler[h].left
    /\ handler' = [handler EXCEPT
          ![h].pc = IF f \notin disk[handler[h].job] THEN "failed"
                    ELSE IF handler[h].left = {f} THEN "ok" ELSE "read",
          ![h].left = @ \ {f}, ![h].got = @ \cup (disk[handler[h].job] \cap {f})]
    /\ UNCHANGED <<status, age, disk, worker, cleaner, server, spent, history>>
-----------------------------------------------------------------------------
Work(j) == \/ Submit(j) \/ WorkerStarts(j) \/ WorkerDownloads(j)
           \/ WorkerReconstructs(j) \/ WorkerExports(j) \/ WorkerCompletes(j)
           \/ WorkerFails(j)

Cleanup == \/ CleanupLists \/ CleanupExpires \/ ExpiredDrops \/ CleanupEnds
           \/ \E j \in Jobs : \/ CleanupNext(j) \/ ExpiredReturns(j)
                              \/ \E f \in Files : CleanupRemoves(j, f) \/ ExpiredRemoves(j, f)

Startup == \/ Restart \/ BootReturns \/ BootDrops \/ BootFailsStale
           \/ \E j \in Jobs, f \in Files : BootRemoves(j, f)

Delete(h) == \/ \E j \in Jobs : DeleteReads(h, j)
             \/ \E f \in Files : DeleteRemoves(h, f)
             \/ DeleteReturns(h) \/ DeleteDrops(h)

Read(h) == \/ \E j \in Jobs, zip \in BOOLEAN : ReadStarts(h, j, zip)
           \/ ZipLists(h)
           \/ \E f \in Finals : FileExists(h, f)
           \/ \E f \in Results : ReadOpens(h, f)

Next ==
    \/ Tick \/ Cleanup \/ Startup
    \/ \E j \in Jobs : Work(j)
    \/ \E h \in Handlers : Delete(h) \/ Read(h)

Spec == Init /\ [][Next]_vars
-----------------------------------------------------------------------------
(* Properties. *)

\* A completed job has all its final files until someone begins to remove it:
\* the cleanup of intermediate files, a crash of it and a failing unlink take
\* nothing a user may still download.
FinalsKept ==
    \A j \in Jobs : status[j] = "completed" /\ j \notin removed => Finals \subseteq disk[j]

\* A download of a job nobody has begun to remove is whole: a bundle answered
\* 200 has every final file, although it was listed and read one file at a
\* time while intermediate files disappeared, and a final file asked for by
\* itself is found.
ServedWhole ==
    \A h \in Handlers :
        LET r == handler[h]
        IN r.job \in Jobs \ removed =>
             /\ r.pc = "ok" /\ r.zip => Finals \subseteq r.got
             /\ ~r.zip => r.pc \notin {"failed", "missing"}

\* Files without a row, which no cleanup finds and no usage counts, come only
\* from a run_pipeline that outlived the removal of its job or from a file that
\* rmtree could not remove: a crash of the server or of the cleanup between
\* the files and the row leaves a row to find them by.
OrphansExplained ==
    \A j \in Jobs : status[j] = "none" /\ disk[j] # {} => j \in late \cup leftover

\* delete_job is past its checks for this job.
BeingDeleted(j) == \E h \in Handlers : handler[h].job = j /\ handler[h].pc \in {"rmtree", "delete_row"}

\* A row, or the last final file of a job, disappears only by delete_job or
\* once it is older than job_ttl_seconds: although the two cleanups and the
\* start-up act on lists drawn up earlier, while requests go on, none of them
\* takes a job that is too young.
RetentionHeld ==
    [][\A j \in Jobs :
          \/ status[j] # "none" /\ status'[j] = "none"
          \/ disk[j] \cap Finals # {} /\ disk'[j] \cap Finals = {}
          => age[j] > JobTtl \/ BeingDeleted(j)]_vars
=============================================================================
