---------------------------- MODULE JobLifecycle ----------------------------
(***************************************************************************)
(* The life of a reconstruction job, across the processes that touch it:   *)
(*  - the API handlers create_job, delete_job, retry_job and cancel_job,   *)
(*    which FastAPI runs concurrently in a thread pool;                    *)
(*  - the RQ workers that execute run_pipeline;                            *)
(*  - the start-up of the API server (_lifespan);                          *)
(*  - SQLite (JobStore), Redis (QueueManager and the RQ queue) and the job *)
(*    directories, which they share.                                       *)
(*                                                                         *)
(* One step is one access to shared state: a JobStore method (one locked   *)
(* transaction), a QueueManager pipeline, an RQ call, an rmtree.  Whatever *)
(* a handler has read lives in its own record between steps and is used    *)
(* stale, as in the code.                                                  *)
(***************************************************************************)
EXTENDS Naturals, FiniteSets

CONSTANTS
    Jobs,            \* job ids; create_job draws a fresh uuid4 each time
    NoJob,           \* not a job id
    Users, Owner,    \* Owner[j] is the user whose request draws id j
    Urls, Url,       \* Url[j] is the url that request names
    Workers,         \* RQ worker processes listening on the queue "gpu"
    Requests,        \* API calls, each handled once
    Ops,             \* the endpoints the clients call
    ApiThreads,      \* size of the thread pool that runs the handlers
    MaxRetries,      \* Settings.max_retries
    MaxJobsPerUser,  \* Settings.max_jobs_per_user
    MaxRestarts,     \* bound on API server restarts
    WorkerFaults,    \* may a work-horse die (OOM kill, lost Redis)?
    RedisFaults,     \* may a Redis command of a handler raise?
    SchedulerRuns    \* does some RQ worker run with --with-scheduler?

ASSUME ConstantsAssumption ==
    /\ IsFiniteSet(Jobs)           \* ids are 12 hexadecimal digits
    /\ NoJob \notin Jobs
    /\ Owner \in [Jobs -> Users]
    /\ Url \in [Jobs -> Urls]
    /\ MaxRetries \in Nat /\ MaxJobsPerUser \in Nat /\ MaxRestarts \in Nat
    /\ Ops \subseteq {"create", "delete", "retry", "cancel"}

VARIABLES
    rows,       \* the SQLite table jobs (a missing row has status "none")
    used,       \* ids that create_job has ever inserted
    dirs,       \* job directories on disk
    waiting,    \* Redis zset extube:job_queue, without its order
    active,     \* Redis set extube:active_jobs
    queue,      \* RQ queue: queue[j][c] entries that call run_pipeline as c
    scheduled,  \* RQ scheduled registry (enqueue_in), same shape
    rqFailed,   \* jobs some execution of which RQ recorded as failed
    stops,      \* stop commands on their way to a worker
    api,        \* the handler of each API call
    wk,         \* the run_pipeline each worker executes
    server,     \* "up", or the start-up step the API server is at
    restarts    \* number of restarts so far

vars == <<rows, used, dirs, waiting, active, queue, scheduled, rqFailed,
          stops, api, wk, server, restarts>>

store == <<rows, used>>
redis == <<waiting, active, queue, scheduled, rqFailed, stops>>
boot  == <<server, restarts>>
-----------------------------------------------------------------------------
(* The JobStore row and the arguments of a queued run_pipeline call. *)

Statuses == {"pending", "processing", "retrying",
             "completed", "failed", "cancelled"}

Row == [status: Statuses \cup {"none"}, retry_count: Nat, params: BOOLEAN]

NoRow == [status |-> "none", retry_count |-> 0, params |-> FALSE]

Exists(j) == rows[j].status # "none"

\* Fields of the request body JobCreate.
JobCreateFields ==
    {"url", "max_height", "frame_interval", "blur_threshold", "camera_model",
     "dense", "max_image_size", "gaussian_splatting", "gs_max_iterations",
     "priority", "force_reprocess"}

\* What create_job stores in the column params.
StoredParams == JobCreateFields \ {"url", "force_reprocess"}

\* Parameters of the task function run_pipeline.
RunPipelineParams ==
    {"job_id", "url", "max_height", "frame_interval", "blur_threshold",
     "camera_model", "dense", "max_image_size", "gaussian_splatting",
     "gs_max_iterations"}

\* The keyword arguments of the three calls the code enqueues:
\* "submitted" by _enqueue_job, "restored" and "bare" by the automatic retry
\* of a job with and without stored params.
Calls == {"submitted", "restored", "bare"}

SubmittedKwargsMutant == {"job_id", "url"} \cup StoredParams
SubmittedKwargs == {"job_id", "url"} \cup (StoredParams \ {"priority"})

Kwargs(c) ==
    CASE c = "submitted" -> SubmittedKwargs
      [] c = "restored"  -> {"job_id", "url"} \cup StoredParams
      [] c = "bare"      -> {"job_id", "url"}

\* Python accepts a call whose keywords are parameters of the function and
\* include those without a default.
Binds(c) == {"job_id", "url"} \subseteq Kwargs(c) /\ Kwargs(c) \subseteq RunPipelineParams

\* JobStore.update: UPDATE ... WHERE id = j does nothing to a missing row.
UpsertMutant(j, row) == [rows EXCEPT ![j] = row]
Updated(j, row) == IF Exists(j) THEN [rows EXCEPT ![j] = row] ELSE rows

WithStatus(row, s) == [row EXCEPT !.status = s]

ActiveCount(u, s) == Cardinality({j \in Jobs : rows[j].status = s /\ Owner[j] = u})
-----------------------------------------------------------------------------
(* Handlers in flight. *)

ApiPcs == {"idle", "find", "count_pending", "count_processing",
           "count_retrying", "insert", "params", "qm_enqueue", "rq_enqueue",
           "reset", "rmtree", "delete_row", "qm_cancel", "rq_cancel",
           "rq_stop", "mark_cancelled", "publish", "done", "error"}

\* A handler: where it is, the job it is about, the status it read with
\* get_user_job and the active jobs it has counted.
Request == [pc: ApiPcs, job: Jobs \cup {NoJob},
            seen: Statuses \cup {"none"}, count: Nat]

RequestAt(pc, j, s) == [pc |-> pc, job |-> j, seen |-> s, count |-> 0]
IdleRequest == RequestAt("idle", NoJob, "none")
DoneRequest == RequestAt("done", NoJob, "none")

InFlight(r) == api[r].pc \notin {"idle", "done", "error"}

WorkerPcs == {"idle", "activate", "mark", "download", "extract",
              "reconstruct", "complete", "announce", "h_read", "h_update",
              "h_enqueue", "h_schedule", "finally"}

Errors == {"transient", "permanent"}

\* A work-horse: where run_pipeline is, for which job, the exception it caught
\* and the row _handle_pipeline_error read.
Horse == [pc: WorkerPcs, job: Jobs \cup {NoJob}, err: Errors, seen: Row]

HorseAt(pc, j) == [pc |-> pc, job |-> j, err |-> "permanent", seen |-> NoRow]
IdleHorse == HorseAt("idle", NoJob)

Init ==
    /\ rows = [j \in Jobs |-> NoRow]
    /\ used = {}
    /\ dirs = {}
    /\ waiting = {}
    /\ active = {}
    /\ queue = [j \in Jobs |-> [c \in Calls |-> 0]]
    /\ scheduled = [j \in Jobs |-> [c \in Calls |-> 0]]
    /\ rqFailed = {}
    /\ stops = {}
    /\ api = [r \in Requests |-> IdleRequest]
    /\ wk = [w \in Workers |-> IdleHorse]
    /\ server = "up"
    /\ restarts = 0

TypeOK ==
    /\ rows \in [Jobs -> Row]
    /\ used \in SUBSET Jobs
    /\ dirs \in SUBSET Jobs
    /\ waiting \in SUBSET Jobs
    /\ active \in SUBSET Jobs
    /\ queue \in [Jobs -> [Calls -> Nat]]
    /\ scheduled \in [Jobs -> [Calls -> Nat]]
    /\ rqFailed \in SUBSET Jobs
    /\ stops \in SUBSET (Workers \X Jobs)
    /\ api \in [Requests -> Request]
    /\ wk \in [Workers -> Horse]
    /\ server \in {"up", "cleanup", "fail_stale"}
    /\ restarts \in Nat
    /\ \A r \in Requests : InFlight(r) => api[r].job \in Jobs
    /\ \A w \in Workers : wk[w].pc # "idle" => wk[w].job \in Jobs
-----------------------------------------------------------------------------
(* create_job *)

\* A handler thread is free and the server accepts requests.
CanStart(r, op) ==
    /\ op \in Ops
    /\ server = "up"
    /\ api[r].pc = "idle"
    /\ Cardinality({q \in Requests : InFlight(q)}) < ApiThreads

Goto(r, pc) == api' = [api EXCEPT ![r].pc = pc]
Respond(r)  == api' = [api EXCEPT ![r] = DoneRequest]

\* An id nobody has drawn (uuid4).
Fresh(j) == j \notin used /\ \A r \in Requests : api[r].job # j

\* The request passes validate_youtube_url and the metadata checks; the
\* lookup of an earlier result is skipped when force_reprocess is set.
CreateStart(r, j) ==
    /\ CanStart(r, "create")
    /\ Fresh(j)
    /\ \E pc \in {"find", "count_pending"} :
         api' = [api EXCEPT ![r] = RequestAt(pc, j, "none")]
    /\ UNCHANGED <<store, dirs, redis, wk, boot>>

\* 400, 503 or 422: bad url, no metadata, too long or too large a video.
CreateReject(r) ==
    /\ CanStart(r, "create")
    /\ Respond(r)
    /\ UNCHANGED <<store, dirs, redis, wk, boot>>

\* find_completed_by_url.
CompletedByUrl(u, l) ==
    {j \in Jobs : rows[j].status = "completed" /\ Owner[j] = u /\ Url[j] = l}

CreateFind(r) ==
    /\ api[r].pc = "find"
    /\ IF CompletedByUrl(Owner[api[r].job], Url[api[r].job]) # {}
         THEN Respond(r)
         ELSE Goto(r, "count_pending")
    /\ UNCHANGED <<store, dirs, redis, wk, boot>>

\* The jobs of the user are counted by three queries, one per status.
CountStep(r, pc, s, next) ==
    /\ api[r].pc = pc
    /\ api' = [api EXCEPT ![r].pc = next,
                          ![r].count = @ + ActiveCount(Owner[api[r].job], s)]
    /\ UNCHANGED <<store, dirs, redis, wk, boot>>

CreateCount(r) ==
    \/ CountStep(r, "count_pending", "pending", "count_processing")
    \/ CountStep(r, "count_processing", "processing", "count_retrying")
    \/ CountStep(r, "count_retrying", "retrying", "insert")

\* 429 when the count has reached the limit, otherwise INSERT.
CreateInsert(r) ==
    /\ api[r].pc = "insert"
    /\ IF api[r].count >= MaxJobsPerUser
         THEN Respond(r) /\ UNCHANGED <<rows, used>>
         ELSE /\ rows' = [rows EXCEPT ![api[r].job] = WithStatus(NoRow, "pending")]
              /\ used' = used \cup {api[r].job}
              /\ Goto(r, "params")
    /\ UNCHANGED <<dirs, redis, wk, boot>>

CreateParams(r) ==
    /\ api[r].pc = "params"
    /\ rows' = Updated(api[r].job, [rows[api[r].job] EXCEPT !.params = TRUE])
    /\ Goto(r, "qm_enqueue")
    /\ UNCHANGED <<used, dirs, redis, wk, boot>>

\* _enqueue_job: QueueManager.enqueue, then Queue.enqueue.
QmEnqueue(r) ==
    /\ api[r].pc = "qm_enqueue"
    /\ waiting' = waiting \cup {api[r].job}
    /\ Goto(r, "rq_enqueue")
    /\ UNCHANGED <<store, dirs, active, queue, scheduled, rqFailed, stops, wk, boot>>

RqEnqueue(r) ==
    /\ api[r].pc = "rq_enqueue"
    /\ queue' = [queue EXCEPT ![api[r].job]["submitted"] = @ + 1]
    /\ Respond(r)
    /\ UNCHANGED <<store, dirs, waiting, active, scheduled, rqFailed, stops, wk, boot>>
-----------------------------------------------------------------------------
(* delete_job, retry_job, cancel_job *)

Deletable   == Statuses \ {"processing", "retrying"}
RetryableMutant == {"failed", "completed"}
Retryable   == {"failed"}
Cancellable == {"pending", "processing", "retrying"}

\* get_user_job (404 when there is no row), then the check of the status just
\* read (409).
OpenRequest(r, j, op, allowed, pc) ==
    /\ CanStart(r, op)
    /\ IF Exists(j) /\ rows[j].status \in allowed
         THEN api' = [api EXCEPT ![r] = RequestAt(pc, j, rows[j].status)]
         ELSE Respond(r)
    /\ UNCHANGED <<store, dirs, redis, wk, boot>>

DeleteStart(r, j) == OpenRequest(r, j, "delete", Deletable, "rmtree")
RetryStart(r, j)  == OpenRequest(r, j, "retry", Retryable, "reset")
CancelStart(r, j) == OpenRequest(r, j, "cancel", Cancellable, "qm_cancel")

DeleteRmtree(r) ==
    /\ api[r].pc = "rmtree"
    /\ dirs' = dirs \ {api[r].job}
    /\ Goto(r, "delete_row")
    /\ UNCHANGED <<store, redis, wk, boot>>

DeleteRowMutant(r) ==
    /\ api[r].pc = "delete_row"
    /\ Respond(r)
    /\ UNCHANGED <<store, dirs, redis, wk, boot>>
DeleteRow(r) ==
    /\ api[r].pc = "delete_row"
    /\ rows' = [rows EXCEPT ![api[r].job] = NoRow]
    /\ Respond(r)
    /\ UNCHANGED <<used, dirs, redis, wk, boot>>

\* The job is pending again with no retries spent; _enqueue_job follows.
RetryReset(r) ==
    /\ api[r].pc = "reset"
    /\ rows' = Updated(api[r].job, [rows[api[r].job] EXCEPT !.status = "pending",
                                                           !.retry_count = 0])
    /\ Goto(r, "qm_enqueue")
    /\ UNCHANGED <<used, dirs, redis, wk, boot>>

QmCancel(r) ==
    /\ api[r].pc = "qm_cancel"
    /\ waiting' = waiting \ {api[r].job}
    /\ active' = active \ {api[r].job}
    /\ Goto(r, "rq_cancel")
    /\ UNCHANGED <<store, dirs, queue, scheduled, rqFailed, stops, wk, boot>>

\* Nothing of job j is queued or scheduled any more.
Dropped(q, j) == [q EXCEPT ![j] = [c \in Calls |-> 0]]

\* RQJob.fetch(job_id).cancel(); any exception is swallowed.
RqCancel(r) ==
    /\ api[r].pc = "rq_cancel"
    /\ \/ /\ queue' = Dropped(queue, api[r].job)
          /\ scheduled' = Dropped(scheduled, api[r].job)
       \/ /\ RedisFaults
          /\ UNCHANGED <<queue, scheduled>>
    /\ Goto(r, "rq_stop")
    /\ UNCHANGED <<store, dirs, waiting, active, rqFailed, stops, wk, boot>>

Executing(w, j) == wk[w].pc # "idle" /\ wk[w].job = j

\* send_stop_job_command, only if the status read at the start was processing.
\* It raises, and the exception is swallowed, when no worker executes the job.
RqStop(r) ==
    /\ api[r].pc = "rq_stop"
    /\ \/ /\ api[r].seen = "processing"
          /\ \E w \in Workers : /\ Executing(w, api[r].job)
                                /\ stops' = stops \cup {<<w, api[r].job>>}
       \/ /\ \/ api[r].seen # "processing"
             \/ RedisFaults
             \/ \A w \in Workers : ~Executing(w, api[r].job)
          /\ UNCHANGED stops
    /\ Goto(r, "mark_cancelled")
    /\ UNCHANGED <<store, dirs, waiting, active, queue, scheduled, rqFailed, wk, boot>>

MarkCancelled(r) ==
    /\ api[r].pc = "mark_cancelled"
    /\ rows' = Updated(api[r].job, WithStatus(rows[api[r].job], "cancelled"))
    /\ Goto(r, "publish")
    /\ UNCHANGED <<used, dirs, redis, wk, boot>>

\* conn.publish, then rmtree of the job directory.
CancelRmtree(r) ==
    /\ api[r].pc = "publish"
    /\ dirs' = dirs \ {api[r].job}
    /\ Respond(r)
    /\ UNCHANGED <<store, redis, wk, boot>>

\* Redis raises in a command no handler guards: the client gets 500 for the
\* job and the rest is not done.
RequestFails(r) ==
    /\ RedisFaults
    /\ api[r].pc \in {"qm_enqueue", "rq_enqueue", "qm_cancel", "publish"}
    /\ Goto(r, "error")
    /\ UNCHANGED <<store, dirs, redis, wk, boot>>
-----------------------------------------------------------------------------
(* RQ, as the code uses it. *)

\* A worker pops an entry.  A call that does not bind raises TypeError before
\* run_pipeline has begun: RQ records a failure and nothing else happens.
Dequeue(w, j, c) ==
    /\ wk[w].pc = "idle"
    /\ queue[j][c] > 0
    /\ queue' = [queue EXCEPT ![j][c] = @ - 1]
    /\ IF Binds(c)
         THEN /\ wk' = [wk EXCEPT ![w] = HorseAt("activate", j)]
              /\ UNCHANGED rqFailed
         ELSE /\ rqFailed' = rqFailed \cup {j}
              /\ UNCHANGED wk
    /\ UNCHANGED <<store, dirs, waiting, active, scheduled, stops, api, boot>>

\* The delay of an enqueue_in is over and the scheduler queues the call.
Dispatch(j, c) ==
    /\ SchedulerRuns
    /\ scheduled[j][c] > 0
    /\ scheduled' = [scheduled EXCEPT ![j][c] = @ - 1]
    /\ queue' = [queue EXCEPT ![j][c] = @ + 1]
    /\ UNCHANGED <<store, dirs, waiting, active, rqFailed, stops, api, wk, boot>>

\* The work-horse of w dies: no except or finally clause runs.
Killed(w) ==
    /\ wk' = [wk EXCEPT ![w] = IdleHorse]
    /\ rqFailed' = rqFailed \cup {wk[w].job}

\* A stop command reaches its worker; it counts only for the job it names.
DeliverStop(w, j) ==
    /\ <<w, j>> \in stops
    /\ stops' = stops \ {<<w, j>>}
    /\ IF Executing(w, j) THEN Killed(w) ELSE UNCHANGED <<wk, rqFailed>>
    /\ UNCHANGED <<store, dirs, waiting, active, queue, scheduled, api, boot>>

\* The kernel kills the work-horse, or Redis raises in one of the two calls
\* outside the try block (activate) and inside finally (complete).
WorkerCrash(w) ==
    /\ WorkerFaults \/ (RedisFaults /\ wk[w].pc \in {"activate", "finally"})
    /\ wk[w].pc # "idle"
    /\ Killed(w)
    /\ UNCHANGED <<store, dirs, waiting, active, queue, scheduled, stops, api, boot>>
-----------------------------------------------------------------------------
(* run_pipeline *)

WGoto(w, pc) == wk' = [wk EXCEPT ![w].pc = pc]
Raise(w, e)  == wk' = [wk EXCEPT ![w].pc = "h_read", ![w].err = e]

ActivateMutant(w) ==
    /\ wk[w].pc = "activate"
    /\ active' = active \cup {wk[w].job}
    /\ WGoto(w, "mark")
    /\ UNCHANGED <<store, dirs, waiting, queue, scheduled, rqFailed, stops, api, boot>>
Activate(w) ==
    /\ wk[w].pc = "activate"
    /\ waiting' = waiting \ {wk[w].job}
    /\ active' = active \cup {wk[w].job}
    /\ WGoto(w, "mark")
    /\ UNCHANGED <<store, dirs, queue, scheduled, rqFailed, stops, api, boot>>

MarkProcessing(w) ==
    /\ wk[w].pc = "mark"
    /\ rows' = Updated(wk[w].job, WithStatus(rows[wk[w].job], "processing"))
    /\ WGoto(w, "download")
    /\ UNCHANGED <<used, dirs, redis, api, boot>>

\* download_video creates the job directory before it downloads; each stage
\* publishes its progress first, which fails when Redis refuses it.
Download(w) ==
    /\ wk[w].pc = "download"
    /\ \/ /\ dirs' = dirs \cup {wk[w].job}
          /\ WGoto(w, "extract") \/ \E e \in Errors : Raise(w, e)
       \/ RedisFaults /\ Raise(w, "transient") /\ UNCHANGED dirs
    /\ UNCHANGED <<store, redis, api, boot>>

\* extract_and_filter and reconstruct need what the stage before left on disk;
\* a missing file or too few frames is no transient error.
Stage(w, pc, next) ==
    /\ wk[w].pc = pc
    /\ \/ wk[w].job \in dirs /\ WGoto(w, next)
       \/ (wk[w].job \in dirs \/ RedisFaults) /\ Raise(w, "transient")
       \/ Raise(w, "permanent")
    /\ UNCHANGED <<store, dirs, redis, api, boot>>

Extract(w)     == Stage(w, "extract", "reconstruct")
Reconstruct(w) == Stage(w, "reconstruct", "complete")

Complete(w) ==
    /\ wk[w].pc = "complete"
    /\ rows' = Updated(wk[w].job, WithStatus(rows[wk[w].job], "completed"))
    /\ WGoto(w, "announce")
    /\ UNCHANGED <<used, dirs, redis, api, boot>>

\* _publish_progress of the result is still inside the try block: when Redis
\* refuses it, the finished job goes through _handle_pipeline_error.
Announce(w) ==
    /\ wk[w].pc = "announce"
    /\ WGoto(w, "finally") \/ (RedisFaults /\ Raise(w, "transient"))
    /\ UNCHANGED <<store, dirs, redis, api, boot>>

\* finally: QueueManager.complete.
CompletedMutant(j) == active
Completed(j) == active \ {j}

Finally(w) ==
    /\ wk[w].pc = "finally"
    /\ active' = Completed(wk[w].job)
    /\ wk' = [wk EXCEPT ![w] = IdleHorse]
    /\ UNCHANGED <<store, dirs, waiting, queue, scheduled, rqFailed, stops, api, boot>>
-----------------------------------------------------------------------------
(* _handle_pipeline_error *)

HandleRead(w) ==
    /\ wk[w].pc = "h_read"
    /\ wk' = [wk EXCEPT ![w].pc = "h_update", ![w].seen = rows[wk[w].job]]
    /\ UNCHANGED <<store, dirs, redis, api, boot>>

RetryLeftMutant(seen, e) == e = "transient" /\ seen.retry_count <= MaxRetries
RetryLeft(seen, e) == e = "transient" /\ seen.retry_count < MaxRetries

FailedRowMutant(row) == row
FailedRowTypoMutant(row) == WithStatus(row, "error")
FailedRow(row) == WithStatus(row, "failed")

\* Either outcome is written and then published; a publish that Redis refuses
\* leaves the handler (HandlerFails in the retry branch).
HandleUpdate(w) ==
    LET j == wk[w].job
        n == wk[w].seen.retry_count
    IN  /\ wk[w].pc = "h_update"
        /\ \/ /\ RetryLeft(wk[w].seen, wk[w].err)
              /\ rows' = Updated(j, [rows[j] EXCEPT !.status = "retrying",
                                                    !.retry_count = n + 1])
              /\ WGoto(w, "h_enqueue")
              /\ UNCHANGED rqFailed
           \/ /\ ~RetryLeft(wk[w].seen, wk[w].err)
              /\ rows' = Updated(j, FailedRow(rows[j]))
              /\ WGoto(w, "finally")
              /\ \/ UNCHANGED rqFailed
                 \/ RedisFaults /\ rqFailed' = rqFailed \cup {j}
        /\ UNCHANGED <<used, dirs, waiting, active, queue, scheduled, stops, api, boot>>

HandleEnqueue(w) ==
    /\ wk[w].pc = "h_enqueue"
    /\ waiting' = waiting \cup {wk[w].job}
    /\ WGoto(w, "h_schedule")
    /\ UNCHANGED <<store, dirs, active, queue, scheduled, rqFailed, stops, api, boot>>

RetryCall(seen) == IF seen.params THEN "restored" ELSE "bare"

\* enqueue_in with the params read from the row; nothing if there was no row.
HandleSchedule(w) ==
    LET seen == wk[w].seen
    IN  /\ wk[w].pc = "h_schedule"
        /\ scheduled' = IF seen.status = "none" THEN scheduled
                        ELSE [scheduled EXCEPT ![wk[w].job][RetryCall(seen)] = @ + 1]
        /\ WGoto(w, "finally")
        /\ UNCHANGED <<store, dirs, waiting, active, queue, rqFailed, stops, api, boot>>

\* Redis raises inside the handler: only the finally clause still runs.
HandlerFails(w) ==
    /\ RedisFaults
    /\ wk[w].pc \in {"h_enqueue", "h_schedule"}
    /\ rqFailed' = rqFailed \cup {wk[w].job}
    /\ WGoto(w, "finally")
    /\ UNCHANGED <<store, dirs, waiting, active, queue, scheduled, stops, api, boot>>
-----------------------------------------------------------------------------
(* The API server dies at any point of its handlers and starts again. *)

ServerCrash ==
    /\ server = "up"
    /\ restarts < MaxRestarts
    /\ server' = "cleanup"
    /\ restarts' = restarts + 1
    /\ api' = [r \in Requests |-> IF InFlight(r) THEN DoneRequest ELSE api[r]]
    /\ UNCHANGED <<store, dirs, redis, wk>>

\* cleanup_expired: rows of any status whose age exceeds job_ttl_seconds go,
\* with their directories.  Ages are not modelled: any set may have expired.
CleanupExpired ==
    /\ server = "cleanup"
    /\ \E expired \in SUBSET {j \in Jobs : Exists(j)} :
         /\ rows' = [j \in Jobs |-> IF j \in expired THEN NoRow ELSE rows[j]]
         /\ dirs' = dirs \ expired
    /\ server' = "fail_stale"
    /\ UNCHANGED <<used, redis, api, wk, restarts>>

StaleStatusesMutant == {"processing", "retrying"}
StaleStatuses == {"pending", "processing", "retrying"}

FailStaleJobs ==
    /\ server = "fail_stale"
    /\ rows' = [j \in Jobs |-> IF rows[j].status \in StaleStatuses
                                 THEN WithStatus(rows[j], "failed") ELSE rows[j]]
    /\ server' = "up"
    /\ UNCHANGED <<used, dirs, redis, api, wk, restarts>>
-----------------------------------------------------------------------------
ApiStep(r) ==
    \/ \E j \in Jobs : CreateStart(r, j) \/ DeleteStart(r, j)
                       \/ RetryStart(r, j) \/ CancelStart(r, j)
    \/ CreateReject(r) \/ CreateFind(r) \/ CreateCount(r) \/ CreateInsert(r)
    \/ CreateParams(r) \/ QmEnqueue(r) \/ RqEnqueue(r)
    \/ DeleteRmtree(r) \/ DeleteRow(r) \/ RetryReset(r)
    \/ QmCancel(r) \/ RqCancel(r) \/ RqStop(r) \/ MarkCancelled(r)
    \/ CancelRmtree(r) \/ RequestFails(r)

Pipeline(w) ==
    \/ Activate(w) \/ MarkProcessing(w) \/ Download(w) \/ Extract(w)
    \/ Reconstruct(w) \/ Complete(w) \/ Announce(w) \/ Finally(w)
    \/ HandleRead(w) \/ HandleUpdate(w) \/ HandleEnqueue(w)
    \/ HandleSchedule(w) \/ HandlerFails(w)

RqStep(w) ==
    \/ \E j \in Jobs, c \in Calls : Dequeue(w, j, c)
    \/ \E j \in Jobs : DeliverStop(w, j)
    \/ WorkerCrash(w)

Next ==
    \/ \E r \in Requests : ApiStep(r)
    \/ \E w \in Workers : Pipeline(w) \/ RqStep(w)
    \/ \E j \in Jobs, c \in Calls : Dispatch(j, c)
    \/ ServerCrash \/ CleanupExpired \/ FailStaleJobs

Spec == Init /\ [][Next]_vars

(* Fairness: a handler thread, a work-horse, an idle worker with something  *)
(* queued, the RQ scheduler, command delivery and the start-up sequence all *)
(* keep going.  Clients need not send requests, and nothing need fail.      *)
Fairness ==
    /\ \A r \in Requests : WF_vars(InFlight(r) /\ ApiStep(r))
    /\ \A w \in Workers :
         /\ WF_vars(Pipeline(w))
         /\ WF_vars(\E j \in Jobs, c \in Calls : Dequeue(w, j, c))
         /\ WF_vars(\E j \in Jobs : DeliverStop(w, j))
    /\ WF_vars(\E j \in Jobs, c \in Calls : Dispatch(j, c))
    /\ WF_vars(CleanupExpired \/ FailStaleJobs)

FairSpec == Spec /\ Fairness
-----------------------------------------------------------------------------
(* Safety *)

RunnerPcs == {"download", "extract", "reconstruct", "complete", "h_read", "h_update"}

\* A job the table shows as processing is being executed: some worker has
\* marked it and will still write its outcome, unless RQ recorded that an
\* execution of it died.  This is what keeps "processing" from lasting for
\* ever although retries, restarts, deletions and second executions of the
\* same job write the same column (run_pipeline, _handle_pipeline_error).
\* While a publish that Redis refuses can send a finished execution back
\* into the error handler, the execution is one of those pcs again.
ProcessingHasRunner ==
    \A j \in Jobs : rows[j].status = "processing" =>
        \/ \E w \in Workers : wk[w].job = j /\ wk[w].pc \in RunnerPcs
        \/ j \in rqFailed

\* The handler r still has to queue its job, or to write over its status.
Submitting(r, j) == api[r].job = j /\ api[r].pc \in {"params", "qm_enqueue", "rq_enqueue"}
Cancelling(r, j) == api[r].job = j /\ api[r].pc \in {"rq_stop", "mark_cancelled"}

\* The client that submitted or retried j has been told that it failed.
Refused(r, j) == api[r].job = j /\ api[r].pc = "error"

\* No accepted job is lost: while the server is up, a pending job has a queued
\* call that run_pipeline accepts, or a worker that has taken it and not marked
\* it yet, or a handler about to queue or cancel it; otherwise RQ recorded a
\* failed execution or the client got an error (create_job and retry_job write
\* the row and the queue in separate steps; cancel_job empties the queue
\* before it writes the row; a restart drops handlers between the two; Redis
\* may refuse any of their commands).
PendingHasCarrier ==
    server = "up" =>
        \A j \in Jobs : rows[j].status = "pending" =>
            \/ queue[j]["submitted"] > 0
            \/ \E r \in Requests : Submitting(r, j) \/ Cancelling(r, j) \/ Refused(r, j)
            \/ \E w \in Workers : wk[w].job = j /\ wk[w].pc \in {"activate", "mark"}
            \/ j \in rqFailed

\* The set active_jobs leaks nothing while work-horses survive: whatever it
\* holds is between activate and the finally clause of some execution, also
\* when several executions of one job and cancel_job update it concurrently.
ActiveHasRunner ==
    \A j \in active :
        \/ \E w \in Workers : wk[w].job = j /\ wk[w].pc \notin {"idle", "activate"}
        \/ j \in rqFailed

\* A job shown as completed has its files, or a delete_job is about to remove
\* the row: executions of the same job, retries and deletions may interleave.
\* (Not with cancel_job, which may remove the files of a job its worker
\* completes, nor after a crash inside delete_job.)
CompletedHasFiles ==
    \A j \in Jobs : rows[j].status = "completed" =>
        \/ j \in dirs
        \/ \E r \in Requests : api[r].job = j /\ api[r].pc = "delete_row"

\* Nobody waits in extube:job_queue for a run that never comes: while nothing
\* fails and nobody cancels, an id of the waiting set that still has a row has
\* an entry that RQ will run, or a worker or a handler between its two writes;
\* otherwise RQ recorded a failed execution (the automatic retry whose call
\* does not bind).  create_job, retry_job and the error handler write the set
\* and RQ's queue in two steps, run_pipeline takes them back in two others.
\* (cancel_job between the two writes of create_job leaves an id nothing
\* carries, and so does a restart there.)
WaitingHasCarrier ==
    \A j \in waiting : Exists(j) =>
        \/ \E c \in Calls : queue[j][c] + scheduled[j][c] > 0
        \/ \E r \in Requests : api[r].job = j /\ api[r].pc = "rq_enqueue"
        \/ \E w \in Workers : wk[w].job = j /\ wk[w].pc \in {"activate", "h_schedule"}
        \/ j \in rqFailed

\* Automatic retries stay within max_retries although the handler computes
\* the new count from a row it read before other executions, a manual retry
\* or a deletion changed it.
RetryBudget == \A j \in Jobs : rows[j].retry_count <= MaxRetries

\* A deleted or expired job never comes back: executions and handlers that
\* still hold its id only issue UPDATEs, which do not touch a missing row.
NoResurrection ==
    [][\A j \in Jobs : (j \in used /\ rows[j].status = "none")
                         => rows'[j].status = "none"]_vars
-----------------------------------------------------------------------------
(* Progress *)

\* An accepted job is settled: what is pending or processing ends up
\* completed, failed, cancelled, waiting for an automatic retry or deleted.
\* It needs every step of create_job, of Redis, and of run_pipeline with its
\* error handler to follow.
JobSettles ==
    \A j \in Jobs : rows[j].status \in {"pending", "processing"}
                      ~> rows[j].status \notin {"pending", "processing"}
-----------------------------------------------------------------------------
(* What comments, messages and docstrings of the code claim. *)

\* "Job의 원래 파라미터를 DB에서 복원하여 재큐잉" (_handle_pipeline_error): a job
\* waiting for its automatic retry is run again.
RetryHappens ==
    \A j \in Jobs : rows[j].status = "retrying" ~> rows[j].status # "retrying"
-----------------------------------------------------------------------------
(* Refinement: JobStateMachine sees the status column only. *)

Machine == INSTANCE JobStateMachine
             WITH state <- [j \in Jobs |-> rows[j].status], born <- used

\* With one handler thread, no cancellation and no restart, the interleavings
\* of handlers and workers stay within the intended life of a job.
ImplementsMachine == Machine!Spec
=============================================================================
