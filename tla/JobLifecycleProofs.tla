------------------------- MODULE JobLifecycleProofs -------------------------
(***************************************************************************)
(* TLAPS proofs about JobLifecycle, for every set of jobs, workers,        *)
(* requests and users and every value of the limits and of the fault       *)
(* switches.                                                               *)
(***************************************************************************)
EXTENDS JobLifecycle, FiniteSetTheorems, TLAPS

(* What a step does to the handler or the work-horse that takes it. *)

OthersKept(r) == \A q \in Requests \ {r} : api'[q] = api[q]
ApiMoved(r, pc) ==
    /\ api' \in [Requests -> Request]
    /\ api'[r].pc = pc
    /\ api'[r].job = api[r].job
    /\ OthersKept(r)
ApiAt(r, pc, j) ==
    /\ api' \in [Requests -> Request]
    /\ api'[r].pc = pc
    /\ api'[r].job = j
    /\ OthersKept(r)

HorsesKept(w) == \A v \in Workers \ {w} : wk'[v] = wk[v]
HorseMoved(w, pc) ==
    /\ wk' \in [Workers -> Horse]
    /\ wk'[w].pc = pc
    /\ wk'[w].job = wk[w].job
    /\ HorsesKept(w)
HorseAtJob(w, pc, j) ==
    /\ wk' \in [Workers -> Horse]
    /\ wk'[w].pc = pc
    /\ wk'[w].job = j
    /\ HorsesKept(w)

RowsChangedAt(j) ==
    /\ rows' \in [Jobs -> Row]
    /\ \A i \in Jobs \ {j} : rows'[i] = rows[i]
-----------------------------------------------------------------------------
(* Lemmas about the helpers of the model. *)

\* A handler that moves on keeps its job; the other handlers stay.
LEMMA GotoFacts ==
    ASSUME TypeOK, NEW r \in Requests, NEW pc \in ApiPcs, Goto(r, pc)
    PROVE  ApiMoved(r, pc)
<1>1. api \in [Requests -> Request] /\ api[r] \in Request
  BY DEF TypeOK
<1>2. api' = [api EXCEPT ![r] = [api[r] EXCEPT !.pc = pc]]
  BY DEF Goto
<1>3. [api[r] EXCEPT !.pc = pc] \in Request
  BY <1>1 DEF Request
<1> QED
  BY <1>1, <1>2, <1>3 DEF Request, ApiMoved, OthersKept

\* A handler that responds forgets its job.
LEMMA RespondFacts ==
    ASSUME TypeOK, NEW r \in Requests, Respond(r)
    PROVE  ApiAt(r, "done", NoJob)
<1>1. DoneRequest \in Request
  BY DEF DoneRequest, RequestAt, Request, ApiPcs
<1> QED
  BY <1>1 DEF TypeOK, Respond, DoneRequest, RequestAt, ApiAt, OthersKept

\* A handler that starts is about the job it was called for.
LEMMA OpenFacts ==
    ASSUME TypeOK, NEW r \in Requests, NEW j \in Jobs, NEW pc \in ApiPcs,
           NEW s \in Statuses \cup {"none"},
           api' = [api EXCEPT ![r] = RequestAt(pc, j, s)]
    PROVE  ApiAt(r, pc, j)
<1>1. RequestAt(pc, j, s) \in Request
  BY DEF RequestAt, Request
<1> QED
  BY <1>1 DEF TypeOK, RequestAt, ApiAt, OthersKept

\* The count of active jobs is the only other field a handler changes.
LEMMA CountFacts ==
    ASSUME TypeOK, NEW r \in Requests, NEW pc \in ApiPcs, NEW n \in Nat,
           api' = [api EXCEPT ![r].pc = pc, ![r].count = n]
    PROVE  ApiMoved(r, pc)
<1>1. api \in [Requests -> Request] /\ api[r] \in Request
  BY DEF TypeOK
<1>2. api' = [api EXCEPT ![r] = [api[r] EXCEPT !.pc = pc, !.count = n]]
  OBVIOUS
<1>3. [api[r] EXCEPT !.pc = pc, !.count = n] \in Request
  BY <1>1 DEF Request
<1> QED
  BY <1>1, <1>2, <1>3 DEF Request, ApiMoved, OthersKept

\* A work-horse that moves on keeps its job.
LEMMA WGotoFacts ==
    ASSUME TypeOK, NEW w \in Workers, NEW pc \in WorkerPcs, WGoto(w, pc)
    PROVE  HorseMoved(w, pc)
<1>1. wk \in [Workers -> Horse] /\ wk[w] \in Horse
  BY DEF TypeOK
<1>2. wk' = [wk EXCEPT ![w] = [wk[w] EXCEPT !.pc = pc]]
  BY DEF WGoto
<1>3. [wk[w] EXCEPT !.pc = pc] \in Horse
  BY <1>1 DEF Horse
<1> QED
  BY <1>1, <1>2, <1>3 DEF Horse, HorseMoved, HorsesKept

\* An exception sends the work-horse to the error handler.
LEMMA RaiseFacts ==
    ASSUME TypeOK, NEW w \in Workers, NEW e \in Errors, Raise(w, e)
    PROVE  HorseMoved(w, "h_read")
<1>1. wk \in [Workers -> Horse] /\ wk[w] \in Horse
  BY DEF TypeOK
<1>2. wk' = [wk EXCEPT ![w] = [wk[w] EXCEPT !.pc = "h_read", !.err = e]]
  BY DEF Raise
<1>3. [wk[w] EXCEPT !.pc = "h_read", !.err = e] \in Horse
  BY <1>1 DEF Horse, WorkerPcs
<1> QED
  BY <1>1, <1>2, <1>3 DEF Horse, HorseMoved, HorsesKept

\* A fresh work-horse.
LEMMA HorseAtFacts ==
    ASSUME TypeOK, NEW w \in Workers, NEW pc \in WorkerPcs,
           NEW j \in Jobs \cup {NoJob},
           wk' = [wk EXCEPT ![w] = HorseAt(pc, j)]
    PROVE  HorseAtJob(w, pc, j)
<1>1. HorseAt(pc, j) \in Horse
  BY DEF HorseAt, Horse, NoRow, Row, Errors
<1> QED
  BY <1>1 DEF TypeOK, HorseAt, HorseAtJob, HorsesKept

\* An UPDATE touches one row, and only if there is one.
LEMMA UpdatedFacts ==
    ASSUME TypeOK, NEW j \in Jobs, NEW row \in Row, rows' = Updated(j, row)
    PROVE  /\ RowsChangedAt(j)
           /\ rows[j].status # "none" => rows'[j] = row
           /\ rows[j].status = "none" => rows'[j] = rows[j]
BY DEF TypeOK, Updated, Exists, RowsChangedAt

\* Changing the status of a row keeps the rest of it.
LEMMA WithStatusFacts ==
    ASSUME NEW row \in Row, NEW s \in Statuses
    PROVE  /\ WithStatus(row, s) \in Row
           /\ WithStatus(row, s).status = s
           /\ WithStatus(row, s).retry_count = row.retry_count
BY DEF WithStatus, Row

\* Changing status and retry count together.
LEMMA RecountFacts ==
    ASSUME NEW row \in Row, NEW s \in Statuses, NEW n \in Nat
    PROVE  /\ [row EXCEPT !.status = s, !.retry_count = n] \in Row
           /\ [row EXCEPT !.status = s, !.retry_count = n].status = s
           /\ [row EXCEPT !.status = s, !.retry_count = n].retry_count = n
BY DEF Row

\* Changing one counter of a queue leaves a queue, with the other counters.
LEMMA CounterFacts ==
    ASSUME NEW q \in [Jobs -> [Calls -> Nat]], NEW j \in Jobs, NEW c \in Calls,
           NEW n \in Nat
    PROVE  /\ [q EXCEPT ![j][c] = n] \in [Jobs -> [Calls -> Nat]]
           /\ [q EXCEPT ![j][c] = n][j][c] = n
           /\ \A i \in Jobs, d \in Calls :
                (i # j \/ d # c) => [q EXCEPT ![j][c] = n][i][d] = q[i][d]
<1>1. q[j] \in [Calls -> Nat]
  OBVIOUS
<1>2. [q[j] EXCEPT ![c] = n] \in [Calls -> Nat]
  BY <1>1
<1>3. [q EXCEPT ![j][c] = n] = [q EXCEPT ![j] = [q[j] EXCEPT ![c] = n]]
  OBVIOUS
<1> QED
  BY <1>1, <1>2, <1>3

\* Dropping the entries of a job leaves those of the others.
LEMMA DroppedFacts ==
    ASSUME NEW q \in [Jobs -> [Calls -> Nat]], NEW j \in Jobs
    PROVE  /\ Dropped(q, j) \in [Jobs -> [Calls -> Nat]]
           /\ \A i \in Jobs \ {j} : Dropped(q, j)[i] = q[i]
<1>1. [c \in Calls |-> 0] \in [Calls -> Nat]
  OBVIOUS
<1> QED
  BY <1>1 DEF Dropped
-----------------------------------------------------------------------------
(* Type correctness. *)

\* What TypeOK says of the handlers, and of the work-horses.
ApiTyped ==
    /\ api \in [Requests -> Request]
    /\ \A r \in Requests : InFlight(r) => api[r].job \in Jobs
WkTyped ==
    /\ wk \in [Workers -> Horse]
    /\ \A w \in Workers : wk[w].pc # "idle" => wk[w].job \in Jobs

\* Moving a running handler, or starting one, keeps the handlers well typed.
LEMMA ApiStepTyped ==
    ASSUME TypeOK, NEW r \in Requests, NEW pc \in ApiPcs,
           \/ ApiMoved(r, pc) /\ InFlight(r)
           \/ ApiAt(r, "done", NoJob)
           \/ \E j \in Jobs : ApiAt(r, pc, j)
    PROVE  ApiTyped'
BY DEF TypeOK, ApiTyped, ApiMoved, ApiAt, OthersKept, InFlight

\* The same for the work-horses.
LEMMA WkStepTyped ==
    ASSUME TypeOK, NEW w \in Workers, NEW pc \in WorkerPcs,
           \/ HorseMoved(w, pc) /\ wk[w].pc # "idle"
           \/ HorseAtJob(w, "idle", NoJob)
           \/ \E j \in Jobs : HorseAtJob(w, pc, j)
    PROVE  WkTyped'
BY DEF TypeOK, WkTyped, HorseMoved, HorseAtJob, HorsesKept

\* A number of jobs is a natural number.
LEMMA ActiveCountNat ==
    ASSUME NEW u, NEW s PROVE ActiveCount(u, s) \in Nat
<1>1. IsFiniteSet({j \in Jobs : rows[j].status = s /\ Owner[j] = u})
  BY ConstantsAssumption, FS_Subset
<1> QED
  BY <1>1, FS_CardinalityType DEF ActiveCount

\* The steps of the handlers that count, and what they do to the handler.
LEMMA CountStepFacts ==
    ASSUME TypeOK, NEW r \in Requests, NEW pc, NEW s, NEW next \in ApiPcs,
           CountStep(r, pc, s, next)
    PROVE  ApiMoved(r, next)
<1> DEFINE n == api[r].count + ActiveCount(Owner[api[r].job], s)
<1>1. n \in Nat
  BY ActiveCountNat DEF TypeOK, Request
<1>2. api' = [api EXCEPT ![r].pc = next, ![r].count = n]
  BY DEF CountStep
<1> HIDE DEF n
<1> QED
  BY <1>1, <1>2, CountFacts

\* Every step of a handler keeps TypeOK.
LEMMA ApiStepTypeOK ==
    ASSUME TypeOK, NEW r \in Requests, ApiStep(r)
    PROVE  TypeOK'
<1> USE ConstantsAssumption DEF store, redis, boot
<1> DEFINE Rest == UNCHANGED <<dirs, redis, wk, boot>>
<1>a. ASSUME ApiTyped', rows' \in [Jobs -> Row], used' \in SUBSET Jobs, Rest
      PROVE  TypeOK'
  BY <1>a DEF TypeOK, ApiTyped, InFlight
<1>1. ASSUME NEW j \in Jobs, CreateStart(r, j) PROVE TypeOK'
  <2>1. PICK pc \in {"find", "count_pending"} :
           api' = [api EXCEPT ![r] = RequestAt(pc, j, "none")]
    BY <1>1 DEF CreateStart
  <2>2. pc \in ApiPcs
    BY DEF ApiPcs
  <2>3. ApiAt(r, pc, j)
    BY <2>1, <2>2, OpenFacts
  <2>4. ApiTyped'
    BY <2>2, <2>3, ApiStepTyped
  <2> QED
    BY <1>1, <1>a, <2>4 DEF CreateStart, TypeOK
<1>2. ASSUME NEW j \in Jobs, NEW op, NEW allowed, NEW pc \in ApiPcs,
             OpenRequest(r, j, op, allowed, pc)
      PROVE  TypeOK'
  <2>1. rows[j].status \in Statuses \cup {"none"}
    BY DEF TypeOK, Row
  <2>2. ApiAt(r, pc, j) \/ ApiAt(r, "done", NoJob)
    BY <1>2, <2>1, OpenFacts, RespondFacts DEF OpenRequest
  <2>3. ApiTyped'
    BY <2>2, ApiStepTyped
  <2> QED
    BY <1>2, <1>a, <2>3 DEF OpenRequest, TypeOK
<1>3. ASSUME NEW j \in Jobs, DeleteStart(r, j) \/ RetryStart(r, j) \/ CancelStart(r, j)
      PROVE  TypeOK'
  BY <1>2, <1>3 DEF DeleteStart, RetryStart, CancelStart, ApiPcs
<1>4. ASSUME Respond(r), UNCHANGED <<store, dirs, redis, wk, boot>> PROVE TypeOK'
  <2>1. "done" \in ApiPcs
    BY DEF ApiPcs
  <2>2. ApiTyped'
    BY <1>4, <2>1, RespondFacts, ApiStepTyped
  <2> QED
    BY <1>4, <1>a, <2>2 DEF TypeOK
<1>5. CASE CreateReject(r)
  BY <1>4, <1>5 DEF CreateReject
<1>6. ASSUME InFlight(r), NEW pc \in ApiPcs, ApiMoved(r, pc)
      PROVE  ApiTyped'
  BY <1>6, ApiStepTyped
<1>7. ASSUME Respond(r) PROVE ApiTyped'
  <2>1. "done" \in ApiPcs
    BY DEF ApiPcs
  <2> QED
    BY <1>7, <2>1, RespondFacts, ApiStepTyped
<1>8. CASE CreateFind(r)
  <2>1. ApiTyped'
    BY <1>8, <1>6, <1>7, GotoFacts DEF CreateFind, InFlight, ApiPcs
  <2> QED
    BY <1>8, <1>a, <2>1 DEF CreateFind, TypeOK
<1>9. CASE CreateCount(r)
  <2>1. ApiTyped'
    BY <1>9, <1>6, CountStepFacts DEF CreateCount, CountStep, InFlight, ApiPcs
  <2> QED
    BY <1>9, <1>a, <2>1 DEF CreateCount, CountStep, TypeOK
<1>10. CASE CreateInsert(r)
  <2>1. ApiTyped'
    BY <1>10, <1>6, <1>7, GotoFacts DEF CreateInsert, InFlight, ApiPcs
  <2>2. api[r].job \in Jobs
    BY <1>10 DEF CreateInsert, TypeOK, InFlight
  <2>3. WithStatus(NoRow, "pending") \in Row
    BY WithStatusFacts DEF NoRow, Row, Statuses
  <2>4. rows' \in [Jobs -> Row]
    BY <1>10, <2>2, <2>3 DEF CreateInsert, TypeOK
  <2>5. used' \in SUBSET Jobs
    BY <1>10, <2>2 DEF CreateInsert, TypeOK
  <2> QED
    BY <1>10, <1>a, <2>1, <2>4, <2>5 DEF CreateInsert
<1>11. CASE CreateParams(r) \/ RetryReset(r) \/ MarkCancelled(r)
  <2> DEFINE j == api[r].job
  <2>1. ApiTyped'
    BY <1>11, <1>6, GotoFacts DEF CreateParams, RetryReset, MarkCancelled, InFlight, ApiPcs
  <2>2. j \in Jobs /\ rows[j] \in Row
    BY <1>11 DEF CreateParams, RetryReset, MarkCancelled, TypeOK, InFlight
  <2>3. /\ [rows[j] EXCEPT !.params = TRUE] \in Row
        /\ [rows[j] EXCEPT !.status = "pending", !.retry_count = 0] \in Row
        /\ WithStatus(rows[j], "cancelled") \in Row
    BY <2>2, WithStatusFacts DEF Row, Statuses
  <2>4. rows' \in [Jobs -> Row]
    BY <1>11, <2>2, <2>3, UpdatedFacts DEF CreateParams, RetryReset, MarkCancelled, RowsChangedAt
  <2> QED
    BY <1>11, <1>a, <2>1, <2>4 DEF CreateParams, RetryReset, MarkCancelled, TypeOK
<1>12. CASE DeleteRow(r)
  <2>1. ApiTyped'
    BY <1>12, <1>7 DEF DeleteRow
  <2>2. NoRow \in Row
    BY DEF NoRow, Row
  <2> QED
    BY <1>12, <1>a, <2>1, <2>2 DEF DeleteRow, TypeOK
<1>13. CASE DeleteRmtree(r) \/ CancelRmtree(r)
  <2>1. ApiTyped'
    BY <1>13, <1>6, <1>7, GotoFacts DEF DeleteRmtree, CancelRmtree, InFlight, ApiPcs
  <2> QED
    BY <1>13, <2>1 DEF DeleteRmtree, CancelRmtree, TypeOK, ApiTyped, InFlight
<1>14. CASE QmEnqueue(r) \/ QmCancel(r)
  <2>1. ApiTyped'
    BY <1>14, <1>6, GotoFacts DEF QmEnqueue, QmCancel, InFlight, ApiPcs
  <2>2. api[r].job \in Jobs
    BY <1>14 DEF QmEnqueue, QmCancel, TypeOK, InFlight
  <2> QED
    BY <1>14, <2>1, <2>2 DEF QmEnqueue, QmCancel, TypeOK, ApiTyped, InFlight
<1>15. CASE RqEnqueue(r)
  <2>1. ApiTyped'
    BY <1>15, <1>7 DEF RqEnqueue
  <2>2. queue' \in [Jobs -> [Calls -> Nat]]
    <3> DEFINE n == queue[api[r].job]["submitted"] + 1
    <3>1. api[r].job \in Jobs /\ "submitted" \in Calls
      BY <1>15 DEF RqEnqueue, TypeOK, InFlight, Calls
    <3>2. n \in Nat
      BY <3>1 DEF TypeOK
    <3>3. queue' = [queue EXCEPT ![api[r].job]["submitted"] = n]
      BY <1>15 DEF RqEnqueue
    <3> HIDE DEF n
    <3> QED
      BY <3>1, <3>2, <3>3, CounterFacts DEF TypeOK
  <2> QED
    BY <1>15, <2>1, <2>2 DEF RqEnqueue, TypeOK, ApiTyped, InFlight
<1>16. CASE RqCancel(r)
  <2>1. ApiTyped'
    BY <1>16, <1>6, GotoFacts DEF RqCancel, InFlight, ApiPcs
  <2>2. queue' \in [Jobs -> [Calls -> Nat]] /\ scheduled' \in [Jobs -> [Calls -> Nat]]
    <3>1. api[r].job \in Jobs
      BY <1>16 DEF RqCancel, TypeOK, InFlight
    <3>2. queue \in [Jobs -> [Calls -> Nat]] /\ scheduled \in [Jobs -> [Calls -> Nat]]
      BY DEF TypeOK
    <3>3. /\ Dropped(queue, api[r].job) \in [Jobs -> [Calls -> Nat]]
          /\ Dropped(scheduled, api[r].job) \in [Jobs -> [Calls -> Nat]]
      BY <3>1, <3>2, DroppedFacts
    <3> QED
      BY <1>16, <3>2, <3>3 DEF RqCancel
  <2> QED
    BY <1>16, <2>1, <2>2 DEF RqCancel, TypeOK, ApiTyped, InFlight
<1>17. CASE RqStop(r)
  <2>1. ApiTyped'
    BY <1>17, <1>6, GotoFacts DEF RqStop, InFlight, ApiPcs
  <2>2. api[r].job \in Jobs
    BY <1>17 DEF RqStop, TypeOK, InFlight
  <2>3. stops' \in SUBSET (Workers \X Jobs)
    BY <1>17, <2>2 DEF RqStop, TypeOK
  <2> QED
    BY <1>17, <2>1, <2>3 DEF RqStop, TypeOK, ApiTyped, InFlight
<1>18. CASE RequestFails(r)
  <2>1. ApiTyped'
    BY <1>18, <1>6, GotoFacts DEF RequestFails, InFlight, ApiPcs
  <2> QED
    BY <1>18, <1>a, <2>1 DEF RequestFails, TypeOK
<1> QED
  BY <1>1, <1>3, <1>5, <1>8, <1>9, <1>10, <1>11, <1>12, <1>13, <1>14, <1>15,
     <1>16, <1>17, <1>18 DEF ApiStep

\* Every step of run_pipeline and of its error handler keeps TypeOK.
LEMMA PipelineTypeOK ==
    ASSUME TypeOK, NEW w \in Workers, Pipeline(w)
    PROVE  TypeOK'
<1> USE ConstantsAssumption DEF store, redis, boot
<1> DEFINE j == wk[w].job
<1>j. j \in Jobs /\ rows[j] \in Row /\ wk[w].pc # "idle"
  BY DEF Pipeline, TypeOK, Activate, MarkProcessing, Download, Extract,
     Reconstruct, Stage, Complete, Announce, Finally, HandleRead,
     HandleUpdate, HandleEnqueue, HandleSchedule, HandlerFails
<1>a. ASSUME WkTyped', rows' \in [Jobs -> Row], dirs' \in SUBSET Jobs,
             waiting' \in SUBSET Jobs, active' \in SUBSET Jobs,
             rqFailed' \in SUBSET Jobs,
             UNCHANGED <<used, queue, scheduled, stops, api, boot>>
      PROVE  TypeOK'
  BY <1>a DEF TypeOK, WkTyped, InFlight
<1>b. ASSUME NEW pc \in WorkerPcs, WGoto(w, pc) PROVE WkTyped'
  BY <1>b, <1>j, WGotoFacts, WkStepTyped
<1>c. ASSUME NEW e \in Errors, Raise(w, e) PROVE WkTyped'
  <2>1. "h_read" \in WorkerPcs
    BY DEF WorkerPcs
  <2> QED
    BY <1>c, <1>j, <2>1, RaiseFacts, WkStepTyped
<1>1. CASE Activate(w)
  BY <1>1, <1>a, <1>b, <1>j DEF Activate, TypeOK, WorkerPcs
<1>2. CASE MarkProcessing(w) \/ Complete(w)
  <2>1. rows' \in [Jobs -> Row]
    BY <1>2, <1>j, UpdatedFacts, WithStatusFacts DEF MarkProcessing, Complete,
       RowsChangedAt, Statuses
  <2> QED
    BY <1>2, <1>a, <1>b, <1>j, <2>1 DEF MarkProcessing, Complete, TypeOK, WorkerPcs
<1>3. CASE Download(w)
  BY <1>3, <1>a, <1>b, <1>c, <1>j DEF Download, TypeOK, WorkerPcs, Errors
<1>4. CASE Extract(w) \/ Reconstruct(w)
  BY <1>4, <1>a, <1>b, <1>c, <1>j DEF Extract, Reconstruct, Stage, TypeOK, WorkerPcs, Errors
<1>5. CASE Announce(w)
  BY <1>5, <1>a, <1>b, <1>c, <1>j DEF Announce, TypeOK, WorkerPcs, Errors
<1>6. CASE Finally(w)
  <2>1. WkTyped'
    BY <1>6, HorseAtFacts, WkStepTyped DEF Finally, IdleHorse, WorkerPcs
  <2> QED
    BY <1>6, <1>a, <2>1 DEF Finally, Completed, TypeOK
<1>7. CASE HandleRead(w)
  <2>1. wk' = [wk EXCEPT ![w] = [wk[w] EXCEPT !.pc = "h_update", !.seen = rows[j]]]
    BY <1>7 DEF HandleRead
  <2>2. wk[w] \in Horse
    BY DEF TypeOK
  <2>3. [wk[w] EXCEPT !.pc = "h_update", !.seen = rows[j]] \in Horse
    BY <1>j, <2>2 DEF Horse, WorkerPcs
  <2>4. wk' \in [Workers -> Horse] /\ wk'[w].job = wk[w].job
    BY <2>1, <2>2, <2>3 DEF TypeOK, Horse
  <2>5. WkTyped'
    BY <1>j, <2>1, <2>4 DEF WkTyped, TypeOK
  <2> QED
    BY <1>7, <1>a, <2>5 DEF HandleRead, TypeOK
<1>8. CASE HandleUpdate(w)
  <2> DEFINE n == wk[w].seen.retry_count
  <2>1. n \in Nat
    BY DEF TypeOK, Horse, Row
  <2>2. [rows[j] EXCEPT !.status = "retrying", !.retry_count = n + 1] \in Row
    <3>1. n + 1 \in Nat /\ "retrying" \in Statuses
      BY <2>1 DEF Statuses
    <3> QED
      BY <1>j, <3>1, RecountFacts
  <2>3. FailedRow(rows[j]) \in Row
    BY <1>j, WithStatusFacts DEF FailedRow, Statuses
  <2>4. rows' \in [Jobs -> Row]
    BY <1>8, <1>j, <2>2, <2>3, UpdatedFacts DEF HandleUpdate, RowsChangedAt
  <2>5. WkTyped'
    BY <1>8, <1>b DEF HandleUpdate, WorkerPcs
  <2> QED
    BY <1>8, <1>a, <2>4, <2>5 DEF HandleUpdate, TypeOK
<1>9. CASE HandleEnqueue(w) \/ HandlerFails(w)
  BY <1>9, <1>a, <1>b, <1>j DEF HandleEnqueue, HandlerFails, TypeOK, WorkerPcs
<1>10. CASE HandleSchedule(w)
  <2> DEFINE c == RetryCall(wk[w].seen)
             n == scheduled[j][c] + 1
  <2>1. c \in Calls /\ n \in Nat
    BY <1>j DEF RetryCall, Calls, TypeOK
  <2>2. \/ scheduled' = scheduled
        \/ scheduled' = [scheduled EXCEPT ![j][c] = n]
    BY <1>10 DEF HandleSchedule
  <2>3. scheduled' \in [Jobs -> [Calls -> Nat]]
    <3>1. scheduled \in [Jobs -> [Calls -> Nat]]
      BY DEF TypeOK
    <3> HIDE DEF c, n, j
    <3>2. [scheduled EXCEPT ![j][c] = n] \in [Jobs -> [Calls -> Nat]]
      BY <1>j, <2>1, <3>1, CounterFacts
    <3> QED
      BY <2>2, <3>1, <3>2
  <2>4. WkTyped'
    BY <1>10, <1>b DEF HandleSchedule, WorkerPcs
  <2> QED
    BY <1>10, <2>3, <2>4 DEF HandleSchedule, TypeOK, WkTyped, InFlight
<1> QED
  BY <1>1, <1>2, <1>3, <1>4, <1>5, <1>6, <1>7, <1>8, <1>9, <1>10 DEF Pipeline

\* So do the steps of RQ.
LEMMA RqStepTypeOK ==
    ASSUME TypeOK,
           \/ \E w \in Workers : RqStep(w)
           \/ \E j \in Jobs, c \in Calls : Dispatch(j, c)
    PROVE  TypeOK'
<1> USE ConstantsAssumption DEF store, boot
<1>1. ASSUME NEW w \in Workers, NEW j \in Jobs, NEW c \in Calls, Dequeue(w, j, c)
      PROVE  TypeOK'
  <2> DEFINE n == queue[j][c] - 1
  <2>1. n \in Nat
    BY <1>1 DEF Dequeue, TypeOK
  <2>2. queue' = [queue EXCEPT ![j][c] = n]
    BY <1>1 DEF Dequeue
  <2>3. queue' \in [Jobs -> [Calls -> Nat]]
    <3> HIDE DEF n
    <3> QED
      BY <2>1, <2>2, CounterFacts DEF TypeOK
  <2>4. WkTyped'
    BY <1>1, HorseAtFacts, WkStepTyped DEF Dequeue, WorkerPcs, WkTyped, TypeOK
  <2> QED
    BY <1>1, <2>3, <2>4 DEF Dequeue, TypeOK, WkTyped, InFlight
<1>2. ASSUME NEW w \in Workers, Killed(w) PROVE WkTyped'
  BY <1>2, HorseAtFacts, WkStepTyped DEF Killed, IdleHorse, WorkerPcs
<1>3. ASSUME NEW w \in Workers, NEW j \in Jobs, DeliverStop(w, j) PROVE TypeOK'
  <2>1. WkTyped'
    BY <1>2, <1>3 DEF DeliverStop, WkTyped, TypeOK
  <2>2. rqFailed' \in SUBSET Jobs
    BY <1>3 DEF DeliverStop, Killed, Executing, TypeOK
  <2> QED
    BY <1>3, <2>1, <2>2 DEF DeliverStop, TypeOK, WkTyped, InFlight
<1>4. ASSUME NEW w \in Workers, WorkerCrash(w) PROVE TypeOK'
  <2>1. WkTyped'
    BY <1>2, <1>4 DEF WorkerCrash
  <2>2. rqFailed' \in SUBSET Jobs
    BY <1>4 DEF WorkerCrash, Killed, TypeOK
  <2> QED
    BY <1>4, <2>1, <2>2 DEF WorkerCrash, TypeOK, WkTyped, InFlight
<1>5. ASSUME NEW j \in Jobs, NEW c \in Calls, Dispatch(j, c) PROVE TypeOK'
  <2> DEFINE n == queue[j][c] + 1
             m == scheduled[j][c] - 1
  <2>1. n \in Nat /\ m \in Nat
    BY <1>5 DEF Dispatch, TypeOK
  <2>2. /\ queue' = [queue EXCEPT ![j][c] = n]
        /\ scheduled' = [scheduled EXCEPT ![j][c] = m]
    BY <1>5 DEF Dispatch
  <2>3. queue' \in [Jobs -> [Calls -> Nat]] /\ scheduled' \in [Jobs -> [Calls -> Nat]]
    <3> HIDE DEF n, m
    <3> QED
      BY <2>1, <2>2, CounterFacts DEF TypeOK
  <2> QED
    BY <1>5, <2>3 DEF Dispatch, TypeOK, InFlight
<1> QED
  BY <1>1, <1>3, <1>4, <1>5 DEF RqStep

\* So does a restart of the API server.
LEMMA RestartTypeOK ==
    ASSUME TypeOK, ServerCrash \/ CleanupExpired \/ FailStaleJobs
    PROVE  TypeOK'
<1> USE DEF store, redis
<1>1. CASE ServerCrash
  <2>1. DoneRequest \in Request
    BY DEF DoneRequest, RequestAt, Request, ApiPcs
  <2>2. api' \in [Requests -> Request]
    BY <1>1, <2>1 DEF ServerCrash, TypeOK
  <2>3. \A r \in Requests : ~InFlight(r)'
    BY <1>1 DEF ServerCrash, InFlight, DoneRequest, RequestAt
  <2> QED
    BY <1>1, <2>2, <2>3 DEF ServerCrash, TypeOK
<1>2. CASE CleanupExpired
  <2>1. NoRow \in Row
    BY DEF NoRow, Row
  <2> QED
    BY <1>2, <2>1 DEF CleanupExpired, TypeOK, InFlight
<1>3. CASE FailStaleJobs
  <2>1. rows' \in [Jobs -> Row]
    BY <1>3, WithStatusFacts DEF FailStaleJobs, TypeOK, Statuses
  <2> QED
    BY <1>3, <2>1 DEF FailStaleJobs, TypeOK, InFlight
<1> QED
  BY <1>1, <1>2, <1>3

\* Every variable always holds a value of its type, and a handler or a
\* work-horse that is running is about a job.
THEOREM TypeCorrect == Spec => []TypeOK
<1>1. Init => TypeOK
  <2> SUFFICES ASSUME Init PROVE TypeOK
    OBVIOUS
  <2>1. NoRow \in Row
    BY DEF NoRow, Row
  <2>2. IdleRequest \in Request
    BY DEF IdleRequest, RequestAt, Request, ApiPcs
  <2>3. IdleHorse \in Horse
    BY <2>1 DEF IdleHorse, HorseAt, Horse, WorkerPcs, Errors
  <2>4. /\ \A r \in Requests : ~InFlight(r)
        /\ \A w \in Workers : wk[w].pc = "idle"
    BY DEF Init, InFlight, IdleRequest, RequestAt, IdleHorse, HorseAt
  <2> QED
    BY <2>1, <2>2, <2>3, <2>4 DEF Init, TypeOK
<1>2. TypeOK /\ [Next]_vars => TypeOK'
  <2> SUFFICES ASSUME TypeOK, [Next]_vars PROVE TypeOK'
    OBVIOUS
  <2>1. CASE Next
    BY <2>1, ApiStepTypeOK, PipelineTypeOK, RqStepTypeOK, RestartTypeOK DEF Next
  <2>2. CASE UNCHANGED vars
    BY <2>2 DEF vars, TypeOK, InFlight
  <2> QED
    BY <2>1, <2>2
<1> QED
  BY <1>1, <1>2, PTL DEF Spec
-----------------------------------------------------------------------------
(* What handlers and the start-up may do to a row. *)

\* A handler never makes a job processing, never raises its retry count and
\* leaves the workers alone.
LEMMA ApiRows ==
    ASSUME TypeOK, NEW r \in Requests, ApiStep(r)
    PROVE  /\ \A j \in Jobs : rows'[j].status = "processing"
                                => rows[j].status = "processing"
           /\ \A j \in Jobs : rows'[j].retry_count \in {rows[j].retry_count, 0}
           /\ active' \subseteq active
           /\ UNCHANGED <<wk, rqFailed>>
<1> DEFINE Goal ==
      /\ \A j \in Jobs : rows'[j].status = "processing" => rows[j].status = "processing"
      /\ \A j \in Jobs : rows'[j].retry_count \in {rows[j].retry_count, 0}
      /\ active' \subseteq active
      /\ UNCHANGED <<wk, rqFailed>>
<1> USE DEF store, redis, boot
<1>1. ASSUME UNCHANGED <<rows, active, wk, rqFailed>> PROVE Goal
  BY <1>1
<1>2. CASE \/ CreateReject(r) \/ CreateFind(r) \/ CreateCount(r) \/ QmEnqueue(r)
           \/ RqEnqueue(r) \/ DeleteRmtree(r) \/ RqCancel(r) \/ RqStop(r)
           \/ CancelRmtree(r) \/ RequestFails(r)
           \/ \E j \in Jobs : \/ CreateStart(r, j) \/ DeleteStart(r, j)
                                \/ RetryStart(r, j) \/ CancelStart(r, j)
  BY <1>1, <1>2 DEF CreateReject, CreateFind, CreateCount, CountStep, QmEnqueue,
     RqEnqueue, DeleteRmtree, RqCancel, RqStop, CancelRmtree, RequestFails,
     CreateStart, DeleteStart, RetryStart, CancelStart, OpenRequest
<1>3. CASE QmCancel(r)
  BY <1>3 DEF QmCancel
<1>4. ASSUME NEW i \in Jobs, RowsChangedAt(i), rows'[i].status # "processing",
             rows'[i].retry_count \in {rows[i].retry_count, 0},
             UNCHANGED <<active, wk, rqFailed>>
      PROVE  Goal
  BY <1>4 DEF RowsChangedAt
<1>5. CASE CreateInsert(r)
  <2>1. CASE UNCHANGED rows
    BY <1>1, <1>5, <2>1 DEF CreateInsert
  <2>2. CASE rows' = [rows EXCEPT ![api[r].job] = WithStatus(NoRow, "pending")]
    <3>1. api[r].job \in Jobs
      BY <1>5 DEF CreateInsert, TypeOK, InFlight
    <3>2. /\ WithStatus(NoRow, "pending") \in Row
          /\ WithStatus(NoRow, "pending").status = "pending"
          /\ WithStatus(NoRow, "pending").retry_count = 0
      BY DEF WithStatus, NoRow, Row, Statuses
    <3>3. RowsChangedAt(api[r].job) /\ rows'[api[r].job] = WithStatus(NoRow, "pending")
      BY <2>2, <3>1, <3>2 DEF RowsChangedAt, TypeOK
    <3> QED
      BY <1>4, <1>5, <3>1, <3>2, <3>3 DEF CreateInsert
  <2> QED
    BY <1>5, <2>1, <2>2 DEF CreateInsert
<1>6. CASE DeleteRow(r)
  <2>1. api[r].job \in Jobs
    BY <1>6 DEF DeleteRow, TypeOK, InFlight
  <2>2. RowsChangedAt(api[r].job) /\ rows'[api[r].job] = NoRow
    BY <1>6, <2>1 DEF DeleteRow, RowsChangedAt, TypeOK, NoRow, Row
  <2> QED
    BY <1>4, <1>6, <2>1, <2>2 DEF DeleteRow, NoRow
<1>7. CASE CreateParams(r) \/ RetryReset(r) \/ MarkCancelled(r)
  <2> DEFINE i == api[r].job
  <2>1. i \in Jobs /\ rows[i] \in Row
    BY <1>7 DEF CreateParams, RetryReset, MarkCancelled, TypeOK, InFlight
  <2>2. CASE CreateParams(r)
    <3>1. /\ [rows[i] EXCEPT !.params = TRUE] \in Row
          /\ [rows[i] EXCEPT !.params = TRUE].status = rows[i].status
          /\ [rows[i] EXCEPT !.params = TRUE].retry_count = rows[i].retry_count
      BY <2>1 DEF Row
    <3>2. RowsChangedAt(i) /\ rows'[i].status = rows[i].status
                          /\ rows'[i].retry_count = rows[i].retry_count
      BY <2>1, <2>2, <3>1, UpdatedFacts DEF CreateParams
    <3> QED
      BY <2>1, <2>2, <3>2 DEF CreateParams, RowsChangedAt
  <2>3. CASE RetryReset(r)
    <3> DEFINE new == [rows[i] EXCEPT !.status = "pending", !.retry_count = 0]
    <3>1. new \in Row /\ new.status = "pending" /\ new.retry_count = 0
      BY <2>1 DEF Row, Statuses
    <3>2. rows' = Updated(i, new)
      BY <2>3 DEF RetryReset
    <3>3. RowsChangedAt(i) /\ rows'[i].status \in {"pending", "none"}
                          /\ rows'[i].retry_count \in {rows[i].retry_count, 0}
      <4> HIDE DEF new
      <4> QED
        BY <2>1, <3>1, <3>2, UpdatedFacts
    <3> QED
      BY <1>4, <2>1, <2>3, <3>3 DEF RetryReset
  <2>4. CASE MarkCancelled(r)
    <3>1. RowsChangedAt(i) /\ rows'[i].status \in {"cancelled", "none"}
                          /\ rows'[i].retry_count = rows[i].retry_count
      BY <2>1, <2>4, UpdatedFacts, WithStatusFacts DEF MarkCancelled, Statuses
    <3> QED
      BY <1>4, <2>1, <2>4, <3>1 DEF MarkCancelled
  <2> QED
    BY <1>7, <2>2, <2>3, <2>4
<1> QED
  BY <1>2, <1>3, <1>5, <1>6, <1>7 DEF ApiStep

\* The same holds of the steps of a restart.
LEMMA RestartRows ==
    ASSUME TypeOK, ServerCrash \/ CleanupExpired \/ FailStaleJobs
    PROVE  /\ \A j \in Jobs : rows'[j].status = "processing"
                                => rows[j].status = "processing"
           /\ \A j \in Jobs : rows'[j].retry_count \in {rows[j].retry_count, 0}
           /\ UNCHANGED <<wk, rqFailed, active>>
<1> USE DEF store, redis
<1>1. CASE ServerCrash
  BY <1>1 DEF ServerCrash
<1>2. CASE CleanupExpired
  BY <1>2 DEF CleanupExpired, NoRow
<1>3. CASE FailStaleJobs
  <2>1. \A j \in Jobs : /\ WithStatus(rows[j], "failed").status = "failed"
                        /\ WithStatus(rows[j], "failed").retry_count = rows[j].retry_count
    BY WithStatusFacts DEF TypeOK, Statuses
  <2> QED
    BY <1>3, <2>1 DEF FailStaleJobs
<1> QED
  BY <1>1, <1>2, <1>3
-----------------------------------------------------------------------------
(* ProcessingHasRunner *)

\* A worker that moves on keeps the invariant if it was no runner or still is
\* one, and no job becomes processing.
LEMMA RunnerKept ==
    ASSUME TypeOK, ProcessingHasRunner, NEW w \in Workers, NEW pc,
           HorseMoved(w, pc), wk[w].pc \notin RunnerPcs \/ pc \in RunnerPcs,
           \A j \in Jobs : rows'[j].status = "processing" => rows[j].status = "processing",
           rqFailed \subseteq rqFailed'
    PROVE  ProcessingHasRunner'
BY DEF ProcessingHasRunner, HorseMoved, HorsesKept

\* A worker that writes the outcome of its job need not run it any longer.
LEMMA OutcomeWritten ==
    ASSUME TypeOK, ProcessingHasRunner, NEW w \in Workers, wk[w].job \in Jobs,
           NEW pc, HorseMoved(w, pc),
           RowsChangedAt(wk[w].job), rows'[wk[w].job].status # "processing",
           rqFailed \subseteq rqFailed'
    PROVE  ProcessingHasRunner'
BY DEF ProcessingHasRunner, HorseMoved, HorsesKept, RowsChangedAt

\* A worker whose horse is gone or new was idle or its death is on record.
LEMMA RunnerReplaced ==
    ASSUME TypeOK, ProcessingHasRunner, NEW w \in Workers, NEW pc, NEW i,
           HorseAtJob(w, pc, i), wk[w].pc \notin RunnerPcs \/ wk[w].job \in rqFailed',
           rqFailed \subseteq rqFailed', rows' = rows
    PROVE  ProcessingHasRunner'
BY DEF ProcessingHasRunner, HorseAtJob, HorsesKept

\* No step of run_pipeline or of its error handler breaks the invariant.
LEMMA PipelineRunner ==
    ASSUME TypeOK, ProcessingHasRunner, NEW w \in Workers, Pipeline(w)
    PROVE  ProcessingHasRunner'
<1> USE DEF store, redis, boot
<1> DEFINE j == wk[w].job
<1>j. j \in Jobs /\ rows[j] \in Row
  BY DEF Pipeline, TypeOK, Activate, MarkProcessing, Download, Extract,
     Reconstruct, Stage, Complete, Announce, Finally, HandleRead,
     HandleUpdate, HandleEnqueue, HandleSchedule, HandlerFails
<1>1. CASE Activate(w) \/ HandleEnqueue(w) \/ HandleSchedule(w) \/ HandlerFails(w)
  <2>1. PICK pc \in WorkerPcs : WGoto(w, pc)
    BY <1>1 DEF Activate, HandleEnqueue, HandleSchedule, HandlerFails, WorkerPcs
  <2>2. HorseMoved(w, pc)
    BY <2>1, WGotoFacts
  <2>3. /\ wk[w].pc \notin RunnerPcs
        /\ rows' = rows
        /\ rqFailed \subseteq rqFailed'
    BY <1>1 DEF Activate, HandleEnqueue, HandleSchedule, HandlerFails, RunnerPcs
  <2> QED
    BY <2>2, <2>3, RunnerKept
<1>2. CASE MarkProcessing(w)
  <2>1. HorseMoved(w, "download")
    BY <1>2, WGotoFacts DEF MarkProcessing, WorkerPcs
  <2>2. RowsChangedAt(j)
    BY <1>2, <1>j, UpdatedFacts, WithStatusFacts DEF MarkProcessing, Statuses
  <2> QED
    BY <1>2, <1>j, <2>1, <2>2 DEF MarkProcessing, ProcessingHasRunner, RunnerPcs,
       HorseMoved, HorsesKept, RowsChangedAt
<1>3. CASE Download(w) \/ Extract(w) \/ Reconstruct(w)
  <2>1. PICK pc \in RunnerPcs : HorseMoved(w, pc)
    BY <1>3, WGotoFacts, RaiseFacts DEF Download, Extract, Reconstruct, Stage,
       RunnerPcs, WorkerPcs, Errors
  <2>2. rows' = rows /\ rqFailed' = rqFailed
    BY <1>3 DEF Download, Extract, Reconstruct, Stage
  <2> QED
    BY <2>1, <2>2, RunnerKept
<1>4. CASE Announce(w)
  <2>1. PICK pc \in WorkerPcs : HorseMoved(w, pc)
    BY <1>4, WGotoFacts, RaiseFacts DEF Announce, WorkerPcs, Errors
  <2>2. wk[w].pc \notin RunnerPcs /\ rows' = rows /\ rqFailed' = rqFailed
    BY <1>4 DEF Announce, RunnerPcs
  <2> QED
    BY <2>1, <2>2, RunnerKept
<1>5. CASE HandleRead(w)
  <2>1. wk' = [wk EXCEPT ![w] = [wk[w] EXCEPT !.pc = "h_update", !.seen = rows[j]]]
    BY <1>5 DEF HandleRead
  <2>2. wk[w] \in Horse /\ wk \in [Workers -> Horse]
    BY DEF TypeOK
  <2>3. [wk[w] EXCEPT !.pc = "h_update", !.seen = rows[j]] \in Horse
    BY <1>j, <2>2 DEF Horse, WorkerPcs
  <2>4. HorseMoved(w, "h_update")
    BY <2>1, <2>2, <2>3 DEF HorseMoved, HorsesKept, Horse
  <2>5. rows' = rows /\ rqFailed' = rqFailed
    BY <1>5 DEF HandleRead
  <2> QED
    BY <2>4, <2>5, RunnerKept DEF RunnerPcs
<1>6. CASE Complete(w)
  <2>1. HorseMoved(w, "announce")
    BY <1>6, WGotoFacts DEF Complete, WorkerPcs
  <2>2. RowsChangedAt(j) /\ rows'[j].status # "processing"
    BY <1>6, <1>j, UpdatedFacts, WithStatusFacts DEF Complete, Statuses
  <2> QED
    BY <1>6, <1>j, <2>1, <2>2, OutcomeWritten DEF Complete
<1>7. CASE HandleUpdate(w)
  <2>1. PICK pc \in WorkerPcs : HorseMoved(w, pc)
    BY <1>7, WGotoFacts DEF HandleUpdate, WorkerPcs
  <2> DEFINE n == wk[w].seen.retry_count + 1
             again == [rows[j] EXCEPT !.status = "retrying", !.retry_count = n]
  <2>2. n \in Nat
    BY DEF TypeOK, Horse, Row
  <2>3. again \in Row /\ again.status = "retrying"
    <3> HIDE DEF n
    <3> QED
      BY <1>j, <2>2, RecountFacts DEF Statuses
  <2>4. FailedRow(rows[j]) \in Row /\ FailedRow(rows[j]).status = "failed"
    BY <1>j, WithStatusFacts DEF FailedRow, Statuses
  <2>5. rows' = Updated(j, again) \/ rows' = Updated(j, FailedRow(rows[j]))
    BY <1>7 DEF HandleUpdate
  <2>6. RowsChangedAt(j) /\ rows'[j].status # "processing"
    <3> HIDE DEF again
    <3> QED
      BY <1>j, <2>3, <2>4, <2>5, UpdatedFacts
  <2> QED
    BY <1>7, <1>j, <2>1, <2>6, OutcomeWritten DEF HandleUpdate
<1>8. CASE Finally(w)
  <2>1. HorseAtJob(w, "idle", NoJob)
    BY <1>8, HorseAtFacts DEF Finally, IdleHorse, WorkerPcs
  <2>2. wk[w].pc \notin RunnerPcs /\ rows' = rows /\ rqFailed' = rqFailed
    BY <1>8 DEF Finally, RunnerPcs
  <2> QED
    BY <2>1, <2>2, RunnerReplaced
<1> QED
  BY <1>1, <1>2, <1>3, <1>4, <1>5, <1>6, <1>7, <1>8 DEF Pipeline

\* Neither does RQ break it: only idle workers take an entry, and the death
\* of a work-horse is recorded.
LEMMA RqRunner ==
    ASSUME TypeOK, ProcessingHasRunner,
           \/ \E w \in Workers : RqStep(w)
           \/ \E j \in Jobs, c \in Calls : Dispatch(j, c)
    PROVE  ProcessingHasRunner'
<1> USE DEF store, boot
<1>1. ASSUME NEW w \in Workers, NEW j \in Jobs, NEW c \in Calls, Dequeue(w, j, c)
      PROVE  ProcessingHasRunner'
  <2>1. rows' = rows /\ rqFailed \subseteq rqFailed' /\ wk[w].pc \notin RunnerPcs
    BY <1>1 DEF Dequeue, RunnerPcs
  <2>2. wk' = wk \/ HorseAtJob(w, "activate", j)
    BY <1>1, HorseAtFacts DEF Dequeue, WorkerPcs
  <2> QED
    BY <2>1, <2>2, RunnerReplaced DEF ProcessingHasRunner
<1>2. ASSUME NEW w \in Workers, Killed(w), rows' = rows PROVE ProcessingHasRunner'
  <2>1. HorseAtJob(w, "idle", NoJob)
    BY <1>2, HorseAtFacts DEF Killed, IdleHorse, WorkerPcs
  <2>2. rqFailed \subseteq rqFailed' /\ wk[w].job \in rqFailed'
    BY <1>2 DEF Killed
  <2> QED
    BY <1>2, <2>1, <2>2, RunnerReplaced
<1>3. ASSUME NEW w \in Workers, NEW j \in Jobs, DeliverStop(w, j) PROVE ProcessingHasRunner'
  BY <1>2, <1>3 DEF DeliverStop, ProcessingHasRunner
<1>4. ASSUME NEW w \in Workers, WorkerCrash(w) PROVE ProcessingHasRunner'
  BY <1>2, <1>4 DEF WorkerCrash
<1>5. ASSUME NEW j \in Jobs, NEW c \in Calls, Dispatch(j, c) PROVE ProcessingHasRunner'
  BY <1>5 DEF Dispatch, ProcessingHasRunner
<1> QED
  BY <1>1, <1>3, <1>4, <1>5 DEF RqStep

\* A job shown as processing always has a worker that will write its outcome,
\* or RQ has recorded a dead execution of it; whatever handlers, restarts and
\* other executions of the same job write meanwhile.
THEOREM ProcessingRuns == Spec => []ProcessingHasRunner
<1>1. Init => ProcessingHasRunner
  BY DEF Init, ProcessingHasRunner, NoRow
<1>2. TypeOK /\ ProcessingHasRunner /\ [Next]_vars => ProcessingHasRunner'
  <2> SUFFICES ASSUME TypeOK, ProcessingHasRunner, [Next]_vars
               PROVE  ProcessingHasRunner'
    OBVIOUS
  <2>1. ASSUME NEW r \in Requests, ApiStep(r) PROVE ProcessingHasRunner'
    BY <2>1, ApiRows DEF ProcessingHasRunner
  <2>2. CASE ServerCrash \/ CleanupExpired \/ FailStaleJobs
    BY <2>2, RestartRows DEF ProcessingHasRunner
  <2>3. CASE UNCHANGED vars
    BY <2>3 DEF vars, ProcessingHasRunner
  <2> QED
    BY <2>1, <2>2, <2>3, PipelineRunner, RqRunner DEF Next
<1> QED
  BY <1>1, <1>2, TypeCorrect, PTL DEF Spec
-----------------------------------------------------------------------------
(* ActiveHasRunner *)

\* A worker that has activated its job keeps the invariant wherever it moves.
LEMMA ActiveKept ==
    ASSUME TypeOK, ActiveHasRunner, NEW w \in Workers, NEW pc,
           HorseMoved(w, pc), pc \notin {"idle", "activate"},
           active' \subseteq active \cup {wk[w].job}, rqFailed \subseteq rqFailed'
    PROVE  ActiveHasRunner'
BY DEF ActiveHasRunner, HorseMoved, HorsesKept

\* Every execution that put its job into active_jobs takes it out again or
\* has died: the set lists running jobs only.
THEOREM ActiveRuns == Spec => []ActiveHasRunner
<1>1. Init => ActiveHasRunner
  BY DEF Init, ActiveHasRunner
<1>2. TypeOK /\ ActiveHasRunner /\ [Next]_vars => ActiveHasRunner'
  <2> SUFFICES ASSUME TypeOK, ActiveHasRunner, [Next]_vars PROVE ActiveHasRunner'
    OBVIOUS
  <2> USE DEF store, redis, boot
  <2>1. ASSUME NEW r \in Requests, ApiStep(r) PROVE ActiveHasRunner'
    BY <2>1, ApiRows DEF ActiveHasRunner
  <2>2. CASE ServerCrash \/ CleanupExpired \/ FailStaleJobs
    BY <2>2, RestartRows DEF ActiveHasRunner
  <2>3. CASE UNCHANGED vars
    BY <2>3 DEF vars, ActiveHasRunner
  <2>4. ASSUME NEW w \in Workers, Pipeline(w) PROVE ActiveHasRunner'
    <3>1. CASE Finally(w)
      <4>1. HorseAtJob(w, "idle", NoJob)
        BY <3>1, HorseAtFacts DEF Finally, IdleHorse, WorkerPcs
      <4>2. active' = active \ {wk[w].job} /\ rqFailed' = rqFailed
        BY <3>1 DEF Finally, Completed
      <4> QED
        BY <4>1, <4>2 DEF ActiveHasRunner, HorseAtJob, HorsesKept
    <3>2. CASE HandleRead(w)
      <4>1. wk' = [wk EXCEPT ![w] = [wk[w] EXCEPT !.pc = "h_update",
                                                 !.seen = rows[wk[w].job]]]
        BY <3>2 DEF HandleRead
      <4>2. wk[w] \in Horse /\ wk \in [Workers -> Horse] /\ rows[wk[w].job] \in Row
        BY <3>2 DEF HandleRead, TypeOK
      <4>3. [wk[w] EXCEPT !.pc = "h_update", !.seen = rows[wk[w].job]] \in Horse
        BY <4>2 DEF Horse, WorkerPcs
      <4>4. HorseMoved(w, "h_update")
        BY <4>1, <4>2, <4>3 DEF HorseMoved, HorsesKept, Horse
      <4> QED
        BY <3>2, <4>4, ActiveKept DEF HandleRead
    <3>3. CASE Download(w) \/ Extract(w) \/ Reconstruct(w) \/ Announce(w)
      <4>1. PICK pc \in WorkerPcs \ {"idle", "activate"} : HorseMoved(w, pc)
        BY <3>3, WGotoFacts, RaiseFacts DEF Download, Extract, Reconstruct, Stage,
           Announce, WorkerPcs, Errors
      <4> QED
        BY <3>3, <4>1, ActiveKept DEF Download, Extract, Reconstruct, Stage, Announce
    <3>4. CASE Activate(w) \/ MarkProcessing(w) \/ Complete(w) \/ HandleUpdate(w)
               \/ HandleEnqueue(w) \/ HandleSchedule(w) \/ HandlerFails(w)
      <4>1. PICK pc \in WorkerPcs \ {"idle", "activate"} : HorseMoved(w, pc)
        BY <3>4, WGotoFacts DEF Activate, MarkProcessing, Complete, HandleUpdate,
           HandleEnqueue, HandleSchedule, HandlerFails, WorkerPcs
      <4>2. active' \subseteq active \cup {wk[w].job} /\ rqFailed \subseteq rqFailed'
        BY <3>4 DEF Activate, MarkProcessing, Complete, HandleUpdate,
           HandleEnqueue, HandleSchedule, HandlerFails
      <4> QED
        BY <4>1, <4>2, ActiveKept
    <3> QED
      BY <2>4, <3>1, <3>2, <3>3, <3>4 DEF Pipeline
  <2>5. ASSUME NEW w \in Workers, NEW j \in Jobs, NEW c \in Calls, Dequeue(w, j, c)
        PROVE  ActiveHasRunner'
    <3>1. wk' = wk \/ HorseAtJob(w, "activate", j)
      BY <2>5, HorseAtFacts DEF Dequeue, WorkerPcs
    <3>2. active' = active /\ rqFailed \subseteq rqFailed' /\ wk[w].pc = "idle"
      BY <2>5 DEF Dequeue
    <3> QED
      BY <3>1, <3>2 DEF ActiveHasRunner, HorseAtJob, HorsesKept
  <2>6. ASSUME NEW w \in Workers, Killed(w), active' = active PROVE ActiveHasRunner'
    <3>1. HorseAtJob(w, "idle", NoJob)
      BY <2>6, HorseAtFacts DEF Killed, IdleHorse, WorkerPcs
    <3> QED
      BY <2>6, <3>1 DEF Killed, ActiveHasRunner, HorseAtJob, HorsesKept
  <2>7. ASSUME NEW w \in Workers, NEW j \in Jobs, DeliverStop(w, j) PROVE ActiveHasRunner'
    BY <2>6, <2>7 DEF DeliverStop, ActiveHasRunner
  <2>8. ASSUME NEW w \in Workers, WorkerCrash(w) PROVE ActiveHasRunner'
    BY <2>6, <2>8 DEF WorkerCrash
  <2>9. ASSUME NEW j \in Jobs, NEW c \in Calls, Dispatch(j, c) PROVE ActiveHasRunner'
    BY <2>9 DEF Dispatch, ActiveHasRunner
  <2> QED
    BY <2>1, <2>2, <2>3, <2>4, <2>5, <2>7, <2>8, <2>9 DEF Next, RqStep
<1> QED
  BY <1>1, <1>2, TypeCorrect, PTL DEF Spec
-----------------------------------------------------------------------------
(* RetryBudget *)

\* No interleaving of executions, handlers and restarts takes a job beyond
\* max_retries automatic retries between two manual ones.
THEOREM RetriesBounded == Spec => []RetryBudget
<1>1. Init => RetryBudget
  BY ConstantsAssumption DEF Init, RetryBudget, NoRow
<1>2. TypeOK /\ RetryBudget /\ [Next]_vars => RetryBudget'
  <2> SUFFICES ASSUME TypeOK, RetryBudget, [Next]_vars PROVE RetryBudget'
    OBVIOUS
  <2> USE ConstantsAssumption DEF store, redis, boot
  <2>a. ASSUME \A j \in Jobs : rows'[j].retry_count \in {rows[j].retry_count, 0}
        PROVE  RetryBudget'
    BY <2>a DEF RetryBudget
  <2>1. ASSUME NEW r \in Requests, ApiStep(r) PROVE RetryBudget'
    BY <2>1, <2>a, ApiRows
  <2>2. CASE ServerCrash \/ CleanupExpired \/ FailStaleJobs
    BY <2>2, <2>a, RestartRows
  <2>3. ASSUME NEW w \in Workers, MarkProcessing(w) \/ Complete(w) PROVE RetryBudget'
    <3>1. wk[w].job \in Jobs /\ rows[wk[w].job] \in Row
      BY <2>3 DEF MarkProcessing, Complete, TypeOK
    <3>2. /\ RowsChangedAt(wk[w].job)
          /\ rows'[wk[w].job].retry_count = rows[wk[w].job].retry_count
      BY <2>3, <3>1, UpdatedFacts, WithStatusFacts DEF MarkProcessing, Complete, Statuses
    <3> QED
      BY <2>a, <3>1, <3>2 DEF RowsChangedAt
  <2>4. ASSUME NEW w \in Workers, HandleUpdate(w) PROVE RetryBudget'
    <3> DEFINE j == wk[w].job
               n == wk[w].seen.retry_count + 1
               again == [rows[j] EXCEPT !.status = "retrying", !.retry_count = n]
    <3>1. j \in Jobs /\ rows[j] \in Row
      BY <2>4 DEF HandleUpdate, TypeOK
    <3>2. wk[w].seen.retry_count \in Nat
      BY DEF TypeOK, Horse, Row
    <3>3. CASE RetryLeft(wk[w].seen, wk[w].err)
      <4>1. n \in Nat /\ n <= MaxRetries
        BY <3>2, <3>3 DEF RetryLeft
      <4>2. rows' = Updated(j, again)
        BY <2>4, <3>3 DEF HandleUpdate
      <4>3. again \in Row /\ again.retry_count = n
        <5> HIDE DEF n
        <5> QED
          BY <3>1, <4>1, RecountFacts DEF Statuses
      <4>4. RowsChangedAt(j) /\ (rows'[j].retry_count = n \/ rows'[j] = rows[j])
        <5> HIDE DEF again
        <5> QED
          BY <3>1, <4>2, <4>3, UpdatedFacts
      <4> HIDE DEF n
      <4> QED
        BY <3>1, <4>1, <4>4 DEF RetryBudget, RowsChangedAt
    <3>4. CASE ~RetryLeft(wk[w].seen, wk[w].err)
      <4>1. rows' = Updated(j, FailedRow(rows[j]))
        BY <2>4, <3>4 DEF HandleUpdate
      <4>2. RowsChangedAt(j) /\ rows'[j].retry_count = rows[j].retry_count
        BY <3>1, <4>1, UpdatedFacts, WithStatusFacts DEF FailedRow, Statuses
      <4> QED
        BY <2>a, <3>1, <4>2 DEF RowsChangedAt
    <3> QED
      BY <3>3, <3>4
  <2>5. CASE rows' = rows
    BY <2>a, <2>5
  <2>6. ASSUME NEW w \in Workers, Pipeline(w) PROVE RetryBudget'
    <3>1. \/ MarkProcessing(w) \/ Complete(w) \/ HandleUpdate(w) \/ rows' = rows
      BY <2>6 DEF Pipeline, Activate, Download, Extract, Reconstruct, Stage,
         Announce, Finally, HandleRead, HandleEnqueue, HandleSchedule, HandlerFails
    <3> QED
      BY <2>3, <2>4, <2>5, <3>1
  <2>7. CASE \/ \E w \in Workers : RqStep(w)
             \/ \E j \in Jobs, c \in Calls : Dispatch(j, c)
             \/ UNCHANGED vars
    BY <2>5, <2>7 DEF RqStep, Dequeue, DeliverStop, WorkerCrash, Dispatch, vars
  <2> QED
    BY <2>1, <2>2, <2>6, <2>7 DEF Next
<1> QED
  BY <1>1, <1>2, TypeCorrect, PTL DEF Spec
-----------------------------------------------------------------------------
(* PendingHasCarrier *)

ApiCarries(r, j) == Submitting(r, j) \/ Cancelling(r, j) \/ Refused(r, j)
WkCarries(w, j)  == wk[w].job = j /\ wk[w].pc \in {"activate", "mark"}
Carried(j) ==
    \/ queue[j]["submitted"] > 0
    \/ \E r \in Requests : ApiCarries(r, j)
    \/ \E w \in Workers : WkCarries(w, j)
    \/ j \in rqFailed
AllCarried == \A j \in Jobs : rows[j].status = "pending" => Carried(j)

\* The call _enqueue_job builds is one run_pipeline accepts.
LEMMA SubmittedBinds == Binds("submitted")
BY DEF Binds, Kwargs, SubmittedKwargs, StoredParams, JobCreateFields, RunPipelineParams

\* A step of handler r keeps every pending job carried if a job it makes or
\* leaves pending is carried by r afterwards or was carried by something else.
LEMMA HandlerCarries ==
    ASSUME TypeOK, AllCarried, NEW r \in Requests, OthersKept(r),
           UNCHANGED <<wk, rqFailed>>,
           \A j \in Jobs : rows'[j].status = "pending" =>
              \/ ApiCarries(r, j)'
              \/ queue'[j]["submitted"] > 0
              \/ /\ rows[j].status = "pending"
                 /\ ~ApiCarries(r, j)
                 /\ queue[j]["submitted"] > 0 => queue'[j]["submitted"] > 0
    PROVE  AllCarried'
<1> SUFFICES ASSUME NEW j \in Jobs, rows'[j].status = "pending"
             PROVE  Carried(j)'
  BY DEF AllCarried
<1>1. CASE ApiCarries(r, j)' \/ queue'[j]["submitted"] > 0
  BY <1>1 DEF Carried
<1>2. CASE /\ rows[j].status = "pending"
           /\ ~ApiCarries(r, j)
           /\ queue[j]["submitted"] > 0 => queue'[j]["submitted"] > 0
  <2>1. Carried(j)
    BY <1>2 DEF AllCarried
  <2>2. \A q \in Requests : ApiCarries(q, j) => ApiCarries(q, j)'
    BY <1>2 DEF ApiCarries, Submitting, Cancelling, Refused, OthersKept
  <2> QED
    BY <1>2, <2>1, <2>2 DEF Carried, WkCarries
<1> QED
  BY <1>1, <1>2

\* The same for a step of worker w.
LEMMA WorkerCarries ==
    ASSUME TypeOK, AllCarried, NEW w \in Workers, HorsesKept(w),
           api' = api, rqFailed \subseteq rqFailed',
           \A j \in Jobs : rows'[j].status = "pending" =>
              \/ WkCarries(w, j)'
              \/ j \in rqFailed'
              \/ /\ rows[j].status = "pending"
                 /\ ~WkCarries(w, j)
                 /\ queue'[j]["submitted"] = queue[j]["submitted"]
    PROVE  AllCarried'
<1> SUFFICES ASSUME NEW j \in Jobs, rows'[j].status = "pending"
             PROVE  Carried(j)'
  BY DEF AllCarried
<1>1. CASE WkCarries(w, j)' \/ j \in rqFailed'
  BY <1>1 DEF Carried
<1>2. CASE /\ rows[j].status = "pending"
           /\ ~WkCarries(w, j)
           /\ queue'[j]["submitted"] = queue[j]["submitted"]
  <2>1. Carried(j)
    BY <1>2 DEF AllCarried
  <2>2. \A v \in Workers : WkCarries(v, j) => WkCarries(v, j)'
    BY <1>2 DEF WkCarries, HorsesKept
  <2>3. \A q \in Requests : ApiCarries(q, j) => ApiCarries(q, j)'
    BY DEF ApiCarries, Submitting, Cancelling, Refused
  <2> QED
    BY <1>2, <2>1, <2>2, <2>3 DEF Carried
<1> QED
  BY <1>1, <1>2

\* No handler loses a pending job, though Redis may refuse its commands.
LEMMA ApiStepCarries ==
    ASSUME TypeOK, AllCarried, NEW r \in Requests, ApiStep(r)
    PROVE  AllCarried'
<1> USE DEF store, redis, boot
<1> DEFINE i == api[r].job
<1>a. UNCHANGED <<wk, rqFailed>>
  BY ApiRows
<1>b. ASSUME api[r].pc \notin {"params", "qm_enqueue", "rq_enqueue", "rq_stop", "mark_cancelled", "error"}
      PROVE  \A j \in Jobs : ~ApiCarries(r, j)
  BY <1>b DEF ApiCarries, Submitting, Cancelling, Refused
<1>c. ASSUME OthersKept(r), UNCHANGED <<rows, queue>>, \A j \in Jobs : ~ApiCarries(r, j)
      PROVE  AllCarried'
  BY <1>a, <1>c, HandlerCarries
<1>1. ASSUME NEW j \in Jobs, CreateStart(r, j) \/ DeleteStart(r, j)
                              \/ RetryStart(r, j) \/ CancelStart(r, j)
      PROVE  AllCarried'
  <2>1. api[r].pc = "idle" /\ UNCHANGED <<rows, queue>>
    BY <1>1 DEF CreateStart, DeleteStart, RetryStart, CancelStart, OpenRequest, CanStart
  <2>2. OthersKept(r)
    BY <1>1 DEF CreateStart, DeleteStart, RetryStart, CancelStart, OpenRequest,
       Respond, OthersKept, TypeOK
  <2> QED
    BY <1>b, <1>c, <2>1, <2>2
<1>2. CASE CreateReject(r) \/ CreateFind(r) \/ CreateCount(r) \/ DeleteRmtree(r)
           \/ QmCancel(r) \/ CancelRmtree(r)
  <2>1. /\ api[r].pc \notin {"params", "qm_enqueue", "rq_enqueue", "rq_stop",
                           "mark_cancelled", "error"}
        /\ UNCHANGED <<rows, queue>>
    BY <1>2 DEF CreateReject, CreateFind, CreateCount, CountStep, DeleteRmtree,
       QmCancel, CancelRmtree, CanStart
  <2>2. OthersKept(r)
    BY <1>2 DEF CreateReject, CreateFind, CreateCount, CountStep, DeleteRmtree,
       QmCancel, CancelRmtree, Respond, Goto, OthersKept, TypeOK
  <2> QED
    BY <1>b, <1>c, <2>1, <2>2
<1>3. CASE CreateInsert(r)
  <2>0. \A j \in Jobs : ~ApiCarries(r, j)
    BY <1>3, <1>b DEF CreateInsert
  <2>1. CASE Respond(r) /\ UNCHANGED rows
    <3>1. OthersKept(r)
      BY <2>1 DEF Respond, OthersKept, TypeOK
    <3> QED
      BY <1>3, <1>c, <2>0, <2>1, <3>1 DEF CreateInsert
  <2>2. CASE /\ Goto(r, "params")
             /\ rows' = [rows EXCEPT ![i] = WithStatus(NoRow, "pending")]
    <3>1. ApiMoved(r, "params")
      BY <2>2, GotoFacts DEF ApiPcs
    <3>2. ApiCarries(r, i)'
      BY <3>1 DEF ApiMoved, ApiCarries, Submitting, Refused
    <3>3. \A j \in Jobs \ {i} : rows'[j] = rows[j]
      BY <2>2 DEF TypeOK
    <3>4. UNCHANGED queue
      BY <1>3 DEF CreateInsert
    <3> QED
      BY <1>a, <2>0, <3>1, <3>2, <3>3, <3>4, HandlerCarries DEF ApiMoved
  <2> QED
    BY <1>3, <2>1, <2>2 DEF CreateInsert
<1>4. ASSUME NEW pc \in {"qm_enqueue", "rq_enqueue", "rq_stop", "mark_cancelled", "error"},
             Goto(r, pc), i \in Jobs,
             \A j \in Jobs \ {i} : rows'[j] = rows[j] /\ queue'[j] = queue[j]
      PROVE  AllCarried'
  <2>1. ApiMoved(r, pc)
    BY <1>4, GotoFacts DEF ApiPcs
  <2>2. ApiCarries(r, i)'
    BY <1>4, <2>1 DEF ApiMoved, ApiCarries, Submitting, Cancelling, Refused
  <2>3. \A j \in Jobs \ {i} : ~ApiCarries(r, j)
    BY DEF ApiCarries, Submitting, Cancelling, Refused
  <2> QED
    BY <1>4, <1>a, <2>1, <2>2, <2>3, HandlerCarries DEF ApiMoved
<1>5. CASE CreateParams(r) \/ RetryReset(r) \/ QmEnqueue(r) \/ RqStop(r)
  <2>1. i \in Jobs
    BY <1>5 DEF CreateParams, RetryReset, QmEnqueue, RqStop, TypeOK, InFlight
  <2>2. UNCHANGED queue
    BY <1>5 DEF CreateParams, RetryReset, QmEnqueue, RqStop
  <2>3. \A j \in Jobs \ {i} : rows'[j] = rows[j]
    BY <1>5 DEF CreateParams, RetryReset, QmEnqueue, RqStop, Updated, TypeOK
  <2>4. PICK pc \in {"qm_enqueue", "rq_enqueue", "mark_cancelled"} : Goto(r, pc)
    BY <1>5 DEF CreateParams, RetryReset, QmEnqueue, RqStop
  <2> QED
    BY <1>4, <2>1, <2>2, <2>3, <2>4
<1>6. CASE RqCancel(r)
  <2>1. i \in Jobs /\ queue \in [Jobs -> [Calls -> Nat]]
    BY <1>6 DEF RqCancel, TypeOK, InFlight
  <2>2. \A j \in Jobs \ {i} : queue'[j] = queue[j]
    BY <1>6, <2>1, DroppedFacts DEF RqCancel
  <2> QED
    BY <1>6, <1>4, <2>1, <2>2 DEF RqCancel
<1>7. CASE RqEnqueue(r)
  <2> DEFINE n == queue[i]["submitted"] + 1
  <2>1. i \in Jobs /\ "submitted" \in Calls /\ queue \in [Jobs -> [Calls -> Nat]]
    BY <1>7 DEF RqEnqueue, TypeOK, InFlight, Calls
  <2>2. n \in Nat /\ n > 0
    BY <2>1
  <2>3. queue' = [queue EXCEPT ![i]["submitted"] = n]
    BY <1>7 DEF RqEnqueue
  <2>4. queue'[i]["submitted"] = n
    <3> HIDE DEF n
    <3> QED
      BY <2>1, <2>2, <2>3, CounterFacts
  <2>5. \A j \in Jobs \ {i} : queue'[j] = queue[j]
    BY <1>7, <2>1 DEF RqEnqueue
  <2>6. OthersKept(r) /\ UNCHANGED rows
    BY <1>7 DEF RqEnqueue, Respond, OthersKept, TypeOK
  <2>7. \A j \in Jobs \ {i} : ~ApiCarries(r, j)
    BY DEF ApiCarries, Submitting, Cancelling, Refused
  <2>8. queue'[i]["submitted"] > 0
    BY <2>2, <2>4
  <2> HIDE DEF n
  <2> QED
    BY <1>a, <2>5, <2>6, <2>7, <2>8, HandlerCarries
<1>8. CASE DeleteRow(r) \/ MarkCancelled(r)
  <2>1. i \in Jobs /\ rows[i] \in Row
    BY <1>8 DEF DeleteRow, MarkCancelled, TypeOK, InFlight
  <2>2. rows'[i].status # "pending" /\ \A j \in Jobs \ {i} : rows'[j] = rows[j]
    <3>1. CASE DeleteRow(r)
      BY <3>1, <2>1 DEF DeleteRow, NoRow, TypeOK
    <3>2. CASE MarkCancelled(r)
      BY <3>2, <2>1, UpdatedFacts, WithStatusFacts DEF MarkCancelled, RowsChangedAt, Statuses
    <3> QED
      BY <1>8, <3>1, <3>2
  <2>3. OthersKept(r) /\ UNCHANGED queue
    BY <1>8 DEF DeleteRow, MarkCancelled, Respond, Goto, OthersKept, TypeOK
  <2>4. \A j \in Jobs \ {i} : ~ApiCarries(r, j)
    BY DEF ApiCarries, Submitting, Cancelling, Refused
  <2> QED
    BY <1>a, <2>2, <2>3, <2>4, HandlerCarries
<1>9. CASE RequestFails(r)
  <2>1. i \in Jobs
    BY <1>9 DEF RequestFails, TypeOK, InFlight
  <2> QED
    BY <1>9, <1>4, <2>1 DEF RequestFails
<1> QED
  BY <1>1, <1>2, <1>3, <1>5, <1>6, <1>7, <1>8, <1>9 DEF ApiStep

\* No step of run_pipeline loses one: before the job is marked processing
\* the worker carries it, and afterwards it is pending no longer.
LEMMA PipelineCarries ==
    ASSUME TypeOK, AllCarried, NEW w \in Workers, Pipeline(w)
    PROVE  AllCarried'
<1> USE DEF store, redis, boot
<1> DEFINE i == wk[w].job
<1>j. i \in Jobs /\ rows[i] \in Row
  BY DEF Pipeline, TypeOK, Activate, MarkProcessing, Download, Extract,
     Reconstruct, Stage, Complete, Announce, Finally, HandleRead,
     HandleUpdate, HandleEnqueue, HandleSchedule, HandlerFails
<1>a. UNCHANGED <<api, queue>> /\ rqFailed \subseteq rqFailed'
  BY DEF Pipeline, TypeOK, Activate, MarkProcessing, Download, Extract,
     Reconstruct, Stage, Complete, Announce, Finally, HandleRead,
     HandleUpdate, HandleEnqueue, HandleSchedule, HandlerFails
<1>b. HorsesKept(w)
  BY DEF Pipeline, TypeOK, Activate, MarkProcessing, Download, Extract,
     Reconstruct, Stage, Complete, Announce, Finally, HandleRead,
     HandleUpdate, HandleEnqueue, HandleSchedule, HandlerFails,
     WGoto, Raise, HorsesKept
<1>1. CASE Activate(w)
  <2>1. HorseMoved(w, "mark") /\ UNCHANGED rows
    BY <1>1, WGotoFacts DEF Activate, WorkerPcs
  <2>2. \A j \in Jobs : IF j = i THEN WkCarries(w, j)' ELSE ~WkCarries(w, j)
    BY <2>1 DEF HorseMoved, WkCarries
  <2> QED
    BY <1>a, <1>b, <2>1, <2>2, WorkerCarries
<1>2. CASE MarkProcessing(w)
  <2>1. rows'[i].status # "pending" /\ RowsChangedAt(i)
    BY <1>2, <1>j, UpdatedFacts, WithStatusFacts DEF MarkProcessing, Statuses
  <2>2. \A j \in Jobs \ {i} : ~WkCarries(w, j)
    BY DEF WkCarries
  <2> QED
    BY <1>a, <1>b, <2>1, <2>2, WorkerCarries DEF RowsChangedAt
<1>3. ASSUME wk[w].pc \notin {"activate", "mark"},
             \A j \in Jobs : rows'[j].status = "pending" => rows[j].status = "pending"
      PROVE  AllCarried'
  <2>1. \A j \in Jobs : ~WkCarries(w, j)
    BY <1>3 DEF WkCarries
  <2> QED
    BY <1>3, <1>a, <1>b, <2>1, WorkerCarries
<1>4. CASE Complete(w)
  <2>1. rows'[i].status # "pending" /\ RowsChangedAt(i)
    BY <1>4, <1>j, UpdatedFacts, WithStatusFacts DEF Complete, Statuses
  <2> QED
    BY <1>3, <1>4, <2>1 DEF Complete, RowsChangedAt
<1>5. CASE HandleUpdate(w)
  <2> DEFINE n == wk[w].seen.retry_count + 1
             again == [rows[i] EXCEPT !.status = "retrying", !.retry_count = n]
  <2>1. n \in Nat
    BY DEF TypeOK, Horse, Row
  <2>2. again \in Row /\ again.status = "retrying"
    <3> HIDE DEF n
    <3> QED
      BY <1>j, <2>1, RecountFacts DEF Statuses
  <2>3. FailedRow(rows[i]) \in Row /\ FailedRow(rows[i]).status = "failed"
    BY <1>j, WithStatusFacts DEF FailedRow, Statuses
  <2>4. rows' = Updated(i, again) \/ rows' = Updated(i, FailedRow(rows[i]))
    BY <1>5 DEF HandleUpdate
  <2>5. rows'[i].status # "pending" /\ RowsChangedAt(i)
    <3> HIDE DEF again
    <3> QED
      BY <1>j, <2>2, <2>3, <2>4, UpdatedFacts
  <2> QED
    BY <1>3, <1>5, <2>5 DEF HandleUpdate, RowsChangedAt
<1>6. CASE Download(w) \/ Extract(w) \/ Reconstruct(w) \/ Announce(w) \/ Finally(w)
           \/ HandleRead(w) \/ HandleEnqueue(w) \/ HandleSchedule(w) \/ HandlerFails(w)
  BY <1>3, <1>6 DEF Download, Extract, Reconstruct, Stage, Announce, Finally,
     HandleRead, HandleEnqueue, HandleSchedule, HandlerFails
<1> QED
  BY <1>1, <1>2, <1>4, <1>5, <1>6 DEF Pipeline

\* RQ hands the job from the queue to the worker, or records the failure.
LEMMA RqCarries ==
    ASSUME TypeOK, AllCarried,
           \/ \E w \in Workers : RqStep(w)
           \/ \E j \in Jobs, c \in Calls : Dispatch(j, c)
    PROVE  AllCarried'
<1> USE DEF store, boot
<1>1. ASSUME NEW w \in Workers, NEW i \in Jobs, NEW c \in Calls, Dequeue(w, i, c)
      PROVE  AllCarried'
  <2>0. /\ UNCHANGED <<rows, api>>
        /\ rqFailed \subseteq rqFailed'
        /\ \A j \in Jobs : ~WkCarries(w, j)
    BY <1>1 DEF Dequeue, WkCarries
  <2>1. HorsesKept(w)
    BY <1>1 DEF Dequeue, HorsesKept, TypeOK
  <2>2. c # "submitted" => \A j \in Jobs : queue'[j]["submitted"] = queue[j]["submitted"]
    BY <1>1 DEF Dequeue, TypeOK, Calls
  <2>3. \A j \in Jobs \ {i} : queue'[j] = queue[j]
    BY <1>1 DEF Dequeue, TypeOK
  <2>4. c = "submitted" => WkCarries(w, i)'
    <3>1. c = "submitted" => wk' = [wk EXCEPT ![w] = HorseAt("activate", i)]
      BY <1>1, SubmittedBinds DEF Dequeue
    <3> QED
      BY <3>1, HorseAtFacts DEF HorseAtJob, WkCarries, WorkerPcs
  <2> QED
    BY <2>0, <2>1, <2>2, <2>3, <2>4, WorkerCarries
<1>2. ASSUME NEW w \in Workers, Killed(w), UNCHANGED <<rows, queue, api>>
      PROVE  AllCarried'
  <2>1. HorsesKept(w) /\ rqFailed \subseteq rqFailed'
    BY <1>2 DEF Killed, HorsesKept, TypeOK
  <2>2. \A j \in Jobs : WkCarries(w, j) => j \in rqFailed'
    BY <1>2 DEF Killed, WkCarries
  <2> QED
    BY <1>2, <2>1, <2>2, WorkerCarries
<1>3. ASSUME NEW w \in Workers, NEW j \in Jobs, DeliverStop(w, j) PROVE AllCarried'
  BY <1>2, <1>3 DEF DeliverStop, AllCarried, Carried, ApiCarries, Submitting,
     Cancelling, Refused, WkCarries
<1>4. ASSUME NEW w \in Workers, WorkerCrash(w) PROVE AllCarried'
  BY <1>2, <1>4 DEF WorkerCrash
<1>5. ASSUME NEW i \in Jobs, NEW c \in Calls, Dispatch(i, c) PROVE AllCarried'
  <2>1. \A j \in Jobs : queue[j]["submitted"] > 0 => queue'[j]["submitted"] > 0
    <3> DEFINE n == queue[i][c] + 1
    <3>1. queue \in [Jobs -> [Calls -> Nat]] /\ "submitted" \in Calls
      BY DEF TypeOK, Calls
    <3>2. n \in Nat /\ n > 0
      BY <3>1
    <3>3. queue' = [queue EXCEPT ![i][c] = n]
      BY <1>5 DEF Dispatch
    <3> HIDE DEF n
    <3> QED
      BY <3>1, <3>2, <3>3, CounterFacts
  <2> QED
    BY <1>5, <2>1 DEF Dispatch, AllCarried, Carried, ApiCarries, Submitting,
       Cancelling, Refused, WkCarries
<1> QED
  BY <1>1, <1>3, <1>4, <1>5 DEF RqStep

\* No accepted job is lost: a pending job of a running server is queued for
\* run_pipeline, taken by a worker or in the hands of a handler, or RQ has
\* recorded a failed execution, or the client was told of an error.
THEOREM PendingNotLost == Spec => []PendingHasCarrier
<1>a. PendingHasCarrier <=> (server = "up" => AllCarried)
  BY DEF PendingHasCarrier, AllCarried, Carried, ApiCarries, WkCarries
<1>1. Init => PendingHasCarrier
  BY DEF Init, PendingHasCarrier, NoRow
<1>2. TypeOK /\ PendingHasCarrier /\ [Next]_vars => PendingHasCarrier'
  <2> SUFFICES ASSUME TypeOK, PendingHasCarrier, [Next]_vars,
                      server' = "up"
               PROVE  AllCarried'
    BY DEF PendingHasCarrier, AllCarried, Carried, ApiCarries, WkCarries
  <2>a. server = "up" => AllCarried
    BY <1>a
  <2> USE DEF store, redis, boot
  <2>1. ASSUME NEW r \in Requests, ApiStep(r) PROVE AllCarried'
    <3>1. server' = server
      BY <2>1 DEF ApiStep, CreateStart, DeleteStart, RetryStart, CancelStart,
         OpenRequest, CreateReject, CreateFind, CreateCount, CountStep,
         CreateInsert, CreateParams, QmEnqueue, RqEnqueue, DeleteRmtree,
         DeleteRow, RetryReset, QmCancel, RqCancel, RqStop, MarkCancelled,
         CancelRmtree, RequestFails
    <3> QED
      BY <2>1, <2>a, <3>1, ApiStepCarries
  <2>2. ASSUME NEW w \in Workers, Pipeline(w) PROVE AllCarried'
    <3>1. server' = server
      BY <2>2 DEF Pipeline, Activate, MarkProcessing, Download, Extract,
         Reconstruct, Stage, Complete, Announce, Finally, HandleRead,
         HandleUpdate, HandleEnqueue, HandleSchedule, HandlerFails
    <3> QED
      BY <2>2, <2>a, <3>1, PipelineCarries
  <2>3. CASE \/ \E w \in Workers : RqStep(w)
             \/ \E j \in Jobs, c \in Calls : Dispatch(j, c)
    <3>1. server' = server
      BY <2>3 DEF RqStep, Dequeue, DeliverStop, WorkerCrash, Dispatch
    <3> QED
      BY <2>3, <2>a, <3>1, RqCarries
  <2>4. CASE FailStaleJobs
    <3>1. \A j \in Jobs : rows'[j].status # "pending"
      <4>1. \A j \in Jobs : WithStatus(rows[j], "failed").status = "failed"
        BY WithStatusFacts DEF TypeOK, Statuses
      <4> QED
        BY <2>4, <4>1 DEF FailStaleJobs, StaleStatuses
    <3> QED
      BY <3>1 DEF AllCarried
  <2>5. ~(ServerCrash \/ CleanupExpired)
    BY DEF ServerCrash, CleanupExpired
  <2>6. CASE UNCHANGED vars
    BY <2>6, <2>a DEF vars, AllCarried, Carried, ApiCarries, Submitting,
       Cancelling, Refused, WkCarries
  <2> QED
    BY <2>1, <2>2, <2>3, <2>4, <2>5, <2>6 DEF Next
<1> QED
  BY <1>1, <1>2, TypeCorrect, PTL DEF Spec
-----------------------------------------------------------------------------
(* NoResurrection *)

\* The handlers that have drawn an id and not inserted it yet.
CreatingPcs == {"find", "count_pending", "count_processing", "count_retrying", "insert"}
Creating(r) == api[r].pc \in CreatingPcs

\* A row's id has been used, and the id create_job is about to insert is
\* neither used nor in the hands of any other handler.
FreshIds ==
    /\ \A j \in Jobs : rows[j].status # "none" => j \in used
    /\ \A r \in Requests : Creating(r) =>
          /\ api[r].job \notin used
          /\ \A q \in Requests \ {r} : api[q].job # api[r].job

\* No row appears, and ids stay used.
NoneAppears ==
    /\ \A j \in Jobs : rows[j].status = "none" => rows'[j].status = "none"
    /\ used' = used

\* An UPDATE makes no row appear, whatever it writes.
LEMMA UpdateAppears ==
    ASSUME TypeOK, NEW j, NEW row, rows' = Updated(j, row), used' = used
    PROVE  NoneAppears
BY DEF TypeOK, Updated, Exists, NoneAppears

\* Of the handler steps only the INSERT of create_job makes a row appear.
LEMMA HandlerAppears ==
    ASSUME TypeOK, NEW r \in Requests, ApiStep(r), ~CreateInsert(r)
    PROVE  NoneAppears
<1> USE DEF store, redis, boot
<1>a. ASSUME rows' = rows, used' = used PROVE NoneAppears
  BY <1>a DEF NoneAppears
<1>1. CASE \/ CreateReject(r) \/ CreateFind(r) \/ CreateCount(r) \/ QmEnqueue(r)
           \/ RqEnqueue(r) \/ DeleteRmtree(r) \/ QmCancel(r) \/ RqCancel(r)
           \/ RqStop(r) \/ CancelRmtree(r) \/ RequestFails(r)
           \/ \E j \in Jobs : \/ CreateStart(r, j) \/ DeleteStart(r, j)
                                \/ RetryStart(r, j) \/ CancelStart(r, j)
  BY <1>a, <1>1 DEF CreateReject, CreateFind, CreateCount, CountStep,
     QmEnqueue, RqEnqueue, DeleteRmtree, QmCancel, RqCancel, RqStop,
     CancelRmtree, RequestFails, CreateStart, DeleteStart, RetryStart,
     CancelStart, OpenRequest
<1>2. CASE DeleteRow(r)
  BY <1>2 DEF DeleteRow, NoneAppears, NoRow, TypeOK
<1>3. CASE CreateParams(r) \/ RetryReset(r) \/ MarkCancelled(r)
  BY <1>3, UpdateAppears DEF CreateParams, RetryReset, MarkCancelled
<1> QED
  BY <1>1, <1>2, <1>3 DEF ApiStep

\* Of all steps only the INSERT of create_job makes a row appear.
LEMMA OnlyInsertAppears ==
    ASSUME TypeOK, [Next]_vars
    PROVE  NoneAppears \/ \E r \in Requests : CreateInsert(r)
<1> USE DEF store, redis, boot
<1>a. ASSUME rows' = rows, used' = used PROVE NoneAppears
  BY <1>a DEF NoneAppears
<1>1. ASSUME NEW r \in Requests, ApiStep(r), ~CreateInsert(r) PROVE NoneAppears
  BY <1>1, HandlerAppears
<1>2. ASSUME NEW w \in Workers, Pipeline(w) PROVE NoneAppears
  <2>1. CASE MarkProcessing(w) \/ Complete(w) \/ HandleUpdate(w)
    BY <2>1, UpdateAppears DEF MarkProcessing, Complete, HandleUpdate
  <2>2. CASE ~(MarkProcessing(w) \/ Complete(w) \/ HandleUpdate(w))
    BY <1>2, <1>a, <2>2 DEF Pipeline, Activate, Download, Extract, Reconstruct,
       Stage, Announce, Finally, HandleRead, HandleEnqueue, HandleSchedule,
       HandlerFails
  <2> QED
    BY <2>1, <2>2
<1>3. CASE \/ \E w \in Workers : RqStep(w)
           \/ \E j \in Jobs, c \in Calls : Dispatch(j, c)
           \/ UNCHANGED vars
  BY <1>a, <1>3 DEF RqStep, Dequeue, DeliverStop, WorkerCrash, Dispatch, vars
<1>4. CASE ServerCrash
  BY <1>a, <1>4 DEF ServerCrash
<1>5. CASE CleanupExpired
  BY <1>5 DEF CleanupExpired, NoneAppears, NoRow
<1>6. CASE FailStaleJobs
  BY <1>6 DEF FailStaleJobs, NoneAppears, StaleStatuses
<1> QED
  BY <1>1, <1>2, <1>3, <1>4, <1>5, <1>6 DEF Next

\* A handler that moves on without a new job keeps the ids fresh, as long as
\* it does not become a creator.
LEMMA HandlerKeepsFresh ==
    ASSUME TypeOK, FreshIds, NoneAppears, NEW r \in Requests, NEW pc \in ApiPcs,
           \/ ApiMoved(r, pc) /\ (pc \in CreatingPcs => Creating(r))
           \/ ApiAt(r, "done", NoJob)
           \/ \E j \in Jobs : ApiAt(r, pc, j) /\ j \in used /\ pc \notin CreatingPcs
           \/ \E j \in Jobs : ApiAt(r, pc, j) /\ Fresh(j)
    PROVE  FreshIds'
<1>1. (\A j \in Jobs : rows[j].status # "none" => j \in used)'
  BY DEF FreshIds, NoneAppears
<1>2. ASSUME NEW q \in Requests, Creating(q)', NEW p \in Requests \ {q}
      PROVE  api'[q].job \notin used' /\ api'[p].job # api'[q].job
  <2>1. \A x \in Requests : Creating(x) => api[x].job \in Jobs /\ api[x].job # NoJob
    BY ConstantsAssumption DEF TypeOK, Creating, CreatingPcs, InFlight
  <2>2. CASE ApiMoved(r, pc) /\ (pc \in CreatingPcs => Creating(r))
    BY <1>2, <2>2 DEF ApiMoved, OthersKept, FreshIds, NoneAppears, Creating
  <2>3. CASE ApiAt(r, "done", NoJob)
    BY <1>2, <2>1, <2>3 DEF ApiAt, OthersKept, FreshIds, NoneAppears, Creating, CreatingPcs
  <2>4. CASE \E j \in Jobs : ApiAt(r, pc, j) /\ j \in used /\ pc \notin CreatingPcs
    BY <1>2, <2>4 DEF ApiAt, OthersKept, FreshIds, NoneAppears, Creating
  <2>5. CASE \E j \in Jobs : ApiAt(r, pc, j) /\ Fresh(j)
    BY <1>2, <2>5 DEF ApiAt, OthersKept, FreshIds, NoneAppears, Creating, Fresh
  <2> QED
    BY <2>2, <2>3, <2>4, <2>5
<1>3. \A q \in Requests : Creating(q)' =>
          api'[q].job \notin used' /\ \A p \in Requests \ {q} : api'[p].job # api'[q].job
  <2> SUFFICES ASSUME NEW q \in Requests, Creating(q)'
               PROVE  /\ api'[q].job \notin used'
                      /\ \A p \in Requests \ {q} : api'[p].job # api'[q].job
    OBVIOUS
  <2>1. CASE Requests \ {q} = {}
    BY <2>1 DEF FreshIds, NoneAppears, ApiMoved, ApiAt, OthersKept, Creating,
       CreatingPcs, Fresh
  <2>2. CASE Requests \ {q} # {}
    BY <1>2, <2>2
  <2> QED
    BY <2>1, <2>2
<1> QED
  BY <1>1, <1>3 DEF FreshIds


\* The handler steps keep the ids fresh.
LEMMA ApiStepFresh ==
    ASSUME TypeOK, FreshIds, NEW r \in Requests, ApiStep(r)
    PROVE  FreshIds'
<1> USE DEF store, redis, boot
<1>0. CreateInsert(r) \/ NoneAppears
  BY HandlerAppears
<1>1. CASE \E j \in Jobs : CreateStart(r, j)
  <2>1. PICK j \in Jobs : CreateStart(r, j)
    BY <1>1
  <2>2. \E pc \in {"find", "count_pending"} : ApiAt(r, pc, j)
    <3>1. PICK pc \in {"find", "count_pending"} :
             api' = [api EXCEPT ![r] = RequestAt(pc, j, "none")]
      BY <2>1 DEF CreateStart
    <3> QED
      BY <3>1, OpenFacts DEF ApiPcs
  <2>3. NoneAppears /\ Fresh(j)
    BY <2>1 DEF CreateStart, NoneAppears
  <2> QED
    BY <2>2, <2>3, HandlerKeepsFresh DEF ApiPcs
<1>2. CASE \E j \in Jobs : DeleteStart(r, j) \/ RetryStart(r, j) \/ CancelStart(r, j)
  <2>1. PICK j \in Jobs : DeleteStart(r, j) \/ RetryStart(r, j) \/ CancelStart(r, j)
    BY <1>2
  <2>2. NoneAppears
    BY <2>1 DEF DeleteStart, RetryStart, CancelStart, OpenRequest, NoneAppears
  <2>3. \/ Respond(r)
        \/ /\ Exists(j)
           /\ \E pc \in {"rmtree", "reset", "qm_cancel"} :
                api' = [api EXCEPT ![r] = RequestAt(pc, j, rows[j].status)]
    BY <2>1 DEF DeleteStart, RetryStart, CancelStart, OpenRequest
  <2>4. CASE Respond(r)
    BY <2>2, <2>4, RespondFacts, HandlerKeepsFresh DEF ApiPcs
  <2>5. CASE Exists(j) /\ \E pc \in {"rmtree", "reset", "qm_cancel"} :
                             api' = [api EXCEPT ![r] = RequestAt(pc, j, rows[j].status)]
    <3>1. j \in used /\ rows[j].status \in Statuses \cup {"none"}
      BY <2>5 DEF FreshIds, Exists, TypeOK, Row
    <3>2. PICK pc \in {"rmtree", "reset", "qm_cancel"} :
             api' = [api EXCEPT ![r] = RequestAt(pc, j, rows[j].status)]
      BY <2>5
    <3>3. pc \in ApiPcs /\ pc \notin CreatingPcs
      BY <3>2 DEF ApiPcs, CreatingPcs
    <3>4. ApiAt(r, pc, j)
      BY <3>1, <3>2, <3>3, OpenFacts
    <3> QED
      BY <2>2, <3>1, <3>3, <3>4, HandlerKeepsFresh
  <2> QED
    BY <2>3, <2>4, <2>5
<1>3. CASE CreateInsert(r)
  <2>1. api[r].job \in Jobs /\ Creating(r)
    BY <1>3 DEF CreateInsert, TypeOK, InFlight, Creating, CreatingPcs
  <2>2. CASE Respond(r) /\ UNCHANGED <<rows, used>>
    BY <2>2, RespondFacts, HandlerKeepsFresh DEF ApiPcs, NoneAppears
  <2>3. CASE /\ rows' = [rows EXCEPT ![api[r].job] = WithStatus(NoRow, "pending")]
             /\ used' = used \cup {api[r].job}
             /\ Goto(r, "params")
    <3>1. ApiMoved(r, "params")
      BY <2>3, GotoFacts DEF ApiPcs
    <3>2. \A q \in Requests : Creating(q)' => q # r /\ Creating(q) /\ api'[q] = api[q]
      BY <3>1 DEF ApiMoved, OthersKept, Creating, CreatingPcs
    <3>3. \A q \in Requests : api'[q].job = api[q].job
      BY <3>1 DEF ApiMoved, OthersKept
    <3>4. \A j \in Jobs : rows'[j].status # "none" => j \in used'
      BY <2>1, <2>3 DEF FreshIds, TypeOK
    <3> QED
      BY <2>1, <2>3, <3>2, <3>3, <3>4 DEF FreshIds, Creating
  <2> QED
    BY <1>3, <2>2, <2>3 DEF CreateInsert
<1>4. CASE CreateFind(r)
  <2>1. Respond(r) \/ (Goto(r, "count_pending") /\ Creating(r))
    BY <1>4 DEF CreateFind, Creating, CreatingPcs
  <2>2. NoneAppears
    BY <1>4 DEF CreateFind, NoneAppears
  <2> QED
    BY <2>1, <2>2, RespondFacts, GotoFacts, HandlerKeepsFresh DEF ApiPcs
<1>5. CASE CreateCount(r)
  <2>1. PICK pc \in CreatingPcs : ApiMoved(r, pc) /\ Creating(r)
    <3>1. ASSUME NEW pc, NEW s, NEW next \in CreatingPcs \cap ApiPcs,
                 CountStep(r, pc, s, next), pc \in CreatingPcs
          PROVE  ApiMoved(r, next) /\ Creating(r)
      BY <3>1, CountStepFacts DEF CountStep, Creating
    <3> QED
      BY <1>5, <3>1 DEF CreateCount, CreatingPcs, ApiPcs
  <2>2. NoneAppears
    BY <1>5 DEF CreateCount, CountStep, NoneAppears
  <2> QED
    BY <2>1, <2>2, HandlerKeepsFresh DEF ApiPcs, CreatingPcs
<1>6. ASSUME NEW pc \in ApiPcs \ CreatingPcs, Goto(r, pc), NoneAppears PROVE FreshIds'
  BY <1>6, GotoFacts, HandlerKeepsFresh
<1>7. ASSUME Respond(r), NoneAppears PROVE FreshIds'
  BY <1>7, RespondFacts, HandlerKeepsFresh DEF ApiPcs
<1>8. CASE CreateReject(r) \/ RqEnqueue(r) \/ DeleteRow(r) \/ CancelRmtree(r)
  BY <1>0, <1>3, <1>7, <1>8 DEF CreateReject, RqEnqueue, DeleteRow, CancelRmtree
<1>9. CASE \/ CreateParams(r) \/ QmEnqueue(r) \/ DeleteRmtree(r) \/ RetryReset(r)
           \/ QmCancel(r) \/ RqCancel(r) \/ RqStop(r) \/ MarkCancelled(r)
           \/ RequestFails(r)
  <2>1. \E pc \in ApiPcs \ CreatingPcs : Goto(r, pc)
    BY <1>9 DEF CreateParams, QmEnqueue, DeleteRmtree, RetryReset, QmCancel,
       RqCancel, RqStop, MarkCancelled, RequestFails, ApiPcs, CreatingPcs
  <2> QED
    BY <1>0, <1>3, <1>6, <2>1
<1> QED
  BY <1>1, <1>2, <1>3, <1>4, <1>5, <1>8, <1>9 DEF ApiStep

\* FreshIds is an invariant of the system.
LEMMA FreshIdsInvariant == Spec => []FreshIds
<1>1. Init => FreshIds
  BY DEF Init, FreshIds, NoRow, Creating, CreatingPcs, IdleRequest, RequestAt
<1>2. TypeOK /\ FreshIds /\ [Next]_vars => FreshIds'
  <2> SUFFICES ASSUME TypeOK, FreshIds, [Next]_vars PROVE FreshIds'
    OBVIOUS
  <2> USE DEF store, redis, boot
  <2>1. ASSUME NEW r \in Requests, ApiStep(r) PROVE FreshIds'
    BY <2>1, ApiStepFresh
  <2>2. ASSUME NoneAppears, UNCHANGED api PROVE FreshIds'
    BY <2>2 DEF FreshIds, NoneAppears, Creating
  <2>3. CASE ServerCrash
    <3>1. \A r \in Requests : Creating(r) => InFlight(r)
      BY DEF Creating, CreatingPcs, InFlight
    <3>2. \A r \in Requests : ~Creating(r)'
      BY <2>3, <3>1 DEF ServerCrash, Creating, CreatingPcs, DoneRequest, RequestAt
    <3> QED
      BY <2>3, <3>2 DEF ServerCrash, FreshIds
  <2>4. CASE ~ServerCrash /\ \A r \in Requests : ~ApiStep(r)
    <3>1. UNCHANGED api
      BY <2>4 DEF Next, Pipeline, Activate, MarkProcessing, Download, Extract,
         Reconstruct, Stage, Complete, Announce, Finally, HandleRead,
         HandleUpdate, HandleEnqueue, HandleSchedule, HandlerFails, RqStep,
         Dequeue, DeliverStop, WorkerCrash, Dispatch, CleanupExpired,
         FailStaleJobs, vars
    <3>2. \A r \in Requests : ~CreateInsert(r)
      BY <2>4 DEF ApiStep
    <3> QED
      BY <2>2, <3>1, <3>2, OnlyInsertAppears
  <2> QED
    BY <2>1, <2>3, <2>4
<1> QED
  BY <1>1, <1>2, TypeCorrect, PTL DEF Spec

\* A row whose id has been used and that is gone stays away.
LEMMA GoneStays ==
    ASSUME TypeOK, FreshIds, [Next]_vars, NEW j \in Jobs, j \in used, ~Exists(j)
    PROVE  ~Exists(j)'
<1>1. CASE NoneAppears
  BY <1>1 DEF NoneAppears, Exists
<1>2. ASSUME NEW r \in Requests, CreateInsert(r) PROVE ~Exists(j)'
  <2>1. api[r].job # j
    BY <1>2 DEF CreateInsert, FreshIds, Creating, CreatingPcs
  <2> QED
    BY <1>2, <2>1 DEF CreateInsert, TypeOK, Exists
<1> QED
  BY <1>1, <1>2, OnlyInsertAppears

\* A deleted or expired job never comes back, whichever executions, retries
\* and cancellations of it are still under way.
THEOREM DeletedStays == Spec => NoResurrection
<1>1. TypeOK /\ FreshIds /\ [Next]_vars =>
        [\A j \in Jobs : (j \in used /\ rows[j].status = "none") => rows'[j].status = "none"]_vars
  BY GoneStays DEF Exists
<1> QED
  BY <1>1, TypeCorrect, FreshIdsInvariant, PTL DEF Spec, NoResurrection
-----------------------------------------------------------------------------
(* CompletedHasFiles and WaitingHasCarrier *)

\* Whatever Redis, a worker or a handler past the INSERT holds has been
\* inserted: nobody is in possession of an id whose row may still appear.
KnownIds ==
    /\ waiting \subseteq used
    /\ \A j \in Jobs, c \in Calls : queue[j][c] > 0 \/ scheduled[j][c] > 0 => j \in used
    /\ \A w \in Workers : wk[w].pc # "idle" => wk[w].job \in used
    /\ \A r \in Requests : InFlight(r) /\ ~Creating(r) => api[r].job \in used

\* A handler that moves on keeps to the ids it has.
LEMMA HandlerKnown ==
    ASSUME KnownIds, NEW r \in Requests, OthersKept(r), UNCHANGED wk, used \subseteq used',
           waiting' \subseteq used',
           \A j \in Jobs, c \in Calls : queue'[j][c] > 0 \/ scheduled'[j][c] > 0 => j \in used',
           InFlight(r)' /\ ~Creating(r)' => api'[r].job \in used'
    PROVE  KnownIds'
<1>1. \A q \in Requests : InFlight(q)' /\ ~Creating(q)' => api'[q].job \in used'
  <2> SUFFICES ASSUME NEW q \in Requests, InFlight(q)', ~Creating(q)' PROVE api'[q].job \in used'
    OBVIOUS
  <2>1. CASE q = r
    BY <2>1
  <2>2. CASE q # r
    BY <2>2 DEF OthersKept, KnownIds, InFlight, Creating
  <2> QED
    BY <2>1, <2>2
<1> QED
  BY <1>1 DEF KnownIds

\* The handlers only pass on ids that have been inserted.
LEMMA ApiStepKnown ==
    ASSUME TypeOK, FreshIds, KnownIds, NEW r \in Requests, ApiStep(r)
    PROVE  KnownIds'
<1> USE DEF store, redis, boot
<1>0. UNCHANGED wk
  BY ApiRows
<1>a. ASSUME OthersKept(r), UNCHANGED <<waiting, queue, scheduled>>, used \subseteq used',
             InFlight(r)' /\ ~Creating(r)' => api'[r].job \in used'
      PROVE  KnownIds'
  BY <1>0, <1>a, HandlerKnown DEF KnownIds
<1>b. ASSUME NEW pc \in ApiPcs, Goto(r, pc), InFlight(r), ~Creating(r) \/ pc \in CreatingPcs,
             used \subseteq used'
      PROVE  OthersKept(r) /\ (InFlight(r)' /\ ~Creating(r)' => api'[r].job \in used')
  BY <1>b, GotoFacts DEF ApiMoved, KnownIds, Creating
<1>c. ASSUME Respond(r)
      PROVE  OthersKept(r) /\ ~InFlight(r)'
  BY <1>c, RespondFacts DEF ApiAt, InFlight
<1>1. CASE \E j \in Jobs : CreateStart(r, j)
  <2>1. PICK j \in Jobs, pc \in {"find", "count_pending"} :
           CreateStart(r, j) /\ api' = [api EXCEPT ![r] = RequestAt(pc, j, "none")]
    BY <1>1 DEF CreateStart
  <2>2. OthersKept(r) /\ Creating(r)'
    BY <2>1, OpenFacts DEF ApiPcs, ApiAt, Creating, CreatingPcs
  <2> QED
    BY <1>a, <2>1, <2>2 DEF CreateStart
<1>2. CASE \E j \in Jobs : DeleteStart(r, j) \/ RetryStart(r, j) \/ CancelStart(r, j)
  <2>1. PICK j \in Jobs : DeleteStart(r, j) \/ RetryStart(r, j) \/ CancelStart(r, j)
    BY <1>2
  <2>2. UNCHANGED <<store, waiting, queue, scheduled>>
    BY <2>1 DEF DeleteStart, RetryStart, CancelStart, OpenRequest
  <2>3. CASE Respond(r)
    BY <1>a, <1>c, <2>2, <2>3
  <2>4. ASSUME Exists(j), NEW pc \in {"rmtree", "reset", "qm_cancel"},
               api' = [api EXCEPT ![r] = RequestAt(pc, j, rows[j].status)]
        PROVE  KnownIds'
    <3>1. j \in used /\ rows[j].status \in Statuses \cup {"none"} /\ pc \in ApiPcs
      BY <2>4 DEF FreshIds, Exists, TypeOK, Row, ApiPcs
    <3>2. ApiAt(r, pc, j)
      BY <2>4, <3>1, OpenFacts
    <3> QED
      BY <1>a, <2>2, <3>1, <3>2 DEF ApiAt
  <2> QED
    BY <2>1, <2>3, <2>4 DEF DeleteStart, RetryStart, CancelStart, OpenRequest
<1>3. CASE CreateInsert(r)
  <2>1. CASE Respond(r) /\ UNCHANGED <<rows, used>>
    BY <1>3, <1>a, <1>c, <2>1 DEF CreateInsert
  <2>2. CASE Goto(r, "params") /\ used' = used \cup {api[r].job}
    BY <1>3, <1>a, <2>2, GotoFacts DEF CreateInsert, ApiPcs, ApiMoved
  <2> QED
    BY <1>3, <2>1, <2>2 DEF CreateInsert
<1>4. CASE CreateFind(r)
  BY <1>4, <1>a, <1>b, <1>c DEF CreateFind, ApiPcs, CreatingPcs, InFlight
<1>5. CASE CreateCount(r)
  <2>1. OthersKept(r) /\ (Creating(r)' \/ api'[r].pc = "insert")
    BY <1>5, CountStepFacts DEF CreateCount, ApiPcs, CreatingPcs, Creating, ApiMoved
  <2> QED
    BY <1>5, <1>a, <2>1 DEF CreateCount, CountStep, Creating, CreatingPcs
<1>6. CASE \/ CreateReject(r) \/ DeleteRow(r) \/ CancelRmtree(r)
  BY <1>6, <1>a, <1>c DEF CreateReject, DeleteRow, CancelRmtree
<1>7. CASE \/ CreateParams(r) \/ DeleteRmtree(r) \/ RetryReset(r) \/ RqStop(r)
           \/ MarkCancelled(r) \/ RequestFails(r)
  <2>1. /\ UNCHANGED <<used, waiting, queue, scheduled>> /\ InFlight(r) /\ ~Creating(r)
        /\ \E pc \in ApiPcs : Goto(r, pc)
    BY <1>7 DEF CreateParams, DeleteRmtree, RetryReset, RqStop, MarkCancelled, RequestFails,
       InFlight, Creating, CreatingPcs, ApiPcs
  <2> QED
    BY <1>a, <1>b, <2>1
<1>8. CASE QmEnqueue(r) \/ QmCancel(r)
  <2>1. /\ UNCHANGED <<used, queue, scheduled>> /\ InFlight(r) /\ ~Creating(r)
        /\ \E pc \in ApiPcs : Goto(r, pc)
        /\ waiting' \subseteq waiting \cup {api[r].job}
    BY <1>8 DEF QmEnqueue, QmCancel, InFlight, Creating, CreatingPcs, ApiPcs
  <2>2. waiting' \subseteq used'
    BY <2>1 DEF KnownIds
  <2>3. OthersKept(r) /\ (InFlight(r)' /\ ~Creating(r)' => api'[r].job \in used')
    BY <1>b, <2>1
  <2> QED
    BY <1>0, <2>1, <2>2, <2>3, HandlerKnown DEF KnownIds
<1>9. CASE RqEnqueue(r)
  <2> DEFINE i == api[r].job
             n == queue[i]["submitted"] + 1
  <2>1. i \in used /\ i \in Jobs /\ "submitted" \in Calls
    BY <1>9 DEF RqEnqueue, KnownIds, InFlight, Creating, CreatingPcs, TypeOK, Calls
  <2>2. n \in Nat /\ queue \in [Jobs -> [Calls -> Nat]]
    BY <2>1 DEF TypeOK
  <2>3. queue' = [queue EXCEPT ![i]["submitted"] = n]
    BY <1>9 DEF RqEnqueue
  <2>4. \A j \in Jobs, c \in Calls : j # i => queue'[j][c] = queue[j][c]
    <3> HIDE DEF n, i
    <3> QED
      BY <2>1, <2>2, <2>3, CounterFacts
  <2>5. UNCHANGED <<used, waiting, scheduled>>
    BY <1>9 DEF RqEnqueue
  <2>6. \A j \in Jobs, c \in Calls : queue'[j][c] > 0 \/ scheduled'[j][c] > 0 => j \in used'
    BY <2>1, <2>4, <2>5 DEF KnownIds
  <2>7. OthersKept(r) /\ ~InFlight(r)'
    BY <1>9, <1>c DEF RqEnqueue
  <2> QED
    BY <1>0, <2>5, <2>6, <2>7, HandlerKnown DEF KnownIds
<1>10. CASE RqCancel(r)
  <2>1. InFlight(r) /\ ~Creating(r) /\ Goto(r, "rq_stop") /\ UNCHANGED <<used, waiting>>
    BY <1>10 DEF RqCancel, InFlight, Creating, CreatingPcs
  <2>2. api[r].job \in used /\ api[r].job \in Jobs
    BY <2>1 DEF KnownIds, TypeOK
  <2>3. \A j \in Jobs, c \in Calls :
           j # api[r].job => queue'[j][c] = queue[j][c] /\ scheduled'[j][c] = scheduled[j][c]
    <3>1. queue \in [Jobs -> [Calls -> Nat]] /\ scheduled \in [Jobs -> [Calls -> Nat]]
      BY DEF TypeOK
    <3>2. \A j \in Jobs \ {api[r].job} : /\ Dropped(queue, api[r].job)[j] = queue[j]
                                        /\ Dropped(scheduled, api[r].job)[j] = scheduled[j]
      BY <2>2, <3>1, DroppedFacts
    <3> QED
      BY <1>10, <3>2 DEF RqCancel
  <2>4. \A j \in Jobs, c \in Calls : queue'[j][c] > 0 \/ scheduled'[j][c] > 0 => j \in used'
    BY <2>1, <2>2, <2>3 DEF KnownIds
  <2>5. OthersKept(r) /\ (InFlight(r)' /\ ~Creating(r)' => api'[r].job \in used')
    BY <1>b, <2>1 DEF ApiPcs
  <2> QED
    BY <1>0, <2>1, <2>4, <2>5, HandlerKnown DEF KnownIds
<1> QED
  BY <1>1, <1>2, <1>3, <1>4, <1>5, <1>6, <1>7, <1>8, <1>9, <1>10 DEF ApiStep

\* So do the work-horses.
LEMMA PipelineKnown ==
    ASSUME TypeOK, KnownIds, NEW w \in Workers, Pipeline(w)
    PROVE  KnownIds'
<1> USE DEF store, redis, boot
<1> DEFINE i == wk[w].job
<1>0. /\ UNCHANGED <<used, api, queue>> /\ wk[w].pc # "idle" /\ i \in Jobs /\ i \in used
      /\ waiting' \subseteq waiting \cup {i}
      /\ ~HandleSchedule(w) => scheduled' = scheduled
  BY DEF Pipeline, TypeOK, KnownIds, Activate, MarkProcessing, Download, Extract,
     Reconstruct, Stage, Complete, Announce, Finally, HandleRead,
     HandleUpdate, HandleEnqueue, HandleSchedule, HandlerFails
<1>1. HorsesKept(w) /\ wk'[w].job \in {i, NoJob} /\ (wk'[w].pc # "idle" => wk'[w].job = i)
  <2>1. CASE Finally(w)
    BY <2>1, HorseAtFacts DEF Finally, IdleHorse, WorkerPcs, HorseAtJob
  <2>2. CASE HandleRead(w)
    BY <1>0, <2>2 DEF HandleRead, HorsesKept, TypeOK, Horse
  <2>3. CASE \E pc \in WorkerPcs : WGoto(w, pc)
    BY <2>3, WGotoFacts DEF HorseMoved
  <2>4. CASE \E e \in Errors : Raise(w, e)
    BY <2>4, RaiseFacts DEF HorseMoved
  <2>5. \/ Finally(w) \/ HandleRead(w)
        \/ \E pc \in WorkerPcs : WGoto(w, pc)
        \/ \E e \in Errors : Raise(w, e)
    BY DEF Pipeline, Activate, MarkProcessing, Download, Extract, Reconstruct, Stage, Complete,
       Announce, HandleUpdate, HandleEnqueue, HandleSchedule, HandlerFails, WorkerPcs, Errors
  <2> QED
    BY <2>1, <2>2, <2>3, <2>4, <2>5
<1>2. \A j \in Jobs, c \in Calls : scheduled'[j][c] > 0 => scheduled[j][c] > 0 \/ j = i
  <2>1. CASE HandleSchedule(w)
    <3> DEFINE c == RetryCall(wk[w].seen)
               n == scheduled[i][c] + 1
    <3>1. c \in Calls /\ n \in Nat /\ scheduled \in [Jobs -> [Calls -> Nat]]
      BY <1>0 DEF RetryCall, Calls, TypeOK
    <3>2. scheduled' = scheduled \/ scheduled' = [scheduled EXCEPT ![i][c] = n]
      BY <2>1 DEF HandleSchedule
    <3> HIDE DEF c, n, i
    <3> QED
      BY <1>0, <3>1, <3>2, CounterFacts
  <2>2. CASE ~HandleSchedule(w)
    BY <1>0, <2>2
  <2> QED
    BY <2>1, <2>2
<1>3. waiting' \subseteq used' /\ \A r \in Requests : InFlight(r)' = InFlight(r) /\ Creating(r)' = Creating(r)
  BY <1>0 DEF KnownIds, InFlight, Creating
<1>4. \A v \in Workers : wk'[v].pc # "idle" => wk'[v].job \in used'
  BY <1>0, <1>1 DEF KnownIds, HorsesKept
<1>5. \A j \in Jobs, c \in Calls : queue'[j][c] > 0 \/ scheduled'[j][c] > 0 => j \in used'
  BY <1>0, <1>2 DEF KnownIds
<1> QED
  BY <1>0, <1>3, <1>4, <1>5 DEF KnownIds

\* So does RQ.
LEMMA RqKnown ==
    ASSUME TypeOK, KnownIds,
           \/ \E w \in Workers : RqStep(w)
           \/ \E j \in Jobs, c \in Calls : Dispatch(j, c)
    PROVE  KnownIds'
<1> USE DEF store, boot
<1>1. ASSUME NEW w \in Workers, NEW j \in Jobs, NEW c \in Calls, Dequeue(w, j, c)
      PROVE  KnownIds'
  <2> DEFINE n == queue[j][c] - 1
  <2>1. n \in Nat /\ queue' = [queue EXCEPT ![j][c] = n] /\ queue[j][c] > 0
        /\ UNCHANGED <<used, waiting, scheduled, api>>
    BY <1>1 DEF Dequeue, TypeOK
  <2>2. \A i \in Jobs, d \in Calls : queue'[i][d] > 0 => queue[i][d] > 0
    <3>1. \A i \in Jobs, d \in Calls : i # j \/ d # c => queue'[i][d] = queue[i][d]
      <4> HIDE DEF n
      <4> QED
        BY <2>1, CounterFacts DEF TypeOK
    <3> QED
      BY <2>1, <3>1
  <2>3. wk' = wk \/ HorseAtJob(w, "activate", j)
    BY <1>1, HorseAtFacts DEF Dequeue, WorkerPcs
  <2>4. j \in used
    BY <2>1 DEF KnownIds
  <2> QED
    BY <2>1, <2>2, <2>3, <2>4 DEF KnownIds, HorseAtJob, HorsesKept, InFlight, Creating
<1>2. ASSUME NEW w \in Workers, UNCHANGED wk \/ Killed(w),
             UNCHANGED <<store, waiting, queue, scheduled, api>>
      PROVE  KnownIds'
  <2>1. wk' = wk \/ HorseAtJob(w, "idle", NoJob)
    BY <1>2, HorseAtFacts DEF Killed, IdleHorse, WorkerPcs
  <2> QED
    BY <1>2, <2>1 DEF KnownIds, HorseAtJob, HorsesKept, InFlight, Creating
<1>3. ASSUME NEW w \in Workers, NEW j \in Jobs, DeliverStop(w, j) PROVE KnownIds'
  BY <1>2, <1>3 DEF DeliverStop
<1>4. ASSUME NEW w \in Workers, WorkerCrash(w) PROVE KnownIds'
  BY <1>2, <1>4 DEF WorkerCrash
<1>5. ASSUME NEW j \in Jobs, NEW c \in Calls, Dispatch(j, c) PROVE KnownIds'
  <2> DEFINE n == queue[j][c] + 1
             m == scheduled[j][c] - 1
  <2>1. /\ n \in Nat /\ m \in Nat
        /\ queue' = [queue EXCEPT ![j][c] = n] /\ scheduled' = [scheduled EXCEPT ![j][c] = m]
        /\ UNCHANGED <<used, waiting, api, wk>>
        /\ j \in used
    BY <1>5 DEF Dispatch, TypeOK, KnownIds
  <2>2. \A i \in Jobs, d \in Calls : i # j =>
          queue'[i][d] = queue[i][d] /\ scheduled'[i][d] = scheduled[i][d]
    <3> HIDE DEF n, m
    <3> QED
      BY <2>1, CounterFacts DEF TypeOK
  <2> QED
    BY <2>1, <2>2 DEF KnownIds, InFlight, Creating
<1> QED
  BY <1>1, <1>3, <1>4, <1>5 DEF RqStep

\* KnownIds is an invariant of the system.
LEMMA KnownIdsInvariant == Spec => []KnownIds
<1>1. Init => KnownIds
  BY DEF Init, KnownIds, IdleRequest, RequestAt, IdleHorse, HorseAt, InFlight
<1>2. TypeOK /\ FreshIds /\ KnownIds /\ [Next]_vars => KnownIds'
  <2> SUFFICES ASSUME TypeOK, FreshIds, KnownIds, [Next]_vars PROVE KnownIds'
    OBVIOUS
  <2> USE DEF store, redis
  <2>1. CASE ServerCrash
    <3>1. \A r \in Requests : ~InFlight(r)'
      BY <2>1 DEF ServerCrash, InFlight, DoneRequest, RequestAt
    <3> QED
      BY <2>1, <3>1 DEF ServerCrash, KnownIds
  <2>2. CASE CleanupExpired \/ FailStaleJobs \/ UNCHANGED vars
    BY <2>2 DEF CleanupExpired, FailStaleJobs, vars, KnownIds, InFlight, Creating
  <2> QED
    BY <2>1, <2>2, ApiStepKnown, PipelineKnown, RqKnown DEF Next
<1> QED
  BY <1>1, <1>2, TypeCorrect, FreshIdsInvariant, PTL DEF Spec
-----------------------------------------------------------------------------
(* Systems without cancellation and restart *)

\* Where neither a cancellation nor a restart can happen, none is under way.
NoCancelNoRestart == "cancel" \notin Ops /\ MaxRestarts = 0
CancelPcs == {"qm_cancel", "rq_cancel", "rq_stop", "mark_cancelled", "publish"}
Calm ==
    /\ server = "up" /\ restarts = 0
    /\ \A r \in Requests : api[r].pc \notin CancelPcs

\* A handler never comes upon a step of a cancellation, and does not stop the
\* server.
LEMMA ApiStepCalm ==
    ASSUME NoCancelNoRestart, TypeOK, Calm, NEW r \in Requests, ApiStep(r)
    PROVE  /\ OthersKept(r) /\ api'[r].pc \notin CancelPcs
           /\ UNCHANGED boot
           /\ \A j \in Jobs : ~CancelStart(r, j)
           /\ ~(QmCancel(r) \/ RqCancel(r) \/ RqStop(r) \/ MarkCancelled(r) \/ CancelRmtree(r))
<1> USE DEF boot, store, redis
<1>1. /\ \A j \in Jobs : ~CancelStart(r, j)
      /\ ~(QmCancel(r) \/ RqCancel(r) \/ RqStop(r) \/ MarkCancelled(r) \/ CancelRmtree(r))
  BY DEF NoCancelNoRestart, CancelStart, OpenRequest, CanStart, QmCancel, RqCancel, RqStop,
     MarkCancelled, CancelRmtree, Calm, CancelPcs
<1>2. /\ UNCHANGED boot
      /\ \/ Respond(r)
         \/ \E pc \in ApiPcs \ CancelPcs : Goto(r, pc)
         \/ CreateCount(r)
         \/ \E j \in Jobs, pc \in ApiPcs \ CancelPcs, s \in Statuses \cup {"none"} :
               api' = [api EXCEPT ![r] = RequestAt(pc, j, s)]
  <2>1. CASE \E j \in Jobs : CreateStart(r, j)
    BY <2>1 DEF CreateStart, ApiPcs, CancelPcs
  <2>2. CASE \E j \in Jobs : DeleteStart(r, j) \/ RetryStart(r, j)
    <3>1. \A j \in Jobs : rows[j].status \in Statuses \cup {"none"}
      BY DEF TypeOK, Row
    <3> QED
      BY <2>2, <3>1 DEF DeleteStart, RetryStart, OpenRequest, ApiPcs, CancelPcs
  <2>3. CASE CreateCount(r)
    BY <2>3 DEF CreateCount, CountStep
  <2>4. CASE CreateFind(r) \/ CreateInsert(r) \/ CreateParams(r) \/ QmEnqueue(r) \/ DeleteRmtree(r)
             \/ RetryReset(r) \/ RequestFails(r)
    BY <2>4 DEF CreateFind, CreateInsert, CreateParams, QmEnqueue, DeleteRmtree, RetryReset,
       RequestFails, ApiPcs, CancelPcs
  <2>5. CASE CreateReject(r) \/ RqEnqueue(r) \/ DeleteRow(r)
    BY <2>5 DEF CreateReject, RqEnqueue, DeleteRow
  <2> QED
    BY <1>1, <2>1, <2>2, <2>3, <2>4, <2>5 DEF ApiStep
<1>3. CASE Respond(r)
  BY <1>1, <1>2, <1>3, RespondFacts DEF ApiAt, CancelPcs
<1>4. CASE \E pc \in ApiPcs \ CancelPcs : Goto(r, pc)
  BY <1>1, <1>2, <1>4, GotoFacts DEF ApiMoved
<1>5. CASE CreateCount(r)
  BY <1>1, <1>2, <1>5, CountStepFacts DEF CreateCount, ApiPcs, CancelPcs, ApiMoved
<1>6. CASE \E j \in Jobs, pc \in ApiPcs \ CancelPcs, s \in Statuses \cup {"none"} :
               api' = [api EXCEPT ![r] = RequestAt(pc, j, s)]
  BY <1>1, <1>2, <1>6, OpenFacts DEF ApiAt
<1> QED
  BY <1>2, <1>3, <1>4, <1>5, <1>6

\* The steps of the others leave the handlers alone.
LEMMA OthersCalm ==
    ASSUME NoCancelNoRestart, TypeOK, Calm, [Next]_vars, \A r \in Requests : ~ApiStep(r)
    PROVE  /\ UNCHANGED <<api, boot>>
           /\ \/ \E w \in Workers : Pipeline(w) \/ RqStep(w)
              \/ \E j \in Jobs, c \in Calls : Dispatch(j, c)
              \/ UNCHANGED vars
<1> USE DEF boot
<1>1. ~(ServerCrash \/ CleanupExpired \/ FailStaleJobs)
  BY DEF Calm, NoCancelNoRestart, ServerCrash, CleanupExpired, FailStaleJobs
<1>2. ASSUME NEW w \in Workers, Pipeline(w) PROVE UNCHANGED <<api, boot>>
  BY <1>2 DEF Pipeline, Activate, MarkProcessing, Download, Extract,
     Reconstruct, Stage, Complete, Announce, Finally, HandleRead,
     HandleUpdate, HandleEnqueue, HandleSchedule, HandlerFails
<1>3. ASSUME NEW w \in Workers, RqStep(w) PROVE UNCHANGED <<api, boot>>
  BY <1>3 DEF RqStep, Dequeue, DeliverStop, WorkerCrash
<1>4. ASSUME NEW j \in Jobs, NEW c \in Calls, Dispatch(j, c) PROVE UNCHANGED <<api, boot>>
  BY <1>4 DEF Dispatch
<1>5. CASE UNCHANGED vars
  BY <1>5 DEF vars
<1> QED
  BY <1>1, <1>2, <1>3, <1>4, <1>5 DEF Next

\* No cancellation and no start-up is ever under way.
LEMMA CalmInvariant ==
    ASSUME NoCancelNoRestart
    PROVE  Spec => []Calm
<1>1. Init => Calm
  BY DEF Init, Calm, CancelPcs, IdleRequest, RequestAt
<1>2. TypeOK /\ Calm /\ [Next]_vars => Calm'
  <2> SUFFICES ASSUME TypeOK, Calm, [Next]_vars PROVE Calm'
    OBVIOUS
  <2>1. ASSUME NEW r \in Requests, ApiStep(r) PROVE Calm'
    BY <2>1, ApiStepCalm DEF Calm, OthersKept, boot
  <2>2. CASE \A r \in Requests : ~ApiStep(r)
    BY <2>2, OthersCalm DEF Calm, boot
  <2> QED
    BY <2>1, <2>2
<1> QED
  BY <1>1, <1>2, TypeCorrect, PTL DEF Spec
\* The files of j are there, or its row is gone or about to go.
Kept(j) ==
    \/ j \in dirs \/ ~Exists(j)
    \/ \E r \in Requests : api[r].job = j /\ api[r].pc = "delete_row"

\* CompletedHasFiles needs that a worker about to write "completed" has left
\* the files its last stage required.
FilesInv ==
    /\ \A j \in Jobs : rows[j].status = "completed" => Kept(j)
    /\ \A w \in Workers : wk[w].pc = "complete" => Kept(wk[w].job)

\* What is kept stays so: delete_job removes the files before the row.
LEMMA KeptStays ==
    ASSUME NoCancelNoRestart, TypeOK, FreshIds, Calm, [Next]_vars,
           NEW j \in Jobs, j \in used, Kept(j)
    PROVE  Kept(j)'
<1> USE DEF store, redis, boot
<1>1. CASE ~Exists(j)
  BY <1>1, GoneStays DEF Kept
<1>2. ASSUME NEW r \in Requests, ApiStep(r) PROVE Kept(j)'
  <2>1. CASE DeleteRmtree(r)
    <3>1. ApiMoved(r, "delete_row")
      BY <2>1, GotoFacts DEF DeleteRmtree, ApiPcs
    <3>2. dirs' = dirs \ {api[r].job} /\ rows' = rows /\ api[r].pc = "rmtree"
      BY <2>1 DEF DeleteRmtree
    <3> QED
      BY <3>1, <3>2 DEF Kept, Exists, ApiMoved, OthersKept
  <2>2. CASE DeleteRow(r)
    <3>1. api[r].job \in Jobs /\ dirs' = dirs /\ api[r].pc = "delete_row"
          /\ rows' = [rows EXCEPT ![api[r].job] = NoRow] /\ OthersKept(r)
      BY <1>2, <2>2, ApiStepCalm DEF DeleteRow, TypeOK, InFlight
    <3> QED
      BY <3>1 DEF Kept, Exists, OthersKept, NoRow, TypeOK
  <2>3. CASE ~DeleteRmtree(r) /\ ~DeleteRow(r)
    <3>1. dirs' = dirs /\ api[r].pc # "delete_row"
      BY <1>2, <2>3, ApiStepCalm DEF ApiStep, CreateStart, DeleteStart, RetryStart, OpenRequest,
         CanStart, CreateReject, CreateFind, CreateCount, CountStep, CreateInsert, CreateParams,
         QmEnqueue, RqEnqueue, RetryReset, RequestFails
    <3> QED
      BY <1>1, <1>2, <3>1, ApiStepCalm DEF Kept, OthersKept
  <2> QED
    BY <2>1, <2>2, <2>3
<1>3. CASE \A r \in Requests : ~ApiStep(r)
  <2>1. /\ UNCHANGED api
        /\ \/ \E w \in Workers : Pipeline(w) \/ RqStep(w)
           \/ \E i \in Jobs, c \in Calls : Dispatch(i, c)
           \/ UNCHANGED vars
    BY <1>3, OthersCalm
  <2>2. dirs \subseteq dirs'
    BY <2>1 DEF Pipeline, Activate, MarkProcessing, Download, Extract,
       Reconstruct, Stage, Complete, Announce, Finally, HandleRead,
       HandleUpdate, HandleEnqueue, HandleSchedule, HandlerFails, RqStep, Dequeue, DeliverStop,
       WorkerCrash, Dispatch, vars
  <2> QED
    BY <1>1, <2>1, <2>2 DEF Kept
<1> QED
  BY <1>2, <1>3

\* Only a worker makes a job completed.
LEMMA OnlyWorkersComplete ==
    ASSUME TypeOK, [Next]_vars, NEW j \in Jobs, rows'[j].status = "completed"
    PROVE  \/ rows[j].status = "completed"
           \/ \E w \in Workers : wk[w].job = j /\ wk[w].pc = "complete"
<1> USE DEF store, redis, boot
<1>a. ASSUME rows' = rows PROVE rows[j].status = "completed"
  BY <1>a
<1>1. ASSUME NEW r \in Requests, ApiStep(r) PROVE rows[j].status = "completed"
  <2>1. CASE CreateInsert(r)
    BY <2>1 DEF CreateInsert, WithStatus, NoRow, TypeOK
  <2>2. CASE DeleteRow(r)
    BY <2>2 DEF DeleteRow, NoRow, TypeOK
  <2>3. CASE CreateParams(r) \/ RetryReset(r) \/ MarkCancelled(r)
    <3> DEFINE i == api[r].job
    <3>1. i \in Jobs /\ rows[i] \in Row
      BY <2>3 DEF CreateParams, RetryReset, MarkCancelled, TypeOK, InFlight
    <3>2. PICK row \in Row : rows' = Updated(i, row) /\ row.status \in {rows[i].status, "pending", "cancelled"}
      <4>1. CASE CreateParams(r)
        <5>1. [rows[i] EXCEPT !.params = TRUE] \in Row
              /\ [rows[i] EXCEPT !.params = TRUE].status = rows[i].status
          BY <3>1 DEF Row
        <5> QED
          BY <4>1, <5>1 DEF CreateParams
      <4>2. CASE RetryReset(r)
        <5> DEFINE new == [rows[i] EXCEPT !.status = "pending", !.retry_count = 0]
        <5>1. new \in Row /\ new.status = "pending"
          BY <3>1 DEF Row, Statuses
        <5>2. rows' = Updated(i, new)
          BY <4>2 DEF RetryReset
        <5> HIDE DEF new
        <5> QED
          BY <5>1, <5>2
      <4>3. CASE MarkCancelled(r)
        BY <3>1, <4>3, WithStatusFacts DEF MarkCancelled, Statuses
      <4> QED
        BY <2>3, <4>1, <4>2, <4>3
    <3> HIDE DEF i
    <3> QED
      BY <3>1, <3>2, UpdatedFacts DEF RowsChangedAt
  <2> QED
    BY <1>1, <1>a, <2>1, <2>2, <2>3 DEF ApiStep, CreateStart, DeleteStart, RetryStart,
       CancelStart, OpenRequest, CreateReject, CreateFind, CreateCount, CountStep,
       QmEnqueue, RqEnqueue, DeleteRmtree, QmCancel, RqCancel, RqStop, CancelRmtree, RequestFails
<1>2. ASSUME NEW w \in Workers, Pipeline(w)
      PROVE  rows[j].status = "completed" \/ (wk[w].job = j /\ wk[w].pc = "complete")
  <2>0. rows[j] \in Row
    BY DEF TypeOK
  <2>1. CASE MarkProcessing(w) \/ HandleUpdate(w)
    <3> DEFINE i == wk[w].job
               n == wk[w].seen.retry_count + 1
               again == [rows[i] EXCEPT !.status = "retrying", !.retry_count = n]
    <3>1. i \in Jobs /\ rows[i] \in Row /\ n \in Nat
      BY <2>1 DEF MarkProcessing, HandleUpdate, TypeOK, Horse, Row
    <3>2. again \in Row /\ again.status # "completed"
      <4> HIDE DEF n
      <4> QED
        BY <3>1, RecountFacts DEF Statuses
    <3>3. PICK row \in Row : rows' = Updated(i, row) /\ row.status # "completed"
      BY <2>1, <3>1, <3>2, WithStatusFacts DEF MarkProcessing, HandleUpdate, FailedRow, Statuses
    <3> HIDE DEF i
    <3> QED
      BY <3>1, <3>3, UpdatedFacts DEF RowsChangedAt
  <2>2. CASE Complete(w)
    BY <2>2 DEF Complete, Updated, TypeOK
  <2> QED
    BY <1>2, <1>a, <2>1, <2>2 DEF Pipeline, Activate, Download, Extract, Reconstruct,
       Stage, Announce, Finally, HandleRead, HandleEnqueue, HandleSchedule, HandlerFails
<1>3. CASE \/ \E w \in Workers : RqStep(w)
           \/ \E i \in Jobs, c \in Calls : Dispatch(i, c)
           \/ UNCHANGED vars \/ ServerCrash
  BY <1>a, <1>3 DEF RqStep, Dequeue, DeliverStop, WorkerCrash, Dispatch, vars, ServerCrash
<1>4. CASE CleanupExpired
  BY <1>4 DEF CleanupExpired, NoRow
<1>5. CASE FailStaleJobs
  BY <1>5 DEF FailStaleJobs, StaleStatuses, WithStatus, TypeOK, Row
<1> QED
  BY <1>1, <1>2, <1>3, <1>4, <1>5 DEF Next

\* A worker gets to write "completed" by a last stage that found the files.
LEMMA CompleteReached ==
    ASSUME TypeOK, [Next]_vars, NEW w \in Workers, wk'[w].pc = "complete"
    PROVE  /\ wk'[w].job = wk[w].job
           /\ wk[w].pc = "complete" \/ (wk[w].job \in dirs' /\ wk[w].pc # "idle")
<1> USE DEF store, redis, boot
<1>a. CASE wk' = wk
  BY <1>a
<1>1. ASSUME NEW v \in Workers, HorsesKept(v),
             v = w => wk'[v].pc # "complete" \/ Reconstruct(v)
      PROVE  /\ wk'[w].job = wk[w].job
             /\ wk[w].pc = "complete" \/ (wk[w].job \in dirs' /\ wk[w].pc # "idle")
  <2>1. CASE v # w
    BY <1>1, <2>1 DEF HorsesKept
  <2>2. CASE v = w
    BY <1>1, <2>2 DEF Reconstruct, Stage, WGoto, Raise, TypeOK, Horse
  <2> QED
    BY <2>1, <2>2
<1>2. ASSUME NEW v \in Workers, Pipeline(v)
      PROVE  HorsesKept(v) /\ (wk'[v].pc # "complete" \/ Reconstruct(v))
  <2>1. CASE Reconstruct(v)
    BY <2>1 DEF Reconstruct, Stage, WGoto, Raise, HorsesKept, TypeOK
  <2>2. CASE Finally(v)
    BY <2>2, HorseAtFacts DEF Finally, IdleHorse, WorkerPcs, HorseAtJob
  <2>3. CASE HandleRead(v)
    BY <2>3 DEF HandleRead, HorsesKept, TypeOK
  <2>4. CASE \E pc \in WorkerPcs \ {"complete"} : WGoto(v, pc)
    BY <2>4, WGotoFacts DEF HorseMoved
  <2>5. CASE \E e \in Errors : Raise(v, e)
    BY <2>5, RaiseFacts DEF HorseMoved
  <2>6. \/ Reconstruct(v) \/ Finally(v) \/ HandleRead(v)
        \/ \E pc \in WorkerPcs \ {"complete"} : WGoto(v, pc)
        \/ \E e \in Errors : Raise(v, e)
    BY <1>2 DEF Pipeline, Activate, MarkProcessing, Download, Extract, Stage, Complete,
       Announce, HandleUpdate, HandleEnqueue, HandleSchedule, HandlerFails, WorkerPcs, Errors
  <2> QED
    BY <2>1, <2>2, <2>3, <2>4, <2>5, <2>6
<1>3. ASSUME NEW v \in Workers, RqStep(v)
      PROVE  wk' = wk \/ (HorsesKept(v) /\ wk'[v].pc # "complete")
  <2>1. \/ wk' = wk \/ Killed(v)
        \/ \E i \in Jobs : wk' = [wk EXCEPT ![v] = HorseAt("activate", i)]
    BY <1>3 DEF RqStep, Dequeue, DeliverStop, WorkerCrash
  <2> QED
    BY <2>1, HorseAtFacts DEF Killed, IdleHorse, WorkerPcs, HorseAtJob
<1>4. ASSUME ~\E v \in Workers : Pipeline(v) \/ RqStep(v) PROVE wk' = wk
  BY <1>4, ApiRows, RestartRows DEF Next, Dispatch, vars
<1> QED
  BY <1>a, <1>1, <1>2, <1>3, <1>4

\* A job shown as completed has its files or is being deleted, for any number
\* of executions, retries and deletions of it, with dying workers and Redis
\* failures, where nobody cancels and the server does not restart.
THEOREM CompletedKeepFiles ==
    ASSUME NoCancelNoRestart
    PROVE  Spec => []CompletedHasFiles
<1>1. Init => FilesInv
  BY DEF Init, FilesInv, NoRow, IdleHorse, HorseAt
<1>2. TypeOK /\ FreshIds /\ KnownIds /\ Calm /\ FilesInv /\ [Next]_vars => FilesInv'
  <2> SUFFICES ASSUME TypeOK, FreshIds, KnownIds, Calm, FilesInv, [Next]_vars PROVE FilesInv'
    OBVIOUS
  <2>1. ASSUME NEW j \in Jobs, rows'[j].status = "completed" PROVE Kept(j)'
    <3>1. Kept(j) /\ j \in used
      BY <2>1, OnlyWorkersComplete DEF FilesInv, FreshIds, KnownIds
    <3> QED
      BY <3>1, KeptStays
  <2>2. ASSUME NEW w \in Workers, wk'[w].pc = "complete", NEW i, i = wk'[w].job
        PROVE  Kept(i)'
    <3>1. i = wk[w].job
      BY <2>2, CompleteReached
    <3>2. CASE wk[w].pc = "complete"
      <4>1. Kept(i) /\ i \in used /\ i \in Jobs
        BY <3>1, <3>2 DEF FilesInv, KnownIds, TypeOK
      <4> QED
        BY <4>1, KeptStays
    <3>3. CASE i \in dirs'
      BY <3>3 DEF Kept
    <3> QED
      BY <2>2, <3>1, <3>2, <3>3, CompleteReached
  <2> QED
    BY <2>1, <2>2 DEF FilesInv, Kept, Exists
<1>3. FilesInv => CompletedHasFiles
  BY DEF FilesInv, CompletedHasFiles, Kept, Exists
<1> QED
  BY <1>1, <1>2, <1>3, TypeCorrect, FreshIdsInvariant, KnownIdsInvariant, CalmInvariant, PTL
     DEF Spec
-----------------------------------------------------------------------------
\* The error handler after it has read the row.
HandlingPcs == {"h_update", "h_enqueue", "h_schedule"}

\* An error handler that found no row is about a job that has none.
SeenGone ==
    \A w \in Workers : wk[w].pc \in HandlingPcs /\ wk[w].seen.status = "none" => ~Exists(wk[w].job)

\* A handler has the row it read when it began.
LEMMA HandlingReached ==
    ASSUME TypeOK, [Next]_vars, NEW w \in Workers, wk'[w].pc \in HandlingPcs
    PROVE  /\ wk'[w].job = wk[w].job
           /\ \/ wk[w].pc \in HandlingPcs /\ wk'[w].seen = wk[w].seen
              \/ wk[w].pc # "idle" /\ wk'[w].seen = rows[wk[w].job] /\ rows' = rows
<1> USE DEF store, redis, boot
<1> DEFINE Goal ==
      /\ wk'[w].job = wk[w].job
      /\ \/ wk[w].pc \in HandlingPcs /\ wk'[w].seen = wk[w].seen
         \/ wk[w].pc # "idle" /\ wk'[w].seen = rows[wk[w].job] /\ rows' = rows
<1>a. CASE wk' = wk
  BY <1>a
<1>1. ASSUME NEW v \in Workers, v # w, HorsesKept(v) PROVE Goal
  BY <1>1 DEF HorsesKept
<1>2. ASSUME NEW v \in Workers, Pipeline(v) PROVE Goal
  <2>1. CASE HandleRead(v)
    <3>1. HorsesKept(v)
      BY <2>1 DEF HandleRead, HorsesKept, TypeOK
    <3> QED
      BY <1>1, <2>1, <3>1 DEF HandleRead, TypeOK, Horse
  <2>2. CASE HandleUpdate(v) \/ HandleEnqueue(v)
    <3>1. wk[v].pc \in HandlingPcs /\ \E pc \in WorkerPcs : WGoto(v, pc)
      BY <2>2 DEF HandleUpdate, HandleEnqueue, HandlingPcs, WorkerPcs
    <3>2. HorsesKept(v) /\ wk'[v].job = wk[v].job /\ wk'[v].seen = wk[v].seen
      <4>1. PICK pc \in WorkerPcs : WGoto(v, pc)
        BY <3>1
      <4>2. HorseMoved(v, pc)
        BY <4>1, WGotoFacts
      <4>3. wk'[v].seen = wk[v].seen
        BY <4>1 DEF WGoto, TypeOK, Horse
      <4> QED
        BY <4>2, <4>3 DEF HorseMoved
    <3> QED
      BY <1>1, <3>1, <3>2
  <2>3. CASE Finally(v)
    BY <1>1, <2>3, HorseAtFacts DEF Finally, IdleHorse, WorkerPcs, HorseAtJob, HandlingPcs
  <2>4. CASE \E pc \in WorkerPcs \ HandlingPcs : WGoto(v, pc)
    BY <1>1, <2>4, WGotoFacts DEF HorseMoved
  <2>5. CASE \E e \in Errors : Raise(v, e)
    BY <1>1, <2>5, RaiseFacts DEF HorseMoved, HandlingPcs
  <2>6. \/ HandleRead(v) \/ HandleUpdate(v) \/ HandleEnqueue(v) \/ Finally(v)
        \/ \E pc \in WorkerPcs \ HandlingPcs : WGoto(v, pc)
        \/ \E e \in Errors : Raise(v, e)
    BY <1>2 DEF Pipeline, Activate, MarkProcessing, Download, Extract, Reconstruct, Stage, Complete,
       Announce, HandleSchedule, HandlerFails, WorkerPcs, Errors, HandlingPcs
  <2> QED
    BY <2>1, <2>2, <2>3, <2>4, <2>5, <2>6
<1>3. ASSUME NEW v \in Workers, RqStep(v) PROVE Goal
  <2>1. \/ wk' = wk \/ Killed(v)
        \/ \E i \in Jobs : wk' = [wk EXCEPT ![v] = HorseAt("activate", i)]
    BY <1>3 DEF RqStep, Dequeue, DeliverStop, WorkerCrash
  <2>2. wk' = wk \/ (HorsesKept(v) /\ wk'[v].pc \notin HandlingPcs)
    BY <2>1, HorseAtFacts DEF Killed, IdleHorse, WorkerPcs, HorseAtJob, HandlingPcs
  <2> QED
    BY <1>a, <1>1, <2>2
<1>4. ASSUME ~\E v \in Workers : Pipeline(v) \/ RqStep(v) PROVE wk' = wk
  BY <1>4, ApiRows, RestartRows DEF Next, Dispatch, vars
<1> QED
  BY <1>a, <1>2, <1>3, <1>4

\* SeenGone is an invariant of the system.
LEMMA SeenGoneInvariant == Spec => []SeenGone
<1>1. Init => SeenGone
  BY DEF Init, SeenGone, HandlingPcs, IdleHorse, HorseAt
<1>2. TypeOK /\ FreshIds /\ KnownIds /\ SeenGone /\ [Next]_vars => SeenGone'
  <2> SUFFICES ASSUME TypeOK, FreshIds, KnownIds, SeenGone, [Next]_vars,
                      NEW w \in Workers, wk'[w].pc \in HandlingPcs, wk'[w].seen.status = "none",
                      NEW i, i = wk'[w].job
               PROVE  ~Exists(i)'
    BY DEF SeenGone, Exists
  <2>1. i = wk[w].job /\ i \in used /\ i \in Jobs
    BY HandlingReached DEF KnownIds, TypeOK, HandlingPcs
  <2>2. CASE wk[w].pc \in HandlingPcs /\ wk'[w].seen = wk[w].seen
    BY <2>1, <2>2, GoneStays DEF SeenGone
  <2>3. CASE wk'[w].seen = rows[i] /\ rows' = rows
    BY <2>3 DEF Exists
  <2> QED
    BY <2>1, <2>2, <2>3, HandlingReached
<1> QED
  BY <1>1, <1>2, TypeCorrect, FreshIdsInvariant, KnownIdsInvariant, PTL DEF Spec
-----------------------------------------------------------------------------
\* What carries a job of the waiting set on; the three parts that a step may
\* take away are named.
Entry(j) == \E c \in Calls : queue[j][c] + scheduled[j][c] > 0
ApiQueues(r, j) == api[r].job = j /\ api[r].pc = "rq_enqueue"
WkQueues(w, j) == wk[w].job = j /\ wk[w].pc \in {"activate", "h_schedule"}
OnItsWay(j) ==
    \/ Entry(j)
    \/ \E r \in Requests : ApiQueues(r, j)
    \/ \E w \in Workers : WkQueues(w, j)
    \/ j \in rqFailed

\* A handler queues the job it has put into the waiting set.
LEMMA ApiStepWaits ==
    ASSUME NoCancelNoRestart, ~RedisFaults, TypeOK, FreshIds, KnownIds, Calm,
           NEW r \in Requests, ApiStep(r),
           NEW j \in Jobs, j \in waiting => OnItsWay(j), j \in waiting'
    PROVE  OnItsWay(j)'
<1> USE DEF store, redis, boot
<1>0. UNCHANGED <<wk, rqFailed>> /\ OthersKept(r)
  BY ApiRows, ApiStepCalm
<1>a. ASSUME j \in waiting, Entry(j) => Entry(j)', ~ApiQueues(r, j) \/ Entry(j)'
      PROVE  OnItsWay(j)'
  BY <1>0, <1>a DEF OnItsWay, ApiQueues, WkQueues, OthersKept
<1>1. CASE QmEnqueue(r)
  <2>1. ApiMoved(r, "rq_enqueue") /\ waiting' = waiting \cup {api[r].job} /\ api[r].pc = "qm_enqueue"
    BY <1>1, GotoFacts DEF QmEnqueue, ApiPcs
  <2>2. CASE j = api[r].job
    BY <2>1, <2>2 DEF OnItsWay, ApiQueues, ApiMoved
  <2>3. CASE j # api[r].job
    BY <1>1, <1>a, <2>1, <2>3 DEF QmEnqueue, ApiQueues, Entry
  <2> QED
    BY <2>2, <2>3
<1>2. CASE RqEnqueue(r)
  <2> DEFINE i == api[r].job
             n == queue[i]["submitted"] + 1
  <2>1. i \in Jobs /\ "submitted" \in Calls /\ UNCHANGED <<waiting, scheduled>>
        /\ queue' = [queue EXCEPT ![i]["submitted"] = n]
    BY <1>2 DEF RqEnqueue, TypeOK, InFlight, Calls
  <2>2. n \in Nat /\ n > 0 /\ queue \in [Jobs -> [Calls -> Nat]]
    BY <2>1 DEF TypeOK
  <2>3. /\ queue' \in [Jobs -> [Calls -> Nat]]
        /\ queue'[i]["submitted"] = n
        /\ \A k \in Jobs, d \in Calls : k # i \/ d # "submitted" => queue'[k][d] = queue[k][d]
    <3> HIDE DEF n, i
    <3> QED
      BY <2>1, <2>2, CounterFacts
  <2>4. j = i => Entry(j)'
    BY <2>1, <2>2, <2>3 DEF Entry, TypeOK
  <2>5. j # i => (Entry(j) => Entry(j)')
    BY <2>1, <2>3 DEF Entry
  <2> QED
    BY <1>a, <2>1, <2>4, <2>5 DEF ApiQueues
<1>3. CASE ~QmEnqueue(r) /\ ~RqEnqueue(r)
  <2>1. UNCHANGED <<waiting, queue, scheduled>> /\ api[r].pc # "rq_enqueue"
    BY <1>3, ApiStepCalm DEF ApiStep, CreateStart, DeleteStart, RetryStart, OpenRequest,
       CanStart, CreateReject, CreateFind, CreateCount, CountStep, CreateInsert, CreateParams,
       DeleteRmtree, DeleteRow, RetryReset, RequestFails
  <2> QED
    BY <1>a, <2>1 DEF ApiQueues, Entry
<1> QED
  BY <1>1, <1>2, <1>3

\* run_pipeline takes its job out of the waiting set when it begins; the
\* error handler schedules the one it puts back, if there is a row.
LEMMA PipelineWaits ==
    ASSUME TypeOK, SeenGone, NEW w \in Workers, Pipeline(w), ~RedisFaults,
           NEW j \in Jobs, j \in waiting => OnItsWay(j), j \in waiting', Exists(j)'
    PROVE  OnItsWay(j)'
<1> USE DEF store, redis, boot
<1> DEFINE i == wk[w].job
<1>0. UNCHANGED <<api, queue>> /\ rqFailed \subseteq rqFailed' /\ i \in Jobs
  BY DEF Pipeline, TypeOK, Activate, MarkProcessing, Download, Extract,
     Reconstruct, Stage, Complete, Announce, Finally, HandleRead,
     HandleUpdate, HandleEnqueue, HandleSchedule, HandlerFails
<1>a. ASSUME j \in waiting, Entry(j) => Entry(j)', HorsesKept(w), ~WkQueues(w, j) \/ Entry(j)'
      PROVE  OnItsWay(j)'
  BY <1>0, <1>a DEF OnItsWay, ApiQueues, WkQueues, HorsesKept
<1>1. CASE Activate(w)
  <2>1. HorsesKept(w) /\ j # i /\ j \in waiting /\ scheduled' = scheduled
    BY <1>1, WGotoFacts DEF Activate, WorkerPcs, HorseMoved
  <2> QED
    BY <1>0, <1>a, <2>1 DEF WkQueues, Entry
<1>2. CASE HandleEnqueue(w)
  <2>1. HorseMoved(w, "h_schedule") /\ waiting' = waiting \cup {i} /\ scheduled' = scheduled
    BY <1>2, WGotoFacts DEF HandleEnqueue, WorkerPcs
  <2>2. CASE j = i
    BY <2>1, <2>2 DEF OnItsWay, WkQueues, HorseMoved
  <2>3. CASE j # i
    BY <1>0, <1>a, <2>1, <2>3 DEF WkQueues, HorseMoved, Entry
  <2> QED
    BY <2>2, <2>3
<1>3. CASE HandleSchedule(w)
  <2> DEFINE c == RetryCall(wk[w].seen)
             n == scheduled[i][c] + 1
  <2>1. HorsesKept(w) /\ UNCHANGED <<waiting, rows>> /\ wk[w].pc = "h_schedule"
    BY <1>3, WGotoFacts DEF HandleSchedule, WorkerPcs, HorseMoved
  <2>2. CASE wk[w].seen.status = "none"
    <3>1. ~Exists(i)
      BY <2>1, <2>2 DEF SeenGone, HandlingPcs
    <3>2. j # i /\ scheduled' = scheduled
      BY <1>3, <2>1, <2>2, <3>1 DEF Exists, HandleSchedule
    <3> QED
      BY <1>0, <1>a, <2>1, <3>2 DEF WkQueues, Entry
  <2>3. CASE wk[w].seen.status # "none"
    <3>1. /\ c \in Calls /\ n \in Nat /\ n > 0 /\ scheduled \in [Jobs -> [Calls -> Nat]]
          /\ scheduled' = [scheduled EXCEPT ![i][c] = n]
      BY <1>0, <1>3, <2>3 DEF RetryCall, Calls, TypeOK, HandleSchedule
    <3>2. /\ scheduled'[i][c] = n
          /\ \A k \in Jobs, d \in Calls : k # i \/ d # c => scheduled'[k][d] = scheduled[k][d]
      <4> HIDE DEF n, i, c
      <4> QED
        BY <1>0, <3>1, CounterFacts
    <3>3. j = i => Entry(j)'
      <4>1. queue'[i][c] \in Nat
        BY <1>0, <3>1 DEF TypeOK
      <4> HIDE DEF n, c
      <4> QED
        BY <3>1, <3>2, <4>1 DEF Entry
    <3>4. j # i => (Entry(j) => Entry(j)')
      BY <1>0, <3>2 DEF Entry
    <3> QED
      BY <1>a, <2>1, <3>3, <3>4 DEF WkQueues
  <2> QED
    BY <2>2, <2>3
<1>4. CASE ~(Activate(w) \/ HandleEnqueue(w) \/ HandleSchedule(w))
  <2>1. UNCHANGED <<waiting, scheduled>> /\ wk[w].pc \notin {"activate", "h_schedule"}
    BY <1>4 DEF Pipeline, MarkProcessing, Download, Extract,
       Reconstruct, Stage, Complete, Announce, Finally, HandleRead, HandleUpdate, HandlerFails
  <2>2. HorsesKept(w)
    <3>1. CASE Finally(w) \/ HandleRead(w)
      BY <3>1 DEF Finally, HandleRead, HorsesKept, TypeOK
    <3>2. CASE (\E pc \in WorkerPcs : WGoto(w, pc)) \/ \E e \in Errors : Raise(w, e)
      BY <3>2, WGotoFacts, RaiseFacts DEF HorseMoved
    <3> QED
      BY <1>4, <3>1, <3>2 DEF Pipeline, MarkProcessing, Download, Extract, Reconstruct, Stage,
         Complete, Announce, HandleUpdate, HandlerFails, WorkerPcs, Errors
  <2> QED
    BY <1>0, <1>a, <2>1, <2>2 DEF WkQueues, Entry
<1> QED
  BY <1>1, <1>2, <1>3, <1>4

\* RQ hands an entry on, from the registry to the queue and from there to a
\* worker, or records the failure.
LEMMA RqWaits ==
    ASSUME TypeOK, NEW j \in Jobs, j \in waiting => OnItsWay(j), j \in waiting',
           \/ \E w \in Workers : RqStep(w)
           \/ \E i \in Jobs, c \in Calls : Dispatch(i, c)
    PROVE  OnItsWay(j)'
<1> USE DEF store, boot
<1>1. ASSUME NEW w \in Workers, NEW i \in Jobs, NEW c \in Calls, Dequeue(w, i, c)
      PROVE  OnItsWay(j)'
  <2> DEFINE n == queue[i][c] - 1
  <2>1. /\ n \in Nat /\ queue' = [queue EXCEPT ![i][c] = n]
        /\ UNCHANGED <<waiting, scheduled, api>> /\ wk[w].pc = "idle"
        /\ queue \in [Jobs -> [Calls -> Nat]]
    BY <1>1 DEF Dequeue, TypeOK
  <2>2. \A k \in Jobs, d \in Calls : k # i => queue'[k][d] = queue[k][d]
    <3> HIDE DEF n
    <3> QED
      BY <2>1, CounterFacts
  <2>3. \/ HorseAtJob(w, "activate", i) /\ rqFailed' = rqFailed
        \/ wk' = wk /\ rqFailed' = rqFailed \cup {i}
    BY <1>1, HorseAtFacts DEF Dequeue, WorkerPcs
  <2>4. CASE j = i
    BY <2>3, <2>4 DEF OnItsWay, WkQueues, HorseAtJob
  <2>5. CASE j # i
    BY <2>1, <2>2, <2>3, <2>5 DEF OnItsWay, ApiQueues, WkQueues, Entry, HorseAtJob, HorsesKept
  <2> QED
    BY <2>4, <2>5
<1>2. ASSUME NEW w \in Workers, UNCHANGED <<wk, rqFailed>> \/ Killed(w),
             UNCHANGED <<waiting, queue, scheduled, api>>
      PROVE  OnItsWay(j)'
  <2>1. UNCHANGED <<wk, rqFailed>> \/ (HorseAtJob(w, "idle", NoJob) /\ rqFailed' = rqFailed \cup {wk[w].job})
    BY <1>2, HorseAtFacts DEF Killed, IdleHorse, WorkerPcs
  <2> QED
    BY <1>2, <2>1 DEF OnItsWay, ApiQueues, WkQueues, Entry, HorseAtJob, HorsesKept
<1>3. ASSUME NEW w \in Workers, NEW i \in Jobs, DeliverStop(w, i) PROVE OnItsWay(j)'
  BY <1>2, <1>3 DEF DeliverStop
<1>4. ASSUME NEW w \in Workers, WorkerCrash(w) PROVE OnItsWay(j)'
  BY <1>2, <1>4 DEF WorkerCrash
<1>5. ASSUME NEW i \in Jobs, NEW c \in Calls, Dispatch(i, c) PROVE OnItsWay(j)'
  <2> DEFINE n == queue[i][c] + 1
             m == scheduled[i][c] - 1
  <2>1. /\ n \in Nat /\ n > 0 /\ m \in Nat
        /\ queue' = [queue EXCEPT ![i][c] = n] /\ scheduled' = [scheduled EXCEPT ![i][c] = m]
        /\ UNCHANGED <<waiting, rqFailed, api, wk>>
    BY <1>5 DEF Dispatch, TypeOK
  <2>2. /\ queue'[i][c] = n /\ scheduled'[i][c] = m
        /\ \A k \in Jobs, d \in Calls : k # i \/ d # c =>
             queue'[k][d] = queue[k][d] /\ scheduled'[k][d] = scheduled[k][d]
    <3> HIDE DEF n, m
    <3> QED
      BY <2>1, CounterFacts DEF TypeOK
  <2>3. j = i => Entry(j)'
    <3> HIDE DEF n, m
    <3> QED
      BY <2>1, <2>2 DEF Entry
  <2>4. j # i => (Entry(j) => Entry(j)')
    BY <2>2 DEF Entry
  <2> QED
    BY <2>1, <2>3, <2>4 DEF OnItsWay, ApiQueues, WkQueues
<1> QED
  BY <1>1, <1>3, <1>4, <1>5 DEF RqStep

\* Nobody waits in extube:job_queue for a run that never comes, whatever
\* workers die and however submissions, deletions and retries interleave,
\* where nobody cancels, the server does not restart and Redis obeys.
THEOREM WaitersCarried ==
    ASSUME NoCancelNoRestart, ~RedisFaults
    PROVE  Spec => []WaitingHasCarrier
<1>a. WaitingHasCarrier <=> \A j \in waiting : Exists(j) => OnItsWay(j)
  BY DEF WaitingHasCarrier, OnItsWay, Entry, ApiQueues, WkQueues
<1>1. Init => WaitingHasCarrier
  BY DEF Init, WaitingHasCarrier
<1>2. /\ TypeOK /\ FreshIds /\ KnownIds /\ Calm /\ SeenGone
      /\ WaitingHasCarrier /\ [Next]_vars
      => WaitingHasCarrier'
  <2> SUFFICES ASSUME TypeOK, FreshIds, KnownIds, Calm, SeenGone, WaitingHasCarrier, [Next]_vars,
                      NEW j \in waiting', Exists(j)', TypeOK'
               PROVE  OnItsWay(j)'
    <3>1. TypeOK /\ [Next]_vars => TypeOK'
      BY ApiStepTypeOK, PipelineTypeOK, RqStepTypeOK, RestartTypeOK DEF Next, vars, TypeOK, InFlight
    <3> QED
      BY <3>1 DEF WaitingHasCarrier, OnItsWay, Entry, ApiQueues, WkQueues
  <2>1. j \in Jobs
    BY DEF TypeOK
  <2>2. j \in waiting => OnItsWay(j)
    <3> SUFFICES ASSUME j \in waiting PROVE OnItsWay(j)
      OBVIOUS
    <3>1. Exists(j)
      BY <2>1, GoneStays DEF KnownIds
    <3> QED
      BY <1>a, <3>1
  <2>3. ASSUME NEW r \in Requests, ApiStep(r) PROVE OnItsWay(j)'
    BY <2>1, <2>2, <2>3, ApiStepWaits
  <2>4. ASSUME NEW w \in Workers, Pipeline(w) PROVE OnItsWay(j)'
    BY <2>1, <2>2, <2>4, PipelineWaits
  <2>5. CASE \/ \E w \in Workers : RqStep(w)
             \/ \E i \in Jobs, c \in Calls : Dispatch(i, c)
    BY <2>1, <2>2, <2>5, RqWaits
  <2>6. CASE UNCHANGED vars
    BY <2>2, <2>6 DEF vars, OnItsWay, Entry, ApiQueues, WkQueues
  <2> QED
    BY <2>3, <2>4, <2>5, <2>6, OthersCalm
<1> QED
  BY <1>1, <1>2, TypeCorrect, FreshIdsInvariant, KnownIdsInvariant, CalmInvariant,
     SeenGoneInvariant, PTL DEF Spec
-----------------------------------------------------------------------------
(* The refinement of JobStateMachine *)

\* The endpoints that the state machine describes, one at a time.
OneAtATime == NoCancelNoRestart /\ ~RedisFaults /\ ApiThreads = 1

OneHandler == \A q, r \in Requests : InFlight(q) /\ InFlight(r) => q = r

\* A job has one ticket at most: an entry of RQ, a worker whose outcome is
\* still to be written, or a handler about to queue it.  Whoever has it
\* determines what the row may say, unless the row is gone.
EntryHas(c, j) == queue[j][c] > 0 \/ scheduled[j][c] > 0
HorseHas(w, j) == wk[w].job = j /\ wk[w].pc \notin {"idle", "announce", "finally"}
Resetting(r, j) == api[r].job = j /\ api[r].pc = "reset"

StatusesAt(pc) ==
    {"none"} \cup IF pc \in {"activate", "mark"} THEN {"pending", "retrying"}
                  ELSE IF pc \in {"h_enqueue", "h_schedule"} THEN {"retrying"}
                  ELSE {"processing"}

EntriesFit(j) ==
    /\ \A c \in Calls : queue[j][c] + scheduled[j][c] <= 1
    /\ \A c, d \in Calls : EntryHas(c, j) /\ EntryHas(d, j) => c = d
    /\ \A c \in Calls : EntryHas(c, j) => rows[j].status \in {"pending", "retrying", "none"}
HorsesFit(j) ==
    /\ \A v, w \in Workers : HorseHas(v, j) /\ HorseHas(w, j) => v = w
    /\ \A w \in Workers : HorseHas(w, j) => rows[j].status \in StatusesAt(wk[w].pc)
    /\ \A w \in Workers, c \in Calls : HorseHas(w, j) => ~EntryHas(c, j)
HandlersFit(j) ==
    /\ \A r \in Requests : Resetting(r, j) => rows[j].status = "failed"
    /\ \A r \in Requests : Submitting(r, j) =>
          /\ rows[j].status = "pending"
          /\ \A w \in Workers : ~HorseHas(w, j)
          /\ \A c \in Calls : ~EntryHas(c, j)
Ticket(j) == EntriesFit(j) /\ HorsesFit(j) /\ HandlersFit(j)
OneTicket == \A j \in Jobs : Ticket(j)

\* A handler starts when no other is in flight.
LEMMA ApiStepAlone ==
    ASSUME OneAtATime, TypeOK, Calm, OneHandler, NEW r \in Requests, ApiStep(r)
    PROVE  OneHandler' /\ \A q \in Requests \ {r} : ~InFlight(q)
<1> USE DEF store, redis, boot
<1>0. OthersKept(r)
  BY ApiStepCalm DEF OneAtATime
<1>1. ASSUME NEW op, CanStart(r, op) PROVE \A q \in Requests : ~InFlight(q)
  <2> SUFFICES ASSUME NEW q \in Requests, InFlight(q) PROVE FALSE
    OBVIOUS
  <2>1. {p \in Requests : InFlight(p)} = {q}
    BY DEF OneHandler
  <2>2. Cardinality({q}) = 1
    BY FS_Singleton
  <2> QED
    BY <1>1, <2>1, <2>2 DEF CanStart, OneAtATime
<1>2. InFlight(r) \/ \A q \in Requests : ~InFlight(q)
  <2>1. CASE \/ \E j \in Jobs : CreateStart(r, j) \/ DeleteStart(r, j) \/ RetryStart(r, j)
             \/ CreateReject(r)
    BY <1>1, <2>1 DEF CreateStart, DeleteStart, RetryStart, OpenRequest, CreateReject
  <2>2. CASE ~(\/ \E j \in Jobs : CreateStart(r, j) \/ DeleteStart(r, j) \/ RetryStart(r, j)
               \/ CreateReject(r))
    BY <2>2, ApiStepCalm DEF OneAtATime, ApiStep, CreateFind, CreateCount, CountStep, CreateInsert,
       CreateParams, QmEnqueue, RqEnqueue, DeleteRmtree, DeleteRow, RetryReset, RequestFails, InFlight
  <2> QED
    BY <2>1, <2>2
<1>3. \A q \in Requests \ {r} : ~InFlight(q)
  BY <1>2 DEF OneHandler
<1>4. \A q \in Requests \ {r} : ~InFlight(q)'
  BY <1>0, <1>3 DEF OthersKept, InFlight
<1> QED
  BY <1>3, <1>4 DEF OneHandler

\* What nobody touches keeps its ticket.
LEMMA TicketFramed ==
    ASSUME NEW j \in Jobs, Ticket(j),
           rows'[j].status = rows[j].status,
           UNCHANGED <<queue[j], scheduled[j]>>,
           \A w \in Workers : HorseHas(w, j)' =>
              HorseHas(w, j) /\ StatusesAt(wk[w].pc) \subseteq StatusesAt(wk'[w].pc),
           \A r \in Requests : /\ Submitting(r, j)' => Submitting(r, j)
                               /\ Resetting(r, j)' => Resetting(r, j) \/ rows[j].status = "failed"
    PROVE  Ticket(j)'
<1>1. \A c \in Calls : EntryHas(c, j)' <=> EntryHas(c, j)
  BY DEF EntryHas
<1>2. EntriesFit(j)'
  BY <1>1 DEF Ticket, EntriesFit
<1>3. HorsesFit(j)'
  BY <1>1 DEF Ticket, HorsesFit
<1>4. HandlersFit(j)'
  BY <1>1 DEF Ticket, HandlersFit
<1> QED
  BY <1>2, <1>3, <1>4 DEF Ticket

\* A handler makes a ticket for a new job or for a failed one, which has none.
LEMMA ApiStepTicket ==
    ASSUME OneAtATime, TypeOK, FreshIds, KnownIds, Calm, OneHandler, OneTicket,
           NEW r \in Requests, ApiStep(r)
    PROVE  OneTicket'
<1> USE DEF store, redis, boot
<1> PICK i : i = api[r].job
  OBVIOUS
<1>0. /\ wk' = wk /\ OthersKept(r)
      /\ \A q \in Requests \ {r} : ~InFlight(q) /\ api'[q] = api[q]
  BY ApiRows, ApiStepCalm, ApiStepAlone DEF OneAtATime, OthersKept
<1>h. \A w \in Workers, j \in Jobs : HorseHas(w, j)' <=> HorseHas(w, j)
  BY <1>0 DEF HorseHas
<1>o. \A q \in Requests \ {r}, j \in Jobs : ~Submitting(q, j) /\ ~Submitting(q, j)'
                                         /\ ~Resetting(q, j) /\ ~Resetting(q, j)'
  BY <1>0 DEF Submitting, Resetting, InFlight
<1>a. ASSUME NEW j \in Jobs, rows'[j].status = rows[j].status, UNCHANGED <<queue[j], scheduled[j]>>,
             Submitting(r, j)' => Submitting(r, j),
             Resetting(r, j)' => Resetting(r, j) \/ rows[j].status = "failed"
      PROVE  Ticket(j)'
  <2>1. \A q \in Requests : /\ Submitting(q, j)' => Submitting(q, j)
                            /\ Resetting(q, j)' => Resetting(q, j) \/ rows[j].status = "failed"
    BY <1>a, <1>o
  <2>2. Ticket(j)
    BY DEF OneTicket
  <2>3. \A w \in Workers : StatusesAt(wk[w].pc) \subseteq StatusesAt(wk'[w].pc)
    BY <1>0
  <2> QED
    BY <1>a, <1>h, <2>1, <2>2, <2>3, TicketFramed
<1>1. CASE \E j \in Jobs : CreateStart(r, j)
  <2>1. PICK k \in Jobs, pc \in {"find", "count_pending"} :
           CreateStart(r, k) /\ api' = [api EXCEPT ![r] = RequestAt(pc, k, "none")]
    BY <1>1 DEF CreateStart
  <2>2. api'[r].pc = pc
    BY <2>1, OpenFacts DEF ApiPcs, ApiAt
  <2> QED
    BY <1>a, <2>1, <2>2 DEF CreateStart, OneTicket, Submitting, Resetting
<1>2. CASE \E j \in Jobs : DeleteStart(r, j) \/ RetryStart(r, j)
  <2>1. PICK k \in Jobs : DeleteStart(r, k) \/ RetryStart(r, k)
    BY <1>2
  <2>2. UNCHANGED <<store, queue, scheduled>>
    BY <2>1 DEF DeleteStart, RetryStart, OpenRequest
  <2>3. CASE Respond(r)
    BY <1>a, <2>2, <2>3, RespondFacts DEF OneTicket, ApiAt, Submitting, Resetting
  <2>4. CASE \/ api' = [api EXCEPT ![r] = RequestAt("rmtree", k, rows[k].status)]
             \/ /\ api' = [api EXCEPT ![r] = RequestAt("reset", k, rows[k].status)]
                /\ rows[k].status = "failed"
    <3>1. rows[k].status \in Statuses \cup {"none"} /\ "rmtree" \in ApiPcs /\ "reset" \in ApiPcs
      BY DEF TypeOK, Row, ApiPcs
    <3>2. ApiAt(r, "rmtree", k) \/ (ApiAt(r, "reset", k) /\ rows[k].status = "failed")
      BY <2>4, <3>1, OpenFacts
    <3> QED
      BY <1>a, <2>2, <3>2 DEF OneTicket, ApiAt, Submitting, Resetting
  <2> QED
    BY <2>1, <2>3, <2>4 DEF DeleteStart, RetryStart, OpenRequest, Retryable
<1>3. CASE CreateReject(r)
  BY <1>a, <1>3, RespondFacts DEF CreateReject, OneTicket, ApiAt, Submitting, Resetting
<1>4. CASE CreateFind(r)
  <2>1. api'[r].pc \in {"done", "count_pending"}
    BY <1>4, RespondFacts, GotoFacts DEF CreateFind, ApiPcs, ApiAt, ApiMoved
  <2> QED
    BY <1>4, <1>a, <2>1 DEF CreateFind, OneTicket, Submitting, Resetting
<1>5. CASE CreateCount(r)
  <2>1. api'[r].pc \in {"count_processing", "count_retrying", "insert"}
    BY <1>5, CountStepFacts DEF CreateCount, ApiPcs, ApiMoved
  <2> QED
    BY <1>5, <1>a, <2>1 DEF CreateCount, CountStep, OneTicket, Submitting, Resetting
<1>6. CASE CreateInsert(r)
  <2>1. CASE Respond(r) /\ UNCHANGED <<rows, used>>
    BY <1>6, <1>a, <2>1, RespondFacts DEF CreateInsert, OneTicket, ApiAt, Submitting, Resetting
  <2>2. CASE /\ rows' = [rows EXCEPT ![i] = WithStatus(NoRow, "pending")]
             /\ Goto(r, "params")
    <3>1. i \in Jobs /\ i \notin used /\ UNCHANGED <<queue, scheduled>>
      BY <1>6 DEF CreateInsert, TypeOK, InFlight, FreshIds, Creating, CreatingPcs
    <3>2. ApiMoved(r, "params")
      BY <2>2, GotoFacts DEF ApiPcs
    <3>3. \A w \in Workers : ~HorseHas(w, i)
      BY <3>1 DEF HorseHas, KnownIds
    <3>4. \A c \in Calls : ~EntryHas(c, i)
      BY <3>1 DEF EntryHas, KnownIds
    <3>5. rows'[i].status = "pending"
      BY <2>2, <3>1 DEF TypeOK, WithStatus, NoRow
    <3>6. Ticket(i)'
      <4>1. EntriesFit(i)'
        BY <3>1, <3>5 DEF OneTicket, Ticket, EntriesFit, EntryHas
      <4>2. HorsesFit(i)'
        BY <1>h, <3>1, <3>3 DEF HorsesFit
      <4>3. HandlersFit(i)'
        BY <1>h, <1>o, <3>1, <3>2, <3>3, <3>4, <3>5 DEF HandlersFit, EntryHas, Resetting, ApiMoved
      <4> QED
        BY <4>1, <4>2, <4>3 DEF Ticket
    <3>7. ASSUME NEW j \in Jobs, j # i PROVE Ticket(j)'
      BY <1>a, <2>2, <3>1, <3>2, <3>7 DEF ApiMoved, Submitting, Resetting, TypeOK
    <3> QED
      BY <3>6, <3>7 DEF OneTicket
  <2> QED
    BY <1>6, <2>1, <2>2 DEF CreateInsert
<1>7. CASE CreateParams(r) \/ QmEnqueue(r)
  <2>1. /\ i \in Jobs /\ UNCHANGED <<queue, scheduled>> /\ api[r].pc \in {"params", "qm_enqueue"}
        /\ \E pc \in {"qm_enqueue", "rq_enqueue"} : Goto(r, pc)
    BY <1>7 DEF CreateParams, QmEnqueue, TypeOK, InFlight
  <2>2. \A j \in Jobs : rows'[j].status = rows[j].status
    <3>1. CASE CreateParams(r)
      <4> DEFINE new == [rows[i] EXCEPT !.params = TRUE]
      <4>0. rows[i] \in Row
        BY <2>1 DEF TypeOK
      <4>1. new \in Row /\ new.status = rows[i].status
        BY <4>0 DEF Row
      <4>2. rows' = Updated(i, new)
        BY <3>1 DEF CreateParams
      <4> HIDE DEF new
      <4> QED
        BY <2>1, <4>1, <4>2, UpdatedFacts DEF RowsChangedAt
    <3>2. CASE QmEnqueue(r)
      BY <3>2 DEF QmEnqueue
    <3> QED
      BY <1>7, <3>1, <3>2
  <2>3. api'[r].job = i /\ api'[r].pc \in {"qm_enqueue", "rq_enqueue"}
    BY <2>1, GotoFacts DEF ApiPcs, ApiMoved
  <2> QED
    BY <1>a, <2>1, <2>2, <2>3 DEF OneTicket, Submitting, Resetting
<1>8. CASE RqEnqueue(r)
  <2> DEFINE n == queue[i]["submitted"] + 1
  <2>1. /\ i \in Jobs /\ "submitted" \in Calls /\ UNCHANGED <<rows, scheduled>>
        /\ queue' = [queue EXCEPT ![i]["submitted"] = n]
        /\ Submitting(r, i) /\ Respond(r)
    BY <1>8 DEF RqEnqueue, TypeOK, InFlight, Calls, Submitting
  <2>2. /\ rows[i].status = "pending"
        /\ \A w \in Workers : ~HorseHas(w, i)
        /\ \A c \in Calls : ~EntryHas(c, i)
    BY <2>1 DEF OneTicket, Ticket, HandlersFit
  <2>3. /\ queue \in [Jobs -> [Calls -> Nat]] /\ scheduled \in [Jobs -> [Calls -> Nat]]
    BY DEF TypeOK
  <2>4. n = 1 /\ \A c \in Calls : queue[i][c] = 0 /\ scheduled[i][c] = 0
    BY <2>1, <2>2, <2>3 DEF EntryHas
  <2>5. /\ queue'[i]["submitted"] = 1
        /\ \A k \in Jobs, c \in Calls : k # i \/ c # "submitted" => queue'[k][c] = queue[k][c]
        /\ \A k \in Jobs \ {i} : queue'[k] = queue[k]
    <3>1. n \in Nat
      BY <2>4
    <3>2. \A k \in Jobs \ {i} : queue'[k] = queue[k]
      BY <2>1, <2>3
    <3> HIDE DEF n
    <3> QED
      BY <2>1, <2>3, <2>4, <3>1, <3>2, CounterFacts
  <2>6. ~InFlight(r)'
    BY <2>1, RespondFacts DEF ApiAt, InFlight
  <2>7. Ticket(i)'
    <3>1. \A c \in Calls : /\ queue'[i][c] = IF c = "submitted" THEN 1 ELSE 0
                           /\ scheduled'[i][c] = 0
      BY <2>1, <2>4, <2>5
    <3>2. EntriesFit(i)'
      BY <2>1, <2>2, <3>1 DEF EntriesFit, EntryHas
    <3>3. HorsesFit(i)'
      BY <1>h, <2>1, <2>2 DEF HorsesFit
    <3>4. HandlersFit(i)'
      BY <1>o, <2>1, <2>6 DEF HandlersFit, Resetting, Submitting, InFlight
    <3> QED
      BY <3>2, <3>3, <3>4 DEF Ticket
  <2>8. ASSUME NEW j \in Jobs, j # i PROVE Ticket(j)'
    BY <1>a, <2>1, <2>5, <2>6, <2>8 DEF InFlight, Submitting, Resetting
  <2> QED
    BY <2>7, <2>8 DEF OneTicket
<1>9. CASE DeleteRmtree(r)
  <2>1. api'[r].pc = "delete_row"
    BY <1>9, GotoFacts DEF DeleteRmtree, ApiPcs, ApiMoved
  <2> QED
    BY <1>9, <1>a, <2>1 DEF DeleteRmtree, OneTicket, Submitting, Resetting
<1>10. CASE DeleteRow(r)
  <2>1. /\ i \in Jobs /\ rows' = [rows EXCEPT ![i] = NoRow] /\ UNCHANGED <<queue, scheduled>>
        /\ Respond(r)
    BY <1>10 DEF DeleteRow, TypeOK, InFlight
  <2>2. ~InFlight(r)' /\ rows'[i].status = "none"
    BY <2>1, RespondFacts DEF ApiAt, InFlight, NoRow, TypeOK
  <2>3. Ticket(i)'
    <3>1. EntriesFit(i)'
      BY <2>1, <2>2 DEF OneTicket, Ticket, EntriesFit, EntryHas
    <3>2. HorsesFit(i)'
      BY <1>h, <2>1, <2>2 DEF OneTicket, Ticket, HorsesFit, EntryHas, StatusesAt
    <3>3. HandlersFit(i)'
      BY <1>o, <2>1, <2>2 DEF HandlersFit, Resetting, Submitting, InFlight
    <3> QED
      BY <3>1, <3>2, <3>3 DEF Ticket
  <2>4. ASSUME NEW j \in Jobs, j # i PROVE Ticket(j)'
    BY <1>a, <2>1, <2>2, <2>4 DEF InFlight, Submitting, Resetting
  <2> QED
    BY <2>3, <2>4 DEF OneTicket
<1>11. CASE RetryReset(r)
  <2> DEFINE new == [rows[i] EXCEPT !.status = "pending", !.retry_count = 0]
  <2>1. /\ i \in Jobs /\ rows[i] \in Row /\ rows' = Updated(i, new)
        /\ UNCHANGED <<queue, scheduled>> /\ Resetting(r, i) /\ Goto(r, "qm_enqueue")
    BY <1>11 DEF RetryReset, TypeOK, InFlight, Resetting
  <2>2. new \in Row /\ new.status = "pending"
    BY <2>1 DEF Row, Statuses
  <2>3. rows[i].status = "failed"
    BY <2>1 DEF OneTicket, Ticket, HandlersFit
  <2>4. RowsChangedAt(i) /\ rows'[i].status = "pending"
    <3> HIDE DEF new
    <3> QED
      BY <2>1, <2>2, <2>3, UpdatedFacts
  <2>5. \A c \in Calls : ~EntryHas(c, i)
    BY <2>1, <2>3 DEF OneTicket, Ticket, EntriesFit
  <2>6. \A w \in Workers : ~HorseHas(w, i)
    BY <2>1, <2>3 DEF OneTicket, Ticket, HorsesFit, StatusesAt
  <2>7. api'[r].job = i /\ api'[r].pc = "qm_enqueue"
    BY <2>1, GotoFacts DEF ApiPcs, ApiMoved
  <2>8. Ticket(i)'
    <3>1. EntriesFit(i)'
      BY <2>1, <2>4 DEF OneTicket, Ticket, EntriesFit, EntryHas
    <3>2. HorsesFit(i)'
      BY <1>h, <2>1, <2>6 DEF HorsesFit
    <3>3. HandlersFit(i)'
      BY <1>h, <1>o, <2>1, <2>4, <2>5, <2>6, <2>7 DEF HandlersFit, Resetting, EntryHas
    <3> QED
      BY <3>1, <3>2, <3>3 DEF Ticket
  <2>9. ASSUME NEW j \in Jobs, j # i PROVE Ticket(j)'
    BY <1>a, <2>1, <2>4, <2>7, <2>9 DEF RowsChangedAt, Submitting, Resetting
  <2> QED
    BY <2>8, <2>9 DEF OneTicket
<1>12. ~RequestFails(r)
  BY DEF RequestFails, OneAtATime
<1> QED
  BY <1>1, <1>2, <1>3, <1>4, <1>5, <1>6, <1>7, <1>8, <1>9, <1>10, <1>11, <1>12, ApiStepCalm
     DEF ApiStep, OneAtATime

\* A worker keeps its ticket until it has written the outcome, or hands it to
\* RQ with a retry.
LEMMA PipelineTicket ==
    ASSUME TypeOK, ~RedisFaults, OneTicket, NEW w \in Workers, Pipeline(w)
    PROVE  OneTicket'
<1> USE DEF store, redis, boot
<1> PICK i : i = wk[w].job
  OBVIOUS
<1>0. /\ UNCHANGED <<api, queue>> /\ i \in Jobs /\ rows[i] \in Row /\ ~HandlerFails(w)
      /\ ~HandleSchedule(w) => scheduled' = scheduled
      /\ wk[w].pc # "idle" /\ wk[w] \in Horse
  BY DEF Pipeline, TypeOK, Activate, MarkProcessing, Download, Extract,
     Reconstruct, Stage, Complete, Announce, Finally, HandleRead,
     HandleUpdate, HandleEnqueue, HandleSchedule, HandlerFails
<1>f. \A j \in Jobs, r \in Requests : (Submitting(r, j)' <=> Submitting(r, j))
                                    /\ (Resetting(r, j)' <=> Resetting(r, j))
  BY <1>0 DEF Submitting, Resetting
<1>a. ASSUME NEW j \in Jobs, rows'[j].status = rows[j].status, scheduled'[j] = scheduled[j],
             HorsesKept(w),
             HorseHas(w, j)' => HorseHas(w, j) /\ StatusesAt(wk[w].pc) \subseteq StatusesAt(wk'[w].pc)
      PROVE  Ticket(j)'
  <2>1. \A v \in Workers : HorseHas(v, j)' =>
              HorseHas(v, j) /\ StatusesAt(wk[v].pc) \subseteq StatusesAt(wk'[v].pc)
    BY <1>a DEF HorsesKept, HorseHas
  <2>2. Ticket(j)
    BY DEF OneTicket
  <2> QED
    BY <1>0, <1>a, <1>f, <2>1, <2>2, TicketFramed
\* The worker that has the ticket of i is the only one that does.
<1>b. ASSUME wk[w].pc \notin {"announce", "finally"}
      PROVE  /\ HorseHas(w, i) /\ rows[i].status \in StatusesAt(wk[w].pc)
             /\ \A v \in Workers \ {w} : ~HorseHas(v, i)
             /\ \A c \in Calls : ~EntryHas(c, i)
             /\ \A r \in Requests : ~Submitting(r, i)
  <2>1. HorseHas(w, i)
    BY <1>0, <1>b DEF HorseHas
  <2> QED
    BY <1>0, <2>1 DEF OneTicket, Ticket, HorsesFit, HandlersFit
\* It writes the row and goes on, or ends its part.
<1>c. ASSUME wk[w].pc \notin {"announce", "finally"}, HorsesKept(w), scheduled' = scheduled,
             wk'[w].job = i, RowsChangedAt(i), rows[i].status # "failed",
             wk'[w].pc \in {"idle", "announce", "finally"} \/ rows'[i].status \in StatusesAt(wk'[w].pc)
      PROVE  OneTicket'
  <2>1. \A c \in Calls : ~EntryHas(c, i)'
    BY <1>0, <1>b, <1>c DEF EntryHas
  <2>2. \A v \in Workers \ {w} : ~HorseHas(v, i)'
    BY <1>b, <1>c DEF HorseHas, HorsesKept
  <2>3. EntriesFit(i)'
    BY <1>0, <1>c, <2>1 DEF OneTicket, Ticket, EntriesFit
  <2>4. HorsesFit(i)'
    BY <1>c, <2>1, <2>2 DEF HorsesFit, HorseHas
  <2>5. HandlersFit(i)'
    BY <1>0, <1>b, <1>c, <1>f DEF OneTicket, Ticket, HandlersFit
  <2>6. ASSUME NEW j \in Jobs, j # i PROVE Ticket(j)'
    BY <1>a, <1>c, <2>6 DEF RowsChangedAt, HorseHas
  <2> QED
    BY <2>3, <2>4, <2>5, <2>6 DEF OneTicket, Ticket
<1>1. CASE MarkProcessing(w)
  <2>1. /\ HorseMoved(w, "download") /\ wk[w].pc = "mark" /\ scheduled' = scheduled
        /\ rows' = Updated(i, WithStatus(rows[i], "processing"))
    BY <1>0, <1>1, WGotoFacts DEF MarkProcessing, WorkerPcs
  <2>2. RowsChangedAt(i) /\ rows'[i].status \in {"processing", "none"}
    BY <1>0, <2>1, UpdatedFacts, WithStatusFacts DEF Statuses
  <2>3. rows[i].status # "failed"
    BY <1>b, <2>1 DEF StatusesAt
  <2> QED
    BY <1>c, <2>1, <2>2, <2>3 DEF HorseMoved, StatusesAt
<1>2. CASE Complete(w)
  <2>1. /\ HorseMoved(w, "announce") /\ wk[w].pc = "complete" /\ scheduled' = scheduled
        /\ rows' = Updated(i, WithStatus(rows[i], "completed"))
    BY <1>0, <1>2, WGotoFacts DEF Complete, WorkerPcs
  <2>2. RowsChangedAt(i)
    BY <1>0, <2>1, UpdatedFacts, WithStatusFacts DEF Statuses
  <2>3. rows[i].status # "failed"
    BY <1>b, <2>1 DEF StatusesAt
  <2> QED
    BY <1>c, <2>1, <2>2, <2>3 DEF HorseMoved
<1>3. CASE HandleUpdate(w)
  <2> DEFINE n == wk[w].seen.retry_count + 1
             again == [rows[i] EXCEPT !.status = "retrying", !.retry_count = n]
  <2>1. n \in Nat
    BY <1>0 DEF Horse, Row
  <2>2. again \in Row /\ again.status = "retrying"
    <3> HIDE DEF n
    <3> QED
      BY <1>0, <2>1, RecountFacts DEF Statuses
  <2>3. FailedRow(rows[i]) \in Row
    BY <1>0, WithStatusFacts DEF FailedRow, Statuses
  <2>4. wk[w].pc = "h_update" /\ scheduled' = scheduled
    BY <1>3 DEF HandleUpdate
  <2>5. rows[i].status # "failed"
    BY <1>b, <2>4 DEF StatusesAt
  <2>6. \/ HorseMoved(w, "h_enqueue") /\ rows' = Updated(i, again)
        \/ HorseMoved(w, "finally") /\ rows' = Updated(i, FailedRow(rows[i]))
    BY <1>3, WGotoFacts DEF HandleUpdate, WorkerPcs
  <2>7. CASE HorseMoved(w, "h_enqueue") /\ rows' = Updated(i, again)
    <3>1. RowsChangedAt(i) /\ rows'[i].status \in {"retrying", "none"}
      <4> HIDE DEF again
      <4> QED
        BY <1>0, <2>2, <2>7, UpdatedFacts
    <3> QED
      BY <1>c, <2>4, <2>5, <2>7, <3>1 DEF HorseMoved, StatusesAt
  <2>8. CASE HorseMoved(w, "finally") /\ rows' = Updated(i, FailedRow(rows[i]))
    <3>1. RowsChangedAt(i)
      BY <1>0, <2>3, <2>8, UpdatedFacts
    <3> QED
      BY <1>c, <2>4, <2>5, <2>8, <3>1 DEF HorseMoved
  <2> QED
    BY <2>6, <2>7, <2>8
<1>4. CASE HandleSchedule(w)
  <2> DEFINE c == RetryCall(wk[w].seen)
             n == scheduled[i][c] + 1
  <2>1. HorseMoved(w, "finally") /\ wk[w].pc = "h_schedule" /\ rows' = rows
    BY <1>4, WGotoFacts DEF HandleSchedule, WorkerPcs
  <2>2. CASE scheduled' = scheduled
    BY <1>a, <2>1, <2>2 DEF OneTicket, HorseMoved, HorseHas
  <2>3. CASE scheduled' = [scheduled EXCEPT ![i][c] = n]
    <3>1. c \in Calls /\ queue \in [Jobs -> [Calls -> Nat]] /\ scheduled \in [Jobs -> [Calls -> Nat]]
      BY DEF RetryCall, Calls, TypeOK
    <3>2. n = 1 /\ \A d \in Calls : queue[i][d] = 0 /\ scheduled[i][d] = 0
      BY <1>0, <1>b, <2>1, <3>1 DEF EntryHas
    <3>3. /\ scheduled'[i][c] = 1
          /\ \A d \in Calls : d # c => scheduled'[i][d] = 0
          /\ \A k \in Jobs \ {i} : scheduled'[k] = scheduled[k]
      <4>1. \A k \in Jobs \ {i} : scheduled'[k] = scheduled[k]
        BY <2>3, <3>1
      <4> HIDE DEF n, c
      <4> QED
        BY <1>0, <2>3, <3>1, <3>2, <4>1, CounterFacts
    <3>4. \A v \in Workers : ~HorseHas(v, i)'
      BY <1>b, <2>1 DEF HorseMoved, HorsesKept, HorseHas
    <3>5. rows'[i].status \in {"retrying", "none"}
      BY <1>b, <2>1 DEF StatusesAt
    <3>6. EntriesFit(i)'
      <4> HIDE DEF c, n
      <4> QED
        BY <1>0, <3>1, <3>2, <3>3, <3>5 DEF EntriesFit, EntryHas
    <3>7. HorsesFit(i)'
      BY <3>4 DEF HorsesFit
    <3>8. HandlersFit(i)'
      BY <1>0, <1>b, <1>f, <2>1 DEF OneTicket, Ticket, HandlersFit
    <3>9. ASSUME NEW j \in Jobs, j # i PROVE Ticket(j)'
      BY <1>a, <2>1, <3>3, <3>9 DEF HorseMoved, HorseHas
    <3> QED
      BY <3>6, <3>7, <3>8, <3>9 DEF OneTicket, Ticket
  <2> QED
    BY <1>4, <2>2, <2>3 DEF HandleSchedule
<1>5. ASSUME UNCHANGED <<rows, scheduled>>, NEW pc, HorseMoved(w, pc),
             pc \in {"idle", "announce", "finally"}
               \/ (HorseHas(w, i) /\ StatusesAt(wk[w].pc) \subseteq StatusesAt(pc))
      PROVE  OneTicket'
  BY <1>a, <1>5 DEF OneTicket, HorseMoved, HorseHas
<1>6. CASE Activate(w) \/ HandleEnqueue(w) \/ Announce(w)
  BY <1>0, <1>5, <1>6, WGotoFacts DEF Activate, HandleEnqueue, Announce, HorseHas, StatusesAt, WorkerPcs
<1>7. CASE Download(w) \/ Extract(w) \/ Reconstruct(w)
  <2>1. /\ UNCHANGED <<rows, scheduled>> /\ HorseHas(w, i)
        /\ wk[w].pc \in {"download", "extract", "reconstruct"}
        /\ \/ \E pc \in {"extract", "reconstruct", "complete"} : WGoto(w, pc)
           \/ \E e \in Errors : Raise(w, e)
    BY <1>0, <1>7 DEF Download, Extract, Reconstruct, Stage, HorseHas, Errors
  <2>2. \E pc \in {"extract", "reconstruct", "complete", "h_read"} : HorseMoved(w, pc)
    BY <2>1, WGotoFacts, RaiseFacts DEF WorkerPcs
  <2> QED
    BY <1>5, <2>1, <2>2 DEF StatusesAt
<1>8. CASE Finally(w)
  <2>1. HorseAtJob(w, "idle", NoJob) /\ UNCHANGED <<rows, scheduled>>
    BY <1>8, HorseAtFacts DEF Finally, IdleHorse, WorkerPcs
  <2> QED
    BY <1>a, <2>1 DEF OneTicket, HorseAtJob, HorseHas
<1>9. CASE HandleRead(w)
  <2>1. /\ UNCHANGED <<rows, scheduled>> /\ HorsesKept(w) /\ wk'[w].job = i
        /\ wk[w].pc = "h_read" /\ wk'[w].pc = "h_update"
    BY <1>0, <1>9 DEF HandleRead, HorsesKept, TypeOK, Horse
  <2> QED
    BY <1>a, <2>1 DEF OneTicket, HorseHas, StatusesAt
<1> QED
  BY <1>0, <1>1, <1>2, <1>3, <1>4, <1>6, <1>7, <1>8, <1>9 DEF Pipeline

\* RQ passes a ticket on: from the registry to the queue, from there to a
\* worker; a dying worker loses it.
LEMMA RqTicket ==
    ASSUME TypeOK, OneTicket,
           \/ \E w \in Workers : RqStep(w)
           \/ \E i \in Jobs, c \in Calls : Dispatch(i, c)
    PROVE  OneTicket'
<1> USE DEF store, boot
<1>f. UNCHANGED <<rows, api>>
  BY DEF RqStep, Dequeue, DeliverStop, WorkerCrash, Dispatch
<1>g. \A j \in Jobs, r \in Requests : (Submitting(r, j)' <=> Submitting(r, j))
                                    /\ (Resetting(r, j)' <=> Resetting(r, j))
  BY <1>f DEF Submitting, Resetting
<1>a. ASSUME NEW j \in Jobs, UNCHANGED <<queue[j], scheduled[j]>>,
             \A w \in Workers : HorseHas(w, j)' => HorseHas(w, j) /\ wk'[w] = wk[w]
      PROVE  Ticket(j)'
  <2>1. Ticket(j)
    BY DEF OneTicket
  <2> QED
    BY <1>a, <1>f, <1>g, <2>1, TicketFramed
<1>1. ASSUME NEW w \in Workers, NEW i \in Jobs, NEW c \in Calls, Dequeue(w, i, c)
      PROVE  OneTicket'
  <2> DEFINE n == queue[i][c] - 1
  <2>1. /\ queue' = [queue EXCEPT ![i][c] = n] /\ scheduled' = scheduled
        /\ wk[w].pc = "idle" /\ queue[i][c] > 0
        /\ queue \in [Jobs -> [Calls -> Nat]] /\ scheduled \in [Jobs -> [Calls -> Nat]]
    BY <1>1 DEF Dequeue, TypeOK
  <2>2. /\ EntryHas(c, i) /\ rows[i].status \in {"pending", "retrying", "none"}
        /\ \A v \in Workers : ~HorseHas(v, i)
        /\ \A r \in Requests : ~Submitting(r, i)
        /\ \A d \in Calls : d # c => ~EntryHas(d, i)
        /\ queue[i][c] + scheduled[i][c] <= 1
    <3>1. EntryHas(c, i)
      BY <2>1 DEF EntryHas
    <3> QED
      BY <3>1 DEF OneTicket, Ticket, EntriesFit, HorsesFit, HandlersFit
  <2>3. n = 0 /\ scheduled[i][c] = 0
    <3>1. /\ queue[i][c] \in Nat /\ scheduled[i][c] \in Nat /\ queue[i][c] > 0
          /\ queue[i][c] + scheduled[i][c] <= 1
      BY <2>1, <2>2
    <3> QED
      BY <3>1
  <2>4. /\ queue'[i][c] = 0
        /\ \A d \in Calls : d # c => queue'[i][d] = queue[i][d]
        /\ \A k \in Jobs \ {i} : queue'[k] = queue[k]
    <3>1. \A k \in Jobs \ {i} : queue'[k] = queue[k]
      BY <2>1
    <3> HIDE DEF n
    <3> QED
      BY <2>1, <2>3, <3>1, CounterFacts
  <2>5. \A d \in Calls : ~EntryHas(d, i)' /\ queue'[i][d] + scheduled'[i][d] = 0
    <3>1. \A d \in Calls : queue[i][d] \in Nat /\ scheduled[i][d] \in Nat
      BY <2>1
    <3>2. \A d \in Calls : d # c => queue[i][d] = 0 /\ scheduled[i][d] = 0
      BY <2>2, <3>1 DEF EntryHas
    <3>3. \A d \in Calls : queue'[i][d] = 0 /\ scheduled'[i][d] = 0
      BY <2>1, <2>3, <2>4, <3>2
    <3> QED
      BY <3>3 DEF EntryHas
  <2>6. wk' = wk \/ HorseAtJob(w, "activate", i)
    BY <1>1, HorseAtFacts DEF Dequeue, WorkerPcs
  <2>7. \A v \in Workers, j \in Jobs : HorseHas(v, j)' =>
            (HorseHas(v, j) /\ wk'[v] = wk[v]) \/ (v = w /\ j = i /\ wk'[v].pc = "activate")
    BY <2>6 DEF HorseAtJob, HorsesKept, HorseHas
  <2>8. Ticket(i)'
    <3>1. EntriesFit(i)'
      BY <2>5 DEF EntriesFit
    <3>2. HorsesFit(i)'
      BY <1>f, <2>2, <2>5, <2>7 DEF HorsesFit, StatusesAt
    <3>3. HandlersFit(i)'
      BY <1>f, <1>g, <2>2 DEF OneTicket, Ticket, HandlersFit
    <3> QED
      BY <3>1, <3>2, <3>3 DEF Ticket
  <2>9. ASSUME NEW j \in Jobs, j # i PROVE Ticket(j)'
    BY <1>a, <2>1, <2>4, <2>7, <2>9
  <2> QED
    BY <2>8, <2>9 DEF OneTicket
<1>2. ASSUME NEW w \in Workers, UNCHANGED wk \/ Killed(w), UNCHANGED <<queue, scheduled>>
      PROVE  OneTicket'
  <2>1. wk' = wk \/ HorseAtJob(w, "idle", NoJob)
    BY <1>2, HorseAtFacts DEF Killed, IdleHorse, WorkerPcs
  <2> QED
    BY <1>2, <1>a, <2>1 DEF OneTicket, HorseAtJob, HorsesKept, HorseHas
<1>3. ASSUME NEW w \in Workers, NEW i \in Jobs, DeliverStop(w, i) PROVE OneTicket'
  BY <1>2, <1>3 DEF DeliverStop
<1>4. ASSUME NEW w \in Workers, WorkerCrash(w) PROVE OneTicket'
  BY <1>2, <1>4 DEF WorkerCrash
<1>5. ASSUME NEW i \in Jobs, NEW c \in Calls, Dispatch(i, c) PROVE OneTicket'
  <2> DEFINE n == queue[i][c] + 1
             m == scheduled[i][c] - 1
  <2>1. /\ n \in Nat /\ m \in Nat /\ scheduled[i][c] > 0 /\ wk' = wk
        /\ queue' = [queue EXCEPT ![i][c] = n] /\ scheduled' = [scheduled EXCEPT ![i][c] = m]
        /\ queue \in [Jobs -> [Calls -> Nat]] /\ scheduled \in [Jobs -> [Calls -> Nat]]
    BY <1>5 DEF Dispatch, TypeOK
  <2>2. /\ queue'[i][c] = n /\ scheduled'[i][c] = m
        /\ \A d \in Calls : d # c => queue'[i][d] = queue[i][d] /\ scheduled'[i][d] = scheduled[i][d]
        /\ \A k \in Jobs \ {i} : queue'[k] = queue[k] /\ scheduled'[k] = scheduled[k]
    <3>1. \A k \in Jobs \ {i} : queue'[k] = queue[k] /\ scheduled'[k] = scheduled[k]
      BY <2>1
    <3> HIDE DEF n, m
    <3> QED
      BY <2>1, <3>1, CounterFacts
  <2>3. /\ EntryHas(c, i) /\ \A d \in Calls : EntryHas(d, i)' => EntryHas(d, i)
    BY <2>1, <2>2 DEF EntryHas
  <2>4. \A d \in Calls : queue'[i][d] + scheduled'[i][d] = queue[i][d] + scheduled[i][d]
    BY <2>1, <2>2
  <2>5. Ticket(i)'
    <3>1. EntriesFit(i)'
      BY <1>f, <2>3, <2>4 DEF OneTicket, Ticket, EntriesFit
    <3>2. HorsesFit(i)'
      BY <1>f, <2>1, <2>3 DEF OneTicket, Ticket, HorsesFit, HorseHas
    <3>3. HandlersFit(i)'
      BY <1>f, <1>g, <2>1, <2>3 DEF OneTicket, Ticket, HandlersFit, HorseHas
    <3> QED
      BY <3>1, <3>2, <3>3 DEF Ticket
  <2>6. ASSUME NEW j \in Jobs, j # i PROVE Ticket(j)'
    BY <1>a, <2>1, <2>2, <2>6 DEF HorseHas
  <2> QED
    BY <2>5, <2>6 DEF OneTicket
<1> QED
  BY <1>1, <1>3, <1>4, <1>5 DEF RqStep

\* Both are invariants where handlers run one at a time.
LEMMA OneTicketInvariant ==
    ASSUME OneAtATime
    PROVE  Spec => [](OneHandler /\ OneTicket)
<1>1. Init => OneHandler /\ OneTicket
  <2> SUFFICES ASSUME Init PROVE OneHandler /\ OneTicket
    OBVIOUS
  <2>1. \A r \in Requests : api[r].pc = "idle"
    BY DEF Init, IdleRequest, RequestAt
  <2>2. \A w \in Workers : wk[w].pc = "idle"
    BY DEF Init, IdleHorse, HorseAt
  <2>3. \A j \in Jobs, c \in Calls : queue[j][c] = 0 /\ scheduled[j][c] = 0
    BY DEF Init
  <2> QED
    BY <2>1, <2>2, <2>3 DEF OneHandler, InFlight, OneTicket, Ticket, EntriesFit, HorsesFit,
       HandlersFit, EntryHas, HorseHas, Resetting, Submitting
<1>2. TypeOK /\ FreshIds /\ KnownIds /\ Calm /\ OneHandler /\ OneTicket /\ [Next]_vars
        => OneHandler' /\ OneTicket'
  <2> SUFFICES ASSUME TypeOK, FreshIds, KnownIds, Calm, OneHandler, OneTicket, [Next]_vars
               PROVE  OneHandler' /\ OneTicket'
    OBVIOUS
  <2>1. ASSUME NEW r \in Requests, ApiStep(r) PROVE OneHandler' /\ OneTicket'
    BY <2>1, ApiStepAlone, ApiStepTicket
  <2>2. CASE \A r \in Requests : ~ApiStep(r)
    <3>1. UNCHANGED api
      BY <2>2, OthersCalm DEF OneAtATime
    <3>2. OneHandler'
      BY <3>1 DEF OneHandler, InFlight
    <3>3. CASE UNCHANGED vars
      <4>1. UNCHANGED <<rows, queue, scheduled, wk, api>>
        BY <3>3 DEF vars, store, redis
      <4>2. ASSUME NEW j \in Jobs PROVE Ticket(j)'
        <5>1. Ticket(j)
          BY DEF OneTicket
        <5>2. \A w \in Workers : HorseHas(w, j)' =>
                 HorseHas(w, j) /\ StatusesAt(wk[w].pc) \subseteq StatusesAt(wk'[w].pc)
          BY <4>1 DEF HorseHas
        <5>3. \A r \in Requests : /\ Submitting(r, j)' => Submitting(r, j)
                                  /\ Resetting(r, j)' => Resetting(r, j) \/ rows[j].status = "failed"
          BY <4>1 DEF Submitting, Resetting
        <5>4. rows'[j].status = rows[j].status /\ UNCHANGED <<queue[j], scheduled[j]>>
          BY <4>1
        <5> QED
          BY <5>1, <5>2, <5>3, <5>4, TicketFramed
      <4> QED
        BY <3>2, <4>2 DEF OneTicket
    <3>4. ASSUME NEW w \in Workers, Pipeline(w) PROVE OneTicket'
      BY <3>4, PipelineTicket DEF OneAtATime
    <3> QED
      BY <2>2, <3>2, <3>3, <3>4, OthersCalm, RqTicket DEF OneAtATime
  <2> QED
    BY <2>1, <2>2
<1> QED
  BY <1>1, <1>2, TypeCorrect, FreshIdsInvariant, KnownIdsInvariant, CalmInvariant, PTL
     DEF Spec, OneAtATime
-----------------------------------------------------------------------------
\* A change of one row is one move of the machine, if its status may go there.
LEMMA MachineMoves ==
    ASSUME TypeOK, NEW i \in Jobs, RowsChangedAt(i), used' = used,
           \/ rows'[i].status = rows[i].status
           \/ rows[i].status \in {"pending", "retrying"} /\ rows'[i].status = "processing"
           \/ rows[i].status = "processing" /\ rows'[i].status \in {"completed", "failed", "retrying"}
           \/ rows[i].status = "failed" /\ rows'[i].status = "pending"
           \/ rows'[i].status = "none"
    PROVE  [Machine!Next]_(Machine!svars)
<1> DEFINE now == [j \in Jobs |-> rows[j].status]
           then == [j \in Jobs |-> rows'[j].status]
<1>1. then = [now EXCEPT ![i] = rows'[i].status] /\ now[i] = rows[i].status
  BY DEF RowsChangedAt
<1>2. CASE rows'[i].status = rows[i].status
  <2>1. then = now
    BY <1>1, <1>2
  <2> QED
    BY <2>1 DEF Machine!svars
<1>3. ASSUME NEW from, NEW to, rows[i].status \in from, rows'[i].status = to
      PROVE  Machine!Move(i, from, to)
  BY <1>1, <1>3 DEF Machine!Move
<1>4. CASE rows[i].status \in {"pending", "retrying"} /\ rows'[i].status = "processing"
  BY <1>3, <1>4 DEF Machine!Next, Machine!Start
<1>5. CASE rows[i].status = "processing" /\ rows'[i].status \in {"completed", "failed", "retrying"}
  BY <1>3, <1>5 DEF Machine!Next, Machine!Succeed, Machine!Fail, Machine!Backoff
<1>6. CASE rows[i].status = "failed" /\ rows'[i].status = "pending"
  BY <1>3, <1>6 DEF Machine!Next, Machine!Resubmit
<1>7. CASE rows'[i].status = "none" /\ rows[i].status # "none"
  <2>1. rows[i].status \in {"pending", "processing", "retrying", "completed", "failed", "cancelled"}
    BY <1>7 DEF TypeOK, Row, Statuses
  <2> QED
    BY <1>3, <1>7, <2>1 DEF Machine!Next, Machine!Delete
<1> QED
  BY <1>2, <1>4, <1>5, <1>6, <1>7

\* Where the statuses and the ids stay, the machine does.
LEMMA MachineRests ==
    ASSUME \A j \in Jobs : rows'[j].status = rows[j].status, used' = used
    PROVE  UNCHANGED Machine!svars
BY DEF Machine!svars

\* A handler creates, submits again or deletes, or leaves the row alone.
LEMMA ApiStepMachine ==
    ASSUME OneAtATime, TypeOK, FreshIds, Calm, OneTicket, NEW r \in Requests, ApiStep(r)
    PROVE  [Machine!Next]_(Machine!svars)
<1> USE DEF store, redis, boot
<1> PICK i : i = api[r].job
  OBVIOUS
<1>1. CASE CreateInsert(r)
  <2>1. CASE UNCHANGED <<rows, used>>
    BY <2>1, MachineRests
  <2>2. CASE /\ rows' = [rows EXCEPT ![i] = WithStatus(NoRow, "pending")]
             /\ used' = used \cup {i}
    <3>1. i \in Jobs /\ i \notin used
      BY <1>1 DEF CreateInsert, TypeOK, InFlight, FreshIds, Creating, CreatingPcs
    <3>2. [j \in Jobs |-> rows'[j].status] = [[j \in Jobs |-> rows[j].status] EXCEPT ![i] = "pending"]
      BY <2>2, <3>1 DEF TypeOK, WithStatus, NoRow
    <3>3. Machine!Submit(i)
      BY <2>2, <3>1, <3>2 DEF Machine!Submit
    <3> QED
      BY <3>1, <3>3 DEF Machine!Next
  <2> QED
    BY <1>1, <2>1, <2>2 DEF CreateInsert
<1>2. CASE DeleteRow(r)
  <2>1. i \in Jobs /\ rows' = [rows EXCEPT ![i] = NoRow] /\ used' = used
    BY <1>2 DEF DeleteRow, TypeOK, InFlight
  <2>2. RowsChangedAt(i) /\ rows'[i].status = "none"
    BY <2>1 DEF RowsChangedAt, TypeOK, NoRow, Row
  <2> QED
    BY <2>1, <2>2, MachineMoves
<1>3. CASE RetryReset(r)
  <2> DEFINE new == [rows[i] EXCEPT !.status = "pending", !.retry_count = 0]
  <2>1. /\ i \in Jobs /\ rows[i] \in Row /\ rows' = Updated(i, new) /\ used' = used
        /\ Resetting(r, i)
    BY <1>3 DEF RetryReset, TypeOK, InFlight, Resetting
  <2>2. new \in Row /\ new.status = "pending"
    BY <2>1 DEF Row, Statuses
  <2>3. rows[i].status = "failed"
    BY <2>1 DEF OneTicket, Ticket, HandlersFit
  <2>4. RowsChangedAt(i) /\ rows'[i].status = "pending"
    <3> HIDE DEF new
    <3> QED
      BY <2>1, <2>2, <2>3, UpdatedFacts
  <2> QED
    BY <2>1, <2>3, <2>4, MachineMoves
<1>4. CASE CreateParams(r)
  <2> DEFINE new == [rows[i] EXCEPT !.params = TRUE]
  <2>0. i \in Jobs /\ rows[i] \in Row /\ rows' = Updated(i, new) /\ used' = used
    BY <1>4 DEF CreateParams, TypeOK, InFlight
  <2>1. new \in Row /\ new.status = rows[i].status
    BY <2>0 DEF Row
  <2>2. RowsChangedAt(i) /\ rows'[i].status = rows[i].status
    <3> HIDE DEF new
    <3> QED
      BY <2>0, <2>1, UpdatedFacts
  <2> QED
    BY <2>0, <2>2, MachineMoves
<1>5. CASE ~(CreateInsert(r) \/ DeleteRow(r) \/ RetryReset(r) \/ CreateParams(r))
  <2>1. UNCHANGED <<rows, used>>
    BY <1>5, ApiStepCalm DEF OneAtATime, ApiStep, CreateStart, DeleteStart, RetryStart,
       OpenRequest, CreateReject, CreateFind, CreateCount, CountStep, QmEnqueue, RqEnqueue,
       DeleteRmtree, RequestFails
  <2> QED
    BY <2>1, MachineRests
<1> QED
  BY <1>1, <1>2, <1>3, <1>4, <1>5

\* run_pipeline moves the row as the ticket of its worker lets it.
LEMMA PipelineMachine ==
    ASSUME TypeOK, OneTicket, NEW w \in Workers, Pipeline(w)
    PROVE  [Machine!Next]_(Machine!svars)
<1> USE DEF store, redis, boot
<1> PICK i : i = wk[w].job
  OBVIOUS
<1>0. i \in Jobs /\ rows[i] \in Row /\ used' = used /\ wk[w] \in Horse
  BY DEF Pipeline, TypeOK, Activate, MarkProcessing, Download, Extract,
     Reconstruct, Stage, Complete, Announce, Finally, HandleRead,
     HandleUpdate, HandleEnqueue, HandleSchedule, HandlerFails
<1>1. wk[w].pc \in {"mark", "complete", "h_update"} => rows[i].status \in StatusesAt(wk[w].pc)
  BY <1>0 DEF OneTicket, Ticket, HorsesFit, HorseHas
<1>2. CASE MarkProcessing(w)
  <2>1. wk[w].pc = "mark" /\ rows' = Updated(i, WithStatus(rows[i], "processing"))
    BY <1>2 DEF MarkProcessing
  <2>2. rows[i].status \in {"pending", "retrying", "none"}
    BY <1>1, <2>1 DEF StatusesAt
  <2>3. /\ RowsChangedAt(i)
        /\ IF rows[i].status = "none" THEN rows'[i] = rows[i] ELSE rows'[i].status = "processing"
    BY <1>0, <2>1, UpdatedFacts, WithStatusFacts DEF Statuses
  <2> QED
    BY <1>0, <2>2, <2>3, MachineMoves
<1>3. CASE Complete(w)
  <2>1. wk[w].pc = "complete" /\ rows' = Updated(i, WithStatus(rows[i], "completed"))
    BY <1>3 DEF Complete
  <2>2. rows[i].status \in {"processing", "none"}
    BY <1>1, <2>1 DEF StatusesAt
  <2>3. /\ RowsChangedAt(i)
        /\ IF rows[i].status = "none" THEN rows'[i] = rows[i] ELSE rows'[i].status = "completed"
    BY <1>0, <2>1, UpdatedFacts, WithStatusFacts DEF Statuses
  <2> QED
    BY <1>0, <2>2, <2>3, MachineMoves
<1>4. CASE HandleUpdate(w)
  <2> DEFINE n == wk[w].seen.retry_count + 1
             again == [rows[i] EXCEPT !.status = "retrying", !.retry_count = n]
  <2>1. n \in Nat
    BY <1>0 DEF Horse, Row
  <2>2. again \in Row /\ again.status = "retrying"
    <3> HIDE DEF n
    <3> QED
      BY <1>0, <2>1, RecountFacts DEF Statuses
  <2>3. FailedRow(rows[i]) \in Row /\ FailedRow(rows[i]).status = "failed"
    BY <1>0, WithStatusFacts DEF FailedRow, Statuses
  <2>4. PICK new \in Row : rows' = Updated(i, new) /\ new.status \in {"retrying", "failed"}
    <3>1. rows' = Updated(i, again) \/ rows' = Updated(i, FailedRow(rows[i]))
      BY <1>4 DEF HandleUpdate
    <3> HIDE DEF again
    <3> QED
      BY <2>2, <2>3, <3>1
  <2>5. rows[i].status \in {"processing", "none"}
    BY <1>1, <1>4 DEF HandleUpdate, StatusesAt
  <2>6. /\ RowsChangedAt(i)
        /\ IF rows[i].status = "none" THEN rows'[i] = rows[i]
           ELSE rows'[i].status \in {"retrying", "failed"}
    BY <1>0, <2>4, UpdatedFacts
  <2> QED
    BY <1>0, <2>5, <2>6, MachineMoves
<1>5. CASE ~(MarkProcessing(w) \/ Complete(w) \/ HandleUpdate(w))
  <2>1. rows' = rows
    BY <1>5 DEF Pipeline, Activate, Download, Extract, Reconstruct, Stage, Announce, Finally,
       HandleRead, HandleEnqueue, HandleSchedule, HandlerFails
  <2> QED
    BY <1>0, <2>1, MachineRests
<1> QED
  BY <1>2, <1>3, <1>4, <1>5

\* With one handler at a time, no cancellation, no restart and a Redis that
\* obeys, every step of handlers and workers, those that die included, is a
\* move of one job in the intended life of a job, or none.
THEOREM LifeImplementsMachine ==
    ASSUME OneAtATime
    PROVE  Spec => ImplementsMachine
<1>1. Init => Machine!Init
  BY DEF Init, Machine!Init, NoRow
<1>2. TypeOK /\ FreshIds /\ Calm /\ OneHandler /\ OneTicket /\ [Next]_vars
        => [Machine!Next]_(Machine!svars)
  <2> SUFFICES ASSUME TypeOK, FreshIds, Calm, OneTicket, [Next]_vars
               PROVE  [Machine!Next]_(Machine!svars)
    OBVIOUS
  <2>1. ASSUME NEW r \in Requests, ApiStep(r) PROVE [Machine!Next]_(Machine!svars)
    BY <2>1, ApiStepMachine
  <2>2. ASSUME NEW w \in Workers, Pipeline(w) PROVE [Machine!Next]_(Machine!svars)
    BY <2>2, PipelineMachine
  <2>3. CASE \/ \E w \in Workers : RqStep(w)
             \/ \E j \in Jobs, c \in Calls : Dispatch(j, c)
             \/ UNCHANGED vars
    <3>1. UNCHANGED <<rows, used>>
      BY <2>3 DEF RqStep, Dequeue, DeliverStop, WorkerCrash, Dispatch, vars, store
    <3> QED
      BY <3>1, MachineRests
  <2> QED
    BY <2>1, <2>2, <2>3, OthersCalm DEF OneAtATime
<1> QED
  BY <1>1, <1>2, TypeCorrect, FreshIdsInvariant, CalmInvariant, OneTicketInvariant, PTL
     DEF Spec, ImplementsMachine, Machine!Spec, OneAtATime
-----------------------------------------------------------------------------
=============================================================================
