------------------------- MODULE StorageFilesProofs -------------------------
(***************************************************************************)
(* TLAPS proofs about StorageFiles: what the cleanups, the start-up and    *)
(* delete_job take away, and what downloads find, for any number of jobs,  *)
(* requests, files, cleanups and restarts.                                 *)
(***************************************************************************)
EXTENDS StorageFiles, TLAPS

Statuses   == {"new", "pending", "processing", "completed", "failed", "none"}
WorkerPcs  == {"none", "queued", "download", "reconstruct", "export", "complete"}
CleanerPcs == {"idle", "intermediate", "expired", "row"}
ServerPcs  == {"up", "files", "rows", "stale"}

HandlerType == [pc : HandlerPcs, job : Jobs \cup {NoJob}, zip : BOOLEAN,
                left : SUBSET Files, got : SUBSET Files]

HandlerTyped ==
    /\ handler \in [Handlers -> HandlerType]
    /\ \A h \in Handlers : handler[h].pc # "idle" => handler[h].job \in Jobs

Typed ==
    /\ status \in [Jobs -> Statuses] /\ age \in [Jobs -> Nat]
    /\ disk \in [Jobs -> SUBSET Files] /\ worker \in [Jobs -> WorkerPcs]
    /\ cleaner \in [pc : CleanerPcs, todo : SUBSET Jobs, job : Jobs \cup {NoJob}]
    /\ cleaner.pc = "row" => cleaner.job \in Jobs
    /\ server \in [pc : ServerPcs, todo : SUBSET Jobs]
    /\ HandlerTyped
    /\ removed \subseteq Jobs /\ late \subseteq Jobs /\ leftover \subseteq Jobs

\* The final files of a job nobody has begun to remove are all there.
Kept(j) == j \notin removed => Finals \subseteq disk[j]

\* The files of a job are gone, or there is an explanation for those that stay.
Explained(j) == j \in removed /\ (disk[j] = {} \/ j \in late \cup leftover)

\* A job has its final files from the last step of run_pipeline on, and a
\* download was begun when it had them; a bundle is still to read, or has read,
\* each of them.
Serves(r) ==
    /\ r.pc \in {"list", "read"} => Kept(r.job)
    /\ r.pc = "read" /\ r.zip /\ r.job \notin removed => Finals \subseteq r.left \cup r.got
    /\ r.pc = "read" /\ ~r.zip => r.left \subseteq Finals
    /\ r.pc = "ok" /\ r.zip /\ r.job \notin removed => Finals \subseteq r.got
    /\ r.pc \in {"failed", "missing"} /\ ~r.zip => r.job \in removed
    /\ r.pc \in {"rmtree", "delete_row"} => ~r.zip

FilesInv ==
    /\ \A j \in Jobs : status[j] = "completed" \/ worker[j] = "complete" => Kept(j)
    /\ \A h \in Handlers : Serves(handler[h])

\* Whoever is about to drop a row, and whoever has, leaves nothing unexplained.
RowsInv ==
    /\ \A j \in Jobs : status[j] = "none" => Explained(j)
    /\ \A h \in Handlers : handler[h].pc = "delete_row" => Explained(handler[h].job)
    /\ cleaner.pc = "row" => Explained(cleaner.job)
    /\ server.pc = "rows" => \A j \in server.todo : Explained(j)

\* The jobs on the lists of a removal are old enough, and stay so.
AgesInv ==
    /\ cleaner.pc \in {"expired", "row"} => \A j \in cleaner.todo : age[j] > ResultTtl
    /\ cleaner.pc = "row" => age[cleaner.job] > ResultTtl
    /\ server.pc \in {"files", "rows"} => \A j \in server.todo : age[j] > JobTtl

Inv == Typed /\ FilesInv /\ RowsInv /\ AgesInv
-----------------------------------------------------------------------------
(* Types. *)

LEMMA InitInv == Init => Inv
BY DEF Init, Inv, Typed, FilesInv, RowsInv, AgesInv, HandlerTyped, HandlerType, HandlerPcs,
   NoHandler, HandlerAt, Cleaner, Boot, Statuses, WorkerPcs, CleanerPcs, ServerPcs, Serves, Kept

LEMMA WorkTyped ==
    ASSUME Typed, NEW j \in Jobs, Work(j)
    PROVE  Typed'
<1>1. Working \subseteq Files /\ Sparse \subseteq Files /\ Finals \subseteq Files
  BY DEF Files, Results
<1>2. CASE Submit(j)
  BY <1>2 DEF Submit, Typed, HandlerTyped, Statuses, WorkerPcs, history
<1>3. CASE WorkerStarts(j) \/ WorkerCompletes(j) \/ WorkerFails(j)
  BY <1>3 DEF WorkerStarts, WorkerCompletes, WorkerFails, Updated, Typed, HandlerTyped,
     Statuses, WorkerPcs, history
<1>4. CASE WorkerDownloads(j) \/ WorkerReconstructs(j) \/ WorkerExports(j)
  <2>1. PICK files \in SUBSET Files, next \in WorkerPcs : Writes(j, files, next)
    BY <1>1, <1>4 DEF WorkerDownloads, WorkerReconstructs, WorkerExports, WorkerPcs
  <2> QED
    BY <2>1 DEF Writes, Typed, HandlerTyped
<1> QED
  BY <1>2, <1>3, <1>4 DEF Work

LEMMA CleanupTyped ==
    ASSUME Typed, Cleanup
    PROVE  Typed'
<1>1. \A ttl : CompletedOlder(ttl) \subseteq Jobs
  BY DEF CompletedOlder, Older, Rows
<1>2. CASE CleanupLists
  BY <1>1, <1>2 DEF CleanupLists, Typed, HandlerTyped, Cleaner, CleanerPcs, history
<1>3. CASE CleanupExpires
  BY <1>1, <1>3 DEF CleanupExpires, Typed, HandlerTyped, Cleaner, CleanerPcs, history
<1>4. CASE ExpiredDrops \/ CleanupEnds
  BY <1>4 DEF ExpiredDrops, CleanupEnds, Typed, HandlerTyped, Cleaner, CleanerPcs, Statuses, history
<1>5. ASSUME NEW j \in Jobs, CleanupNext(j) \/ ExpiredReturns(j) PROVE Typed'
  BY <1>5 DEF CleanupNext, ExpiredReturns, RmtreeReturns, Typed, HandlerTyped, Cleaner,
     CleanerPcs, history
<1>6. ASSUME NEW j \in Jobs, NEW f \in Files, CleanupRemoves(j, f) \/ ExpiredRemoves(j, f)
      PROVE  Typed'
  BY <1>6 DEF CleanupRemoves, ExpiredRemoves, Unlinks, Typed, HandlerTyped, history
<1> QED
  BY <1>2, <1>3, <1>4, <1>5, <1>6 DEF Cleanup

LEMMA StartupTyped ==
    ASSUME Typed, Startup
    PROVE  Typed'
<1>1. CASE Restart
  BY <1>1 DEF Restart, Older, Rows, Typed, HandlerTyped, HandlerType, HandlerPcs, NoHandler,
     HandlerAt, Boot, ServerPcs, history
<1>2. CASE BootReturns
  BY <1>2 DEF BootReturns, RmtreeReturns, Typed, HandlerTyped, ServerPcs
<1>3. CASE BootDrops
  BY <1>3 DEF BootDrops, Boot, Typed, HandlerTyped, ServerPcs, Statuses, history
<1>4. CASE BootFailsStale
  BY <1>4 DEF BootFailsStale, Boot, Typed, HandlerTyped, ServerPcs, Statuses, history
<1>5. ASSUME NEW j \in Jobs, NEW f \in Files, BootRemoves(j, f) PROVE Typed'
  BY <1>5 DEF BootRemoves, Unlinks, Typed, HandlerTyped
<1> QED
  BY <1>1, <1>2, <1>3, <1>4, <1>5 DEF Startup

\* A handler that moves on keeps its job.
LEMMA DeleteTyped ==
    ASSUME Typed, NEW h \in Handlers, Delete(h)
    PROVE  Typed'
<1>1. ASSUME NEW j \in Jobs, DeleteReads(h, j) PROVE Typed'
  BY <1>1 DEF DeleteReads, HandlerAt, Typed, HandlerTyped, HandlerType, HandlerPcs, history
<1>2. ASSUME NEW f \in Files, DeleteRemoves(h, f) PROVE Typed'
  BY <1>2 DEF DeleteRemoves, Unlinks, At, Typed, HandlerTyped
<1>3. CASE DeleteReturns(h)
  BY <1>3 DEF DeleteReturns, Goto, At, Typed, HandlerTyped, HandlerType, HandlerPcs
<1>4. CASE DeleteDrops(h)
  BY <1>4 DEF DeleteDrops, Goto, At, Typed, HandlerTyped, HandlerType, HandlerPcs, Statuses, history
<1> QED
  BY <1>1, <1>2, <1>3, <1>4 DEF Delete

LEMMA ReadTyped ==
    ASSUME Typed, NEW h \in Handlers, Read(h)
    PROVE  Typed'
<1>1. ASSUME NEW j \in Jobs, NEW zip \in BOOLEAN, ReadStarts(h, j, zip) PROVE Typed'
  BY <1>1 DEF ReadStarts, HandlerAt, Typed, HandlerTyped, HandlerType, HandlerPcs, history
<1>2. ASSUME NEW r \in HandlerType, r.job = handler[h].job, handler[h].pc # "idle",
             handler' = [handler EXCEPT ![h] = r],
             UNCHANGED <<status, age, disk, worker, cleaner, server, removed, late, leftover>>
      PROVE  Typed'
  BY <1>2 DEF Typed, HandlerTyped
<1>3. ASSUME NEW pc \in HandlerPcs, NEW left \in SUBSET Files, NEW got \in SUBSET Files
      PROVE  LET r == [handler[h] EXCEPT !.pc = pc, !.left = left, !.got = got]
             IN  r \in HandlerType /\ r.job = handler[h].job
  BY DEF Typed, HandlerTyped, HandlerType
<1>4. handler[h] \in HandlerType /\ handler \in [Handlers -> HandlerType]
  BY DEF Typed, HandlerTyped
<1>5. CASE ZipLists(h)
  <2> DEFINE left == disk[handler[h].job] \cap Results
             pc   == IF left = {} THEN "missing" ELSE "read"
             got  == handler[h].got
             r    == [handler[h] EXCEPT !.pc = pc, !.left = left, !.got = got]
  <2>1. pc \in HandlerPcs /\ left \in SUBSET Files /\ got \in SUBSET Files
    BY <1>4 DEF HandlerType, HandlerPcs, Files
  <2>2. handler' = [handler EXCEPT ![h] = [handler[h] EXCEPT !.pc = pc, !.left = left]]
        /\ handler[h].pc # "idle"
        /\ UNCHANGED <<status, age, disk, worker, cleaner, server, removed, late, leftover>>
    BY <1>4, <1>5 DEF ZipLists, At, history
  <2> HIDE DEF pc, left
  <2>3. r = [handler[h] EXCEPT !.pc = pc, !.left = left]
    BY <1>4 DEF HandlerType
  <2>4. r \in HandlerType /\ r.job = handler[h].job
    BY <1>3, <2>1
  <2> HIDE DEF r, got
  <2> QED
    BY <1>2, <2>2, <2>3, <2>4
<1>6. ASSUME NEW f \in Finals, FileExists(h, f) PROVE Typed'
  <2> DEFINE left == {f}
             pc   == IF f \in disk[handler[h].job] THEN "read" ELSE "missing"
             got  == handler[h].got
             r    == [handler[h] EXCEPT !.pc = pc, !.left = left, !.got = got]
  <2>1. pc \in HandlerPcs /\ left \in SUBSET Files /\ got \in SUBSET Files
    BY <1>4 DEF HandlerType, HandlerPcs, Files, Results
  <2>2. handler' = [handler EXCEPT ![h] = [handler[h] EXCEPT !.pc = pc, !.left = left]]
        /\ handler[h].pc # "idle"
        /\ UNCHANGED <<status, age, disk, worker, cleaner, server, removed, late, leftover>>
    BY <1>4, <1>6 DEF FileExists, At, history
  <2> HIDE DEF pc, left
  <2>3. r = [handler[h] EXCEPT !.pc = pc, !.left = left]
    BY <1>4 DEF HandlerType
  <2>4. r \in HandlerType /\ r.job = handler[h].job
    BY <1>3, <2>1
  <2> HIDE DEF r, got
  <2> QED
    BY <1>2, <2>2, <2>3, <2>4
<1>7. ASSUME NEW f \in Results, ReadOpens(h, f) PROVE Typed'
  <2> DEFINE pc == IF f \notin disk[handler[h].job] THEN "failed"
                     ELSE IF handler[h].left = {f} THEN "ok" ELSE "read"
             left == handler[h].left \ {f}
             got  == handler[h].got \cup (disk[handler[h].job] \cap {f})
             r    == [handler[h] EXCEPT !.pc = pc, !.left = left, !.got = got]
  <2>1. pc \in HandlerPcs /\ left \in SUBSET Files /\ got \in SUBSET Files
    BY <1>4 DEF HandlerType, HandlerPcs, Files
  <2>2. handler' = [handler EXCEPT ![h].pc = pc, ![h].left = left, ![h].got = got]
        /\ handler[h].pc # "idle"
        /\ UNCHANGED <<status, age, disk, worker, cleaner, server, removed, late, leftover>>
    BY <1>7 DEF ReadOpens, At, history
  <2> HIDE DEF pc, left, got
  <2>3. r \in HandlerType /\ r.job = handler[h].job
    BY <1>3, <2>1
  <2>4. handler' = [handler EXCEPT ![h] = r]
    BY <1>4, <2>2
  <2> HIDE DEF r
  <2> QED
    BY <1>2, <2>2, <2>3, <2>4
<1> QED
  BY <1>1, <1>5, <1>6, <1>7 DEF Read

LEMMA NextTyped ==
    ASSUME Typed, [Next]_vars
    PROVE  Typed'
<1>1. CASE Tick
  BY <1>1 DEF Tick, Typed, HandlerTyped, history
<1>2. CASE UNCHANGED vars
  BY <1>2 DEF vars, Typed, HandlerTyped
<1> QED
  BY <1>1, <1>2, WorkTyped, CleanupTyped, StartupTyped, DeleteTyped, ReadTyped DEF Next
-----------------------------------------------------------------------------
(* What a step may do to the files of a job. *)

Grow == removed \subseteq removed' /\ late \subseteq late' /\ leftover \subseteq leftover'

\* It leaves them alone, takes one of them, or adds some.
Moves(j) ==
    \/ disk'[j] = disk[j]
    \/ \E f \in Files : disk'[j] = disk[j] \ {f} /\ (j \in removed' \/ f \notin Finals)
    \/ disk[j] \subseteq disk'[j] /\ (j \in removed => j \in late')

\* A file is unlinked; the files of the other jobs stay.
LEMMA UnlinksMoves ==
    ASSUME Typed, NEW i \in Jobs, NEW f \in Files, Unlinks(i, f), UNCHANGED <<late, leftover>>
    PROVE  Grow /\ \A j \in Jobs : Moves(j)
<1>1. \A j \in Jobs : disk'[j] = IF j = i THEN disk[j] \ {f} ELSE disk[j]
  BY DEF Unlinks, Typed
<1>2. i \in removed' /\ Grow
  BY DEF Unlinks, Grow
<1> QED
  BY <1>1, <1>2 DEF Moves

LEMMA FilesMove ==
    ASSUME Typed, [Next]_vars
    PROVE  Grow /\ \A j \in Jobs : Moves(j)
<1>1. CASE disk' = disk /\ Grow
  BY <1>1 DEF Moves
<1>2. ASSUME NEW i \in Jobs, Work(i) PROVE Grow /\ \A j \in Jobs : Moves(j)
  <2>1. CASE Submit(i) \/ WorkerStarts(i) \/ WorkerCompletes(i) \/ WorkerFails(i)
    BY <1>1, <2>1 DEF Submit, WorkerStarts, WorkerCompletes, WorkerFails, Grow, history
  <2>2. CASE WorkerDownloads(i) \/ WorkerReconstructs(i) \/ WorkerExports(i)
    <3>1. PICK files, next : Writes(i, files, next)
      BY <2>2 DEF WorkerDownloads, WorkerReconstructs, WorkerExports
    <3>2. \A j \in Jobs : disk'[j] = IF j = i THEN disk[j] \cup files ELSE disk[j]
      BY <3>1 DEF Writes, Typed
    <3>3. Grow /\ (i \in removed => i \in late')
      BY <3>1 DEF Writes, Grow
    <3> QED
      BY <3>2, <3>3 DEF Moves
  <2> QED
    BY <1>2, <2>1, <2>2 DEF Work
<1>3. CASE Cleanup
  <2>1. ASSUME NEW i \in Jobs, NEW f \in Files, CleanupRemoves(i, f)
        PROVE  Grow /\ \A j \in Jobs : Moves(j)
    <3>1. \A j \in Jobs : disk'[j] = IF j = i THEN disk[j] \ {f} ELSE disk[j]
      BY <2>1 DEF CleanupRemoves, Typed
    <3>2. f \notin Finals /\ Grow
      BY <2>1, StorageAssumption DEF CleanupRemoves, CleanedFiles, Intermediate, Grow, history
    <3> QED
      BY <3>1, <3>2 DEF Moves
  <2>2. ASSUME NEW i \in Jobs, NEW f \in Files, ExpiredRemoves(i, f)
        PROVE  Grow /\ \A j \in Jobs : Moves(j)
    BY <2>2, UnlinksMoves DEF ExpiredRemoves
  <2>3. CASE CleanupLists \/ CleanupExpires \/ ExpiredDrops \/ CleanupEnds
    BY <1>1, <2>3 DEF CleanupLists, CleanupExpires, ExpiredDrops, CleanupEnds, Grow, history
  <2>4. ASSUME NEW i \in Jobs, CleanupNext(i) \/ ExpiredReturns(i)
        PROVE  Grow /\ \A j \in Jobs : Moves(j)
    BY <1>1, <2>4 DEF CleanupNext, ExpiredReturns, RmtreeReturns, Grow, history
  <2> QED
    BY <1>3, <2>1, <2>2, <2>3, <2>4 DEF Cleanup
<1>4. CASE Startup
  <2>1. ASSUME NEW i \in Jobs, NEW f \in Files, BootRemoves(i, f)
        PROVE  Grow /\ \A j \in Jobs : Moves(j)
    BY <2>1, UnlinksMoves DEF BootRemoves
  <2>2. CASE Restart \/ BootReturns \/ BootDrops \/ BootFailsStale
    BY <1>1, <2>2 DEF Restart, BootReturns, RmtreeReturns, BootDrops, BootFailsStale, Grow, history
  <2> QED
    BY <1>4, <2>1, <2>2 DEF Startup
<1>5. ASSUME NEW h \in Handlers, Delete(h) PROVE Grow /\ \A j \in Jobs : Moves(j)
  <2>1. ASSUME NEW f \in Files, DeleteRemoves(h, f) PROVE Grow /\ \A j \in Jobs : Moves(j)
    <3>1. handler[h].job \in Jobs
      BY <2>1 DEF DeleteRemoves, At, Typed, HandlerTyped
    <3> QED
      BY <2>1, <3>1, UnlinksMoves DEF DeleteRemoves
  <2>2. CASE DeleteReturns(h) \/ DeleteDrops(h) \/ \E j \in Jobs : DeleteReads(h, j)
    BY <1>1, <2>2 DEF DeleteReturns, DeleteDrops, DeleteReads, Grow, history
  <2> QED
    BY <1>5, <2>1, <2>2 DEF Delete
<1>6. ASSUME NEW h \in Handlers, Read(h) PROVE Grow /\ \A j \in Jobs : Moves(j)
  BY <1>1, <1>6 DEF Read, ReadStarts, ZipLists, FileExists, ReadOpens, Grow, history
<1>7. CASE Tick \/ UNCHANGED vars
  BY <1>1, <1>7 DEF Tick, vars, Grow, history
<1> QED
  BY <1>2, <1>3, <1>4, <1>5, <1>6, <1>7 DEF Next

\* A job nobody has begun to remove keeps its final files.
LEMMA KeptStable ==
    ASSUME Typed, [Next]_vars, NEW j \in Jobs, Kept(j)
    PROVE  Kept(j)'
BY FilesMove DEF Kept, Moves, Grow

\* Files that stay behind stay explained.
LEMMA ExplainedStable ==
    ASSUME Typed, [Next]_vars, NEW j \in Jobs, Explained(j)
    PROVE  Explained(j)'
BY FilesMove DEF Explained, Moves, Grow

\* Only the last step of run_pipeline gives a job its final files, and only a
\* job that has them is completed.
LEMMA CompletedKept ==
    ASSUME Typed, FilesInv, [Next]_vars, NEW j \in Jobs,
           status'[j] = "completed" \/ worker'[j] = "complete"
    PROVE  Kept(j)'
<1>1. CASE status[j] = "completed" \/ worker[j] = "complete"
  BY <1>1, KeptStable DEF FilesInv
<1>2. CASE ~(status[j] = "completed" \/ worker[j] = "complete")
  <2>1. ASSUME NEW i \in Jobs, Work(i) PROVE WorkerExports(i) /\ i = j
    <3>1. CASE Submit(i) \/ WorkerStarts(i) \/ WorkerFails(i)
      BY <1>2, <3>1 DEF Submit, WorkerStarts, WorkerFails, Updated, Typed
    <3>2. CASE WorkerCompletes(i)
      BY <1>2, <3>2 DEF WorkerCompletes, Updated, Typed
    <3>3. CASE WorkerDownloads(i) \/ WorkerReconstructs(i)
      BY <1>2, <3>3 DEF WorkerDownloads, WorkerReconstructs, Writes, Typed
    <3>4. CASE WorkerExports(i)
      BY <1>2, <3>4 DEF WorkerExports, Writes, Typed
    <3> QED
      BY <2>1, <3>1, <3>2, <3>3, <3>4 DEF Work
  <2>2. ~Cleanup
    BY <1>2 DEF Cleanup, CleanupLists, CleanupExpires, ExpiredDrops, CleanupEnds, CleanupNext,
       ExpiredReturns, CleanupRemoves, ExpiredRemoves, Typed
  <2>3. ~Startup
    BY <1>2 DEF Startup, Restart, BootReturns, BootDrops, BootFailsStale, BootRemoves, Typed
  <2>4. ASSUME NEW h \in Handlers PROVE ~Delete(h) /\ ~Read(h)
    BY <1>2 DEF Delete, DeleteReads, DeleteRemoves, DeleteReturns, DeleteDrops,
       Read, ReadStarts, ZipLists, FileExists, ReadOpens, Typed
  <2>5. ~Tick /\ ~UNCHANGED vars
    BY <1>2 DEF Tick, vars
  <2>6. WorkerExports(j)
    BY <2>1, <2>2, <2>3, <2>4, <2>5 DEF Next
  <2> QED
    BY <2>6 DEF WorkerExports, Writes, Kept, Typed
<1> QED
  BY <1>1, <1>2

\* What a download has read is whole as long as it goes on, and when it ends.
LEMMA ServesStable ==
    ASSUME Typed, [Next]_vars, NEW r, r.job \in Jobs \/ r.pc = "idle", Serves(r)
    PROVE  Serves(r)'
<1>1. r' = r /\ removed \subseteq removed'
  BY FilesMove DEF Grow
<1>2. r.job \in Jobs => (Kept(r.job) => Kept(r.job)')
  BY KeptStable
<1> QED
  BY <1>1, <1>2 DEF Serves

\* A bundle lists what is there, and every file it reads is one it has listed.
LEMMA ReadServes ==
    ASSUME Typed, FilesInv, [Next]_vars, NEW h \in Handlers, Read(h), NEW r, r = handler'[h]
    PROVE  Serves(r)'
<1> DEFINE j == handler[h].job
<1>1. handler[h] \in HandlerType /\ handler \in [Handlers -> HandlerType] /\ Serves(handler[h])
  BY DEF Typed, HandlerTyped, FilesInv
<1>2. removed' = removed /\ disk' = disk
  BY DEF Read, ReadStarts, ZipLists, FileExists, ReadOpens, history
<1>3. ASSUME NEW i \in Jobs, NEW zip \in BOOLEAN, ReadStarts(h, i, zip) PROVE Serves(r)'
  <2>1. r.pc = "list" /\ r.job = i
    BY <1>1, <1>3 DEF ReadStarts, HandlerAt
  <2>2. Kept(i)'
    BY <1>3, KeptStable DEF ReadStarts, FilesInv
  <2> QED
    BY <2>1, <2>2 DEF Serves
<1>4. CASE ZipLists(h)
  <2>1. j \in Jobs /\ handler[h].pc = "list" /\ Kept(j) /\ handler[h].zip
    BY <1>1, <1>4 DEF ZipLists, At, Typed, HandlerTyped, Serves
  <2>2. /\ r.pc = IF disk[j] \cap Results = {} THEN "missing" ELSE "read"
        /\ r.left = disk[j] \cap Results /\ r.job = j /\ r.zip = TRUE
    BY <1>1, <1>4, <2>1 DEF ZipLists, HandlerType
  <2>3. Finals \subseteq Results
    BY DEF Results
  <2> HIDE DEF j
  <2> QED
    BY <1>2, <2>1, <2>2, <2>3 DEF Serves, Kept
<1>5. ASSUME NEW f \in Finals, FileExists(h, f) PROVE Serves(r)'
  <2>1. j \in Jobs /\ handler[h].pc = "list" /\ Kept(j) /\ ~handler[h].zip
    BY <1>1, <1>5 DEF FileExists, At, Typed, HandlerTyped, Serves
  <2>2. /\ r.pc = IF f \in disk[j] THEN "read" ELSE "missing"
        /\ r.left = {f} /\ r.job = j /\ r.zip = handler[h].zip
    BY <1>1, <1>5 DEF FileExists, HandlerType
  <2> HIDE DEF j
  <2> QED
    BY <1>2, <2>1, <2>2 DEF Serves, Kept
<1>6. ASSUME NEW f \in Results, ReadOpens(h, f) PROVE Serves(r)'
  <2>1. j \in Jobs /\ handler[h].pc = "read" /\ Kept(j) /\ f \in handler[h].left
    BY <1>1, <1>6 DEF ReadOpens, At, Typed, HandlerTyped, Serves
  <2>2. /\ handler[h].zip /\ j \notin removed => Finals \subseteq handler[h].left \cup handler[h].got
        /\ ~handler[h].zip => handler[h].left \subseteq Finals
    BY <1>1, <2>1 DEF Serves
  <2> DEFINE pc == IF f \notin disk[j] THEN "failed"
                     ELSE IF handler[h].left = {f} THEN "ok" ELSE "read"
             left == handler[h].left \ {f}
             got  == handler[h].got \cup (disk[j] \cap {f})
  <2>3. handler' = [handler EXCEPT ![h].pc = pc, ![h].left = left, ![h].got = got]
    BY <1>6 DEF ReadOpens
  <2>4. \/ pc = "failed" /\ f \notin disk[j]
        \/ pc = "ok" /\ f \in disk[j] /\ handler[h].left = {f}
        \/ pc = "read" /\ f \in disk[j]
    OBVIOUS
  <2>5. (f \in disk[j] => got = handler[h].got \cup {f}) /\ left = handler[h].left \ {f}
    OBVIOUS
  <2> HIDE DEF pc, left, got
  <2>6. r.pc = pc /\ r.left = left /\ r.got = got /\ r.job = j /\ r.zip = handler[h].zip
    BY <1>1, <2>3 DEF HandlerType
  <2> HIDE DEF j
  <2>7. CASE pc = "failed" /\ f \notin disk[j]
    BY <1>2, <2>1, <2>2, <2>6, <2>7 DEF Serves, Kept
  <2>8. CASE pc = "ok" /\ f \in disk[j] /\ handler[h].left = {f}
    BY <1>2, <2>1, <2>2, <2>5, <2>6, <2>8 DEF Serves, Kept
  <2>9. CASE pc = "read" /\ f \in disk[j]
    BY <1>2, <2>1, <2>2, <2>5, <2>6, <2>9 DEF Serves, Kept
  <2> QED
    BY <2>4, <2>7, <2>8, <2>9
<1> QED
  BY <1>3, <1>4, <1>5, <1>6 DEF Read

\* A handler of delete_job promises no download; if it fails, it has removed.
LEMMA DeleteServes ==
    ASSUME Typed, FilesInv, [Next]_vars, NEW h \in Handlers, Delete(h), NEW r, r = handler'[h]
    PROVE  Serves(r)'
<1>1. handler[h] \in HandlerType /\ handler \in [Handlers -> HandlerType] /\ Serves(handler[h])
  BY DEF Typed, HandlerTyped, FilesInv
<1>2. ASSUME NEW j \in Jobs, DeleteReads(h, j) PROVE Serves(r)'
  <2>1. r.pc = "rmtree" /\ r.zip = FALSE
    BY <1>1, <1>2 DEF DeleteReads, HandlerAt
  <2> QED
    BY <2>1 DEF Serves
<1>3. CASE \E f \in Files : DeleteRemoves(h, f)
  <2>1. r = handler[h] /\ (r.job \in Jobs \/ r.pc = "idle")
    BY <1>3 DEF DeleteRemoves, Typed, HandlerTyped
  <2> QED
    BY <1>1, <2>1, ServesStable
<1>4. CASE DeleteReturns(h)
  <2>1. ~handler[h].zip
    BY <1>1, <1>4 DEF DeleteReturns, At, Serves
  <2>2. r.pc \in {"delete_row", "failed"} /\ r.job \in removed' /\ r.zip = handler[h].zip
    BY <1>1, <1>4 DEF DeleteReturns, Goto, HandlerType
  <2> QED
    BY <2>1, <2>2 DEF Serves
<1>5. CASE DeleteDrops(h)
  <2>1. ~handler[h].zip
    BY <1>1, <1>5 DEF DeleteDrops, At, Serves
  <2>2. r.pc = "ok" /\ r.zip = handler[h].zip
    BY <1>1, <1>5 DEF DeleteDrops, Goto, HandlerType
  <2> QED
    BY <2>1, <2>2 DEF Serves
<1> QED
  BY <1>2, <1>3, <1>4, <1>5 DEF Delete

LEMMA NextFiles ==
    ASSUME Typed, FilesInv, [Next]_vars
    PROVE  FilesInv'
<1>1. \A j \in Jobs : status'[j] = "completed" \/ worker'[j] = "complete" => Kept(j)'
  BY CompletedKept
<1>2. ASSUME NEW h \in Handlers, NEW r, r = handler'[h] PROVE Serves(r)'
  <2>1. handler[h] \in HandlerType /\ handler \in [Handlers -> HandlerType] /\ Serves(handler[h])
        /\ (handler[h].job \in Jobs \/ handler[h].pc = "idle")
    BY DEF Typed, HandlerTyped, FilesInv
  <2>2. CASE r = handler[h]
    BY <2>1, <2>2, ServesStable
  <2>3. CASE Restart
    <3>1. r = handler[h] \/ r = NoHandler
      BY <1>2, <2>1, <2>3 DEF Restart
    <3>2. NoHandler.pc = "idle"
      BY DEF NoHandler, HandlerAt
    <3>3. Serves(NoHandler)'
      BY <3>2 DEF Serves
    <3> QED
      BY <2>2, <3>1, <3>3
  <2>4. ASSUME NEW i \in Handlers, Delete(i) \/ Read(i) PROVE Serves(r)'
    <3>1. CASE i = h
      BY <1>2, <2>4, <3>1, ReadServes, DeleteServes
    <3>2. CASE i # h
      <4>1. handler'[h] = handler[h]
        BY <2>1, <2>4, <3>2 DEF Delete, DeleteReads, DeleteRemoves, DeleteReturns, DeleteDrops,
           Read, ReadStarts, ZipLists, FileExists, ReadOpens, Goto
      <4> QED
        BY <1>2, <2>2, <4>1
    <3> QED
      BY <3>1, <3>2
  <2>5. CASE handler' = handler
    BY <1>2, <2>2, <2>5
  <2>6. (\E j \in Jobs : Work(j)) \/ Cleanup \/ Tick \/ (UNCHANGED vars) \/ (Startup /\ ~Restart)
        => handler' = handler
    BY DEF Work, Submit, WorkerStarts, WorkerDownloads, WorkerReconstructs, WorkerExports, Writes,
       WorkerCompletes, WorkerFails, Cleanup, CleanupLists, CleanupExpires, ExpiredDrops,
       CleanupEnds, CleanupNext, ExpiredReturns, CleanupRemoves, ExpiredRemoves, Startup,
       BootReturns, BootDrops, BootFailsStale, BootRemoves, Tick, vars
  <2> QED
    BY <2>3, <2>4, <2>5, <2>6 DEF Next
<1>3. \A h \in Handlers : Serves(handler[h])'
  <2> SUFFICES ASSUME NEW h \in Handlers PROVE Serves(handler[h])'
    OBVIOUS
  <2>1. PICK r : r = handler'[h]
    OBVIOUS
  <2>2. Serves(r)'
    BY <1>2, <2>1
  <2>3. r' = r
    OBVIOUS
  <2> QED
    BY <2>1, <2>2 DEF Serves
<1> QED
  BY <1>1, <1>3 DEF FilesInv
-----------------------------------------------------------------------------
(* Rows and the files without one. *)

\* A removal that has returned has explained what it leaves.
LEMMA ReturnExplains ==
    ASSUME Typed, NEW jobs \in SUBSET Jobs, RmtreeReturns(jobs), UNCHANGED <<disk, late>>
    PROVE  \A j \in jobs : Explained(j)'
BY DEF RmtreeReturns, Explained, Typed

LEMMA NextRows ==
    ASSUME Typed, RowsInv, [Next]_vars
    PROVE  RowsInv'
<1>1. \A j \in Jobs : Explained(j) => Explained(j)'
  BY ExplainedStable
<1>2. ASSUME NEW j \in Jobs, status'[j] = "none" PROVE Explained(j)'
  <2>1. CASE status[j] = "none"
    BY <1>1, <2>1 DEF RowsInv
  <2>2. CASE status[j] # "none"
    <3>1. ASSUME NEW i \in Jobs PROVE ~Work(i)
      BY <1>2, <2>2 DEF Work, Submit, WorkerStarts, WorkerDownloads, WorkerReconstructs,
         WorkerExports, Writes, WorkerCompletes, WorkerFails, Updated, Typed
    <3>2. CASE Cleanup
      <4>1. cleaner.pc = "row" /\ cleaner.job = j
        BY <1>2, <2>2, <3>2 DEF Cleanup, CleanupLists, CleanupExpires, ExpiredDrops, CleanupEnds,
           CleanupNext, ExpiredReturns, CleanupRemoves, ExpiredRemoves, Typed
      <4> QED
        BY <1>1, <4>1 DEF RowsInv
    <3>3. CASE Startup
      <4>1. server.pc = "rows" /\ j \in server.todo
        BY <1>2, <2>2, <3>3 DEF Startup, Restart, BootReturns, BootDrops, BootFailsStale,
           BootRemoves, Typed
      <4> QED
        BY <1>1, <4>1 DEF RowsInv
    <3>4. ASSUME NEW h \in Handlers, Delete(h) PROVE Explained(j)'
      <4>1. handler[h].pc = "delete_row" /\ handler[h].job = j
        BY <1>2, <2>2, <3>4 DEF Delete, DeleteReads, DeleteRemoves, DeleteReturns, DeleteDrops,
           At, Typed
      <4> QED
        BY <1>1, <4>1 DEF RowsInv
    <3>5. ASSUME NEW h \in Handlers PROVE ~Read(h)
      BY <1>2, <2>2 DEF Read, ReadStarts, ZipLists, FileExists, ReadOpens
    <3>6. ~Tick /\ ~UNCHANGED vars
      BY <1>2, <2>2 DEF Tick, vars
    <3> QED
      BY <3>1, <3>2, <3>3, <3>4, <3>5, <3>6 DEF Next
  <2> QED
    BY <2>1, <2>2
<1>3. ASSUME NEW h \in Handlers, handler'[h].pc = "delete_row" PROVE Explained(handler[h].job)'
  <2>1. handler \in [Handlers -> HandlerType]
        /\ (handler[h].pc # "idle" => handler[h].job \in Jobs)
    BY DEF Typed, HandlerTyped
  <2>2. CASE handler'[h] = handler[h]
    <3>1. Explained(handler[h].job) /\ handler[h].job \in Jobs
      BY <1>3, <2>1, <2>2 DEF RowsInv
    <3>2. PICK j \in Jobs : j = handler[h].job /\ Explained(j)
      BY <3>1
    <3> QED
      BY <1>1, <2>2, <3>2 DEF Explained
  <2>3. CASE DeleteReturns(h)
    <3>1. /\ handler'[h].job = handler[h].job
          /\ handler'[h].pc = IF disk[handler[h].job] = {} THEN "delete_row" ELSE "failed"
      BY <2>1, <2>3 DEF DeleteReturns, Goto, HandlerType
    <3>2. disk' = disk /\ handler[h].job \in removed'
      BY <2>3 DEF DeleteReturns
    <3> QED
      BY <1>3, <3>1, <3>2 DEF Explained
  <2>4. handler'[h] = handler[h] \/ DeleteReturns(h)
    <3>1. ASSUME NEW i \in Handlers, Delete(i) \/ Read(i), i # h PROVE handler'[h] = handler[h]
      BY <2>1, <3>1 DEF Delete, DeleteReads, DeleteRemoves, DeleteReturns, DeleteDrops,
         Read, ReadStarts, ZipLists, FileExists, ReadOpens, Goto
    <3>2. CASE Delete(h)
      <4>1. ~(\E j \in Jobs : DeleteReads(h, j)) /\ ~DeleteDrops(h)
        BY <1>3, <2>1 DEF DeleteReads, DeleteDrops, Goto, HandlerAt, HandlerType
      <4> QED
        BY <3>2, <4>1 DEF Delete, DeleteRemoves
    <3>3. ~Read(h)
      <4>1. ASSUME NEW j \in Jobs, NEW zip \in BOOLEAN PROVE ~ReadStarts(h, j, zip)
        BY <1>3, <2>1 DEF ReadStarts, HandlerAt
      <4>2. ~ZipLists(h)
        BY <1>3, <2>1 DEF ZipLists, HandlerType
      <4>3. ASSUME NEW f \in Finals PROVE ~FileExists(h, f)
        BY <1>3, <2>1 DEF FileExists, HandlerType
      <4>4. ASSUME NEW f \in Results, ReadOpens(h, f) PROVE FALSE
        <5>1. handler'[h].pc = IF f \notin disk[handler[h].job] THEN "failed"
                               ELSE IF handler[h].left = {f} THEN "ok" ELSE "read"
          BY <2>1, <4>4 DEF ReadOpens, HandlerType
        <5> QED
          BY <1>3, <5>1
      <4> QED
        BY <4>1, <4>2, <4>3, <4>4 DEF Read
    <3>4. CASE Restart
      BY <1>3, <2>1, <3>4 DEF Restart, NoHandler, HandlerAt
    <3>5. (\E j \in Jobs : Work(j)) \/ Cleanup \/ Tick \/ (UNCHANGED vars) \/ (Startup /\ ~Restart)
          => handler' = handler
      BY DEF Work, Submit, WorkerStarts, WorkerDownloads, WorkerReconstructs, WorkerExports, Writes,
         WorkerCompletes, WorkerFails, Cleanup, CleanupLists, CleanupExpires, ExpiredDrops,
         CleanupEnds, CleanupNext, ExpiredReturns, CleanupRemoves, ExpiredRemoves, Startup,
         BootReturns, BootDrops, BootFailsStale, BootRemoves, Tick, vars
    <3> QED
      BY <3>1, <3>2, <3>3, <3>4, <3>5 DEF Next
  <2> QED
    BY <2>2, <2>3, <2>4
<1>4. ASSUME cleaner'.pc = "row" PROVE Explained(cleaner.job)'
  <2>1. CASE cleaner' = cleaner
    <3>1. PICK j \in Jobs : j = cleaner.job /\ Explained(j)
      BY <1>4, <2>1 DEF RowsInv, Typed
    <3> QED
      BY <1>1, <2>1, <3>1 DEF Explained
  <2>2. ASSUME NEW j \in Jobs, ExpiredReturns(j) PROVE Explained(cleaner.job)'
    <3>1. Explained(j)'
      BY <2>2, ReturnExplains DEF ExpiredReturns
    <3>2. cleaner'.job = j
      BY <2>2 DEF ExpiredReturns, Cleaner
    <3> QED
      BY <3>1, <3>2 DEF Explained
  <2>3. cleaner' = cleaner \/ \E j \in Jobs : ExpiredReturns(j)
    <3>1. CASE Cleanup
      BY <1>4, <3>1 DEF Cleanup, CleanupLists, CleanupExpires, ExpiredDrops, CleanupEnds,
         CleanupNext, CleanupRemoves, ExpiredRemoves, Cleaner, Typed
    <3>2. CASE ~Cleanup
      BY <3>2 DEF Next, Work, Submit, WorkerStarts, WorkerDownloads, WorkerReconstructs,
         WorkerExports, Writes, WorkerCompletes, WorkerFails, Startup, Restart, BootReturns,
         BootDrops, BootFailsStale, BootRemoves, Delete, DeleteReads, DeleteRemoves,
         DeleteReturns, DeleteDrops, Read, ReadStarts, ZipLists, FileExists, ReadOpens, Tick, vars
    <3> QED
      BY <3>1, <3>2
  <2> QED
    BY <2>1, <2>2, <2>3
<1>5. ASSUME server'.pc = "rows", NEW j \in Jobs, j \in server'.todo PROVE Explained(j)'
  <2>1. CASE server' = server
    BY <1>1, <1>5, <2>1 DEF RowsInv
  <2>2. CASE BootReturns
    <3>1. server.todo \in SUBSET Jobs /\ server'.todo = server.todo
      BY <2>2 DEF BootReturns, Typed
    <3> QED
      BY <1>5, <2>2, <3>1, ReturnExplains DEF BootReturns
  <2>3. server' = server \/ BootReturns
    <3>1. CASE Startup
      BY <1>5, <3>1 DEF Startup, Restart, BootDrops, BootFailsStale, BootRemoves, Boot
    <3>2. CASE ~Startup
      BY <3>2 DEF Next, Work, Submit, WorkerStarts, WorkerDownloads, WorkerReconstructs,
         WorkerExports, Writes, WorkerCompletes, WorkerFails, Cleanup, CleanupLists,
         CleanupExpires, ExpiredDrops, CleanupEnds, CleanupNext, ExpiredReturns,
         CleanupRemoves, ExpiredRemoves, Delete, DeleteReads, DeleteRemoves,
         DeleteReturns, DeleteDrops, Read, ReadStarts, ZipLists, FileExists, ReadOpens, Tick, vars
    <3> QED
      BY <3>1, <3>2
  <2> QED
    BY <2>1, <2>2, <2>3
<1>6. server' \in [pc : ServerPcs, todo : SUBSET Jobs]
  BY NextTyped DEF Typed
<1> QED
  BY <1>2, <1>3, <1>4, <1>5, <1>6 DEF RowsInv
-----------------------------------------------------------------------------
(* The ages of the jobs on the lists of a removal. *)

\* Nobody grows younger.
LEMMA AgesGrow ==
    ASSUME Typed, [Next]_vars
    PROVE  \A j \in Jobs : age'[j] >= age[j] /\ age[j] \in Nat
<1>1. \A j \in Jobs : age[j] \in Nat
  BY DEF Typed
<1>2. CASE Tick
  BY <1>1, <1>2 DEF Tick
<1>3. CASE ~Tick
  <2>1. age' = age
    BY <1>3 DEF Next, Work, Submit, WorkerStarts, WorkerDownloads, WorkerReconstructs,
       WorkerExports, Writes, WorkerCompletes, WorkerFails, Cleanup, CleanupLists,
       CleanupExpires, ExpiredDrops, CleanupEnds, CleanupNext, ExpiredReturns,
       CleanupRemoves, ExpiredRemoves, Startup, Restart, BootReturns, BootDrops,
       BootFailsStale, BootRemoves, Delete, DeleteReads, DeleteRemoves,
       DeleteReturns, DeleteDrops, Read, ReadStarts, ZipLists, FileExists, ReadOpens, vars
  <2> QED
    BY <1>1, <2>1
<1> QED
  BY <1>2, <1>3

LEMMA NextAges ==
    ASSUME Typed, AgesInv, [Next]_vars
    PROVE  AgesInv'
<1>1. ASSUME NEW j \in Jobs, NEW ttl \in Nat, age[j] > ttl PROVE age'[j] > ttl
  <2>1. age'[j] >= age[j] /\ age[j] \in Nat /\ age'[j] \in Nat
    BY AgesGrow, NextTyped DEF Typed
  <2> QED
    BY <1>1, <2>1
<1>2. ResultTtl \in Nat /\ JobTtl \in Nat
  BY StorageAssumption
<1>3. \A j \in Older(JobTtl) : j \in Jobs /\ age[j] > JobTtl
  BY DEF Older, Rows
<1>4. \A j \in CompletedOlder(ResultTtl) : j \in Jobs /\ age[j] > ResultTtl
  BY DEF CompletedOlder, Older, Rows
<1>5. /\ cleaner'.pc \in {"expired", "row"} => \A j \in cleaner'.todo : age'[j] > ResultTtl
      /\ cleaner'.pc = "row" => age'[cleaner'.job] > ResultTtl
  <2>1. CASE cleaner' = cleaner
    BY <1>1, <1>2, <2>1 DEF AgesInv, Typed
  <2>2. CASE cleaner' # cleaner
    <3>1. Cleanup
      BY <2>2 DEF Next, Work, Submit, WorkerStarts, WorkerDownloads, WorkerReconstructs,
         WorkerExports, Writes, WorkerCompletes, WorkerFails, Startup, Restart, BootReturns,
         BootDrops, BootFailsStale, BootRemoves, Delete, DeleteReads, DeleteRemoves,
         DeleteReturns, DeleteDrops, Read, ReadStarts, ZipLists, FileExists, ReadOpens, Tick, vars
    <3>2. CASE CleanupLists \/ CleanupEnds \/ \E j \in Jobs : CleanupNext(j)
      BY <3>2 DEF CleanupLists, CleanupEnds, CleanupNext, Cleaner, Typed
    <3>3. CASE CleanupExpires
      BY <1>1, <1>2, <1>4, <3>3 DEF CleanupExpires, Cleaner
    <3>4. CASE ExpiredDrops
      BY <1>1, <1>2, <3>4 DEF ExpiredDrops, Cleaner, AgesInv, Typed
    <3>5. ASSUME NEW j \in Jobs, ExpiredReturns(j)
          PROVE  /\ \A i \in cleaner'.todo : age'[i] > ResultTtl
                 /\ age'[cleaner'.job] > ResultTtl
      <4>1. cleaner'.todo \subseteq cleaner.todo /\ cleaner'.job = j /\ j \in cleaner.todo
        BY <3>5 DEF ExpiredReturns, Cleaner
      <4>2. \A i \in cleaner.todo : i \in Jobs /\ age[i] > ResultTtl
        BY <3>5 DEF ExpiredReturns, AgesInv, Typed
      <4> QED
        BY <1>1, <1>2, <4>1, <4>2
    <3> QED
      BY <2>2, <3>1, <3>2, <3>3, <3>4, <3>5 DEF Cleanup, CleanupRemoves, ExpiredRemoves
  <2> QED
    BY <2>1, <2>2
<1>6. server'.pc \in {"files", "rows"} => \A j \in server'.todo : age'[j] > JobTtl
  <2>1. CASE server' = server
    BY <1>1, <1>2, <2>1 DEF AgesInv, Typed
  <2>2. CASE server' # server
    <3>1. Startup
      BY <2>2 DEF Next, Work, Submit, WorkerStarts, WorkerDownloads, WorkerReconstructs,
         WorkerExports, Writes, WorkerCompletes, WorkerFails, Cleanup, CleanupLists,
         CleanupExpires, ExpiredDrops, CleanupEnds, CleanupNext, ExpiredReturns,
         CleanupRemoves, ExpiredRemoves, Delete, DeleteReads, DeleteRemoves,
         DeleteReturns, DeleteDrops, Read, ReadStarts, ZipLists, FileExists, ReadOpens, Tick, vars
    <3>2. CASE Restart
      BY <1>1, <1>2, <1>3, <3>2 DEF Restart, Boot
    <3>3. CASE BootReturns
      BY <1>1, <1>2, <3>3 DEF BootReturns, AgesInv, Typed
    <3>4. CASE BootDrops \/ BootFailsStale
      BY <3>4 DEF BootDrops, BootFailsStale, Boot
    <3> QED
      BY <2>2, <3>1, <3>2, <3>3, <3>4 DEF Startup, BootRemoves
  <2> QED
    BY <2>1, <2>2
<1> QED
  BY <1>5, <1>6 DEF AgesInv
-----------------------------------------------------------------------------
(* Theorems. *)

LEMMA InvInvariant == Spec => []Inv
<1>1. Inv /\ [Next]_vars => Inv'
  BY NextTyped, NextFiles, NextRows, NextAges DEF Inv
<1> QED
  BY <1>1, InitInv, PTL DEF Spec

\* Whatever the cleanups remove, and wherever they crash, a completed job that
\* nobody has begun to remove has all its final files.
THEOREM FinalFilesKept == Spec => []FinalsKept
<1>1. Inv => FinalsKept
  BY DEF Inv, FilesInv, Kept, FinalsKept
<1> QED
  BY <1>1, InvInvariant, PTL

\* A download of such a job is whole, although its files are looked up and read
\* one after the other while others are removed.
THEOREM DownloadsWhole == Spec => []ServedWhole
<1>1. Inv => ServedWhole
  BY DEF Inv, FilesInv, Serves, ServedWhole
<1> QED
  BY <1>1, InvInvariant, PTL

\* Files without a row come only from a worker that outlived the removal of
\* its job and from files that could not be removed.
THEOREM NoUnexplainedOrphans == Spec => []OrphansExplained
<1>1. Inv => OrphansExplained
  BY DEF Inv, RowsInv, Explained, OrphansExplained
<1> QED
  BY <1>1, InvInvariant, PTL

\* Who makes a row disappear.
LEMMA RowsDropped ==
    ASSUME Inv, [Next]_vars, JobTtl <= ResultTtl, NEW j \in Jobs,
           status[j] # "none", status'[j] = "none"
    PROVE  age[j] > JobTtl \/ BeingDeleted(j)
<1>1. Typed /\ AgesInv /\ age[j] \in Nat /\ JobTtl \in Nat /\ ResultTtl \in Nat
  BY StorageAssumption DEF Inv, Typed
<1>2. ASSUME NEW i \in Jobs PROVE ~Work(i)
  BY <1>1 DEF Work, Submit, WorkerStarts, WorkerDownloads, WorkerReconstructs,
     WorkerExports, Writes, WorkerCompletes, WorkerFails, Updated, Typed
<1>3. CASE Cleanup
  <2>1. cleaner.pc = "row" /\ cleaner.job = j
    BY <1>1, <1>3 DEF Cleanup, CleanupLists, CleanupExpires, ExpiredDrops, CleanupEnds,
       CleanupNext, ExpiredReturns, CleanupRemoves, ExpiredRemoves, Typed
  <2>2. age[j] > ResultTtl
    BY <1>1, <2>1 DEF AgesInv
  <2> QED
    BY <1>1, <2>2
<1>4. CASE Startup
  <2>1. server.pc = "rows" /\ j \in server.todo
    BY <1>1, <1>4 DEF Startup, Restart, BootReturns, BootDrops, BootFailsStale, BootRemoves, Typed
  <2> QED
    BY <1>1, <2>1 DEF AgesInv
<1>5. ASSUME NEW h \in Handlers, Delete(h) PROVE BeingDeleted(j)
  BY <1>1, <1>5 DEF Delete, DeleteReads, DeleteRemoves, DeleteReturns, DeleteDrops,
     At, Typed, BeingDeleted
<1>6. ASSUME NEW h \in Handlers PROVE ~Read(h)
  BY DEF Read, ReadStarts, ZipLists, FileExists, ReadOpens
<1>7. ~Tick /\ ~UNCHANGED vars
  BY DEF Tick, vars
<1> QED
  BY <1>2, <1>3, <1>4, <1>5, <1>6, <1>7 DEF Next

\* Who takes the last final file of a job.
LEMMA FinalsTaken ==
    ASSUME Inv, [Next]_vars, JobTtl <= ResultTtl, NEW j \in Jobs,
           disk[j] \cap Finals # {}, disk'[j] \cap Finals = {}
    PROVE  age[j] > JobTtl \/ BeingDeleted(j)
<1>1. Typed /\ AgesInv /\ age[j] \in Nat /\ JobTtl \in Nat /\ ResultTtl \in Nat
  BY StorageAssumption DEF Inv, Typed
<1>2. ASSUME NEW i \in Jobs, NEW f \in Files, Unlinks(i, f) PROVE i = j
  BY <1>1, <1>2 DEF Unlinks, Typed
<1>3. ASSUME NEW i \in Jobs PROVE ~Work(i)
  BY <1>1 DEF Work, Submit, WorkerStarts, WorkerDownloads, WorkerReconstructs,
     WorkerExports, Writes, WorkerCompletes, WorkerFails, Typed
<1>4. ASSUME NEW i \in Jobs, NEW f \in Files PROVE ~CleanupRemoves(i, f)
  BY <1>1, StorageAssumption DEF CleanupRemoves, CleanedFiles, Intermediate, Typed
<1>5. ASSUME NEW i \in Jobs, NEW f \in Files, ExpiredRemoves(i, f) PROVE age[j] > JobTtl
  <2>1. i = j /\ cleaner.pc = "expired" /\ i \in cleaner.todo
    BY <1>2, <1>5 DEF ExpiredRemoves
  <2>2. age[j] > ResultTtl
    BY <1>1, <2>1 DEF AgesInv
  <2> QED
    BY <1>1, <2>2
<1>6. ASSUME NEW i \in Jobs, NEW f \in Files, BootRemoves(i, f) PROVE age[j] > JobTtl
  BY <1>1, <1>2, <1>6 DEF BootRemoves, AgesInv
<1>7. ASSUME NEW h \in Handlers, NEW f \in Files, DeleteRemoves(h, f) PROVE BeingDeleted(j)
  <2>1. handler[h].job \in Jobs /\ handler[h].pc = "rmtree"
    BY <1>1, <1>7 DEF DeleteRemoves, At, Typed, HandlerTyped
  <2>2. handler[h].job = j
    BY <1>2, <1>7, <2>1 DEF DeleteRemoves
  <2> QED
    BY <2>1, <2>2 DEF BeingDeleted
<1>8. disk' # disk
  OBVIOUS
<1> QED
  BY <1>3, <1>4, <1>5, <1>6, <1>7, <1>8 DEF Next, Tick, Cleanup, CleanupLists, CleanupExpires,
     ExpiredDrops, CleanupEnds, CleanupNext, ExpiredReturns, Startup, Restart, BootReturns,
     BootDrops, BootFailsStale, Delete, DeleteReads, DeleteReturns, DeleteDrops, Read,
     ReadStarts, ZipLists, FileExists, ReadOpens, vars

\* Only delete_job takes a row, or the last final file, of a job that is not
\* older than job_ttl_seconds, provided results are kept at least that long.
THEOREM RetentionKept ==
    ASSUME JobTtl <= ResultTtl
    PROVE  Spec => RetentionHeld
<1>1. Inv /\ [Next]_vars =>
        \A j \in Jobs :
          \/ status[j] # "none" /\ status'[j] = "none"
          \/ disk[j] \cap Finals # {} /\ disk'[j] \cap Finals = {}
          => age[j] > JobTtl \/ BeingDeleted(j)
  BY RowsDropped, FinalsTaken
<1> QED
  BY <1>1, InvInvariant, PTL DEF Spec, RetentionHeld
=============================================================================
