--------------------------- MODULE Reconstruction ---------------------------
(***************************************************************************)
(* reconstruct(): the COLMAP pipeline of one job, with its checkpoint file *)
(* and the retry loop of _run_colmap.  The workspace outlives a call: an   *)
(* execution may fail, be killed, or run beside another execution of the   *)
(* same job, and the next one resumes from checkpoint.json.  The workspace *)
(* may be removed at any moment.                                           *)
(*                                                                         *)
(* One step is one COLMAP attempt or one access to the workspace; saving a *)
(* checkpoint takes two (open truncates the file, then it is written).     *)
(***************************************************************************)
EXTENDS Naturals, Sequences, FiniteSets

CONSTANTS
    Executions,        \* calls of reconstruct on the workspace
    MaxRunning,        \* how many of them may overlap
    MaxColmapRetries,  \* ColmapRetryConfig.max_retries
    Dense, Splatting,  \* the options dense and gaussian_splatting
    Wipes              \* may delete_job or cancel_job remove the directory?

ASSUME ReconstructionAssumption ==
    /\ MaxRunning \in Nat /\ MaxColmapRetries \in Nat
    /\ {Dense, Splatting, Wipes} \subseteq BOOLEAN

VARIABLES
    disk,        \* what the job directory holds
    points,      \* has the sparse model any 3D points?
    checkpoint,  \* checkpoint.json
    run          \* the executions

rvars == <<disk, points, checkpoint, run>>
-----------------------------------------------------------------------------
(* Steps, files and executions. *)

\* The checkpointed steps, in order.
Core == <<"feature_extraction", "exhaustive_matching", "sparse_reconstruction">>
CoreSteps == {Core[i] : i \in 1..3}

ToolSteps == {"ply_export", "image_undistortion", "patch_match_stereo",
              "stereo_fusion", "gaussian_splatting", "potree_conversion"}

Files == CoreSteps \cup ToolSteps \cup {"frames", "workspace", "database", "metadata"}

\* What a step looks for before it starts.
Needs(s) ==
    CASE s = "feature_extraction"    -> {"frames"}
      [] s = "exhaustive_matching"   -> {"database"}
      [] s = "sparse_reconstruction" -> {"database", "frames"}
      [] s \in {"ply_export", "image_undistortion", "gaussian_splatting"}
                                     -> {"sparse_reconstruction"}
      [] s \in {"patch_match_stereo", "stereo_fusion"} -> {"image_undistortion"}
      [] s = "potree_conversion"     -> {"ply_export"}

\* What it leaves on disk when it succeeds.
Makes(s) == IF s = "feature_extraction" THEN {s, "database"} ELSE {s}

\* The step that follows, given the options of the job.
OptionalFrom(s) ==
    IF s = "ply_export" /\ Dense THEN "image_undistortion"
    ELSE IF s \in {"ply_export", "stereo_fusion"} /\ Splatting THEN "gaussian_splatting"
    ELSE "potree_conversion"

After(s) ==
    CASE s = "feature_extraction"    -> "exhaustive_matching"
      [] s = "exhaustive_matching"   -> "sparse_reconstruction"
      [] s = "sparse_reconstruction" -> "stats"
      [] s = "image_undistortion"    -> "patch_match_stereo"
      [] s = "patch_match_stereo"    -> "stereo_fusion"
      [] s \in {"ply_export", "stereo_fusion", "gaussian_splatting"} -> OptionalFrom(s)
      [] s = "potree_conversion"     -> "metadata"

\* How an attempt of _run_colmap fails: the subprocess times out, its stderr
\* has a pattern of _COLMAP_RETRYABLE_PATTERNS, or it has none.
ColmapErrors == {"timeout", "transient", "permanent"}

\* is_colmap_retryable_error, applied to the message the code builds.  The
\* message of a timeout ("COLMAP ... 시간 초과 (...초): ...") has no pattern.
ColmapRetryable == {"transient"}

\* checkpoint.json: the list at its head and the length of the file (counted
\* in steps).  Two writers may leave the tail of a longer list behind the
\* head; a truncated file and a missing one have length 0.
NoCheckpoint == [head |-> <<>>, size |-> 0]

\* _load_checkpoint returns None unless the whole file is one JSON object.
Loads(c) == c.size > 0 /\ c.size = Len(c.head)
LoadedSteps(c) == IF Loads(c) THEN c.head ELSE <<>>

Ended == {"returned", "raised", "dead"}
Pcs == {"idle", "stats", "metadata"} \cup CoreSteps \cup ToolSteps \cup Ended

\* pc is the step an execution is at; save says how far its checkpoint is.
\* loaded is completed_set, done is steps_completed.
Execution == [pc: Pcs, save: {"no", "open", "write"}, loaded: Seq(CoreSteps),
              done: Seq(CoreSteps \cup ToolSteps), attempt: Nat,
              err: ColmapErrors \cup {"none", "other", "no_points"}]

IdleExecution == [pc |-> "idle", save |-> "no", loaded |-> <<>>, done |-> <<>>,
                  attempt |-> 0, err |-> "none"]

Running(e) == run[e].pc \notin Ended \cup {"idle"}

Init ==
    /\ disk = {}
    /\ points = FALSE
    /\ checkpoint = NoCheckpoint
    /\ run = [e \in Executions |-> IdleExecution]

TypeOK ==
    /\ disk \subseteq Files
    /\ points \in BOOLEAN
    /\ checkpoint \in [head: Seq(CoreSteps), size: Nat]
    /\ run \in [Executions -> Execution]
-----------------------------------------------------------------------------
(* Actions of an execution. *)

RaiseErrorMutant(e, err) == run' = [run EXCEPT ![e].pc = "failed", ![e].err = err]
RaiseError(e, err) == run' = [run EXCEPT ![e].pc = "raised", ![e].err = err]

\* Executions may overlap, but none begins beside one that has outlived the
\* removal of its workspace.
MayBegin ==
    LET running == {x \in Executions : Running(x)}
    IN  /\ Cardinality(running) < MaxRunning
        /\ "workspace" \in disk \/ running = {}

BeginForgetsMutant(e) ==
    /\ run[e].pc = "idle"
    /\ MayBegin
    /\ \/ RaiseError(e, "other") /\ disk' \in {disk, disk \cup {"frames", "workspace"}}
       \/ /\ disk' = disk \cup {"frames", "workspace"}
          /\ run' = [run EXCEPT ![e] = [IdleExecution EXCEPT
                       !.pc = Core[1], !.loaded = LoadedSteps(checkpoint), !.done = <<>>]]
    /\ UNCHANGED <<points, checkpoint>>

BeginAnewMutant(e) ==
    /\ run[e].pc = "idle"
    /\ MayBegin
    /\ \/ RaiseError(e, "other") /\ disk' \in {disk, disk \cup {"frames", "workspace"}}
       \/ /\ disk' = disk \cup {"frames", "workspace"}
          /\ run' = [run EXCEPT ![e] = [IdleExecution EXCEPT
                       !.pc = Core[1], !.loaded = <<>>, !.done = <<>>]]
    /\ UNCHANGED <<points, checkpoint>>

\* reconstruct is called: it finds no image directory or too few images, or
\* makes the workspace and loads the checkpoint.
Begin(e) ==
    /\ run[e].pc = "idle"
    /\ MayBegin
    /\ \/ RaiseError(e, "other") /\ disk' \in {disk, disk \cup {"frames", "workspace"}}
       \/ /\ disk' = disk \cup {"frames", "workspace"}
          /\ run' = [run EXCEPT ![e] = [IdleExecution EXCEPT
                       !.pc = Core[1], !.loaded = LoadedSteps(checkpoint), !.done = LoadedSteps(checkpoint)]]
    /\ UNCHANGED <<points, checkpoint>>

InLoadedMutant(e, s) == FALSE
InLoaded(e, s) == \E i \in 1..Len(run[e].loaded) : run[e].loaded[i] = s

\* Is e about to run a checkpointed step, or to skip it?
AtCore(e) == run[e].pc \in CoreSteps /\ run[e].save = "no"

SkipDone(e) ==
    /\ AtCore(e)
    /\ InLoaded(e, run[e].pc)
    /\ run' = [run EXCEPT ![e].pc = After(@)]
    /\ UNCHANGED <<disk, points, checkpoint>>

StepSucceedsMutant(e) ==
    LET s == run[e].pc
    IN  /\ AtCore(e)
        /\ ~InLoaded(e, s)
        /\ Needs(s) \subseteq disk
        /\ disk' \in {disk, disk \cup Makes(s)}
        /\ IF s = "sparse_reconstruction" THEN points' \in BOOLEAN ELSE UNCHANGED points
        /\ run' = [run EXCEPT ![e].done = Append(@, s), ![e].save = "open"]
        /\ UNCHANGED checkpoint

\* An attempt of the step succeeds; the mapper may find no points at all.
StepSucceeds(e) ==
    LET s == run[e].pc
    IN  /\ AtCore(e)
        /\ ~InLoaded(e, s)
        /\ Needs(s) \subseteq disk
        /\ disk' = disk \cup Makes(s)
        /\ IF s = "sparse_reconstruction" THEN points' \in BOOLEAN ELSE UNCHANGED points
        /\ run' = [run EXCEPT ![e].done = Append(@, s), ![e].save = "open"]
        /\ UNCHANGED checkpoint

\* Another attempt is made (attempt < max_retries and the error is retryable).
TriesAgain(e, err) == err \in ColmapRetryable /\ run[e].attempt < MaxColmapRetries

StepFailsMutant(e, err) ==
    LET s == run[e].pc
    IN  /\ AtCore(e)
        /\ ~InLoaded(e, s)
        /\ Needs(s) \subseteq disk
        /\ disk' \in {disk, disk \cup (Makes(s) \cap {"database"})}
        /\ IF err \in ColmapRetryable
             THEN run' = [run EXCEPT ![e].attempt = (@ + 1) % (MaxColmapRetries + 1)]
             ELSE RaiseError(e, err)
        /\ UNCHANGED <<points, checkpoint>>

\* An attempt fails; feature_extractor may have created the database.
StepFails(e, err) ==
    LET s == run[e].pc
    IN  /\ AtCore(e)
        /\ ~InLoaded(e, s)
        /\ Needs(s) \subseteq disk
        /\ disk' \in {disk, disk \cup (Makes(s) \cap {"database"})}
        /\ IF TriesAgain(e, err)
             THEN run' = [run EXCEPT ![e].attempt = @ + 1]
             ELSE RaiseError(e, err)
        /\ UNCHANGED <<points, checkpoint>>

\* FileNotFoundError before the step has begun.
StepMissesInput(e) ==
    /\ AtCore(e)
    /\ ~InLoaded(e, run[e].pc)
    /\ ~(Needs(run[e].pc) \subseteq disk)
    /\ RaiseError(e, "other")
    /\ UNCHANGED <<disk, points, checkpoint>>

SaveOpensMutant(e) ==
    /\ run[e].save = "open"
    /\ disk' = disk \cup {"workspace"}
    /\ checkpoint' = NoCheckpoint
    /\ run' = [run EXCEPT ![e].save = "write"]
    /\ UNCHANGED points
\* _save_checkpoint opens the file, which truncates it (and fails when the
\* workspace is gone) ...
SaveOpens(e) ==
    /\ run[e].save = "open"
    /\ \/ /\ "workspace" \in disk
          /\ checkpoint' = NoCheckpoint
          /\ run' = [run EXCEPT ![e].save = "write"]
       \/ /\ "workspace" \notin disk
          /\ run' = [run EXCEPT ![e].save = "no", ![e].pc = "raised", ![e].err = "other"]
          /\ UNCHANGED checkpoint
    /\ UNCHANGED <<disk, points>>

\* ... and writes the list from the start.  Bytes of a longer list that another
\* execution wrote meanwhile stay behind it.
Overwritten(c, list) ==
    [head |-> list, size |-> IF c.size > Len(list) THEN c.size ELSE Len(list)]

SaveWrites(e) ==
    /\ run[e].save = "write"
    /\ checkpoint' = IF "workspace" \in disk THEN Overwritten(checkpoint, run[e].done)
                     ELSE checkpoint
    /\ run' = [run EXCEPT ![e].save = "no", ![e].attempt = 0, ![e].pc = After(@)]
    /\ UNCHANGED <<disk, points>>

\* _parse_reconstruction_stats: no points, also when model_analyzer fails.
Stats(e) ==
    /\ run[e].pc = "stats"
    /\ \/ /\ "sparse_reconstruction" \in disk
          /\ points
          /\ run' = [run EXCEPT ![e].pc = "ply_export"]
       \/ RaiseError(e, IF "sparse_reconstruction" \in disk THEN "no_points" ELSE "other")
    /\ UNCHANGED <<disk, points, checkpoint>>

\* A step without retries and without a checkpoint succeeds or raises.
ToolSucceeds(e) ==
    LET s == run[e].pc
    IN  /\ s \in ToolSteps
        /\ Needs(s) \subseteq disk
        /\ disk' = disk \cup Makes(s)
        /\ run' = [run EXCEPT ![e].done = Append(@, s), ![e].pc = After(s)]
        /\ UNCHANGED <<points, checkpoint>>

ToolFails(e) ==
    /\ run[e].pc \in ToolSteps
    /\ RaiseError(e, "other")
    /\ UNCHANGED <<disk, points, checkpoint>>

\* PotreeConverter is not installed, there is no PLY file or no metadata.json.
NoPotree(e) ==
    /\ run[e].pc = "potree_conversion"
    /\ run' = [run EXCEPT ![e].pc = "metadata"]
    /\ UNCHANGED <<disk, points, checkpoint>>

\* reconstruction_metadata.json is written and the result returned.
Finish(e) ==
    /\ run[e].pc = "metadata"
    /\ \/ /\ "workspace" \in disk
          /\ disk' = disk \cup {"metadata"}
          /\ run' = [run EXCEPT ![e].pc = "returned"]
       \/ /\ "workspace" \notin disk
          /\ RaiseError(e, "other")
          /\ UNCHANGED disk
    /\ UNCHANGED <<points, checkpoint>>

\* The work-horse is killed.
Dies(e) ==
    /\ Running(e)
    /\ run' = [run EXCEPT ![e].pc = "dead", ![e].save = "no"]
    /\ UNCHANGED <<disk, points, checkpoint>>

\* delete_job or cancel_job removes the job directory.
Wipe ==
    /\ Wipes
    /\ disk # {}
    /\ disk' = {}
    /\ points' = FALSE
    /\ checkpoint' = NoCheckpoint
    /\ UNCHANGED run
-----------------------------------------------------------------------------
Step(e) ==
    \/ SkipDone(e) \/ StepSucceeds(e) \/ StepMissesInput(e)
    \/ \E err \in ColmapErrors : StepFails(e, err)
    \/ SaveOpens(e) \/ SaveWrites(e) \/ Stats(e)
    \/ ToolSucceeds(e) \/ ToolFails(e) \/ NoPotree(e) \/ Finish(e)

Next == Wipe \/ \E e \in Executions : Begin(e) \/ Step(e) \/ Dies(e)

Spec == Init /\ [][Next]_rvars
-----------------------------------------------------------------------------
(* Properties *)

\* A checkpoint never promises a step whose output is missing, whatever was
\* killed, retried, or written by an overlapping execution: what
\* _load_checkpoint returns is safe to skip.
CheckpointSound ==
    \A i \in 1..Len(LoadedSteps(checkpoint)) : LoadedSteps(checkpoint)[i] \in disk

\* What a checkpoint lists is a prefix of the pipeline: no step twice, none
\* before those it depends on.
CheckpointOrdered ==
    /\ Len(LoadedSteps(checkpoint)) <= 3
    /\ \A i \in 1..Len(LoadedSteps(checkpoint)) : LoadedSteps(checkpoint)[i] = Core[i]

\* A reconstruction that returns reports every core step and the PLY export
\* once, in order, and everything it reports is on disk, although part of the
\* work was done by executions that failed earlier or run beside it, and the
\* directory may be removed under it.
ResultComplete ==
    [][\A e \in Executions : run[e].pc # "returned" /\ run'[e].pc = "returned" =>
        LET done == run'[e].done
        IN  /\ \A i \in 1..4 : done[i] = Append(Core, "ply_export")[i]
            /\ \A i \in 1..Len(done) : done[i] \in disk'
            /\ \A i, k \in 1..Len(done) : done[i] = done[k] => i = k]_rvars

\* With one execution at a time a checkpointed step is never run again.
NotRedone ==
    \A e \in Executions : (AtCore(e) /\ ~InLoaded(e, run[e].pc)) =>
        \A i \in 1..Len(LoadedSteps(checkpoint)) : LoadedSteps(checkpoint)[i] # run[e].pc
=============================================================================
