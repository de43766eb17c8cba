------------------------------ MODULE Pipeline ------------------------------
(***************************************************************************)
(* One job from the url to its result: run_pipeline downloads the video,   *)
(* extract_and_filter makes the frames and moves the blurry ones away, and *)
(* reconstruct (module Reconstruction) runs COLMAP on what is left, with   *)
(* run_gaussian_splatting as its longest step.  An execution may fail or   *)
(* be killed between any two steps, and the next one works in the same     *)
(* directory.                                                              *)
(*                                                                         *)
(* The extraction and the training add their own state; every step of      *)
(* reconstruct is a step of Reconstruction.                                *)
(***************************************************************************)
EXTENDS Reconstruction

CONSTANTS
    Frames,       \* the frames ffmpeg cuts from the video of the job
    Blurry,       \* those whose score is below blur_threshold
    GsIterations  \* gs_max_iterations, or what the preset says

ASSUME PipelineAssumption ==
    /\ Blurry \subseteq Frames /\ IsFiniteSet(Frames)
    /\ GsIterations \in Nat \ {0}

VARIABLES
    stage,       \* run_pipeline of each execution, up to reconstruct
    taken,       \* its all_frames
    extraction,  \* the directory extraction: made?, frames/, filtered/
    features,    \* the images whose features are in database.db
    splat,       \* run_gaussian_splatting of each execution
    output,      \* iterations of the newest file in gs_output, and of the copy
                 \* in the workspace
    report       \* history: what each execution that returned has reported

extras == <<stage, taken, extraction, features, splat, output, report>>
pvars  == <<rvars, extras>>

Stages == {"idle", "extract", "score", "move", "check", "reconstruct", "over"}

NoFrames == [made |-> FALSE, frames |-> {}, filtered |-> {}]
NoFile   == GsIterations + 1
NoOutput == [newest |-> NoFile, copy |-> NoFile]
NoSplat  == [pc |-> "convert", iterations |-> GsIterations]
NoReport == [total |-> 0, filtered |-> 0, images |-> {}, iterations |-> 0, copy |-> NoFile]

PipelineInit ==
    /\ Init
    /\ stage = [e \in Executions |-> "idle"]
    /\ taken = [e \in Executions |-> {}]
    /\ extraction = NoFrames
    /\ features = {}
    /\ splat = [e \in Executions |-> NoSplat]
    /\ output = NoOutput
    /\ report = [e \in Executions |-> NoReport]

\* An execution that has begun and not yet returned, raised or died.
Busy(e) == stage[e] \notin {"idle", "over"} /\ run[e].pc \notin Ended

Moves(e, s) == stage' = [stage EXCEPT ![e] = s]
-----------------------------------------------------------------------------
(* download_video and extract_and_filter. *)

\* The video is there, and the directory for the frames is made.
Downloads(e) ==
    /\ stage[e] = "idle"
    /\ Cardinality({x \in Executions : Busy(x)}) < MaxRunning
    /\ Moves(e, "extract")
    /\ extraction' = [extraction EXCEPT !.made = TRUE]
    /\ UNCHANGED <<rvars, taken, features, splat, output, report>>

\* ffmpeg -y writes one frame after the other, over those that are there.
WritesFrame(e, f) ==
    /\ stage[e] = "extract" /\ extraction.made /\ f \notin extraction.frames
    /\ extraction' = [extraction EXCEPT !.frames = @ \cup {f}]
    /\ UNCHANGED <<rvars, stage, taken, features, splat, output, report>>

\* ffmpeg returns 0: all frames are written, and all_frames is what is there.
ExtractsMutant(e) ==
    /\ stage[e] = "extract" /\ extraction.made
    /\ taken' = [taken EXCEPT ![e] = extraction.frames]
    /\ Moves(e, "score")
    /\ UNCHANGED <<rvars, extraction, features, splat, output, report>>
Extracts(e) ==
    /\ stage[e] = "extract" /\ Frames \subseteq extraction.frames
    /\ taken' = [taken EXCEPT ![e] = extraction.frames]
    /\ Moves(e, "score")
    /\ UNCHANGED <<rvars, extraction, features, splat, output, report>>

\* filter_blurry_frames reads every frame in its own process.
Scores(e) ==
    /\ stage[e] = "score" /\ taken[e] \subseteq extraction.frames
    /\ Moves(e, "move")
    /\ UNCHANGED <<rvars, taken, extraction, features, splat, output, report>>

\* A blurry frame is renamed into filtered/.
Sets(e, f) ==
    /\ stage[e] = "move" /\ f \in taken[e] \cap Blurry \cap extraction.frames
    /\ extraction' = [extraction EXCEPT !.frames = @ \ {f}, !.filtered = @ \cup {f}]
    /\ UNCHANGED <<rvars, stage, taken, features, splat, output, report>>

\* All are moved and metadata.json is written.
Filters(e) ==
    /\ stage[e] = "move" /\ extraction.made /\ taken[e] \cap Blurry \cap extraction.frames = {}
    /\ Moves(e, "check")
    /\ UNCHANGED <<rvars, taken, extraction, features, splat, output, report>>

\* run_pipeline: at least two frames must have passed.
Checks(e) ==
    /\ stage[e] = "check" /\ Cardinality(taken[e] \ Blurry) >= 2
    /\ Moves(e, "reconstruct")
    /\ UNCHANGED <<rvars, taken, extraction, features, splat, output, report>>

TooFew(e) == stage[e] = "check" /\ Cardinality(taken[e] \ Blurry) < 2

\* Any of these raises: the download, ffmpeg, a score that cannot be parsed, a
\* frame or directory that is gone, too few frames.
Raises(e) ==
    /\ stage[e] \in {"extract", "score", "move"} \/ TooFew(e)
    /\ Moves(e, "over")
    /\ UNCHANGED <<rvars, taken, extraction, features, splat, output, report>>
-----------------------------------------------------------------------------
(* reconstruct: the steps of Reconstruction, and what they do to the images. *)

At(e, s) == stage[e] = "reconstruct" /\ run[e].pc = s

\* It goes on when it finds two images.
Calls(e) ==
    /\ At(e, "idle")
    /\ Begin(e)
    /\ run'[e].pc = "raised" <=> Cardinality(extraction.frames) < 2
    /\ "frames" \in disk' <=> extraction.made \/ "frames" \in disk
    /\ UNCHANGED extras

\* feature_extractor adds the images of frames/ to the database; when it fails
\* it may have got as far as all of them.
ReadsImages(e) ==
    /\ At(e, "feature_extraction")
    /\ \/ StepSucceeds(e) /\ features' = features \cup extraction.frames
       \/ /\ \E err \in ColmapErrors : StepFails(e, err)
          /\ features' \in {features, features \cup extraction.frames}
    /\ UNCHANGED <<stage, taken, extraction, splat, output, report>>

\* The steps that follow, but for the training and the return.
Continues(e) ==
    /\ stage[e] = "reconstruct"
    /\ \/ SkipDone(e) \/ StepMissesInput(e) \/ SaveOpens(e) \/ SaveWrites(e)
       \/ Stats(e) \/ ToolFails(e) \/ NoPotree(e)
       \/ /\ run[e].pc # "feature_extraction"
          /\ StepSucceeds(e) \/ \E err \in ColmapErrors : StepFails(e, err)
       \/ run[e].pc # "gaussian_splatting" /\ ToolSucceeds(e)
    /\ UNCHANGED extras

\* The result: what extract_and_filter counted, and what COLMAP was given.
Returns(e) ==
    /\ stage[e] = "reconstruct"
    /\ Finish(e)
    /\ report' = IF run'[e].pc # "returned" THEN report
                 ELSE [report EXCEPT ![e] =
                         [total |-> Cardinality(taken[e]),
                          filtered |-> Cardinality(taken[e] \cap Blurry),
                          images |-> features,
                          iterations |-> splat[e].iterations, copy |-> output.copy]]
    /\ UNCHANGED <<stage, taken, extraction, features, splat, output>>
-----------------------------------------------------------------------------
(* run_gaussian_splatting *)

Training(e, pc) == At(e, "gaussian_splatting") /\ splat[e].pc = pc

\* convert_colmap_to_nerfstudio
Converts(e) ==
    /\ Training(e, "convert")
    /\ {"sparse_reconstruction", "frames"} \subseteq disk
    /\ splat' = [splat EXCEPT ![e].pc = "train"]
    /\ UNCHANGED <<rvars, stage, taken, extraction, features, output, report>>

\* ns-train ends and leaves the newest file in gs_output, which may hold
\* others, of earlier trainings or executions.
Trains(e) ==
    /\ Training(e, "train") \/ Training(e, "retrain")
    /\ "workspace" \in disk
    /\ splat' = [splat EXCEPT ![e].pc = "pick"]
    /\ output' = [output EXCEPT !.newest = splat[e].iterations]
    /\ UNCHANGED <<rvars, stage, taken, extraction, features, report>>

\* Out of memory, maybe after writing: once more with half the iterations.
RetrainMutant(e) == [splat[e] EXCEPT !.pc = "pick", !.iterations = @ \div 2]
Retrain(e) == [splat[e] EXCEPT !.pc = "retrain", !.iterations = @ \div 2]

RunsOutOfMemory(e) ==
    /\ Training(e, "train")
    /\ splat' = [splat EXCEPT ![e] = Retrain(e)]
    /\ \E n \in {output.newest} \cup (IF "workspace" \in disk THEN 1..GsIterations ELSE {}) :
          output' = [output EXCEPT !.newest = n]
    /\ UNCHANGED <<rvars, stage, taken, extraction, features, report>>

\* _find_output_file, the copy into the workspace, and the return to
\* reconstruct.  (Every failure of a training is ToolFails in Continues.)
Picks(e) ==
    /\ Training(e, "pick")
    /\ ToolSucceeds(e)
    /\ output' = [output EXCEPT !.copy = output.newest]
    /\ UNCHANGED <<stage, taken, extraction, features, splat, report>>
-----------------------------------------------------------------------------
\* The work-horse is killed.
IsKilled(e) ==
    \/ stage[e] = "reconstruct" /\ Dies(e) /\ UNCHANGED extras
    \/ /\ stage[e] \in {"extract", "score", "move", "check"}
       /\ Moves(e, "over")
       /\ UNCHANGED <<rvars, taken, extraction, features, splat, output, report>>

\* delete_job or cancel_job removes the job directory.
IsWiped ==
    /\ Wipes /\ (extraction.made \/ disk # {})
    /\ IF disk = {} THEN UNCHANGED rvars ELSE Wipe
    /\ extraction' = NoFrames /\ features' = {} /\ output' = NoOutput
    /\ UNCHANGED <<stage, taken, splat, report>>

Extraction(e) ==
    \/ Downloads(e) \/ Extracts(e) \/ Scores(e) \/ Filters(e) \/ Checks(e) \/ Raises(e)
    \/ \E f \in Frames : WritesFrame(e, f) \/ Sets(e, f)
Reconstructs(e) ==
    \/ Calls(e) \/ ReadsImages(e) \/ Continues(e) \/ Returns(e)
    \/ Converts(e) \/ Trains(e) \/ RunsOutOfMemory(e) \/ Picks(e)

PipelineNext ==
    \/ IsWiped
    \/ \E e \in Executions : Extraction(e) \/ Reconstructs(e) \/ IsKilled(e)

PipelineSpec == PipelineInit /\ [][PipelineNext]_pvars

\* Every command has a timeout, so an execution that was begun goes on.
FairPipelineSpec ==
    /\ PipelineSpec
    /\ \A e \in Executions : WF_pvars((Extraction(e) /\ ~Downloads(e)) \/ Reconstructs(e))
-----------------------------------------------------------------------------
(* Properties. *)

\* A result tells the truth about the images: COLMAP was given exactly the
\* frames that are not blurry, and the counts reported with it are those of
\* this video, although earlier executions were killed while ffmpeg wrote,
\* while blurry frames were being moved, or after a checkpoint that made this
\* one skip the feature extraction.
ResultHonest ==
    \A e \in Executions : run[e].pc = "returned" =>
        /\ report[e].images = Frames \ Blurry
        /\ report[e].total = Cardinality(Frames)
        /\ report[e].filtered = Cardinality(Blurry)

\* The splat file handed out is the one whose number of iterations is reported,
\* whatever earlier executions and trainings that ran out of memory have left
\* in gs_output.
SplatHonest ==
    \A e \in Executions : run[e].pc = "returned" /\ Splatting =>
        report[e].copy = report[e].iterations

\* Every execution comes to an end, with a result or without.
PipelineEnds ==
    \A e \in Executions : Busy(e) ~> ~Busy(e)
=============================================================================
