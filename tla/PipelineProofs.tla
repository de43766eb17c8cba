--------------------------- MODULE PipelineProofs ---------------------------
(***************************************************************************)
(* TLAPS proofs about Reconstruction and Pipeline.  First the checkpoints  *)
(* of reconstruct, for any number of executions, any overlap of them and   *)
(* any number of retries; then the whole job, with the extraction of the   *)
(* frames and the training around it, which still runs reconstruct as      *)
(* Reconstruction specifies it, so that what is proved of Reconstruction   *)
(* holds of the pipeline; and last what a job reports.                     *)
(***************************************************************************)
EXTENDS Pipeline, FiniteSetTheorems, TLAPS

Errs == ColmapErrors \cup {"none", "other", "no_points"}

\* The place of a checkpointed step in the pipeline.
Index(s) == CASE s = "feature_extraction"    -> 1
              [] s = "exhaustive_matching"   -> 2
              [] s = "sparse_reconstruction" -> 3

\* A list of steps that starts as the pipeline does.
Ordered(s) == \A i \in 1..Len(s) : i <= 3 => s[i] = Core[i]

\* An execution that has begun and not ended; Running(e) is Live(run[e]).
Live(r) == r.pc \notin Ended \cup {"idle"}

\* What an execution has done is still there, unless it has outlived its
\* workspace: while it runs, nobody makes the workspace anew.
Present(r, d) ==
    Live(r) /\ "workspace" \in d => \A i \in 1..Len(r.done) : r.done[i] \in d

\* What holds of every execution r in a directory that holds d: its lists are
\* in order, what it has done is there, and the length of its list tells how
\* far it is.
Good(r, d) ==
    /\ Ordered(r.loaded) /\ Len(r.loaded) <= 3
    /\ Ordered(r.done)
    /\ Present(r, d)
    /\ (r.pc \in CoreSteps /\ r.save = "no") =>
          Len(r.done) = IF Len(r.loaded) >= Index(r.pc) THEN Len(r.loaded)
                        ELSE Index(r.pc) - 1
    /\ r.save # "no" =>
          r.pc \in CoreSteps /\ Len(r.done) = Index(r.pc) /\ Len(r.loaded) <= Len(r.done)
    /\ r.pc \in {"stats", "metadata"} \cup ToolSteps => Len(r.done) >= 3

RunTyped == run \in [Executions -> Execution]
AllGood == RunTyped /\ \A x \in Executions : Good(run[x], disk)

\* The directory grows, and becomes a workspace only if nobody runs.
Grows ==
    /\ disk \subseteq disk'
    /\ "workspace" \in disk' => "workspace" \in disk \/ \A x \in Executions : ~Live(run[x])
-----------------------------------------------------------------------------
(* Lemmas about executions as records. *)

\* A growing directory hurts nobody.
LEMMA GrowsGood ==
    ASSUME Grows, NEW x \in Executions, Good(run[x], disk)
    PROVE  Good(run[x], disk')
<1>1. Present(run[x], disk')
  BY DEF Good, Present, Grows
<1> QED
  BY <1>1 DEF Good

\* Only the execution that moves changes.
LEMMA MoveGood ==
    ASSUME AllGood, Grows, NEW e \in Executions,
           NEW r \in Execution, Good(r, disk'), run' = [run EXCEPT ![e] = r]
    PROVE  AllGood'
<1>1. \A x \in Executions : Good(run[x], disk')
  BY GrowsGood DEF AllGood
<1> QED
  BY <1>1 DEF AllGood, RunTyped

\* An execution that ends has nothing left to promise.
LEMMA EndGood ==
    ASSUME NEW r \in Execution, NEW d, Good(r, d), NEW pc \in Ended, NEW err \in Errs
    PROVE  LET n == [r EXCEPT !.pc = pc, !.save = "no", !.err = err]
           IN  n \in Execution /\ Good(n, d)
<1> DEFINE n == [r EXCEPT !.pc = pc, !.save = "no", !.err = err]
<1>1. n \in Execution
  BY DEF Execution, Errs, Pcs
<1>2. n.pc = pc /\ n.save = "no" /\ n.loaded = r.loaded /\ n.done = r.done
  BY DEF Execution
<1>3. pc \notin CoreSteps \cup {"stats", "metadata"} \cup ToolSteps
  BY DEF Ended, CoreSteps, Core, ToolSteps
<1> HIDE DEF n
<1>4. Good(n, d)
  BY <1>2, <1>3 DEF Good, Present, Live
<1> QED
  BY <1>1, <1>4 DEF n

\* A step that is in an ordered list of core steps lies within its length.
LEMMA LoadedIndex ==
    ASSUME NEW s \in Seq(CoreSteps), Ordered(s), Len(s) <= 3, NEW c \in CoreSteps
    PROVE  (\E i \in 1..Len(s) : s[i] = c) <=> Len(s) >= Index(c)
<1>1. \A i \in 1..3 : Index(Core[i]) = i /\ Core[Index(c)] = c /\ Index(c) \in 1..3
  BY DEF Index, Core, CoreSteps
<1>2. \A i \in 1..Len(s) : s[i] = Core[i] /\ i \in 1..3
  BY DEF Ordered
<1> QED
  BY <1>1, <1>2
-----------------------------------------------------------------------------
(* The inductive invariant and the steps of an execution. *)

\* CheckpointSound is not inductive: an overlapping execution may write its
\* own list at any time, so the lists of all executions must be as good as
\* the one in the file.
Inv ==
    /\ TypeOK
    /\ CheckpointOrdered
    /\ CheckpointSound
    /\ AllGood

\* What is read from checkpoint.json is a list of core steps.
LEMMA LoadedType ==
    ASSUME TypeOK
    PROVE  LoadedSteps(checkpoint) \in Seq(CoreSteps)
BY DEF TypeOK, LoadedSteps

\* A step that raises, or a work-horse that dies.
LEMMA EndedGood ==
    ASSUME Inv, NEW e \in Executions, Grows,
           NEW pc \in Ended, NEW err \in Errs,
           run' = [run EXCEPT ![e] = [run[e] EXCEPT !.pc = pc, !.save = "no", !.err = err]]
    PROVE  AllGood'
<1> DEFINE n == [run[e] EXCEPT !.pc = pc, !.save = "no", !.err = err]
<1>1. run[e] \in Execution /\ Good(run[e], disk')
  BY GrowsGood DEF Inv, AllGood, RunTyped
<1>2. n \in Execution /\ Good(n, disk')
  BY <1>1, EndGood
<1> HIDE DEF n
<1>3. run' = [run EXCEPT ![e] = n]
  BY DEF n
<1> QED
  BY <1>2, <1>3, MoveGood DEF Inv

\* An execution that raises while it is not saving its checkpoint.
LEMMA RaiseGood ==
    ASSUME Inv, NEW e \in Executions, NEW err \in Errs, RaiseError(e, err),
           run[e].save = "no", Grows
    PROVE  AllGood'
<1>1. run[e] \in Execution
  BY DEF Inv, AllGood, RunTyped
<1>2. [run[e] EXCEPT !.pc = "raised", !.save = "no", !.err = err]
        = [run[e] EXCEPT !.pc = "raised", !.err = err]
  BY <1>1 DEF Execution
<1>3. run' = [run EXCEPT ![e] = [run[e] EXCEPT !.pc = "raised", !.save = "no", !.err = err]]
  BY <1>2 DEF RaiseError
<1>4. "raised" \in Ended
  BY DEF Ended
<1> QED
  BY <1>3, <1>4, EndedGood

\* A call that starts has loaded a good list.
LEMMA BeginGood ==
    ASSUME Inv, NEW e \in Executions, Begin(e)
    PROVE  AllGood'
<1> DEFINE list == LoadedSteps(checkpoint)
           n == [IdleExecution EXCEPT !.pc = Core[1], !.loaded = list, !.done = list]
<1>1. list \in Seq(CoreSteps) /\ Ordered(list) /\ Len(list) <= 3
  BY LoadedType DEF Inv, CheckpointOrdered, Ordered
<1>2. Grows
  BY DEF Begin, MayBegin, Grows, Running, Live
<1>3. CASE RaiseError(e, "other")
  <2>1. run[e].save = "no"
    BY DEF Inv, AllGood, Good, Begin, CoreSteps, Core
  <2>2. "other" \in Errs
    BY DEF Errs
  <2> QED
    BY <1>2, <1>3, <2>1, <2>2, RaiseGood
<1>4. CASE run' = [run EXCEPT ![e] = n]
  <2>1. n \in Execution
    <3>1. list \in Seq(CoreSteps \cup ToolSteps)
      BY <1>1
    <3>2. Core[1] \in Pcs
      BY DEF Pcs, Core, CoreSteps
    <3> HIDE DEF list
    <3> QED
      BY <1>1, <3>1, <3>2 DEF Execution, IdleExecution
  <2>2. /\ n.pc = "feature_extraction" /\ n.save = "no"
        /\ n.loaded = list /\ n.done = list
    BY DEF IdleExecution, Core
  <2>3. \A i \in 1..Len(list) : list[i] \in disk'
    BY <1>2 DEF Inv, CheckpointSound, Grows
  <2>4. Good(n, disk')
    <3> HIDE DEF n, list
    <3>1. Index("feature_extraction") = 1
      BY DEF Index
    <3>2. Len(list) = IF Len(list) >= 1 THEN Len(list) ELSE 0
      BY <1>1
    <3>3. "feature_extraction" \notin {"stats", "metadata"} \cup ToolSteps
      BY DEF ToolSteps
    <3> QED
      BY <1>1, <2>2, <2>3, <3>1, <3>2, <3>3 DEF Good, Present
  <2> HIDE DEF n
  <2> QED
    BY <1>2, <1>4, <2>1, <2>4, MoveGood DEF Inv
<1> QED
  BY <1>3, <1>4 DEF Begin


\* No step makes a workspace.
LEMMA MakesFacts ==
    ASSUME NEW s \in CoreSteps \cup ToolSteps
    PROVE  s \in Makes(s) /\ "workspace" \notin Makes(s)
BY DEF Makes, CoreSteps, Core, ToolSteps

\* The checkpointed steps in terms of their places.
LEMMA CoreFacts ==
    ASSUME NEW s \in CoreSteps
    PROVE  /\ Index(s) \in 1..3 /\ Core[Index(s)] = s
           /\ s \notin {"stats", "metadata", "idle"} \cup ToolSteps \cup Ended
           /\ IF Index(s) < 3
                THEN After(s) \in CoreSteps /\ Index(After(s)) = Index(s) + 1
                ELSE After(s) = "stats"
           /\ After(s) \in Pcs
BY DEF Index, CoreSteps, Core, ToolSteps, Ended, After, Pcs

\* A skipped step is in the list already.
LEMMA SkipGood ==
    ASSUME Inv, NEW e \in Executions, SkipDone(e)
    PROVE  AllGood'
<1> DEFINE s == run[e].pc
           n == [run[e] EXCEPT !.pc = After(s)]
<1>1. run[e] \in Execution /\ Good(run[e], disk) /\ s \in CoreSteps /\ run[e].save = "no"
  BY DEF Inv, AllGood, RunTyped, SkipDone, AtCore
<1>2. Len(run[e].loaded) >= Index(s) /\ Len(run[e].done) = Len(run[e].loaded)
  <2>1. run[e].loaded \in Seq(CoreSteps)
    BY <1>1 DEF Execution
  <2>2. Len(run[e].loaded) >= Index(s)
    BY <1>1, <2>1, LoadedIndex DEF SkipDone, InLoaded, Good
  <2> QED
    BY <1>1, <2>2 DEF Good
<1>3. n \in Execution
  BY <1>1, CoreFacts DEF Execution
<1>4. n.pc = After(s) /\ n.save = "no" /\ n.loaded = run[e].loaded /\ n.done = run[e].done
  BY <1>1 DEF Execution
<1>5. Present(n, disk)
  BY <1>1, <1>4, CoreFacts DEF Good, Present, Live
<1>6. Good(n, disk)
  <2>1. Len(run[e].loaded) \in Nat
    BY <1>1 DEF Execution
  <2>2. CASE Index(s) < 3
    <3>1. Len(n.done) = IF Len(n.loaded) >= Index(n.pc) THEN Len(n.loaded)
                        ELSE Index(n.pc) - 1
      BY <1>1, <1>2, <1>4, <2>1, <2>2, CoreFacts
    <3>2. n.pc \notin {"stats", "metadata"} \cup ToolSteps
      BY <1>1, <1>4, <2>2, CoreFacts
    <3> HIDE DEF n, s
    <3> QED
      BY <1>1, <1>4, <1>5, <3>1, <3>2 DEF Good
  <2>3. CASE ~(Index(s) < 3)
    <3>1. n.pc = "stats" /\ n.pc \notin CoreSteps /\ Len(n.done) >= 3
      BY <1>1, <1>2, <1>4, <2>1, <2>3, CoreFacts DEF CoreSteps, Core
    <3> HIDE DEF n, s
    <3> QED
      BY <1>1, <1>4, <1>5, <3>1 DEF Good
  <2> QED
    BY <2>2, <2>3
<1>7. run' = [run EXCEPT ![e] = n] /\ disk' = disk
  BY DEF SkipDone
<1> HIDE DEF n, s
<1> QED
  BY <1>3, <1>6, <1>7, MoveGood DEF Inv, Grows

\* Appending the next step keeps a list in order.
LEMMA AppendGood ==
    ASSUME NEW l \in Seq(CoreSteps \cup ToolSteps), Ordered(l),
           NEW s \in CoreSteps \cup ToolSteps, NEW d,
           "workspace" \in d => s \in d /\ \A i \in 1..Len(l) : l[i] \in d,
           Len(l) >= 3 \/ (s \in CoreSteps /\ Len(l) = Index(s) - 1)
    PROVE  /\ Append(l, s) \in Seq(CoreSteps \cup ToolSteps)
           /\ Len(Append(l, s)) = Len(l) + 1
           /\ Ordered(Append(l, s))
           /\ "workspace" \in d => \A i \in 1..Len(Append(l, s)) : Append(l, s)[i] \in d
<1> DEFINE a == Append(l, s)
<1>1. a \in Seq(CoreSteps \cup ToolSteps) /\ Len(a) = Len(l) + 1 /\ Len(l) \in Nat
  OBVIOUS
<1>2. \A i \in 1..Len(a) : a[i] = IF i <= Len(l) THEN l[i] ELSE s
  OBVIOUS
<1>3. ASSUME NEW i \in 1..Len(a), i <= 3 PROVE a[i] = Core[i]
  <2>1. CASE i <= Len(l)
    BY <1>1, <1>2, <1>3, <2>1 DEF Ordered
  <2>2. CASE i > Len(l)
    <3>1. i = Len(l) + 1 /\ Len(l) < 3
      BY <1>1, <1>3, <2>2
    <3>2. s \in CoreSteps /\ Index(s) = i
      <4>1. s \in CoreSteps /\ Len(l) = Index(s) - 1
        BY <1>1, <3>1
      <4>2. Index(s) \in 1..3
        BY <4>1, CoreFacts
      <4> QED
        BY <1>1, <3>1, <4>1, <4>2
    <3> QED
      BY <1>1, <1>2, <1>3, <2>2, <3>2, CoreFacts
  <2> QED
    BY <1>1, <2>1, <2>2
<1>4. "workspace" \in d => \A i \in 1..Len(a) : a[i] \in d
  BY <1>1, <1>2
<1> HIDE DEF a
<1>5. Ordered(a)
  BY <1>3 DEF Ordered
<1> QED
  BY <1>1, <1>4, <1>5 DEF a

\* A step that succeeds is appended and is the one its place says.
LEMMA SucceedsGood ==
    ASSUME Inv, NEW e \in Executions, StepSucceeds(e)
    PROVE  AllGood'
<1> DEFINE s == run[e].pc
           l == Append(run[e].done, s)
           n == [run[e] EXCEPT !.done = l, !.save = "open"]
<1>1. run[e] \in Execution /\ Good(run[e], disk) /\ s \in CoreSteps /\ run[e].save = "no"
  BY DEF Inv, AllGood, RunTyped, StepSucceeds, AtCore
<1>2. Grows /\ s \in disk' /\ ("workspace" \in disk' => "workspace" \in disk)
  BY <1>1, MakesFacts DEF StepSucceeds, Grows
<1>3. Len(run[e].loaded) < Index(s) /\ Len(run[e].done) = Index(s) - 1
  <2>1. run[e].loaded \in Seq(CoreSteps) /\ Len(run[e].loaded) \in Nat
    BY <1>1 DEF Execution
  <2>2. ~(Len(run[e].loaded) >= Index(s))
    BY <1>1, <2>1, LoadedIndex DEF StepSucceeds, InLoaded, Good
  <2>3. Index(s) \in 1..3
    BY <1>1, CoreFacts
  <2> QED
    BY <1>1, <2>1, <2>2, <2>3 DEF Good
<1>4. /\ l \in Seq(CoreSteps \cup ToolSteps) /\ Len(l) = Len(run[e].done) + 1
      /\ Ordered(l)
      /\ "workspace" \in disk' => \A i \in 1..Len(l) : l[i] \in disk'
  <2>1. run[e].done \in Seq(CoreSteps \cup ToolSteps) /\ Ordered(run[e].done)
    BY <1>1 DEF Execution, Good
  <2>2. "workspace" \in disk' =>
          s \in disk' /\ \A i \in 1..Len(run[e].done) : run[e].done[i] \in disk'
    <3>1. Live(run[e])
      BY <1>1, CoreFacts DEF Live
    <3> QED
      BY <1>1, <1>2, <3>1 DEF Good, Present, Grows
  <2> QED
    BY <1>1, <1>3, <2>1, <2>2, AppendGood
<1> HIDE DEF l
<1>5. n \in Execution
  BY <1>1, <1>4 DEF Execution
<1>6. n.pc = s /\ n.save = "open" /\ n.loaded = run[e].loaded /\ n.done = l
  BY <1>1 DEF Execution
<1>7. run' = [run EXCEPT ![e] = n]
  BY DEF StepSucceeds, l
<1>8. Len(l) = Index(s) /\ Len(run[e].loaded) <= Len(l)
  <2>1. Len(run[e].loaded) \in Nat /\ Index(s) \in 1..3
    BY <1>1, CoreFacts DEF Execution
  <2> QED
    BY <1>3, <1>4, <2>1
<1>9. s \notin {"stats", "metadata"} \cup ToolSteps
  BY <1>1, CoreFacts
<1> HIDE DEF n, s
<1>10. Good(n, disk')
  BY <1>1, <1>4, <1>6, <1>8, <1>9 DEF Good, Present
<1> QED
  BY <1>2, <1>5, <1>7, <1>10, MoveGood DEF Inv

\* A step that fails is tried again from the same place, or the call raises.
LEMMA FailsGood ==
    ASSUME Inv, NEW e \in Executions, NEW err \in ColmapErrors, StepFails(e, err)
    PROVE  AllGood'
<1>1. run[e] \in Execution /\ Good(run[e], disk) /\ run[e].save = "no"
  BY DEF Inv, AllGood, RunTyped, StepFails, AtCore
<1>2. Grows
  <2>1. run[e].pc \in CoreSteps
    BY DEF StepFails, AtCore
  <2> QED
    BY <2>1, MakesFacts DEF StepFails, Grows
<1>3. CASE RaiseError(e, err)
  <2>1. err \in Errs
    BY DEF Errs
  <2> QED
    BY <1>1, <1>2, <1>3, <2>1, RaiseGood
<1>4. CASE run' = [run EXCEPT ![e].attempt = @ + 1]
  <2> DEFINE k == run[e].attempt + 1
             n == [run[e] EXCEPT !.attempt = k]
  <2>1. k \in Nat
    BY <1>1 DEF Execution
  <2>2. run' = [run EXCEPT ![e] = n]
    BY <1>4
  <2> HIDE DEF k
  <2>3. n \in Execution
    BY <1>1, <2>1 DEF Execution
  <2>4. n.pc = run[e].pc /\ n.save = "no" /\ n.loaded = run[e].loaded /\ n.done = run[e].done
    BY <1>1 DEF Execution
  <2> HIDE DEF n
  <2>5. Good(n, disk')
    BY <1>1, <1>2, <2>4, GrowsGood DEF Good, Present, Live
  <2> QED
    BY <1>2, <2>2, <2>3, <2>5, MoveGood DEF Inv
<1> QED
  BY <1>3, <1>4 DEF StepFails

\* Opening the file changes nothing an execution has; writing it takes the
\* execution to the next step.
LEMMA SaveGood ==
    ASSUME Inv, NEW e \in Executions, SaveOpens(e) \/ SaveWrites(e)
    PROVE  AllGood'
<1>1. run[e] \in Execution /\ Good(run[e], disk) /\ disk' = disk
  BY DEF Inv, AllGood, RunTyped, SaveOpens, SaveWrites
<1>2. run[e].save # "no"
  BY DEF SaveOpens, SaveWrites
<1>3. run[e].pc \in CoreSteps /\ Len(run[e].done) = Index(run[e].pc)
      /\ Len(run[e].loaded) <= Len(run[e].done) /\ Len(run[e].loaded) \in Nat
  BY <1>1, <1>2 DEF Good, Execution
<1>4. CASE run' = [run EXCEPT ![e].save = "write"]
  <2> DEFINE n == [run[e] EXCEPT !.save = "write"]
  <2>1. n \in Execution /\ n.pc = run[e].pc /\ n.save = "write"
        /\ n.loaded = run[e].loaded /\ n.done = run[e].done
    BY <1>1 DEF Execution
  <2>2. run' = [run EXCEPT ![e] = n]
    BY <1>4
  <2>3. run[e].pc \notin {"stats", "metadata"} \cup ToolSteps
    BY <1>3, CoreFacts
  <2> HIDE DEF n
  <2>4. Good(n, disk')
    BY <1>1, <1>3, <2>1, <2>3 DEF Good, Present, Live
  <2> QED
    BY <1>1, <2>1, <2>2, <2>4, MoveGood DEF Inv, Grows
<1>5. CASE run' = [run EXCEPT ![e].save = "no", ![e].pc = "raised", ![e].err = "other"]
  <2>1. run' = [run EXCEPT ![e] = [run[e] EXCEPT !.pc = "raised", !.save = "no", !.err = "other"]]
    <3>1. [run[e] EXCEPT !.pc = "raised", !.save = "no", !.err = "other"]
            = [run[e] EXCEPT !.save = "no", !.pc = "raised", !.err = "other"]
      BY <1>1 DEF Execution
    <3> QED
      BY <1>5, <3>1
  <2>2. "raised" \in Ended /\ "other" \in Errs
    BY DEF Ended, Errs
  <2> QED
    BY <1>1, <2>1, <2>2, EndedGood DEF Grows
<1>6. CASE SaveWrites(e)
  <2> DEFINE s == run[e].pc
             n == [run[e] EXCEPT !.save = "no", !.attempt = 0, !.pc = After(s)]
  <2>1. After(s) \in Pcs
    BY <1>3, CoreFacts
  <2>2. n \in Execution /\ n.pc = After(s) /\ n.save = "no"
        /\ n.loaded = run[e].loaded /\ n.done = run[e].done
    BY <1>1, <2>1 DEF Execution
  <2>3. run' = [run EXCEPT ![e] = n]
    BY <1>6 DEF SaveWrites
  <2>4. Present(n, disk)
    BY <1>1, <1>3, <2>2, CoreFacts DEF Good, Present, Live
  <2>5. Good(n, disk')
    <3>1. CASE Index(s) < 3
      <4>1. Len(n.done) = IF Len(n.loaded) >= Index(n.pc) THEN Len(n.loaded)
                          ELSE Index(n.pc) - 1
        BY <1>3, <2>2, <3>1, CoreFacts
      <4>2. n.pc \notin {"stats", "metadata"} \cup ToolSteps
        BY <1>3, <2>2, <3>1, CoreFacts
      <4> HIDE DEF n, s
      <4> QED
        BY <1>1, <2>2, <2>4, <4>1, <4>2 DEF Good
    <3>2. CASE ~(Index(s) < 3)
      <4>1. n.pc = "stats" /\ n.pc \notin CoreSteps /\ Len(n.done) >= 3
        BY <1>3, <2>2, <3>2, CoreFacts DEF CoreSteps, Core
      <4> HIDE DEF n, s
      <4> QED
        BY <1>1, <2>2, <2>4, <4>1 DEF Good
    <3> QED
      BY <3>1, <3>2
  <2> HIDE DEF n, s
  <2> QED
    BY <1>1, <2>2, <2>3, <2>5, MoveGood DEF Inv, Grows
<1> QED
  BY <1>4, <1>5, <1>6 DEF SaveOpens

\* An execution at or past the statistics that moves among the later steps
\* with at least the same list.
LEMMA LaterGood ==
    ASSUME Inv, NEW e \in Executions, NEW r \in Execution,
           run[e].pc \in {"stats", "metadata"} \cup ToolSteps,
           r.pc \in {"stats", "metadata"} \cup ToolSteps,
           r.save = run[e].save, r.loaded = run[e].loaded,
           Len(r.done) >= Len(run[e].done), Ordered(r.done),
           Grows, "workspace" \in disk' => \A i \in 1..Len(r.done) : r.done[i] \in disk',
           run' = [run EXCEPT ![e] = r]
    PROVE  AllGood'
<1>1. Good(run[e], disk) /\ run[e] \in Execution
  BY DEF Inv, AllGood, RunTyped
<1>2. run[e].pc \notin CoreSteps /\ r.pc \notin CoreSteps
  BY DEF CoreSteps, Core, ToolSteps
<1>3. run[e].save = "no" /\ Len(run[e].done) >= 3
  BY <1>1, <1>2 DEF Good
<1>4. Len(r.done) >= 3
  BY <1>1, <1>3 DEF Execution
<1>5. Good(r, disk')
  BY <1>1, <1>2, <1>3, <1>4 DEF Good, Present
<1> QED
  BY <1>5, MoveGood DEF Inv

\* The statistics and the steps after them.
LEMMA ToolGood ==
    ASSUME Inv, NEW e \in Executions,
           Stats(e) \/ ToolSucceeds(e) \/ ToolFails(e) \/ NoPotree(e) \/ Finish(e)
    PROVE  AllGood'
<1>1. run[e] \in Execution /\ Good(run[e], disk)
  BY DEF Inv, AllGood, RunTyped
<1>2. run[e].pc \in {"stats", "metadata"} \cup ToolSteps
  BY DEF Stats, ToolSucceeds, ToolFails, NoPotree, Finish, ToolSteps
<1>3. run[e].pc \notin CoreSteps
  BY <1>2 DEF CoreSteps, Core, ToolSteps
<1>4. run[e].save = "no"
  BY <1>1, <1>3 DEF Good
<1>5. Grows /\ ("workspace" \in disk' => "workspace" \in disk)
  BY MakesFacts DEF Stats, ToolSucceeds, ToolFails, NoPotree, Finish, Grows
<1>6. "workspace" \in disk' => \A i \in 1..Len(run[e].done) : run[e].done[i] \in disk'
  <2>1. Live(run[e])
    BY <1>2 DEF Live, Ended, ToolSteps
  <2> QED
    BY <1>1, <1>5, <2>1 DEF Good, Present, Grows
<1>7. CASE \E err \in {"no_points", "other"} : RaiseError(e, err)
  BY <1>4, <1>5, <1>7, RaiseGood DEF Errs
<1>8. ASSUME NEW pc \in {"ply_export", "metadata"}, run' = [run EXCEPT ![e].pc = pc]
      PROVE  AllGood'
  <2> DEFINE n == [run[e] EXCEPT !.pc = pc]
  <2>1. pc \in Pcs /\ pc \in {"stats", "metadata"} \cup ToolSteps
    BY <1>8 DEF Pcs, ToolSteps
  <2>2. n \in Execution /\ n.pc = pc /\ n.save = run[e].save
        /\ n.loaded = run[e].loaded /\ n.done = run[e].done
    BY <1>1, <2>1 DEF Execution
  <2>3. run' = [run EXCEPT ![e] = n]
    BY <1>8
  <2>4. "workspace" \in disk' => \A i \in 1..Len(run[e].done) : run[e].done[i] \in disk'
    BY <1>6
  <2>5. Ordered(run[e].done) /\ Len(run[e].done) >= Len(run[e].done)
    BY <1>1 DEF Good, Execution
  <2> HIDE DEF n
  <2> QED
    BY <1>2, <1>5, <2>1, <2>2, <2>3, <2>4, <2>5, LaterGood
<1>9. CASE run' = [run EXCEPT ![e].pc = "returned"]
  <2>1. [run[e] EXCEPT !.pc = "returned", !.save = "no", !.err = run[e].err]
          = [run[e] EXCEPT !.pc = "returned"]
    BY <1>1, <1>4 DEF Execution
  <2>2. run' = [run EXCEPT ![e] = [run[e] EXCEPT !.pc = "returned", !.save = "no",
                                                 !.err = run[e].err]]
    BY <1>9, <2>1
  <2>3. "returned" \in Ended /\ run[e].err \in Errs
    BY <1>1 DEF Ended, Errs, Execution
  <2> QED
    BY <1>5, <2>2, <2>3, EndedGood
<1>10. CASE ToolSucceeds(e)
  <2> DEFINE s == run[e].pc
             l == Append(run[e].done, s)
             n == [run[e] EXCEPT !.done = l, !.pc = After(s)]
  <2>1. s \in ToolSteps /\ s \in disk'
    BY <1>10 DEF ToolSucceeds, Makes
  <2>2. Len(run[e].done) >= 3 /\ run[e].done \in Seq(CoreSteps \cup ToolSteps)
        /\ Ordered(run[e].done)
    BY <1>1, <1>2 DEF Good, Execution
  <2>3. /\ l \in Seq(CoreSteps \cup ToolSteps) /\ Len(l) = Len(run[e].done) + 1
        /\ Ordered(l)
        /\ "workspace" \in disk' => \A i \in 1..Len(l) : l[i] \in disk'
    BY <1>6, <2>1, <2>2, AppendGood
  <2>4. After(s) \in {"metadata"} \cup ToolSteps /\ After(s) \in Pcs
    BY <2>1 DEF After, OptionalFrom, ToolSteps, Pcs
  <2> HIDE DEF l
  <2>5. n \in Execution /\ n.pc = After(s) /\ n.save = run[e].save
        /\ n.loaded = run[e].loaded /\ n.done = l
    BY <1>1, <2>3, <2>4 DEF Execution
  <2>6. run' = [run EXCEPT ![e] = n]
    BY <1>10 DEF ToolSucceeds, l
  <2>7. Len(l) >= Len(run[e].done)
    BY <2>2, <2>3
  <2> HIDE DEF n, s
  <2> QED
    BY <1>2, <1>5, <2>3, <2>4, <2>5, <2>6, <2>7, LaterGood
<1> QED
  BY <1>7, <1>8, <1>9, <1>10 DEF Stats, ToolFails, NoPotree, Finish

\* Every step leaves every execution good.
LEMMA NextGood ==
    ASSUME Inv, [Next]_rvars
    PROVE  AllGood'
<1>1. ASSUME NEW e \in Executions, Step(e) PROVE AllGood'
  <2>1. CASE StepMissesInput(e)
    <3>1. run[e].save = "no" /\ disk' = disk /\ "other" \in Errs /\ RaiseError(e, "other")
      BY <2>1 DEF StepMissesInput, AtCore, Errs
    <3> QED
      BY <3>1, RaiseGood DEF Grows
  <2> QED
    BY <1>1, <2>1, SkipGood, SucceedsGood, FailsGood, SaveGood, ToolGood DEF Step
<1>2. ASSUME NEW e \in Executions, Dies(e) PROVE AllGood'
  <2>1. run[e] \in Execution
    BY DEF Inv, AllGood, RunTyped
  <2>2. [run[e] EXCEPT !.pc = "dead", !.save = "no", !.err = run[e].err]
          = [run[e] EXCEPT !.pc = "dead", !.save = "no"]
    BY <2>1 DEF Execution
  <2>3. run' = [run EXCEPT ![e] = [run[e] EXCEPT !.pc = "dead", !.save = "no",
                                                 !.err = run[e].err]]
    BY <1>2, <2>2 DEF Dies
  <2>4. "dead" \in Ended /\ run[e].err \in Errs /\ disk' = disk
    BY <1>2, <2>1 DEF Ended, Errs, Execution, Dies
  <2> QED
    BY <2>3, <2>4, EndedGood DEF Grows
<1>3. CASE Wipe
  BY <1>3 DEF Wipe, Inv, AllGood, RunTyped, Good, Present
<1>4. CASE UNCHANGED rvars
  BY <1>4 DEF rvars, Inv, AllGood, RunTyped
<1> QED
  BY <1>1, <1>2, <1>3, <1>4, BeginGood DEF Next
-----------------------------------------------------------------------------
(* The checkpoint file. *)

\* A checkpoint that is written over is the new list or does not load.
LEMMA OverwrittenLoads ==
    ASSUME NEW c \in [head : Seq(CoreSteps), size : Nat], NEW list \in Seq(CoreSteps)
    PROVE  LET o == Overwritten(c, list)
           IN  /\ o \in [head : Seq(CoreSteps), size : Nat]
               /\ LoadedSteps(o) \in {list, <<>>}
BY DEF Overwritten, LoadedSteps, Loads

\* No step makes the checkpoint promise too much.
LEMMA NextCheckpoint ==
    ASSUME Inv, [Next]_rvars
    PROVE  /\ checkpoint' \in [head : Seq(CoreSteps), size : Nat]
           /\ CheckpointOrdered'
           /\ CheckpointSound'
<1>1. ASSUME checkpoint' = checkpoint, disk \subseteq disk'
      PROVE  /\ checkpoint' \in [head : Seq(CoreSteps), size : Nat]
             /\ CheckpointOrdered'
             /\ CheckpointSound'
  BY <1>1 DEF Inv, TypeOK, CheckpointOrdered, CheckpointSound
<1>2. CASE checkpoint' = NoCheckpoint
  <2>1. LoadedSteps(NoCheckpoint) = <<>> /\ NoCheckpoint \in [head : Seq(CoreSteps), size : Nat]
    BY DEF LoadedSteps, Loads, NoCheckpoint
  <2> QED
    BY <1>2, <2>1 DEF CheckpointOrdered, CheckpointSound
<1>3. ASSUME NEW e \in Executions, SaveWrites(e),
             "workspace" \in disk, checkpoint' = Overwritten(checkpoint, run[e].done)
      PROVE  /\ checkpoint' \in [head : Seq(CoreSteps), size : Nat]
             /\ CheckpointOrdered'
             /\ CheckpointSound'
  <2> DEFINE list == run[e].done
  <2>1. run[e] \in Execution /\ Good(run[e], disk) /\ disk' = disk
    BY <1>3 DEF Inv, AllGood, RunTyped, SaveWrites
  <2>2. Ordered(list) /\ Len(list) <= 3 /\ \A i \in 1..Len(list) : list[i] \in disk
    <3>1. run[e].save # "no"
      BY <1>3 DEF SaveWrites
    <3>2. run[e].pc \in CoreSteps /\ Len(list) = Index(run[e].pc)
      BY <2>1, <3>1 DEF Good
    <3>3. Live(run[e])
      BY <3>2, CoreFacts DEF Live
    <3> QED
      BY <1>3, <2>1, <3>2, <3>3, CoreFacts DEF Good, Present
  <2>3. list \in Seq(CoreSteps)
    <3>1. list \in Seq(CoreSteps \cup ToolSteps)
      BY <2>1 DEF Execution
    <3>2. \A i \in 1..Len(list) : list[i] \in CoreSteps
      BY <2>2, <3>1 DEF Ordered, CoreSteps
    <3> QED
      BY <3>1, <3>2
  <2> HIDE DEF list
  <2>4. checkpoint \in [head : Seq(CoreSteps), size : Nat]
    BY DEF Inv, TypeOK
  <2>5. checkpoint' \in [head : Seq(CoreSteps), size : Nat]
        /\ LoadedSteps(checkpoint') \in {list, <<>>}
    BY <1>3, <2>3, <2>4, OverwrittenLoads DEF list
  <2>6. CASE LoadedSteps(checkpoint') = list
    BY <2>1, <2>2, <2>3, <2>5, <2>6 DEF CheckpointOrdered, CheckpointSound, Ordered
  <2>7. CASE LoadedSteps(checkpoint') = <<>>
    BY <2>5, <2>7 DEF CheckpointOrdered, CheckpointSound
  <2> QED
    BY <2>5, <2>6, <2>7
<1>4. \/ checkpoint' = checkpoint /\ disk \subseteq disk'
      \/ checkpoint' = NoCheckpoint
      \/ \E e \in Executions : /\ SaveWrites(e) /\ "workspace" \in disk
                               /\ checkpoint' = Overwritten(checkpoint, run[e].done)
  <2>1. ASSUME NEW e \in Executions, SaveWrites(e)
        PROVE  \/ checkpoint' = checkpoint /\ disk' = disk
               \/ "workspace" \in disk /\ checkpoint' = Overwritten(checkpoint, run[e].done)
    BY <2>1 DEF SaveWrites
  <2>2. ASSUME NEW e \in Executions, Begin(e) \/ Dies(e) \/ (Step(e) /\ ~SaveWrites(e))
        PROVE  checkpoint' \in {checkpoint, NoCheckpoint} /\ disk \subseteq disk'
    BY <2>2 DEF Begin, Dies, Step, SkipDone, StepSucceeds, StepMissesInput,
       StepFails, SaveOpens, Stats, ToolSucceeds, ToolFails, NoPotree, Finish
  <2>3. Wipe => checkpoint' = NoCheckpoint
    BY DEF Wipe
  <2>4. UNCHANGED rvars => checkpoint' = checkpoint /\ disk' = disk
    BY DEF rvars
  <2> QED
    BY <2>1, <2>2, <2>3, <2>4 DEF Next
<1> QED
  BY <1>1, <1>2, <1>3, <1>4

\* The rest of the type invariant.
LEMMA NextDisk ==
    ASSUME Inv, [Next]_rvars
    PROVE  disk' \subseteq Files /\ points' \in BOOLEAN
<1>1. disk \subseteq Files /\ points \in BOOLEAN
  BY DEF Inv, TypeOK
<1>2. \A s \in CoreSteps \cup ToolSteps : Makes(s) \subseteq Files
  BY DEF Makes, Files
<1>3. {"frames", "workspace", "database", "metadata"} \subseteq Files
  BY DEF Files
<1>4. ASSUME NEW e \in Executions, Begin(e) \/ Dies(e) \/ Step(e)
      PROVE  disk' \subseteq Files /\ points' \in BOOLEAN
  BY <1>1, <1>2, <1>3, <1>4 DEF Begin, Dies, Step, SkipDone, StepSucceeds,
     StepMissesInput, StepFails, AtCore, SaveOpens, SaveWrites, Stats,
     ToolSucceeds, ToolFails, NoPotree, Finish
<1> QED
  BY <1>1, <1>4 DEF Next, Wipe, rvars

\* The invariant.
LEMMA InvInvariant == Spec => []Inv
<1>1. Init => Inv
  <2> SUFFICES ASSUME Init PROVE Inv
    OBVIOUS
  <2>1. IdleExecution \in Execution
    BY DEF IdleExecution, Execution, Pcs
  <2>2. \A d : Good(IdleExecution, d)
    BY DEF IdleExecution, Good, Present, Live, Ordered, CoreSteps, Core, ToolSteps
  <2>3. AllGood /\ run \in [Executions -> Execution]
    BY <2>1, <2>2 DEF Init, AllGood, RunTyped
  <2>4. checkpoint \in [head : Seq(CoreSteps), size : Nat] /\ LoadedSteps(checkpoint) = <<>>
    BY DEF Init, NoCheckpoint, LoadedSteps, Loads
  <2>5. CheckpointOrdered /\ CheckpointSound
    BY <2>4 DEF CheckpointOrdered, CheckpointSound
  <2>6. TypeOK
    BY <2>3, <2>4 DEF Init, TypeOK
  <2> QED
    BY <2>3, <2>5, <2>6 DEF Inv
<1>2. Inv /\ [Next]_rvars => Inv'
  <2> SUFFICES ASSUME Inv, [Next]_rvars PROVE Inv'
    OBVIOUS
  <2>1. AllGood'
    BY NextGood
  <2>2. /\ checkpoint' \in [head : Seq(CoreSteps), size : Nat]
        /\ CheckpointOrdered'
        /\ CheckpointSound'
    BY NextCheckpoint
  <2>3. disk' \subseteq Files /\ points' \in BOOLEAN
    BY NextDisk
  <2>4. TypeOK'
    BY <2>1, <2>2, <2>3 DEF TypeOK, AllGood, RunTyped
  <2> QED
    BY <2>1, <2>2, <2>4 DEF Inv
<1> QED
  BY <1>1, <1>2, PTL DEF Spec

\* The variables keep their types.
THEOREM ReconTypeCorrect == Spec => []TypeOK
<1>1. Inv => TypeOK
  BY DEF Inv
<1> QED
  BY <1>1, InvInvariant, PTL

\* Whatever fails, dies or overlaps, the list a later execution loads is a
\* prefix of the pipeline.
THEOREM CheckpointsOrdered == Spec => []CheckpointOrdered
<1>1. Inv => CheckpointOrdered
  BY DEF Inv
<1> QED
  BY <1>1, InvInvariant, PTL

\* Every step it skips has left its output there, whenever the directory is
\* removed.
THEOREM CheckpointsSound == Spec => []CheckpointSound
<1>1. Inv => CheckpointSound
  BY DEF Inv
<1> QED
  BY <1>1, InvInvariant, PTL
-----------------------------------------------------------------------------
(* The list a reconstruction reports. *)

Later == {"stats", "metadata"} \cup ToolSteps

\* The order of the steps after the core.
Rank(s) == CASE s = "stats"              -> 1
             [] s = "ply_export"         -> 2
             [] s = "image_undistortion" -> 3
             [] s = "patch_match_stereo" -> 4
             [] s = "stereo_fusion"      -> 5
             [] s = "gaussian_splatting" -> 6
             [] s = "potree_conversion"  -> 7
             [] s = "metadata"           -> 8

\* After the core steps come the PLY export and then later and later steps,
\* all before the one the execution is at.
Reported(r) ==
    r.pc \in Later =>
        /\ \A i \in 1..Len(r.done) : 3 < i =>
              r.done[i] \in ToolSteps /\ Rank(r.done[i]) < Rank(r.pc)
        /\ \A i, k \in 1..Len(r.done) : 3 < i /\ i < k =>
              Rank(r.done[i]) < Rank(r.done[k])
        /\ IF r.pc \in {"stats", "ply_export"} THEN Len(r.done) = 3
           ELSE Len(r.done) >= 4 /\ r.done[4] = "ply_export"

ReportInv == Inv /\ \A x \in Executions : Reported(run[x])

\* The optional steps are taken in their order.
LEMMA RankFacts ==
    ASSUME NEW s \in ToolSteps
    PROVE  /\ Rank(s) \in 2..7 /\ Rank("stats") = 1 /\ Rank("metadata") = 8
           /\ Rank("ply_export") = 2 /\ s # "ply_export" => Rank(s) > 2
           /\ After(s) \in ToolSteps \cup {"metadata"}
           /\ After(s) \notin {"stats", "ply_export"}
           /\ Rank(After(s)) \in 1..8 /\ Rank(s) < Rank(After(s))
BY DEF Rank, ToolSteps, After, OptionalFrom

\* Where the steps that begin or end an execution leave it.
LEMMA EndsAt ==
    ASSUME Inv, NEW e \in Executions,
           Begin(e) \/ Dies(e) \/ ToolFails(e) \/ StepMissesInput(e)
    PROVE  run'[e].pc \in {"raised", "dead", "feature_extraction"}
<1>1. run \in [Executions -> Execution] /\ run[e] \in Execution
  BY DEF Inv, AllGood, RunTyped
<1>2. CASE RaiseError(e, "other")
  BY <1>1, <1>2 DEF RaiseError, Execution
<1>3. CASE Dies(e)
  BY <1>1, <1>3 DEF Dies, Execution
<1>4. CASE Begin(e) /\ ~RaiseError(e, "other")
  <2> DEFINE n == [IdleExecution EXCEPT !.pc = Core[1], !.loaded = LoadedSteps(checkpoint),
                                        !.done = LoadedSteps(checkpoint)]
  <2>1. n.pc = "feature_extraction"
    BY DEF IdleExecution, Core
  <2>2. run' = [run EXCEPT ![e] = n]
    BY <1>4 DEF Begin
  <2> HIDE DEF n
  <2> QED
    BY <1>1, <2>1, <2>2
<1> QED
  BY <1>2, <1>3, <1>4 DEF ToolFails, StepMissesInput

\* Where the attempts of a core step leave it.
LEMMA AttemptsAt ==
    ASSUME Inv, NEW e \in Executions,
           StepSucceeds(e) \/ SaveOpens(e) \/ \E err \in ColmapErrors : StepFails(e, err)
    PROVE  run'[e].pc \in CoreSteps \cup {"raised"}
<1>1. run \in [Executions -> Execution] /\ run[e] \in Execution /\ Good(run[e], disk)
  BY DEF Inv, AllGood, RunTyped
<1>2. run[e].pc \in CoreSteps
  BY <1>1 DEF StepSucceeds, StepFails, AtCore, SaveOpens, Good
<1>3. CASE StepSucceeds(e)
  BY <1>1, <1>2, <1>3 DEF StepSucceeds, Execution
<1>4. CASE SaveOpens(e)
  BY <1>1, <1>2, <1>4 DEF SaveOpens, Execution
<1>5. ASSUME NEW err \in ColmapErrors, StepFails(e, err)
      PROVE  run'[e].pc \in CoreSteps \cup {"raised"}
  BY <1>1, <1>2, <1>5 DEF StepFails, RaiseError, Execution
<1> QED
  BY <1>3, <1>4, <1>5

\* An execution reaches the statistics with the three core steps.
LEMMA CoreReported ==
    ASSUME Inv, NEW e \in Executions, SkipDone(e) \/ SaveWrites(e)
    PROVE  Reported(run'[e])
<1> DEFINE s == run[e].pc
<1>1. run[e] \in Execution /\ Good(run[e], disk) /\ run \in [Executions -> Execution]
  BY DEF Inv, AllGood, RunTyped
<1>2. s \in CoreSteps /\ run'[e].pc = After(s) /\ run'[e].done = run[e].done
  <2>1. CASE SkipDone(e)
    BY <1>1, <2>1 DEF SkipDone, AtCore, Execution
  <2>2. CASE SaveWrites(e)
    BY <1>1, <2>2 DEF SaveWrites, Execution, Good
  <2> QED
    BY <2>1, <2>2
<1>3. CASE Index(s) < 3
  BY <1>2, <1>3, CoreFacts DEF Reported, Later
<1>4. CASE ~(Index(s) < 3)
  <2>1. After(s) = "stats" /\ Index(s) = 3
    BY <1>2, <1>4, CoreFacts
  <2>2. Len(run[e].done) = 3
    <3>1. CASE SkipDone(e)
      <4>1. run[e].loaded \in Seq(CoreSteps) /\ run[e].save = "no"
        BY <1>1, <3>1 DEF Execution, SkipDone, AtCore
      <4>2. Ordered(run[e].loaded) /\ Len(run[e].loaded) <= 3
        BY <1>1 DEF Good
      <4>3. \E i \in 1..Len(run[e].loaded) : run[e].loaded[i] = s
        BY <3>1 DEF SkipDone, InLoaded
      <4>4. Len(run[e].loaded) >= Index(s)
        BY <1>2, <4>1, <4>2, <4>3, LoadedIndex
      <4>5. Len(run[e].loaded) = 3
        <5> DEFINE k == Len(run[e].loaded)
                   m == Index(s)
        <5>1. k \in Nat /\ k <= 3
          BY <4>1, <4>2
        <5>2. m = 3
          BY <2>1
        <5>3. k >= m
          BY <4>4
        <5> HIDE DEF k, m
        <5>4. k = 3
          BY <5>1, <5>2, <5>3
        <5> QED
          BY <5>4 DEF k
      <4> QED
        BY <1>1, <1>2, <2>1, <4>1, <4>5 DEF Good
    <3>2. CASE SaveWrites(e)
      BY <1>1, <2>1, <3>2 DEF SaveWrites, Good
    <3> QED
      BY <3>1, <3>2
  <2> HIDE DEF s
  <2> QED
    BY <1>2, <2>1, <2>2 DEF Reported
<1> QED
  BY <1>3, <1>4

\* A tool that succeeds comes after all that were reported before it.
LEMMA ToolReported ==
    ASSUME Inv, NEW e \in Executions, Reported(run[e]), ToolSucceeds(e)
    PROVE  Reported(run'[e])
<1> DEFINE s == run[e].pc
           l == run[e].done
           m == Append(l, s)
<1>1. run[e] \in Execution /\ run \in [Executions -> Execution]
  BY DEF Inv, AllGood, RunTyped
<1>2. s \in ToolSteps /\ run'[e].pc = After(s) /\ run'[e].done = m
  BY <1>1 DEF ToolSucceeds, Execution
<1>3. l \in Seq(CoreSteps \cup ToolSteps) /\ s \in CoreSteps \cup ToolSteps
  BY <1>1, <1>2 DEF Execution
<1>4. s \in Later /\ s # "stats"
  BY <1>2 DEF Later, ToolSteps
<1>5. /\ \A i \in 1..Len(l) : 3 < i => l[i] \in ToolSteps /\ Rank(l[i]) < Rank(s)
      /\ \A i, k \in 1..Len(l) : 3 < i /\ i < k => Rank(l[i]) < Rank(l[k])
      /\ IF s = "ply_export" THEN Len(l) = 3 ELSE Len(l) >= 4 /\ l[4] = "ply_export"
  BY <1>4 DEF Reported
<1> HIDE DEF s, l
<1>6. /\ Len(m) = Len(l) + 1 /\ Len(l) \in Nat
      /\ \A i \in 1..Len(m) : m[i] = IF i <= Len(l) THEN l[i] ELSE s
  BY <1>3
<1> HIDE DEF m
<1>7. Len(m) >= 4 /\ m[4] = "ply_export"
  <2>1. CASE s = "ply_export"
    <3>1. Len(l) = 3
      BY <1>5, <2>1
    <3> HIDE <1>5
    <3>2. Len(m) = 4 /\ m[4] = s
      BY <1>6, <3>1
    <3> QED
      BY <2>1, <3>2
  <2>2. CASE s # "ply_export"
    <3>1. Len(l) >= 4 /\ l[4] = "ply_export"
      BY <1>5, <2>2
    <3> HIDE <1>5
    <3> QED
      BY <1>6, <3>1
  <2> QED
    BY <2>1, <2>2
<1>8. \A i \in 1..Len(m) : 3 < i => m[i] \in ToolSteps /\ Rank(m[i]) < Rank(After(s))
  <2>1. ASSUME NEW i \in 1..Len(m), 3 < i
        PROVE  m[i] \in ToolSteps /\ Rank(m[i]) < Rank(After(s))
    <3>1. CASE i <= Len(l)
      <4>1. m[i] = l[i] /\ l[i] \in ToolSteps /\ Rank(l[i]) < Rank(s)
        BY <1>5, <1>6, <2>1, <3>1
      <4> QED
        BY <1>2, <4>1, RankFacts
    <3>2. CASE i > Len(l)
      BY <1>2, <1>6, <2>1, <3>2, RankFacts
    <3> QED
      BY <1>6, <3>1, <3>2
  <2> QED
    BY <2>1
<1>9. \A i, k \in 1..Len(m) : 3 < i /\ i < k => Rank(m[i]) < Rank(m[k])
  <2>1. ASSUME NEW i \in 1..Len(m), NEW k \in 1..Len(m), 3 < i, i < k
        PROVE  Rank(m[i]) < Rank(m[k])
    <3>1. i <= Len(l) /\ m[i] = l[i]
      BY <1>6, <2>1
    <3>2. CASE k <= Len(l)
      BY <1>5, <1>6, <2>1, <3>1, <3>2
    <3>3. CASE k > Len(l)
      BY <1>5, <1>6, <2>1, <3>1, <3>3
    <3> QED
      BY <1>6, <3>2, <3>3
  <2> QED
    BY <2>1
<1>10. After(s) \notin {"stats", "ply_export"}
  BY <1>2, RankFacts
<1> QED
  BY <1>2, <1>7, <1>8, <1>9, <1>10 DEF Reported

\* Every other step keeps the list, and the place in it, or ends.
LEMMA NextReported ==
    ASSUME ReportInv, [Next]_rvars
    PROVE  \A x \in Executions : Reported(run'[x])
<1>1. run \in [Executions -> Execution] /\ Inv /\ \A x \in Executions : Reported(run[x])
  BY DEF ReportInv, Inv, AllGood, RunTyped
<1>2. ASSUME NEW e \in Executions, NEW x \in Executions, x # e, Begin(e) \/ Step(e) \/ Dies(e)
      PROVE  run'[x] = run[x]
  BY <1>1, <1>2 DEF Begin, Step, Dies, RaiseError, SkipDone, StepSucceeds, StepMissesInput,
     StepFails, SaveOpens, SaveWrites, Stats, ToolSucceeds, ToolFails, NoPotree, Finish
<1>3. ASSUME NEW e \in Executions, Begin(e) \/ Step(e) \/ Dies(e)
      PROVE  Reported(run'[e])
  <2>1. run[e] \in Execution
    BY <1>1
  <2>2. CASE run'[e].pc \notin Later
    BY <2>2 DEF Reported
  <2>3. CASE SkipDone(e) \/ SaveWrites(e)
    BY <1>1, <2>3, CoreReported
  <2>4. CASE ToolSucceeds(e)
    BY <1>1, <2>4, ToolReported
  <2>5. CASE Begin(e) \/ Dies(e) \/ ToolFails(e) \/ Finish(e) \/ StepMissesInput(e)
    <3>1. run'[e].pc \in {"raised", "dead", "returned", "feature_extraction"}
      BY <1>1, <2>1, <2>5, EndsAt DEF Finish, RaiseError, Execution
    <3> QED
      BY <3>1 DEF Reported, Later, ToolSteps
  <2>6. CASE StepSucceeds(e) \/ SaveOpens(e) \/ \E err \in ColmapErrors : StepFails(e, err)
    <3>1. run'[e].pc \in CoreSteps \cup {"raised"}
      BY <1>1, <2>6, AttemptsAt
    <3> QED
      BY <3>1 DEF Reported, Later, ToolSteps, CoreSteps, Core
  <2>7. CASE Stats(e)
    <3>1. \/ run'[e].pc = "raised"
          \/ run'[e].pc = "ply_export" /\ run'[e].done = run[e].done
      BY <1>1, <2>1, <2>7 DEF Stats, RaiseError, Execution
    <3>2. Len(run[e].done) = 3
      BY <1>1, <2>7 DEF Stats, Reported, Later
    <3>3. "raised" \notin Later
      BY DEF Later, ToolSteps
    <3> QED
      BY <3>1, <3>2, <3>3 DEF Reported
  <2>8. CASE NoPotree(e)
    <3>1. run'[e].pc = "metadata" /\ run'[e].done = run[e].done /\ run[e].pc = "potree_conversion"
      BY <1>1, <2>1, <2>8 DEF NoPotree, Execution
    <3>2. run[e].pc \in Later
      BY <3>1 DEF Later, ToolSteps
    <3>3. /\ \A i \in 1..Len(run[e].done) : 3 < i => run[e].done[i] \in ToolSteps
          /\ \A i, k \in 1..Len(run[e].done) : 3 < i /\ i < k =>
                Rank(run[e].done[i]) < Rank(run[e].done[k])
          /\ Len(run[e].done) >= 4 /\ run[e].done[4] = "ply_export"
      BY <1>1, <3>1, <3>2 DEF Reported
    <3>4. \A s \in ToolSteps : Rank(s) < Rank("metadata")
      BY RankFacts
    <3> QED
      BY <3>1, <3>3, <3>4 DEF Reported
  <2> QED
    BY <1>3, <2>3, <2>4, <2>5, <2>6, <2>7, <2>8 DEF Step
<1>4. CASE UNCHANGED run
  BY <1>1, <1>4
<1>5. ASSUME NEW e \in Executions, Begin(e) \/ Step(e) \/ Dies(e)
      PROVE  \A x \in Executions : Reported(run'[x])
  BY <1>1, <1>2, <1>3, <1>5
<1> QED
  BY <1>4, <1>5 DEF Next, Wipe, rvars

\* What is reported when reconstruct returns.
LEMMA ReturnsComplete ==
    ASSUME ReportInv, [Next]_rvars, NEW e \in Executions,
           run[e].pc # "returned", run'[e].pc = "returned"
    PROVE  LET done == run'[e].done
           IN  /\ \A i \in 1..4 : done[i] = Append(Core, "ply_export")[i]
               /\ \A i \in 1..Len(done) : done[i] \in disk'
               /\ \A i, k \in 1..Len(done) : done[i] = done[k] => i = k
<1> DEFINE l == run[e].done
<1>1. run \in [Executions -> Execution] /\ run[e] \in Execution
      /\ Good(run[e], disk) /\ Reported(run[e])
  BY DEF ReportInv, Inv, AllGood, RunTyped
<1>2. Finish(e) /\ run[e].pc = "metadata" /\ "workspace" \in disk
      /\ disk \subseteq disk' /\ run'[e].done = l
  <2>1. ASSUME NEW x \in Executions, Begin(x) \/ Step(x) \/ Dies(x) PROVE Finish(e)
    <3>1. x = e
      BY <1>1, <2>1 DEF Begin, Step, Dies, RaiseError, SkipDone, StepSucceeds, StepMissesInput,
         StepFails, SaveOpens, SaveWrites, Stats, ToolSucceeds, ToolFails, NoPotree, Finish
    <3>2. ~(Begin(e) \/ Dies(e) \/ ToolFails(e) \/ StepMissesInput(e))
      BY EndsAt DEF ReportInv
    <3>3. ~(SkipDone(e) \/ SaveWrites(e))
      <4>1. ASSUME SkipDone(e) \/ SaveWrites(e) PROVE run'[e].pc = After(run[e].pc)
            /\ run[e].pc \in CoreSteps
        BY <1>1, <4>1 DEF SkipDone, AtCore, SaveWrites, Execution, Good
      <4>2. \A s \in CoreSteps : After(s) # "returned"
        BY CoreFacts DEF CoreSteps, Core
      <4> QED
        BY <4>1, <4>2
    <3>4. ~(StepSucceeds(e) \/ SaveOpens(e) \/ \E err \in ColmapErrors : StepFails(e, err))
      BY AttemptsAt DEF ReportInv, CoreSteps, Core
    <3>5. ~ToolSucceeds(e)
      <4>1. ASSUME ToolSucceeds(e) PROVE run'[e].pc = After(run[e].pc) /\ run[e].pc \in ToolSteps
        BY <1>1, <4>1 DEF ToolSucceeds, Execution
      <4>2. \A s \in ToolSteps : After(s) # "returned"
        BY RankFacts DEF ToolSteps
      <4> QED
        BY <4>1, <4>2
    <3>6. ~(Stats(e) \/ NoPotree(e))
      BY <1>1 DEF Stats, NoPotree, RaiseError, Execution
    <3> QED
      BY <2>1, <3>1, <3>2, <3>3, <3>4, <3>5, <3>6 DEF Step
  <2>2. Finish(e)
    <3>1. run' # run
      OBVIOUS
    <3> QED
      BY <2>1, <3>1 DEF Next, Wipe, rvars
  <2> QED
    BY <1>1, <2>2 DEF Finish, RaiseError, Execution
<1>3. "metadata" \in Later
  BY DEF Later
<1>4. /\ \A i \in 1..Len(l) : 3 < i => l[i] \in ToolSteps
      /\ \A i, k \in 1..Len(l) : 3 < i /\ i < k => Rank(l[i]) < Rank(l[k])
      /\ Len(l) >= 4 /\ l[4] = "ply_export"
  BY <1>1, <1>2, <1>3 DEF Reported
<1>5. \A i \in 1..Len(l) : l[i] \in disk'
  <2>1. Live(run[e])
    BY <1>2 DEF Live, Ended
  <2> QED
    BY <1>1, <1>2, <2>1 DEF Good, Present
<1>6. l \in Seq(CoreSteps \cup ToolSteps) /\ \A i \in 1..3 : l[i] = Core[i]
  <2>1. l \in Seq(CoreSteps \cup ToolSteps) /\ Ordered(l)
    BY <1>1 DEF Execution, Good
  <2>2. Len(l) \in Nat
    BY <2>1
  <2> QED
    BY <1>4, <2>1, <2>2 DEF Ordered
<1> HIDE DEF l
<1>7. \A i \in 1..4 : l[i] = Append(Core, "ply_export")[i]
  BY <1>4, <1>6 DEF Core
<1>8. \A i, k \in 1..Len(l) : i < k => l[i] # l[k]
  <2>1. ASSUME NEW i \in 1..Len(l), NEW k \in 1..Len(l), i < k PROVE l[i] # l[k]
    <3>1. Len(l) \in Nat
      BY <1>6
    <3>2. CASE k <= 3
      BY <1>6, <2>1, <3>1, <3>2 DEF Core
    <3>3. CASE i <= 3 /\ 3 < k
      BY <1>4, <1>6, <2>1, <3>1, <3>3 DEF Core, ToolSteps
    <3>4. CASE 3 < i
      <4>1. Rank(l[i]) < Rank(l[k]) /\ Rank(l[i]) \in Nat
        BY <1>4, <2>1, <3>1, <3>4, RankFacts
      <4> QED
        BY <4>1
    <3> QED
      BY <2>1, <3>1, <3>2, <3>3, <3>4
  <2> QED
    BY <2>1
<1>9. \A i, k \in 1..Len(l) : l[i] = l[k] => i = k
  <2>1. Len(l) \in Nat
    BY <1>6
  <2> QED
    BY <1>8, <2>1
<1> QED
  BY <1>2, <1>5, <1>7, <1>9

\* A reconstruction that returns reports the core steps and the PLY export,
\* every step once, and all of it is on disk, whatever failed before, runs
\* beside it, or was removed.
THEOREM ResultsComplete == Spec => ResultComplete
<1>1. Init => \A x \in Executions : Reported(run[x])
  BY DEF Init, Reported, IdleExecution, Later, ToolSteps
<1>2. ReportInv /\ [Next]_rvars => \A x \in Executions : Reported(run'[x])
  BY NextReported
<1>3. ReportInv /\ [Next]_rvars =>
        \A e \in Executions : run[e].pc # "returned" /\ run'[e].pc = "returned" =>
          LET done == run'[e].done
          IN  /\ \A i \in 1..4 : done[i] = Append(Core, "ply_export")[i]
              /\ \A i \in 1..Len(done) : done[i] \in disk'
              /\ \A i, k \in 1..Len(done) : done[i] = done[k] => i = k
  BY ReturnsComplete
<1> DEFINE All == \A x \in Executions : Reported(run[x])
<1>4. Inv /\ All => ReportInv
  BY DEF ReportInv
<1>5. All' <=> \A x \in Executions : Reported(run'[x])
  BY DEF Reported, Later
<1>6. ReportInv => Inv /\ All
  BY DEF ReportInv
<1>7. Init => All
  BY <1>1
<1>8. ReportInv /\ [Next]_rvars => All'
  BY <1>2, <1>5
<1> HIDE DEF All
<1> QED
  BY <1>3, <1>4, <1>6, <1>7, <1>8, InvInvariant, PTL DEF Spec, ResultComplete
-----------------------------------------------------------------------------
(* One execution at a time. *)

Alone == \A e, x \in Executions : Live(run[e]) /\ Live(run[x]) => e = x

\* The checkpoint lists no step that the running execution has not done.
Follows ==
    \A e \in Executions : Live(run[e]) => Len(LoadedSteps(checkpoint)) <= Len(run[e].done)

AloneInv == Inv /\ Alone /\ Follows

LEMMA NextAlone ==
    ASSUME IsFiniteSet(Executions), MaxRunning <= 1, Inv, Alone, [Next]_rvars
    PROVE  Alone'
<1>1. run \in [Executions -> Execution]
  BY DEF Inv, AllGood, RunTyped
<1>2. ASSUME NEW e \in Executions, Begin(e)
      PROVE  \A x \in Executions : x # e => ~Live(run'[x])
  <2> DEFINE running == {x \in Executions : Running(x)}
  <2>1. IsFiniteSet(running)
    BY FS_Subset
  <2>2. Cardinality(running) < MaxRunning
    BY <1>2 DEF Begin, MayBegin
  <2>3. running = {}
    BY <2>1, <2>2, FS_EmptySet, FS_CardinalityType, ReconstructionAssumption
  <2>4. \A x \in Executions : ~Live(run[x])
    BY <2>3 DEF Running, Live
  <2>5. \A x \in Executions : x # e => run'[x] = run[x]
    BY <1>1, <1>2 DEF Begin, RaiseError
  <2> QED
    BY <2>4, <2>5
<1>3. ASSUME NEW e \in Executions, Step(e) \/ Dies(e)
      PROVE  Live(run[e]) /\ \A x \in Executions : x # e => run'[x] = run[x]
  <2>1. run[e] \in Execution /\ Good(run[e], disk)
    BY <1>1 DEF Inv, AllGood
  <2>2. \A x \in Executions : x # e => run'[x] = run[x]
    BY <1>1, <1>3 DEF Step, Dies, RaiseError, SkipDone, StepSucceeds, StepMissesInput,
       StepFails, SaveOpens, SaveWrites, Stats, ToolSucceeds, ToolFails, NoPotree, Finish
  <2>3. Live(run[e])
    BY <1>3, <2>1 DEF Step, Dies, SkipDone, StepSucceeds, StepMissesInput, AtCore, Running,
       StepFails, SaveOpens, SaveWrites, Stats, ToolSucceeds, ToolFails, NoPotree, Finish,
       Good, Live, CoreSteps, Core, ToolSteps, Ended
  <2> QED
    BY <2>2, <2>3
<1>4. CASE run' = run
  BY <1>4 DEF Alone
<1>5. run' = run \/ \E e \in Executions : Begin(e) \/ Step(e) \/ Dies(e)
  BY DEF Next, Wipe, rvars
<1> QED
  BY <1>2, <1>3, <1>4, <1>5 DEF Alone

LEMMA NextFollows ==
    ASSUME AloneInv, Alone', Inv', [Next]_rvars
    PROVE  Follows'
<1>1. /\ Inv /\ run \in [Executions -> Execution]
      /\ LoadedSteps(checkpoint) \in Seq(CoreSteps)
      /\ \A e \in Executions : run[e] \in Execution /\ Good(run[e], disk)
  BY LoadedType DEF AloneInv, Inv, AllGood, RunTyped
<1>2. \A e \in Executions : run'[e].done \in Seq(CoreSteps \cup ToolSteps)
  BY DEF Inv, AllGood, RunTyped, Execution
<1>3. CASE LoadedSteps(checkpoint') = <<>>
  BY <1>2, <1>3 DEF Follows
<1>4. ASSUME NEW e \in Executions, Begin(e), checkpoint' = checkpoint
      PROVE  Live(run'[e]) => run'[e].done = LoadedSteps(checkpoint)
  <2> DEFINE list == LoadedSteps(checkpoint)
             n == [IdleExecution EXCEPT !.pc = Core[1], !.loaded = list, !.done = list]
  <2>1. n.done = list
    BY DEF IdleExecution
  <2>2. RaiseError(e, "other") \/ run' = [run EXCEPT ![e] = n]
    BY <1>4 DEF Begin
  <2> HIDE DEF n
  <2>3. RaiseError(e, "other") => run'[e].pc = "raised"
    BY <1>1 DEF RaiseError, Execution
  <2> QED
    BY <1>1, <2>1, <2>2, <2>3 DEF Live, Ended
<1>5. ASSUME NEW e \in Executions, Step(e) \/ Dies(e), checkpoint' = checkpoint, Live(run'[e])
      PROVE  Len(run'[e].done) >= Len(run[e].done) /\ Live(run[e])
  <2>1. /\ run[e] \in Execution /\ Good(run[e], disk)
        /\ run[e].done \in Seq(CoreSteps \cup ToolSteps)
    BY <1>1 DEF Execution
  <2>2. run'[e].done = run[e].done \/ \E s : run'[e].done = Append(run[e].done, s)
    <3>1. CASE StepSucceeds(e) \/ ToolSucceeds(e)
      <4> DEFINE l == Append(run[e].done, run[e].pc)
                 n == [run[e] EXCEPT !.done = l, !.save = "open"]
                 m == [run[e] EXCEPT !.done = l, !.pc = After(run[e].pc)]
      <4>1. n.done = l /\ m.done = l
        BY <2>1 DEF Execution
      <4>2. run' = [run EXCEPT ![e] = n] \/ run' = [run EXCEPT ![e] = m]
        BY <1>1, <3>1 DEF StepSucceeds, ToolSucceeds
      <4> HIDE DEF n, m
      <4> QED
        BY <1>1, <4>1, <4>2
    <3>2. ASSUME NEW err, RaiseError(e, err) PROVE run'[e].done = run[e].done
      BY <1>1, <2>1, <3>2 DEF RaiseError, Execution
    <3>3. CASE SkipDone(e) \/ NoPotree(e) \/ Dies(e)
      BY <1>1, <2>1, <3>3 DEF SkipDone, NoPotree, Dies, Execution
    <3>4. CASE SaveOpens(e) \/ SaveWrites(e)
      BY <1>1, <2>1, <3>4 DEF SaveOpens, SaveWrites, Execution
    <3>5. CASE Stats(e) \/ Finish(e)
      BY <1>1, <2>1, <3>2, <3>5 DEF Stats, Finish, Execution
    <3>6. CASE StepMissesInput(e) \/ ToolFails(e)
      BY <3>2, <3>6 DEF StepMissesInput, ToolFails
    <3>7. ASSUME NEW err \in ColmapErrors, StepFails(e, err) PROVE run'[e].done = run[e].done
      BY <1>1, <2>1, <3>2, <3>7 DEF StepFails, Execution
    <3> QED
      BY <1>5, <3>1, <3>3, <3>4, <3>5, <3>6, <3>7 DEF Step
  <2>3. Live(run[e])
    BY <1>5, <2>1 DEF Step, Dies, SkipDone, StepSucceeds, StepMissesInput, AtCore, Running,
       StepFails, SaveOpens, SaveWrites, Stats, ToolSucceeds, ToolFails, NoPotree, Finish,
       Good, Live, CoreSteps, Core, ToolSteps, Ended
  <2>4. \A s : Len(Append(run[e].done, s)) = Len(run[e].done) + 1
    BY <2>1
  <2> QED
    BY <2>1, <2>2, <2>3, <2>4
<1>6. ASSUME NEW e \in Executions, Begin(e) \/ Step(e) \/ Dies(e)
      PROVE  \A x \in Executions : x # e => run'[x] = run[x]
  BY <1>1, <1>6 DEF Begin, Step, Dies, RaiseError, SkipDone, StepSucceeds, StepMissesInput,
     StepFails, SaveOpens, SaveWrites, Stats, ToolSucceeds, ToolFails, NoPotree, Finish
<1>7. ASSUME NEW e \in Executions, SaveWrites(e)
      PROVE  Follows'
  <2>1. run[e].done \in Seq(CoreSteps \cup ToolSteps) /\ run'[e].done = run[e].done
    BY <1>1, <1>7 DEF SaveWrites, Execution
  <2>2. CASE checkpoint' = checkpoint
    BY <1>5, <1>6, <1>7, <2>1, <2>2 DEF Follows, AloneInv, Step
  <2>3. CASE checkpoint' # checkpoint
    <3>1. checkpoint' = Overwritten(checkpoint, run[e].done)
      BY <1>7, <2>3 DEF SaveWrites
    <3>2. LoadedSteps(checkpoint') = run[e].done \/ LoadedSteps(checkpoint') = <<>>
      BY <2>1, <3>1 DEF Overwritten, LoadedSteps, Loads
    <3>3. run[e].save # "no" /\ run[e].pc \in CoreSteps
      BY <1>1, <1>7 DEF SaveWrites, Good
    <3>4. run'[e].pc = After(run[e].pc)
      BY <1>1, <1>7 DEF SaveWrites, Execution
    <3>5. Live(run'[e])
      BY <3>3, <3>4 DEF After, CoreSteps, Core, Live, Ended
    <3> QED
      BY <1>2, <1>3, <2>1, <3>2, <3>5 DEF Alone, Follows
  <2> QED
    BY <2>2, <2>3
<1>8. ASSUME NEW e \in Executions, Begin(e) \/ Step(e) \/ Dies(e), checkpoint' = checkpoint
      PROVE  Follows'
  <2>1. \A x \in Executions : run[x].done \in Seq(CoreSteps \cup ToolSteps)
    BY <1>1 DEF Execution
  <2>2. Live(run'[e]) => Len(LoadedSteps(checkpoint)) <= Len(run'[e].done)
    BY <1>1, <1>2, <1>4, <1>5, <1>8, <2>1 DEF Follows, AloneInv
  <2> QED
    BY <1>6, <1>8, <2>2 DEF Follows, AloneInv
<1>9. \/ LoadedSteps(checkpoint') = <<>>
      \/ UNCHANGED <<run, checkpoint>>
      \/ \E e \in Executions : SaveWrites(e)
      \/ checkpoint' = checkpoint /\ \E e \in Executions : Begin(e) \/ Step(e) \/ Dies(e)
  <2>1. LoadedSteps(NoCheckpoint) = <<>>
    BY DEF LoadedSteps, NoCheckpoint, Loads
  <2>2. ASSUME NEW e \in Executions, Begin(e) \/ Step(e) \/ Dies(e)
        PROVE  checkpoint' = checkpoint \/ checkpoint' = NoCheckpoint \/ SaveWrites(e)
    BY <2>2 DEF Begin, Step, Dies, SkipDone, StepSucceeds, StepMissesInput,
       StepFails, SaveOpens, Stats, ToolSucceeds, ToolFails, NoPotree, Finish
  <2> QED
    BY <2>1, <2>2 DEF Next, Wipe, rvars
<1>10. CASE UNCHANGED <<run, checkpoint>>
  BY <1>10 DEF Follows, AloneInv
<1> QED
  BY <1>3, <1>7, <1>8, <1>9, <1>10

\* With one execution at a time no checkpointed step is run again.
THEOREM StepsNotRedone ==
    ASSUME IsFiniteSet(Executions), MaxRunning <= 1
    PROVE  Spec => []NotRedone
<1>1. Init => Alone /\ Follows
  BY DEF Init, Alone, Follows, IdleExecution, Live
<1>2. Inv /\ Alone /\ [Next]_rvars => Alone'
  BY NextAlone
<1>3. AloneInv /\ Alone' /\ Inv' /\ [Next]_rvars => Follows'
  BY NextFollows
<1>4. AloneInv => NotRedone
  <2> SUFFICES ASSUME AloneInv, NEW e \in Executions, AtCore(e), ~InLoaded(e, run[e].pc),
                      NEW i \in 1..Len(LoadedSteps(checkpoint))
               PROVE  LoadedSteps(checkpoint)[i] # run[e].pc
    BY DEF NotRedone
  <2> DEFINE s == run[e].pc
             r == run[e]
             list == LoadedSteps(checkpoint)
  <2>1. r \in Execution /\ Good(r, disk) /\ s \in CoreSteps /\ r.save = "no" /\ list \in Seq(CoreSteps)
    BY LoadedType DEF AloneInv, Inv, AllGood, RunTyped, AtCore
  <2>2. Len(list) <= Len(r.done) /\ Len(list) <= 3 /\ list[i] = Core[i]
    <3>1. Live(r)
      BY <2>1 DEF Live, CoreSteps, Core, Ended
    <3> QED
      BY <3>1 DEF AloneInv, Inv, CheckpointOrdered, Follows
  <2>3. Index(s) \in 1..3 /\ Core[Index(s)] = s
    BY <2>1, CoreFacts
  <2>4. r.loaded \in Seq(CoreSteps) /\ Ordered(r.loaded) /\ Len(r.loaded) <= 3
    BY <2>1 DEF Good, Execution
  <2>5. Len(r.loaded) < Index(s)
    BY <2>1, <2>3, <2>4, LoadedIndex DEF InLoaded
  <2>6. Len(r.done) = Index(s) - 1
    BY <2>1, <2>3, <2>4, <2>5 DEF Good
  <2>7. i < Index(s) /\ i \in 1..3
    BY <2>1, <2>2, <2>3, <2>6
  <2>8. \A j, k \in 1..3 : j < k => Core[j] # Core[k]
    BY DEF Core
  <2> QED
    BY <2>2, <2>3, <2>7, <2>8
<1>5. AloneInv <=> Inv /\ Alone /\ Follows
  BY DEF AloneInv
<1> QED
  BY <1>1, <1>2, <1>3, <1>4, <1>5, InvInvariant, PTL DEF Spec
-----------------------------------------------------------------------------
(* The pipeline around reconstruct. *)

\* Downloading, extracting and filtering leave the workspace alone.
LEMMA ExtractionStutters ==
    ASSUME NEW e \in Executions, Extraction(e)
    PROVE  UNCHANGED rvars
BY DEF Extraction, Downloads, WritesFrame, Extracts, Scores, Sets, Filters, Checks, Raises

\* Every step that run_pipeline takes inside reconstruct is one of its steps,
\* or one of the training that touches only gs_output.
LEMMA ReconstructsSteps ==
    ASSUME NEW e \in Executions, Reconstructs(e)
    PROVE  [Next]_rvars
<1>1. CASE Calls(e)
  BY <1>1 DEF Calls, Next
<1>2. CASE ReadsImages(e)
  <2>1. StepSucceeds(e) \/ \E err \in ColmapErrors : StepFails(e, err)
    BY <1>2 DEF ReadsImages
  <2> QED
    BY <2>1 DEF Step, Next
<1>3. CASE Continues(e)
  <2>1. Step(e)
    BY <1>3 DEF Continues, Step
  <2> QED
    BY <2>1 DEF Next
<1>4. CASE Returns(e)
  BY <1>4 DEF Returns, Step, Next
<1>5. CASE Converts(e) \/ Trains(e) \/ RunsOutOfMemory(e)
  BY <1>5 DEF Converts, Trains, RunsOutOfMemory
<1>6. CASE Picks(e)
  BY <1>6 DEF Picks, Step, Next
<1> QED
  BY <1>1, <1>2, <1>3, <1>4, <1>5, <1>6 DEF Reconstructs

\* Every step of the pipeline is one of reconstruct, or leaves it alone.
LEMMA PipelineSteps == [PipelineNext]_pvars => [Next]_rvars
<1> SUFFICES ASSUME [PipelineNext]_pvars PROVE [Next]_rvars
  OBVIOUS
<1>1. CASE IsWiped
  BY <1>1 DEF IsWiped, Next
<1>2. ASSUME NEW e \in Executions, Extraction(e) PROVE [Next]_rvars
  BY <1>2, ExtractionStutters
<1>3. ASSUME NEW e \in Executions, Reconstructs(e) PROVE [Next]_rvars
  BY <1>3, ReconstructsSteps
<1>4. ASSUME NEW e \in Executions, IsKilled(e) PROVE [Next]_rvars
  BY <1>4 DEF IsKilled, Next
<1>5. CASE UNCHANGED pvars
  BY <1>5 DEF pvars
<1> QED
  BY <1>1, <1>2, <1>3, <1>4, <1>5 DEF PipelineNext

\* The pipeline implements Reconstruction: every step of a job, whatever was
\* extracted, trained, killed or removed, is a step of reconstruct or leaves
\* its workspace alone.
THEOREM PipelineImplements == PipelineSpec => Spec
<1>1. PipelineInit => Init
  BY DEF PipelineInit
<1> QED
  BY <1>1, PipelineSteps, PTL DEF PipelineSpec, Spec

\* A checkpoint read in the pipeline lists a prefix of the core steps, as
\* reconstruct relies on when it skips them.
THEOREM PipelineCheckpointsOrdered == PipelineSpec => []CheckpointOrdered
BY PipelineImplements, CheckpointsOrdered, PTL

\* A checkpoint read in the pipeline promises only what is on disk, whenever
\* the job directory is removed.
THEOREM PipelineCheckpointsSound == PipelineSpec => []CheckpointSound
BY PipelineImplements, CheckpointsSound, PTL

\* When reconstruct returns inside the pipeline, what it reports is complete
\* and on disk.
THEOREM PipelineResultsComplete == PipelineSpec => ResultComplete
BY PipelineImplements, ResultsComplete, PTL

\* When one execution of a job runs at a time, no step a checkpoint lists is
\* run again in the pipeline, whatever was killed, retried or removed.
THEOREM PipelineNotRedone ==
    ASSUME IsFiniteSet(Executions), MaxRunning <= 1
    PROVE  PipelineSpec => []NotRedone
BY PipelineImplements, StepsNotRedone, PTL
-----------------------------------------------------------------------------
(* One execution of a job at a time: what its result says *)

\* The types of what the pipeline adds; no blurry frame gets into the features.
PipelineTypes ==
    /\ stage \in [Executions -> Stages]
    /\ taken \in [Executions -> SUBSET Frames]
    /\ extraction \in [made : BOOLEAN, frames : SUBSET Frames, filtered : SUBSET Frames]
    /\ features \subseteq Frames \ Blurry
    /\ splat \in [Executions -> [pc : {"convert", "train", "retrain", "pick"}, iterations : Nat]]
    /\ DOMAIN report = Executions

\* reconstruct only runs in its stage.
StagesApart == \A e \in Executions : stage[e] # "reconstruct" => run[e].pc = "idle"

\* One execution is under way at most.
Sole == \A e, x \in Executions : Busy(e) /\ Busy(x) => e = x

\* The job directory holds something only while there is a workspace.
WorkspaceHolds == disk = {} \/ "workspace" \in disk

\* What an execution that has read all frames knows of the directory: as long
\* as nobody removed it, it holds the frames that are not blurry, and once the
\* blurry ones are moved no others; the features come from there.
ImagesInv ==
    /\ extraction.made \/ extraction.frames = {}
    /\ "frames" \in disk => extraction.made
    /\ "feature_extraction" \in disk => features = Frames \ Blurry
ImagesOf(e) ==
    /\ stage[e] \in {"score", "move", "check", "reconstruct"} => taken[e] = Frames
    /\ Busy(e) /\ stage[e] \in {"score", "move"} /\ extraction.made =>
          Frames \ Blurry \subseteq extraction.frames
    /\ Busy(e) /\ stage[e] \in {"check", "reconstruct"} /\ extraction.made =>
          extraction.frames = Frames \ Blurry

\* The newest file of gs_output is that of the training that has just ended,
\* and so is the copy, unless the directory was removed.
SplatOf(e) ==
    /\ splat[e].pc # "convert" =>
          run[e].pc \in {"gaussian_splatting", "potree_conversion", "metadata"} \cup Ended
    /\ Splatting /\ "workspace" \in disk =>
          /\ run[e].pc \in {"potree_conversion", "metadata"} => output.copy = splat[e].iterations
          /\ run[e].pc = "gaussian_splatting" /\ splat[e].pc = "pick" =>
                output.newest = splat[e].iterations

\* What the execution that returns reports is what it has found.
ReportOf(e) ==
    run[e].pc = "returned" =>
        /\ report[e].images = Frames \ Blurry
        /\ report[e].total = Cardinality(Frames)
        /\ report[e].filtered = Cardinality(Blurry)
        /\ Splatting => report[e].copy = report[e].iterations

PipelineInv ==
    /\ Inv /\ PipelineTypes /\ StagesApart /\ Sole /\ WorkspaceHolds /\ ImagesInv
    /\ \A e \in Executions : ImagesOf(e) /\ SplatOf(e) /\ ReportOf(e)

\* The steps of reconstruct move one execution, which has begun.
LEMMA StepMoves ==
    ASSUME Inv, NEW e \in Executions, Begin(e) \/ Step(e) \/ Dies(e)
    PROVE  /\ \A x \in Executions : x # e => run'[x] = run[x]
           /\ run[e].pc \notin Ended
<1>1. run \in [Executions -> Execution] /\ run[e] \in Execution /\ Good(run[e], disk)
  BY DEF Inv, AllGood, RunTyped
<1>2. \A x \in Executions : x # e => run'[x] = run[x]
  BY <1>1 DEF Begin, Step, Dies, RaiseError, SkipDone, StepSucceeds, StepMissesInput,
     StepFails, SaveOpens, SaveWrites, Stats, ToolSucceeds, ToolFails, NoPotree, Finish
<1>3. run[e].pc \notin Ended
  BY <1>1 DEF Begin, Step, Dies, SkipDone, StepSucceeds, StepMissesInput, AtCore, Running,
     StepFails, SaveOpens, SaveWrites, Stats, ToolSucceeds, ToolFails, NoPotree, Finish,
     Good, CoreSteps, Core, ToolSteps, Ended
<1> QED
  BY <1>2, <1>3

\* A step of run_pipeline that is one of reconstruct.
LEMMA PipelineMoves ==
    ASSUME NEW e \in Executions
    PROVE  /\ Calls(e) => Begin(e)
           /\ ReadsImages(e) \/ Continues(e) \/ Returns(e) \/ Picks(e) => Step(e)
BY DEF Calls, ReadsImages, Continues, Returns, Picks, Step

\* A step of one execution leaves the others where they are; it had begun, or
\* it begins and nobody else is under way.
LEMMA OthersStay ==
    ASSUME IsFiniteSet(Executions), MaxRunning <= 1, PipelineInv, NEW e \in Executions,
           Extraction(e) \/ Reconstructs(e) \/ IsKilled(e)
    PROVE  /\ \A x \in Executions \ {e} :
                 /\ stage'[x] = stage[x] /\ run'[x] = run[x] /\ taken'[x] = taken[x]
                 /\ splat'[x] = splat[x] /\ report'[x] = report[x]
           /\ \A x \in Executions \ {e} : ~Busy(x)
           /\ Busy(e) \/ Downloads(e)
<1> USE DEF rvars, extras, Moves
<1>1. /\ run \in [Executions -> Execution]
      /\ stage \in [Executions -> Stages] /\ DOMAIN taken = Executions
      /\ DOMAIN splat = Executions /\ DOMAIN report = Executions
  BY DEF PipelineInv, PipelineTypes, Inv, AllGood, RunTyped
<1>2. CASE Extraction(e)
  <2>1. /\ UNCHANGED <<run, splat, report>>
        /\ \A x \in Executions \ {e} : stage'[x] = stage[x] /\ taken'[x] = taken[x]
    BY <1>1, <1>2 DEF Extraction, Downloads, WritesFrame, Extracts, Scores, Sets, Filters, Checks, Raises
  <2>2. CASE Downloads(e)
    <3> DEFINE B == {x \in Executions : Busy(x)}
    <3>1. IsFiniteSet(B) /\ Cardinality(B) < MaxRunning
      BY <2>2, FS_Subset DEF Downloads
    <3> HIDE DEF B
    <3>2. B = {}
      BY <3>1, FS_EmptySet, FS_CardinalityType, ReconstructionAssumption
    <3> QED
      BY <2>1, <2>2, <3>2 DEF B
  <2>3. CASE ~Downloads(e)
    <3>1. stage[e] \in {"extract", "score", "move", "check"}
      BY <1>2, <2>3 DEF Extraction, WritesFrame, Extracts, Scores, Sets, Filters, Checks, Raises, TooFew
    <3>2. Busy(e)
      BY <3>1 DEF Busy, PipelineInv, StagesApart, Ended
    <3> QED
      BY <2>1, <3>2 DEF PipelineInv, Sole
  <2> QED
    BY <2>2, <2>3
<1>3. CASE Reconstructs(e)
  <2>1. stage[e] = "reconstruct" /\ stage' = stage /\ taken' = taken
    BY <1>3 DEF Reconstructs, Calls, ReadsImages, Continues, Returns, Converts, Trains,
       RunsOutOfMemory, Picks, At, Training
  <2>2. \A x \in Executions \ {e} : splat'[x] = splat[x] /\ report'[x] = report[x]
    BY <1>1, <1>3 DEF Reconstructs, Calls, ReadsImages, Continues, Returns, Converts, Trains,
       RunsOutOfMemory, Picks
  <2>3. CASE Begin(e) \/ Step(e)
    BY <2>1, <2>2, <2>3, StepMoves DEF PipelineInv, Sole, Busy
  <2>4. CASE ~(Begin(e) \/ Step(e))
    <3>1. run' = run /\ run[e].pc = "gaussian_splatting"
      BY <1>3, <2>4, PipelineMoves DEF Reconstructs, Converts, Trains, RunsOutOfMemory, Training, At
    <3> QED
      BY <2>1, <2>2, <3>1 DEF PipelineInv, Sole, Busy, Ended
  <2> QED
    BY <2>3, <2>4
<1>4. CASE IsKilled(e)
  <2>1. CASE stage[e] = "reconstruct" /\ Dies(e) /\ UNCHANGED extras
    BY <2>1, StepMoves DEF PipelineInv, Sole, Busy
  <2>2. CASE ~(stage[e] = "reconstruct" /\ Dies(e) /\ UNCHANGED extras)
    <3>1. /\ stage[e] \in {"extract", "score", "move", "check"}
          /\ stage' = [stage EXCEPT ![e] = "over"] /\ UNCHANGED <<run, taken, splat, report>>
      BY <1>4, <2>2 DEF IsKilled
    <3>2. Busy(e)
      BY <3>1 DEF Busy, PipelineInv, StagesApart, Ended
    <3> QED
      BY <1>1, <3>1, <3>2 DEF PipelineInv, Sole
  <2> QED
    BY <2>1, <2>2
<1> QED
  BY <1>2, <1>3, <1>4

\* Where the steps of reconstruct that Continues takes lead to.
NextPc(e) ==
    \/ run[e].pc \in CoreSteps /\ run'[e].pc \in {run[e].pc, After(run[e].pc)}
    \/ run[e].pc = "stats" /\ run'[e].pc = "ply_export"
    \/ run[e].pc \in ToolSteps \ {"gaussian_splatting"} /\ run'[e].pc = After(run[e].pc)
    \/ run[e].pc = "potree_conversion" /\ run'[e].pc = "metadata"
    \/ run'[e].pc = "raised"

\* Of those only the attempts at a step change the directory, which they do
\* not begin with nothing in it.
LEMMA ContinuesFacts ==
    ASSUME Inv, NEW e \in Executions, Continues(e)
    PROVE  /\ NextPc(e)
           /\ disk \subseteq disk'
           /\ \A f \in {"frames", "workspace", "feature_extraction"} : f \in disk' => f \in disk
           /\ disk = {} => disk' = {}
<1>1. run \in [Executions -> Execution] /\ run[e] \in Execution /\ Good(run[e], disk)
  BY DEF Inv, AllGood, RunTyped
<1>2. run[e].save # "no" => run[e].pc \in CoreSteps
  BY <1>1 DEF Good
<1>3. CASE SkipDone(e) \/ StepMissesInput(e) \/ SaveOpens(e) \/ SaveWrites(e) \/ Stats(e)
           \/ ToolFails(e) \/ NoPotree(e)
  <2>1. disk' = disk
    BY <1>3 DEF SkipDone, StepMissesInput, SaveOpens, SaveWrites, Stats, ToolFails, NoPotree
  <2>2. run[e].save \in {"no", "open", "write"}
    BY <1>1 DEF Execution
  <2>3. NextPc(e)
    BY <1>1, <1>2, <1>3, <2>2 DEF SkipDone, AtCore, StepMissesInput, SaveOpens, SaveWrites, Stats,
       ToolFails, NoPotree, RaiseError, NextPc, Execution
  <2> QED
    BY <2>1, <2>3
<1>4. CASE /\ run[e].pc # "feature_extraction"
           /\ StepSucceeds(e) \/ \E err \in ColmapErrors : StepFails(e, err)
  <2>1. run[e].pc \in {"exhaustive_matching", "sparse_reconstruction"} /\ Needs(run[e].pc) \subseteq disk
    BY <1>4 DEF StepSucceeds, StepFails, AtCore, CoreSteps, Core
  <2>2. Makes(run[e].pc) = {run[e].pc} /\ disk # {}
    BY <2>1 DEF Makes, Needs
  <2>3. disk' \in {disk, disk \cup {run[e].pc}}
    BY <1>4, <2>2 DEF StepSucceeds, StepFails
  <2>4. run'[e].pc \in {run[e].pc, "raised"}
    BY <1>1, <1>4 DEF StepSucceeds, StepFails, RaiseError, Execution
  <2>5. run[e].pc \in CoreSteps
    BY <2>1 DEF CoreSteps, Core
  <2> QED
    BY <2>1, <2>2, <2>3, <2>4, <2>5 DEF NextPc
<1>5. CASE run[e].pc # "gaussian_splatting" /\ ToolSucceeds(e)
  <2>1. run[e].pc \in ToolSteps \ {"gaussian_splatting"} /\ Needs(run[e].pc) \subseteq disk
        /\ run'[e].pc = After(run[e].pc)
    BY <1>1, <1>5 DEF ToolSucceeds, Execution
  <2>2. Makes(run[e].pc) = {run[e].pc} /\ disk # {}
    BY <2>1 DEF Makes, Needs, ToolSteps
  <2>3. disk' = disk \cup {run[e].pc}
    BY <1>5, <2>2 DEF ToolSucceeds
  <2> QED
    BY <2>1, <2>2, <2>3 DEF NextPc, ToolSteps
<1> QED
  BY <1>3, <1>4, <1>5 DEF Continues

\* The beginning finds two images, or raises.
LEMMA CallsFacts ==
    ASSUME Inv, NEW e \in Executions, Calls(e)
    PROVE  /\ run[e].pc = "idle" /\ run'[e].pc \in {"feature_extraction", "raised"}
           /\ disk' \in {disk, disk \cup {"frames", "workspace"}}
           /\ "frames" \in disk' => extraction.made \/ "frames" \in disk
           /\ UNCHANGED extras
<1>1. run \in [Executions -> Execution] /\ run[e] \in Execution
  BY DEF Inv, AllGood, RunTyped
<1>2. run[e].pc = "idle" /\ Begin(e) /\ UNCHANGED extras
      /\ ("frames" \in disk' => extraction.made \/ "frames" \in disk)
  BY DEF Calls, At
<1>3. disk' \in {disk, disk \cup {"frames", "workspace"}}
  BY <1>2 DEF Begin
<1>4. run'[e].pc \in {"feature_extraction", "raised"}
  <2>1. CASE RaiseError(e, "other")
    BY <1>1, <2>1 DEF RaiseError, Execution
  <2>2. CASE run' = [run EXCEPT ![e] = [IdleExecution EXCEPT !.pc = Core[1],
                        !.loaded = LoadedSteps(checkpoint), !.done = LoadedSteps(checkpoint)]]
    BY <1>1, <2>2 DEF IdleExecution, Core
  <2> QED
    BY <1>2, <2>1, <2>2 DEF Begin
<1> QED
  BY <1>2, <1>3, <1>4

\* The feature extraction takes the images that are in frames/.
LEMMA ReadsFacts ==
    ASSUME Inv, NEW e \in Executions, ReadsImages(e)
    PROVE  /\ run[e].pc = "feature_extraction" /\ run'[e].pc \in {"feature_extraction", "raised"}
           /\ "frames" \in disk
           /\ \/ disk' \in {disk, disk \cup {"database"}}
                 /\ features' \in {features, features \cup extraction.frames}
              \/ /\ disk' = disk \cup {"feature_extraction", "database"}
                 /\ features' = features \cup extraction.frames
<1>1. run \in [Executions -> Execution] /\ run[e] \in Execution
  BY DEF Inv, AllGood, RunTyped
<1>2. run[e].pc = "feature_extraction"
  BY DEF ReadsImages, At
<1>3. Needs("feature_extraction") = {"frames"}
      /\ Makes("feature_extraction") = {"feature_extraction", "database"}
  BY DEF Needs, Makes
<1>4. CASE StepSucceeds(e) /\ features' = features \cup extraction.frames
  BY <1>1, <1>2, <1>3, <1>4 DEF StepSucceeds, Execution
<1>5. ASSUME NEW err \in ColmapErrors, StepFails(e, err),
             features' \in {features, features \cup extraction.frames}
      PROVE  /\ run'[e].pc \in {"feature_extraction", "raised"} /\ "frames" \in disk
             /\ disk' \in {disk, disk \cup {"database"}}
  BY <1>1, <1>2, <1>3, <1>5 DEF StepFails, RaiseError, Execution
<1> QED
  BY <1>2, <1>4, <1>5 DEF ReadsImages

\* The return needs the workspace to be there.
LEMMA ReturnsFacts ==
    ASSUME Inv, NEW e \in Executions, Returns(e)
    PROVE  /\ run[e].pc = "metadata" /\ run'[e].pc \in {"returned", "raised"}
           /\ disk' \in {disk, disk \cup {"metadata"}}
           /\ disk = {} => disk' = {}
           /\ run'[e].pc = "returned" => "workspace" \in disk
BY DEF Returns, Finish, RaiseError, Inv, AllGood, RunTyped, Execution

\* The training is a step of reconstruct, which ends with Picks.
LEMMA TrainingFacts ==
    ASSUME Inv, NEW e \in Executions, Converts(e) \/ Trains(e) \/ RunsOutOfMemory(e) \/ Picks(e)
    PROVE  /\ run[e].pc = "gaussian_splatting"
           /\ Picks(e) => /\ run'[e].pc = "potree_conversion"
                          /\ disk' = disk \cup {"gaussian_splatting"} /\ disk # {}
           /\ ~Picks(e) => UNCHANGED rvars
<1>1. run[e].pc = "gaussian_splatting"
  BY DEF Converts, Trains, RunsOutOfMemory, Picks, Training, At
<1>2. Needs("gaussian_splatting") = {"sparse_reconstruction"}
      /\ Makes("gaussian_splatting") = {"gaussian_splatting"}
      /\ After("gaussian_splatting") = "potree_conversion"
  BY DEF Needs, Makes, After, OptionalFrom
<1>3. CASE Picks(e)
  <2>1. run \in [Executions -> Execution] /\ run[e] \in Execution
    BY DEF Inv, AllGood, RunTyped
  <2>2. ToolSucceeds(e)
    BY <1>3 DEF Picks
  <2>3. disk' = disk \cup {"gaussian_splatting"} /\ disk # {}
    BY <1>1, <1>2, <2>2 DEF ToolSucceeds
  <2>4. run'[e].pc = "potree_conversion"
    BY <1>1, <1>2, <2>1, <2>2 DEF ToolSucceeds, Execution
  <2> QED
    BY <1>1, <1>3, <2>3, <2>4
<1>4. ASSUME ~Picks(e) PROVE UNCHANGED rvars
  BY <1>4 DEF Converts, Trains, RunsOutOfMemory
<1> QED
  BY <1>1, <1>3, <1>4

\* What is claimed of the executions that do not move, and that one is alone,
\* survives a step of e.
LEMMA OthersHold ==
    ASSUME IsFiniteSet(Executions), MaxRunning <= 1, PipelineInv, NEW e \in Executions,
           Extraction(e) \/ Reconstructs(e) \/ IsKilled(e)
    PROVE  /\ \A x \in Executions \ {e} : ImagesOf(x)' /\ SplatOf(x)' /\ ReportOf(x)'
           /\ Sole'
<1>1. \A x \in Executions \ {e} :
         /\ stage'[x] = stage[x] /\ run'[x] = run[x] /\ taken'[x] = taken[x]
         /\ splat'[x] = splat[x] /\ report'[x] = report[x] /\ ~Busy(x)
  BY OthersStay
<1>2. \A x \in Executions \ {e} : ~Busy(x)'
  BY <1>1 DEF Busy
<1>3. ASSUME NEW x \in Executions \ {e} PROVE ImagesOf(x)'
  BY <1>1, <1>2 DEF PipelineInv, ImagesOf
<1>4. ASSUME NEW x \in Executions \ {e} PROVE SplatOf(x)'
  <2>1. run[x].pc \notin {"gaussian_splatting", "potree_conversion", "metadata"}
    BY <1>1 DEF Busy, PipelineInv, StagesApart, Ended
  <2> QED
    BY <1>1, <2>1 DEF PipelineInv, SplatOf
<1>5. ASSUME NEW x \in Executions \ {e} PROVE ReportOf(x)'
  BY <1>1 DEF PipelineInv, ReportOf
<1>6. Sole'
  BY <1>2 DEF Sole
<1> QED
  BY <1>3, <1>4, <1>5, <1>6

\* The extraction.
LEMMA ExtractionHolds ==
    ASSUME IsFiniteSet(Executions), MaxRunning <= 1, PipelineInv,
           NEW e \in Executions, Extraction(e)
    PROVE  /\ PipelineTypes' /\ StagesApart' /\ WorkspaceHolds' /\ ImagesInv'
           /\ ImagesOf(e)' /\ SplatOf(e)' /\ ReportOf(e)'
<1> USE DEF rvars, extras, Moves
<1>1. UNCHANGED <<rvars, features, splat, output, report>>
  BY DEF Extraction, Downloads, WritesFrame, Extracts, Scores, Sets, Filters, Checks, Raises
<1>2. /\ stage \in [Executions -> Stages] /\ taken \in [Executions -> SUBSET Frames]
      /\ extraction \in [made : BOOLEAN, frames : SUBSET Frames, filtered : SUBSET Frames]
      /\ extraction.frames \subseteq Frames /\ taken[e] \subseteq Frames
  BY DEF PipelineInv, PipelineTypes
<1>3. stage[e] \in {"idle", "extract", "score", "move", "check"} /\ run[e].pc = "idle"
  <2>1. stage[e] \in {"idle", "extract", "score", "move", "check"}
    BY DEF Extraction, Downloads, WritesFrame, Extracts, Scores, Sets, Filters, Checks, Raises, TooFew
  <2> QED
    BY <2>1 DEF PipelineInv, StagesApart
<1>4. WorkspaceHolds' /\ SplatOf(e)' /\ ReportOf(e)'
  <2>1. SplatOf(e)' /\ ReportOf(e)'
    BY <1>1 DEF PipelineInv, SplatOf, ReportOf
  <2> QED
    BY <1>1, <2>1 DEF PipelineInv, WorkspaceHolds
<1>5. StagesApart'
  <2>1. \A x \in Executions : x # e => stage'[x] = stage[x]
    BY OthersStay
  <2> QED
    BY <1>1, <1>3, <2>1 DEF PipelineInv, StagesApart
<1>6. /\ stage' \in [Executions -> Stages] /\ taken' \in [Executions -> SUBSET Frames]
      /\ extraction' \in [made : BOOLEAN, frames : SUBSET Frames, filtered : SUBSET Frames]
  <2>1. CASE Downloads(e)
    BY <1>2, <2>1 DEF Downloads, Stages
  <2>2. ASSUME NEW f \in Frames, WritesFrame(e, f) \/ Sets(e, f)
        PROVE  /\ stage' \in [Executions -> Stages] /\ taken' \in [Executions -> SUBSET Frames]
               /\ extraction' \in [made : BOOLEAN, frames : SUBSET Frames, filtered : SUBSET Frames]
    BY <1>2, <2>2 DEF WritesFrame, Sets
  <2>3. CASE Extracts(e)
    BY <1>2, <2>3 DEF Extracts, Stages
  <2>4. CASE Scores(e) \/ Filters(e) \/ Checks(e) \/ Raises(e)
    BY <1>2, <2>4 DEF Scores, Filters, Checks, Raises, Stages
  <2> QED
    BY <2>1, <2>2, <2>3, <2>4 DEF Extraction
<1>7. PipelineTypes'
  BY <1>1, <1>6 DEF PipelineInv, PipelineTypes
<1>8. ImagesInv'
  <2>1. extraction.made => extraction'.made
    BY <1>2 DEF Extraction, Downloads, WritesFrame, Extracts, Scores, Sets, Filters, Checks, Raises
  <2>2. extraction'.made \/ extraction'.frames = {}
    <3>1. CASE Downloads(e)
      BY <1>2, <3>1 DEF Downloads
    <3>2. ASSUME NEW f \in Frames, WritesFrame(e, f) \/ Sets(e, f)
          PROVE  extraction'.made \/ extraction'.frames = {}
      BY <1>2, <3>2 DEF WritesFrame, Sets, PipelineInv, ImagesInv
    <3>3. CASE Extracts(e) \/ Scores(e) \/ Filters(e) \/ Checks(e) \/ Raises(e)
      BY <3>3 DEF Extracts, Scores, Filters, Checks, Raises, PipelineInv, ImagesInv
    <3> QED
      BY <3>1, <3>2, <3>3 DEF Extraction
  <2> QED
    BY <1>1, <2>1, <2>2 DEF PipelineInv, ImagesInv
<1>9. ImagesOf(e)'
  <2>0. ImagesOf(e) /\ run[e].pc \notin Ended
    BY <1>3 DEF PipelineInv, Ended
  <2>1. CASE Downloads(e)
    <3>1. stage'[e] = "extract"
      BY <1>2, <2>1 DEF Downloads
    <3> QED
      BY <3>1 DEF ImagesOf
  <2>2. ASSUME NEW f \in Frames, WritesFrame(e, f) PROVE ImagesOf(e)'
    <3>1. stage'[e] = "extract"
      BY <1>2, <2>2 DEF WritesFrame
    <3> QED
      BY <3>1 DEF ImagesOf
  <2>3. CASE Extracts(e)
    <3>1. stage'[e] = "score" /\ taken'[e] = Frames /\ extraction' = extraction
          /\ Frames \ Blurry \subseteq extraction.frames
      BY <1>2, <2>3 DEF Extracts
    <3> QED
      BY <3>1 DEF ImagesOf
  <2>4. CASE Scores(e)
    <3>1. stage[e] = "score" /\ stage'[e] = "move" /\ taken' = taken /\ extraction' = extraction
      BY <1>2, <2>4 DEF Scores
    <3> QED
      BY <2>0, <3>1 DEF ImagesOf, Busy
  <2>5. ASSUME NEW f \in Frames, Sets(e, f) PROVE ImagesOf(e)'
    <3>1. stage[e] = "move" /\ stage' = stage /\ taken' = taken
          /\ extraction'.made = extraction.made /\ extraction'.frames = extraction.frames \ {f}
          /\ f \in Blurry
      BY <1>2, <2>5 DEF Sets
    <3> QED
      BY <2>0, <3>1 DEF ImagesOf, Busy
  <2>6. CASE Filters(e)
    <3>1. stage[e] = "move" /\ stage'[e] = "check" /\ taken' = taken /\ extraction' = extraction
          /\ extraction.made /\ taken[e] \cap Blurry \cap extraction.frames = {}
      BY <1>2, <2>6 DEF Filters
    <3>2. taken[e] = Frames /\ Frames \ Blurry \subseteq extraction.frames
      BY <2>0, <3>1 DEF ImagesOf, Busy
    <3>3. extraction.frames = Frames \ Blurry
      BY <1>2, <3>1, <3>2
    <3> QED
      BY <3>1, <3>2, <3>3 DEF ImagesOf
  <2>7. CASE Checks(e)
    <3>1. stage[e] = "check" /\ stage'[e] = "reconstruct" /\ taken' = taken /\ extraction' = extraction
      BY <1>2, <2>7 DEF Checks
    <3> QED
      BY <2>0, <3>1 DEF ImagesOf, Busy
  <2>8. CASE Raises(e)
    <3>1. stage'[e] = "over"
      BY <1>2, <2>8 DEF Raises
    <3> QED
      BY <3>1 DEF ImagesOf
  <2> QED
    BY <2>1, <2>2, <2>3, <2>4, <2>5, <2>6, <2>7, <2>8 DEF Extraction
<1> QED
  BY <1>4, <1>5, <1>7, <1>8, <1>9

\* A step of e whose effect on the directory is known keeps the invariant of
\* the images, while the extraction is left alone.
LEMMA ImagesHold ==
    ASSUME PipelineInv, NEW e \in Executions, UNCHANGED <<stage, taken, extraction>>,
           "frames" \in disk' => extraction.made \/ "frames" \in disk,
           "feature_extraction" \in disk' => features' = Frames \ Blurry,
           Busy(e)
    PROVE  ImagesInv' /\ ImagesOf(e)'
<1>1. ImagesInv'
  BY DEF PipelineInv, ImagesInv
<1>2. ImagesOf(e)'
  BY DEF PipelineInv, ImagesOf, Busy
<1> QED
  BY <1>1, <1>2

\* reconstruct begins.
LEMMA CallsHolds ==
    ASSUME PipelineInv, NEW e \in Executions, Calls(e), Busy(e)
    PROVE  /\ PipelineTypes' /\ StagesApart' /\ WorkspaceHolds' /\ ImagesInv'
           /\ ImagesOf(e)' /\ SplatOf(e)' /\ ReportOf(e)'
<1> USE DEF extras
<1>1. /\ run[e].pc = "idle" /\ run'[e].pc \in {"feature_extraction", "raised"}
      /\ disk' \in {disk, disk \cup {"frames", "workspace"}}
      /\ "frames" \in disk' => extraction.made \/ "frames" \in disk
      /\ UNCHANGED extras
  BY CallsFacts DEF PipelineInv
<1>2. stage[e] = "reconstruct" /\ \A x \in Executions : x # e => run'[x] = run[x]
  BY StepMoves DEF Calls, At, PipelineInv
<1>3. PipelineTypes' /\ StagesApart' /\ WorkspaceHolds'
  BY <1>1, <1>2 DEF PipelineInv, PipelineTypes, StagesApart, WorkspaceHolds
<1>4. ImagesInv' /\ ImagesOf(e)'
  <2>1. "feature_extraction" \in disk' => features' = Frames \ Blurry
    BY <1>1 DEF PipelineInv, ImagesInv
  <2> QED
    BY <1>1, <2>1, ImagesHold
<1>5. SplatOf(e)' /\ ReportOf(e)'
  BY <1>1 DEF PipelineInv, SplatOf, ReportOf, Ended
<1> QED
  BY <1>3, <1>4, <1>5

\* The features are read, from the frames that are left.
LEMMA ReadsHolds ==
    ASSUME PipelineInv, NEW e \in Executions, ReadsImages(e), Busy(e)
    PROVE  /\ PipelineTypes' /\ StagesApart' /\ WorkspaceHolds' /\ ImagesInv'
           /\ ImagesOf(e)' /\ SplatOf(e)' /\ ReportOf(e)'
<1>1. /\ run[e].pc = "feature_extraction" /\ run'[e].pc \in {"feature_extraction", "raised"}
      /\ "frames" \in disk
      /\ \/ disk' \in {disk, disk \cup {"database"}}
            /\ features' \in {features, features \cup extraction.frames}
         \/ /\ disk' = disk \cup {"feature_extraction", "database"}
            /\ features' = features \cup extraction.frames
  BY ReadsFacts DEF PipelineInv
<1>2. /\ stage[e] = "reconstruct" /\ UNCHANGED <<stage, taken, extraction, splat, output, report>>
      /\ \A x \in Executions : x # e => run'[x] = run[x]
  BY StepMoves, PipelineMoves DEF ReadsImages, At, PipelineInv
<1>3. extraction.frames = Frames \ Blurry /\ features \subseteq Frames \ Blurry
  BY <1>1, <1>2 DEF PipelineInv, ImagesInv, ImagesOf, PipelineTypes
<1>4. features' \subseteq Frames \ Blurry
      /\ ("feature_extraction" \in disk' => features' = Frames \ Blurry)
  BY <1>1, <1>3 DEF PipelineInv, ImagesInv
<1>5. PipelineTypes' /\ StagesApart' /\ WorkspaceHolds'
  <2>1. PipelineTypes'
    BY <1>2, <1>4 DEF PipelineInv, PipelineTypes
  <2>2. StagesApart'
    BY <1>2 DEF PipelineInv, StagesApart
  <2>3. WorkspaceHolds'
    BY <1>1 DEF PipelineInv, WorkspaceHolds
  <2> QED
    BY <2>1, <2>2, <2>3
<1>6. ImagesInv' /\ ImagesOf(e)'
  BY <1>1, <1>2, <1>4, ImagesHold
<1>7. SplatOf(e)' /\ ReportOf(e)'
  BY <1>1, <1>2 DEF PipelineInv, SplatOf, ReportOf, Ended
<1> QED
  BY <1>5, <1>6, <1>7

\* The other steps of reconstruct up to the training and after it.
LEMMA ContinuesHolds ==
    ASSUME PipelineInv, NEW e \in Executions, Continues(e), Busy(e)
    PROVE  /\ PipelineTypes' /\ StagesApart' /\ WorkspaceHolds' /\ ImagesInv'
           /\ ImagesOf(e)' /\ SplatOf(e)' /\ ReportOf(e)'
<1> USE DEF extras
<1>1. /\ NextPc(e) /\ disk \subseteq disk'
      /\ \A f \in {"frames", "workspace", "feature_extraction"} : f \in disk' => f \in disk
      /\ disk = {} => disk' = {}
  BY ContinuesFacts DEF PipelineInv
<1>2. /\ stage[e] = "reconstruct" /\ UNCHANGED extras
      /\ \A x \in Executions : x # e => run'[x] = run[x]
  BY StepMoves, PipelineMoves DEF Continues, PipelineInv
<1>3. PipelineTypes' /\ StagesApart' /\ WorkspaceHolds'
  <2>1. PipelineTypes' /\ StagesApart'
    BY <1>2 DEF PipelineInv, PipelineTypes, StagesApart
  <2>2. WorkspaceHolds'
    BY <1>1 DEF PipelineInv, WorkspaceHolds
  <2> QED
    BY <2>1, <2>2
<1>4. ImagesInv' /\ ImagesOf(e)'
  <2>1. "frames" \in disk' => extraction.made \/ "frames" \in disk
    BY <1>1
  <2>2. "feature_extraction" \in disk' => features' = Frames \ Blurry
    BY <1>1, <1>2 DEF PipelineInv, ImagesInv
  <2> QED
    BY <1>2, <2>1, <2>2, ImagesHold
<1>5. /\ run'[e].pc \notin {"returned", "dead"}
      /\ run'[e].pc \in {"potree_conversion", "metadata"} =>
            run[e].pc = "potree_conversion" \/ ~Splatting
      /\ run[e].pc # "gaussian_splatting"
         \/ run'[e].pc = "raised"
      /\ run[e].pc \in {"potree_conversion", "metadata"} => run'[e].pc \in {"metadata", "raised"}
  <2>1. CASE run[e].pc \in CoreSteps /\ run'[e].pc \in {run[e].pc, After(run[e].pc)}
    BY <2>1 DEF CoreSteps, Core, After
  <2>2. CASE run[e].pc \in ToolSteps \ {"gaussian_splatting"} /\ run'[e].pc = After(run[e].pc)
    BY <2>2 DEF ToolSteps, After, OptionalFrom
  <2>3. CASE run[e].pc = "stats" /\ run'[e].pc = "ply_export"
    BY <2>3
  <2>4. CASE \/ run[e].pc = "potree_conversion" /\ run'[e].pc = "metadata"
             \/ run'[e].pc = "raised"
    BY <2>4
  <2> QED
    BY <1>1, <2>1, <2>2, <2>3, <2>4 DEF NextPc
<1>6. splat[e].pc # "convert" => run[e].pc \in {"gaussian_splatting", "potree_conversion", "metadata"}
  BY DEF PipelineInv, SplatOf, Busy
<1>7. SplatOf(e)' /\ ReportOf(e)'
  BY <1>1, <1>2, <1>5, <1>6 DEF PipelineInv, SplatOf, ReportOf, Ended
<1> QED
  BY <1>3, <1>4, <1>7

\* The training.
LEMMA TrainingHolds ==
    ASSUME PipelineInv, NEW e \in Executions, Busy(e),
           Converts(e) \/ Trains(e) \/ RunsOutOfMemory(e) \/ Picks(e)
    PROVE  /\ PipelineTypes' /\ StagesApart' /\ WorkspaceHolds' /\ ImagesInv'
           /\ ImagesOf(e)' /\ SplatOf(e)' /\ ReportOf(e)'
<1>1. /\ run[e].pc = "gaussian_splatting"
      /\ Picks(e) => /\ run'[e].pc = "potree_conversion"
                     /\ disk' = disk \cup {"gaussian_splatting"} /\ disk # {}
      /\ ~Picks(e) => UNCHANGED rvars
  BY TrainingFacts DEF PipelineInv
<1>2. /\ stage[e] = "reconstruct" /\ UNCHANGED <<stage, taken, extraction, features, report>>
      /\ splat \in [Executions -> [pc : {"convert", "train", "retrain", "pick"}, iterations : Nat]]
  BY DEF Converts, Trains, RunsOutOfMemory, Picks, Training, At, PipelineInv, PipelineTypes
<1>3. splat' \in [Executions -> [pc : {"convert", "train", "retrain", "pick"}, iterations : Nat]]
  <2>1. \A n \in Nat : n \div 2 \in Nat
    OBVIOUS
  <2>2. CASE RunsOutOfMemory(e)
    <3>1. splat[e].iterations \div 2 \in Nat
      BY <1>2, <2>1
    <3>2. splat' = [splat EXCEPT ![e] = [splat[e] EXCEPT !.pc = "retrain", !.iterations = @ \div 2]]
      BY <2>2 DEF RunsOutOfMemory, Retrain
    <3> QED
      BY <1>2, <3>1, <3>2
  <2>3. CASE Converts(e) \/ Trains(e) \/ Picks(e)
    BY <1>2, <2>3 DEF Converts, Trains, Picks
  <2> QED
    BY <2>2, <2>3
<1>4. /\ "frames" \in disk' => "frames" \in disk
      /\ "workspace" \in disk' <=> "workspace" \in disk
      /\ "feature_extraction" \in disk' => "feature_extraction" \in disk
      /\ disk = {} => disk' = {}
  <2>1. CASE Picks(e)
    BY <1>1, <2>1
  <2>2. CASE ~Picks(e)
    BY <1>1, <2>2 DEF rvars
  <2> QED
    BY <2>1, <2>2
<1>5. PipelineTypes'
  BY <1>2, <1>3 DEF PipelineInv, PipelineTypes
<1>6. StagesApart' /\ WorkspaceHolds'
  <2>1. \A x \in Executions : x # e => run'[x] = run[x]
    <3>1. CASE Picks(e)
      BY <3>1, StepMoves, PipelineMoves DEF PipelineInv
    <3>2. CASE ~Picks(e)
      BY <1>1, <3>2 DEF rvars
    <3> QED
      BY <3>1, <3>2
  <2>2. StagesApart'
    BY <1>2, <2>1 DEF PipelineInv, StagesApart
  <2>3. WorkspaceHolds'
    BY <1>4 DEF PipelineInv, WorkspaceHolds
  <2> QED
    BY <2>2, <2>3
<1>7. ImagesInv' /\ ImagesOf(e)'
  <2>1. "feature_extraction" \in disk' => features' = Frames \ Blurry
    BY <1>2, <1>4 DEF PipelineInv, ImagesInv
  <2> QED
    BY <1>2, <1>4, <2>1, ImagesHold
<1>8. SplatOf(e)'
  <2>1. CASE Converts(e) \/ RunsOutOfMemory(e)
    <3>1. ~Picks(e)
      BY <2>1 DEF Converts, RunsOutOfMemory, Picks, Training
    <3>2. run' = run
      BY <1>1, <3>1 DEF rvars
    <3>3. splat'[e].pc \in {"train", "retrain"}
      BY <1>2, <2>1 DEF Converts, RunsOutOfMemory, Retrain
    <3> QED
      BY <1>1, <3>2, <3>3 DEF SplatOf
  <2>2. CASE Trains(e)
    <3>1. ~Picks(e)
      BY <2>2 DEF Trains, Picks, Training
    <3>2. run' = run
      BY <1>1, <3>1 DEF rvars
    <3> QED
      BY <1>1, <1>2, <2>2, <3>2 DEF SplatOf, Trains, PipelineInv
  <2>3. CASE Picks(e)
    <3>1. /\ output'.copy = output.newest /\ splat' = splat /\ splat[e].pc = "pick"
      BY <2>3 DEF Picks, Training
    <3>2. "workspace" \in disk
      BY <1>1, <2>3 DEF PipelineInv, WorkspaceHolds
    <3>3. Splatting => output.newest = splat[e].iterations
      BY <1>1, <3>1, <3>2 DEF PipelineInv, SplatOf
    <3> QED
      BY <1>1, <2>3, <3>1, <3>3 DEF SplatOf
  <2> QED
    BY <2>1, <2>2, <2>3
<1>9. ReportOf(e)'
  <2>1. run'[e].pc # "returned"
    BY <1>1 DEF rvars
  <2> QED
    BY <2>1 DEF ReportOf
<1> QED
  BY <1>5, <1>6, <1>7, <1>8, <1>9

\* The return: the features are those of a checkpointed step, whose output is
\* in the workspace.
LEMMA ReturnsHolds ==
    ASSUME PipelineInv, NEW e \in Executions, Returns(e), Busy(e)
    PROVE  /\ PipelineTypes' /\ StagesApart' /\ WorkspaceHolds' /\ ImagesInv'
           /\ ImagesOf(e)' /\ SplatOf(e)' /\ ReportOf(e)'
<1>1. /\ run[e].pc = "metadata" /\ run'[e].pc \in {"returned", "raised"}
      /\ disk' \in {disk, disk \cup {"metadata"}}
      /\ disk = {} => disk' = {}
      /\ run'[e].pc = "returned" => "workspace" \in disk
  BY ReturnsFacts DEF PipelineInv
<1>2. /\ stage[e] = "reconstruct" /\ UNCHANGED <<stage, taken, extraction, features, splat, output>>
      /\ \A x \in Executions : x # e => run'[x] = run[x]
  BY StepMoves, PipelineMoves DEF Returns, PipelineInv
<1>3. PipelineTypes' /\ StagesApart' /\ WorkspaceHolds'
  <2>1. DOMAIN report' = Executions
    BY DEF Returns, PipelineInv, PipelineTypes
  <2>2. PipelineTypes' /\ StagesApart'
    BY <1>2, <2>1 DEF PipelineInv, PipelineTypes, StagesApart
  <2>3. WorkspaceHolds'
    BY <1>1 DEF PipelineInv, WorkspaceHolds
  <2> QED
    BY <2>2, <2>3
<1>4. ImagesInv' /\ ImagesOf(e)'
  <2>1. "feature_extraction" \in disk' => features' = Frames \ Blurry
    BY <1>1, <1>2 DEF PipelineInv, ImagesInv
  <2> QED
    BY <1>1, <1>2, <2>1, ImagesHold
<1>5. SplatOf(e)'
  BY <1>1, <1>2 DEF PipelineInv, SplatOf, Ended
<1>6. ReportOf(e)'
  <2> SUFFICES ASSUME run'[e].pc = "returned" PROVE ReportOf(e)'
    BY DEF ReportOf
  <2>1. "feature_extraction" \in disk
    <3>1. Good(run[e], disk) /\ "workspace" \in disk
      BY <1>1 DEF PipelineInv, Inv, AllGood
    <3>2. Present(run[e], disk) /\ Live(run[e]) /\ Ordered(run[e].done) /\ Len(run[e].done) >= 3
      BY <1>1, <3>1 DEF Good, Live, Ended
    <3>3. Len(run[e].done) \in Nat
      BY DEF PipelineInv, Inv, AllGood, RunTyped, Execution
    <3>4. run[e].done[1] = "feature_extraction" /\ run[e].done[1] \in disk
      BY <3>1, <3>2, <3>3 DEF Present, Ordered, Core
    <3> QED
      BY <3>4
  <2>2. features = Frames \ Blurry /\ taken[e] = Frames
    BY <1>2, <2>1 DEF PipelineInv, ImagesInv, ImagesOf
  <2>3. Splatting => output.copy = splat[e].iterations
    BY <1>1 DEF PipelineInv, SplatOf
  <2>4. report'[e] = [total |-> Cardinality(taken[e]), filtered |-> Cardinality(taken[e] \cap Blurry),
                      images |-> features, iterations |-> splat[e].iterations, copy |-> output.copy]
    BY DEF Returns, PipelineInv, PipelineTypes
  <2>5. taken[e] \cap Blurry = Blurry
    BY <2>2, PipelineAssumption
  <2> QED
    BY <2>2, <2>3, <2>4, <2>5 DEF ReportOf
<1> QED
  BY <1>3, <1>4, <1>5, <1>6

\* An execution that is killed leaves the directory as it is.
LEMMA KilledHolds ==
    ASSUME PipelineInv, NEW e \in Executions, IsKilled(e), Busy(e)
    PROVE  /\ PipelineTypes' /\ StagesApart' /\ WorkspaceHolds' /\ ImagesInv'
           /\ ImagesOf(e)' /\ SplatOf(e)' /\ ReportOf(e)'
<1> USE DEF extras, rvars, Moves
<1>1. CASE stage[e] = "reconstruct" /\ Dies(e) /\ UNCHANGED extras
  <2>1. run \in [Executions -> Execution] /\ run[e] \in Execution
    BY DEF PipelineInv, Inv, AllGood, RunTyped
  <2>2. /\ disk' = disk /\ run'[e].pc = "dead" /\ \A x \in Executions : x # e => run'[x] = run[x]
    BY <1>1, <2>1 DEF Dies, Execution
  <2>3. ~Busy(e)'
    BY <2>2 DEF Busy, Ended
  <2>4. PipelineTypes' /\ StagesApart' /\ WorkspaceHolds' /\ ImagesInv'
    BY <1>1, <2>2 DEF PipelineInv, PipelineTypes, StagesApart, WorkspaceHolds, ImagesInv
  <2>5. ImagesOf(e)'
    BY <1>1, <2>3 DEF PipelineInv, ImagesOf
  <2>6. SplatOf(e)' /\ ReportOf(e)'
    BY <2>2 DEF SplatOf, ReportOf, Ended
  <2> QED
    BY <2>4, <2>5, <2>6
<1>2. CASE ~(stage[e] = "reconstruct" /\ Dies(e) /\ UNCHANGED extras)
  <2>1. /\ stage[e] \in {"extract", "score", "move", "check"}
        /\ stage' = [stage EXCEPT ![e] = "over"]
        /\ UNCHANGED <<rvars, taken, extraction, features, splat, output, report>>
    BY <1>2 DEF IsKilled
  <2>2. stage \in [Executions -> Stages] /\ run[e].pc = "idle"
    BY <2>1 DEF PipelineInv, PipelineTypes, StagesApart
  <2>3. stage'[e] = "over" /\ stage' \in [Executions -> Stages]
    BY <2>1, <2>2 DEF Stages
  <2>4. PipelineTypes' /\ StagesApart' /\ WorkspaceHolds' /\ ImagesInv'
    BY <2>1, <2>2, <2>3 DEF PipelineInv, PipelineTypes, StagesApart, WorkspaceHolds, ImagesInv
  <2>5. ImagesOf(e)'
    BY <2>3 DEF ImagesOf
  <2>6. SplatOf(e)' /\ ReportOf(e)'
    BY <2>1, <2>2 DEF PipelineInv, SplatOf, ReportOf
  <2> QED
    BY <2>4, <2>5, <2>6
<1> QED
  BY <1>1, <1>2

\* Where the directory was removed nothing is left to be wrong.
LEMMA WipedHolds ==
    ASSUME PipelineInv, IsWiped
    PROVE  /\ PipelineTypes' /\ StagesApart' /\ Sole' /\ WorkspaceHolds' /\ ImagesInv'
           /\ \A e \in Executions : ImagesOf(e)' /\ SplatOf(e)' /\ ReportOf(e)'
<1>1. /\ disk' = {} /\ run' = run /\ extraction' = NoFrames /\ features' = {}
      /\ UNCHANGED <<stage, taken, splat, report>>
  BY DEF IsWiped, Wipe, rvars
<1>2. PipelineTypes'
  BY <1>1 DEF PipelineInv, PipelineTypes, NoFrames
<1>3. StagesApart' /\ Sole' /\ WorkspaceHolds'
  BY <1>1 DEF PipelineInv, StagesApart, Sole, Busy, WorkspaceHolds
<1>4. ImagesInv' /\ ~extraction'.made
  BY <1>1 DEF ImagesInv, NoFrames
<1>5. ASSUME NEW e \in Executions PROVE ImagesOf(e)' /\ SplatOf(e)' /\ ReportOf(e)'
  BY <1>1, <1>4 DEF PipelineInv, ImagesOf, SplatOf, ReportOf
<1> QED
  BY <1>2, <1>3, <1>4, <1>5

\* One step of the pipeline.
LEMMA PipelineHolds ==
    ASSUME IsFiniteSet(Executions), MaxRunning <= 1, PipelineInv, [PipelineNext]_pvars
    PROVE  /\ PipelineTypes' /\ StagesApart' /\ Sole' /\ WorkspaceHolds' /\ ImagesInv'
           /\ \A e \in Executions : ImagesOf(e)' /\ SplatOf(e)' /\ ReportOf(e)'
<1>1. ASSUME NEW e \in Executions, Extraction(e) \/ Reconstructs(e) \/ IsKilled(e)
      PROVE  /\ PipelineTypes' /\ StagesApart' /\ Sole' /\ WorkspaceHolds' /\ ImagesInv'
             /\ \A x \in Executions : ImagesOf(x)' /\ SplatOf(x)' /\ ReportOf(x)'
  <2>1. /\ \A x \in Executions \ {e} : ImagesOf(x)' /\ SplatOf(x)' /\ ReportOf(x)'
        /\ Sole'
    BY <1>1, OthersHold
  <2>2. Busy(e) \/ Extraction(e)
    BY <1>1, OthersStay DEF Extraction
  <2>3. /\ PipelineTypes' /\ StagesApart' /\ WorkspaceHolds' /\ ImagesInv'
        /\ ImagesOf(e)' /\ SplatOf(e)' /\ ReportOf(e)'
    <3>1. CASE Extraction(e)
      BY <3>1, ExtractionHolds
    <3>2. CASE Reconstructs(e) /\ Busy(e)
      BY <3>2, CallsHolds, ReadsHolds, ContinuesHolds, ReturnsHolds, TrainingHolds DEF Reconstructs
    <3>3. CASE IsKilled(e) /\ Busy(e)
      BY <3>3, KilledHolds
    <3> QED
      BY <1>1, <2>2, <3>1, <3>2, <3>3
  <2> QED
    BY <2>1, <2>3
<1>2. CASE IsWiped
  BY <1>2, WipedHolds
<1>3. CASE UNCHANGED pvars
  <2>1. UNCHANGED <<disk, run, stage, taken, extraction, features, splat, output, report>>
    BY <1>3 DEF pvars, rvars, extras
  <2>2. PipelineTypes' /\ StagesApart' /\ Sole' /\ WorkspaceHolds' /\ ImagesInv'
    BY <2>1 DEF PipelineInv, PipelineTypes, StagesApart, Sole, Busy, WorkspaceHolds, ImagesInv
  <2>3. ASSUME NEW e \in Executions PROVE ImagesOf(e)' /\ SplatOf(e)' /\ ReportOf(e)'
    BY <2>1 DEF PipelineInv, ImagesOf, SplatOf, ReportOf, Busy
  <2> QED
    BY <2>2, <2>3
<1> QED
  BY <1>1, <1>2, <1>3 DEF PipelineNext

\* PipelineInv is an invariant where one execution runs at a time.
LEMMA PipelineInvariant ==
    ASSUME IsFiniteSet(Executions), MaxRunning <= 1
    PROVE  PipelineSpec => []PipelineInv
<1> DEFINE Rest == /\ PipelineTypes /\ StagesApart /\ Sole /\ WorkspaceHolds /\ ImagesInv
                   /\ \A e \in Executions : ImagesOf(e) /\ SplatOf(e) /\ ReportOf(e)
<1>1. PipelineInit => Rest
  <2> SUFFICES ASSUME PipelineInit PROVE Rest
    OBVIOUS
  <2>1. \A e \in Executions : stage[e] = "idle" /\ run[e] = IdleExecution
    BY DEF PipelineInit, Init
  <2>2. PipelineTypes
    BY PipelineAssumption DEF PipelineInit, PipelineTypes, Stages, NoFrames, NoSplat
  <2>3. StagesApart /\ Sole /\ WorkspaceHolds /\ ImagesInv
    BY <2>1 DEF PipelineInit, Init, StagesApart, IdleExecution, Sole, Busy, WorkspaceHolds,
       ImagesInv, NoFrames
  <2>4. ASSUME NEW e \in Executions PROVE ImagesOf(e) /\ SplatOf(e) /\ ReportOf(e)
    BY <2>1 DEF PipelineInit, ImagesOf, SplatOf, ReportOf, IdleExecution, Busy, NoSplat, Ended
  <2> QED
    BY <2>2, <2>3, <2>4
<1>2. PipelineInv <=> Inv /\ Rest
  BY DEF PipelineInv
<1>3. Inv /\ Rest /\ [PipelineNext]_pvars => Rest'
  BY <1>2, PipelineHolds
<1> HIDE DEF Rest
<1> QED
  BY <1>1, <1>2, <1>3, PipelineImplements, InvInvariant, PTL DEF PipelineSpec

\* When one execution of a job runs at a time, the images a result counts are
\* those COLMAP was given: all that are not blurry and no other, whatever was
\* killed in the middle of a step, skipped or removed, for any video.
THEOREM ResultsHonest ==
    ASSUME IsFiniteSet(Executions), MaxRunning <= 1
    PROVE  PipelineSpec => []ResultHonest
<1>1. PipelineInv => ResultHonest
  BY DEF PipelineInv, ReportOf, ResultHonest
<1> QED
  BY <1>1, PipelineInvariant, PTL

\* And the splat file it hands out is that of the training it reports, for any
\* number of iterations and of trainings that ran out of memory.
THEOREM SplatsHonest ==
    ASSUME IsFiniteSet(Executions), MaxRunning <= 1
    PROVE  PipelineSpec => []SplatHonest
<1>1. PipelineInv => SplatHonest
  BY DEF PipelineInv, ReportOf, SplatHonest
<1> QED
  BY <1>1, PipelineInvariant, PTL
=============================================================================
