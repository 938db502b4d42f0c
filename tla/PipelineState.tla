---------------------------- MODULE PipelineState ----------------------------
(***************************************************************************)
(* The checkpoint a run keeps on disk (engine/pipeline-state.ts), as       *)
(* operators on the sequence of its stages.  A stage is represented by its *)
(* status alone.  Every operation of the source ends in save(), so the     *)
(* sequence is at once the tracker's memory and the JSON file.  Indices    *)
(* are one-based here and zero-based in the source; an index that is not   *)
(* in the sequence leaves it unchanged, as the early returns do.           *)
(***************************************************************************)
EXTENDS Naturals, Sequences

StageStatus == {"pending", "running", "completed", "failed"}
PipelineStatus == {"running", "completed", "failed"}

AddStage(stages) == Append(stages, "pending")

SetStage(stages, idx, to) ==
  IF idx \in DOMAIN stages THEN [stages EXCEPT ![idx] = to] ELSE stages

StartStage(stages, idx)    == SetStage(stages, idx, "running")
CompleteStage(stages, idx) == SetStage(stages, idx, "completed")
FailStage(stages, idx)     == SetStage(stages, idx, "failed")

\* The stages Orchestrator.resume looks for in a checkpoint: it picks the
\* first of them, and reports "All stages complete" when there is none.
ResumableStages(stages) ==
  {k \in DOMAIN stages : stages[k] \in {"pending", "failed"}}
=============================================================================
