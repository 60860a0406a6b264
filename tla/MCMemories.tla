----------------------------- MODULE MCMemories -----------------------------
(* Instances of Memories for TLC: workers are interchangeable. *)
EXTENDS Memories, TLC

Symmetry == Permutations(Workers)

\* Two states are one to TLC if they differ only in what no action and no property of the
\* run reads before it is written again: the ownership token of a row that is not running
\* or that its owner has given up, the version of a rollout that is being deleted, the mode
\* and the version of a threads row that is gone, edits where there is no baseline, once
\* overrun, what was digested, and, in the run that asks about neither, both of these.
Disowned(row, kept) ==
    IF row.status = "running" /\ kept THEN row ELSE [row EXCEPT !.owner = "none"]

ThreadView(row) ==
    CASE row.fate = "kept" -> row
      [] row.fate = "gone" -> [row EXCEPT !.written = 0, !.mode = "enabled", !.updated = 0]
      [] OTHER             -> [row EXCEPT !.written = 0]

PipelineView ==
    <<[t \in Threads |-> ThreadView(threads[t])],
      [t \in Threads |-> Disowned(jobs[t], jobs[t].owner # "none" /\ t \in Held(jobs[t].owner))],
      outputs,
      Disowned(global, global.owner # "none" /\ worker[global.owner].pc \in Consolidating),
      worker, synced, edited /\ baseline # Missing, baseline, resetting, faults, requests>>

View == <<PipelineView, IF overrun THEN {} ELSE digested, overrun>>
=============================================================================
