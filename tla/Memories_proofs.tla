-------------------------- MODULE Memories_proofs --------------------------
(***************************************************************************)
(* Proofs about Memories, for any threads, workers and bounds. The rows    *)
(* and the directory have an inductive invariant each. StoreInv says what  *)
(* a running stage-1 row has to do with the worker that holds its claim.   *)
(* DirInv says what the holder of the global lock may rely on, as long as  *)
(* nobody was in the directory beside the holder and resets were complete. *)
(***************************************************************************)
EXTENDS Memories, TLAPS

\* A running row has a retry left and is ahead of what was extracted so far.
RunningAhead ==
    \A t \in Threads : jobs[t].status = "running" =>
        /\ jobs[t].retries > 0
        /\ jobs[t].success < jobs[t].input /\ outputs[t].source < jobs[t].input

\* A worker holds claims only in phase 1, from the first claim to the last result.
HeldInPhase1 ==
    \A w \in Workers, t \in Threads :
        worker[w].held[t] # "no" => worker[w].pc \in {"claim", "extract"}

\* Who owns the row has read the version it was claimed for, and a rollout that was
\* loaded before its deletion is not owned any more.
ClaimMatches ==
    \A w \in Workers, t \in Threads : OwnsStage1(w, t) =>
        /\ worker[w].held[t] # "no" => worker[w].seen[t] = jobs[t].input
        /\ threads[t].fate \in {"purged", "gone"} => worker[w].held[t] # "loaded"

StoreInv ==
    TypeOK /\ RunningAhead /\ HeldInPhase1 /\ ClaimMatches
           /\ OutputIsLatest /\ DeletedLeavesNoMemory

\* Every snapshot of f was consolidated by an agent.
Known(f) == \A t \in Threads : f[t] # 0 => <<t, f[t]>> \in digested

\* Where there is no baseline and nobody clears the directory, it is safe to take for one.
MissingSafe == ~resetting /\ baseline = Missing => Known(synced)

\* What the holder of the lock finds: a baseline from prepare to reset, its inputs in
\* the directory from the sync on, all of the directory known to an agent once one is
\* done, and its inputs known when it marks them.
Sees(w) ==
    /\ worker[w].pc \in {"load", "sync", "diff", "agent", "confirm", "reset"} =>
           baseline \in Snapshots
    /\ worker[w].pc \in {"diff", "agent", "confirm", "reset", "commit"} =>
           \A t \in Threads : worker[w].inputs[t] # 0 => synced[t] = worker[w].inputs[t]
    /\ worker[w].pc \in {"confirm", "reset", "commit"} => Known(synced)
    /\ worker[w].pc = "mark" => Known(worker[w].inputs)

OwnerSees == \A w \in Workers : OwnsGlobal(w) => Sees(w)

\* While a reset clears the directory, nothing is selected and no holder of the lock has
\* come as far as changing the directory.
AfterSync == {"diff", "agent", "confirm", "reset", "commit", "mark"}
ResetQuiet ==
    resetting =>
        /\ \A t \in Threads : outputs[t].selected = 0
        /\ \A w \in Workers : OwnsGlobal(w) => worker[w].pc \notin AfterSync

DirInv ==
    /\ ~overrun => MissingSafe /\ OwnerSees /\ ResetQuiet
    /\ BaselineDigested /\ SelectedDigested

-----------------------------------------------------------------------------
(* Types. A pipeline and a row change in one component at a time.          *)

\* A pipeline that is not running.
LEMMA IdleType == Idle \in Pipelines
  BY StoreAssumption
  DEF Idle, Empty, Pipelines, Points, Snapshots, Watermark, Holdings

\* A pipeline keeps its type when it moves, starts again, or changes what it holds.
LEMMA PipelineMoves ==
    ASSUME worker \in [Workers -> Pipelines], NEW w \in Workers, NEW pc \in Points
    PROVE  /\ [worker EXCEPT ![w].pc = pc] \in [Workers -> Pipelines]
           /\ [worker EXCEPT ![w] = [Idle EXCEPT !.pc = pc]] \in [Workers -> Pipelines]
           /\ [worker EXCEPT ![w] = Idle] \in [Workers -> Pipelines]
  BY IdleType DEF Pipelines

\* A claim, a load or a result changes what a pipeline holds of one thread.
LEMMA PipelineHolds ==
    ASSUME worker \in [Workers -> Pipelines], NEW w \in Workers, NEW t \in Threads,
           NEW h \in {"no", "claimed", "loaded"}
    PROVE  /\ [worker EXCEPT ![w].held[t] = h] \in [Workers -> Pipelines]
           /\ [worker EXCEPT ![w].held[t] = h, ![w].seen[t] = 0] \in [Workers -> Pipelines]
           /\ [worker EXCEPT ![w].todo = @ \ {t}] \in [Workers -> Pipelines]
           /\ [worker EXCEPT ![w].todo = @ \ {t}, ![w].held[t] = h] \in [Workers -> Pipelines]
<1>1. [worker[w].held EXCEPT ![t] = h] \in Holdings
  BY DEF Pipelines, Holdings
<1>2. [worker[w].seen EXCEPT ![t] = 0] \in Snapshots
  BY StoreAssumption DEF Pipelines, Snapshots, Watermark
<1>3. worker[w].todo \ {t} \in SUBSET Threads
  BY DEF Pipelines
<1> QED
  BY <1>1, <1>2, <1>3 DEF Pipelines

\* Enqueuing keeps a global row, whatever its status was.
LEMMA EnqueuedType == StoreTypeOK => Enqueued \in GlobalRows
  BY DEF StoreTypeOK, Enqueued, GlobalRows

\* The rows that are not there.
LEMMA NoRowTypes == NoJob \in JobRows /\ NoOutput \in OutputRows /\ NoGlobal \in GlobalRows
  BY StoreAssumption
  DEF NoJob, NoOutput, NoGlobal, JobRows, OutputRows, GlobalRows, Watermark

\* A finished job row.
LEMMA DoneType == \A j \in JobRows : Done(j) \in JobRows
  BY DEF Done, JobRows

\* The invariant of the rows holds at the start.
LEMMA InitStore == Init => StoreInv
<1> SUFFICES ASSUME Init PROVE StoreInv
  OBVIOUS
<1> USE DEF Init, StoreInit
<1>1. TypeOK
  <2>1. [mode |-> "enabled", updated |-> 1, written |-> 1, fate |-> "kept",
         polluting |-> "no", reconciling |-> 0] \in ThreadRows
    BY StoreAssumption DEF ThreadRows, Watermark
  <2>2. StoreTypeOK
    BY <2>1, NoRowTypes DEF StoreTypeOK
  <2>3. Empty \in Snapshots
    BY StoreAssumption DEF Empty, Snapshots, Watermark
  <2>4. worker \in [Workers -> Pipelines]
    BY IdleType
  <2>5. faults \in 0 .. MaxFaults /\ requests \in 0 .. MaxRequests
    BY PipelineAssumption
  <2> QED
    BY <2>2, <2>3, <2>4, <2>5, Zenon DEF TypeOK
<1>2. HeldInPhase1 /\ RunningAhead /\ ClaimMatches
  BY DEF HeldInPhase1, RunningAhead, ClaimMatches, Idle, NoJob, OwnsStage1
<1>3. OutputIsLatest /\ DeletedLeavesNoMemory
  BY DEF OutputIsLatest, DeletedLeavesNoMemory, NoOutput
<1> QED
  BY <1>1, <1>2, <1>3 DEF StoreInv

-----------------------------------------------------------------------------
\* The steps of a pipeline keep its type.
LEMMA WorkerStep ==
    ASSUME TypeOK, NEW w \in Workers, Phase1(w) \/ Phase2(w) \/ Crash(w)
    PROVE  worker' \in [Workers -> Pipelines]
<1> USE DEF TypeOK, At
<1>1. ASSUME NEW pc \in Points, Goto(w, pc) PROVE worker' \in [Workers -> Pipelines]
  BY <1>1, PipelineMoves DEF Goto
<1>2. ASSUME Leave(w) PROVE worker' \in [Workers -> Pipelines]
  BY <1>2, IdleType DEF Leave
<1>3. ASSUME NEW t \in Threads, Drop(w, t) PROVE worker' \in [Workers -> Pipelines]
  BY <1>3, PipelineHolds DEF Drop
<1>4. CASE Scan(w)
  <2> DEFINE new == [t \in Threads |-> IF t \in Eligible THEN threads[t].updated ELSE 0]
  <2>1. new \in Snapshots
    BY StoreAssumption DEF StoreTypeOK, ThreadRows, Snapshots, Watermark
  <2>2. Eligible \subseteq Threads /\ "claim" \in Points
    BY DEF Eligible, Points
  <2>3. worker' = [worker EXCEPT ![w] = [@ EXCEPT !.pc = "claim", !.todo = Eligible,
                                                  !.seen = new]]
    BY <1>4 DEF Scan
  <2> HIDE DEF new
  <2> QED
    BY <2>1, <2>2, <2>3 DEF Pipelines
<1>5. CASE ClaimsDone(w)
  <2> DEFINE new == [t \in Threads |-> IF t \in Held(w) THEN worker[w].seen[t] ELSE 0]
  <2>1. new \in Snapshots
    BY StoreAssumption DEF Pipelines, Snapshots, Watermark
  <2>2. worker' = [worker EXCEPT ![w] = [@ EXCEPT !.pc = "extract", !.todo = {},
                                                  !.seen = new]]
    BY <1>5 DEF ClaimsDone
  <2>3. "extract" \in Points
    BY DEF Points
  <2> HIDE DEF new
  <2> QED
    BY <2>1, <2>2, <2>3 DEF Pipelines
<1>6. ASSUME NEW t \in Threads, Claim(w, t) PROVE worker' \in [Workers -> Pipelines]
  <2>1. CASE worker' = [worker EXCEPT ![w].todo = @ \ {t}, ![w].held[t] = "claimed"]
    BY <2>1, PipelineHolds
  <2>2. CASE worker' = [worker EXCEPT ![w].todo = @ \ {t}]
    BY <2>2, PipelineHolds
  <2> QED
    BY <1>6, <2>1, <2>2 DEF Claim
<1>7. ASSUME NEW t \in Threads, LoadRollout(w, t) PROVE worker' \in [Workers -> Pipelines]
  BY <1>7, PipelineHolds DEF LoadRollout
<1>8. CASE LoadInputs(w)
  <2>1. InputSelection \in Snapshots
    BY StoreAssumption DEF InputSelection, StoreTypeOK, OutputRows, Snapshots, Watermark
  <2> QED
    BY <1>8, <2>1 DEF LoadInputs, Pipelines, Points, Consolidating
<1>9. CASE ClaimError(w) \/ StartPhase2(w)
  <2>1. "extract" \in Points /\ "prepare" \in Points
    BY DEF Points, Consolidating
  <2>2. ASSUME NEW pc \in Points, worker' = [worker EXCEPT ![w] = [Idle EXCEPT !.pc = pc]]
        PROVE  worker' \in [Workers -> Pipelines]
    BY <2>2, PipelineMoves
  <2> QED
    BY <1>2, <1>9, <2>1, <2>2 DEF ClaimError, StartPhase2
<1>10. CASE Start(w) \/ Prepare(w) \/ SyncInputs(w) \/ PruneFails(w) \/ Diff(w)
              \/ AgentCompletes(w) \/ Confirm(w) \/ ResetBaseline(w) \/ CommitBaseline(w)
  <2>1. {"scan", "load", "diff", "agent", "mark", "confirm", "reset", "commit"} \subseteq Points
    BY DEF Points, Consolidating
  <2> QED
    BY <1>10, <2>1, <1>1, <1>2
    DEF Start, Prepare, SyncInputs, PruneFails, Diff, AgentCompletes, Confirm,
        ResetBaseline, CommitBaseline
<1>11. CASE RateLimited(w) \/ Beat(w) \/ Succeed(w) \/ ConsolidationFails(w)
              \/ DiffFails(w) \/ IndexFails(w) \/ SyncFails(w) \/ Crash(w)
  BY <1>11, <1>2
  DEF RateLimited, Beat, Succeed, ConsolidationFails, DiffFails, IndexFails, SyncFails, Crash
<1>12. ASSUME NEW t \in Threads,
              \/ ExtractSucceeds(w, t) \/ ExtractFindsNothing(w, t)
              \/ ExtractFails(w, t) \/ StoreError(w, t)
       PROVE  worker' \in [Workers -> Pipelines]
  BY <1>12, <1>3 DEF ExtractSucceeds, ExtractFindsNothing, ExtractFails, StoreError
<1> QED
  BY <1>4, <1>5, <1>6, <1>7, <1>8, <1>9, <1>10, <1>11, <1>12 DEF Phase1, Phase2

\* The steps that leave the rows alone.
KeepsStore(w) ==
    \/ RateLimited(w) \/ Scan(w) \/ ClaimsDone(w) \/ ClaimError(w) \/ Prepare(w)
    \/ LoadInputs(w) \/ SyncInputs(w) \/ Diff(w) \/ AgentCompletes(w) \/ ResetBaseline(w)
    \/ CommitBaseline(w) \/ Crash(w) \/ PruneFails(w)
    \/ \E t \in Threads : LoadRollout(w, t) \/ StoreError(w, t)

\* A step of KeepsStore writes neither database.
LEMMA StoreKept == \A w \in Workers : KeepsStore(w) => UNCHANGED storeVars
  BY DEF KeepsStore, RateLimited, Scan, ClaimsDone, ClaimError, Prepare, LoadInputs,
         SyncInputs, PruneFails, Diff, AgentCompletes, ResetBaseline, CommitBaseline, Crash,
         LoadRollout, StoreError, storeVars

\* Nor does clearing the directory, which no pipeline takes part in.
LEMMA ClearKeeps == ResetFiles => UNCHANGED <<storeVars, worker, faults, requests>>
  BY Zenon DEF ResetFiles, ClearGit, ClearNotes, ClearSnapshot, ResetEnds, rest

\* The statements of MemoryStore keep the types of the rows.
LEMMA StoreTypeStep ==
    ASSUME TypeOK, RunningAhead, Next PROVE StoreTypeOK'
<1> USE DEF TypeOK, StoreTypeOK
<1>1. ASSUME NEW w \in Workers, KeepsStore(w) PROVE StoreTypeOK'
  BY <1>1, StoreKept DEF storeVars
<1>2. ASSUME NEW w \in Workers, Start(w) PROVE StoreTypeOK'
  <2>1. outputs' \in [Threads -> OutputRows]
    BY <1>2, NoRowTypes DEF Start, Prune
  <2> QED
    BY <1>2, <2>1 DEF Start
<1>3. ASSUME NEW w \in Workers, NEW t \in Threads, Claim(w, t) PROVE StoreTypeOK'
  <2> DEFINE j == [status |-> "running", owner |-> w, leased |-> TRUE, backoff |-> FALSE,
                   retries |-> IF worker[w].seen[t] > jobs[t].input THEN MaxRetries
                               ELSE jobs[t].retries,
                   input |-> worker[w].seen[t], success |-> jobs[t].success]
  <2>1. worker[w].seen[t] \in Watermark
    BY DEF Pipelines, Snapshots
  <2>2. j \in JobRows
    BY <2>1, StoreAssumption DEF JobRows
  <2>3. jobs' = jobs \/ jobs' = [jobs EXCEPT ![t] = j]
    BY <1>3 DEF Claim, ClaimStage1
  <2> HIDE DEF j
  <2> QED
    BY <1>3, <2>2, <2>3 DEF Claim
<1>4. ASSUME NEW w \in Workers, NEW t \in Threads, ExtractSucceeds(w, t) PROVE StoreTypeOK'
  <2>1. worker[w].seen[t] \in Watermark
    BY DEF Pipelines, Snapshots
  <2>2. outputs' \in [Threads -> OutputRows]
    BY <1>4, <2>1 DEF ExtractSucceeds, Stage1Succeeded, OutputRows
  <2>3. jobs' \in [Threads -> JobRows]
    BY <1>4, DoneType DEF ExtractSucceeds, Stage1Succeeded
  <2>4. global' \in GlobalRows
    BY <1>4, EnqueuedType DEF ExtractSucceeds, Stage1Succeeded
  <2> QED
    BY <1>4, <2>2, <2>3, <2>4 DEF ExtractSucceeds
<1>5. ASSUME NEW w \in Workers, NEW t \in Threads, ExtractFindsNothing(w, t)
      PROVE  StoreTypeOK'
  <2>1. outputs' \in [Threads -> OutputRows]
    BY <1>5, NoRowTypes DEF ExtractFindsNothing, Stage1NoOutput
  <2>2. jobs' \in [Threads -> JobRows]
    BY <1>5, DoneType DEF ExtractFindsNothing, Stage1NoOutput
  <2>3. global' \in GlobalRows
    BY <1>5, EnqueuedType DEF ExtractFindsNothing, Stage1NoOutput
  <2> QED
    BY <1>5, <2>1, <2>2, <2>3 DEF ExtractFindsNothing
<1>6. ASSUME NEW w \in Workers, NEW t \in Threads, ExtractFails(w, t) PROVE StoreTypeOK'
  <2> DEFINE j == [jobs[t] EXCEPT !.status = "error", !.leased = FALSE, !.backoff = TRUE,
                                  !.retries = jobs[t].retries - 1]
  <2>1. jobs[t].status = "running" => j \in JobRows
    <3>1. jobs[t] \in JobRows
      OBVIOUS
    <3>2. jobs[t].status = "running" => jobs[t].retries - 1 \in 0 .. MaxRetries
      BY <3>1, StoreAssumption DEF RunningAhead, JobRows
    <3> QED
      BY <3>1, <3>2 DEF JobRows
  <2>2. jobs' = jobs \/ (jobs[t].status = "running" /\ jobs' = [jobs EXCEPT ![t] = j])
    BY <1>6 DEF ExtractFails, Stage1Failed, OwnsStage1
  <2> HIDE DEF j
  <2> QED
    BY <1>6, <2>1, <2>2 DEF ExtractFails, Stage1Failed
<1>7. ASSUME NEW w \in Workers, StartPhase2(w) PROVE StoreTypeOK'
  <2>1. [status |-> "running", owner |-> w, leased |-> TRUE, backoff |-> FALSE,
         cooldown |-> FALSE] \in GlobalRows
    BY DEF GlobalRows
  <2> QED
    BY <1>7, <2>1 DEF StartPhase2, ClaimGlobal
<1>8. ASSUME NEW w \in Workers, Beat(w) \/ Confirm(w) PROVE StoreTypeOK'
  BY <1>8 DEF Beat, Confirm, Heartbeat, GlobalRows
<1>9. ASSUME NEW w \in Workers, Succeed(w) PROVE StoreTypeOK'
  <2>1. worker[w].inputs \in Snapshots /\ 0 \in Watermark
    BY StoreAssumption DEF Pipelines, Watermark
  <2>2. outputs' \in [Threads -> OutputRows]
    BY <1>9, <2>1 DEF Succeed, GlobalSucceeded, OutputRows, Snapshots
  <2>3. global' \in GlobalRows
    BY <1>9 DEF Succeed, GlobalSucceeded, GlobalRows
  <2> QED
    BY <1>9, <2>2, <2>3 DEF Succeed
<1>10. ASSUME NEW w \in Workers,
              ConsolidationFails(w) \/ DiffFails(w) \/ IndexFails(w) \/ SyncFails(w)
       PROVE  StoreTypeOK'
  <2> DEFINE g == [global EXCEPT !.status = "error", !.leased = FALSE, !.backoff = TRUE]
  <2>1. g \in GlobalRows
    BY DEF GlobalRows
  <2>2. (global' = g \/ global' = global) /\ UNCHANGED <<threads, jobs, outputs>>
    BY <1>10 DEF ConsolidationFails, DiffFails, IndexFails, SyncFails, GlobalFailed
  <2> HIDE DEF g
  <2> QED
    BY <2>1, <2>2
<1>11. ASSUME NEW t \in Threads,
              ThreadUpdated(t) \/ PolluteReads(t) \/ PolluteMarks(t) \/ DeleteRollout(t)
              \/ DeleteThread(t) \/ ReconcileReads(t) \/ ReconcileWrites(t)
       PROVE  StoreTypeOK'
  <2>1. UNCHANGED <<jobs, outputs, global>>
    BY <1>11 DEF ThreadUpdated, PolluteReads, PolluteMarks, DeleteRollout, DeleteThread,
                 ReconcileReads, ReconcileWrites
  <2>2. threads[t] \in ThreadRows /\ 0 \in Watermark
    BY StoreAssumption DEF Watermark
  <2>3. ASSUME NEW row \in ThreadRows, threads' = [threads EXCEPT ![t] = row]
        PROVE  StoreTypeOK'
    BY <2>1, <2>3
  <2>4. CASE ThreadUpdated(t)
    <3> DEFINE next == threads[t].written + 1
    <3>1. next \in Watermark
      BY <2>2, <2>4, StoreAssumption DEF ThreadUpdated, ThreadRows, Watermark
    <3>2. threads' = [threads EXCEPT ![t] = [threads[t] EXCEPT !.written = next,
                                                               !.updated = next]]
      BY <2>4 DEF ThreadUpdated
    <3> HIDE DEF next
    <3>3. [threads[t] EXCEPT !.written = next, !.updated = next] \in ThreadRows
      BY <2>2, <3>1 DEF ThreadRows
    <3> QED
      BY <2>3, <3>2, <3>3
  <2>5. ASSUME NEW p \in {"no", "selected", "unselected", "enqueue"}
        PROVE  /\ [threads[t] EXCEPT !.polluting = p] \in ThreadRows
               /\ [threads[t] EXCEPT !.mode = "polluted", !.polluting = p] \in ThreadRows
    BY <2>2 DEF ThreadRows
  <2>6. CASE PolluteReads(t)
    BY <2>3, <2>5, <2>6 DEF PolluteReads
  <2>7. CASE PolluteMarks(t)
    BY <2>3, <2>5, <2>7 DEF PolluteMarks
  <2>8. CASE DeleteRollout(t) \/ DeleteThread(t)
    <3>1. /\ [threads[t] EXCEPT !.fate = "unlinked"] \in ThreadRows
          /\ [threads[t] EXCEPT !.fate = "gone"] \in ThreadRows
      BY <2>2 DEF ThreadRows
    <3> QED
      BY <2>3, <2>8, <3>1 DEF DeleteRollout, DeleteThread
  <2>9. CASE ReconcileReads(t)
    <3>1. [threads[t] EXCEPT !.reconciling = threads[t].written] \in ThreadRows
      BY <2>2 DEF ThreadRows
    <3> QED
      BY <2>3, <2>9, <3>1 DEF ReconcileReads
  <2>10. CASE ReconcileWrites(t)
    <3> DEFINE fate == IF threads[t].fate = "gone" THEN "purged" ELSE threads[t].fate
               row == [threads[t] EXCEPT !.mode = "enabled", !.reconciling = 0,
                           !.updated = threads[t].reconciling, !.fate = fate]
    <3>1. fate \in {"kept", "unlinked", "purged", "gone"}
      BY <2>2 DEF ThreadRows
    <3>2. threads' = [threads EXCEPT ![t] = row]
      BY <2>10 DEF ReconcileWrites
    <3> HIDE DEF fate
    <3>3. row \in ThreadRows
      BY <2>2, <3>1 DEF ThreadRows
    <3> HIDE DEF row
    <3> QED
      BY <2>3, <3>2, <3>3
  <2> QED
    BY <1>11, <2>4, <2>6, <2>7, <2>8, <2>9, <2>10
<1>12. ASSUME NEW t \in Threads, PolluteEnqueues(t) PROVE StoreTypeOK'
  BY <1>12, EnqueuedType DEF PolluteEnqueues, ThreadRows
<1>13. ASSUME NEW t \in Threads, DeleteMemory(t) PROVE StoreTypeOK'
  BY <1>13, EnqueuedType, NoRowTypes DEF DeleteMemory, ThreadRows
<1>14. CASE ResetRows
  BY <1>14, NoRowTypes DEF ResetRows, ClearMemoryData
<1>15. CASE ResetFiles
  BY <1>15, ClearKeeps DEF storeVars
<1>16. CASE LockExpires \/ LockReady
  BY <1>16 DEF LockExpires, LockReady, GlobalLeaseEnds, GlobalBackoffEnds, CooldownEnds,
               GlobalRows
<1>17. ASSUME NEW t \in Threads, ClaimExpires(t) \/ RetryReady(t) PROVE StoreTypeOK'
  <2>1. [jobs[t] EXCEPT !.leased = FALSE] \in JobRows
        /\ [jobs[t] EXCEPT !.backoff = FALSE] \in JobRows
    BY DEF JobRows
  <2>2. \/ jobs' = [jobs EXCEPT ![t] = [jobs[t] EXCEPT !.leased = FALSE]]
        \/ jobs' = [jobs EXCEPT ![t] = [jobs[t] EXCEPT !.backoff = FALSE]]
    BY <1>17 DEF ClaimExpires, RetryReady, Stage1LeaseEnds, Stage1BackoffEnds
  <2> QED
    BY <1>17, <2>1, <2>2 DEF ClaimExpires, RetryReady, Stage1LeaseEnds, Stage1BackoffEnds
<1> QED
  BY <1>1, <1>2, <1>3, <1>4, <1>5, <1>6, <1>7, <1>8, <1>9, <1>10, <1>11, <1>12, <1>13,
     <1>14, <1>15, <1>16, <1>17
  DEF Next, Phase1, Phase2, Users, Time, KeepsStore

\* The steps that leave the directory and what is recorded about it alone.
KeepsDir(w) ==
    \/ Start(w) \/ RateLimited(w) \/ Scan(w) \/ ClaimsDone(w) \/ ClaimError(w)
    \/ StartPhase2(w) \/ LoadInputs(w) \/ Beat(w) \/ Confirm(w) \/ Succeed(w)
    \/ ConsolidationFails(w) \/ DiffFails(w) \/ Crash(w)
    \/ \E t \in Threads :
          \/ Claim(w, t) \/ LoadRollout(w, t) \/ ExtractSucceeds(w, t)
          \/ ExtractFindsNothing(w, t) \/ ExtractFails(w, t) \/ StoreError(w, t)

\* A step of KeepsDir changes nothing in the memories directory.
LEMMA DirKept ==
    ASSUME NEW w \in Workers, KeepsDir(w)
    PROVE  UNCHANGED dirVars
  BY DEF KeepsDir, Start, RateLimited, Scan, ClaimsDone, ClaimError, StartPhase2,
         LoadInputs, Beat, Confirm, Succeed, ConsolidationFails, DiffFails, Crash, Claim,
         LoadRollout, ExtractSucceeds, ExtractFindsNothing, ExtractFails, StoreError,
         dirVars

\* Of the users and the clock, only the second half of a reset touches the directory.
LEMMA UsersKeepDir ==
    ASSUME Users \/ Time, ~ResetFiles
    PROVE  UNCHANGED dirVars
  BY DEF Users, Time, ResetRows, LockExpires, LockReady, ClaimExpires, RetryReady,
         LeaseEnds, Elsewhere, dirVars

\* What a step takes from the budgets.
Spends == UNCHANGED <<faults, requests>> \/ Fault \/ Request

\* A step of a pipeline spends at most a fault and has no part in a reset.
LEMMA PipelineRest ==
    ASSUME NEW w \in Workers, Phase1(w) \/ Phase2(w) \/ Crash(w)
    PROVE  Spends /\ UNCHANGED resetting
<1>1. CASE Phase1(w)
  BY <1>1, Zenon DEF Phase1, Start, RateLimited, Scan, ClaimsDone, ClaimError, Claim,
     LoadRollout, ExtractSucceeds, ExtractFindsNothing, ExtractFails, StoreError, rest, Spends
<1>2. CASE Phase2(w) \/ Crash(w)
  BY <1>2, Zenon DEF Phase2, StartPhase2, LoadInputs, Beat, Confirm, Succeed,
     ConsolidationFails, DiffFails, Crash, Prepare, SyncInputs, PruneFails, Diff,
     AgentCompletes, ResetBaseline, CommitBaseline, IndexFails, SyncFails, rest, Spends
<1> QED
  BY <1>1, <1>2

\* Of the others only a reset changes the flag, when it starts and when it ends.
LEMMA UsersRest ==
    ASSUME Users \/ Time
    PROVE  Spends /\ (UNCHANGED resetting \/ ResetRows \/ ResetEnds)
<1>1. CASE ResetRows
  BY <1>1, Zenon DEF ResetRows, Spends
<1>2. CASE ResetFiles
  BY <1>2, ClearKeeps, Zenon DEF ResetFiles, ClearGit, ClearNotes, ClearSnapshot, rest, Spends
<1>3. CASE Users /\ ~ResetRows /\ ~ResetFiles
  BY <1>3, Zenon DEF Users, Elsewhere, rest, Spends
<1>4. CASE Time
  BY <1>4, Zenon DEF Time, LockExpires, LockReady, ClaimExpires, RetryReady, LeaseEnds,
     Elsewhere, rest, Spends
<1> QED
  BY <1>1, <1>2, <1>3, <1>4

\* Budgets and reset flag.
LEMMA RestStep ==
    ASSUME TypeOK, Next
    PROVE  /\ faults' \in 0 .. MaxFaults /\ requests' \in 0 .. MaxRequests
           /\ resetting' \in BOOLEAN
<1>1. Spends /\ (UNCHANGED resetting \/ ResetRows \/ ResetEnds)
  BY PipelineRest, UsersRest, Zenon DEF Next
<1>2. faults' \in 0 .. MaxFaults /\ requests' \in 0 .. MaxRequests
  BY <1>1, PipelineAssumption DEF TypeOK, Spends, Fault, Request
<1>3. resetting' \in BOOLEAN
  BY <1>1, Zenon DEF TypeOK, ResetRows, ResetEnds
<1> QED
  BY <1>2, <1>3

\* The directory holds snapshots.
LEMMA DirTypeStep ==
    ASSUME TypeOK, Next
    PROVE  /\ synced' \in Snapshots /\ baseline' \in Snapshots \cup {Missing}
           /\ edited' \in BOOLEAN /\ overrun' \in BOOLEAN
           /\ digested' \subseteq Threads \X Watermark
<1> DEFINE Goal == /\ synced' \in Snapshots /\ baseline' \in Snapshots \cup {Missing}
                   /\ edited' \in BOOLEAN /\ overrun' \in BOOLEAN
                   /\ digested' \subseteq Threads \X Watermark
<1> USE DEF TypeOK
<1>1. ASSUME UNCHANGED dirVars PROVE Goal
  BY <1>1, Zenon DEF dirVars
<1>2. ASSUME NEW w \in Workers, Trespass(w) PROVE overrun' \in BOOLEAN
  BY <1>2, Zenon DEF Trespass
<1>3. ASSUME NEW w \in Workers,
             Prepare(w) \/ ResetBaseline(w) \/ CommitBaseline(w) \/ IndexFails(w)
      PROVE  Goal
  <2>1. baseline' \in Snapshots \cup {Missing} /\ UNCHANGED <<synced, digested>>
    BY <1>3 DEF Prepare, ResetBaseline, CommitBaseline, IndexFails
  <2>2. edited' \in BOOLEAN
    BY <1>3, Zenon DEF Prepare, ResetBaseline, CommitBaseline, IndexFails
  <2>3. overrun' \in BOOLEAN
    BY <1>2, <1>3, Zenon DEF Prepare, ResetBaseline, CommitBaseline, IndexFails
  <2> QED
    BY <2>1, <2>2, <2>3
<1>4. ASSUME NEW w \in Workers, SyncInputs(w) \/ PruneFails(w) \/ SyncFails(w) PROVE Goal
  <2>1. worker[w].inputs \in Snapshots
    BY DEF Pipelines
  <2>2. synced' \in Snapshots
    BY <1>4, <2>1 DEF SyncInputs, PruneFails, SyncFails, Snapshots
  <2>3. overrun' \in BOOLEAN
    BY <1>2, <1>4 DEF SyncInputs, PruneFails, SyncFails
  <2> QED
    BY <1>4, <2>2, <2>3 DEF SyncInputs, PruneFails, SyncFails
<1>5. ASSUME NEW w \in Workers, Diff(w) PROVE Goal
  <2>1. edited' \in BOOLEAN
    BY <1>5, Zenon DEF Diff
  <2> QED
    BY <1>5, <2>1 DEF Diff
<1>6. ASSUME NEW w \in Workers, AgentCompletes(w) PROVE Goal
  <2>1. \A t \in Threads : <<t, synced[t]>> \in Threads \X Watermark
    BY DEF Snapshots
  <2>2. digested' \subseteq Threads \X Watermark
    BY <1>6, <2>1 DEF AgentCompletes
  <2> QED
    BY <1>6, <2>2 DEF AgentCompletes
<1>7. ASSUME ResetFiles PROVE Goal
  <2>1. ASSUME NEW t \in Threads PROVE [synced EXCEPT ![t] = 0] \in Snapshots
    BY StoreAssumption DEF Snapshots, Watermark
  <2>2. synced' \in Snapshots
    BY <1>7, <2>1 DEF ResetFiles, ClearGit, ClearNotes, ClearSnapshot, ResetEnds
  <2>3. edited' \in BOOLEAN /\ overrun' \in BOOLEAN
    BY <1>7, Zenon DEF ResetFiles, ClearGit, ClearNotes, ClearSnapshot, ResetEnds, Clear
  <2>4. baseline' \in {baseline, Missing} /\ digested' \in {digested, {}}
    BY <1>7, Zenon DEF ResetFiles, ClearGit, ClearNotes, ClearSnapshot, ResetEnds
  <2>5. baseline' \in Snapshots \cup {Missing} /\ digested' \subseteq Threads \X Watermark
    BY <2>4
  <2> QED
    BY <2>2, <2>3, <2>5
<1> HIDE DEF Goal
<1>8. ASSUME NEW w \in Workers, KeepsDir(w) PROVE Goal
  BY <1>1, <1>8, DirKept
<1>9. ASSUME Users \/ Time PROVE Goal
  <2>1. CASE ~ResetFiles
    BY <1>1, <1>9, <2>1, UsersKeepDir
  <2> QED
    BY <1>7, <2>1
<1>10. Goal
  BY <1>3, <1>4, <1>5, <1>6, <1>8, <1>9 DEF Next, Phase1, Phase2, KeepsDir
<1> QED
  BY <1>10 DEF Goal

\* Every step preserves the types.
LEMMA TypeStep == TypeOK /\ RunningAhead /\ [Next]_vars => TypeOK'
<1> SUFFICES ASSUME TypeOK, RunningAhead, [Next]_vars PROVE TypeOK'
  OBVIOUS
<1>1. CASE UNCHANGED vars
  BY <1>1, Zenon DEF TypeOK, StoreTypeOK, vars, storeVars
<1>2. CASE Next
  <2>1. worker' \in [Workers -> Pipelines]
    <3>1. ASSUME Users \/ Time PROVE UNCHANGED worker
      BY <3>1, ClearKeeps DEF Users, Time, ResetRows, LockExpires, LockReady,
                  ClaimExpires, RetryReady, LeaseEnds, Elsewhere
    <3> QED
      BY <1>2, <3>1, WorkerStep DEF Next, TypeOK
  <2> QED
    BY <1>2, <2>1, StoreTypeStep, RestStep, DirTypeStep, Zenon DEF TypeOK
<1> QED
  BY <1>1, <1>2

-----------------------------------------------------------------------------
(* What most steps do: no worker holds anything new, no row becomes        *)
(* running, no memory appears.                                             *)

Gone(t) == threads[t].fate \in {"purged", "gone"}

\* What a worker holds after the step it held before.
HoldsLess ==
    \A v \in Workers, t \in Threads : worker'[v].held[t] # "no" =>
        /\ worker'[v].held[t] = worker[v].held[t]
        /\ worker'[v].seen[t] = worker[v].seen[t]
        /\ worker'[v].pc \in {"claim", "extract"}

\* What is running or remembered of a thread after the step was so before.
RowLess(t) ==
    /\ jobs'[t].status = "running" =>
         /\ jobs[t].status = "running" /\ jobs'[t].owner = jobs[t].owner
         /\ jobs'[t].input = jobs[t].input /\ jobs'[t].retries = jobs[t].retries
         /\ jobs'[t].success = jobs[t].success
         /\ Gone(t)' => Gone(t)
    /\ outputs'[t].source # 0 =>
         outputs'[t].source = outputs[t].source /\ jobs'[t].success = jobs[t].success
    /\ Gone(t)' => outputs'[t] = NoOutput

\* Steps of this kind preserve the invariant of the rows.
LEMMA LessStep ==
    ASSUME StoreInv, TypeOK', HoldsLess, \A t \in Threads : RowLess(t)
    PROVE  StoreInv'
<1> USE DEF StoreInv
<1>1. RunningAhead'
  <2> SUFFICES ASSUME NEW t \in Threads, jobs'[t].status = "running"
               PROVE  /\ jobs'[t].retries > 0 /\ jobs'[t].success < jobs'[t].input
                      /\ outputs'[t].source < jobs'[t].input
    BY DEF RunningAhead
  <2>1. jobs[t].success \in Nat /\ jobs[t].input \in Nat
    BY StoreAssumption DEF TypeOK, StoreTypeOK, JobRows, Watermark
  <2> QED
    BY <2>1 DEF RunningAhead, RowLess
<1>2. HeldInPhase1'
  BY DEF HoldsLess, HeldInPhase1
<1>3. ClaimMatches'
  BY DEF HoldsLess, RowLess, ClaimMatches, OwnsStage1, Gone
<1>4. OutputIsLatest'
  BY DEF OutputIsLatest, RowLess
<1>5. DeletedLeavesNoMemory'
  BY DEF DeletedLeavesNoMemory, RowLess, Gone
<1> QED
  BY <1>1, <1>2, <1>3, <1>4, <1>5

\* Rows that do not change are of this kind.
LEMMA RowsKept ==
    ASSUME StoreInv, NEW t \in Threads, threads'[t] = threads[t], jobs'[t] = jobs[t],
           outputs'[t] = outputs[t] \/ outputs'[t] = NoOutput
    PROVE  RowLess(t)
  BY DEF StoreInv, RowLess, Gone, DeletedLeavesNoMemory, NoOutput

\* A step of a pipeline changes no other pipeline, and only a claim or the load of a
\* rollout makes it hold more.
LEMMA HoldsLessStep ==
    ASSUME TypeOK, HeldInPhase1, NEW w \in Workers, Phase1(w) \/ Phase2(w) \/ Crash(w),
           ~ \E t \in Threads : Claim(w, t) \/ LoadRollout(w, t)
    PROVE  HoldsLess
<1> USE DEF TypeOK, At
<1>1. ASSUME NEW p, worker' = [worker EXCEPT ![w] = p],
             \A t \in Threads : p.held[t] # "no" =>
                /\ p.held[t] = worker[w].held[t] /\ p.seen[t] = worker[w].seen[t]
                /\ p.pc \in {"claim", "extract"}
      PROVE  HoldsLess
  BY <1>1 DEF HoldsLess, HeldInPhase1, Pipelines
<1>2. ASSUME Leave(w) PROVE HoldsLess
  <2>1. \A t \in Threads : Idle.held[t] = "no"
    BY DEF Idle
  <2> QED
    BY <1>1, <1>2, <2>1 DEF Leave
<1>3. ASSUME NEW pc, worker' = [worker EXCEPT ![w] = [Idle EXCEPT !.pc = pc]]
      PROVE  HoldsLess
  <2>1. \A t \in Threads : [Idle EXCEPT !.pc = pc].held[t] = "no"
    BY DEF Idle
  <2> QED
    BY <1>1, <1>3, <2>1
<1>4. ASSUME worker[w].pc \notin {"claim", "extract"},
             worker'[w].held = worker[w].held,
             \E p : worker' = [worker EXCEPT ![w] = p]
      PROVE  HoldsLess
  BY <1>4 DEF HoldsLess, HeldInPhase1, Pipelines
<1>5. ASSUME worker[w].pc \notin {"claim", "extract"}, NEW pc, Goto(w, pc) PROVE HoldsLess
  <2>1. worker' = [worker EXCEPT ![w] = [worker[w] EXCEPT !.pc = pc]]
    BY <1>5 DEF Goto
  <2>2. worker'[w].held = worker[w].held
    BY <2>1 DEF Pipelines
  <2> QED
    BY <1>4, <1>5, <2>1, <2>2
<1>6. ASSUME NEW t \in Threads, Drop(w, t) PROVE HoldsLess
  BY <1>6 DEF Drop, HoldsLess, HeldInPhase1, Pipelines, Holdings, Snapshots
<1>7. ASSUME UNCHANGED worker PROVE HoldsLess
  BY <1>7 DEF HoldsLess, HeldInPhase1
<1>8. CASE Scan(w) \/ LoadInputs(w)
  <2>1. worker'[w].held = worker[w].held
    BY <1>8 DEF Scan, LoadInputs, Pipelines
  <2>2. \E p : worker' = [worker EXCEPT ![w] = p]
    BY <1>8 DEF Scan, LoadInputs
  <2> QED
    BY <1>4, <1>8, <2>1, <2>2 DEF Scan, LoadInputs
<1>9. CASE ClaimsDone(w)
  <2> DEFINE new == [t \in Threads |-> IF t \in Held(w) THEN worker[w].seen[t] ELSE 0]
             p == [worker[w] EXCEPT !.pc = "extract", !.todo = {}, !.seen = new]
  <2>1. worker' = [worker EXCEPT ![w] = p]
    BY <1>9 DEF ClaimsDone
  <2>2. p.held = worker[w].held /\ p.seen = new /\ p.pc = "extract"
    BY DEF Pipelines
  <2>3. \A t \in Threads : worker[w].held[t] # "no" => new[t] = worker[w].seen[t]
    BY DEF Held
  <2> HIDE DEF new, p
  <2> QED
    BY <1>1, <2>1, <2>2, <2>3
<1>10. CASE ClaimError(w) \/ StartPhase2(w)
  BY <1>2, <1>3, <1>10 DEF ClaimError, StartPhase2
<1>11. CASE Start(w) \/ Prepare(w) \/ SyncInputs(w) \/ PruneFails(w) \/ Diff(w)
              \/ AgentCompletes(w) \/ Confirm(w) \/ ResetBaseline(w) \/ CommitBaseline(w)
  BY <1>2, <1>5, <1>11
  DEF Start, Prepare, SyncInputs, PruneFails, Diff, AgentCompletes, Confirm,
      ResetBaseline, CommitBaseline
<1>12. CASE RateLimited(w) \/ Beat(w) \/ Succeed(w) \/ ConsolidationFails(w)
              \/ DiffFails(w) \/ IndexFails(w) \/ SyncFails(w) \/ Crash(w)
  BY <1>2, <1>7, <1>12
  DEF RateLimited, Beat, Succeed, ConsolidationFails, DiffFails, IndexFails, SyncFails, Crash
<1>13. ASSUME NEW t \in Threads,
              \/ ExtractSucceeds(w, t) \/ ExtractFindsNothing(w, t)
              \/ ExtractFails(w, t) \/ StoreError(w, t)
       PROVE  HoldsLess
  BY <1>6, <1>13 DEF ExtractSucceeds, ExtractFindsNothing, ExtractFails, StoreError
<1> QED
  BY <1>8, <1>9, <1>10, <1>11, <1>12, <1>13 DEF Phase1, Phase2

\* claim: the row is given to a worker that has seen exactly this version, which is
\* later than anything extracted.
LEMMA ClaimStep ==
    ASSUME StoreInv, TypeOK', NEW w \in Workers, NEW t \in Threads, Claim(w, t)
    PROVE  StoreInv'
<1> USE StoreAssumption DEF StoreInv, TypeOK, StoreTypeOK, At
<1>1. /\ UNCHANGED <<threads, outputs>>
      /\ worker[w].pc = "claim"
      /\ \A v \in Workers \ {w} : worker'[v] = worker[v]
      /\ worker'[w].pc = "claim" /\ worker'[w].seen = worker[w].seen
  BY DEF Claim, Pipelines
<1>2. CASE UNCHANGED jobs /\ worker' = [worker EXCEPT ![w].todo = @ \ {t}]
  <2>1. worker'[w].held = worker[w].held
    BY <1>2 DEF Pipelines
  <2>2. HoldsLess
    BY <1>1, <2>1 DEF HoldsLess, HeldInPhase1
  <2>3. \A u \in Threads : RowLess(u)
    BY <1>1, <1>2, RowsKept
  <2> QED
    BY <2>2, <2>3, LessStep
<1>3. CASE /\ Stage1Claimable(t, worker[w].seen[t]) /\ ClaimStage1(w, t, worker[w].seen[t])
           /\ worker' = [worker EXCEPT ![w].todo = @ \ {t}, ![w].held[t] = "claimed"]
  <2>1. /\ \A u \in Threads \ {t} : jobs'[u] = jobs[u]
        /\ jobs'[t].status = "running" /\ jobs'[t].owner = w
        /\ jobs'[t].input = worker[w].seen[t] /\ jobs'[t].success = jobs[t].success
        /\ jobs'[t].retries = IF worker[w].seen[t] > jobs[t].input THEN MaxRetries
                              ELSE jobs[t].retries
    BY <1>3 DEF ClaimStage1
  <2>2. /\ \A u \in Threads \ {t} : worker'[w].held[u] = worker[w].held[u]
        /\ worker'[w].held[t] = "claimed"
    BY <1>3 DEF Pipelines, Holdings
  <2>3. /\ outputs[t].source < worker[w].seen[t] /\ jobs[t].success < worker[w].seen[t]
        /\ worker[w].seen[t] > jobs[t].input \/ jobs[t].retries > 0
    BY <1>3 DEF Stage1Claimable
  <2>4. RunningAhead'
    BY <1>1, <2>1, <2>3 DEF RunningAhead
  <2>5. HeldInPhase1'
    BY <1>1 DEF HeldInPhase1
  <2>6. ClaimMatches'
    <3> SUFFICES ASSUME NEW v \in Workers, NEW u \in Threads, OwnsStage1(v, u)'
                 PROVE  /\ worker'[v].held[u] # "no" => worker'[v].seen[u] = jobs'[u].input
                        /\ threads'[u].fate \in {"purged", "gone"} =>
                               worker'[v].held[u] # "loaded"
      BY DEF ClaimMatches
    <3>1. CASE u = t
      BY <1>1, <2>1, <2>2, <3>1 DEF OwnsStage1
    <3>2. CASE u # t
      BY <1>1, <2>1, <2>2, <3>2 DEF OwnsStage1, ClaimMatches
    <3> QED
      BY <3>1, <3>2
  <2>7. OutputIsLatest' /\ DeletedLeavesNoMemory'
    BY <1>1, <2>1 DEF OutputIsLatest, DeletedLeavesNoMemory
  <2> QED
    BY <2>4, <2>5, <2>6, <2>7
<1> QED
  BY <1>2, <1>3 DEF Claim

\* A rollout is loaded only while it is there.
LEMMA LoadRolloutStep ==
    ASSUME StoreInv, TypeOK', NEW w \in Workers, NEW t \in Threads, LoadRollout(w, t)
    PROVE  StoreInv'
<1> USE DEF StoreInv, TypeOK, At
<1>1. /\ UNCHANGED storeVars
      /\ \A v \in Workers \ {w} : worker'[v] = worker[v]
      /\ worker'[w].pc = worker[w].pc /\ worker'[w].seen = worker[w].seen
      /\ \A u \in Threads \ {t} : worker'[w].held[u] = worker[w].held[u]
      /\ worker[w].pc = "extract" /\ worker[w].held[t] = "claimed"
      /\ threads[t].fate = "kept"
  BY DEF LoadRollout, Pipelines, Holdings
<1>2. UNCHANGED <<threads, jobs, outputs>>
  BY <1>1 DEF storeVars
<1>3. HeldInPhase1'
  BY <1>1 DEF HeldInPhase1
<1>4. ClaimMatches'
  BY <1>1, <1>2 DEF ClaimMatches, OwnsStage1
<1>5. RunningAhead' /\ OutputIsLatest' /\ DeletedLeavesNoMemory'
  BY <1>2 DEF RunningAhead, OutputIsLatest, DeletedLeavesNoMemory
<1> QED
  BY <1>3, <1>4, <1>5

\* A result is stored by the owner of the row, for the version that was claimed.
LEMMA ExtractSucceedsStep ==
    ASSUME StoreInv, TypeOK', HoldsLess, NEW w \in Workers, NEW t \in Threads,
           ExtractSucceeds(w, t)
    PROVE  StoreInv'
<1> USE StoreAssumption DEF StoreInv, TypeOK, StoreTypeOK, At
<1>1. UNCHANGED threads
  BY DEF ExtractSucceeds
<1>2. CASE ~OwnsStage1(w, t)
  <2>1. UNCHANGED <<jobs, outputs>>
    BY <1>2 DEF ExtractSucceeds, Stage1Succeeded
  <2>2. \A u \in Threads : RowLess(u)
    BY <1>1, <2>1, RowsKept
  <2> QED
    BY <2>2, LessStep
<1>3. CASE OwnsStage1(w, t)
  <2>1. /\ worker[w].seen[t] = jobs[t].input /\ ~Gone(t)
        /\ outputs[t].source < jobs[t].input /\ jobs[t].input \in Nat
        /\ outputs[t].source \in Nat
    BY <1>3 DEF ExtractSucceeds, ClaimMatches, OwnsStage1, RunningAhead, Gone, JobRows,
                OutputRows, Watermark
  <2>2. /\ jobs' = [jobs EXCEPT ![t] = Done(jobs[t])]
        /\ outputs' = [outputs EXCEPT ![t] = [outputs[t] EXCEPT !.source =
              IF worker[w].seen[t] >= outputs[t].source THEN worker[w].seen[t]
              ELSE outputs[t].source]]
    BY <1>3 DEF ExtractSucceeds, Stage1Succeeded
  <2>3. /\ \A u \in Threads \ {t} : jobs'[u] = jobs[u] /\ outputs'[u] = outputs[u]
        /\ jobs'[t] = Done(jobs[t])
        /\ outputs'[t] = [outputs[t] EXCEPT !.source = jobs[t].input]
    BY <2>1, <2>2
  <2>4. jobs'[t].status = "done" /\ jobs'[t].success = jobs[t].input
    BY <2>3 DEF Done, JobRows
  <2>5. outputs'[t].source = jobs[t].input
    BY <2>3 DEF OutputRows
  <2>6. RunningAhead' /\ OutputIsLatest' /\ DeletedLeavesNoMemory'
    BY <1>1, <2>1, <2>3, <2>4, <2>5
    DEF RunningAhead, OutputIsLatest, DeletedLeavesNoMemory, Gone
  <2>7. HeldInPhase1'
    BY DEF HoldsLess, HeldInPhase1
  <2>8. ClaimMatches'
    BY <1>1, <2>3, <2>4 DEF HoldsLess, ClaimMatches, OwnsStage1
  <2> QED
    BY <2>6, <2>7, <2>8
<1> QED
  BY <1>2, <1>3

\* The other results of a worker, and its prune, end claims and remove memories only.
LEMMA ResultsLess ==
    ASSUME StoreInv, NEW w \in Workers, NEW t \in Threads,
           \/ ExtractFindsNothing(w, t) \/ ExtractFails(w, t)
           \/ Start(w) \/ Succeed(w)
    PROVE  \A u \in Threads : RowLess(u)
<1> USE DEF StoreInv, TypeOK, StoreTypeOK
<1>1. CASE ExtractFindsNothing(w, t)
  <2>1. \/ UNCHANGED <<jobs, outputs>>
        \/ /\ jobs' = [jobs EXCEPT ![t] = Done(jobs[t])]
           /\ outputs' = [outputs EXCEPT ![t] = NoOutput]
    BY <1>1 DEF ExtractFindsNothing, Stage1NoOutput
  <2>2. Done(jobs[t]).status = "done"
    BY DEF Done, JobRows
  <2>3. ASSUME jobs'[t] = Done(jobs[t]), outputs'[t] = NoOutput PROVE RowLess(t)
    BY <2>2, <2>3 DEF RowLess, NoOutput
  <2> QED
    BY <1>1, <2>1, <2>3, RowsKept DEF ExtractFindsNothing
<1>2. CASE ExtractFails(w, t)
  <2> DEFINE j == [jobs[t] EXCEPT !.status = "error", !.leased = FALSE,
                       !.backoff = TRUE, !.retries = jobs[t].retries - 1]
  <2>1. j.status = "error" /\ j.success = jobs[t].success
    BY DEF JobRows
  <2>2. UNCHANGED jobs \/ jobs' = [jobs EXCEPT ![t] = j]
    BY <1>2 DEF ExtractFails, Stage1Failed
  <2>3. UNCHANGED <<threads, outputs>>
    BY <1>2 DEF ExtractFails, Stage1Failed
  <2> HIDE DEF j
  <2>4. ASSUME jobs'[t] = j PROVE RowLess(t)
    BY <2>1, <2>3, <2>4 DEF RowLess, Gone, DeletedLeavesNoMemory
  <2> QED
    BY <2>2, <2>3, <2>4, RowsKept
<1>3. CASE Start(w)
  BY <1>3, RowsKept DEF Start, Prune
<1>4. CASE Succeed(w)
  <2>1. UNCHANGED <<threads, jobs>>
    BY <1>4 DEF Succeed
  <2>2. CASE UNCHANGED outputs
    BY <2>1, <2>2, RowsKept
  <2>3. CASE ~ UNCHANGED outputs
    <3> SUFFICES ASSUME NEW u \in Threads PROVE RowLess(u)
      OBVIOUS
    <3> DEFINE in == worker[w].inputs[u]
    <3>1. outputs'[u] = [outputs[u] EXCEPT !.selected =
                             IF in # 0 /\ outputs[u].source = in THEN in ELSE 0]
      BY <1>4, <2>3 DEF Succeed, GlobalSucceeded
    <3> HIDE DEF in
    <3>2. outputs[u] \in OutputRows
      OBVIOUS
    <3>3. outputs'[u].source = outputs[u].source
      BY <3>1, <3>2 DEF OutputRows
    <3>4. outputs[u] = NoOutput => outputs'[u] = NoOutput
      BY <3>1 DEF NoOutput
    <3> QED
      BY <2>1, <3>3, <3>4 DEF RowLess, Gone, DeletedLeavesNoMemory
  <2> QED
    BY <2>2, <2>3
<1> QED
  BY <1>1, <1>2, <1>3, <1>4

\* So do the other writers of the databases, and time.
LEMMA OthersLess ==
    ASSUME StoreInv, Users \/ Time
    PROVE  HoldsLess /\ \A u \in Threads : RowLess(u)
<1> USE DEF StoreInv, TypeOK, StoreTypeOK
<1>1. HoldsLess
  <2>1. UNCHANGED worker
    BY ClearKeeps DEF Users, Time, ResetRows, LockExpires, LockReady, ClaimExpires,
           RetryReady, LeaseEnds, Elsewhere
  <2> QED
    BY <2>1 DEF HoldsLess, HeldInPhase1
<1> DEFINE Goal == \A u \in Threads : RowLess(u)
<1>2. ASSUME UNCHANGED <<threads, jobs, outputs>> PROVE Goal
  BY <1>2, RowsKept
<1>4. ASSUME NEW t \in Threads,
             ThreadUpdated(t) \/ PolluteReads(t) \/ PolluteMarks(t) \/ PolluteEnqueues(t)
             \/ DeleteRollout(t) \/ DeleteThread(t) \/ ReconcileReads(t) \/ ReconcileWrites(t)
      PROVE  Goal
  <2>1. /\ UNCHANGED <<jobs, outputs>>
        /\ \A u \in Threads \ {t} : threads'[u] = threads[u]
    BY <1>4 DEF ThreadUpdated, PolluteReads, PolluteMarks, PolluteEnqueues, DeleteRollout,
                DeleteThread, ReconcileReads, ReconcileWrites
  <2>2. Gone(t)' => Gone(t)
    <3>1. CASE ThreadUpdated(t) \/ PolluteReads(t) \/ PolluteMarks(t) \/ PolluteEnqueues(t)
               \/ DeleteRollout(t) \/ DeleteThread(t) \/ ReconcileReads(t)
      BY <3>1 DEF ThreadUpdated, PolluteReads, PolluteMarks, PolluteEnqueues, DeleteRollout,
                  DeleteThread, ReconcileReads, Gone, ThreadRows
    <3>2. CASE ReconcileWrites(t)
      BY <3>2 DEF ReconcileWrites, Gone, ThreadRows
    <3> QED
      BY <1>4, <3>1, <3>2
  <2>3. RowLess(t)
    BY <2>1, <2>2 DEF RowLess, Gone, DeletedLeavesNoMemory
  <2> QED
    BY <2>1, <2>3, RowsKept
<1>5. ASSUME NEW t \in Threads, DeleteMemory(t) PROVE Goal
  <2>1. /\ \A u \in Threads \ {t} : /\ threads'[u] = threads[u] /\ jobs'[u] = jobs[u]
                                    /\ outputs'[u] = outputs[u]
        /\ jobs'[t] = NoJob /\ outputs'[t] = NoOutput
    BY <1>5 DEF DeleteMemory
  <2>2. RowLess(t)
    BY <2>1 DEF RowLess, NoJob, NoOutput
  <2> QED
    BY <2>1, <2>2, RowsKept
<1>6. ASSUME ResetRows PROVE Goal
  BY <1>6 DEF ResetRows, ClearMemoryData, RowLess, NoJob, NoOutput
<1>7. ASSUME NEW t \in Threads, ClaimExpires(t) \/ RetryReady(t) PROVE Goal
  <2>1. /\ UNCHANGED <<threads, outputs>>
        /\ \A u \in Threads \ {t} : jobs'[u] = jobs[u]
    BY <1>7 DEF ClaimExpires, RetryReady, Stage1LeaseEnds, Stage1BackoffEnds
  <2>2. \/ jobs'[t] = [jobs[t] EXCEPT !.leased = FALSE]
        \/ jobs'[t] = [jobs[t] EXCEPT !.backoff = FALSE]
    BY <1>7 DEF ClaimExpires, RetryReady, Stage1LeaseEnds, Stage1BackoffEnds
  <2>3. /\ jobs'[t].status = jobs[t].status /\ jobs'[t].owner = jobs[t].owner
        /\ jobs'[t].input = jobs[t].input /\ jobs'[t].retries = jobs[t].retries
        /\ jobs'[t].success = jobs[t].success
    BY <2>2 DEF JobRows
  <2>4. RowLess(t)
    BY <2>1, <2>3 DEF RowLess, Gone, DeletedLeavesNoMemory
  <2> QED
    BY <2>1, <2>4, RowsKept
<1> HIDE DEF Goal
<1>8. CASE ResetFiles \/ LockExpires \/ LockReady
  BY <1>1, <1>2, <1>8, ClearKeeps
  DEF LockExpires, LockReady, GlobalLeaseEnds, GlobalBackoffEnds, CooldownEnds, storeVars,
      Goal
<1>9. Goal
  BY <1>4, <1>5, <1>6, <1>7, <1>8 DEF Users, Time, Goal
<1> QED
  BY <1>1, <1>9 DEF Goal

\* Every step preserves the invariant of the rows.
LEMMA StoreStep == StoreInv /\ [Next]_vars => StoreInv'
<1> SUFFICES ASSUME StoreInv, [Next]_vars PROVE StoreInv'
  OBVIOUS
<1>1. TypeOK'
  BY TypeStep DEF StoreInv
<1>2. CASE UNCHANGED vars
  <2>1. UNCHANGED <<threads, jobs, outputs, worker>>
    BY <1>2 DEF vars, storeVars
  <2> QED
    BY <1>1, <2>1 DEF StoreInv, RunningAhead, HeldInPhase1, ClaimMatches, OwnsStage1,
                      OutputIsLatest, DeletedLeavesNoMemory
<1>3. CASE Users \/ Time
  BY <1>1, <1>3, OthersLess, LessStep
<1>4. ASSUME NEW w \in Workers, NEW t \in Threads, Claim(w, t) \/ LoadRollout(w, t)
      PROVE  StoreInv'
  BY <1>1, <1>4, ClaimStep, LoadRolloutStep
<1>5. ASSUME NEW w \in Workers, Phase1(w) \/ Phase2(w) \/ Crash(w),
             ~ \E t \in Threads : Claim(w, t) \/ LoadRollout(w, t)
      PROVE  StoreInv'
  <2>1. HoldsLess
    BY <1>5, HoldsLessStep DEF StoreInv
  <2>2. ASSUME NEW t \in Threads, ExtractSucceeds(w, t) PROVE StoreInv'
    BY <1>1, <2>1, <2>2, ExtractSucceedsStep
  <2>3. ASSUME UNCHANGED <<threads, jobs, outputs>> PROVE StoreInv'
    BY <1>1, <2>1, <2>3, RowsKept, LessStep
  <2>4. ASSUME NEW t \in Threads, ExtractFindsNothing(w, t) \/ ExtractFails(w, t)
        PROVE  StoreInv'
    BY <1>1, <2>1, <2>4, ResultsLess, LessStep
  <2>5. ASSUME Start(w) \/ Succeed(w) PROVE StoreInv'
    <3>1. ASSUME NEW t \in Threads PROVE \A u \in Threads : RowLess(u)
      BY <2>5, ResultsLess
    <3> QED
      BY <1>1, <2>1, <3>1, LessStep
  <2>6. ASSUME KeepsStore(w) PROVE StoreInv'
    BY <2>3, <2>6, StoreKept DEF storeVars
  <2>7. ASSUME StartPhase2(w) \/ Beat(w) \/ Confirm(w) \/ ConsolidationFails(w)
               \/ DiffFails(w) \/ IndexFails(w) \/ SyncFails(w)
        PROVE  StoreInv'
    BY <2>3, <2>7 DEF StartPhase2, Beat, Confirm, ConsolidationFails, DiffFails, IndexFails,
                      SyncFails
  <2> QED
    BY <1>5, <2>2, <2>4, <2>5, <2>6, <2>7 DEF Phase1, Phase2, KeepsStore
<1> QED
  BY <1>2, <1>3, <1>4, <1>5 DEF Next

\* The rows and the directory always have their types.
THEOREM TypeCorrect == Spec => []TypeOK
<1>1. StoreInv => TypeOK
  BY DEF StoreInv
<1> QED
  BY <1>1, InitStore, StoreStep, PTL DEF Spec

\* The memory kept for a thread is always the one of its latest extraction.
THEOREM LatestOutput == Spec => []OutputIsLatest
<1>1. StoreInv => OutputIsLatest
  BY DEF StoreInv
<1> QED
  BY <1>1, InitStore, StoreStep, PTL DEF Spec

\* No extraction in flight brings the memory of a deleted thread back.
THEOREM DeletedStaysDeleted == Spec => []DeletedLeavesNoMemory
<1>1. StoreInv => DeletedLeavesNoMemory
  BY DEF StoreInv
<1> QED
  BY <1>1, InitStore, StoreStep, PTL DEF Spec

-----------------------------------------------------------------------------
(* The directory, while nobody changes it without the lock.                *)

\* A missing baseline is not a snapshot, unless there are no threads.
LEMMA MissingEmpty == Missing \in Snapshots => Threads = {}
  BY DEF Missing, Snapshots

\* The invariant of the directory holds at the start.
LEMMA InitDir == Init => DirInv
<1> SUFFICES ASSUME Init PROVE DirInv
  OBVIOUS
<1> USE DEF Init, StoreInit
<1>1. MissingSafe
  BY DEF MissingSafe, Known, Empty
<1>2. \A w \in Workers : ~OwnsGlobal(w)
  BY DEF OwnsGlobal, NoGlobal
<1>3. ResetQuiet /\ SelectedDigested
  BY DEF ResetQuiet, SelectedDigested, NoOutput
<1>4. BaselineDigested
  BY DEF BaselineDigested
<1> QED
  BY <1>1, <1>2, <1>3, <1>4 DEF DirInv, OwnerSees

\* Only a claim makes a worker the owner of the global job.
LEMMA OwnersLess ==
    ASSUME TypeOK, Next, NEW v \in Workers, OwnsGlobal(v)'
    PROVE  OwnsGlobal(v) \/ StartPhase2(v)
<1> USE DEF TypeOK, StoreTypeOK
<1>1. ASSUME global' = Enqueued PROVE OwnsGlobal(v)
  BY <1>1 DEF Enqueued, OwnsGlobal, GlobalRows
<1>2. ASSUME UNCHANGED global PROVE OwnsGlobal(v)
  BY <1>2 DEF OwnsGlobal
<1>3. ASSUME NEW w \in Workers,
             \/ Beat(w) \/ Confirm(w) \/ Succeed(w) \/ ConsolidationFails(w)
             \/ DiffFails(w) \/ IndexFails(w) \/ SyncFails(w)
      PROVE  OwnsGlobal(v)
  BY <1>3 DEF Beat, Confirm, Succeed, ConsolidationFails, DiffFails, IndexFails, SyncFails,
              Heartbeat, GlobalSucceeded, GlobalFailed, OwnsGlobal, GlobalRows
<1>4. ASSUME NEW w \in Workers, StartPhase2(w) PROVE OwnsGlobal(v) \/ StartPhase2(v)
  BY <1>4, <1>2 DEF StartPhase2, ClaimGlobal, OwnsGlobal
<1>5. ASSUME NEW w \in Workers, KeepsStore(w) \/ Start(w) PROVE OwnsGlobal(v)
  BY <1>5, <1>2, StoreKept DEF Start, storeVars
<1>6. ASSUME NEW w \in Workers, NEW t \in Threads,
             \/ Claim(w, t) \/ ExtractSucceeds(w, t)
             \/ ExtractFindsNothing(w, t) \/ ExtractFails(w, t)
      PROVE  OwnsGlobal(v)
  BY <1>6, <1>1, <1>2 DEF Claim, ExtractSucceeds, Stage1Succeeded,
     ExtractFindsNothing, Stage1NoOutput, ExtractFails, Stage1Failed
<1>7. ASSUME NEW t \in Threads,
             \/ ThreadUpdated(t) \/ PolluteReads(t) \/ PolluteMarks(t)
             \/ PolluteEnqueues(t) \/ DeleteMemory(t) \/ DeleteThread(t)
             \/ DeleteRollout(t) \/ ReconcileReads(t) \/ ReconcileWrites(t)
             \/ ClaimExpires(t) \/ RetryReady(t)
      PROVE  OwnsGlobal(v)
  BY <1>7, <1>1, <1>2 DEF ThreadUpdated, PolluteReads, PolluteMarks, PolluteEnqueues,
     DeleteMemory, DeleteThread, DeleteRollout, ReconcileReads, ReconcileWrites, ClaimExpires,
     RetryReady, Stage1LeaseEnds, Stage1BackoffEnds
<1>8. CASE ResetRows
  BY <1>8 DEF ResetRows, ClearMemoryData, NoGlobal, OwnsGlobal
<1>9. CASE LockExpires \/ LockReady
  BY <1>9 DEF LockExpires, LockReady, GlobalLeaseEnds, GlobalBackoffEnds, CooldownEnds,
     OwnsGlobal, GlobalRows
<1>10. CASE ResetFiles
  BY <1>2, <1>10, ClearKeeps DEF storeVars
<1> QED
  BY <1>3, <1>4, <1>5, <1>6, <1>7, <1>8, <1>9, <1>10
  DEF Next, Phase1, Phase2, Users, Time, KeepsStore

\* A worker whose pipeline stands still does not become the owner.
LEMMA OwnerKept ==
    ASSUME TypeOK, Next, NEW v \in Workers, worker'[v] = worker[v], OwnsGlobal(v)'
    PROVE  OwnsGlobal(v)
<1>1. ASSUME StartPhase2(v) PROVE FALSE
  <2>1. [Idle EXCEPT !.pc = "prepare"].pc = "prepare" /\ Idle.pc = "idle"
    BY DEF Idle
  <2>2. worker[v].pc = "extract" /\ worker'[v].pc \in {"prepare", "idle"}
    BY <1>1, <2>1 DEF StartPhase2, Leave, At, TypeOK
  <2> QED
    BY <2>2
<1> QED
  BY <1>1, OwnersLess

\* Only the end of a consolidation selects memories.
LEMMA SelectsLess ==
    ASSUME TypeOK, Next, NEW t \in Threads
    PROVE  \/ outputs'[t].selected \in {0, outputs[t].selected}
           \/ \E w \in Workers : Succeed(w) /\ OwnsGlobal(w)
<1> DEFINE Less == outputs'[t].selected \in {0, outputs[t].selected}
<1> USE DEF TypeOK, StoreTypeOK
<1>1. ASSUME UNCHANGED outputs PROVE Less
  BY <1>1
<1>2. NoOutput.selected = 0
  BY DEF NoOutput
<1>3. ASSUME NEW w \in Workers, Start(w) PROVE Less
  BY <1>2, <1>3 DEF Start, Prune
<1>4. ASSUME NEW w \in Workers, NEW u \in Threads, ExtractSucceeds(w, u) PROVE Less
  <2>1. CASE UNCHANGED outputs
    BY <2>1
  <2>2. CASE ~ UNCHANGED outputs
    <3> DEFINE source == IF worker[w].seen[u] >= outputs[u].source THEN worker[w].seen[u]
                         ELSE outputs[u].source
    <3>1. outputs' = [outputs EXCEPT ![u] = [outputs[u] EXCEPT !.source = source]]
      BY <1>4, <2>2 DEF ExtractSucceeds, Stage1Succeeded
    <3> HIDE DEF source
    <3> QED
      BY <3>1 DEF OutputRows
  <2> QED
    BY <2>1, <2>2
<1>5. ASSUME NEW w \in Workers, NEW u \in Threads,
             ExtractFindsNothing(w, u) \/ ExtractFails(w, u) \/ Claim(w, u)
      PROVE  Less
  BY <1>2, <1>5 DEF ExtractFindsNothing, Stage1NoOutput, ExtractFails, Stage1Failed, Claim
<1>6. ASSUME NEW u \in Threads,
             \/ ThreadUpdated(u) \/ PolluteReads(u) \/ PolluteMarks(u)
             \/ PolluteEnqueues(u) \/ DeleteMemory(u) \/ DeleteThread(u)
             \/ DeleteRollout(u) \/ ReconcileReads(u) \/ ReconcileWrites(u)
             \/ ClaimExpires(u) \/ RetryReady(u)
      PROVE  Less
  BY <1>2, <1>6 DEF ThreadUpdated, PolluteReads, PolluteMarks, PolluteEnqueues,
     DeleteMemory, DeleteThread, DeleteRollout, ReconcileReads, ReconcileWrites, ClaimExpires,
     RetryReady, Stage1LeaseEnds, Stage1BackoffEnds
<1>7. ASSUME ResetRows PROVE Less
  BY <1>2, <1>7 DEF ResetRows, ClearMemoryData
<1>8. ASSUME ResetFiles \/ LockExpires \/ LockReady PROVE Less
  BY <1>1, <1>8, ClearKeeps DEF storeVars, LockExpires, LockReady, GlobalLeaseEnds,
     GlobalBackoffEnds, CooldownEnds
<1>9. ASSUME NEW w \in Workers, Succeed(w), ~OwnsGlobal(w) PROVE Less
  BY <1>9 DEF Succeed, GlobalSucceeded
<1>10. ASSUME NEW w \in Workers,
              \/ KeepsStore(w) \/ StartPhase2(w) \/ Beat(w) \/ Confirm(w)
              \/ ConsolidationFails(w) \/ DiffFails(w) \/ IndexFails(w) \/ SyncFails(w)
       PROVE  Less
  BY <1>1, <1>10, StoreKept DEF storeVars, StartPhase2, Beat, Confirm, ConsolidationFails,
     DiffFails, IndexFails, SyncFails
<1> HIDE DEF Less
<1>11. Less \/ \E w \in Workers : Succeed(w) /\ OwnsGlobal(w)
  BY <1>3, <1>4, <1>5, <1>6, <1>7, <1>8, <1>9, <1>10
  DEF Next, Phase1, Phase2, Users, Time, KeepsStore
<1> QED
  BY <1>11 DEF Less

\* A step of one pipeline leaves the pipeline of another worker alone.
LEMMA OtherWorker ==
    ASSUME TypeOK, NEW w \in Workers, NEW v \in Workers \ {w},
           Phase1(w) \/ Phase2(w) \/ Crash(w)
    PROVE  worker'[v] = worker[v]
<1> USE DEF TypeOK
<1>2. ASSUME NEW pc, Goto(w, pc) PROVE worker'[v] = worker[v]
  BY <1>2 DEF Goto
<1>3. ASSUME Leave(w) PROVE worker'[v] = worker[v]
  BY <1>3 DEF Leave
<1>4. ASSUME NEW t \in Threads, Drop(w, t) PROVE worker'[v] = worker[v]
  BY <1>4 DEF Drop
<1>5. ASSUME NEW t \in Threads, Claim(w, t) PROVE worker'[v] = worker[v]
  BY <1>5 DEF Claim
<1>6. ASSUME NEW t \in Threads, LoadRollout(w, t)
      PROVE  worker'[v] = worker[v]
  BY <1>6 DEF LoadRollout
<1>7. CASE Scan(w) \/ ClaimsDone(w) \/ ClaimError(w) \/ LoadInputs(w)
  BY <1>7 DEF Scan, ClaimsDone, ClaimError, LoadInputs
<1>8. CASE StartPhase2(w)
  BY <1>3, <1>8 DEF StartPhase2
<1>9. CASE Start(w) \/ Prepare(w) \/ SyncInputs(w) \/ PruneFails(w) \/ Diff(w)
           \/ AgentCompletes(w) \/ Confirm(w) \/ ResetBaseline(w) \/ CommitBaseline(w)
  BY <1>2, <1>3, <1>9
  DEF Start, Prepare, SyncInputs, PruneFails, Diff, AgentCompletes, Confirm,
      ResetBaseline, CommitBaseline
<1>10. CASE RateLimited(w) \/ Beat(w) \/ Succeed(w) \/ ConsolidationFails(w)
            \/ DiffFails(w) \/ IndexFails(w) \/ SyncFails(w) \/ Crash(w)
  BY <1>3, <1>10
  DEF RateLimited, Beat, Succeed, ConsolidationFails, DiffFails, IndexFails, SyncFails, Crash
<1>11. ASSUME NEW t \in Threads,
              \/ ExtractSucceeds(w, t) \/ ExtractFindsNothing(w, t)
              \/ ExtractFails(w, t) \/ StoreError(w, t)
       PROVE  worker'[v] = worker[v]
  BY <1>4, <1>11 DEF ExtractSucceeds, ExtractFindsNothing, ExtractFails, StoreError
<1> QED
  BY <1>5, <1>6, <1>7, <1>8, <1>9, <1>10, <1>11 DEF Phase1, Phase2

\* It leaves the directory of the owner alone too, or marks it as overrun.
LEMMA OtherPipeline ==
    ASSUME NEW w \in Workers, NEW v \in Workers \ {w},
           Phase1(w) \/ Phase2(w) \/ Crash(w), OwnsGlobal(v), ~overrun'
    PROVE  synced' = synced /\ baseline' = baseline
<1>1. ~OwnsGlobal(w)
  BY DEF OwnsGlobal
<1>2. ~Trespass(w)
  BY <1>1 DEF Trespass
<1>3. ASSUME KeepsDir(w) PROVE synced' = synced /\ baseline' = baseline
  BY <1>3, DirKept DEF dirVars
<1> QED
  BY <1>2, <1>3 DEF Phase1, Phase2, KeepsDir, Prepare, SyncInputs, PruneFails,
     ResetBaseline, CommitBaseline, IndexFails, SyncFails, Diff, AgentCompletes

\* What is known stays known while a pipeline makes a step.
LEMMA KnownStays ==
    ASSUME NEW w \in Workers, Phase1(w) \/ Phase2(w) \/ Crash(w)
    PROVE  digested \subseteq digested' /\ (overrun => overrun')
<1>1. ASSUME KeepsDir(w) PROVE digested' = digested /\ overrun' = overrun
  BY <1>1, DirKept DEF dirVars
<1>2. ASSUME Prepare(w) \/ SyncInputs(w) \/ ResetBaseline(w) \/ CommitBaseline(w)
             \/ SyncFails(w) \/ PruneFails(w) \/ IndexFails(w)
      PROVE  digested' = digested /\ (overrun => overrun')
  <2>1. Trespass(w) \/ UNCHANGED overrun
    BY <1>2, Zenon DEF Prepare, SyncInputs, ResetBaseline, CommitBaseline, SyncFails,
       PruneFails, IndexFails
  <2>2. overrun => overrun'
    BY <2>1, Zenon DEF Trespass
  <2> QED
    BY <1>2, <2>2 DEF Prepare, SyncInputs, ResetBaseline, CommitBaseline, SyncFails,
       PruneFails, IndexFails
<1>3. ASSUME Diff(w) \/ AgentCompletes(w)
      PROVE  digested \subseteq digested' /\ overrun' = overrun
  BY <1>3 DEF Diff, AgentCompletes
<1> QED
  BY <1>1, <1>2, <1>3 DEF Phase1, Phase2, KeepsDir

\* Phase 1 stays before phase 2.
LEMMA Phase1Points ==
    ASSUME TypeOK, NEW w \in Workers, Phase1(w)
    PROVE  worker'[w].pc \in {"idle", "scan", "claim", "extract"}
<1> USE DEF TypeOK, At
<1>4. ASSUME NEW pc, Goto(w, pc) PROVE worker'[w].pc = pc
  BY <1>4 DEF Goto, Pipelines
<1>1. CASE Start(w) \/ Scan(w) \/ ClaimsDone(w)
  <2>1. CASE Start(w)
    BY <1>4, <2>1 DEF Start
  <2>2. ASSUME NEW pc, NEW todo, NEW seen,
               worker' = [worker EXCEPT ![w] =
                            [worker[w] EXCEPT !.pc = pc, !.todo = todo, !.seen = seen]]
        PROVE  worker'[w].pc = pc
    BY <2>2 DEF Pipelines
  <2>3. CASE Scan(w)
    BY <2>2, <2>3 DEF Scan
  <2>4. CASE ClaimsDone(w)
    BY <2>2, <2>4 DEF ClaimsDone
  <2> QED
    BY <1>1, <2>1, <2>3, <2>4
<1>2. CASE RateLimited(w) \/ ClaimError(w)
  BY <1>2 DEF RateLimited, ClaimError, Leave, Idle
<1>3. ASSUME NEW t \in Threads,
             \/ Claim(w, t) \/ LoadRollout(w, t) \/ ExtractSucceeds(w, t)
             \/ ExtractFindsNothing(w, t) \/ ExtractFails(w, t) \/ StoreError(w, t)
      PROVE  worker'[w].pc = worker[w].pc /\ worker[w].pc \in {"claim", "extract"}
  <2>1. CASE Claim(w, t)
    BY <2>1 DEF Claim, Pipelines
  <2>2. CASE LoadRollout(w, t)
    BY <2>2 DEF LoadRollout, Pipelines
  <2>3. ASSUME Drop(w, t) PROVE worker'[w].pc = worker[w].pc
    BY <2>3 DEF Drop, Pipelines
  <2> QED
    BY <1>3, <2>1, <2>2, <2>3
    DEF ExtractSucceeds, ExtractFindsNothing, ExtractFails, StoreError
<1> QED
  BY <1>1, <1>2, <1>3 DEF Phase1

\* The owner of the global job sees what it expects after its own steps.
LEMMA OwnPipeline ==
    ASSUME TypeOK, DirInv, Next, NEW w \in Workers, Phase1(w) \/ Phase2(w) \/ Crash(w),
           OwnsGlobal(w)', ~overrun'
    PROVE  Sees(w)'
<1> USE DEF TypeOK, At
<1>1. ~overrun /\ digested \subseteq digested'
  BY KnownStays
<1>2. OwnsGlobal(w) => Sees(w)
  BY <1>1 DEF DirInv, OwnerSees
<1>3. OwnsGlobal(w) \/ StartPhase2(w)
  BY OwnersLess
<1>4. ASSUME worker'[w].pc \in {"idle", "scan", "claim", "extract", "prepare"}
      PROVE  Sees(w)'
  BY <1>4 DEF Sees
<1>5. ASSUME NEW pc, Goto(w, pc)
      PROVE  worker'[w].pc = pc /\ worker'[w].inputs = worker[w].inputs
  BY <1>5 DEF Goto, Pipelines
<1>6. ASSUME Leave(w) PROVE Sees(w)'
  <2>1. worker'[w].pc = "idle"
    BY <1>6 DEF Leave, Idle
  <2> QED
    BY <1>4, <2>1
<1>7. ASSUME Phase1(w) PROVE worker'[w].pc \in {"idle", "scan", "claim", "extract"}
  BY <1>7, Phase1Points
<1>8. CASE StartPhase2(w)
  <2>1. [Idle EXCEPT !.pc = "prepare"].pc = "prepare" /\ Idle.pc = "idle"
    BY DEF Idle
  <2>2. worker'[w].pc \in {"idle", "prepare"}
    BY <1>8, <2>1 DEF StartPhase2, Leave
  <2> QED
    BY <1>4, <2>2
<1>9. CASE Succeed(w) \/ ConsolidationFails(w) \/ DiffFails(w) \/ IndexFails(w) \/ SyncFails(w)
           \/ Crash(w)
  BY <1>6, <1>9 DEF Succeed, ConsolidationFails, DiffFails, IndexFails, SyncFails, Crash
<1>11. CASE Beat(w)
  <2>1. CASE Leave(w)
    BY <1>6, <2>1
  <2>2. CASE UNCHANGED <<worker, dirVars>>
    BY <1>2, <1>3, <1>11, <2>2 DEF Sees, Known, dirVars, StartPhase2, Beat
  <2> QED
    BY <1>11, <2>1, <2>2 DEF Beat
<1>12. CASE Prepare(w)
  <2>1. OwnsGlobal(w) /\ worker'[w].pc = "load"
    BY <1>3, <1>5, <1>12 DEF Prepare, StartPhase2
  <2>2. baseline' \in Snapshots
    BY <1>12 DEF Prepare
  <2> QED
    BY <2>1, <2>2 DEF Sees
<1>13. CASE LoadInputs(w)
  <2>1. OwnsGlobal(w) /\ worker[w].pc = "load" /\ worker'[w].pc = "sync"
        /\ baseline' = baseline
    BY <1>3, <1>13 DEF LoadInputs, StartPhase2, Pipelines, dirVars
  <2> QED
    BY <1>2, <2>1 DEF Sees
<1>14. CASE SyncInputs(w) \/ PruneFails(w)
  <2>1. OwnsGlobal(w) /\ worker[w].pc = "sync" /\ worker'[w].pc = "diff"
        /\ worker'[w].inputs = worker[w].inputs /\ baseline' = baseline
    BY <1>3, <1>5, <1>14 DEF SyncInputs, PruneFails, StartPhase2
  <2>2. \A t \in Threads : worker[w].inputs[t] # 0 => synced'[t] = worker[w].inputs[t]
    BY <1>14 DEF SyncInputs, PruneFails
  <2> QED
    BY <1>2, <2>1, <2>2 DEF Sees
<1>15. CASE Diff(w)
  <2>1. /\ OwnsGlobal(w) /\ worker[w].pc = "diff"
        /\ worker'[w].inputs = worker[w].inputs
        /\ baseline' = baseline /\ synced' = synced
        /\ baseline # Missing
    BY <1>3, <1>5, <1>15 DEF Diff, StartPhase2
  <2>2. CASE worker'[w].pc = "agent"
    BY <1>2, <2>1, <2>2 DEF Sees
  <2>3. CASE worker'[w].pc = "mark" /\ baseline = synced
    <3>1. Known(baseline)
      BY <1>1, <2>1 DEF DirInv, BaselineDigested, Known
    <3>2. \A t \in Threads : worker[w].inputs[t] # 0 => baseline[t] = worker[w].inputs[t]
      BY <1>2, <2>1, <2>3 DEF Sees
    <3>3. Known(worker[w].inputs)
      BY <3>1, <3>2 DEF Known
    <3> QED
      BY <1>1, <2>1, <2>3, <3>3 DEF Sees, Known
  <2> QED
    BY <1>5, <1>15, <2>2, <2>3 DEF Diff, Changed
<1>16. CASE AgentCompletes(w)
  <2>1. /\ OwnsGlobal(w) /\ worker[w].pc = "agent" /\ worker'[w].pc = "confirm"
        /\ worker'[w].inputs = worker[w].inputs
        /\ baseline' = baseline /\ synced' = synced
    BY <1>3, <1>5, <1>16 DEF AgentCompletes, StartPhase2
  <2>2. \A t \in Threads : synced[t] # 0 => <<t, synced[t]>> \in digested'
    BY <1>16, <2>1 DEF AgentCompletes
  <2> QED
    BY <1>2, <2>1, <2>2 DEF Sees, Known
<1>17. CASE Confirm(w)
  <2>1. CASE Leave(w)
    BY <1>6, <2>1
  <2>2. CASE Goto(w, "reset")
    <3>1. /\ OwnsGlobal(w) /\ worker[w].pc = "confirm" /\ worker'[w].pc = "reset"
          /\ worker'[w].inputs = worker[w].inputs
          /\ UNCHANGED <<synced, baseline, digested>>
      BY <1>3, <1>5, <1>17, <2>2 DEF Confirm, StartPhase2, dirVars
    <3> QED
      BY <1>2, <3>1 DEF Sees, Known
  <2> QED
    BY <1>17, <2>1, <2>2 DEF Confirm
<1>18. CASE ResetBaseline(w) \/ CommitBaseline(w)
  <2>1. /\ OwnsGlobal(w) /\ worker[w].pc \in {"reset", "commit"}
        /\ worker'[w].pc = IF worker[w].pc = "reset" THEN "commit" ELSE "mark"
        /\ worker'[w].inputs = worker[w].inputs
        /\ UNCHANGED <<synced, digested>>
    BY <1>3, <1>5, <1>18 DEF ResetBaseline, CommitBaseline, StartPhase2
  <2>2. /\ Known(synced)
        /\ \A t \in Threads : worker[w].inputs[t] # 0 => synced[t] = worker[w].inputs[t]
    BY <1>2, <2>1 DEF Sees
  <2>3. Known(worker[w].inputs)
    BY <2>2 DEF Known
  <2> QED
    BY <2>1, <2>2, <2>3 DEF Sees, Known
<1> QED
  BY <1>4, <1>7, <1>8, <1>9, <1>11, <1>12, <1>13, <1>14, <1>15, <1>16, <1>17, <1>18
  DEF Phase2

\* A holder of the lock that comes beside a reset does not get past the sync unmarked.
LEMMA QuietPipeline ==
    ASSUME TypeOK, DirInv, Next, NEW w \in Workers, Phase1(w) \/ Phase2(w) \/ Crash(w),
           OwnsGlobal(w)', ~overrun', resetting'
    PROVE  worker'[w].pc \notin AfterSync
<1> USE DEF TypeOK, At
<1>1. ~overrun /\ resetting
  BY KnownStays, PipelineRest
<1>2. OwnsGlobal(w) => worker[w].pc \notin AfterSync
  BY <1>1 DEF DirInv, ResetQuiet
<1>3. ~Trespass(w)
  BY <1>1, Zenon DEF Trespass
<1>4. ASSUME Leave(w) PROVE worker'[w].pc = "idle"
  BY <1>4 DEF Leave, Idle
<1>5. ASSUME NEW pc, Goto(w, pc) PROVE worker'[w].pc = pc
  BY <1>5 DEF Goto, Pipelines
<1>6. CASE Phase1(w)
  BY <1>6, Phase1Points DEF AfterSync
<1>7. CASE StartPhase2(w)
  <2>1. [Idle EXCEPT !.pc = "prepare"].pc = "prepare"
    BY DEF Idle
  <2>2. worker'[w].pc \in {"idle", "prepare"}
    BY <1>4, <1>7, <2>1 DEF StartPhase2
  <2> QED
    BY <2>2 DEF AfterSync
<1>8. CASE OwnsGlobal(w)
  <2>1. CASE ConsolidationFails(w) \/ DiffFails(w) \/ Crash(w)
    BY <1>4, <2>1 DEF ConsolidationFails, DiffFails, Crash, AfterSync
  <2>2. CASE Prepare(w)
    BY <1>5, <2>2 DEF Prepare, AfterSync
  <2>3. CASE LoadInputs(w)
    <3>1. worker'[w].pc = "sync"
      BY <2>3 DEF LoadInputs, Pipelines
    <3> QED
      BY <3>1 DEF AfterSync
  <2>4. ~(Diff(w) \/ Beat(w) \/ AgentCompletes(w) \/ Confirm(w) \/ Succeed(w))
    BY <1>2, <1>8 DEF Diff, Beat, AgentCompletes, Confirm, Succeed, AfterSync
  <2>5. ~(SyncInputs(w) \/ PruneFails(w) \/ SyncFails(w) \/ IndexFails(w)
            \/ ResetBaseline(w) \/ CommitBaseline(w))
    BY <1>3 DEF SyncInputs, PruneFails, SyncFails, IndexFails, ResetBaseline, CommitBaseline
  <2> QED
    BY <1>6, <1>7, <2>1, <2>2, <2>3, <2>4, <2>5 DEF Phase2
<1> QED
  BY <1>7, <1>8, OwnersLess

\* Nothing is selected while a reset clears the directory.
LEMMA ResetSelects ==
    ASSUME TypeOK, DirInv, Next, resetting, ~overrun, NEW t \in Threads
    PROVE  outputs'[t].selected = 0
<1>1. ResetQuiet
  BY DEF DirInv
<1>2. ASSUME NEW w \in Workers, Succeed(w), OwnsGlobal(w) PROVE FALSE
  BY <1>1, <1>2 DEF Succeed, At, ResetQuiet, AfterSync
<1> QED
  BY <1>1, <1>2, SelectsLess DEF ResetQuiet

\* A pipeline keeps the directory safe: a baseline is made of what some agent has
\* consolidated.
LEMMA SafePipeline ==
    ASSUME TypeOK, DirInv, NEW w \in Workers, Phase1(w) \/ Phase2(w) \/ Crash(w), ~overrun'
    PROVE  MissingSafe' /\ (baseline' # Missing => Known(baseline)')
<1> USE DEF TypeOK, At
<1>1. ~overrun /\ digested \subseteq digested' /\ resetting' = resetting
  BY KnownStays, PipelineRest
<1>2. MissingSafe /\ OwnerSees /\ (baseline # Missing => Known(baseline))
  BY <1>1 DEF DirInv, BaselineDigested, Known
<1>3. ASSUME UNCHANGED <<synced, baseline>>
      PROVE  MissingSafe' /\ (baseline' # Missing => Known(baseline)')
  BY <1>1, <1>2, <1>3 DEF MissingSafe, Known
<1>4. ASSUME Trespass(w) PROVE OwnsGlobal(w) /\ ~resetting
  BY <1>4, Zenon DEF Trespass
<1>5. ASSUME baseline' \in {Missing, synced}, Known(synced), UNCHANGED <<synced, digested>>
      PROVE  MissingSafe' /\ (baseline' # Missing => Known(baseline)')
  BY <1>5 DEF MissingSafe, Known
<1>6. CASE Prepare(w)
  <2>1. CASE baseline = Missing
    <3>1. baseline' = synced /\ UNCHANGED <<synced, digested>> /\ ~resetting
      BY <1>4, <1>6, <2>1 DEF Prepare
    <3>2. Known(synced)
      BY <1>2, <2>1, <3>1 DEF MissingSafe
    <3> QED
      BY <1>5, <3>1, <3>2
  <2>2. CASE baseline # Missing
    BY <1>3, <1>6, <2>2 DEF Prepare
  <2> QED
    BY <2>1, <2>2
<1>7. CASE SyncInputs(w) \/ PruneFails(w) \/ SyncFails(w)
  <2>1. baseline' = baseline /\ digested' = digested /\ OwnsGlobal(w) /\ worker[w].pc = "sync"
    BY <1>4, <1>7 DEF SyncInputs, PruneFails, SyncFails
  <2>2. baseline \in Snapshots
    BY <1>2, <2>1 DEF OwnerSees, Sees
  <2>3. baseline = Missing => Threads = {}
    BY <2>2, MissingEmpty
  <2> QED
    BY <1>2, <2>1, <2>3 DEF MissingSafe, Known
<1>8. CASE ResetBaseline(w) \/ CommitBaseline(w) \/ IndexFails(w)
  <2>1. /\ UNCHANGED <<synced, digested>> /\ baseline' \in {Missing, synced}
        /\ OwnsGlobal(w) /\ ~resetting
        /\ worker[w].pc \in {"reset", "commit"} \/ baseline = Missing
    BY <1>4, <1>8 DEF ResetBaseline, CommitBaseline, IndexFails
  <2>2. Known(synced)
    BY <1>2, <2>1 DEF OwnerSees, Sees, MissingSafe
  <2> QED
    BY <1>5, <2>1, <2>2
<1>9. CASE Diff(w) \/ AgentCompletes(w)
  BY <1>3, <1>9 DEF Diff, AgentCompletes
<1>10. CASE KeepsDir(w)
  BY <1>3, <1>10, DirKept DEF dirVars
<1> QED
  BY <1>6, <1>7, <1>8, <1>9, <1>10 DEF Phase1, Phase2, KeepsDir

\* What the invariant of the directory says under its proviso.
Sound == MissingSafe /\ OwnerSees /\ ResetQuiet /\ (baseline # Missing => Known(baseline))

\* A step of a pipeline keeps it.
LEMMA DirPipeline ==
    ASSUME TypeOK, DirInv, Next, NEW w \in Workers, Phase1(w) \/ Phase2(w) \/ Crash(w),
           ~overrun'
    PROVE  Sound' /\ digested \subseteq digested' /\ ~overrun
<1>1. digested \subseteq digested' /\ ~overrun /\ resetting' = resetting
  BY KnownStays, PipelineRest
<1>2. ASSUME NEW v \in Workers \ {w}, OwnsGlobal(v)'
      PROVE  /\ worker'[v] = worker[v] /\ OwnsGlobal(v)
             /\ synced' = synced /\ baseline' = baseline
  BY <1>2, OtherWorker, OwnerKept, OtherPipeline
<1>3. OwnerSees'
  <2> SUFFICES ASSUME NEW v \in Workers, OwnsGlobal(v)' PROVE Sees(v)'
    BY DEF OwnerSees
  <2>1. CASE v = w
    BY <2>1, OwnPipeline
  <2>2. CASE v # w
    <3>1. Sees(v)
      BY <1>1, <1>2, <2>2 DEF DirInv, OwnerSees
    <3> QED
      BY <1>1, <1>2, <2>2, <3>1 DEF Sees, Known
  <2> QED
    BY <2>1, <2>2
<1>4. ResetQuiet'
  <2> SUFFICES ASSUME resetting'
               PROVE  /\ \A t \in Threads : outputs'[t].selected = 0
                      /\ \A v \in Workers : OwnsGlobal(v)' => worker'[v].pc \notin AfterSync
    BY DEF ResetQuiet
  <2>1. \A t \in Threads : outputs'[t].selected = 0
    BY <1>1, ResetSelects
  <2>2. ASSUME NEW v \in Workers, OwnsGlobal(v)' PROVE worker'[v].pc \notin AfterSync
    <3>1. CASE v = w
      BY <2>2, <3>1, QuietPipeline
    <3>2. CASE v # w
      BY <1>1, <1>2, <2>2, <3>2 DEF DirInv, ResetQuiet
    <3> QED
      BY <3>1, <3>2
  <2> QED
    BY <2>1, <2>2
<1> QED
  BY <1>1, <1>3, <1>4, SafePipeline DEF Sound

\* So does a step of the users or the clock that leaves the directory alone.
LEMMA DirOthers ==
    ASSUME TypeOK, DirInv, Next, Users \/ Time, ~ResetFiles, ~overrun'
    PROVE  Sound' /\ digested' = digested /\ ~overrun
<1>1. UNCHANGED <<worker, synced, baseline, digested, overrun>>
  BY UsersKeepDir DEF dirVars, Users, Time, ResetRows, LockExpires, LockReady, ClaimExpires,
     RetryReady, LeaseEnds, Elsewhere
<1>2. \A v \in Workers : OwnsGlobal(v)' => OwnsGlobal(v)
  BY <1>1, OwnerKept
<1>3. OwnerSees' /\ (baseline' # Missing => Known(baseline)')
  BY <1>1, <1>2 DEF DirInv, OwnerSees, Sees, Known, BaselineDigested
<1>4. CASE ResetRows
  <2>1. resetting' /\ \A v \in Workers : ~OwnsGlobal(v)'
    BY <1>4 DEF ResetRows, ClearMemoryData, NoGlobal, OwnsGlobal
  <2>2. \A t \in Threads : outputs'[t].selected = 0
    BY <1>4 DEF ResetRows, ClearMemoryData, NoOutput
  <2> QED
    BY <1>1, <1>3, <2>1, <2>2 DEF Sound, MissingSafe, ResetQuiet
<1>5. CASE UNCHANGED resetting
  <2>1. MissingSafe'
    BY <1>1, <1>5 DEF DirInv, MissingSafe, Known
  <2>2. ResetQuiet'
    BY <1>1, <1>2, <1>5, ResetSelects DEF DirInv, ResetQuiet
  <2> QED
    BY <1>1, <1>3, <2>1, <2>2 DEF Sound
<1> QED
  BY <1>4, <1>5, UsersRest DEF ResetFiles

\* So does clearing the directory, where no lock is held and the clearing is complete.
LEMMA DirReset ==
    ASSUME TypeOK, DirInv, Next, ResetFiles, ~overrun'
    PROVE  Sound' /\ \A t \in Threads : outputs'[t].selected = 0
<1>1. resetting /\ ~overrun
  BY Zenon DEF ResetFiles, ClearGit, ClearNotes, ClearSnapshot, ResetEnds, Clear
<1>2. UNCHANGED <<outputs, global, worker>>
  BY ClearKeeps DEF storeVars
<1>3. MissingSafe /\ OwnerSees /\ ResetQuiet /\ (baseline # Missing => Known(baseline))
  BY <1>1 DEF DirInv, BaselineDigested, Known
<1>4. \A t \in Threads : outputs'[t].selected = 0
  BY <1>1, ResetSelects
<1>5. CASE ResetEnds
  <2>1. /\ baseline' = Missing /\ synced' = Empty /\ ~resetting'
        /\ UNCHANGED baseline
    BY <1>5 DEF ResetEnds
  <2>2. MissingSafe'
    BY <2>1 DEF MissingSafe, Known, Empty
  <2>3. ASSUME NEW v \in Workers, OwnsGlobal(v)' PROVE Sees(v)'
    <3>1. OwnsGlobal(v)
      BY <1>2, <2>3 DEF OwnsGlobal
    <3>2. Sees(v) /\ worker[v].pc \notin AfterSync
      BY <1>1, <1>3, <3>1 DEF OwnerSees, ResetQuiet
    <3> QED
      BY <1>2, <2>1, <3>2 DEF Sees, AfterSync
  <2> QED
    BY <1>4, <2>1, <2>2, <2>3 DEF Sound, OwnerSees, ResetQuiet
<1>6. CASE ~ResetEnds
  <2>1. resetting' /\ digested' = digested /\ baseline' \in {baseline, Missing}
        /\ global.status # "running"
    BY <1>1, <1>6, Zenon
    DEF ResetFiles, ClearGit, ClearNotes, ClearSnapshot, Clear, rest
  <2>2. \A v \in Workers : ~OwnsGlobal(v)'
    BY <1>2, <2>1 DEF OwnsGlobal
  <2> QED
    BY <1>3, <1>4, <2>1, <2>2 DEF Sound, MissingSafe, OwnerSees, ResetQuiet, Known
<1> QED
  BY <1>5, <1>6

\* Every step preserves the invariant of the directory.
LEMMA DirStep == TypeOK /\ DirInv /\ [Next]_vars => DirInv'
<1> SUFFICES ASSUME TypeOK, DirInv, [Next]_vars PROVE DirInv'
  OBVIOUS
<1>1. CASE UNCHANGED vars
  <2>1. UNCHANGED <<outputs, global, worker, synced, baseline, resetting, digested, overrun>>
    BY <1>1 DEF vars, storeVars
  <2> QED
    BY <2>1 DEF DirInv, MissingSafe, OwnerSees, Sees, OwnsGlobal, Known, ResetQuiet,
                BaselineDigested, SelectedDigested
<1>2. CASE Next
  <2>1. ASSUME ~overrun' PROVE Sound'
    BY <1>2, <2>1, DirPipeline, DirOthers, DirReset DEF Next
  <2>2. ASSUME ~overrun', ~ResetFiles PROVE digested \subseteq digested' /\ ~overrun
    BY <1>2, <2>2, DirPipeline, DirOthers DEF Next
  <2>3. SelectedDigested'
    <3> SUFFICES ASSUME ~overrun', NEW t \in Threads, outputs'[t].selected # 0
                 PROVE  <<t, outputs'[t].selected>> \in digested'
      BY DEF SelectedDigested
    <3>1. digested \subseteq digested' /\ ~overrun
      BY <1>2, <2>2, DirReset
    <3>2. CASE outputs'[t].selected = outputs[t].selected
      BY <3>1, <3>2 DEF DirInv, SelectedDigested
    <3>3. ASSUME NEW w \in Workers, Succeed(w), OwnsGlobal(w)
          PROVE  <<t, outputs'[t].selected>> \in digested'
      <4>1. worker[w].pc = "mark"
        BY <3>3 DEF Succeed, At
      <4>2. Known(worker[w].inputs)
        BY <3>1, <3>3, <4>1 DEF DirInv, OwnerSees, Sees
      <4> DEFINE in == worker[w].inputs[t]
                 s == IF in # 0 /\ outputs[t].source = in THEN in ELSE 0
      <4>3. outputs'[t] = [outputs[t] EXCEPT !.selected = s]
        BY <3>3 DEF Succeed, GlobalSucceeded
      <4> HIDE DEF s
      <4>4. outputs'[t].selected = s
        BY <4>3 DEF TypeOK, StoreTypeOK, OutputRows
      <4>5. s = 0 \/ s = in
        BY DEF s
      <4> QED
        BY <3>1, <4>2, <4>4, <4>5 DEF Known
    <3> QED
      BY <1>2, <3>2, <3>3, SelectsLess
  <2> QED
    BY <2>1, <2>3 DEF DirInv, Sound, BaselineDigested, Known
<1> QED
  BY <1>1, <1>2

\* The rows and the directory together.
LEMMA Invariant == Spec => [](StoreInv /\ DirInv)
<1>1. StoreInv /\ DirInv /\ [Next]_vars => StoreInv' /\ DirInv'
  <2>1. StoreInv => TypeOK
    BY DEF StoreInv
  <2> QED
    BY <2>1, StoreStep, DirStep
<1> QED
  BY <1>1, InitStore, InitDir, PTL DEF Spec

\* As long as whoever changed the directory was alone in it, and every reset that cleared it
\* entry by entry came to its end, the baseline holds consolidated snapshots only.
THEOREM BaselineKnown == Spec => []BaselineDigested
<1>1. DirInv => BaselineDigested
  BY DEF DirInv
<1> QED
  BY <1>1, Invariant, PTL

\* Under the same proviso, what is marked selected was consolidated.
THEOREM SelectedKnown == Spec => []SelectedDigested
<1>1. DirInv => SelectedDigested
  BY DEF DirInv
<1> QED
  BY <1>1, Invariant, PTL

-----------------------------------------------------------------------------
(* The lock itself, where nobody resets the memories and no live worker    *)
(* outlives its lease.                                                     *)

\* A worker in phase 2 holds the lock, and its lease is valid.
HoldsLock(w) == OwnsGlobal(w) /\ global.leased
LockHeld == \A w \in Workers : worker[w].pc \in Consolidating => HoldsLock(w)

\* No reset is under way, and the directory was changed by holders of the lock only.
NoTrespass == resetting = FALSE /\ overrun = FALSE

\* The row of a lock that is held: nobody but its owner changes it while the owner is in
\* phase 2.
LEMMA LockStays ==
    ASSUME ~Stalls, TypeOK, Next, ~ResetRows, NEW v \in Workers, HoldsLock(v),
           worker[v].pc \in Consolidating, worker'[v].pc \in Consolidating
    PROVE  HoldsLock(v)'
<1> USE DEF TypeOK, StoreTypeOK
<1>0. /\ global \in GlobalRows /\ global.status = "running" /\ global.owner = v /\ global.leased
      /\ worker \in [Workers -> Pipelines]
  BY DEF HoldsLock, OwnsGlobal
<1>1. ASSUME global' = global \/ global' = Enqueued PROVE HoldsLock(v)'
  BY <1>0, <1>1 DEF Enqueued, HoldsLock, OwnsGlobal
<1>2. ASSUME NEW w \in Workers, Heartbeat(w) PROVE HoldsLock(v)'
  BY <1>0, <1>2 DEF Heartbeat, HoldsLock, OwnsGlobal, GlobalRows
<1>3. ASSUME NEW w \in Workers, Beat(w) \/ Confirm(w) PROVE HoldsLock(v)'
  BY <1>2, <1>3 DEF Beat, Confirm
<1>4. ASSUME NEW w \in Workers, Leave(w) PROVE w # v
  <2>1. worker'[w].pc = "idle" /\ "idle" \notin Consolidating
    BY <1>0, <1>4 DEF Leave, Idle, Consolidating
  <2> QED
    BY <2>1
<1>5. ASSUME NEW w \in Workers,
             \/ Succeed(w) \/ ConsolidationFails(w) \/ DiffFails(w) \/ IndexFails(w)
             \/ SyncFails(w)
      PROVE  HoldsLock(v)'
  <2>1. w # v
    BY <1>4, <1>5 DEF Succeed, ConsolidationFails, DiffFails, IndexFails, SyncFails
  <2>2. ~OwnsGlobal(w)
    BY <1>0, <2>1 DEF OwnsGlobal
  <2>3. global' = global
    BY <1>5, <2>2
    DEF Succeed, ConsolidationFails, DiffFails, IndexFails, SyncFails, GlobalSucceeded,
        GlobalFailed
  <2> QED
    BY <1>1, <2>3
<1>6. ASSUME NEW w \in Workers, StartPhase2(w) PROVE HoldsLock(v)'
  <2>1. ~GlobalClaimable
    BY <1>0 DEF GlobalClaimable, Leased
  <2> QED
    BY <1>1, <1>6, <2>1 DEF StartPhase2
<1>7. ASSUME NEW w \in Workers, KeepsStore(w) \/ Start(w) PROVE HoldsLock(v)'
  BY <1>1, <1>7, StoreKept DEF Start, storeVars
<1>8. ASSUME NEW w \in Workers, NEW t \in Threads,
             \/ Claim(w, t) \/ ExtractSucceeds(w, t)
             \/ ExtractFindsNothing(w, t) \/ ExtractFails(w, t)
      PROVE  HoldsLock(v)'
  BY <1>1, <1>8 DEF Claim, ExtractSucceeds, Stage1Succeeded,
     ExtractFindsNothing, Stage1NoOutput, ExtractFails, Stage1Failed
<1>9. ASSUME NEW t \in Threads,
             \/ ThreadUpdated(t) \/ PolluteReads(t) \/ PolluteMarks(t)
             \/ PolluteEnqueues(t) \/ DeleteMemory(t) \/ DeleteThread(t)
             \/ DeleteRollout(t) \/ ReconcileReads(t) \/ ReconcileWrites(t)
             \/ ClaimExpires(t) \/ RetryReady(t)
      PROVE  HoldsLock(v)'
  BY <1>1, <1>9 DEF ThreadUpdated, PolluteReads, PolluteMarks, PolluteEnqueues,
     DeleteMemory, DeleteThread, DeleteRollout, ReconcileReads, ReconcileWrites, ClaimExpires,
     RetryReady, Stage1LeaseEnds, Stage1BackoffEnds
<1>10. CASE LockExpires
  BY <1>0, <1>10 DEF LockExpires, LeaseEnds
<1>11. CASE LockReady
  BY <1>0, <1>11 DEF LockReady, GlobalBackoffEnds, CooldownEnds, HoldsLock, OwnsGlobal,
     GlobalRows
<1>12. CASE ResetFiles
  BY <1>1, <1>12, ClearKeeps DEF storeVars
<1> QED
  BY <1>3, <1>5, <1>6, <1>7, <1>8, <1>9, <1>10, <1>11, <1>12
  DEF Next, Phase1, Phase2, Users, Time, KeepsStore

\* A worker enters phase 2 by claiming the lock.
LEMMA EntersWithLock ==
    ASSUME TypeOK, Next, NEW v \in Workers,
           worker[v].pc \notin Consolidating, worker'[v].pc \in Consolidating
    PROVE  HoldsLock(v)'
<1>0. worker \in [Workers -> Pipelines] /\ Idle.pc = "idle" /\ "idle" \notin Consolidating
  BY DEF TypeOK, Idle, Consolidating
<1>1. ASSUME NEW w \in Workers, Phase1(w) \/ Phase2(w) \/ Crash(w) PROVE w = v
  BY <1>1, OtherWorker
<1>2. ~(Users \/ Time)
  BY ClearKeeps DEF Users, Time, Elsewhere, ResetRows, LockExpires, LockReady, ClaimExpires,
     RetryReady, LeaseEnds
<1>3. ~Phase1(v)
  BY Phase1Points DEF Consolidating
<1>4. ~Crash(v)
  BY <1>0 DEF Crash, Leave
<1>5. ASSUME Phase2(v) PROVE StartPhase2(v)
  BY <1>5 DEF Phase2, At, Consolidating, Prepare, LoadInputs, SyncInputs, Diff, Beat,
     AgentCompletes, Confirm, ResetBaseline, CommitBaseline, Succeed, ConsolidationFails,
     DiffFails, IndexFails, PruneFails, SyncFails
<1>6. StartPhase2(v)
  BY <1>1, <1>2, <1>3, <1>4, <1>5 DEF Next
<1>7. ~Leave(v)
  BY <1>0 DEF Leave
<1>8. ClaimGlobal(v)
  BY <1>6, <1>7 DEF StartPhase2
<1> QED
  BY <1>8 DEF ClaimGlobal, HoldsLock, OwnsGlobal

\* Where the lock is held by whoever is in phase 2, nobody trespasses.
LEMMA TrespassStep ==
    ASSUME LockHeld, NoTrespass, Next, ~ResetRows
    PROVE  NoTrespass'
<1>1. resetting = FALSE /\ overrun = FALSE
  BY DEF NoTrespass
<1>2. ~ResetFiles
  BY <1>1 DEF ResetFiles, ClearGit, ClearNotes, ClearSnapshot, ResetEnds, Clear
<1>3. ASSUME NEW w \in Workers, worker[w].pc \in Consolidating, Trespass(w)
      PROVE  overrun' = FALSE
  BY <1>1, <1>3 DEF LockHeld, HoldsLock, Trespass
<1>4. ASSUME NEW w \in Workers, Phase1(w) \/ Phase2(w) \/ Crash(w)
      PROVE  overrun' = FALSE
  <2>1. CASE KeepsDir(w)
    BY <1>1, <2>1, DirKept DEF dirVars
  <2>2. CASE Diff(w) \/ AgentCompletes(w)
    BY <1>1, <2>2 DEF Diff, AgentCompletes
  <2>3. CASE Prepare(w) \/ SyncInputs(w) \/ PruneFails(w) \/ ResetBaseline(w)
             \/ CommitBaseline(w) \/ IndexFails(w) \/ SyncFails(w)
    <3>1. worker[w].pc \in Consolidating /\ (Trespass(w) \/ overrun' = overrun)
      BY <2>3 DEF Prepare, SyncInputs, PruneFails, ResetBaseline, CommitBaseline, IndexFails,
         SyncFails, At, Consolidating
    <3> QED
      BY <1>1, <1>3, <3>1
  <2> QED
    BY <1>4, <2>1, <2>2, <2>3 DEF Phase1, Phase2, KeepsDir
<1>5. ASSUME Users \/ Time PROVE overrun' = FALSE
  BY <1>1, <1>2, <1>5, UsersKeepDir DEF dirVars
<1>6. resetting' = resetting
  BY <1>2, PipelineRest, UsersRest, Zenon DEF Next, ResetFiles
<1>7. overrun' = FALSE
  BY <1>4, <1>5 DEF Next
<1> QED
  BY <1>1, <1>6, <1>7 DEF NoTrespass

\* The lock excludes: where no live worker outlives its lease and nobody resets the memories,
\* whoever is in phase 2 holds the lock, through crashes, failed jobs and expired leases.
LEMMA LockHolds ==
    ~Stalls /\ Spec /\ [][~ResetRows]_vars => [](LockHeld /\ NoTrespass)
<1>1. ~Stalls /\ Init => ~Stalls /\ LockHeld /\ NoTrespass
  BY DEF Init, LockHeld, NoTrespass, Idle, Consolidating
<1>2. TypeOK /\ (~Stalls /\ LockHeld /\ NoTrespass) /\ [Next]_vars /\ [~ResetRows]_vars
         => (~Stalls /\ LockHeld /\ NoTrespass)'
  <2> SUFFICES ASSUME ~Stalls, TypeOK, LockHeld, NoTrespass, [Next]_vars, [~ResetRows]_vars
               PROVE  LockHeld' /\ NoTrespass'
    BY Zenon
  <2>1. CASE UNCHANGED vars
    BY <2>1 DEF vars, storeVars, LockHeld, HoldsLock, OwnsGlobal, NoTrespass
  <2>2. CASE Next /\ ~ResetRows
    <3>1. ASSUME NEW v \in Workers, worker'[v].pc \in Consolidating PROVE HoldsLock(v)'
      BY <2>2, <3>1, LockStays, EntersWithLock DEF LockHeld
    <3>2. LockHeld'
      BY <3>1 DEF LockHeld
    <3> QED
      BY <2>2, <3>2, TrespassStep
  <2> QED
    BY <2>1, <2>2
<1> QED
  BY <1>1, <1>2, TypeCorrect, PTL DEF Spec

\* One consolidation at a time: what memories/README.md says of the global phase-2 lock holds
\* as long as no live worker outlives its lease and memory/reset does not delete the row of
\* the lock: the two are the only ways to a second consolidation.
THEOREM LockExcludes == ~Stalls /\ Spec /\ [][~ResetRows]_vars => []OneConsolidation
<1>1. LockHeld => OneConsolidation
  BY DEF LockHeld, HoldsLock, OwnsGlobal, OneConsolidation
<1> QED
  BY <1>1, LockHolds, PTL

\* Under the same conditions the memories directory is only ever changed under the lock, so
\* that the baseline and the selection hold consolidated snapshots without proviso.
THEOREM LockHonoured ==
    ~Stalls /\ Spec /\ [][~ResetRows]_vars =>
        [](~overrun /\ (baseline # Missing => Known(baseline))
              /\ \A t \in Threads : outputs[t].selected # 0 => <<t, outputs[t].selected>> \in digested)
<1>1. NoTrespass /\ BaselineDigested /\ SelectedDigested =>
         ~overrun /\ (baseline # Missing => Known(baseline))
            /\ \A t \in Threads : outputs[t].selected # 0 => <<t, outputs[t].selected>> \in digested
  BY DEF NoTrespass, BaselineDigested, SelectedDigested, Known
<1> QED
  BY <1>1, LockHolds, BaselineKnown, SelectedKnown, PTL
=============================================================================
