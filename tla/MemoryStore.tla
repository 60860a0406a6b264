---------------------------- MODULE MemoryStore ----------------------------
(***************************************************************************)
(* The database half of the memories pipeline: the `jobs' and              *)
(* `stage1_outputs' tables of the memories database and the memory columns *)
(* of the threads table (state/src/runtime/memories.rs).  Every SQL        *)
(* transaction is one operator; the pipeline that calls them is in module  *)
(* Memories.                                                               *)
(*                                                                         *)
(* Time enters only through deadlines: a lease is valid or over, a retry   *)
(* delay or the success cooldown is running or over.  An ownership token   *)
(* is fresh for every claim; the worker that took it stands for it, since  *)
(* a worker never holds two claims of one job.  Watermarks are the         *)
(* `updated_at' seconds of a thread, 1..MaxUpdates, and 0 is NULL.  The    *)
(* watermarks of the global job decide nothing in the code and are left    *)
(* out.                                                                    *)
(***************************************************************************)
EXTENDS Naturals, FiniteSets

CONSTANTS
    Threads,      \* threads with a rollout on disk
    Workers,      \* processes that run the startup pipeline
    MaxUpdates,   \* bound: how often a thread is written and left idle
    MaxRunning,   \* max_rollouts_per_startup
    MaxRetries    \* DEFAULT_RETRY_REMAINING

ASSUME StoreAssumption ==
    /\ MaxUpdates \in Nat \ {0} /\ MaxRunning \in Nat \ {0} /\ MaxRetries \in Nat \ {0}
    /\ "none" \notin Workers

VARIABLES
    threads,      \* the threads row (memory mode, updated_at), the rollout's version, and
                  \* how far deletion, pollution and reconciliation of the thread are
    jobs,         \* the memory_stage1 row of each thread
    outputs,      \* the stage1_outputs row of each thread
    global        \* the memory_consolidate_global row

storeVars == <<threads, jobs, outputs, global>>

Watermark == 0..MaxUpdates

NoJob == [status |-> "none", owner |-> "none", leased |-> FALSE, backoff |-> FALSE,
          retries |-> 0, input |-> 0, success |-> 0]
NoOutput == [source |-> 0, selected |-> 0]
NoGlobal == [status |-> "none", owner |-> "none", leased |-> FALSE, backoff |-> FALSE,
             cooldown |-> FALSE]

StoreInit ==
    /\ threads = [t \in Threads |-> [mode |-> "enabled", updated |-> 1, written |-> 1,
                                     fate |-> "kept", polluting |-> "no",
                                     reconciling |-> 0]]
    /\ jobs = [t \in Threads |-> NoJob]
    /\ outputs = [t \in Threads |-> NoOutput]
    /\ global = NoGlobal

(***************************************************************************)
(* Stage 1 jobs                                                            *)
(***************************************************************************)

\* A running row whose lease has not run out.
Leased(j) == j.status = "running" /\ j.leased

\* Mutants: the retries are not looked at; a running row is never taken over.
ClaimableWithoutRetries(t, source) ==
    LET j == jobs[t]
    IN  /\ outputs[t].source < source /\ j.success < source /\ ~Leased(j)
        /\ source > j.input \/ ~j.backoff

ClaimableOnce(t, source) ==
    LET j == jobs[t]
    IN  /\ outputs[t].source < source /\ j.success < source /\ j.status # "running"
        /\ source > j.input \/ (~j.backoff /\ j.retries > 0)

\* What the upsert of try_claim_stage1_job requires, after the two up-to-date checks.
Stage1Claimable(t, source) ==
    LET j == jobs[t]
        advanced == source > j.input
    IN  /\ outputs[t].source < source
        /\ j.success < source
        /\ ~Leased(j)
        /\ advanced \/ (~j.backoff /\ j.retries > 0)
        /\ Cardinality({u \in Threads \ {t} : Leased(jobs[u])}) < MaxRunning

\* The claim itself: a watermark that advanced gives the job its retries back.
ClaimStage1(w, t, source) ==
    jobs' = [jobs EXCEPT ![t] =
                [status |-> "running", owner |-> w, leased |-> TRUE, backoff |-> FALSE,
                 retries |-> IF source > @.input THEN MaxRetries ELSE @.retries,
                 input |-> source, success |-> @.success]]

\* Mutant: any running row is taken for the worker's own.
OwnsAnyRunning(w, t) == jobs[t].status = "running"

\* The WHERE clause of every later update: the owned running row.
OwnsStage1(w, t) == jobs[t].status = "running" /\ jobs[t].owner = w

Done(j) == [j EXCEPT !.status = "done", !.leased = FALSE, !.success = j.input]

\* enqueue_global_consolidation_with_executor, on the columns that decide something.
Enqueued ==
    IF global.status = "running" THEN global
    ELSE [global EXCEPT !.status = "pending", !.backoff = FALSE]

\* mark_stage1_job_succeeded: job, output and global job in one transaction.
Stage1Succeeded(w, t, source) ==
    IF OwnsStage1(w, t)
    THEN /\ jobs' = [jobs EXCEPT ![t] = Done(@)]
         /\ outputs' = [outputs EXCEPT ![t].source = IF source >= @ THEN source ELSE @]
         /\ global' = Enqueued
    ELSE UNCHANGED <<jobs, outputs, global>>

\* mark_stage1_job_succeeded_no_output
Stage1NoOutput(w, t) ==
    IF OwnsStage1(w, t)
    THEN /\ jobs' = [jobs EXCEPT ![t] = Done(@)]
         /\ outputs' = [outputs EXCEPT ![t] = NoOutput]
         /\ global' = IF outputs[t].source # 0 THEN Enqueued ELSE global
    ELSE UNCHANGED <<jobs, outputs, global>>

\* mark_stage1_job_failed
Stage1Failed(w, t) ==
    /\ jobs' = IF OwnsStage1(w, t)
               THEN [jobs EXCEPT ![t] = [@ EXCEPT !.status = "error", !.leased = FALSE,
                                            !.backoff = TRUE, !.retries = jobs[t].retries - 1]]
               ELSE jobs
    /\ UNCHANGED <<outputs, global>>

(***************************************************************************)
(* The global consolidation job                                            *)
(***************************************************************************)

\* try_claim_global_phase2_job: backoff, a valid lease and the cooldown after a
\* success turn a worker away; the status "pending" is not looked at.
GlobalClaimable == ~global.backoff /\ ~Leased(global) /\ ~global.cooldown

ClaimGlobal(w) ==
    global' = [status |-> "running", owner |-> w, leased |-> TRUE, backoff |-> FALSE,
               cooldown |-> FALSE]

OwnsGlobal(w) == global.status = "running" /\ global.owner = w

\* heartbeat_global_phase2_job
Heartbeat(w) == global' = IF OwnsGlobal(w) THEN [global EXCEPT !.leased = TRUE] ELSE global

\* Mutant: the current snapshot is selected instead of the one that was consumed.
SelectsCurrent(w, inputs) ==
    IF OwnsGlobal(w)
    THEN /\ global' = [global EXCEPT !.status = "done", !.leased = FALSE, !.cooldown = TRUE]
         /\ outputs' = [t \in Threads |->
                [outputs[t] EXCEPT !.selected = IF inputs[t] # 0 THEN outputs[t].source ELSE 0]]
    ELSE UNCHANGED <<global, outputs>>

\* mark_global_phase2_job_succeeded: exactly the consumed snapshots are selected.
GlobalSucceeded(w, inputs) ==
    IF OwnsGlobal(w)
    THEN /\ global' = [global EXCEPT !.status = "done", !.leased = FALSE, !.cooldown = TRUE]
         /\ outputs' = [t \in Threads |->
                [outputs[t] EXCEPT !.selected =
                    IF inputs[t] # 0 /\ outputs[t].source = inputs[t] THEN inputs[t] ELSE 0]]
    ELSE UNCHANGED <<global, outputs>>

\* mark_global_phase2_job_failed; a running row always has an owner, so that the
\* fallback for unowned rows changes nothing more.
GlobalFailed(w) ==
    global' = IF OwnsGlobal(w)
              THEN [global EXCEPT !.status = "error", !.leased = FALSE, !.backoff = TRUE]
              ELSE global

(***************************************************************************)
(* Inputs and retention                                                    *)
(***************************************************************************)

\* claim_stage1_jobs_for_startup: the threads the scan of the state database finds.
Eligible == {t \in Threads : threads[t].fate # "gone" /\ threads[t].mode = "enabled"}

\* Mutant: the memory mode of the thread is not looked at.
SelectionOfAll == [t \in Threads |-> outputs[t].source]

\* get_phase2_input_selection, when fewer than N memories are eligible.
InputSelection == [t \in Threads |-> IF t \in Eligible THEN outputs[t].source ELSE 0]

\* prune_stage1_outputs_for_retention: any unselected row may be old enough.
Prunable == {t \in Threads : outputs[t].source # 0 /\ outputs[t].selected = 0}
Prune(old) == outputs' = [t \in Threads |-> IF t \in old THEN NoOutput ELSE outputs[t]]

(***************************************************************************)
(* Other writers of the two databases                                      *)
(***************************************************************************)

\* A session of the thread wrote to it and the thread has become idle again.
ThreadUpdated(t) ==
    /\ threads[t].fate = "kept"
    /\ threads[t].written < MaxUpdates
    /\ threads' = [threads EXCEPT ![t].written = @ + 1, ![t].updated = threads[t].written + 1]
    /\ UNCHANGED <<jobs, outputs, global>>

\* mark_thread_memory_mode_polluted: three statements on two databases.
PolluteReads(t) ==
    /\ threads[t].fate = "kept" /\ threads[t].polluting = "no"
    /\ threads' = [threads EXCEPT ![t].polluting =
                        IF outputs[t].selected # 0 THEN "selected" ELSE "unselected"]
    /\ UNCHANGED <<jobs, outputs, global>>

PolluteMarks(t) ==
    /\ threads[t].polluting \in {"selected", "unselected"}
    /\ threads' = [threads EXCEPT ![t].mode = "polluted",
                        ![t].polluting = IF @ = "selected" THEN "enqueue" ELSE "no"]
    /\ UNCHANGED <<jobs, outputs, global>>

PolluteEnqueues(t) ==
    /\ threads[t].polluting = "enqueue"
    /\ threads' = [threads EXCEPT ![t].polluting = "no"]
    /\ global' = Enqueued
    /\ UNCHANGED <<jobs, outputs>>

\* reconcile_rollout reads mode and modification time from the rollout, where pollution
\* is not recorded, and writes both to the row later: a row deleted meanwhile is back.
ReconcileReads(t) ==
    /\ threads[t].fate = "kept" /\ threads[t].reconciling = 0
    /\ threads' = [threads EXCEPT ![t].reconciling = threads[t].written]
    /\ UNCHANGED <<jobs, outputs, global>>

ReconcileWrites(t) ==
    /\ threads[t].reconciling # 0
    /\ threads' = [threads EXCEPT ![t].mode = "enabled", ![t].reconciling = 0,
                        ![t].updated = threads[t].reconciling,
                        ![t].fate = IF @ = "gone" THEN "purged" ELSE @]
    /\ UNCHANGED <<jobs, outputs, global>>

\* thread/delete: the rollout file, then the memory rows, then the threads row.
DeleteRollout(t) ==
    /\ threads[t].fate = "kept"
    /\ threads' = [threads EXCEPT ![t].fate = "unlinked"]
    /\ UNCHANGED <<jobs, outputs, global>>

\* Mutant: the job row of the deleted thread stays.
DeleteOutputOnly(t) ==
    /\ threads[t].fate = "unlinked"
    /\ threads' = [threads EXCEPT ![t].fate = "purged"]
    /\ outputs' = [outputs EXCEPT ![t] = NoOutput]
    /\ global' = IF outputs[t].selected # 0 THEN Enqueued ELSE global
    /\ UNCHANGED jobs

DeleteMemory(t) ==
    /\ threads[t].fate = "unlinked"
    /\ threads' = [threads EXCEPT ![t].fate = "purged"]
    /\ jobs' = [jobs EXCEPT ![t] = NoJob]
    /\ outputs' = [outputs EXCEPT ![t] = NoOutput]
    /\ global' = IF outputs[t].selected # 0 THEN Enqueued ELSE global

DeleteThread(t) ==
    /\ threads[t].fate = "purged"
    /\ threads' = [threads EXCEPT ![t].fate = "gone"]
    /\ UNCHANGED <<jobs, outputs, global>>

\* clear_memory_data_in_pool
ClearMemoryData ==
    /\ jobs' = [t \in Threads |-> NoJob]
    /\ outputs' = [t \in Threads |-> NoOutput]
    /\ global' = NoGlobal
    /\ UNCHANGED threads

(***************************************************************************)
(* Deadlines                                                               *)
(***************************************************************************)

Stage1LeaseEnds(t) ==
    /\ Leased(jobs[t])
    /\ jobs' = [jobs EXCEPT ![t].leased = FALSE]
    /\ UNCHANGED <<threads, outputs, global>>

Stage1BackoffEnds(t) ==
    /\ jobs[t].backoff
    /\ jobs' = [jobs EXCEPT ![t].backoff = FALSE]
    /\ UNCHANGED <<threads, outputs, global>>

GlobalLeaseEnds ==
    /\ Leased(global)
    /\ global' = [global EXCEPT !.leased = FALSE]
    /\ UNCHANGED <<threads, jobs, outputs>>

GlobalBackoffEnds ==
    /\ global.backoff
    /\ global' = [global EXCEPT !.backoff = FALSE]
    /\ UNCHANGED <<threads, jobs, outputs>>

CooldownEnds ==
    /\ global.cooldown
    /\ global' = [global EXCEPT !.cooldown = FALSE]
    /\ UNCHANGED <<threads, jobs, outputs>>

\* What the columns of the rows may hold.
ThreadRows == [mode : {"enabled", "polluted"}, updated : Watermark, written : Watermark,
               fate : {"kept", "unlinked", "purged", "gone"},
               polluting : {"no", "selected", "unselected", "enqueue"},
               reconciling : Watermark]
JobRows == [status : {"none", "running", "done", "error"}, owner : Workers \cup {"none"},
            leased : BOOLEAN, backoff : BOOLEAN, retries : 0..MaxRetries,
            input : Watermark, success : Watermark]
OutputRows == [source : Watermark, selected : Watermark]
GlobalRows == [status : {"none", "pending", "running", "done", "error"},
               owner : Workers \cup {"none"}, leased : BOOLEAN, backoff : BOOLEAN,
               cooldown : BOOLEAN]

StoreTypeOK ==
    /\ threads \in [Threads -> ThreadRows]
    /\ jobs \in [Threads -> JobRows]
    /\ outputs \in [Threads -> OutputRows]
    /\ global \in GlobalRows

=============================================================================
