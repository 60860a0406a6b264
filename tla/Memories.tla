------------------------------ MODULE Memories ------------------------------
(***************************************************************************)
(* The startup pipeline of the memories feature (memories/write): phase 1  *)
(* extracts a memory from each idle thread, phase 2 consolidates all       *)
(* memories in the memories directory, whose git baseline says what the    *)
(* consolidation agent has not seen yet.  Every root session of every      *)
(* process runs the pipeline in the background; the rows of MemoryStore    *)
(* are all that coordinates them.  Sessions start, stall and crash at any  *)
(* point; threads are written, polluted, reconciled with their rollouts    *)
(* and deleted, and the user resets the memories, while the pipelines run. *)
(*                                                                         *)
(* The memories directory is reduced to the stage-1 snapshots synced into  *)
(* it (a watermark per thread), the snapshots its baseline holds, and      *)
(* whether an agent has edited anything since the baseline.                *)
(***************************************************************************)
EXTENDS MemoryStore

CONSTANTS
    Stalls,       \* whether a live worker can outlive its one-hour lease
    MaxFaults,    \* bound: stalls, crashes and failures
    MaxRequests   \* bound: pollutions, reconciliations, deletions and resets

ASSUME PipelineAssumption ==
    Stalls \in BOOLEAN /\ MaxFaults \in Nat /\ MaxRequests \in Nat

VARIABLES
    worker,       \* the pipeline of each process
    synced,       \* the stage-1 snapshots in the memories directory
    edited,       \* whether an agent changed other files since the baseline
    baseline,     \* the snapshots in the git baseline, or Missing
    resetting,    \* memory/reset has cleared the rows and is clearing the directory
    faults,       \* how many of the MaxFaults faults are left
    requests,     \* how many of the MaxRequests requests are left
    digested,     \* history: the snapshots a lock owner's agent has consolidated
    overrun       \* history: two were in the directory, or a reset left files in it

vars == <<storeVars, worker, synced, edited, baseline, resetting, faults, requests, digested,
          overrun>>
dirVars == <<synced, edited, baseline, digested, overrun>>
rest == <<resetting, faults, requests>>

Empty == [t \in Threads |-> 0]
Missing == [t \in {} |-> 0]

Idle == [pc |-> "idle", seen |-> Empty, todo |-> {}, held |-> [t \in Threads |-> "no"],
         inputs |-> Empty]

\* The steps of phase2::run and agent::handle that touch the memories directory.
Consolidating == {"prepare", "load", "sync", "diff", "agent", "confirm", "reset",
                  "commit", "mark"}

Init ==
    /\ StoreInit
    /\ worker = [w \in Workers |-> Idle]
    /\ synced = Empty /\ edited = FALSE /\ baseline = Missing
    /\ resetting = FALSE
    /\ faults = MaxFaults /\ requests = MaxRequests
    /\ digested = {} /\ overrun = FALSE

At(w, pc) == worker[w].pc = pc
Goto(w, pc) == worker' = [worker EXCEPT ![w].pc = pc]
Leave(w) == worker' = [worker EXCEPT ![w] = Idle]
Fault == faults > 0 /\ faults' = faults - 1 /\ UNCHANGED requests
Request == requests > 0 /\ requests' = requests - 1 /\ UNCHANGED faults

\* Who changes the directory is alone in it if it owns the lock and nobody clears it.
Trespass(w) == overrun' = (overrun \/ resetting \/ ~OwnsGlobal(w))

(***************************************************************************)
(* Phase 1                                                                 *)
(***************************************************************************)

\* start_memories_startup_task: the pipeline prunes before it looks at rate limits.
Start(w) ==
    /\ At(w, "idle")
    /\ \E old \in SUBSET Prunable : Prune(old)
    /\ Goto(w, "scan")
    /\ UNCHANGED <<threads, jobs, global, dirVars, rest>>

RateLimited(w) ==
    /\ At(w, "scan")
    /\ Leave(w)
    /\ UNCHANGED <<storeVars, dirVars, rest>>

\* claim_stage1_jobs_for_startup reads all candidates before it claims the first.
Scan(w) ==
    /\ At(w, "scan")
    /\ worker' = [worker EXCEPT ![w] =
                    [@ EXCEPT !.pc = "claim", !.todo = Eligible,
                              !.seen = [t \in Threads |-> IF t \in Eligible
                                                          THEN threads[t].updated ELSE 0]]]
    /\ UNCHANGED <<storeVars, dirVars, rest>>

Held(w) == {t \in Threads : worker[w].held[t] # "no"}

\* One round of the claim loop, latest thread first.
Claim(w, t) ==
    /\ At(w, "claim")
    /\ Cardinality(Held(w)) < MaxRunning
    /\ t \in worker[w].todo
    /\ \A u \in worker[w].todo : worker[w].seen[u] <= worker[w].seen[t]
    /\ IF Stage1Claimable(t, worker[w].seen[t])
       THEN /\ ClaimStage1(w, t, worker[w].seen[t])
            /\ worker' = [worker EXCEPT ![w].todo = @ \ {t}, ![w].held[t] = "claimed"]
       ELSE /\ UNCHANGED jobs
            /\ worker' = [worker EXCEPT ![w].todo = @ \ {t}]
    /\ UNCHANGED <<threads, outputs, global, dirVars, rest>>

ClaimsDone(w) ==
    /\ At(w, "claim")
    /\ worker[w].todo = {} \/ Cardinality(Held(w)) = MaxRunning
    /\ worker' = [worker EXCEPT ![w] =
                    [@ EXCEPT !.pc = "extract", !.todo = {},
                              !.seen = [t \in Threads |-> IF t \in Held(w)
                                                          THEN worker[w].seen[t] ELSE 0]]]
    /\ UNCHANGED <<storeVars, dirVars, rest>>

\* A database error ends the loop, and the claims made so far are forgotten.
ClaimError(w) ==
    /\ At(w, "claim")
    /\ Fault
    /\ worker' = [worker EXCEPT ![w] = [Idle EXCEPT !.pc = "extract"]]
    /\ UNCHANGED <<storeVars, dirVars, resetting>>

\* job::run loads the rollout before it samples the model.
LoadRollout(w, t) ==
    /\ At(w, "extract") /\ worker[w].held[t] = "claimed"
    /\ threads[t].fate = "kept"
    /\ worker' = [worker EXCEPT ![w].held[t] = "loaded"]
    /\ UNCHANGED <<storeVars, dirVars, rest>>

Drop(w, t) == worker' = [worker EXCEPT ![w].held[t] = "no", ![w].seen[t] = 0]

ExtractSucceeds(w, t) ==
    /\ At(w, "extract") /\ worker[w].held[t] = "loaded"
    /\ Stage1Succeeded(w, t, worker[w].seen[t])
    /\ Drop(w, t)
    /\ UNCHANGED <<threads, dirVars, rest>>

ExtractFindsNothing(w, t) ==
    /\ At(w, "extract") /\ worker[w].held[t] = "loaded"
    /\ Stage1NoOutput(w, t)
    /\ Drop(w, t)
    /\ UNCHANGED <<threads, dirVars, rest>>

\* The rollout cannot be loaded, or the model request fails.
ExtractFails(w, t) ==
    /\ At(w, "extract") /\ t \in Held(w)
    /\ worker[w].held[t] = "loaded" \/ threads[t].fate # "kept"
    /\ Stage1Failed(w, t)
    /\ Drop(w, t)
    /\ UNCHANGED <<threads, dirVars, rest>>

\* The result cannot be stored: the row stays running until its lease ends.
StoreError(w, t) ==
    /\ At(w, "extract") /\ t \in Held(w)
    /\ Fault
    /\ Drop(w, t)
    /\ UNCHANGED <<storeVars, dirVars, resetting>>

(***************************************************************************)
(* Phase 2                                                                 *)
(***************************************************************************)

\* phase2::run, once every extraction of this startup has ended.
StartPhase2(w) ==
    /\ At(w, "extract") /\ Held(w) = {}
    /\ IF GlobalClaimable
       THEN ClaimGlobal(w) /\ worker' = [worker EXCEPT ![w] = [Idle EXCEPT !.pc = "prepare"]]
       ELSE UNCHANGED global /\ Leave(w)
    /\ UNCHANGED <<threads, jobs, outputs, dirVars, rest>>

\* Mutant: every run starts from a new baseline.
PrepareAnew(w) ==
    /\ At(w, "prepare")
    /\ baseline' = synced /\ edited' = FALSE /\ Trespass(w)
    /\ Goto(w, "load")
    /\ UNCHANGED <<storeVars, synced, digested, rest>>

\* ensure_git_baseline_repository: a missing baseline is made of what is there.
Prepare(w) ==
    /\ At(w, "prepare")
    /\ IF baseline = Missing
       THEN baseline' = synced /\ edited' = FALSE /\ Trespass(w)
       ELSE UNCHANGED <<baseline, edited, overrun>>
    /\ Goto(w, "load")
    /\ UNCHANGED <<storeVars, synced, digested, rest>>

LoadInputs(w) ==
    /\ At(w, "load")
    /\ worker' = [worker EXCEPT ![w].inputs = InputSelection, ![w].pc = "sync"]
    /\ UNCHANGED <<storeVars, dirVars, rest>>

SyncInputs(w) ==
    /\ At(w, "sync")
    /\ synced' = worker[w].inputs
    /\ Trespass(w)
    /\ Goto(w, "diff")
    /\ UNCHANGED <<storeVars, edited, baseline, digested, rest>>

\* A summary that cannot be removed is only warned about, and stays.
PruneFails(w) ==
    /\ At(w, "sync")
    /\ Fault
    /\ \E stale \in SUBSET {t \in Threads : worker[w].inputs[t] = 0 /\ synced[t] # 0} \ {{}} :
          synced' = [t \in Threads |-> IF t \in stale THEN synced[t] ELSE worker[w].inputs[t]]
    /\ Trespass(w)
    /\ Goto(w, "diff")
    /\ UNCHANGED <<storeVars, edited, baseline, digested, resetting>>

Changed == baseline # synced \/ edited

\* Nothing to consolidate: succeed at once, or else spawn the agent on the diff.
Diff(w) ==
    /\ At(w, "diff")
    /\ baseline # Missing
    /\ IF Changed
       THEN edited' = TRUE /\ Goto(w, "agent")
       ELSE UNCHANGED edited /\ Goto(w, "mark")
    /\ UNCHANGED <<storeVars, synced, baseline, digested, overrun, rest>>

\* The heartbeat of loop_agent; a worker that lost the job gives up.
Beat(w) ==
    /\ At(w, "agent")
    /\ Heartbeat(w)
    /\ IF OwnsGlobal(w) THEN UNCHANGED worker ELSE Leave(w)
    /\ UNCHANGED <<threads, jobs, outputs, dirVars, rest>>

\* The agent works on all it finds in the directory.
AgentCompletes(w) ==
    /\ At(w, "agent")
    /\ digested' = digested \cup {<<t, synced[t]>> :
                                   t \in {u \in Threads : OwnsGlobal(w) /\ synced[u] # 0}}
    /\ Goto(w, "confirm")
    /\ UNCHANGED <<storeVars, synced, edited, baseline, overrun, rest>>

\* The heartbeat that confirms ownership before the baseline is reset.
Confirm(w) ==
    /\ At(w, "confirm")
    /\ Heartbeat(w)
    /\ IF OwnsGlobal(w) THEN Goto(w, "reset") ELSE Leave(w)
    /\ UNCHANGED <<threads, jobs, outputs, dirVars, rest>>

\* reset_git_repository removes the old baseline, then commits a new one.
ResetBaseline(w) ==
    /\ At(w, "reset")
    /\ baseline' = Missing
    /\ Trespass(w)
    /\ Goto(w, "commit")
    /\ UNCHANGED <<storeVars, synced, edited, digested, rest>>

CommitBaseline(w) ==
    /\ At(w, "commit")
    /\ baseline' = synced /\ edited' = FALSE
    /\ Trespass(w)
    /\ Goto(w, "mark")
    /\ UNCHANGED <<storeVars, synced, digested, rest>>

Succeed(w) ==
    /\ At(w, "mark")
    /\ GlobalSucceeded(w, worker[w].inputs)
    /\ Leave(w)
    /\ UNCHANGED <<threads, jobs, dirVars, rest>>

\* Any step before the last may fail; so may the agent.  The job is marked failed
\* and the directory stays as it is.
ConsolidationFails(w) ==
    /\ worker[w].pc \in Consolidating \ {"mark"}
    /\ Fault
    /\ GlobalFailed(w)
    /\ Leave(w)
    /\ UNCHANGED <<threads, jobs, outputs, dirVars, resetting>>

\* diff_since_latest_init fails where there is no baseline.
DiffFails(w) ==
    /\ At(w, "diff")
    /\ baseline = Missing
    /\ GlobalFailed(w)
    /\ Leave(w)
    /\ UNCHANGED <<threads, jobs, outputs, dirVars, rest>>

\* git read-tree fails after the commit: the new baseline stays, the job has failed.
IndexFails(w) ==
    /\ At(w, "commit") \/ (At(w, "prepare") /\ baseline = Missing)
    /\ Fault
    /\ baseline' = synced /\ edited' = FALSE
    /\ Trespass(w)
    /\ GlobalFailed(w)
    /\ Leave(w)
    /\ UNCHANGED <<threads, jobs, outputs, synced, digested, resetting>>

\* A sync that is cut short leaves a part of the old files and of the new ones.
SyncFails(w) ==
    /\ At(w, "sync")
    /\ Fault
    /\ \E written \in SUBSET Threads :
          synced' = [t \in Threads |-> IF t \in written THEN worker[w].inputs[t] ELSE synced[t]]
    /\ Trespass(w)
    /\ GlobalFailed(w) \/ UNCHANGED global
    /\ Leave(w)
    /\ UNCHANGED <<threads, jobs, outputs, edited, baseline, digested, resetting>>

\* The process ends; a last database error has the same effect.
Crash(w) ==
    /\ worker[w].pc # "idle"
    /\ Fault
    /\ Leave(w)
    /\ UNCHANGED <<storeVars, dirVars, resetting>>

(***************************************************************************)
(* memory/reset and the passing of time                                    *)
(***************************************************************************)

\* memory_reset_response_inner: the rows, then the directory, without the global lock.
ResetRows ==
    /\ ~resetting /\ resetting' = TRUE
    /\ Request
    /\ ClearMemoryData
    /\ UNCHANGED <<worker, dirVars>>

\* clear_memory_root_contents removes the entries one by one, in any order.
Clear == resetting /\ overrun' = (overrun \/ global.status = "running")

ClearGit ==
    /\ Clear /\ baseline # Missing
    /\ baseline' = Missing
    /\ UNCHANGED <<storeVars, worker, synced, edited, digested, rest>>

ClearSnapshot(t) ==
    /\ Clear /\ synced[t] # 0
    /\ synced' = [synced EXCEPT ![t] = 0]
    /\ UNCHANGED <<storeVars, worker, edited, baseline, digested, rest>>

ClearNotes ==
    /\ Clear /\ baseline # Missing /\ ~edited
    /\ edited' = TRUE
    /\ UNCHANGED <<storeVars, worker, synced, baseline, digested, rest>>

\* The last entry is gone, or an error or the end of the process leaves the others.
ResetEnds ==
    /\ resetting /\ resetting' = FALSE
    /\ digested' = {}
    /\ overrun' = (overrun \/ baseline # Missing \/ synced # Empty)
    /\ UNCHANGED <<storeVars, worker, synced, edited, baseline, faults, requests>>

ResetFiles == ClearGit \/ ClearNotes \/ ResetEnds \/ \E t \in Threads : ClearSnapshot(t)

\* A lease ends when its holder has gone, or has stalled for longer than the lease.
LeaseEnds(alive) ==
    /\ IF alive THEN Stalls /\ Fault ELSE UNCHANGED <<faults, requests>>
    /\ UNCHANGED <<worker, dirVars, resetting>>

LockExpires ==
    GlobalLeaseEnds /\ LeaseEnds(worker[global.owner].pc \in Consolidating)

ClaimExpires(t) ==
    Stage1LeaseEnds(t) /\ LeaseEnds(t \in Held(jobs[t].owner))

Elsewhere == UNCHANGED <<worker, dirVars, rest>>

LockReady == (GlobalBackoffEnds \/ CooldownEnds) /\ Elsewhere
RetryReady(t) == Stage1BackoffEnds(t) /\ Elsewhere

Phase1(w) ==
    \/ Start(w) \/ RateLimited(w) \/ Scan(w) \/ ClaimsDone(w) \/ ClaimError(w)
    \/ \E t \in Threads :
          \/ Claim(w, t) \/ LoadRollout(w, t) \/ ExtractSucceeds(w, t)
          \/ ExtractFindsNothing(w, t) \/ ExtractFails(w, t) \/ StoreError(w, t)

Phase2(w) ==
    \/ StartPhase2(w) \/ Prepare(w) \/ LoadInputs(w) \/ SyncInputs(w) \/ Diff(w)
    \/ Beat(w) \/ AgentCompletes(w) \/ Confirm(w) \/ ResetBaseline(w)
    \/ CommitBaseline(w) \/ Succeed(w) \/ ConsolidationFails(w) \/ DiffFails(w)
    \/ SyncFails(w) \/ PruneFails(w) \/ IndexFails(w)

Users ==
    \/ \E t \in Threads :
          \/ /\ ThreadUpdated(t) \/ PolluteMarks(t) \/ PolluteEnqueues(t)
                \/ DeleteMemory(t) \/ DeleteThread(t) \/ ReconcileWrites(t)
             /\ Elsewhere
          \/ /\ PolluteReads(t) \/ DeleteRollout(t) \/ ReconcileReads(t)
             /\ Request
             /\ UNCHANGED <<worker, dirVars, resetting>>
    \/ ResetRows \/ ResetFiles

Time ==
    \/ LockExpires \/ LockReady
    \/ \E t \in Threads : ClaimExpires(t) \/ RetryReady(t)

Next == (\E w \in Workers : Phase1(w) \/ Phase2(w) \/ Crash(w)) \/ Users \/ Time

Spec == Init /\ [][Next]_vars

\* Root sessions keep being started and are not rate limited for ever; a pipeline
\* that neither fails nor crashes goes on, a request or an agent ends, time passes.
Fairness ==
    /\ \A w \in Workers :
          /\ WF_vars(Start(w)) /\ SF_vars(Scan(w)) /\ WF_vars(ClaimsDone(w))
          /\ \A t \in Threads :
                /\ WF_vars(Claim(w, t)) /\ WF_vars(LoadRollout(w, t))
                /\ WF_vars(ExtractSucceeds(w, t) \/ ExtractFindsNothing(w, t)
                              \/ ExtractFails(w, t))
          /\ WF_vars(StartPhase2(w)) /\ WF_vars(Prepare(w)) /\ WF_vars(LoadInputs(w))
          /\ WF_vars(SyncInputs(w)) /\ WF_vars(Diff(w)) /\ WF_vars(DiffFails(w))
          /\ WF_vars(AgentCompletes(w)) /\ WF_vars(Confirm(w))
          /\ WF_vars(ResetBaseline(w)) /\ WF_vars(CommitBaseline(w))
          /\ WF_vars(Succeed(w))
    /\ WF_vars(ResetEnds)
    /\ WF_vars(LockExpires) /\ WF_vars(LockReady)
    /\ \A t \in Threads : WF_vars(ClaimExpires(t)) /\ WF_vars(RetryReady(t))

FairSpec == Spec /\ Fairness

(***************************************************************************)
(* Properties                                                              *)
(***************************************************************************)

Snapshots == [Threads -> Watermark]
Holdings == [Threads -> {"no", "claimed", "loaded"}]
Points == Consolidating \cup {"idle", "scan", "claim", "extract"}
Pipelines == [pc : Points, seen : Snapshots, todo : SUBSET Threads, held : Holdings,
              inputs : Snapshots]

TypeOK ==
    /\ StoreTypeOK
    /\ worker \in [Workers -> Pipelines]
    /\ synced \in Snapshots /\ baseline \in Snapshots \cup {Missing}
    /\ edited \in BOOLEAN /\ resetting \in BOOLEAN /\ overrun \in BOOLEAN
    /\ faults \in 0 .. MaxFaults /\ requests \in 0 .. MaxRequests
    /\ digested \subseteq Threads \X Watermark

\* The memory kept for a thread is the one of its latest successful extraction,
\* whatever worker was late, stalled or started from an old list of threads
\* (mark_stage1_job_succeeded and the two up-to-date checks of the claim).
OutputIsLatest ==
    \A t \in Threads : outputs[t].source # 0 => outputs[t].source = jobs[t].success

\* A deleted thread has no memory row: an extraction in flight cannot bring it
\* back (delete_thread_memory against a claim, a loaded rollout, a late result).
DeletedLeavesNoMemory ==
    \A t \in Threads : threads[t].fate \in {"purged", "gone"} => outputs[t] = NoOutput

\* As long as whoever changed the directory was alone in it and every reset cleared all
\* of it, the git baseline only holds snapshots some agent has consolidated: else they
\* would never show in a diff again
\* ("Do not reset the workspace baseline if we lost the lock").
BaselineDigested ==
    ~overrun /\ baseline # Missing =>
        \A t \in Threads : baseline[t] # 0 => <<t, baseline[t]>> \in digested

\* Under the same proviso an output marked selected_for_phase2 is a snapshot some agent
\* has consolidated, crashes between baseline and mark included.
SelectedDigested ==
    ~overrun =>
        \A t \in Threads : outputs[t].selected # 0 => <<t, outputs[t].selected>> \in digested

InBaseline(t) == baseline # Missing /\ baseline[t] # 0

\* Consolidation drops the memory of a deleted thread from the baseline for good, also if
\* reconcile_rollout writes its threads row again, and that of a polluted thread unless
\* reconcile_rollout sets its mode back, through crashes, retries, cooldowns and resets
\* (get_phase2_input_selection, mark_thread_memory_mode_polluted).
Forgotten ==
    \A t \in Threads :
        <>[](threads[t].fate \in {"purged", "gone"} \/ threads[t].mode = "polluted")
            => <>[]~InBaseline(t)

\* The version a thread's row names is extracted in the end, unless its retries run out or
\* it is polluted or deleted first: a claim whose worker crashed is taken over, a failure
\* is retried, and a version written meanwhile is claimed again (try_claim_stage1_job).
Extracted ==
    \A t \in Threads :
        []<>(\/ jobs[t].success >= threads[t].updated
             \/ jobs[t].status = "error" /\ jobs[t].retries = 0
             \/ threads[t].mode = "polluted"
             \/ threads[t].fate # "kept")

\* memories/README.md: "claims a single global phase-2 lock before touching the
\* memories root (so only one consolidation inspects or mutates the workspace at a
\* time)".
OneConsolidation ==
    \A v, w \in Workers :
        worker[v].pc \in Consolidating /\ worker[w].pc \in Consolidating => v = w

=============================================================================
