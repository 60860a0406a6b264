-------------------------- MODULE TurnSlot_proofs --------------------------
(***************************************************************************)
(* Proofs about TurnSlot, for any set of turns. OwnerInv is the inductive  *)
(* invariant: at every moment at most one party owes a turn its terminal   *)
(* event (the caller about to start it, the slot, its own finishing task,  *)
(* or the caller that aborts it), and that party holds it alone.           *)
(***************************************************************************)
EXTENDS TurnSlot, TLAPS

\* The task in the slot runs, uncancelled, and such a task is in the slot;
\* while the caller aborts a task, it has put no other into the slot.
SlotInv ==
    /\ \A t \in Turns :
          /\ slot = t => pc[t] \in Running /\ ~cancelled[t] /\ ended[t] = 0
          /\ pc[t] \in Running /\ ~cancelled[t] => slot = t
    /\ stage # "idle" => slot = NoTurn

\* A turn that has not run, or that finishes itself, was never cancelled; a
\* cancelled task that runs on is the one the caller waits for.
TaskInv ==
    \A t \in Turns :
       /\ pc[t] \in {"none", "allotted", "finishing"} => ended[t] = 0
       /\ pc[t] \in {"none", "allotted", "finishing", "sent"} => ~cancelled[t]
       /\ ended[t] > 0 => ended[t] = 1 /\ pc[t] \in {"sent", "done", "killed"}
       /\ cancelled[t] /\ pc[t] \in Running => stage = "wait" /\ victim = t

\* What the caller aborts: a cancelled turn whose event is still owed.
VictimInv ==
    stage # "idle" =>
       /\ victim \in Turns
       /\ cancelled[victim] /\ ended[victim] = 0
       /\ stage = "wait" => pc[victim] \in Running \cup {"done"}
       /\ stage = "emit" => pc[victim] \in {"done", "killed"}

\* A turn about to start has no task yet.
StartInv == starting # NoTurn => pc[starting] = "allotted"

OwnerInv == TypeOK /\ SlotInv /\ TaskInv /\ VictimInv /\ StartInv

-----------------------------------------------------------------------------
\* No turn has started and nobody holds one: the invariant holds initially.
LEMMA InitOwner == Init => OwnerInv
  BY NoTurnAssumption
  DEF Init, OwnerInv, TypeOK, SlotInv, TaskInv, VictimInv, StartInv, Running,
      TaskPoints, Stages

\* Every step preserves the types.
LEMMA TypeStep == TypeOK /\ [Next]_vars => TypeOK'
<1> SUFFICES ASSUME TypeOK, [Next]_vars PROVE TypeOK'
  OBVIOUS
<1> USE NoTurnAssumption DEF TypeOK, TaskPoints, Stages, Running
<1>1. ASSUME NEW t \in Turns, Allot(t) PROVE TypeOK'
  BY <1>1 DEF Allot
<1>2. CASE Install
  BY <1>2 DEF Install
<1>3. CASE Take
  BY <1>3 DEF Take
<1>4. CASE Graceful
  BY <1>4 DEF Graceful
<1>5. CASE Timeout
  BY <1>5 DEF Timeout
<1>6. CASE EmitAborted
  <2>1. ended' \in [Turns -> Nat]
    <3>1. CASE victim \in Turns
      BY <1>6, <3>1 DEF EmitAborted
    <3>2. CASE victim \notin Turns
      BY <1>6, <3>2 DEF EmitAborted
    <3> QED
      BY <3>1, <3>2
  <2> QED
    BY <1>6, <2>1 DEF EmitAborted
<1>7. ASSUME NEW t \in Turns, RunEnds(t) PROVE TypeOK'
  BY <1>7 DEF RunEnds
<1>8. ASSUME NEW t \in Turns, FinishCheck(t) PROVE TypeOK'
  BY <1>8 DEF FinishCheck
<1>9. ASSUME NEW t \in Turns, FinishTake(t) PROVE TypeOK'
  BY <1>9 DEF FinishTake
<1>10. ASSUME NEW t \in Turns, EmitComplete(t) PROVE TypeOK'
  BY <1>10 DEF EmitComplete
<1>11. ASSUME NEW t \in Turns, FinishReturns(t) PROVE TypeOK'
  BY <1>11 DEF FinishReturns
<1>12. CASE UNCHANGED vars
  BY <1>12 DEF vars
<1> QED
  BY <1>1, <1>2, <1>3, <1>4, <1>5, <1>6, <1>7, <1>8, <1>9, <1>10, <1>11, <1>12
  DEF Next

\* The types hold in every reachable state.
THEOREM TypeCorrect == Spec => []TypeOK
<1>1. Init => TypeOK
  BY InitOwner DEF OwnerInv
<1> QED
  BY <1>1, TypeStep, PTL DEF Spec

-----------------------------------------------------------------------------
(* One lemma per step: the owner of every turn stays unique.               *)

\* spawn_task picks a sub_id that nobody uses yet.
LEMMA AllotOwner ==
    ASSUME OwnerInv, TypeOK', NEW t \in Turns, Allot(t)
    PROVE  OwnerInv'
<1> USE NoTurnAssumption DEF OwnerInv, TypeOK, Allot, Running, Stages
<1>1. SlotInv'
  BY DEF SlotInv, TaskInv
<1>2. TaskInv'
  BY DEF TaskInv
<1>3. VictimInv'
  BY DEF VictimInv, TaskInv
<1>4. StartInv'
  BY DEF StartInv
<1> QED
  BY <1>1, <1>2, <1>3, <1>4

\* start_task stores the new task; a task it overwrites is dropped and dead.
LEMMA InstallOwner ==
    ASSUME OwnerInv, TypeOK', Install
    PROVE  OwnerInv'
<1> USE NoTurnAssumption DEF OwnerInv, TypeOK, Install, Running, Stages
<1>1. starting \in Turns /\ pc[starting] = "allotted"
  BY DEF StartInv
<1>2. SlotInv'
  BY <1>1 DEF SlotInv, TaskInv
<1>3. TaskInv'
  BY <1>1 DEF TaskInv, SlotInv
<1>4. VictimInv'
  BY <1>1 DEF VictimInv, SlotInv, TaskInv
<1>5. StartInv'
  BY <1>1 DEF StartInv
<1> QED
  BY <1>2, <1>3, <1>4, <1>5

\* abort_all_tasks takes the task out of the slot and cancels it.
LEMMA TakeOwner ==
    ASSUME OwnerInv, TypeOK', Take
    PROVE  OwnerInv'
<1> USE NoTurnAssumption DEF OwnerInv, TypeOK, Take, Running, Stages
<1>1. /\ slot \in Turns /\ pc[slot] \in Running /\ ~cancelled[slot]
      /\ ended[slot] = 0
  BY DEF SlotInv
<1>2. SlotInv'
  BY <1>1 DEF SlotInv
<1>3. TaskInv'
  BY <1>1 DEF TaskInv, SlotInv
<1>4. VictimInv'
  BY <1>1 DEF VictimInv
<1>5. StartInv'
  BY <1>1 DEF StartInv
<1> QED
  BY <1>2, <1>3, <1>4, <1>5

\* The victim ends within the graceful timeout.
LEMMA GracefulOwner ==
    ASSUME OwnerInv, TypeOK', Graceful
    PROVE  OwnerInv'
<1> USE NoTurnAssumption DEF OwnerInv, TypeOK, Graceful, Running, Stages
<1>1. SlotInv'
  BY DEF SlotInv
<1>2. TaskInv'
  BY DEF TaskInv, VictimInv
<1>3. VictimInv'
  BY DEF VictimInv
<1>4. StartInv'
  BY DEF StartInv
<1> QED
  BY <1>1, <1>2, <1>3, <1>4

\* The graceful timeout expires and the victim's future is aborted.
LEMMA TimeoutOwner ==
    ASSUME OwnerInv, TypeOK', Timeout
    PROVE  OwnerInv'
<1> USE NoTurnAssumption DEF OwnerInv, TypeOK, Timeout, Running, Stages
<1>1. /\ victim \in Turns /\ cancelled[victim] /\ ended[victim] = 0
      /\ pc[victim] \in Running
  BY DEF VictimInv
<1>2. SlotInv'
  BY <1>1 DEF SlotInv
<1>3. TaskInv'
  BY <1>1 DEF TaskInv, VictimInv
<1>4. VictimInv'
  BY <1>1 DEF VictimInv
<1>5. StartInv'
  BY <1>1 DEF StartInv
<1> QED
  BY <1>2, <1>3, <1>4, <1>5

\* TurnAborted is sent by the caller that took the task.
LEMMA EmitAbortedOwner ==
    ASSUME OwnerInv, TypeOK', EmitAborted
    PROVE  OwnerInv'
<1> USE NoTurnAssumption DEF OwnerInv, TypeOK, EmitAborted, Running, Stages
<1>1. /\ victim \in Turns /\ cancelled[victim] /\ ended[victim] = 0
      /\ pc[victim] \in {"done", "killed"}
  BY DEF VictimInv
<1>2. SlotInv'
  BY <1>1 DEF SlotInv
<1>3. TaskInv'
  BY <1>1 DEF TaskInv
<1>4. VictimInv'
  BY <1>1 DEF VictimInv
<1>5. StartInv'
  BY <1>1 DEF StartInv
<1> QED
  BY <1>2, <1>3, <1>4, <1>5

\* SessionTask::run returns, cancelled or not.
LEMMA RunEndsOwner ==
    ASSUME OwnerInv, TypeOK', NEW t \in Turns, RunEnds(t)
    PROVE  OwnerInv'
<1> USE NoTurnAssumption DEF OwnerInv, TypeOK, RunEnds, Running, Stages
<1>1. SlotInv'
  BY DEF SlotInv
<1>2. TaskInv'
  BY DEF TaskInv
<1>3. VictimInv'
  BY DEF VictimInv
<1>4. StartInv'
  BY DEF StartInv
<1> QED
  BY <1>1, <1>2, <1>3, <1>4

\* A cancelled task stops here and leaves its event to the caller.
LEMMA FinishCheckOwner ==
    ASSUME OwnerInv, TypeOK', NEW t \in Turns, FinishCheck(t)
    PROVE  OwnerInv'
<1> USE NoTurnAssumption DEF OwnerInv, TypeOK, FinishCheck, Running, Stages
<1>1. SlotInv'
  BY DEF SlotInv
<1>2. TaskInv'
  BY DEF TaskInv
<1>3. VictimInv'
  BY DEF VictimInv
<1>4. StartInv'
  BY DEF StartInv
<1> QED
  BY <1>1, <1>2, <1>3, <1>4

\* The step that matters: a task in the slot is the one that finishes, because
\* the caller does not start another while it waits for a cancelled one.
LEMMA FinishTakeOwner ==
    ASSUME OwnerInv, TypeOK', NEW t \in Turns, FinishTake(t)
    PROVE  OwnerInv'
<1> USE NoTurnAssumption DEF OwnerInv, TypeOK, FinishTake, Running, Stages
<1>1. /\ slot # NoTurn => slot = t /\ ~cancelled[t] /\ ended[t] = 0
      /\ slot = NoTurn => cancelled[t] /\ stage = "wait" /\ victim = t
  BY DEF SlotInv, TaskInv
<1>2. SlotInv'
  BY <1>1 DEF SlotInv
<1>3. TaskInv'
  BY <1>1 DEF TaskInv, VictimInv
<1>4. VictimInv'
  BY <1>1 DEF VictimInv
<1>5. StartInv'
  BY <1>1 DEF StartInv
<1> QED
  BY <1>2, <1>3, <1>4, <1>5

\* TurnComplete is sent by the task that left the slot by itself.
LEMMA EmitCompleteOwner ==
    ASSUME OwnerInv, TypeOK', NEW t \in Turns, EmitComplete(t)
    PROVE  OwnerInv'
<1> USE NoTurnAssumption DEF OwnerInv, TypeOK, EmitComplete, Running, Stages
<1>1. SlotInv'
  BY DEF SlotInv
<1>2. TaskInv'
  BY DEF TaskInv
<1>3. VictimInv'
  BY DEF VictimInv, TaskInv
<1>4. StartInv'
  BY DEF StartInv
<1> QED
  BY <1>1, <1>2, <1>3, <1>4

\* on_task_finished returns and the spawned future ends.
LEMMA FinishReturnsOwner ==
    ASSUME OwnerInv, TypeOK', NEW t \in Turns, FinishReturns(t)
    PROVE  OwnerInv'
<1> USE NoTurnAssumption DEF OwnerInv, TypeOK, FinishReturns, Running, Stages
<1>1. SlotInv'
  BY DEF SlotInv
<1>2. TaskInv'
  BY DEF TaskInv
<1>3. VictimInv'
  BY DEF VictimInv
<1>4. StartInv'
  BY DEF StartInv
<1> QED
  BY <1>1, <1>2, <1>3, <1>4

\* A step that changes nothing keeps the invariant.
LEMMA StutterOwner == OwnerInv /\ UNCHANGED vars => OwnerInv'
  BY DEF OwnerInv, TypeOK, SlotInv, TaskInv, VictimInv, StartInv, vars

\* Every step keeps the invariant.
LEMMA OwnerStep == OwnerInv /\ [Next]_vars => OwnerInv'
<1> SUFFICES ASSUME OwnerInv, [Next]_vars PROVE OwnerInv'
  OBVIOUS
<1>1. TypeOK'
  BY TypeStep DEF OwnerInv
<1> QED
  BY <1>1, AllotOwner, InstallOwner, TakeOwner, GracefulOwner, TimeoutOwner,
     EmitAbortedOwner, RunEndsOwner, FinishCheckOwner, FinishTakeOwner,
     EmitCompleteOwner, FinishReturnsOwner, StutterOwner
  DEF Next

\* The inductive invariant holds in every reachable state.
LEMMA OwnerAlways == Spec => []OwnerInv
  BY InitOwner, OwnerStep, PTL DEF Spec

-----------------------------------------------------------------------------
(* Theorems *)

\* A turn gets at most one terminal event (TurnComplete or TurnAborted), for
\* any number of turns.
THEOREM AtMostOneTerminalEvent == Spec => []OneTerminalEvent
<1>1. OwnerInv => OneTerminalEvent
  <2> SUFFICES ASSUME OwnerInv, NEW t \in Turns PROVE ended[t] <= 1
    BY DEF OneTerminalEvent
  <2>1. ended[t] \in Nat /\ (ended[t] > 0 => ended[t] = 1)
    BY DEF OwnerInv, TypeOK, TaskInv
  <2> QED
    BY <2>1
<1> QED
  BY <1>1, OwnerAlways, PTL

\* After its terminal event the task of a turn has stopped, or only has
\* on_task_finished's clean-up left.
THEOREM SilenceAfterTerminalEvent == Spec => []SilentAfterTerminalEvent
<1>1. OwnerInv => SilentAfterTerminalEvent
  BY DEF OwnerInv, TaskInv, SilentAfterTerminalEvent
<1> QED
  BY <1>1, OwnerAlways, PTL

\* on_task_finished takes the task of its own turn or none, although it does
\* not look and its token may have been cancelled since it was checked.
THEOREM FinishTakesOwn == Spec => []FinishTakesOwnTask
<1>1. OwnerInv => FinishTakesOwnTask
  BY DEF OwnerInv, TypeOK, SlotInv, TaskInv, FinishTakesOwnTask, Running
<1> QED
  BY <1>1, OwnerAlways, PTL

\* At most one task runs uncancelled.
THEOREM AtMostOneRunningTask == Spec => []OneRunningTask
<1>1. OwnerInv => OneRunningTask
  BY DEF OwnerInv, SlotInv, OneRunningTask
<1> QED
  BY <1>1, OwnerAlways, PTL

\* Terminal events are sent once, for turns that ran, and never taken back.
THEOREM TerminalEventsGrow == Spec => EventsOnlyGrow
<1> DEFINE A == \A t \in Turns : ended'[t] # ended[t] =>
                   /\ ended[t] = 0 /\ ended'[t] = 1
                   /\ pc[t] \in {"finishing", "done", "killed"}
<1>1. OwnerInv /\ [Next]_vars => [A]_vars
  <2> SUFFICES ASSUME OwnerInv, Next, NEW t \in Turns, ended'[t] # ended[t]
               PROVE  /\ ended[t] = 0 /\ ended'[t] = 1
                      /\ pc[t] \in {"finishing", "done", "killed"}
    BY DEF vars
  <2> USE DEF OwnerInv, TypeOK
  <2>1. ASSUME EmitAborted
        PROVE  /\ ended[t] = 0 /\ ended'[t] = 1
               /\ pc[t] \in {"finishing", "done", "killed"}
    BY <2>1 DEF EmitAborted, VictimInv
  <2>2. ASSUME NEW u \in Turns, EmitComplete(u)
        PROVE  /\ ended[t] = 0 /\ ended'[t] = 1
               /\ pc[t] \in {"finishing", "done", "killed"}
    BY <2>2 DEF EmitComplete, TaskInv
  <2> QED
    BY <2>1, <2>2
    DEF Next, Allot, Install, Take, Graceful, Timeout, RunEnds, FinishCheck,
        FinishTake, FinishReturns
<1> QED
  BY <1>1, OwnerAlways, PTL DEF Spec, EventsOnlyGrow
=============================================================================
