-------------------------- MODULE TurnLoop_proofs --------------------------
EXTENDS TurnLifecycle_proofs

(***************************************************************************)
(* What holds when the submission loop alone starts and aborts turns (no   *)
(* guardian review is interrupted and no extension offers work): nothing   *)
(* is overwritten, the slot protocol is the one of TurnSlot, a turn has    *)
(* one terminal event, and no input is lost.  It does not hold with the    *)
(* other callers: the run FindingTwoEnds shows two terminal events of one  *)
(* turn.                                                                   *)
(*                                                                         *)
(* LoopInv adds to BaseInv that the other callers stay idle, that the slot *)
(* is empty while the loop aborts and holds no task while it starts one,   *)
(* and that the slot holds the one task that works uncancelled.            *)
(*                                                                         *)
(* KeepInv adds to LoopInv where runs and the loop hold input, and who     *)
(* holds the turn state in the slot.  A step then either moves input on or *)
(* lets go of a place that holds none.                                     *)
(***************************************************************************)

\* Only the submission loop starts and aborts turns.
LoopAlone == ~Guardian /\ IdleItems = {}

\* Where a task is that has not come to on_task_finished's take.
Working == RunPoints \cup {"finish", "fin_lock"}

\* The other callers stay idle, and the loop never goes through
\* try_start_turn_if_idle.
LoopPoints == {"idle", "exited", "abort_take", "pending_check", "reserve"}
                 \cup AbortPoints \cup StartPoints
OthersIdle ==
    /\ \A p \in Callers \ {"loop"} : call[p].at = "idle" /\ call[p].turn = None
    /\ call["loop"].at \in LoopPoints

\* While the loop aborts a turn the slot is empty; while it starts one, the slot holds
\* no task.
LoopOwnsSlot ==
    /\ call["loop"].at \in AbortPoints => activeState = None
    /\ call["loop"].at \in StartPoints => activeTask = None
    /\ ~overwritten

\* The task in the slot is the one that works, uncancelled; a cancelled one that works
\* is the one whose end the loop awaits.
WorkInSlot ==
    \A t \in Turns :
        /\ activeTask = t => pc[t] \in Working
        /\ pc[t] \in Working /\ ~cancelled[t] => activeTask = t
        /\ pc[t] \in Working /\ cancelled[t] =>
               call["loop"].at = "abort_wait" /\ call["loop"].victim = t

\* The waiter of the task in the slot is in the slot's state.
WaitersKept ==
    \A t \in Turns : pc[t] = "waiting" /\ ~cancelled[t] =>
        local[t].decision \/ t \in waiters[activeState]

LoopInv ==
    LoopAlone /\ BaseInv /\ OthersIdle /\ LoopOwnsSlot /\ WorkInSlot /\ WaitersKept

-----------------------------------------------------------------------------
(* LoopInv is inductive.                                                   *)

\* Constant hypotheses stay.
LEMMA AloneStays == LoopAlone <=> LoopAlone'
  BY DEF LoopAlone

\* What is not idle is the loop.
LEMMA OnlyLoop ==
    ASSUME LoopInv, NEW p \in Callers, call[p].at # "idle"
    PROVE  p = "loop"
  BY DEF LoopInv, OthersIdle

\* The loop moves on with the task in the slot, if any, left there.
LEMMA LoopMoves ==
    ASSUME LoopInv, BaseInv',
           \A q \in Callers \ {"loop"} : call'[q] = call[q],
           call'["loop"].at \in LoopPoints, UNCHANGED <<pc, cancelled, activeTask, overwritten>>,
           activeTask # None => activeState' = activeState /\ waiters' = waiters,
           \A t \in Turns : local'[t].decision = local[t].decision,
           call'["loop"].at \in AbortPoints => activeState' = None,
           call'["loop"].at \in StartPoints => activeTask = None,
           call["loop"].at = "abort_wait" => pc[call["loop"].victim] \notin Working
    PROVE  LoopInv'
<1>1. OthersIdle'
  BY DEF LoopInv, OthersIdle
<1>2. LoopOwnsSlot'
  BY DEF LoopInv, LoopOwnsSlot
<1>3. WorkInSlot'
  BY DEF LoopInv, WorkInSlot
<1>4. WaitersKept'
  <2>1. "waiting" \in Working /\ None \notin Turns
    BY DEF Working, RunPoints, None, Turns
  <2> QED
    BY <2>1 DEF LoopInv, WaitersKept, WorkInSlot
<1> QED
  BY <1>1, <1>2, <1>3, <1>4, AloneStays DEF LoopInv

\* Queues change, and approvals are given.
LEMMA LoopQueueSteps ==
    ASSUME LoopInv, BaseInv',
           \/ \E u \in UserInputs : UserInputSteers(u) \/ UserInputRejected(u)
           \/ \E u \in Steers, t \in Turns : SteerInput(u, t)
           \/ \E i \in Injected : InjectNoNewTurn(i)
           \/ \E t \in Turns : NotifyApproval(t)
    PROVE  LoopInv'
<1>1. UNCHANGED <<activeState, activeTask, pc, cancelled, call, overwritten>>
  BY DEF UserInputSteers, UserInputRejected, SteerInput, InjectNoNewTurn, NotifyApproval, activeVars,
         taskVars, stateVars, fateVars
<1>2. WaitersKept'
  <2>1. CASE \E t \in Turns : NotifyApproval(t)
    <3>1. PICK t \in Turns : NotifyApproval(t)
      BY <2>1
    <3>2. /\ local' = [local EXCEPT ![t] = [local[t] EXCEPT !.decision = TRUE]]
          /\ waiters' = [waiters EXCEPT ![activeState] = waiters[activeState] \ {t}]
          /\ activeState # None
      BY <3>1 DEF NotifyApproval
    <3>3. TypeOK /\ local[t] \in Locals /\ activeState \in States
      BY <3>2 DEF LoopInv, BaseInv, TypeOK
    <3>4. /\ local'[t].decision
          /\ \A u \in Turns : u # t => local'[u] = local[u]
      <4>1. /\ local'[t] = [local[t] EXCEPT !.decision = TRUE]
            /\ \A u \in Turns : u # t => local'[u] = local[u]
        BY <3>2, <3>3 DEF TypeOK
      <4> QED
        BY <3>3, <4>1 DEF Locals
    <3>5. waiters'[activeState] = waiters[activeState] \ {t}
      BY <3>2, <3>3 DEF TypeOK
    <3> QED
      BY <1>1, <3>4, <3>5 DEF LoopInv, WaitersKept
  <2>2. CASE ~\E t \in Turns : NotifyApproval(t)
    <3>1. UNCHANGED <<waiters, local>>
      BY <2>2 DEF UserInputSteers, UserInputRejected, SteerInput, InjectNoNewTurn, taskVars, stateVars
    <3> QED
      BY <1>1, <3>1 DEF LoopInv, WaitersKept
  <2> QED
    BY <2>1, <2>2
<1>3. OthersIdle' /\ LoopOwnsSlot' /\ WorkInSlot'
  BY <1>1 DEF LoopInv, OthersIdle, LoopOwnsSlot, WorkInSlot
<1> QED
  BY <1>2, <1>3, AloneStays DEF LoopInv

\* The loop takes an operation.
LEMMA LoopTakesOp ==
    ASSUME LoopInv, BaseInv',
           \/ \E u \in UserInputs : UserInputStartsTurn(u)
           \/ Compact \/ Interrupt \/ Shutdown
           \/ \E m \in Mails : InterAgentCommunication(m)
    PROVE  LoopInv'
<1>1. /\ UNCHANGED <<activeState, activeTask, pc, cancelled, overwritten, waiters, local>>
      /\ call["loop"].at = "idle"
  BY DEF UserInputStartsTurn, Compact, Interrupt, Shutdown, InterAgentCommunication, LoopReady,
         activeVars, taskVars, stateVars, fateVars
<1>2. /\ \A q \in Callers \ {"loop"} : call'[q] = call[q]
      /\ call'["loop"].at \in {"idle", "abort_take", "pending_check"}
  <2>0. TypeOK /\ "loop" \in Callers /\ "pending_check" \in CallPoints
    BY DEF LoopInv, BaseInv, Callers, CallPoints
  <2>1. \/ \E k \in {"Regular", "Compact"}, x \in Seq(Items) : SpawnTask(k, x)
        \/ InterruptTask("loop") \/ Goto("loop", "pending_check") \/ UNCHANGED call
    <3>1. \A u \in UserInputs : <<u>> \in Seq(Items)
      BY DEF Items
    <3>2. <<>> \in Seq(Items)
      OBVIOUS
    <3> QED
      BY <3>1, <3>2 DEF UserInputStartsTurn, Compact, Interrupt, Shutdown, InterAgentCommunication
  <2> QED
    BY <1>1, <2>0, <2>1, SpawnCall, InterruptCall, GotoCall DEF Becomes
<1> QED
  BY <1>1, <1>2, LoopMoves DEF LoopPoints, AbortPoints, StartPoints

\* The steps of its calls that leave a task in the slot alone.
LEMMA LoopCallMoves ==
    ASSUME LoopInv, BaseInv', NEW p \in Callers,
           \/ PendingCheck(p) \/ ReserveRefused(p) \/ Reserve(p)
           \/ StartTake(p) \/ StartDrain(p) \/ StartState(p) \/ StartExtend(p)
           \/ AbortAllFindsNoTask(p) \/ AbortGraceful(p) \/ AbortEmit(p) \/ AbortClear(p)
    PROVE  LoopInv'
<1>0. TypeOK /\ CallSound(p) /\ call[p] \in Calls /\ SlotSound /\ LoopOwnsSlot /\ OthersIdle
  BY DEF LoopInv, BaseInv, CallsSound, TypeOK
<1>1. call[p].at # "idle"
  BY DEF PendingCheck, ReserveRefused, Reserve, StartTake, StartDrain, StartState, StartExtend,
         AbortAllFindsNoTask, AbortGraceful, AbortEmit, AbortClear
<1>2. p = "loop"
  BY <1>1, OnlyLoop
<1> USE DEF stateVars, fateVars, taskVars, opVars, activeVars
<1>3. UNCHANGED <<pc, cancelled, local>>
  BY DEF PendingCheck, ReserveRefused, Reserve, StartTake, StartDrain, StartState, StartExtend,
         AbortAllFindsNoTask, AbortGraceful, AbortEmit, AbortClear
<1> USE DEF LoopPoints, AbortPoints, StartPoints, CallPoints
<1>4. CASE PendingCheck(p) \/ ReserveRefused(p)
  <2>1. /\ Goto(p, "reserve") \/ Return(p)
        /\ UNCHANGED <<activeVars, waiters, overwritten>>
        /\ call[p].at \in {"pending_check", "reserve"}
    BY <1>4 DEF PendingCheck, ReserveRefused
  <2>2. \E a \in {"reserve", "idle", "exited"} :
          call'[p].at = a /\ \A q \in Callers : q # p => call'[q] = call[q]
    BY <1>0, <2>1, GotoCall, ReturnCall DEF Becomes
  <2> QED
    BY <1>2, <1>3, <2>1, <2>2, LoopMoves
<1>5. CASE Reserve(p)
  <2>1. /\ call[p].at = "reserve" /\ Becomes(p, "start_take", nextTurn, None, None, "none")
        /\ activeTask' = None /\ activeState = None /\ UNCHANGED <<waiters, overwritten>>
    BY <1>0, <1>5, ReservedCall DEF Reserve
  <2>2. activeTask = None
    BY <1>0, <2>1 DEF SlotSound
  <2> QED
    BY <1>2, <1>3, <2>1, <2>2, LoopMoves DEF Becomes
<1>6. CASE StartTake(p) \/ StartDrain(p) \/ StartState(p) \/ StartExtend(p)
  <2>1. call[p].at \in StartPoints /\ UNCHANGED <<activeTask, waiters>>
    BY <1>6 DEF StartTake, StartDrain, StartState, StartExtend
  <2>2. activeTask = None
    BY <1>0, <1>2, <2>1 DEF LoopOwnsSlot
  <2>3. overwritten' = overwritten
    <3>1. CASE StartState(p)
      <4>1. overwritten' = (overwritten \/ activeTask # None)
        BY <3>1 DEF StartState
      <4>2. overwritten \in BOOLEAN
        BY <1>0 DEF TypeOK
      <4> QED
        BY <2>2, <4>1, <4>2, Zenon
    <3>2. CASE ~StartState(p)
      BY <1>6, <3>2 DEF StartTake, StartDrain, StartExtend
    <3> QED
      BY <3>1, <3>2
  <2>4. /\ call'[p].at \in StartPoints
        /\ \A q \in Callers : q # p => call'[q] = call[q]
    BY <1>0, <1>6, StartTakeCall, StartDrainCall, StartStateCall, StartExtendCall DEF Becomes
  <2> QED
    BY <1>2, <1>3, <2>1, <2>2, <2>3, <2>4, LoopMoves
<1>7. CASE AbortAllFindsNoTask(p)
  <2>1. /\ call[p].at = "abort_take" /\ activeState' = None /\ activeTask' = None
        /\ Goto(p, "start_take") \/ Return(p)
        /\ UNCHANGED <<waiters, overwritten>> /\ ~HasActiveTask
    BY <1>7 DEF AbortAllFindsNoTask
  <2>2. activeTask = None
    BY <1>0, <2>1 DEF SlotSound, HasActiveTask
  <2>3. /\ call'[p].at \in {"start_take", "idle", "exited"}
        /\ \A q \in Callers : q # p => call'[q] = call[q]
    BY <1>0, <2>1, GotoCall, ReturnCall DEF Becomes
  <2> QED
    BY <1>2, <1>3, <2>1, <2>2, <2>3, LoopMoves
<1>8. CASE AbortGraceful(p) \/ AbortEmit(p)
  <2>1. /\ UNCHANGED <<activeState, activeTask, waiters, overwritten>>
        /\ call[p].at \in {"abort_wait", "abort_emit"}
        /\ call[p].at = "abort_wait" => pc[call[p].victim] = "done"
        /\ \E a \in {"abort_emit", "abort_clear"} : Goto(p, a)
    BY <1>8 DEF AbortGraceful, AbortEmit
  <2>2. /\ call'[p].at \in {"abort_emit", "abort_clear"}
        /\ \A q \in Callers : q # p => call'[q] = call[q]
    BY <1>0, <2>1, GotoCall DEF Becomes
  <2>3. activeState = None /\ "done" \notin Working
    BY <1>0, <1>2, <2>1 DEF LoopOwnsSlot, Working, RunPoints
  <2> QED
    BY <1>2, <1>3, <2>1, <2>2, <2>3, LoopMoves
<1>9. CASE AbortClear(p)
  <2>1. /\ call[p].at = "abort_clear" /\ UNCHANGED <<activeState, activeTask, overwritten>>
        /\ call'[p].at \in {"start_take", "pending_check"}
        /\ \A q \in Callers : q # p => call'[q] = call[q]
    BY <1>0, <1>9, ClearCall DEF AbortClear, Becomes
  <2>2. activeTask = None
    BY <1>0, <1>2, <2>1 DEF LoopOwnsSlot, SlotSound
  <2> QED
    BY <1>2, <1>3, <2>1, <2>2, LoopMoves
<1> QED
  BY <1>4, <1>5, <1>6, <1>7, <1>8, <1>9

\* The loop takes the task out of the slot: it is now the one the loop awaits.
LEMMA LoopTakesTask ==
    ASSUME LoopInv, BaseInv', NEW p \in Callers, AbortAllTakesTask(p)
    PROVE  LoopInv'
<1>0. /\ TypeOK /\ CallSound(p) /\ call[p] \in Calls /\ BaseInv
      /\ call[p].at = "abort_take" /\ HasActiveTask /\ TakeAndCancel(p, call[p].reason)
  BY DEF LoopInv, BaseInv, CallsSound, TypeOK, AbortAllTakesTask
<1>1. p = "loop"
  BY <1>0, OnlyLoop
<1>2. /\ call[p].reason \in {"none", "Replaced", "Interrupted"}
      /\ Starting(call[p]) <=> call[p].reason = "Replaced"
      /\ call[p].turn # None <=> call[p].reason = "Replaced"
  BY <1>0 DEF Calls, CallSound, Starting, StartPoints
<1>3. Becomes(p, "abort_wait", call[p].turn, activeState, activeTask, call[p].reason)
  BY <1>0, <1>2, TaskTaken
<1>4. /\ cancelled' = [cancelled EXCEPT ![activeTask] = TRUE]
      /\ activeState' = None /\ activeTask' = None /\ UNCHANGED <<pc, local, waiters, overwritten>>
  BY <1>0 DEF TakeAndCancel, stateVars, fateVars
<1>5. /\ activeTask \in Turns /\ cancelled'[activeTask]
      /\ \A t \in Turns : t # activeTask => cancelled'[t] = cancelled[t]
  BY <1>0, <1>4 DEF TypeOK, HasActiveTask
<1>6. OthersIdle'
  <2>1. call'["loop"].at = "abort_wait" /\ \A q \in Callers \ {"loop"} : call'[q] = call[q]
    BY <1>1, <1>3 DEF Becomes
  <2>2. "abort_wait" \in LoopPoints
    BY DEF LoopPoints, AbortPoints
  <2> QED
    BY <2>1, <2>2 DEF LoopInv, OthersIdle
<1>7. LoopOwnsSlot'
  BY <1>1, <1>3, <1>4 DEF LoopInv, LoopOwnsSlot, Becomes, StartPoints
<1>8. ASSUME NEW t \in Turns
      PROVE  /\ activeTask' # t
             /\ pc'[t] \in Working => cancelled'[t] /\ t = activeTask
  <2>1. None \notin Turns
    BY DEF None, Turns
  <2>2. pc[t] \in Working /\ t # activeTask => cancelled[t] /\ call["loop"].at = "abort_wait"
    BY DEF LoopInv, WorkInSlot
  <2> QED
    BY <1>0, <1>1, <1>4, <1>5, <2>1, <2>2
<1>9. WorkInSlot'
  BY <1>1, <1>3, <1>8 DEF WorkInSlot, Becomes
<1>10. WaitersKept'
  BY <1>8 DEF WaitersKept, Working, RunPoints
<1> QED
  BY <1>6, <1>7, <1>9, <1>10, AloneStays DEF LoopInv

\* The loop stores the task it starts; the slot held none.
LEMMA LoopInstalls ==
    ASSUME LoopInv, BaseInv', NEW p \in Callers, StartInstall(p)
    PROVE  LoopInv'
<1> DEFINE n == call[p].turn
<1>0. TypeOK /\ CallSound(p) /\ call[p] \in Calls /\ call[p].at = "start_install"
  BY DEF LoopInv, BaseInv, CallsSound, TypeOK, StartInstall
<1>1. p = "loop"
  BY <1>0, OnlyLoop
<1>2. activeTask = None /\ ~overwritten
  BY <1>0, <1>1 DEF LoopInv, LoopOwnsSlot, StartPoints
<1>3. /\ call'["loop"].at \in {"idle", "exited"}
      /\ \A q \in Callers : q # "loop" => call'[q] = call[q]
  BY <1>0, <1>1, ReturnCall DEF StartInstall, Becomes
<1>4. /\ activeTask' = n /\ UNCHANGED <<cancelled, waiters>>
      /\ pc' = [t \in Turns |-> CASE t = n -> "begin"
                                  [] t = activeTask /\ t # n -> "killed"
                                  [] OTHER -> pc[t]]
  BY DEF StartInstall, stateVars
<1>5. n \in Turns /\ ~cancelled[n]
  BY <1>0 DEF CallSound, Starting, StartPoints, Calls, LoopInv, BaseInv, TasksSound, TaskSound
<1>6. ~overwritten'
  BY <1>2 DEF StartInstall
<1> HIDE DEF n
<1>7. pc'[n] = "begin" /\ \A t \in Turns : t # n => pc'[t] = pc[t]
  <2>1. None \notin Turns
    BY DEF None, Turns
  <2> QED
    BY <1>2, <1>4, <1>5, <2>1
<1>8. \A t \in Turns : pc[t] \notin Working
  BY <1>0, <1>1, <1>2 DEF LoopInv, WorkInSlot, None, Turns
<1>9. OthersIdle' /\ LoopOwnsSlot'
  BY <1>3, <1>6 DEF LoopInv, OthersIdle, LoopOwnsSlot, LoopPoints, AbortPoints, StartPoints
<1>10. WorkInSlot'
  BY <1>4, <1>5, <1>7, <1>8 DEF WorkInSlot, Working, RunPoints
<1>11. WaitersKept'
  BY <1>7, <1>8 DEF WaitersKept, Working, RunPoints
<1> QED
  BY <1>9, <1>10, <1>11, AloneStays DEF LoopInv

\* The grace period is over: the task the loop awaited is gone.
LEMMA LoopKills ==
    ASSUME LoopInv, BaseInv', NEW p \in Callers, AbortTimeout(p)
    PROVE  LoopInv'
<1> DEFINE v == call[p].victim
<1>0. TypeOK /\ CallSound(p) /\ call[p] \in Calls /\ call[p].at = "abort_wait" /\ SlotSound
  BY DEF LoopInv, BaseInv, CallsSound, TypeOK, AbortTimeout
<1>1. p = "loop"
  BY <1>0, OnlyLoop
<1>2. activeState = None /\ activeTask = None /\ ~overwritten
  BY <1>0, <1>1 DEF LoopInv, LoopOwnsSlot, AbortPoints, SlotSound
<1>3. Becomes(p, "abort_emit", call[p].turn, call[p].state, v, call[p].reason)
  BY <1>0, GotoCall DEF AbortTimeout, CallPoints, AbortPoints
<1>4. /\ pc' = [pc EXCEPT ![v] = "killed"]
      /\ UNCHANGED <<activeState, activeTask, cancelled, overwritten>>
  BY DEF AbortTimeout, activeVars
<1>5. v \in Turns
  BY <1>0 DEF CallSound, AbortPoints
<1> HIDE DEF v
<1>6. \A t \in Turns : pc'[t] \notin Working
  <2>1. pc'[v] = "killed" /\ \A t \in Turns : t # v => pc'[t] = pc[t]
    BY <1>0, <1>4, <1>5 DEF TypeOK
  <2>2. \A t \in Turns : pc[t] \in Working => t = v
    BY <1>1, <1>2 DEF LoopInv, WorkInSlot, None, Turns, v
  <2> QED
    BY <2>1, <2>2 DEF Working, RunPoints
<1>7. OthersIdle' /\ LoopOwnsSlot'
  BY <1>1, <1>2, <1>3, <1>4
  DEF Becomes, LoopInv, OthersIdle, LoopOwnsSlot, LoopPoints, AbortPoints, StartPoints
<1>8. WorkInSlot'
  BY <1>2, <1>4, <1>6 DEF WorkInSlot, None, Turns
<1>9. WaitersKept'
  BY <1>6 DEF WaitersKept, Working, RunPoints
<1> QED
  BY <1>7, <1>8, <1>9, AloneStays DEF LoopInv

\* A run puts its waiter into the slot's state, and touches no other.
LEMMA RunWaiters ==
    ASSUME TypeOK, NEW t \in Turns, RunStep(t)
    PROVE  \/ UNCHANGED waiters /\ pc'[t] # "waiting"
           \/ RequestApproval(t)
<1>0. pc \in [Turns -> TaskPoints] /\ \A x : [pc EXCEPT ![t] = x][t] = x
  BY DEF TypeOK
<1> USE DEF stateVars, At
<1>1. CASE TaskBegin(t)
  BY <1>0, <1>1 DEF TaskBegin
<1>2. CASE CompactRuns(t)
  BY <1>0, <1>2 DEF CompactRuns, EndRun
<1>3. CASE PrepareFails(t)
  BY <1>0, <1>3 DEF PrepareFails
<1>4. CASE Prepare(t)
  BY <1>0, <1>4 DEF Prepare
<1>5. CASE DrainTake(t)
  BY <1>0, <1>5 DEF DrainTake
<1>6. CASE DrainMail(t)
  BY <1>0, <1>6 DEF DrainMail
<1>7. CASE RecordItem(t)
  BY <1>0, <1>7 DEF RecordItem, RecordPoints
<1>8. CASE BlockItem(t)
  BY <1>0, <1>8 DEF BlockItem, RecordPoints
<1>9. CASE RecordEnds(t)
  <2>1. UNCHANGED waiters /\ \E x \in {"fin_emit", "outer", "drain", "sample"} :
          pc' = [pc EXCEPT ![t] = x]
    BY <1>9 DEF RecordEnds
  <2> QED
    BY <1>0, <2>1
<1>10. CASE SampleToolCall(t)
  BY <1>0, <1>10 DEF SampleToolCall
<1>11. CASE SampleAnswer(t)
  BY <1>0, <1>11 DEF SampleAnswer
<1>12. CASE SampleFails(t)
  BY <1>0, <1>12 DEF SampleFails
<1>13. CASE ApprovalResolves(t)
  BY <1>0, <1>13 DEF ApprovalResolves
<1>14. CASE ObserveCancel(t)
  BY <1>0, <1>14 DEF ObserveCancel, EndRun
<1>15. CASE PostSampling(t)
  BY <1>0, <1>15 DEF PostSampling
<1>16. CASE OuterLoop(t)
  BY <1>0, <1>16 DEF OuterLoop, EndRun
<1> QED
  BY <1>1, <1>2, <1>3, <1>4, <1>5, <1>6, <1>7, <1>8, <1>9, <1>10, <1>11, <1>12, <1>13, <1>14,
     <1>15, <1>16 DEF RunStep

\* A step of a run, or of the loop that records what came too late.
LEMMA LoopRunSteps ==
    ASSUME LoopInv, BaseInv', NEW t \in Turns, RunStep(t)
    PROVE  LoopInv'
<1>0. TypeOK /\ SlotSound /\ None \notin Turns
  BY DEF LoopInv, BaseInv, None, Turns
<1>1. RunMoves(t)
  BY <1>0, RunTypes
<1>2. /\ UNCHANGED <<activeState, activeTask, cancelled, call, overwritten>>
      /\ \A u \in Turns : u # t => pc'[u] = pc[u] /\ local'[u] = local[u]
      /\ \/ pc[t] \in Working /\ pc'[t] \in Working
         \/ pc[t] \notin Working /\ pc'[t] \notin Working
  BY <1>1 DEF RunMoves, RunVars, activeVars, Working, RunPoints
<1>3. OthersIdle' /\ LoopOwnsSlot'
  BY <1>2 DEF LoopInv, OthersIdle, LoopOwnsSlot
<1>4. WorkInSlot'
  BY <1>2 DEF LoopInv, WorkInSlot
<1>5. WaitersKept'
  <2>1. CASE UNCHANGED waiters /\ pc'[t] # "waiting"
    BY <1>2, <2>1 DEF LoopInv, WaitersKept
  <2>2. CASE RequestApproval(t)
    <3>1. /\ waiters' = IF activeState = None THEN waiters
                        ELSE [waiters EXCEPT ![activeState] = waiters[activeState] \cup {t}]
          /\ pc[t] = "approve" /\ UNCHANGED local
      BY <2>2 DEF RequestApproval
    <3>2. ~cancelled[t] => activeTask = t
      BY <3>1 DEF LoopInv, WorkInSlot, Working, RunPoints
    <3>3. ~cancelled[t] => activeState \in States
      BY <1>0, <3>2 DEF SlotSound, TypeOK
    <3>4. ~cancelled[t] => t \in waiters'[activeState]
      BY <1>0, <3>1, <3>3, None \notin States DEF TypeOK, None, States
    <3>5. \A u \in Turns : u \in waiters[activeState] => u \in waiters'[activeState]
      BY <1>0, <3>1 DEF TypeOK
    <3> QED
      BY <1>2, <3>1, <3>4, <3>5 DEF LoopInv, WaitersKept
  <2> QED
    BY <1>0, <2>1, <2>2, RunWaiters
<1> QED
  BY <1>3, <1>4, <1>5, AloneStays DEF LoopInv

\* The end of a task.
LEMMA LoopFinishSteps ==
    ASSUME LoopInv, BaseInv', NEW t \in Turns, FinishStep(t)
    PROVE  LoopInv'
<1>0. TypeOK /\ SlotSound /\ None \notin Turns /\ pc \in [Turns -> TaskPoints] /\ WorkInSlot
  <2>1. TypeOK /\ SlotSound /\ WorkInSlot
    BY DEF LoopInv, BaseInv
  <2>2. None \notin Turns
    BY DEF None, Turns
  <2> QED
    BY <2>1, <2>2 DEF TypeOK
<1> USE DEF stateVars, fateVars, activeVars, At
<1>1. UNCHANGED <<cancelled, call, overwritten, waiters, local>> \/ FinishTakePending(t)
  BY DEF FinishStep, FinishCheck, FinishTake, FinishEmit, FinishClear
<1>2. /\ UNCHANGED <<cancelled, call, overwritten, waiters>>
      /\ \A u \in Turns : u # t => pc'[u] = pc[u]
      /\ pc'[t] # "waiting"
      /\ \A u \in Turns : u # t => local'[u] = local[u]
  <2>1. CASE FinishTakePending(t)
    BY <1>0, <2>1 DEF FinishTakePending, TypeOK
  <2>2. CASE ~FinishTakePending(t)
    BY <1>0, <1>1, <2>2 DEF FinishStep, FinishCheck, FinishTake, FinishEmit, FinishClear
  <2> QED
    BY <2>1, <2>2
<1>3. \/ pc[t] \in Working /\ pc'[t] \in Working /\ ~cancelled[t] /\ UNCHANGED activeVars
      \/ pc[t] \in Working /\ cancelled[t] /\ pc'[t] \notin Working /\ UNCHANGED activeVars
      \/ pc[t] \in Working /\ ~cancelled[t] /\ pc'[t] \notin Working /\ activeTask' = None
         /\ activeTask = t /\ UNCHANGED activeState
      \/ /\ pc[t] \notin Working /\ pc'[t] \notin Working /\ UNCHANGED activeTask
         /\ activeState' # activeState => activeTask = None /\ activeState' = None
  <2>1. CASE FinishCheck(t)
    BY <1>0, <2>1 DEF FinishCheck, Working, RunPoints
  <2>2. CASE FinishTake(t)
    <3>1. pc[t] = "fin_lock" /\ pc[t] \in Working /\ UNCHANGED activeState
      BY <2>2 DEF FinishTake, Working
    <3>2. CASE cancelled[t]
      <4>1. activeTask = None
        BY <1>0, <3>1, <3>2 DEF WorkInSlot, LoopInv, LoopOwnsSlot, AbortPoints, SlotSound
      <4> QED
        BY <1>0, <2>2, <3>1, <3>2, <4>1 DEF FinishTake, HasActiveTask, Working, RunPoints
    <3>3. CASE ~cancelled[t]
      <4>1. activeTask = t /\ activeTask # None /\ activeState # None
        BY <1>0, <3>1, <3>3 DEF WorkInSlot, SlotSound
      <4>2. activeTask' = None /\ pc'[t] = "fin_take"
        BY <1>0, <2>2, <4>1 DEF FinishTake, HasActiveTask
      <4> QED
        BY <3>1, <3>3, <4>1, <4>2 DEF Working, RunPoints
    <3> QED
      BY <3>2, <3>3
  <2>3. CASE FinishTakePending(t)
    BY <1>0, <2>3 DEF FinishTakePending, Working, RunPoints
  <2>4. CASE FinishEmit(t)
    BY <1>0, <2>4 DEF FinishEmit, Working, RunPoints
  <2>5. CASE FinishClear(t)
    BY <1>0, <2>5 DEF FinishClear, Working, RunPoints
  <2> QED
    BY <2>1, <2>2, <2>3, <2>4, <2>5 DEF FinishStep
<1>4. OthersIdle'
  BY <1>2 DEF LoopInv, OthersIdle
<1>5. LoopOwnsSlot'
  BY <1>0, <1>2, <1>3 DEF LoopInv, LoopOwnsSlot
<1>6. WorkInSlot'
  <2> DEFINE W(u) == /\ activeTask = u => pc[u] \in Working
                     /\ pc[u] \in Working /\ ~cancelled[u] => activeTask = u
                     /\ pc[u] \in Working /\ cancelled[u] =>
                            call["loop"].at = "abort_wait" /\ call["loop"].victim = u
  <2>1. ASSUME NEW u \in Turns
        PROVE  W(u)'
    <3>1. W(u) /\ W(t)
      BY <1>0 DEF WorkInSlot
    <3>2. CASE u = t
      BY <1>0, <1>2, <1>3, <3>1, <3>2 DEF SlotSound
    <3>3. CASE u # t
      BY <1>0, <1>2, <1>3, <3>1, <3>3
    <3> QED
      BY <3>2, <3>3
  <2> QED
    BY <2>1 DEF WorkInSlot
<1>7. WaitersKept'
  <2>1. ASSUME NEW u \in Turns, pc'[u] = "waiting", ~cancelled'[u]
        PROVE  local'[u].decision \/ u \in waiters'[activeState']
    <3>1. u # t /\ pc[u] = "waiting" /\ ~cancelled[u] /\ activeTask = u
      BY <1>0, <1>2, <2>1 DEF WorkInSlot, Working, RunPoints
    <3>2. activeState' = activeState
      BY <1>0, <1>3, <3>1
    <3> QED
      BY <1>2, <3>1, <3>2 DEF LoopInv, WaitersKept
  <2> QED
    BY <2>1 DEF WaitersKept
<1> QED
  BY <1>4, <1>5, <1>6, <1>7, AloneStays DEF LoopInv

\* LoopInv holds at first, and every step keeps it.
LEMMA LoopInit ==
    ASSUME LoopAlone, Init
    PROVE  LoopInv
<1>1. BaseInv
  BY BaseInit
<1>2. \A p \in Callers : call[p].at = "idle" /\ call[p].turn = None
  BY NoCallType DEF Init
<1>3. OthersIdle /\ LoopOwnsSlot
  BY <1>2 DEF Init, OthersIdle, LoopOwnsSlot, LoopPoints, AbortPoints, StartPoints, Callers
<1>4. WorkInSlot /\ WaitersKept
  BY DEF Init, WorkInSlot, WaitersKept, Working, RunPoints, None, Turns
<1> QED
  BY <1>1, <1>3, <1>4 DEF LoopInv

\* Every step keeps LoopInv.
LEMMA LoopNext ==
    ASSUME LoopInv, [Next]_vars
    PROVE  LoopInv'
<1>0. BaseInv /\ BaseInv'
  BY BaseNext DEF LoopInv
<1>1. CASE UNCHANGED vars
  <2>1. UNCHANGED <<activeState, activeTask, waiters, pc, cancelled, local, call, overwritten>>
    BY <1>1 DEF vars, activeVars, stateVars, taskVars, fateVars
  <2> QED
    BY <1>0, <2>1, AloneStays DEF LoopInv, OthersIdle, LoopOwnsSlot, WorkInSlot, WaitersKept
<1>2. CASE ClientStep
  <2>1. \A i \in IdleItems : FALSE
    BY DEF LoopInv, LoopAlone
  <2>2. \A t \in Turns : ~AbortTurnIfActive(t)
    BY DEF LoopInv, LoopAlone, AbortTurnIfActive
  <2> QED
    BY <1>0, <1>2, <2>1, <2>2, LoopQueueSteps, LoopTakesOp DEF ClientStep
<1>3. ASSUME NEW p \in Callers, CallStep(p)
      PROVE  LoopInv'
  <2>1. ~TryStartTurnIfIdle(p)
    BY DEF TryStartTurnIfIdle, IdleCheck, IdleReserve, IdleRecheck, IdleRelease, IdleConfirm,
           IdleExtend, LoopInv, OthersIdle, LoopPoints, AbortPoints, StartPoints
  <2> QED
    BY <1>0, <1>3, <2>1, LoopCallMoves, LoopTakesTask, LoopInstalls, LoopKills
    DEF CallStep, StartTask, Abort
<1>4. ASSUME NEW t \in Turns, TaskStep(t)
      PROVE  LoopInv'
  BY <1>0, <1>4, LoopRunSteps, LoopFinishSteps DEF TaskStep
<1> QED
  BY <1>1, <1>2, <1>3, <1>4 DEF Next

\* LoopInv always holds.
LEMMA LoopHolds == LoopAlone /\ Spec => []LoopInv
<1>1. LoopAlone /\ Init => LoopInv
  BY LoopInit
<1>2. LoopInv /\ [Next]_vars => LoopInv'
  BY LoopNext
<1> QED
  BY <1>1, <1>2, PTL DEF Spec

\* As long as only the submission loop starts and aborts turns, start_task finds no task
\* in the slot: the debug_assert at both places where it looks never fails.
THEOREM NothingOverwritten == LoopAlone /\ Spec => []NoTaskOverwritten
<1>1. LoopInv => NoTaskOverwritten
  BY DEF LoopInv, LoopOwnsSlot, NoTaskOverwritten
<1> QED
  BY <1>1, LoopHolds, PTL

\* And a task that waits for an approval loses its waiter only to the abort of its turn.
THEOREM WaitersKeptUntilCancel == LoopAlone /\ Spec => []WaiterKeptUntilCancel
<1>1. LoopInv => WaiterKeptUntilCancel
  <2> SUFFICES ASSUME LoopInv, NEW t \in Turns, pc[t] = "waiting", ~cancelled[t],
                      ~local[t].decision
               PROVE  HasSender(t)
    BY DEF WaiterKeptUntilCancel
  <2>1. t \in waiters[activeState] /\ activeTask = t
    BY DEF LoopInv, WaitersKept, WorkInSlot, Working, RunPoints
  <2>2. activeState \in States
    BY <2>1 DEF LoopInv, BaseInv, TypeOK, SlotSound, None, Turns
  <2> QED
    BY <2>1, <2>2 DEF HasSender, Alive
<1> QED
  BY <1>1, LoopHolds, PTL

\* And an abort drops the pending approvals of its turn only when its task waits for none
\* any more: the task was awaited or is gone when clear_pending runs.
THEOREM WaitersOutliveWaits == LoopAlone /\ Spec => WaiterOutlivesWait
<1>1. LoopInv /\ [Next]_vars => DropsNoWaiter
  <2> SUFFICES ASSUME LoopInv, [Next]_vars, NEW s \in States, NEW t \in waiters[s] \ waiters'[s],
                      pc'[t] = "waiting"
               PROVE  local'[t].decision
    BY DEF DropsNoWaiter
  <2>0. TypeOK /\ t \in Turns /\ waiters' # waiters
    BY DEF LoopInv, BaseInv, TypeOK
  <2> USE DEF stateVars, activeVars, taskVars, fateVars
  <2>1. CASE ClientStep
    <3>0. IdleItems = {} /\ \A u \in Turns : ~AbortTurnIfActive(u)
      BY DEF LoopInv, LoopAlone, AbortTurnIfActive
    <3>1. PICK u \in Turns : NotifyApproval(u)
      BY <2>0, <2>1, <3>0
      DEF ClientStep, UserInputSteers, UserInputRejected, UserInputStartsTurn, Compact, Interrupt,
          Shutdown, InterAgentCommunication, SteerInput, InjectNoNewTurn
    <3>2. t = u /\ local' = [local EXCEPT ![u] = [local[u] EXCEPT !.decision = TRUE]]
      BY <2>0, <3>1 DEF NotifyApproval, TypeOK
    <3>3. local[u] \in Locals
      BY <2>0 DEF TypeOK
    <3> QED
      BY <2>0, <3>2, <3>3 DEF TypeOK, Locals
  <2>2. ASSUME NEW p \in Callers, CallStep(p)
        PROVE  local'[t].decision
    <3>1. AbortClear(p)
      BY <2>0, <2>2
      DEF CallStep, PendingCheck, ReserveRefused, Reserve, StartTask, StartTake, StartDrain,
          StartState, StartExtend, StartInstall, Abort, AbortAllTakesTask, TakeAndCancel,
          AbortAllFindsNoTask, AbortGraceful, AbortTimeout, AbortEmit, TryStartTurnIfIdle,
          IdleCheck, IdleReserve, IdleRecheck, IdleRelease, IdleConfirm, IdleExtend
    <3>2. p = "loop" /\ call[p].at = "abort_clear"
      BY <3>1, OnlyLoop DEF AbortClear
    <3>3. activeTask = None /\ None \notin Turns
      BY <3>2 DEF LoopInv, LoopOwnsSlot, AbortPoints, BaseInv, SlotSound, None, Turns
    <3>4. pc[t] # "waiting"
      BY <2>0, <3>2, <3>3 DEF LoopInv, WorkInSlot, Working, RunPoints
    <3> QED
      BY <3>1, <3>4 DEF AbortClear
  <2>3. ASSUME NEW u \in Turns, TaskStep(u)
        PROVE  FALSE
    <3>1. CASE RunStep(u)
      <4>1. RequestApproval(u)
        BY <2>0, <3>1, RunWaiters
      <4> QED
        BY <2>0, <4>1 DEF RequestApproval, TypeOK
    <3>2. CASE FinishStep(u)
      BY <2>0, <3>2 DEF FinishStep, FinishCheck, FinishTake, FinishTakePending, FinishEmit,
                        FinishClear
    <3> QED
      BY <2>3, <3>1, <3>2 DEF TaskStep
  <2> QED
    BY <2>0, <2>1, <2>2, <2>3 DEF Next, vars
<1> QED
  BY <1>1, LoopHolds, PTL DEF WaiterOutlivesWait, Spec

-----------------------------------------------------------------------------
(* The session implements the ownership protocol of the slot.             *)

\* The task the loop aborts, as TurnSlot sees it.
SlotVictim == IF SlotStage = "idle" THEN None ELSE call["loop"].victim

\* What TurnSlot sees of a turn that does not move.
LEMMA PointStays ==
    ASSUME NEW t \in Turns, pc'[t] = pc[t], t < nextTurn' <=> t < nextTurn
    PROVE  SlotPoint(t)' = SlotPoint(t)
  BY DEF SlotPoint

\* Nothing that TurnSlot sees has changed.
LEMMA SlotStutters ==
    ASSUME \A t \in Turns : SlotPoint(t)' = SlotPoint(t),
           UNCHANGED <<activeTask, cancelled, ended>>,
           call'["loop"].turn = call["loop"].turn, SlotStage' = SlotStage,
           SlotVictim' = SlotVictim
    PROVE  UNCHANGED Slot!vars
<1>1. [t \in Turns |-> SlotPoint(t)]' = [t \in Turns |-> SlotPoint(t)]
  OBVIOUS
<1> QED
  BY <1>1 DEF Slot!vars, SlotVictim

\* The task of one turn moves in TurnSlot.
LEMMA SlotPointMoves ==
    ASSUME NEW t \in Turns, NEW x, SlotPoint(t)' = x,
           \A u \in Turns : u # t => SlotPoint(u)' = SlotPoint(u)
    PROVE  [u \in Turns |-> SlotPoint(u)]' = [[u \in Turns |-> SlotPoint(u)] EXCEPT ![t] = x]
  OBVIOUS


\* Where TurnSlot sees a turn, by where its task is.
PointOf(t) ==
    /\ pc[t] = "none" => SlotPoint(t) = IF t < nextTurn THEN "allotted" ELSE "none"
    /\ pc[t] \in RunPoints => SlotPoint(t) = "running"
    /\ pc[t] = "fin_lock" => SlotPoint(t) = "checked"
    /\ pc[t] \in {"fin_take", "fin_record", "fin_emit"} => SlotPoint(t) = "finishing"
    /\ pc[t] = "fin_clear" => SlotPoint(t) = "sent"
    /\ pc[t] \in {"finish", "done", "killed"} => SlotPoint(t) = pc[t]

\* The point of a task in TurnSlot, from its point here.
LEMMA PointIs == \A t \in Turns : PointOf(t) /\ PointOf(t)'
  BY DEF PointOf, SlotPoint, RunPoints

\* Nobody holds a turn at first.
LEMMA SlotInit ==
    ASSUME Init
    PROVE  Slot!Init
<1>1. \A t \in Turns : SlotPoint(t) = "none"
  <2>1. \A t \in Turns : pc[t] = "none" /\ ~(t < nextTurn)
    BY DEF Init, Turns
  <2> QED
    BY <2>1, PointIs DEF PointOf
<1>2. call["loop"].turn = None /\ SlotStage = "idle"
  BY NoCallType DEF Init, Callers, SlotStage
<1>3. [t \in Turns |-> SlotPoint(t)] = [t \in Turns |-> "none"]
  BY <1>1
<1> QED
  BY <1>2, <1>3 DEF Init, Slot!Init

\* new_turn_with_sub_id allots the turn.
LEMMA SlotAllots ==
    ASSUME TasksSound, NEW n \in Turns, nextTurn = n, nextTurn' = n + 1, UNCHANGED pc,
           UNCHANGED <<activeTask, cancelled, ended>>, SlotStage = "idle", SlotStage' = "idle",
           call["loop"].turn = None, call'["loop"].turn = n
    PROVE  Slot!Next
<1>0. Turns \subseteq Nat
  BY DEF Turns
<1>1. SlotPoint(n) = "none" /\ SlotPoint(n)' = "allotted"
  <2>1. pc[n] = "none" /\ pc'[n] = "none" /\ n < nextTurn' /\ ~(n < nextTurn)
    BY <1>0 DEF TasksSound, TaskSound
  <2> QED
    BY <2>1, PointIs DEF PointOf
<1>2. \A u \in Turns : u # n => SlotPoint(u)' = SlotPoint(u)
  <2>1. \A u \in Turns : u # n => (u < nextTurn' <=> u < nextTurn)
    BY <1>0
  <2> QED
    BY <2>1, PointStays
<1>3. [u \in Turns |-> SlotPoint(u)]'
        = [[u \in Turns |-> SlotPoint(u)] EXCEPT ![n] = "allotted"]
  BY <1>1, <1>2, SlotPointMoves
<1>4. Slot!Allot(n)
  BY <1>1, <1>3 DEF Slot!Allot
<1> QED
  BY <1>4 DEF Slot!Next

\* Steps that TurnSlot does not see.
LEMMA SlotQuiet ==
    ASSUME UNCHANGED <<pc, nextTurn, activeTask, cancelled, ended>>,
           \/ call'["loop"] = call["loop"]
           \/ /\ call'["loop"].turn = call["loop"].turn
              /\ call["loop"].at \notin {"abort_wait", "abort_emit"}
              /\ call'["loop"].at \notin {"abort_wait", "abort_emit"}
    PROVE  UNCHANGED Slot!vars
<1>1. \A t \in Turns : SlotPoint(t)' = SlotPoint(t)
  BY PointStays
<1>2. SlotStage' = SlotStage /\ SlotVictim' = SlotVictim
  BY DEF SlotStage, SlotVictim
<1> QED
  BY <1>1, <1>2, SlotStutters

\* The steps of clients and of the loop as it takes an operation.
LEMMA SlotClientSteps ==
    ASSUME LoopInv, ClientStep
    PROVE  Slot!Next \/ UNCHANGED Slot!vars
<1>0. TypeOK /\ CallSound("loop") /\ TasksSound /\ "loop" \in Callers
  BY DEF LoopInv, BaseInv, CallsSound, Callers
<1> USE DEF stateVars, fateVars, taskVars, opVars, activeVars
<1>1. CASE \/ \E u \in UserInputs : UserInputSteers(u) \/ UserInputRejected(u)
           \/ \E u \in Steers, t \in Turns : SteerInput(u, t)
           \/ \E i \in Injected : InjectNoNewTurn(i)
           \/ \E t \in Turns : NotifyApproval(t)
  <2>1. UNCHANGED <<pc, nextTurn, activeTask, cancelled, ended, call>>
    BY <1>1 DEF UserInputSteers, UserInputRejected, SteerInput, InjectNoNewTurn, NotifyApproval
  <2> QED
    BY <2>1, SlotQuiet
<1>2. CASE (\E u \in UserInputs : UserInputStartsTurn(u)) \/ Compact
  <2>1. /\ \E k \in {"Regular", "Compact"}, x \in Seq(Items) : SpawnTask(k, x)
        /\ UNCHANGED <<pc, activeTask, cancelled, ended>> /\ call["loop"].at = "idle"
    <3>1. \A u \in UserInputs : <<u>> \in Seq(Items)
      BY DEF Items
    <3>2. <<>> \in Seq(Items)
      OBVIOUS
    <3> QED
      BY <1>2, <3>1, <3>2 DEF UserInputStartsTurn, Compact, LoopReady
  <2>2. /\ nextTurn \in Turns /\ nextTurn' = nextTurn + 1
        /\ call'["loop"].at = "abort_take" /\ call'["loop"].turn = nextTurn
    BY <1>0, <2>1, SpawnCall DEF Becomes
  <2>3. call["loop"].turn = None
    BY <1>0, <2>1 DEF CallSound, Starting, AbortPoints, StartPoints
  <2>4. SlotStage = "idle" /\ SlotStage' = "idle"
    BY <2>1, <2>2 DEF SlotStage
  <2> QED
    BY <1>0, <2>1, <2>2, <2>3, <2>4, SlotAllots
<1>3. CASE Interrupt \/ Shutdown \/ \E m \in Mails : InterAgentCommunication(m)
  <2>1. /\ InterruptTask("loop") \/ Goto("loop", "pending_check") \/ UNCHANGED call
        /\ UNCHANGED <<pc, nextTurn, activeTask, cancelled, ended>> /\ call["loop"].at = "idle"
    BY <1>3 DEF Interrupt, Shutdown, InterAgentCommunication, LoopReady
  <2>2. call["loop"].turn = None
    BY <1>0, <2>1 DEF CallSound, Starting, AbortPoints, StartPoints
  <2>3. \/ call'["loop"].at \in {"abort_take", "pending_check"} /\ call'["loop"].turn = None
        \/ UNCHANGED call
    BY <1>0, <2>1, <2>2, InterruptCall, GotoCall DEF Becomes, CallPoints
  <2> QED
    BY <2>1, <2>2, <2>3, SlotQuiet
<1>4. \A i \in IdleItems : FALSE
  BY DEF LoopInv, LoopAlone
<1>5. \A t \in Turns : ~AbortTurnIfActive(t)
  BY DEF LoopInv, LoopAlone, AbortTurnIfActive
<1> QED
  BY <1>1, <1>2, <1>3, <1>4, <1>5 DEF ClientStep

\* The steps of the loop's calls.
LEMMA SlotCallSteps ==
    ASSUME LoopInv, NEW p \in Callers, CallStep(p)
    PROVE  Slot!Next \/ UNCHANGED Slot!vars
<1>0. /\ TypeOK /\ CallSound(p) /\ call[p] \in Calls /\ SlotSound /\ LoopOwnsSlot /\ OthersIdle
      /\ TasksSound /\ BaseInv
  BY DEF LoopInv, BaseInv, CallsSound, TypeOK
<1>1. ~TryStartTurnIfIdle(p)
  BY <1>0 DEF TryStartTurnIfIdle, IdleCheck, IdleReserve, IdleRecheck, IdleRelease, IdleConfirm,
         IdleExtend, OthersIdle, LoopPoints, AbortPoints, StartPoints
<1>a. call[p].at # "idle"
  BY <1>1 DEF CallStep, StartTask, Abort, PendingCheck, ReserveRefused, Reserve, StartTake,
              StartDrain, StartState, StartExtend, StartInstall, AbortAllTakesTask,
              AbortAllFindsNoTask, AbortGraceful, AbortTimeout, AbortEmit, AbortClear
<1>2. p = "loop"
  BY <1>a, OnlyLoop
<1>3. ASSUME UNCHANGED <<pc, nextTurn, activeTask, cancelled, ended>>,
             call'[p].turn = call[p].turn, call[p].at \notin {"abort_wait", "abort_emit"},
             call'[p].at \notin {"abort_wait", "abort_emit"}
      PROVE  UNCHANGED Slot!vars
  BY <1>2, <1>3, SlotQuiet
<1> USE DEF stateVars, fateVars, taskVars, opVars, activeVars
<1> USE DEF AbortPoints, StartPoints, CallPoints
<1>4. CASE PendingCheck(p) \/ ReserveRefused(p)
  <2>1. /\ Goto(p, "reserve") \/ Return(p)
        /\ UNCHANGED <<pc, nextTurn, activeTask, cancelled, ended>>
        /\ call[p].at \in {"pending_check", "reserve"}
    BY <1>4 DEF PendingCheck, ReserveRefused
  <2>2. call[p].turn = None
    BY <1>0, <2>1 DEF CallSound, Starting
  <2>3. call'[p].at \in {"reserve", "idle", "exited"} /\ call'[p].turn = None
    BY <1>0, <2>1, <2>2, GotoCall, ReturnCall DEF Becomes
  <2> QED
    BY <1>3, <2>1, <2>2, <2>3
<1>5. CASE Reserve(p)
  <2>1. /\ call[p].at = "reserve" /\ activeState = None /\ activeTask' = None
        /\ nextTurn' = nextTurn + 1 /\ UNCHANGED <<pc, cancelled, ended>> /\ nextTurn \in Turns
        /\ call'[p].at = "start_take" /\ call'[p].turn = nextTurn
    BY <1>0, <1>5, ReservedCall DEF Reserve, Becomes
  <2>2. activeTask = None /\ call[p].turn = None
    BY <1>0, <2>1 DEF SlotSound, CallSound, Starting
  <2>3. SlotStage = "idle" /\ SlotStage' = "idle"
    BY <1>2, <2>1 DEF SlotStage
  <2> QED
    BY <1>0, <1>2, <2>1, <2>2, <2>3, SlotAllots
<1>6. CASE StartTake(p) \/ StartDrain(p) \/ StartState(p) \/ StartExtend(p)
  <2>1. /\ call[p].at \in StartPoints /\ UNCHANGED <<pc, nextTurn, activeTask, cancelled, ended>>
    BY <1>6 DEF StartTake, StartDrain, StartState, StartExtend
  <2>2. call'[p].at \in StartPoints /\ call'[p].turn = call[p].turn
    BY <1>0, <1>6, StartTakeCall, StartDrainCall, StartStateCall, StartExtendCall DEF Becomes
  <2> QED
    BY <1>3, <2>1, <2>2
<1>7. CASE StartInstall(p)
  <2> SUFFICES ASSUME NEW n, n = call[p].turn
               PROVE  Slot!Next
    OBVIOUS
  <2>1. /\ call[p].at = "start_install" /\ activeTask' = n /\ UNCHANGED <<nextTurn, cancelled, ended>>
        /\ pc' = [t \in Turns |-> CASE t = n -> "begin"
                                    [] t = activeTask /\ t # n -> "killed"
                                    [] OTHER -> pc[t]]
        /\ Return(p)
    BY <1>7 DEF StartInstall
  <2>2. n \in Turns /\ n # None
    BY <1>0, <2>1 DEF CallSound, Starting, Calls
  <2>3. activeTask = None
    BY <1>0, <1>2, <2>1 DEF LoopOwnsSlot
  <2>4. call'["loop"].at \in {"idle", "exited"} /\ call'["loop"].turn = None
    BY <1>0, <1>2, <2>1, ReturnCall DEF Becomes
  <2>5. SlotStage = "idle" /\ SlotStage' = "idle"
    BY <1>2, <2>1, <2>4 DEF SlotStage
  <2>6. call["loop"].turn = n
    BY <1>2
  <2>7. pc'[n] = "begin" /\ \A t \in Turns : t # n => pc'[t] = pc[t]
    <3>1. None \notin Turns
      BY DEF None, Turns
    <3> QED
      BY <2>1, <2>2, <2>3, <3>1
  <2>8. SlotPoint(n)' = "running"
    BY <2>2, <2>7, PointIs DEF PointOf, RunPoints
  <2>9. \A t \in Turns : t # n => SlotPoint(t)' = SlotPoint(t)
    BY <2>1, <2>7, PointStays
  <2>10. \A t \in Turns : activeTask # t
    BY <2>3 DEF None, Turns
  <2>11. [t \in Turns |-> SlotPoint(t)]'
           = [t \in Turns |-> IF t = n THEN "running" ELSE
                              IF t = activeTask THEN "killed" ELSE [u \in Turns |-> SlotPoint(u)][t]]
    BY <2>8, <2>9, <2>10
  <2>12. Slot!Install
    BY <2>1, <2>2, <2>4, <2>5, <2>6, <2>11 DEF Slot!Install
  <2> QED
    BY <2>12 DEF Slot!Next
<1>8. CASE AbortAllTakesTask(p)
  <2>0. /\ call[p].at = "abort_take" /\ HasActiveTask /\ TakeAndCancel(p, call[p].reason)
    BY <1>8 DEF AbortAllTakesTask
  <2>1. /\ call[p].reason \in {"none", "Replaced", "Interrupted"}
        /\ Starting(call[p]) <=> call[p].reason = "Replaced"
        /\ call[p].turn # None <=> call[p].reason = "Replaced"
    BY <1>0, <2>0 DEF Calls, CallSound, Starting
  <2>2. Becomes(p, "abort_wait", call[p].turn, activeState, activeTask, call[p].reason)
    BY <1>0, <2>0, <2>1, TaskTaken
  <2>3. /\ cancelled' = [cancelled EXCEPT ![activeTask] = TRUE] /\ activeTask' = None
        /\ UNCHANGED <<pc, nextTurn, ended>>
    BY <2>0 DEF TakeAndCancel
  <2>4. \A t \in Turns : SlotPoint(t)' = SlotPoint(t)
    BY <2>3, PointStays
  <2>5. [t \in Turns |-> SlotPoint(t)]' = [t \in Turns |-> SlotPoint(t)]
    BY <2>4
  <2>6. SlotStage = "idle" /\ SlotStage' = "wait" /\ activeTask # None
    BY <1>2, <2>0, <2>2 DEF SlotStage, Becomes, HasActiveTask
  <2>7. call'["loop"].victim = activeTask /\ call'["loop"].turn = call["loop"].turn
    BY <1>2, <2>2 DEF Becomes
  <2>8. Slot!Take
    BY <2>3, <2>5, <2>6, <2>7 DEF Slot!Take
  <2> QED
    BY <2>8 DEF Slot!Next
<1>9. CASE AbortAllFindsNoTask(p)
  <2>1. /\ call[p].at = "abort_take" /\ activeTask' = None /\ ~HasActiveTask
        /\ \/ call[p].reason = "Replaced" /\ Goto(p, "start_take")
           \/ call[p].reason # "Replaced" /\ Return(p)
        /\ UNCHANGED <<pc, nextTurn, cancelled, ended>>
    BY <1>9 DEF AbortAllFindsNoTask
  <2>2. activeTask = None /\ (call[p].reason # "Replaced" => call[p].turn = None)
    BY <1>0, <2>1 DEF SlotSound, HasActiveTask, CallSound, Starting
  <2>3. call'[p].at \in {"start_take", "idle", "exited"} /\ call'[p].turn = call[p].turn
    BY <1>0, <2>1, <2>2, GotoCall, ReturnCall DEF Becomes
  <2> QED
    BY <1>3, <2>1, <2>2, <2>3
<1>10. CASE AbortGraceful(p)
  <2>1. /\ Becomes(p, "abort_emit", call[p].turn, call[p].state, call[p].victim, call[p].reason)
        /\ UNCHANGED <<activeTask, pc, cancelled, ended, nextTurn>>
        /\ call[p].at = "abort_wait" /\ pc[call[p].victim] = "done"
    BY <1>0, <1>10, GotoCall DEF AbortGraceful
  <2>2. call[p].victim \in Turns
    BY <1>0, <2>1 DEF CallSound
  <2>3. \A t \in Turns : SlotPoint(t)' = SlotPoint(t)
    BY <2>1, PointStays
  <2>4. [t \in Turns |-> SlotPoint(t)]' = [t \in Turns |-> SlotPoint(t)]
    BY <2>3
  <2>5. SlotPoint(call["loop"].victim) = "done"
    BY <1>2, <2>1, <2>2, PointIs DEF PointOf
  <2>6. SlotStage = "wait" /\ SlotStage' = "emit"
    BY <1>2, <2>1 DEF SlotStage, Becomes
  <2>7. call'["loop"].victim = call["loop"].victim /\ call'["loop"].turn = call["loop"].turn
    BY <1>2, <2>1 DEF Becomes
  <2>8. Slot!Graceful
    BY <1>2, <2>1, <2>2, <2>4, <2>5, <2>6, <2>7 DEF Slot!Graceful
  <2> QED
    BY <2>8 DEF Slot!Next
<1>11. CASE AbortTimeout(p)
  <2> DEFINE v == call["loop"].victim
  <2>1. /\ Becomes(p, "abort_emit", call[p].turn, call[p].state, call[p].victim, call[p].reason)
        /\ UNCHANGED <<activeTask, cancelled, ended, nextTurn>>
        /\ call[p].at = "abort_wait" /\ pc[v] # "done"
        /\ pc' = [pc EXCEPT ![v] = "killed"]
    BY <1>0, <1>2, <1>11, GotoCall DEF AbortTimeout
  <2>2. v \in Turns
    BY <1>0, <1>2, <2>1 DEF CallSound
  <2>3. call'["loop"].victim = v /\ call'["loop"].turn = call["loop"].turn
    BY <1>2, <2>1 DEF Becomes
  <2>4. SlotStage = "wait" /\ SlotStage' = "emit"
    BY <1>2, <2>1 DEF SlotStage, Becomes
  <2>5. pc'[v] = "killed" /\ \A t \in Turns : t # v => pc'[t] = pc[t]
    BY <1>0, <2>1, <2>2 DEF TypeOK
  <2> SUFFICES ASSUME NEW n, n = v
               PROVE  Slot!Next
    OBVIOUS
  <2>6. n \in Turns /\ pc'[n] = "killed" /\ (\A t \in Turns : t # n => pc'[t] = pc[t])
        /\ pc[n] # "done"
    BY <2>1, <2>2, <2>5
  <2>7. SlotPoint(n) # "done"
    <3>1. pc[n] \in TaskPoints
      BY <1>0, <2>6 DEF TypeOK
    <3> QED
      BY <2>6, <3>1, PointIs DEF PointOf, TaskPoints, FinishPoints
  <2>8. SlotPoint(n)' = "killed" /\ \A t \in Turns : t # n => SlotPoint(t)' = SlotPoint(t)
    BY <2>1, <2>6, PointIs, PointStays DEF PointOf
  <2>9. [t \in Turns |-> SlotPoint(t)]' = [[t \in Turns |-> SlotPoint(t)] EXCEPT ![n] = "killed"]
    BY <2>6, <2>8, SlotPointMoves
  <2>10. call["loop"].victim = n
    OBVIOUS
  <2> HIDE DEF v
  <2>11. Slot!Timeout
    BY <2>1, <2>3, <2>4, <2>6, <2>7, <2>9, <2>10 DEF Slot!Timeout, v
  <2> QED
    BY <2>11 DEF Slot!Next
<1>12. CASE AbortEmit(p)
  <2>1. /\ Becomes(p, "abort_clear", call[p].turn, call[p].state, call[p].victim, call[p].reason)
        /\ UNCHANGED <<activeTask, pc, cancelled, nextTurn>>
        /\ call[p].at = "abort_emit"
        /\ ended' = [ended EXCEPT ![call["loop"].victim] = ended[call["loop"].victim] + 1]
    BY <1>0, <1>2, <1>12, GotoCall DEF AbortEmit
  <2>3. \A t \in Turns : SlotPoint(t)' = SlotPoint(t)
    BY <2>1, PointStays
  <2>4. [t \in Turns |-> SlotPoint(t)]' = [t \in Turns |-> SlotPoint(t)]
    BY <2>3
  <2>6. SlotStage = "emit" /\ SlotStage' = "idle"
    BY <1>2, <2>1 DEF SlotStage, Becomes
  <2>7. call'["loop"].turn = call["loop"].turn
    BY <1>2, <2>1 DEF Becomes
  <2>8. Slot!EmitAborted
    BY <2>1, <2>4, <2>6, <2>7 DEF Slot!EmitAborted
  <2> QED
    BY <2>8 DEF Slot!Next
<1>13. CASE AbortClear(p)
  <2>1. /\ call[p].at = "abort_clear" /\ UNCHANGED <<pc, nextTurn, activeTask, cancelled, ended>>
        /\ call'[p].at \in {"start_take", "pending_check"} /\ call'[p].turn = call[p].turn
    BY <1>0, <1>13, ClearCall DEF AbortClear, Becomes
  <2> QED
    BY <1>3, <2>1
<1> QED
  BY <1>1, <1>4, <1>5, <1>6, <1>7, <1>8, <1>9, <1>10, <1>11, <1>12, <1>13
  DEF CallStep, StartTask, Abort

\* The steps of a task.
LEMMA SlotTaskSteps ==
    ASSUME LoopInv, NEW t \in Turns, TaskStep(t)
    PROVE  Slot!Next \/ UNCHANGED Slot!vars
<1>0. TypeOK /\ SlotSound
  BY DEF LoopInv, BaseInv
<1> USE DEF stateVars, fateVars, opVars, activeVars, At
<1>a. ASSUME UNCHANGED <<nextTurn, call>>, \A u \in Turns : u # t => pc'[u] = pc[u]
      PROVE  /\ \A u \in Turns : u # t => SlotPoint(u)' = SlotPoint(u)
             /\ SlotStage' = SlotStage /\ SlotVictim' = SlotVictim
             /\ call'["loop"].turn = call["loop"].turn
             /\ call'["loop"].victim = call["loop"].victim
  BY <1>a, PointStays DEF SlotStage, SlotVictim
<1>b. \A x : [pc EXCEPT ![t] = x][t] = x /\ \A u \in Turns : u # t => [pc EXCEPT ![t] = x][u] = pc[u]
  BY <1>0 DEF TypeOK
<1>1. CASE RunStep(t)
  <2>1. /\ UNCHANGED <<activeTask, nextTurn, call, cancelled, ended>>
        /\ \A u \in Turns : u # t => pc'[u] = pc[u]
        /\ \/ pc[t] \in RunPoints /\ pc'[t] \in RunPoints \cup {"finish"}
           \/ pc[t] = "fin_record" /\ pc'[t] \in {"fin_record", "fin_emit"}
    BY <1>0, <1>1, RunTypes DEF RunMoves, RunVars
  <2>2. \/ SlotPoint(t)' = SlotPoint(t)
        \/ SlotPoint(t) = "running" /\ SlotPoint(t)' = "finish"
    BY <2>1, PointIs DEF PointOf
  <2>3. CASE SlotPoint(t)' = SlotPoint(t)
    BY <1>a, <2>1, <2>3, SlotStutters
  <2>4. CASE SlotPoint(t) = "running" /\ SlotPoint(t)' = "finish"
    <3>1. [u \in Turns |-> SlotPoint(u)]' = [[u \in Turns |-> SlotPoint(u)] EXCEPT ![t] = "finish"]
      BY <1>a, <2>1, <2>4, SlotPointMoves
    <3>2. Slot!RunEnds(t)
      BY <1>a, <2>1, <2>4, <3>1 DEF Slot!RunEnds
    <3> QED
      BY <3>2 DEF Slot!Next
  <2> QED
    BY <2>2, <2>3, <2>4
<1>2. CASE FinishCheck(t)
  <2> DEFINE x == IF cancelled[t] THEN "done" ELSE "fin_lock"
             y == IF cancelled[t] THEN "done" ELSE "checked"
  <2>1. /\ UNCHANGED <<activeTask, nextTurn, call, cancelled, ended>>
        /\ pc[t] = "finish" /\ pc' = [pc EXCEPT ![t] = x]
    BY <1>2 DEF FinishCheck
  <2>2. pc'[t] = x /\ \A u \in Turns : u # t => pc'[u] = pc[u]
    BY <1>b, <2>1, Zenon
  <2>3. SlotPoint(t) = "finish" /\ SlotPoint(t)' = y
    BY <2>1, <2>2, PointIs DEF PointOf
  <2>4. [u \in Turns |-> SlotPoint(u)]' = [[u \in Turns |-> SlotPoint(u)] EXCEPT ![t] = y]
    <3> HIDE DEF y
    <3> QED
      BY <1>a, <2>1, <2>2, <2>3, SlotPointMoves
  <2>5. Slot!FinishCheck(t)
    BY <1>a, <2>1, <2>2, <2>3, <2>4 DEF Slot!FinishCheck
  <2> QED
    BY <2>5 DEF Slot!Next
<1>3. CASE FinishTake(t)
  <2> DEFINE y == IF activeTask # None THEN "finishing" ELSE "done"
  <2>1. UNCHANGED <<nextTurn, call, cancelled, ended>> /\ pc[t] = "fin_lock"
    BY <1>3 DEF FinishTake
  <2>2. /\ activeTask' = None
        /\ \/ activeTask # None /\ pc' = [pc EXCEPT ![t] = "fin_take"]
           \/ activeTask = None /\ pc' = [pc EXCEPT ![t] = "done"]
    BY <1>0, <1>3 DEF FinishTake, HasActiveTask, SlotSound
  <2>3. /\ \A u \in Turns : u # t => pc'[u] = pc[u]
        /\ pc'[t] = IF activeTask # None THEN "fin_take" ELSE "done"
    BY <1>b, <2>2
  <2>4. SlotPoint(t) = "checked" /\ SlotPoint(t)' = y
    BY <2>1, <2>3, PointIs DEF PointOf
  <2>5. [u \in Turns |-> SlotPoint(u)]' = [[u \in Turns |-> SlotPoint(u)] EXCEPT ![t] = y]
    <3> HIDE DEF y
    <3> QED
      BY <1>a, <2>1, <2>3, <2>4, SlotPointMoves
  <2>6. Slot!FinishTake(t)
    BY <1>a, <2>1, <2>2, <2>3, <2>4, <2>5 DEF Slot!FinishTake
  <2> QED
    BY <2>6 DEF Slot!Next
<1>4. CASE FinishTakePending(t)
  <2>1. /\ UNCHANGED <<activeTask, nextTurn, call, cancelled, ended>>
        /\ pc[t] = "fin_take" /\ pc' = [pc EXCEPT ![t] = "fin_record"]
    BY <1>4 DEF FinishTakePending
  <2>2. pc'[t] = "fin_record" /\ \A u \in Turns : u # t => pc'[u] = pc[u]
    BY <1>b, <2>1
  <2>3. SlotPoint(t)' = SlotPoint(t)
    BY <2>1, <2>2, PointIs DEF PointOf
  <2> QED
    BY <1>a, <2>1, <2>2, <2>3, SlotStutters
<1>5. CASE FinishEmit(t)
  <2>1. /\ UNCHANGED <<activeTask, nextTurn, call, cancelled>>
        /\ pc[t] = "fin_emit" /\ pc' = [pc EXCEPT ![t] = "fin_clear"]
        /\ ended' = [ended EXCEPT ![t] = ended[t] + 1]
    BY <1>5 DEF FinishEmit
  <2>2. pc'[t] = "fin_clear" /\ \A u \in Turns : u # t => pc'[u] = pc[u]
    BY <1>b, <2>1
  <2>3. SlotPoint(t) = "finishing" /\ SlotPoint(t)' = "sent"
    BY <2>1, <2>2, PointIs DEF PointOf
  <2>4. [u \in Turns |-> SlotPoint(u)]' = [[u \in Turns |-> SlotPoint(u)] EXCEPT ![t] = "sent"]
    BY <1>a, <2>1, <2>2, <2>3, SlotPointMoves
  <2>5. Slot!EmitComplete(t)
    BY <1>a, <2>1, <2>2, <2>3, <2>4 DEF Slot!EmitComplete
  <2> QED
    BY <2>5 DEF Slot!Next
<1>6. CASE FinishClear(t)
  <2>1. /\ UNCHANGED <<activeTask, nextTurn, call, cancelled, ended>>
        /\ pc[t] = "fin_clear" /\ pc' = [pc EXCEPT ![t] = "done"]
    BY <1>6 DEF FinishClear
  <2>2. pc'[t] = "done" /\ \A u \in Turns : u # t => pc'[u] = pc[u]
    BY <1>b, <2>1
  <2>3. SlotPoint(t) = "sent" /\ SlotPoint(t)' = "done"
    BY <2>1, <2>2, PointIs DEF PointOf
  <2>4. [u \in Turns |-> SlotPoint(u)]' = [[u \in Turns |-> SlotPoint(u)] EXCEPT ![t] = "done"]
    BY <1>a, <2>1, <2>2, <2>3, SlotPointMoves
  <2>5. Slot!FinishReturns(t)
    BY <1>a, <2>1, <2>2, <2>3, <2>4 DEF Slot!FinishReturns
  <2> QED
    BY <2>5 DEF Slot!Next
<1> QED
  BY <1>1, <1>2, <1>3, <1>4, <1>5, <1>6 DEF TaskStep, FinishStep

\* As long as only the submission loop starts and aborts turns, the session implements
\* the ownership protocol of TurnSlot: every step of a client, of the loop and of a task
\* is a step of the protocol or changes nothing it sees.
THEOREM RefinesTurnSlot == LoopAlone /\ Spec => ImplementsTurnSlot
<1>1. LoopAlone /\ Init => Slot!Init
  BY SlotInit
<1>2. LoopInv /\ [Next]_vars => [Slot!Next]_(Slot!vars)
  <2>1. CASE UNCHANGED vars
    <3>1. UNCHANGED <<pc, nextTurn, activeTask, cancelled, ended, call>>
      BY <2>1 DEF vars, activeVars, taskVars, fateVars
    <3> QED
      BY <3>1, SlotQuiet
  <2> QED
    BY <2>1, SlotClientSteps, SlotCallSteps, SlotTaskSteps DEF Next
<1> QED
  BY <1>1, <1>2, LoopHolds, PTL DEF Spec, ImplementsTurnSlot, Slot!Spec

-----------------------------------------------------------------------------
(* What TurnSlot_proofs proves of the protocol holds of the session.       *)

SlotProofs == INSTANCE TurnSlot_proofs WITH
    NoTurn <- None,
    slot <- activeTask,
    pc <- [t \in Turns |-> SlotPoint(t)],
    starting <- call["loop"].turn,
    stage <- SlotStage,
    victim <- IF SlotStage = "idle" THEN None ELSE call["loop"].victim

\* As long as only the submission loop starts and aborts turns, a turn gets at most one
\* terminal event, whatever the interleaving of a finishing task with an abort.
THEOREM AtMostOneTerminalEvent == LoopAlone /\ Spec => []OneTerminalEvent
<1>0. None \notin Turns
  BY DEF None, Turns
<1>1. SlotProofs!Spec => []SlotProofs!OneTerminalEvent
  BY <1>0, SlotProofs!AtMostOneTerminalEvent, PTL
<1>2. SlotProofs!OneTerminalEvent <=> OneTerminalEvent
  BY DEF SlotProofs!OneTerminalEvent, OneTerminalEvent
<1>3. SlotProofs!Init <=> Slot!Init
  BY DEF SlotProofs!Init, Slot!Init
<1>4. [SlotProofs!Next]_(SlotProofs!vars) <=> [Slot!Next]_(Slot!vars)
  BY Zenon DEF SlotProofs!vars, Slot!vars, SlotProofs!Next, Slot!Next,
     SlotProofs!Install, Slot!Install, SlotProofs!Take, Slot!Take, SlotProofs!Graceful, Slot!Graceful,
     SlotProofs!Timeout, Slot!Timeout, SlotProofs!EmitAborted, Slot!EmitAborted,
     SlotProofs!Allot, Slot!Allot, SlotProofs!RunEnds, Slot!RunEnds,
     SlotProofs!FinishCheck, Slot!FinishCheck, SlotProofs!FinishTake, Slot!FinishTake,
     SlotProofs!EmitComplete, Slot!EmitComplete, SlotProofs!FinishReturns, Slot!FinishReturns
<1> QED
  BY <1>1, <1>2, <1>3, <1>4, RefinesTurnSlot, PTL
  DEF ImplementsTurnSlot, Slot!Spec, SlotProofs!Spec

\* on_task_finished is about to wait for the slot (the token of its turn was not cancelled
\* when it looked): the slot holds its own task, or none.
FinishesOwnTask == \A t \in Turns : pc[t] = "fin_lock" => activeTask \in {t, None}

\* Two tasks that are not cancelled, and have not left the slot, are one.
OneUncancelledTask ==
    \A t, u \in Turns :
       pc[t] \in Working /\ ~cancelled[t] /\ pc[u] \in Working /\ ~cancelled[u] => t = u

\* As long as only the submission loop starts and aborts turns, on_task_finished never takes
\* the task of another turn, although it compares no sub_ids and looks at its token before it
\* waits for the slot: the abort that cancels it leaves the slot empty until it has ended.
THEOREM FinishTakesOwn == LoopAlone /\ Spec => []FinishesOwnTask
<1>1. LoopInv => FinishesOwnTask
  <2> SUFFICES ASSUME LoopInv, NEW t \in Turns, pc[t] = "fin_lock"
               PROVE  activeTask \in {t, None}
    BY DEF FinishesOwnTask
  <2>1. pc[t] \in Working /\ WorkInSlot
    BY DEF Working, LoopInv
  <2>2. CASE ~cancelled[t]
    BY <2>1, <2>2 DEF WorkInSlot
  <2>3. CASE cancelled[t]
    <3>1. call["loop"].at = "abort_wait"
      BY <2>1, <2>3 DEF WorkInSlot
    <3>2. activeState = None
      BY <3>1 DEF LoopInv, LoopOwnsSlot, AbortPoints
    <3> QED
      BY <3>2 DEF LoopInv, BaseInv, SlotSound
  <2> QED
    BY <2>2, <2>3
<1> QED
  BY <1>1, LoopHolds, PTL

\* Under the same condition two tasks never work at once, unless all but one are cancelled.
THEOREM OneTaskWorks == LoopAlone /\ Spec => []OneUncancelledTask
<1>1. LoopInv => OneUncancelledTask
  BY DEF LoopInv, WorkInSlot, OneUncancelledTask
<1> QED
  BY <1>1, LoopHolds, PTL

-----------------------------------------------------------------------------
(* No input is lost. What a caller, a run or a turn state lets go of holds  *)
(* no input, or it goes with an event.                                     *)

Tracked == UserInputs \cup Steers \cup Mails
Drained == {"fin_record", "fin_emit", "fin_clear"}

\* A run holds its input before it samples, and what it took until it has recorded it.
RunHands ==
    \A t \in Turns :
        /\ local[t].input # <<>> => pc[t] \in {"begin", "prepare"} /\ kind[t] = "Regular"
        /\ local[t].taken # <<>> => pc[t] \in RecordPoints \cup {"drain_mail"}

\* The loop holds input for a turn it will start, items between taking them and putting
\* them into the turn state, and a turn state while it aborts and while it extends it.
LoopHands ==
    /\ call["loop"].input # <<>> => call["loop"].turn # None /\ call["loop"].kind = "Regular"
    /\ call["loop"].items # <<>> => call["loop"].at \in {"start_drain", "start_state", "start_extend"}
    /\ call["loop"].state # None => call["loop"].at \in AbortPoints \cup {"start_extend"}

\* Turn states are allocated one after the other.
Fresh == activeState < nextState /\ \A t \in Turns : finishing[t] < nextState

\* The turn state of a task in the slot, and of the one the loop starts, is no longer or not
\* yet held by on_task_finished.
OwnState ==
    activeState # None /\ (activeTask # None \/ call["loop"].at \in StartPoints) =>
        \A t \in Turns : finishing[t] # activeState

\* The loop extends the turn state in the slot.
ExtendsSlot == call["loop"].at = "start_extend" => call["loop"].state = activeState

\* A turn state in the slot without a task is held by on_task_finished, or the loop starts
\* its turn.
FinisherHolds ==
    activeState # None /\ activeTask = None /\ call["loop"].at \notin StartPoints =>
        \E t \in Turns : finishing[t] = activeState

\* What on_task_finished has emptied gets no input any more.
DrainedStays ==
    \A t \in Turns : pc[t] \in Drained => Elems(pendingInput[finishing[t]]) \cap Tracked = {}

StateInv == Fresh /\ OwnState /\ ExtendsSlot /\ FinisherHolds /\ DrainedStays

KeepInv == LoopInv /\ RunHands /\ LoopHands /\ StateInv /\ NoInputLost

\* Where an item that was submitted is.
Where == Queued \cup InHands \cup Settled

\* Its parts.
WhereCovers ==
    /\ Elems(mailbox) \cup Elems(history) \cup rejected \cup discarded \subseteq Where
    /\ \A s \in States : Alive(s) => Elems(pendingInput[s]) \subseteq Where
    /\ \A t \in Turns : pc[t] # "killed" =>
          Elems(local[t].input) \subseteq Where /\ Elems(local[t].taken) \subseteq Where
    /\ \A p \in Callers :
          Elems(call[p].input) \subseteq Where /\ Elems(call[p].items) \subseteq Where

\* A part is in the union.
LEMMA WhereHolds == WhereCovers
<1>1. ASSUME NEW s \in States, Alive(s)
      PROVE  Elems(pendingInput[s]) \subseteq Queued
  BY <1>1 DEF Queued
<1>2. ASSUME NEW t \in Turns, pc[t] # "killed"
      PROVE  Elems(local[t].input) \cup Elems(local[t].taken) \subseteq InHands
  <2>1. Elems(local[t].input) \cup Elems(local[t].taken) \subseteq InRuns
    BY <1>2 DEF InRuns
  <2> QED
    BY <2>1 DEF InHands
<1>3. ASSUME NEW p \in Callers
      PROVE  Elems(call[p].input) \cup Elems(call[p].items) \subseteq InHands
  <2>1. Elems(call[p].input) \cup Elems(call[p].items) \subseteq InCalls
    BY DEF InCalls
  <2> QED
    BY <2>1 DEF InHands
<1>4. Elems(mailbox) \subseteq Queued /\ Elems(history) \cup rejected \cup discarded \subseteq Settled
  BY DEF Queued, Settled
<1> QED
  BY <1>1, <1>2, <1>3, <1>4 DEF WhereCovers, Where

\* Now and after a step.
LEMMA WhereHas == WhereCovers /\ WhereCovers'
  BY WhereHolds, PTL

\* What was in the queues, the turn states, the runs and the calls is somewhere after a step.
QueuesKept == Elems(mailbox) \cup Elems(history) \cup rejected \cup discarded \subseteq Where'
PendingKept ==
    \A s \in States : Alive(s) => Elems(pendingInput[s]) \cap Tracked \subseteq Where'
RunsKept ==
    \A t \in Turns : pc[t] # "killed" =>
        Elems(local[t].input) \subseteq Where' /\ Elems(local[t].taken) \subseteq Where'
CallsKept ==
    \A p \in Callers :
        Elems(call[p].input) \subseteq Where' /\ Elems(call[p].items) \subseteq Where'

\* Then nothing is lost.
LEMMA NothingLost ==
    ASSUME NoInputLost, QueuesKept, PendingKept, RunsKept, CallsKept,
           submitted' \subseteq submitted \cup Where'
    PROVE  NoInputLost'
<1>1. Where \cap Tracked \subseteq Where'
  <2>1. ASSUME NEW i \in Queued \cap Tracked
        PROVE  i \in Where'
    <3>1. i \in Elems(mailbox) \/ \E s \in States : Alive(s) /\ i \in Elems(pendingInput[s])
      BY DEF Queued
    <3> QED
      BY <3>1 DEF QueuesKept, PendingKept
  <2>2. ASSUME NEW i \in InHands
        PROVE  i \in Where'
    <3>1. \/ \E t \in Turns : /\ pc[t] # "killed"
                              /\ i \in Elems(local[t].input) \/ i \in Elems(local[t].taken)
          \/ \E p \in Callers : i \in Elems(call[p].input) \/ i \in Elems(call[p].items)
      <4>1. CASE i \in InRuns
        BY <4>1 DEF InRuns
      <4>2. CASE i \in InCalls
        BY <4>2 DEF InCalls
      <4> QED
        BY <2>2, <4>1, <4>2 DEF InHands
    <3> QED
      BY <3>1 DEF RunsKept, CallsKept
  <2>3. Settled \subseteq Where'
    BY DEF Settled, QueuesKept
  <2> QED
    BY <2>1, <2>2, <2>3 DEF Where
<1>2. submitted \cap Tracked \subseteq Where
  BY DEF NoInputLost, Tracked, Where
<1>3. submitted' \cap Tracked \subseteq Where'
  BY <1>1, <1>2
<1> QED
  BY <1>3 DEF NoInputLost, Tracked, Where

\* Queues that grow keep what they held.
LEMMA QueuesStay ==
    ASSUME Elems(mailbox) \subseteq Elems(mailbox') \cup Where',
           Elems(history) \subseteq Elems(history') \cup Where',
           rejected \subseteq rejected', discarded \subseteq discarded'
    PROVE  QueuesKept
  BY WhereHas DEF WhereCovers, QueuesKept

\* So do the turn states that are still held.
LEMMA PendingStays ==
    ASSUME \A s \in States : Alive(s) =>
              \/ Alive(s)' /\ Elems(pendingInput[s]) \subseteq Elems(pendingInput'[s])
              \/ Elems(pendingInput[s]) \cap Tracked \subseteq Where'
    PROVE  PendingKept
  BY WhereHas DEF WhereCovers, PendingKept

\* A turn state is held as long as the slot, the finishers and the calls stay.
LEMMA AliveStays ==
    ASSUME activeState' = activeState, finishing' = finishing,
           \A p \in Callers : call[p].state \in States => call'[p].state = call[p].state
    PROVE  \A s \in States : Alive(s) => Alive(s)'
  BY DEF Alive

\* Runs that keep or record what they hold.
LEMMA RunsStay ==
    ASSUME \A t \in Turns : pc[t] # "killed" => pc'[t] # "killed",
           \A t \in Turns :
              /\ local'[t].input = local[t].input \/ Elems(local[t].input) \subseteq Where'
              /\ local'[t].taken = local[t].taken \/ Elems(local[t].taken) \subseteq Where'
    PROVE  RunsKept
  BY WhereHas DEF WhereCovers, RunsKept

\* Calls that do.
LEMMA CallsStay ==
    ASSUME \A p \in Callers :
              /\ call'[p].input = call[p].input \/ Elems(call[p].input) \subseteq Where'
              /\ call'[p].items = call[p].items \/ Elems(call[p].items) \subseteq Where'
    PROVE  CallsKept
  BY WhereHas DEF WhereCovers, CallsKept

\* Turn states, slot and finishers stay as they are; the loop begins no start in a slot that
\* is held, and on_task_finished empties no other turn state.
LEMMA StatesStay ==
    ASSUME StateInv, UNCHANGED <<activeState, activeTask, finishing, nextState>>,
           activeState # None => (call'["loop"].at \in StartPoints <=> call["loop"].at \in StartPoints),
           call'["loop"].at = "start_extend" =>
              call["loop"].at = "start_extend" /\ call'["loop"].state = call["loop"].state,
           \A t \in Turns : pc'[t] \in Drained =>
              Elems(pendingInput'[finishing[t]]) \cap Tracked = {}
    PROVE  StateInv'
  BY DEF StateInv, Fresh, OwnState, ExtendsSlot, FinisherHolds, DrainedStays

\* The hands of runs that do not move.
LEMMA RunsRest ==
    ASSUME RunHands, UNCHANGED <<pc, kind>>,
           \A t \in Turns : local'[t].input = local[t].input /\ local'[t].taken = local[t].taken
    PROVE  RunHands'
  BY DEF RunHands

\* The types the steps need.
LEMMA KeepTypes ==
    ASSUME KeepInv
    PROVE  /\ TypeOK /\ BaseInv /\ "loop" \in Callers /\ call["loop"] \in Calls
           /\ None \notin States /\ None \notin Turns /\ None = 0
           /\ CallSound("loop") /\ nextState \in Nat
           /\ call["loop"].state \in States \cup {None}
           /\ activeState \in States \cup {None}
           /\ \A p \in Callers : p # "loop" => call[p].at = "idle"
           /\ local \in [Turns -> Locals] /\ pendingInput \in [States -> Seq(Items)]
           /\ finishing \in [Turns -> States \cup {None}]
<1>1. TypeOK /\ BaseInv /\ "loop" \in Callers /\ None \notin States /\ None \notin Turns /\ None = 0
  BY DEF KeepInv, LoopInv, BaseInv, Callers, None, States, Turns
<1>2. call["loop"] \in Calls /\ CallSound("loop")
  BY <1>1 DEF TypeOK, BaseInv, CallsSound
<1>3. call["loop"].state \in States \cup {None}
  BY <1>2 DEF Calls
<1>4. activeState \in States \cup {None} /\ nextState \in Nat
  BY <1>1 DEF TypeOK
<1>5. local \in [Turns -> Locals] /\ pendingInput \in [States -> Seq(Items)]
  BY <1>1 DEF TypeOK
<1>6. finishing \in [Turns -> States \cup {None}]
  BY <1>1 DEF TypeOK
<1>7. \A p \in Callers : p # "loop" => call[p].at = "idle"
  BY DEF KeepInv, LoopInv, OthersIdle
<1> QED
  BY <1>1, <1>2, <1>3, <1>4, <1>5, <1>6, <1>7

\* A step of the loop that leaves the slot, the turn states and the runs alone.
LEMMA LoopStepKeeps ==
    ASSUME KeepInv, LoopInv', LoopHands',
           UNCHANGED <<activeState, activeTask, finishing, nextState, pc, kind, local, pendingInput,
                       history, discarded, rejected>>,
           Elems(mailbox) \subseteq Elems(mailbox'),
           \A q \in Callers : q # "loop" => call'[q] = call[q],
           call["loop"].state = None \/ call'["loop"].state = call["loop"].state,
           call["loop"].input = <<>> \/ call'["loop"].input = call["loop"].input,
           call["loop"].items = <<>> \/ call'["loop"].items = call["loop"].items,
           activeState # None => (call'["loop"].at \in StartPoints <=> call["loop"].at \in StartPoints),
           call'["loop"].at # "start_extend",
           submitted' \subseteq submitted \cup Where'
    PROVE  KeepInv'
<1>1. RunHands'
  BY RunsRest DEF KeepInv
<1>2. StateInv'
  BY StatesStay DEF KeepInv, StateInv, DrainedStays
<1>3. \A s \in States : Alive(s) => Alive(s)'
  BY AliveStays, KeepTypes
<1>4. PendingKept
  BY <1>3, PendingStays
<1>5. RunsKept
  BY RunsStay
<1>6. CallsKept
  <2>1. \A p \in Callers :
           /\ call'[p].input = call[p].input \/ Elems(call[p].input) = {}
           /\ call'[p].items = call[p].items \/ Elems(call[p].items) = {}
    BY EmptySeq
  <2> QED
    BY <2>1, CallsStay
<1>7. QueuesKept
  BY QueuesStay
<1>8. NoInputLost'
  BY <1>4, <1>5, <1>6, <1>7, NothingLost DEF KeepInv
<1> QED
  BY <1>1, <1>2, <1>8 DEF KeepInv

\* An item joins the queue of the turn state in the slot.
LEMMA PendingGrows ==
    ASSUME KeepInv, LoopInv', NEW i \in Items, pendingInput' = Extend(activeState, <<i>>),
           activeState # None, activeTask # None \/ i \notin Tracked,
           UNCHANGED <<activeState, activeTask, finishing, nextState, pc, kind, local, mailbox,
                       history, discarded, rejected, call>>,
           submitted' = submitted \cup {i}
    PROVE  KeepInv'
<1>0. /\ activeState \in States /\ pendingInput \in [States -> Seq(Items)]
      /\ finishing \in [Turns -> States \cup {None}] /\ OwnState /\ DrainedStays
  BY KeepTypes DEF KeepInv, StateInv
<1>1. /\ pendingInput'[activeState] = pendingInput[activeState] \o <<i>>
      /\ \A s \in States : s # activeState => pendingInput'[s] = pendingInput[s]
  BY <1>0 DEF Extend
<1>2. Elems(pendingInput'[activeState]) = Elems(pendingInput[activeState]) \cup {i}
  <2>1. pendingInput[activeState] \in Seq(Items) /\ <<i>> \in Seq(Items)
    BY <1>0
  <2>2. Elems(pendingInput[activeState] \o <<i>>) = Elems(pendingInput[activeState]) \cup Elems(<<i>>)
    BY <2>1, ConcatSeq
  <2> QED
    BY <1>1, <2>2, OneSeq
<1>3. RunHands' /\ LoopHands'
  BY RunsRest DEF KeepInv, LoopHands
<1>4. ASSUME NEW t \in Turns, pc'[t] \in Drained
      PROVE  Elems(pendingInput'[finishing[t]]) \cap Tracked = {}
  <2>1. finishing[t] \in States /\ Elems(pendingInput[finishing[t]]) \cap Tracked = {}
    BY <1>0, <1>4 DEF DrainedStays, KeepInv, LoopInv, BaseInv, TasksSound, TaskSound, Drained
  <2>2. CASE finishing[t] = activeState
    BY <1>0, <1>2, <2>1, <2>2 DEF OwnState
  <2>3. CASE finishing[t] # activeState
    BY <1>1, <2>1, <2>3
  <2> QED
    BY <2>2, <2>3
<1>5. StateInv'
  BY <1>4, StatesStay DEF KeepInv, StateInv, ExtendsSlot
<1>6. \A s \in States : Alive(s) => Alive(s)'
  BY AliveStays
<1>7. PendingKept
  BY <1>1, <1>2, <1>6, PendingStays
<1>8. i \in Where'
  <2>1. Alive(activeState)'
    BY DEF Alive
  <2> QED
    BY <1>0, <1>2, <2>1, WhereHas DEF WhereCovers
<1>9. NoInputLost'
  BY <1>7, <1>8, RunsStay, CallsStay, QueuesStay, NothingLost DEF KeepInv
<1> QED
  BY <1>3, <1>5, <1>9 DEF KeepInv

\* What the loop holds when it is ready.
LEMMA ReadyHands ==
    ASSUME KeepInv, call["loop"].at \in {"idle", "pending_check", "reserve"}
    PROVE  /\ call["loop"].turn = None /\ call["loop"].input = <<>> /\ call["loop"].items = <<>>
           /\ call["loop"].state = None
<1>1. call["loop"].turn = None
  BY KeepTypes DEF CallSound, Starting, StartPoints, AbortPoints
<1> QED
  BY <1>1 DEF KeepInv, LoopHands, AbortPoints

\* What clients do.
LEMMA ClientKeeps ==
    ASSUME KeepInv, LoopInv', ClientStep
    PROVE  KeepInv'
<1>0. /\ TypeOK /\ "loop" \in Callers /\ None = 0 /\ None \notin Turns
      /\ UserInputs \cup Mails \cup Steers \cup Injected \subseteq Items
  BY KeepTypes DEF Items
<1> USE DEF stateVars, fateVars, taskVars, opVars, activeVars
<1>2. ASSUME NEW u \in UserInputs, UserInputSteers(u)
      PROVE  KeepInv'
  BY <1>0, <1>2, PendingGrows DEF UserInputSteers, Steerable, HasActiveTask
<1>r. ASSUME NEW u, submitted' = submitted \cup {u}, rejected' = rejected \cup {u},
             UNCHANGED <<activeState, activeTask, finishing, nextState, pc, kind, local, mailbox,
                         history, discarded, pendingInput, call>>
      PROVE  KeepInv'
  <2>1. RunHands' /\ LoopHands' /\ StateInv'
    BY <1>r, RunsRest DEF KeepInv, LoopHands, StateInv, Fresh, OwnState, ExtendsSlot, FinisherHolds,
                          DrainedStays
  <2>2. \A s \in States : Alive(s) => Alive(s)'
    BY <1>r, AliveStays
  <2>3. QueuesKept /\ PendingKept /\ RunsKept /\ CallsKept
    BY <1>r, <2>2, QueuesStay, PendingStays, RunsStay, CallsStay
  <2>4. u \in Where'
    BY <1>r, WhereHas DEF WhereCovers
  <2>5. NoInputLost'
    BY <1>r, <2>3, <2>4, NothingLost DEF KeepInv
  <2> QED
    BY <2>1, <2>5 DEF KeepInv
<1>3. ASSUME NEW u \in UserInputs, UserInputRejected(u)
      PROVE  KeepInv'
  BY <1>r, <1>3 DEF UserInputRejected
<1>h. ASSUME LoopReady
      PROVE  /\ call["loop"].input = <<>> /\ call["loop"].items = <<>> /\ call["loop"].state = None
             /\ call["loop"].turn = None /\ call["loop"].at = "idle"
             /\ call["loop"].at \notin StartPoints
  BY <1>h, ReadyHands DEF LoopReady, StartPoints
<1>4. ASSUME NEW u \in UserInputs, UserInputStartsTurn(u)
      PROVE  KeepInv'
  <2>1. /\ SpawnTask("Regular", <<u>>) /\ <<u>> \in Seq(Items) /\ LoopReady
        /\ submitted' = submitted \cup {u}
        /\ UNCHANGED <<activeState, activeTask, finishing, nextState, pc, kind, local, mailbox,
                       pendingInput, history, discarded, rejected>>
    BY <1>0, <1>4 DEF UserInputStartsTurn
  <2>2. /\ \A q \in Callers : q # "loop" => call'[q] = call[q]
        /\ call'["loop"].input = <<u>> /\ call'["loop"].items = <<>>
        /\ call'["loop"].state = None /\ call'["loop"].at = "abort_take"
        /\ call'["loop"].turn # None /\ call'["loop"].kind = "Regular"
    BY <1>0, <2>1, SpawnCall DEF Becomes, Carries
  <2>3. LoopHands' /\ call'["loop"].at \notin StartPoints
    BY <2>2 DEF LoopHands, StartPoints
  <2>4. u \in Where'
    BY <1>0, <2>2, WhereHas, OneSeq DEF WhereCovers
  <2> QED
    BY <1>h, <2>1, <2>2, <2>3, <2>4, LoopStepKeeps
<1>5. CASE Compact \/ Interrupt \/ Shutdown
  <2>1. /\ SpawnTask("Compact", <<>>) \/ InterruptTask("loop")
        /\ UNCHANGED <<activeState, activeTask, finishing, nextState, pc, kind, local, mailbox,
                       pendingInput, history, discarded, rejected, submitted>>
        /\ <<>> \in Seq(Items) /\ LoopReady
    BY <1>5 DEF Compact, Interrupt, Shutdown
  <2>2. /\ \A q \in Callers : q # "loop" => call'[q] = call[q]
        /\ call'["loop"].input = <<>> /\ call'["loop"].items = <<>>
        /\ call'["loop"].state = None /\ call'["loop"].at = "abort_take"
    <3>1. CASE SpawnTask("Compact", <<>>)
      BY <1>0, <2>1, <3>1, SpawnCall DEF Becomes, Carries
    <3>2. CASE InterruptTask("loop")
      BY <1>0, <3>2, InterruptCall DEF Becomes, Carries
    <3> QED
      BY <2>1, <3>1, <3>2
  <2>3. LoopHands' /\ call'["loop"].at \notin StartPoints
    BY <2>2 DEF LoopHands, StartPoints
  <2> QED
    BY <1>h, <2>1, <2>2, <2>3, LoopStepKeeps
<1>6. ASSUME NEW m \in Mails, InterAgentCommunication(m)
      PROVE  KeepInv'
  <2>1. /\ submitted' = submitted \cup {m} /\ mailbox' = Append(mailbox, m) /\ LoopReady
        /\ Goto("loop", "pending_check") \/ UNCHANGED call
        /\ UNCHANGED <<activeState, activeTask, finishing, nextState, pc, kind, local,
                       pendingInput, history, discarded, rejected>>
    BY <1>6 DEF InterAgentCommunication
  <2>2. mailbox \in Seq(Items) /\ m \in Items
    BY <1>0, MailsAreItems DEF TypeOK
  <2>3. Elems(mailbox') = Elems(mailbox) \cup {m}
    BY <2>1, <2>2, AppendSeq, ConcatSeq, OneSeq
  <2>4. m \in Where'
    BY <2>3, WhereHas DEF WhereCovers
  <2>5. /\ \A q \in Callers : q # "loop" => call'[q] = call[q]
        /\ call'["loop"].input = <<>> /\ call'["loop"].items = <<>> /\ call'["loop"].state = None
        /\ call'["loop"].at \in {"idle", "pending_check"}
    BY <1>0, <1>h, <2>1, GotoCall DEF Becomes, Carries, CallPoints
  <2>6. LoopHands' /\ call'["loop"].at \notin StartPoints /\ call'["loop"].at # "start_extend"
    BY <2>5 DEF LoopHands, StartPoints
  <2> QED
    BY <1>h, <2>1, <2>3, <2>4, <2>5, <2>6, LoopStepKeeps
<1>7. ASSUME NEW u \in Steers, NEW t \in Turns, SteerInput(u, t)
      PROVE  KeepInv'
  <2>1. /\ submitted' = submitted \cup {u}
        /\ UNCHANGED <<activeState, activeTask, finishing, nextState, pc, kind, local, mailbox,
                       history, discarded, call>>
    BY <1>7 DEF SteerInput
  <2>2. CASE Steerable /\ activeTask = t
    <3>1. pendingInput' = Extend(activeState, <<u>>) /\ UNCHANGED rejected
      BY <1>7, <2>2 DEF SteerInput
    <3> QED
      BY <1>0, <2>1, <2>2, <3>1, PendingGrows DEF Steerable, HasActiveTask
  <2>3. CASE ~(Steerable /\ activeTask = t)
    <3>1. rejected' = rejected \cup {u} /\ UNCHANGED pendingInput
      BY <1>7, <2>3 DEF SteerInput
    <3> QED
      BY <1>r, <2>1, <3>1
  <2> QED
    BY <2>2, <2>3
<1>8. ASSUME NEW i \in Injected, InjectNoNewTurn(i)
      PROVE  KeepInv'
  <2>1. /\ submitted' = submitted \cup {i}
        /\ UNCHANGED <<activeState, activeTask, finishing, nextState, pc, kind, local, mailbox,
                       discarded, rejected, call>>
    BY <1>8 DEF InjectNoNewTurn
  <2>2. CASE activeState # None
    <3>1. pendingInput' = Extend(activeState, <<i>>) /\ UNCHANGED history /\ i \notin Tracked
      BY <1>8, <2>2, KindsAssumption DEF InjectNoNewTurn, Tracked
    <3> QED
      BY <1>0, <2>1, <2>2, <3>1, PendingGrows
  <2>3. CASE activeState = None
    <3>1. history' = Append(history, i) /\ UNCHANGED pendingInput /\ history \in Seq(Items)
      BY <1>0, <1>8, <2>3 DEF InjectNoNewTurn, TypeOK
    <3>2. Elems(history') = Elems(history) \cup {i}
      BY <1>0, <3>1, AppendSeq, ConcatSeq, OneSeq
    <3>3. RunHands' /\ LoopHands' /\ StateInv'
      BY <2>1, <3>1, RunsRest DEF KeepInv, LoopHands, StateInv, Fresh, OwnState, ExtendsSlot,
                                  FinisherHolds, DrainedStays
    <3>4. \A s \in States : Alive(s) => Alive(s)'
      BY <2>1, AliveStays
    <3>5. QueuesKept /\ PendingKept /\ RunsKept /\ CallsKept
      BY <2>1, <3>1, <3>2, <3>4, QueuesStay, PendingStays, RunsStay, CallsStay
    <3>6. i \in Where'
      BY <3>2, WhereHas DEF WhereCovers
    <3>7. NoInputLost'
      BY <2>1, <3>5, <3>6, NothingLost DEF KeepInv
    <3> QED
      BY <3>3, <3>7 DEF KeepInv
  <2> QED
    BY <2>2, <2>3
<1>10. ASSUME NEW t \in Turns, NotifyApproval(t)
       PROVE  KeepInv'
  <2>1. /\ local' = [local EXCEPT ![t] = [local[t] EXCEPT !.decision = TRUE]]
        /\ UNCHANGED <<activeState, activeTask, finishing, nextState, pc, kind, mailbox, call,
                       pendingInput, history, discarded, rejected, submitted>>
    BY <1>10 DEF NotifyApproval
  <2>2. \A u \in Turns : local'[u].input = local[u].input /\ local'[u].taken = local[u].taken
    <3>1. local[t] \in Locals /\ local \in [Turns -> Locals]
      BY <1>0 DEF TypeOK
    <3> QED
      BY <2>1, <3>1 DEF Locals
  <2>3. RunHands' /\ LoopHands' /\ StateInv'
    BY <2>1, <2>2, RunsRest DEF KeepInv, LoopHands, StateInv, Fresh, OwnState, ExtendsSlot,
                                FinisherHolds, DrainedStays
  <2>4. \A s \in States : Alive(s) => Alive(s)'
    BY <2>1, AliveStays
  <2>5. QueuesKept /\ PendingKept /\ RunsKept /\ CallsKept
    BY <2>1, <2>2, <2>4, QueuesStay, PendingStays, RunsStay, CallsStay
  <2>6. NoInputLost'
    BY <2>1, <2>5, NothingLost DEF KeepInv
  <2> QED
    BY <2>3, <2>6 DEF KeepInv
<1>11. /\ \A t \in Turns : ~AbortTurnIfActive(t)
       /\ \A i \in IdleItems : FALSE
  BY DEF KeepInv, LoopInv, LoopAlone, AbortTurnIfActive
<1> QED
  BY <1>2, <1>3, <1>4, <1>5, <1>6, <1>7, <1>8, <1>10, <1>11 DEF ClientStep

\* A step of the loop that leaves the runs alone, once its parts are known.
LEMMA LoopKeeps ==
    ASSUME KeepInv, LoopInv', LoopHands', StateInv', UNCHANGED <<pc, kind, local, submitted>>,
           QueuesKept, PendingKept, CallsKept
    PROVE  KeepInv'
<1>1. RunHands'
  BY RunsRest DEF KeepInv
<1>2. RunsKept
  BY RunsStay
<1>3. NoInputLost'
  BY <1>2, NothingLost DEF KeepInv
<1> QED
  BY <1>1, <1>3 DEF KeepInv

\* The mailbox, the history and the fates do not change.
LEMMA QueuesRest ==
    ASSUME UNCHANGED <<mailbox, history, rejected, discarded>>
    PROVE  QueuesKept
  BY QueuesStay

\* No turn state changes, and all stay held.
LEMMA PendingRests ==
    ASSUME UNCHANGED pendingInput, \A s \in States : Alive(s) => Alive(s)'
    PROVE  PendingKept
  BY PendingStays

\* The other calls do not change, and the loop keeps what it holds or holds nothing.
LEMMA CallsRest ==
    ASSUME \A q \in Callers : q # "loop" => call'[q] = call[q],
           call["loop"].input = <<>> \/ call'["loop"].input = call["loop"].input,
           call["loop"].items = <<>> \/ call'["loop"].items = call["loop"].items
    PROVE  CallsKept
<1>1. \A p \in Callers :
         /\ call'[p].input = call[p].input \/ Elems(call[p].input) = {}
         /\ call'[p].items = call[p].items \/ Elems(call[p].items) = {}
  BY EmptySeq
<1> QED
  BY <1>1, CallsStay

\* The loop looks for pending work, or goes on with an abort.
LEMMA LoopWaitsKeeps ==
    ASSUME KeepInv, LoopInv',
           \/ PendingCheck("loop") \/ ReserveRefused("loop")
           \/ AbortGraceful("loop") \/ AbortEmit("loop")
    PROVE  KeepInv'
<1>0. TypeOK /\ "loop" \in Callers /\ LoopHands
  BY KeepTypes DEF KeepInv
<1> USE DEF stateVars, fateVars, taskVars, opVars, activeVars
<1>1. UNCHANGED <<activeState, activeTask, finishing, nextState, pc, kind, local, pendingInput,
                  mailbox, history, discarded, rejected, submitted>>
  BY DEF PendingCheck, ReserveRefused, AbortGraceful, AbortEmit
<1>2. CASE PendingCheck("loop") \/ ReserveRefused("loop")
  <2>1. /\ Goto("loop", "reserve") \/ Return("loop")
        /\ call["loop"].at \in {"idle", "pending_check", "reserve"}
    BY <1>2 DEF PendingCheck, ReserveRefused
  <2>2. /\ call["loop"].input = <<>> /\ call["loop"].items = <<>> /\ call["loop"].state = None
        /\ call["loop"].at \notin StartPoints
    BY <2>1, ReadyHands DEF StartPoints
  <2>3. /\ \A q \in Callers : q # "loop" => call'[q] = call[q]
        /\ call'["loop"].input = <<>> /\ call'["loop"].items = <<>> /\ call'["loop"].state = None
        /\ call'["loop"].at \in {"idle", "exited", "reserve"}
    <3>1. CASE Goto("loop", "reserve")
      BY <1>0, <2>2, <3>1, GotoCall DEF Becomes, Carries, CallPoints
    <3>2. CASE Return("loop")
      BY <1>0, <3>2, ReturnCall DEF Becomes, Carries
    <3> QED
      BY <2>1, <3>1, <3>2
  <2>4. LoopHands' /\ call'["loop"].at \notin StartPoints /\ call'["loop"].at # "start_extend"
    BY <2>3 DEF LoopHands, StartPoints
  <2> QED
    BY <1>1, <2>2, <2>3, <2>4, LoopStepKeeps
<1>3. CASE AbortGraceful("loop") \/ AbortEmit("loop")
  <2>1. /\ \E a \in {"abort_emit", "abort_clear"} : Goto("loop", a)
        /\ call["loop"].at \in {"abort_wait", "abort_emit"}
    BY <1>3 DEF AbortGraceful, AbortEmit
  <2>2. call["loop"].items = <<>> /\ call["loop"].at \notin StartPoints
    BY <1>0, <2>1 DEF LoopHands, StartPoints
  <2>3. /\ \A q \in Callers : q # "loop" => call'[q] = call[q]
        /\ call'["loop"].input = call["loop"].input /\ call'["loop"].items = <<>>
        /\ call'["loop"].state = call["loop"].state /\ call'["loop"].turn = call["loop"].turn
        /\ call'["loop"].kind = call["loop"].kind
        /\ call'["loop"].at \in {"abort_emit", "abort_clear"}
    BY <1>0, <2>1, <2>2, GotoCall DEF Becomes, Carries, CallPoints, AbortPoints
  <2>4. LoopHands' /\ call'["loop"].at \notin StartPoints /\ call'["loop"].at # "start_extend"
    BY <1>0, <2>3 DEF LoopHands, StartPoints, AbortPoints
  <2> QED
    BY <1>1, <2>2, <2>3, <2>4, LoopStepKeeps
<1> QED
  BY <1>2, <1>3

\* It reserves the slot.
LEMMA ReserveKeeps ==
    ASSUME KeepInv, LoopInv', Reserve("loop")
    PROVE  KeepInv'
<1>0. /\ TypeOK /\ "loop" \in Callers /\ StateInv /\ None \notin States /\ None = 0
      /\ nextState \in Nat /\ finishing \in [Turns -> States \cup {None}]
  BY KeepTypes DEF KeepInv
<1> USE DEF stateVars, fateVars, taskVars, opVars, activeVars
<1>1. /\ call["loop"].at = "reserve" /\ activeState = None
      /\ activeState' = nextState /\ activeTask' = None /\ nextState' = nextState + 1
      /\ UNCHANGED <<finishing, pc, kind, local, pendingInput, mailbox, history, discarded,
                     rejected, submitted>>
  BY DEF Reserve
<1>2. call["loop"].input = <<>> /\ call["loop"].items = <<>> /\ call["loop"].state = None
  BY <1>1, ReadyHands
<1>3. /\ \A q \in Callers : q # "loop" => call'[q] = call[q]
      /\ call'["loop"].input = <<>> /\ call'["loop"].items = <<>> /\ call'["loop"].state = None
      /\ call'["loop"].at = "start_take"
  BY <1>0, ReservedCall DEF Becomes, Carries, Reserve
<1>4. LoopHands'
  BY <1>3 DEF LoopHands
<1>5. StateInv'
  <2>1. \A t \in Turns : finishing'[t] < nextState /\ finishing'[t] \in Nat
    BY <1>0, <1>1 DEF StateInv, Fresh, States
  <2>2. Fresh' /\ OwnState'
    <3>1. \A t \in Turns : finishing'[t] < nextState + 1 /\ finishing'[t] # nextState
      BY <1>0, <2>1
    <3> QED
      BY <1>0, <1>1, <3>1 DEF Fresh, OwnState
  <2>3. ExtendsSlot' /\ FinisherHolds' /\ DrainedStays'
    BY <1>0, <1>1, <1>3 DEF StateInv, ExtendsSlot, FinisherHolds, DrainedStays, StartPoints
  <2> QED
    BY <2>2, <2>3 DEF StateInv
<1>6. \A s \in States : Alive(s) => Alive(s)'
  <2>1. \A q \in Callers : call'[q].state = call[q].state
    BY <1>2, <1>3
  <2> QED
    BY <1>0, <1>1, <2>1 DEF Alive
<1>7. QueuesKept /\ PendingKept /\ CallsKept
  BY <1>1, <1>2, <1>3, <1>6, QueuesRest, PendingRests, CallsRest
<1> QED
  BY <1>1, <1>4, <1>5, <1>7, LoopKeeps

\* A part of what a sequence holds.
LEMMA ConcatHolds ==
    ASSUME NEW s \in Seq(Items), NEW r \in Seq(Items)
    PROVE  Elems(s) \subseteq Elems(s \o r) /\ Elems(r) \subseteq Elems(s \o r)
  BY ConcatSeq

\* What get_pending_input leaves in the turn states.
LEMMA TakeLeaves ==
    ASSUME TypeOK, pendingInput' = PendingAfterTake, None \notin States
    PROVE  /\ \A s \in States : s # activeState => pendingInput'[s] = pendingInput[s]
           /\ activeState \in States =>
                 pendingInput'[activeState] = <<>> /\ ActivePending = pendingInput[activeState]
  BY DEF PendingAfterTake, ActivePending, TypeOK

\* Queues that lose items stay empty.
LEMMA DrainedLess ==
    ASSUME KeepInv, UNCHANGED finishing,
           \A s \in States : Elems(pendingInput'[s]) \subseteq Elems(pendingInput[s])
    PROVE  \A t \in Turns : pc[t] \in Drained =>
              Elems(pendingInput'[finishing[t]]) \cap Tracked = {}
<1>1. ASSUME NEW t \in Turns, pc[t] \in Drained
      PROVE  finishing[t] \in States /\ Elems(pendingInput[finishing[t]]) \cap Tracked = {}
  BY <1>1 DEF KeepInv, StateInv, DrainedStays, LoopInv, BaseInv, TasksSound, TaskSound, Drained
<1> QED
  BY <1>1

\* start_task takes what is queued.
LEMMA StartTakeKeeps ==
    ASSUME KeepInv, LoopInv', StartTake("loop")
    PROVE  KeepInv'
<1>0. /\ TypeOK /\ "loop" \in Callers /\ StateInv /\ LoopHands /\ None \notin States
      /\ activeState \in States \cup {None}
  BY KeepTypes DEF KeepInv
<1> USE DEF stateVars, fateVars, taskVars, opVars, activeVars
<1>1. /\ call["loop"].at = "start_take" /\ pendingInput' = PendingAfterTake
      /\ UNCHANGED <<activeState, activeTask, nextState, finishing, pc, kind, local, mailbox, history,
                     discarded, rejected, submitted>>
  BY DEF StartTake
<1>2. call["loop"].items = <<>> /\ call["loop"].state = None
  BY <1>0, <1>1 DEF LoopHands, AbortPoints
<1>3. /\ \A q \in Callers : q # "loop" => call'[q] = call[q]
      /\ call'["loop"].input = call["loop"].input /\ call'["loop"].items = ActivePending
      /\ call'["loop"].state = None /\ call'["loop"].turn = call["loop"].turn
      /\ call'["loop"].kind = call["loop"].kind
      /\ call'["loop"].at \in {"start_drain", "start_state"}
  BY <1>0, <1>2, StartTakeCall DEF Becomes, Carries
<1>4. LoopHands'
  BY <1>0, <1>3 DEF LoopHands
<1>5. /\ \A s \in States : s # activeState => pendingInput'[s] = pendingInput[s]
      /\ activeState \in States =>
            pendingInput'[activeState] = <<>> /\ ActivePending = pendingInput[activeState]
  BY <1>0, <1>1, TakeLeaves
<1>6. \A s \in States : Elems(pendingInput'[s]) \subseteq Elems(pendingInput[s])
  BY <1>5, EmptySeq
<1>7. StateInv'
  <2>1. call'["loop"].at \in StartPoints /\ call["loop"].at \in StartPoints
    BY <1>1, <1>3 DEF StartPoints
  <2>2. \A t \in Turns : pc[t] \in Drained => Elems(pendingInput'[finishing[t]]) \cap Tracked = {}
    BY <1>1, <1>6, DrainedLess
  <2> QED
    BY <1>0, <1>1, <1>3, <2>1, <2>2, StatesStay
<1>8. \A s \in States : Alive(s) => Alive(s)'
  <2>1. \A q \in Callers : call'[q].state = call[q].state
    BY <1>2, <1>3
  <2> QED
    BY <1>1, <2>1, AliveStays
<1>9. Elems(ActivePending) \subseteq Where'
  BY <1>0, <1>3, WhereHas DEF WhereCovers
<1>10. PendingKept
  BY <1>5, <1>8, <1>9, PendingStays
<1>11. QueuesKept /\ CallsKept
  BY <1>1, <1>2, <1>3, QueuesRest, CallsRest
<1> QED
  BY <1>1, <1>4, <1>7, <1>10, <1>11, LoopKeeps

\* And the mail.
LEMMA StartDrainKeeps ==
    ASSUME KeepInv, LoopInv', StartDrain("loop")
    PROVE  KeepInv'
<1>0. /\ TypeOK /\ "loop" \in Callers /\ StateInv /\ LoopHands
      /\ call["loop"].items \in Seq(Items) /\ mailbox \in Seq(Items)
  <2>1. TypeOK /\ "loop" \in Callers /\ StateInv /\ LoopHands /\ call["loop"] \in Calls
    BY KeepTypes DEF KeepInv
  <2> QED
    BY <2>1, MailsAreItems DEF TypeOK, Calls
<1> USE DEF stateVars, fateVars, taskVars, opVars, activeVars
<1>1. /\ call["loop"].at = "start_drain"
      /\ UNCHANGED <<activeState, activeTask, nextState, finishing, pc, kind, local, history,
                     discarded, rejected, submitted, pendingInput>>
  BY DEF StartDrain
<1>2. call["loop"].state = None
  BY <1>0, <1>1 DEF LoopHands, AbortPoints
<1>3. /\ \A q \in Callers : q # "loop" => call'[q] = call[q]
      /\ call'["loop"].input = call["loop"].input
      /\ call'["loop"].items = call["loop"].items \o mailbox
      /\ call'["loop"].state = None /\ call'["loop"].turn = call["loop"].turn
      /\ call'["loop"].kind = call["loop"].kind /\ call'["loop"].at = "start_state"
  BY <1>0, <1>2, StartDrainCall DEF Becomes, Carries
<1>4. LoopHands'
  BY <1>0, <1>3 DEF LoopHands
<1>5. StateInv'
  <2>1. call'["loop"].at \in StartPoints /\ call["loop"].at \in StartPoints
    BY <1>1, <1>3 DEF StartPoints
  <2>2. \A t \in Turns : pc[t] \in Drained => Elems(pendingInput'[finishing[t]]) \cap Tracked = {}
    BY <1>0, <1>1 DEF StateInv, DrainedStays
  <2> QED
    BY <1>0, <1>1, <1>3, <2>1, <2>2, StatesStay
<1>6. \A s \in States : Alive(s) => Alive(s)'
  <2>1. \A q \in Callers : call'[q].state = call[q].state
    BY <1>2, <1>3
  <2> QED
    BY <1>1, <2>1, AliveStays
<1>7. Elems(call["loop"].items) \subseteq Where' /\ Elems(mailbox) \subseteq Where'
  <2>1. Elems(call'["loop"].items) \subseteq Where'
    BY <1>0, WhereHas DEF WhereCovers
  <2> QED
    BY <1>0, <1>3, <2>1, ConcatHolds
<1>8. PendingKept
  BY <1>1, <1>6, PendingRests
<1>9. CallsKept
  BY <1>3, <1>7, CallsStay
<1>10. QueuesKept
  BY <1>1, <1>7, QueuesStay
<1> QED
  BY <1>1, <1>4, <1>5, <1>8, <1>9, <1>10, LoopKeeps

\* It finds a turn state in the slot or inserts one.
LEMMA StartStateKeeps ==
    ASSUME KeepInv, LoopInv', StartState("loop")
    PROVE  KeepInv'
<1>0. /\ TypeOK /\ "loop" \in Callers /\ StateInv /\ LoopHands /\ None \notin States /\ None = 0
      /\ nextState \in Nat /\ finishing \in [Turns -> States \cup {None}]
      /\ activeState \in States \cup {None}
  BY KeepTypes DEF KeepInv
<1> USE DEF stateVars, fateVars, taskVars, opVars, activeVars
<1>1. /\ call["loop"].at = "start_state" /\ CanInsert
      /\ activeState' = SlotAfterInsert /\ nextState' = NextStateAfterInsert
      /\ UNCHANGED <<activeTask, finishing, pc, kind, local, history, mailbox,
                     discarded, rejected, submitted, pendingInput>>
  BY DEF StartState
<1>2. call["loop"].state = None /\ call["loop"].at \in StartPoints
  BY <1>0, <1>1 DEF LoopHands, AbortPoints, StartPoints
<1>3. /\ \A q \in Callers : q # "loop" => call'[q] = call[q]
      /\ call'["loop"].input = call["loop"].input
      /\ call'["loop"].items = call["loop"].items
      /\ call'["loop"].state = activeState' /\ call'["loop"].turn = call["loop"].turn
      /\ call'["loop"].kind = call["loop"].kind /\ call'["loop"].at = "start_extend"
  BY <1>0, <1>1, StartStateCall DEF Becomes, Carries
<1>4. LoopHands'
  BY <1>0, <1>3 DEF LoopHands
<1>5. StateInv'
  <2>1. /\ activeState < nextState
        /\ \A t \in Turns : finishing'[t] < nextState /\ finishing'[t] \in Nat
        /\ activeState # None => \A t \in Turns : finishing'[t] # activeState
    BY <1>0, <1>1, <1>2 DEF StateInv, Fresh, OwnState, States
  <2>2. Fresh' /\ OwnState'
    <3>1. CASE activeState = None
      <4>1. activeState' = nextState /\ nextState' = nextState + 1
        BY <1>1, <3>1 DEF SlotAfterInsert, NextStateAfterInsert
      <4>2. \A t \in Turns : finishing'[t] < nextState + 1 /\ finishing'[t] # nextState
        BY <1>0, <2>1
      <4> QED
        BY <1>0, <4>1, <4>2 DEF Fresh, OwnState
    <3>2. CASE activeState # None
      BY <1>1, <2>1, <3>2 DEF Fresh, OwnState, SlotAfterInsert, NextStateAfterInsert
    <3> QED
      BY <3>1, <3>2
  <2>3. ExtendsSlot' /\ FinisherHolds' /\ DrainedStays'
    BY <1>0, <1>1, <1>3 DEF StateInv, ExtendsSlot, FinisherHolds, DrainedStays, StartPoints
  <2> QED
    BY <2>2, <2>3 DEF StateInv
<1>6. \A s \in States : Alive(s) => Alive(s)'
  <2>1. \A q \in Callers : call[q].state \in States => call'[q].state = call[q].state
    BY <1>0, <1>2, <1>3
  <2>2. \A s \in States : activeState = s => activeState' = s
    BY <1>0, <1>1 DEF SlotAfterInsert
  <2> QED
    BY <1>1, <2>1, <2>2 DEF Alive
<1>7. QueuesKept /\ PendingKept /\ CallsKept
  BY <1>1, <1>3, <1>6, QueuesRest, PendingRests, CallsRest
<1> QED
  BY <1>1, <1>4, <1>5, <1>7, LoopKeeps

\* It puts what it took into that turn state.
LEMMA StartExtendKeeps ==
    ASSUME KeepInv, LoopInv', StartExtend("loop")
    PROVE  KeepInv'
<1> DEFINE s0 == call["loop"].state
           x == call["loop"].items
<1>0. /\ TypeOK /\ "loop" \in Callers /\ StateInv /\ LoopHands /\ None \notin States
      /\ pendingInput \in [States -> Seq(Items)] /\ x \in Seq(Items) /\ CallSound("loop")
  <2>1. call["loop"] \in Calls
    BY KeepTypes
  <2> QED
    BY <2>1, KeepTypes DEF KeepInv, Calls
<1> USE DEF stateVars, fateVars, taskVars, opVars, activeVars
<1>1. /\ call["loop"].at = "start_extend" /\ pendingInput' = Extend(s0, x)
      /\ UNCHANGED <<activeState, activeTask, nextState, finishing, pc, kind, local, history, mailbox,
                     discarded, rejected, submitted>>
  BY DEF StartExtend
<1>2. s0 \in States /\ s0 = activeState /\ call["loop"].at \in StartPoints
  BY <1>0, <1>1 DEF CallSound, StateInv, ExtendsSlot, StartPoints
<1>3. /\ \A q \in Callers : q # "loop" => call'[q] = call[q]
      /\ call'["loop"].input = call["loop"].input
      /\ call'["loop"].items = <<>>
      /\ call'["loop"].state = None /\ call'["loop"].turn = call["loop"].turn
      /\ call'["loop"].kind = call["loop"].kind /\ call'["loop"].at = "start_install"
  BY <1>0, StartExtendCall DEF Becomes, Carries
<1> HIDE DEF s0, x
<1>4. LoopHands'
  BY <1>0, <1>3 DEF LoopHands
<1>5. /\ pendingInput'[s0] = pendingInput[s0] \o x
      /\ \A s \in States : s # s0 => pendingInput'[s] = pendingInput[s]
  BY <1>0, <1>1, <1>2 DEF Extend
<1>6. /\ Elems(pendingInput[s0]) \subseteq Elems(pendingInput'[s0])
      /\ Elems(x) \subseteq Elems(pendingInput'[s0])
  <2>1. pendingInput[s0] \in Seq(Items)
    BY <1>0, <1>2
  <2> QED
    BY <1>0, <1>5, <2>1, ConcatHolds
<1>7. StateInv'
  <2>1. call'["loop"].at \in StartPoints
    BY <1>3 DEF StartPoints
  <2>2. ASSUME NEW t \in Turns, pc[t] \in Drained
        PROVE  Elems(pendingInput'[finishing[t]]) \cap Tracked = {}
    <3>1. finishing[t] \in States /\ Elems(pendingInput[finishing[t]]) \cap Tracked = {}
      BY <2>2 DEF KeepInv, StateInv, DrainedStays, LoopInv, BaseInv, TasksSound, TaskSound, Drained
    <3>2. finishing[t] # s0
      BY <1>0, <1>2 DEF StateInv, OwnState
    <3> QED
      BY <1>5, <3>1, <3>2
  <2> QED
    BY <1>0, <1>1, <1>2, <1>3, <2>1, <2>2, StatesStay
<1>8. \A s \in States : Alive(s) => Alive(s)'
  <2>1. \A s \in States, q \in Callers : call[q].state = s => call'[q].state = s \/ s = activeState
    BY <1>2, <1>3 DEF s0
  <2> QED
    BY <1>1, <2>1 DEF Alive
<1>9. PendingKept
  BY <1>5, <1>6, <1>8, PendingStays
<1>10. Elems(x) \subseteq Where'
  <2>1. \A s \in States : s = activeState => Alive(s)'
    BY <1>1 DEF Alive
  <2>2. \A s \in States : s = activeState => Elems(pendingInput'[s]) \subseteq Where'
    BY <2>1, WhereHas DEF WhereCovers
  <2> QED
    BY <1>2, <1>6, <2>2
<1>11. CallsKept
  BY <1>3, <1>10, CallsStay DEF x
<1>12. QueuesKept
  BY <1>1, QueuesRest
<1> QED
  BY <1>1, <1>4, <1>7, <1>9, <1>11, <1>12, LoopKeeps

\* start_task stores its task, with the input it was called with.
LEMMA StartInstallKeeps ==
    ASSUME KeepInv, LoopInv', StartInstall("loop")
    PROVE  KeepInv'
<1> DEFINE u == call["loop"].turn
           x == call["loop"].input
           k == call["loop"].kind
<1>0. /\ TypeOK /\ "loop" \in Callers /\ StateInv /\ LoopHands /\ RunHands /\ CallSound("loop")
      /\ None \notin States /\ None \notin Turns /\ None = 0
      /\ nextState \in Nat /\ finishing \in [Turns -> States \cup {None}]
      /\ activeState \in States \cup {None} /\ local \in [Turns -> Locals] /\ call["loop"] \in Calls
      /\ LoopOwnsSlot
  BY KeepTypes DEF KeepInv, LoopInv
<1> USE DEF stateVars, fateVars, taskVars, opVars, activeVars
<1>1. /\ call["loop"].at = "start_install" /\ CanInsert /\ Return("loop")
      /\ activeState' = SlotAfterInsert /\ nextState' = NextStateAfterInsert /\ activeTask' = u
      /\ pc' = [t \in Turns |-> CASE t = u -> "begin" [] t = activeTask /\ t # u -> "killed"
                                  [] OTHER -> pc[t]]
      /\ kind' = [kind EXCEPT ![u] = k]
      /\ local' = [local EXCEPT ![u] = [local[u] EXCEPT !.input = x]]
      /\ UNCHANGED <<finishing, history, mailbox, discarded, rejected, submitted, pendingInput>>
  BY DEF StartInstall
<1>2. /\ call["loop"].at \in StartPoints /\ call["loop"].items = <<>> /\ call["loop"].state = None
      /\ activeTask = None
  BY <1>0, <1>1 DEF LoopHands, AbortPoints, StartPoints, LoopOwnsSlot
<1>3. /\ u \in Turns /\ pc[u] = "none" /\ x \in Seq(Items) /\ k \in {"Regular", "Compact"}
      /\ x # <<>> => k = "Regular"
  BY <1>0, <1>1, <1>2 DEF CallSound, Starting, Calls, LoopHands
<1>4. local[u].input = <<>> /\ local[u].taken = <<>> /\ local[u] \in Locals
  BY <1>0, <1>3 DEF RunHands, RecordPoints
<1>5. /\ \A q \in Callers : q # "loop" => call'[q] = call[q]
      /\ call'["loop"].input = <<>> /\ call'["loop"].items = <<>> /\ call'["loop"].state = None
      /\ call'["loop"].at \in {"idle", "exited"}
  BY <1>0, <1>1, ReturnCall DEF Becomes, Carries
<1> HIDE DEF u, x, k
<1>6. LoopHands'
  BY <1>5 DEF LoopHands
<1>7. /\ pc'[u] = "begin" /\ kind'[u] = k /\ local'[u].input = x /\ local'[u].taken = <<>>
      /\ \A t \in Turns : t # u => pc'[t] = pc[t] /\ kind'[t] = kind[t] /\ local'[t] = local[t]
  <2>1. \A t \in Turns : t # activeTask
    BY <1>0, <1>2
  <2>2. pc'[u] = "begin" /\ \A t \in Turns : t # u => pc'[t] = pc[t]
    BY <1>1, <1>3, <2>1
  <2>3. kind'[u] = k /\ \A t \in Turns : t # u => kind'[t] = kind[t]
    BY <1>0, <1>1, <1>3 DEF TypeOK
  <2> DEFINE d == [local[u] EXCEPT !.input = x]
  <2>4. d.input = x /\ d.taken = <<>> /\ local' = [local EXCEPT ![u] = d]
    BY <1>1, <1>4 DEF Locals
  <2> HIDE DEF d
  <2>5. local'[u] = d /\ \A t \in Turns : t # u => local'[t] = local[t]
    BY <1>0, <1>3, <2>4
  <2> QED
    BY <2>2, <2>3, <2>4, <2>5
<1>8. RunHands'
  BY <1>0, <1>3, <1>7 DEF RunHands
<1>9. StateInv'
  <2>1. /\ activeState < nextState
        /\ \A t \in Turns : finishing'[t] < nextState /\ finishing'[t] \in Nat
        /\ activeState # None => \A t \in Turns : finishing'[t] # activeState
    BY <1>0, <1>1, <1>2 DEF StateInv, Fresh, OwnState, States
  <2>2. Fresh' /\ OwnState'
    <3>1. CASE activeState = None
      <4>1. activeState' = nextState /\ nextState' = nextState + 1
        BY <1>1, <3>1 DEF SlotAfterInsert, NextStateAfterInsert
      <4>2. \A t \in Turns : finishing'[t] < nextState + 1 /\ finishing'[t] # nextState
        BY <1>0, <2>1
      <4> QED
        BY <1>0, <4>1, <4>2 DEF Fresh, OwnState
    <3>2. CASE activeState # None
      BY <1>1, <2>1, <3>2 DEF Fresh, OwnState, SlotAfterInsert, NextStateAfterInsert
    <3> QED
      BY <3>1, <3>2
  <2>3. ExtendsSlot' /\ FinisherHolds'
    BY <1>0, <1>1, <1>3, <1>5 DEF ExtendsSlot, FinisherHolds
  <2>4. DrainedStays'
    BY <1>0, <1>1, <1>3, <1>7 DEF StateInv, DrainedStays, Drained
  <2> QED
    BY <2>2, <2>3, <2>4 DEF StateInv
<1>10. \A s \in States : Alive(s) => Alive(s)'
  <2>1. \A q \in Callers : call'[q].state = call[q].state
    BY <1>2, <1>5
  <2>2. \A s \in States : activeState = s => activeState' = s
    BY <1>0, <1>1 DEF SlotAfterInsert
  <2> QED
    BY <1>1, <2>1, <2>2 DEF Alive
<1>11. QueuesKept /\ PendingKept
  BY <1>1, <1>10, QueuesRest, PendingRests
<1>12. RunsKept
  <2>1. \A t \in Turns : pc[t] # "killed" => pc'[t] # "killed"
    BY <1>7
  <2>2. ASSUME NEW t \in Turns
        PROVE  /\ local'[t].input = local[t].input \/ Elems(local[t].input) \subseteq Where'
               /\ local'[t].taken = local[t].taken \/ Elems(local[t].taken) \subseteq Where'
    BY <1>4, <1>7, EmptySeq
  <2> QED
    BY <2>1, <2>2, RunsStay
<1>13. CallsKept
  <2>1. Elems(x) \subseteq Where'
    BY <1>3, <1>7, WhereHas DEF WhereCovers
  <2>2. Elems(call["loop"].items) \subseteq Where'
    BY <1>2, EmptySeq
  <2> QED
    BY <1>5, <2>1, <2>2, CallsStay DEF x
<1>14. NoInputLost'
  BY <1>1, <1>11, <1>12, <1>13, NothingLost DEF KeepInv
<1> QED
  BY <1>6, <1>8, <1>9, <1>14 DEF KeepInv

\* abort_all_tasks takes the turn state together with the task.
LEMMA AbortTakesKeeps ==
    ASSUME KeepInv, LoopInv', AbortAllTakesTask("loop")
    PROVE  KeepInv'
<1>0. /\ TypeOK /\ "loop" \in Callers /\ StateInv /\ LoopHands /\ None \notin States /\ None = 0
      /\ nextState \in Nat /\ call["loop"] \in Calls /\ LoopInv
  BY KeepTypes DEF KeepInv
<1> USE DEF stateVars, fateVars, taskVars, opVars, activeVars
<1>1. /\ call["loop"].at = "abort_take" /\ TakeAndCancel("loop", call["loop"].reason)
      /\ activeState' = None /\ activeTask' = None
      /\ UNCHANGED <<nextState, finishing, pc, kind, local, history, mailbox,
                     discarded, rejected, submitted, pendingInput>>
  BY DEF AbortAllTakesTask, TakeAndCancel
<1>2. call["loop"].items = <<>> /\ call["loop"].state = None
  BY <1>0, <1>1 DEF LoopHands, AbortPoints
<1>3. /\ \A q \in Callers : q # "loop" => call'[q] = call[q]
      /\ call'["loop"].input = call["loop"].input /\ call'["loop"].items = <<>>
      /\ call'["loop"].state = activeState /\ call'["loop"].turn = call["loop"].turn
      /\ call'["loop"].kind = call["loop"].kind
      /\ call'["loop"].at \in {"abort_wait", "abort_clear"}
  <2>1. call["loop"].reason \in {"none", "Replaced", "Interrupted"}
    BY <1>0 DEF Calls
  <2> QED
    BY <1>0, <1>1, <1>2, <2>1, TakeCall DEF Becomes, Carries
<1>4. LoopHands'
  BY <1>0, <1>3 DEF LoopHands, AbortPoints
<1>5. StateInv'
  <2>1. nextState > 0 /\ \A t \in Turns : finishing[t] < nextState
    BY <1>0 DEF StateInv, Fresh, TypeOK
  <2> QED
    BY <1>0, <1>1, <1>3, <2>1
    DEF StateInv, Fresh, OwnState, ExtendsSlot, FinisherHolds, DrainedStays
<1>6. \A s \in States : Alive(s) => Alive(s)'
  BY <1>0, <1>1, <1>2, <1>3 DEF Alive
<1>7. QueuesKept /\ PendingKept /\ CallsKept
  BY <1>1, <1>2, <1>3, <1>6, QueuesRest, PendingRests, CallsRest
<1> QED
  BY <1>1, <1>4, <1>5, <1>7, LoopKeeps

\* Without a task, the turn state in the slot is on_task_finished's.
LEMMA AbortFindsNoneKeeps ==
    ASSUME KeepInv, LoopInv', AbortAllFindsNoTask("loop")
    PROVE  KeepInv'
<1>0. /\ TypeOK /\ "loop" \in Callers /\ StateInv /\ LoopHands /\ None \notin States /\ None = 0
      /\ nextState \in Nat /\ CallSound("loop") /\ SlotSound
  BY KeepTypes DEF KeepInv, LoopInv, BaseInv
<1> USE DEF stateVars, fateVars, taskVars, opVars, activeVars
<1>1. /\ call["loop"].at = "abort_take" /\ ~HasActiveTask
      /\ activeState' = None /\ activeTask' = None
      /\ IF call["loop"].reason = "Replaced" THEN Goto("loop", "start_take") ELSE Return("loop")
      /\ UNCHANGED <<nextState, finishing, pc, kind, local, history, mailbox,
                     discarded, rejected, submitted, pendingInput>>
  BY DEF AbortAllFindsNoTask
<1>2. /\ call["loop"].items = <<>> /\ call["loop"].state = None
      /\ call["loop"].at \notin StartPoints /\ activeTask = None
      /\ call["loop"].reason # "Replaced" => call["loop"].input = <<>>
  BY <1>0, <1>1 DEF LoopHands, AbortPoints, StartPoints, CallSound, Starting, SlotSound, HasActiveTask
<1>3. /\ \A q \in Callers : q # "loop" => call'[q] = call[q]
      /\ \/ /\ call'["loop"].input = call["loop"].input /\ call'["loop"].turn = call["loop"].turn
            /\ call'["loop"].kind = call["loop"].kind
         \/ call'["loop"].input = <<>> /\ call["loop"].input = <<>>
      /\ call'["loop"].items = <<>> /\ call'["loop"].state = None
      /\ call'["loop"].at \in {"start_take", "idle", "exited"}
  <2>1. CASE call["loop"].reason = "Replaced"
    <3>1. Goto("loop", "start_take") /\ "start_take" \in CallPoints
      BY <1>1, <2>1 DEF CallPoints, StartPoints
    <3> QED
      BY <1>0, <1>2, <3>1, GotoCall DEF Becomes, Carries
  <2>2. CASE call["loop"].reason # "Replaced"
    BY <1>0, <1>1, <1>2, <2>2, ReturnCall DEF Becomes, Carries
  <2> QED
    BY <2>1, <2>2
<1>4. LoopHands'
  BY <1>0, <1>3 DEF LoopHands
<1>5. StateInv'
  <2>1. nextState > 0 /\ \A t \in Turns : finishing[t] < nextState
    BY <1>0 DEF StateInv, Fresh, TypeOK
  <2> QED
    BY <1>0, <1>1, <1>3, <2>1
    DEF StateInv, Fresh, OwnState, ExtendsSlot, FinisherHolds, DrainedStays
<1>6. \A s \in States : Alive(s) => Alive(s)'
  <2>1. \A q \in Callers : call'[q].state = call[q].state
    BY <1>2, <1>3
  <2>2. \A s \in States : s = activeState => \E t \in Turns : finishing[t] = s
    BY <1>0, <1>2 DEF StateInv, FinisherHolds
  <2> QED
    BY <1>1, <2>1, <2>2 DEF Alive
<1>7. QueuesKept /\ PendingKept /\ CallsKept
  BY <1>1, <1>2, <1>3, <1>6, QueuesRest, PendingRests, CallsRest
<1> QED
  BY <1>1, <1>4, <1>5, <1>7, LoopKeeps

\* The grace period is over: what the task held goes with the abort.
LEMMA AbortTimeoutKeeps ==
    ASSUME KeepInv, LoopInv', AbortTimeout("loop")
    PROVE  KeepInv'
<1> DEFINE v == call["loop"].victim
<1>0. /\ TypeOK /\ "loop" \in Callers /\ StateInv /\ LoopHands /\ RunHands /\ CallSound("loop")
      /\ None \notin States /\ local \in [Turns -> Locals] /\ pc \in [Turns -> TaskPoints]
  BY KeepTypes DEF KeepInv, TypeOK
<1> USE DEF stateVars, fateVars, taskVars, opVars, activeVars
<1>1. /\ call["loop"].at = "abort_wait" /\ Goto("loop", "abort_emit")
      /\ pc' = [pc EXCEPT ![v] = "killed"] /\ local' = [local EXCEPT ![v] = NoLocal]
      /\ discarded' = discarded \cup Elems(local[v].input) \cup Elems(local[v].taken)
      /\ UNCHANGED <<activeState, activeTask, nextState, finishing, kind, history, mailbox,
                     rejected, submitted, pendingInput>>
  BY DEF AbortTimeout
<1>2. /\ v \in Turns /\ call["loop"].items = <<>> /\ call["loop"].at \notin StartPoints
  BY <1>0, <1>1 DEF CallSound, AbortPoints, LoopHands, StartPoints
<1>3. /\ \A q \in Callers : q # "loop" => call'[q] = call[q]
      /\ call'["loop"].input = call["loop"].input /\ call'["loop"].items = call["loop"].items
      /\ call'["loop"].state = call["loop"].state /\ call'["loop"].turn = call["loop"].turn
      /\ call'["loop"].kind = call["loop"].kind /\ call'["loop"].at = "abort_emit"
  BY <1>0, <1>1, GotoCall DEF Becomes, Carries, CallPoints, AbortPoints
<1> HIDE DEF v
<1>4. LoopHands'
  BY <1>0, <1>2, <1>3 DEF LoopHands, AbortPoints
<1>5. /\ pc'[v] = "killed" /\ local'[v].input = <<>> /\ local'[v].taken = <<>>
      /\ \A t \in Turns : t # v => pc'[t] = pc[t] /\ local'[t] = local[t]
  BY <1>0, <1>1, <1>2 DEF NoLocal
<1>6. RunHands'
  BY <1>0, <1>1, <1>5 DEF RunHands
<1>7. StateInv'
  <2>1. \A t \in Turns : pc'[t] \in Drained => Elems(pendingInput'[finishing[t]]) \cap Tracked = {}
    BY <1>0, <1>1, <1>5 DEF StateInv, DrainedStays, Drained
  <2>2. call'["loop"].at \notin StartPoints /\ call'["loop"].at # "start_extend"
    BY <1>3 DEF StartPoints
  <2> QED
    BY <1>0, <1>1, <1>2, <2>1, <2>2, StatesStay
<1>8. \A s \in States : Alive(s) => Alive(s)'
  <2>1. \A q \in Callers : call'[q].state = call[q].state
    BY <1>3
  <2> QED
    BY <1>1, <2>1, AliveStays
<1>9. PendingKept
  BY <1>1, <1>8, PendingRests
<1>10. QueuesKept
  BY <1>1, QueuesStay
<1>11. CallsKept
  BY <1>3, CallsRest
<1>12. RunsKept
  <2>1. discarded' \subseteq Where'
    BY WhereHas DEF WhereCovers
  <2>2. Elems(local[v].input) \subseteq Where' /\ Elems(local[v].taken) \subseteq Where'
    BY <1>1, <2>1
  <2>3. \A t \in Turns : t # v /\ pc[t] # "killed" =>
           Elems(local[t].input) \subseteq Where' /\ Elems(local[t].taken) \subseteq Where'
    BY <1>5, WhereHas DEF WhereCovers
  <2> QED
    BY <2>2, <2>3 DEF RunsKept
<1>13. NoInputLost'
  BY <1>1, <1>9, <1>10, <1>11, <1>12, NothingLost DEF KeepInv
<1> QED
  BY <1>4, <1>6, <1>7, <1>13 DEF KeepInv

\* clear_pending: what the aborted turn had queued goes with it.
LEMMA AbortClearKeeps ==
    ASSUME KeepInv, LoopInv', AbortClear("loop")
    PROVE  KeepInv'
<1> DEFINE s0 == call["loop"].state
<1>0. /\ TypeOK /\ "loop" \in Callers /\ StateInv /\ LoopHands /\ CallSound("loop")
      /\ None \notin States /\ pendingInput \in [States -> Seq(Items)] /\ LoopOwnsSlot
  BY KeepTypes DEF KeepInv, LoopInv
<1> USE DEF stateVars, fateVars, taskVars, opVars, activeVars
<1>1. /\ call["loop"].at = "abort_clear"
      /\ discarded' = discarded \cup Elems(pendingInput[s0])
      /\ pendingInput' = [pendingInput EXCEPT ![s0] = <<>>]
      /\ UNCHANGED <<activeState, activeTask, nextState, finishing, pc, kind, local, history, mailbox,
                     rejected, submitted>>
  BY DEF AbortClear
<1>2. /\ s0 \in States /\ call["loop"].items = <<>> /\ call["loop"].at \notin StartPoints
      /\ activeState = None
  BY <1>0, <1>1 DEF CallSound, AbortPoints, LoopHands, StartPoints, LoopOwnsSlot
<1>3. /\ \A q \in Callers : q # "loop" => call'[q] = call[q]
      /\ call'["loop"].input = call["loop"].input /\ call'["loop"].items = <<>>
      /\ call'["loop"].state = None /\ call'["loop"].turn = call["loop"].turn
      /\ call'["loop"].kind = call["loop"].kind /\ call'["loop"].at \in {"start_take", "pending_check"}
  BY <1>0, <1>1, <1>2, ClearCall DEF Becomes, Carries
<1> HIDE DEF s0
<1>4. LoopHands'
  BY <1>0, <1>3 DEF LoopHands
<1>5. pendingInput'[s0] = <<>> /\ \A s \in States : s # s0 => pendingInput'[s] = pendingInput[s]
  BY <1>0, <1>1, <1>2
<1>6. \A s \in States : Elems(pendingInput'[s]) \subseteq Elems(pendingInput[s])
  BY <1>5, EmptySeq
<1>7. StateInv'
  <2>1. \A t \in Turns : pc'[t] \in Drained => Elems(pendingInput'[finishing[t]]) \cap Tracked = {}
    BY <1>1, <1>6, DrainedLess
  <2>2. call'["loop"].at # "start_extend"
    BY <1>3
  <2> QED
    BY <1>0, <1>1, <1>2, <2>1, <2>2, StatesStay
<1>8. PendingKept
  <2>1. \A s \in States : Alive(s) /\ s # s0 => Alive(s)'
    BY <1>1, <1>3 DEF Alive, s0
  <2>2. Elems(pendingInput[s0]) \subseteq Where'
    BY <1>1, WhereHas DEF WhereCovers
  <2> QED
    BY <1>5, <2>1, <2>2, PendingStays
<1>9. QueuesKept
  BY <1>1, QueuesStay
<1>10. CallsKept
  BY <1>2, <1>3, CallsRest
<1> QED
  BY <1>1, <1>4, <1>7, <1>8, <1>9, <1>10, LoopKeeps

\* What calls do.
LEMMA CallKeeps ==
    ASSUME KeepInv, LoopInv', NEW p \in Callers, CallStep(p)
    PROVE  KeepInv'
<1>1. call[p].at # "idle"
  BY DEF CallStep, PendingCheck, ReserveRefused, Reserve, StartTask, StartTake, StartDrain, StartState,
         StartExtend, StartInstall, Abort, AbortAllTakesTask, AbortAllFindsNoTask, AbortGraceful,
         AbortTimeout, AbortEmit, AbortClear, TryStartTurnIfIdle, IdleCheck, IdleReserve, IdleRecheck,
         IdleRelease, IdleConfirm, IdleExtend
<1>2. p = "loop" /\ call[p].at \in LoopPoints
  BY <1>1, KeepTypes DEF KeepInv, LoopInv, OthersIdle
<1>3. ~TryStartTurnIfIdle(p)
  BY <1>2
  DEF LoopPoints, AbortPoints, StartPoints, TryStartTurnIfIdle, IdleCheck, IdleReserve, IdleRecheck,
      IdleRelease, IdleConfirm, IdleExtend
<1> QED
  BY <1>2, <1>3, LoopWaitsKeeps, ReserveKeeps, StartTakeKeeps, StartDrainKeeps, StartStateKeeps,
     StartExtendKeeps, StartInstallKeeps, AbortTakesKeeps, AbortFindsNoneKeeps, AbortTimeoutKeeps,
     AbortClearKeeps DEF CallStep, StartTask, Abort

\* Where a run holds nothing.
HoldPoints == {"begin", "prepare", "drain_mail"} \cup RecordPoints

LEMMA EmptyHands ==
    ASSUME KeepInv, NEW t \in Turns, pc[t] \notin HoldPoints
    PROVE  local[t].input = <<>> /\ local[t].taken = <<>>
  BY DEF KeepInv, RunHands, HoldPoints, RecordPoints

\* A step of one run that takes no task out of the slot.
LEMMA OneRunKeeps ==
    ASSUME KeepInv, LoopInv', NEW t \in Turns,
           UNCHANGED <<activeState, activeTask, finishing, nextState, kind, call, submitted, rejected>>,
           \A u \in Turns : u # t => pc'[u] = pc[u] /\ local'[u] = local[u],
           pc'[t] # "killed",
           local'[t].input # <<>> => pc'[t] \in {"begin", "prepare"} /\ kind[t] = "Regular",
           local'[t].taken # <<>> => pc'[t] \in RecordPoints \cup {"drain_mail"},
           pc'[t] \in Drained => pc[t] \in Drained \/ Elems(pendingInput'[finishing[t]]) = {},
           \A s \in States : Elems(pendingInput'[s]) \subseteq Elems(pendingInput[s]),
           \A s \in States : pendingInput'[s] = pendingInput[s] \/ Elems(pendingInput[s]) \subseteq Where',
           Elems(local[t].input) \subseteq Where', Elems(local[t].taken) \subseteq Where',
           Elems(mailbox) \subseteq Elems(mailbox') \cup Where', Elems(history) \subseteq Elems(history'),
           discarded \subseteq discarded'
    PROVE  KeepInv'
<1>0. RunHands /\ LoopHands /\ StateInv
  BY DEF KeepInv
<1>1. RunHands' /\ LoopHands'
  BY <1>0 DEF RunHands, LoopHands
<1>2. StateInv'
  <2>1. ASSUME NEW u \in Turns, pc'[u] \in Drained
        PROVE  Elems(pendingInput'[finishing[u]]) \cap Tracked = {}
    <3>1. \A v \in Turns : pc[v] \in Drained => Elems(pendingInput'[finishing[v]]) \cap Tracked = {}
      BY DrainedLess
    <3> QED
      BY <2>1, <3>1
  <2> QED
    BY <1>0, <2>1, StatesStay DEF StateInv, ExtendsSlot
<1>3. \A s \in States : Alive(s) => Alive(s)'
  BY AliveStays
<1>4. PendingKept
  BY <1>3, PendingStays
<1>5. QueuesKept
  BY QueuesStay
<1>6. CallsKept
  BY CallsStay
<1>7. RunsKept
  <2>1. \A u \in Turns : u # t /\ pc[u] # "killed" =>
           Elems(local[u].input) \subseteq Where' /\ Elems(local[u].taken) \subseteq Where'
    BY WhereHas DEF WhereCovers
  <2> QED
    BY <2>1 DEF RunsKept
<1>8. NoInputLost'
  BY <1>4, <1>5, <1>6, <1>7, NothingLost DEF KeepInv
<1> QED
  BY <1>1, <1>2, <1>8 DEF KeepInv

\* A run that touches no queue, or drops its input with the turn.
LEMMA RunQuietKeeps ==
    ASSUME KeepInv, LoopInv', NEW t \in Turns,
           UNCHANGED <<activeState, activeTask, finishing, nextState, kind, call, submitted, rejected,
                       pendingInput, mailbox, history>>,
           discarded \subseteq discarded', pc'[t] # "killed",
           \A u \in Turns : u # t => pc'[u] = pc[u] /\ local'[u] = local[u],
           local'[t].taken = local[t].taken /\ local'[t].taken = <<>>,
           \/ local'[t].input = local[t].input
           \/ local'[t].input = <<>> /\ Elems(local[t].input) \subseteq discarded',
           local'[t].input # <<>> => pc'[t] \in {"begin", "prepare"} /\ kind[t] = "Regular",
           pc'[t] \in Drained => pc[t] \in Drained
    PROVE  KeepInv'
<1>1. Elems(local[t].taken) \subseteq Where'
  BY EmptySeq
<1>2. Elems(local[t].input) \subseteq Where'
  BY WhereHas DEF WhereCovers
<1> QED
  BY <1>1, <1>2, OneRunKeeps

\* Steps of a run that take and record nothing.
LEMMA RunQuietSteps ==
    ASSUME KeepInv, LoopInv', NEW t \in Turns,
           \/ TaskBegin(t) \/ CompactRuns(t) \/ PrepareFails(t)
           \/ SampleToolCall(t) \/ SampleAnswer(t) \/ SampleFails(t) \/ RequestApproval(t)
           \/ ApprovalResolves(t) \/ ObserveCancel(t) \/ PostSampling(t) \/ OuterLoop(t)
           \/ FinishCheck(t) \/ FinishEmit(t)
    PROVE  KeepInv'
<1>0. /\ TypeOK /\ local[t] \in Locals /\ local \in [Turns -> Locals] /\ pc \in [Turns -> TaskPoints]
      /\ kind[t] \in {"Regular", "Compact"} /\ RunHands
  BY KeepTypes DEF KeepInv, TypeOK
<1>1. NoLocal.input = <<>> /\ NoLocal.taken = <<>>
  BY DEF NoLocal
<1> USE DEF stateVars, fateVars, taskVars, opVars, activeVars
<1>2. UNCHANGED <<activeState, activeTask, finishing, nextState, kind, call, submitted, rejected,
                  pendingInput, mailbox, history>>
  BY DEF TaskBegin, CompactRuns, PrepareFails, SampleToolCall, SampleAnswer, SampleFails,
         RequestApproval, ApprovalResolves, ObserveCancel, PostSampling, OuterLoop, FinishCheck,
         FinishEmit
<1>3. \A a : At(t, a) => pc'[t] = a /\ \A u \in Turns : u # t => pc'[u] = pc[u]
  BY <1>0 DEF At
<1>4. \A d : local' = [local EXCEPT ![t] = d] =>
         local'[t] = d /\ \A u \in Turns : u # t => local'[u] = local[u]
  BY <1>0
<1>5. pc[t] \notin HoldPoints => local[t].input = <<>> /\ local[t].taken = <<>>
  BY EmptyHands
<1>6. CASE TaskBegin(t)
  <2>1. /\ pc[t] = "begin" /\ UNCHANGED <<local, discarded>>
        /\ At(t, IF kind[t] = "Compact" THEN "compacting" ELSE "prepare")
    BY <1>6 DEF TaskBegin
  <2>2. /\ pc'[t] \in {"compacting", "prepare"} /\ (pc'[t] = "prepare" <=> kind[t] # "Compact")
        /\ \A u \in Turns : u # t => pc'[u] = pc[u]
    BY <1>3, <2>1
  <2>3. local[t].taken = <<>> /\ (local[t].input # <<>> => kind[t] = "Regular")
    BY <1>0, <2>1 DEF RunHands, RecordPoints
  <2> QED
    BY <1>2, <2>1, <2>2, <2>3, RunQuietKeeps DEF Drained
<1>7. CASE CompactRuns(t) \/ (OuterLoop(t) /\ ~UNCHANGED local)
  <2>1. pc[t] \in {"compacting", "outer"} /\ EndRun(t) /\ UNCHANGED discarded
    BY <1>7 DEF CompactRuns, OuterLoop
  <2>2. /\ pc'[t] = "finish" /\ \A u \in Turns : u # t => pc'[u] = pc[u] /\ local'[u] = local[u]
        /\ local'[t].input = <<>> /\ local'[t].taken = <<>>
    BY <1>1, <1>3, <1>4, <2>1 DEF EndRun
  <2>3. local[t].input = <<>> /\ local[t].taken = <<>>
    BY <1>5, <2>1 DEF HoldPoints, RecordPoints
  <2> QED
    BY <1>2, <2>1, <2>2, <2>3, RunQuietKeeps DEF Drained
<1>8. CASE ObserveCancel(t)
  <2>1. /\ pc[t] \in {"prepare", "sample", "waiting"} /\ EndRun(t)
        /\ discarded' = discarded \cup Elems(local[t].input)
    BY <1>8 DEF ObserveCancel
  <2>2. /\ pc'[t] = "finish" /\ \A u \in Turns : u # t => pc'[u] = pc[u] /\ local'[u] = local[u]
        /\ local'[t].input = <<>> /\ local'[t].taken = <<>>
    BY <1>1, <1>3, <1>4, <2>1 DEF EndRun
  <2>3. local[t].taken = <<>>
    BY <1>0, <2>1 DEF RunHands, RecordPoints
  <2> QED
    BY <1>2, <2>1, <2>2, <2>3, RunQuietKeeps DEF Drained
<1>9. CASE PrepareFails(t)
  <2> DEFINE d == [local[t] EXCEPT !.input = <<>>, !.steps = local[t].steps + 1]
  <2>1. /\ local' = [local EXCEPT ![t] = d] /\ pc[t] = "prepare" /\ At(t, "outer")
        /\ discarded' = discarded \cup Elems(local[t].input)
    BY <1>9 DEF PrepareFails
  <2>2. d.input = <<>> /\ d.taken = local[t].taken
    BY <1>0 DEF Locals
  <2> HIDE DEF d
  <2>3. /\ pc'[t] = "outer" /\ \A u \in Turns : u # t => pc'[u] = pc[u] /\ local'[u] = local[u]
        /\ local'[t].input = <<>> /\ local'[t].taken = local[t].taken
    BY <1>3, <1>4, <2>1, <2>2
  <2>4. local[t].taken = <<>>
    BY <1>0, <2>1 DEF RunHands, RecordPoints
  <2> QED
    BY <1>2, <2>1, <2>3, <2>4, RunQuietKeeps DEF Drained
<1>10. ASSUME pc[t] \notin HoldPoints, UNCHANGED discarded, NEW a, At(t, a), a # "killed",
              a \in Drained => pc[t] \in Drained,
              \/ UNCHANGED local
              \/ \E d : /\ local' = [local EXCEPT ![t] = d]
                        /\ d.input = local[t].input /\ d.taken = local[t].taken
       PROVE  KeepInv'
  <2>1. local[t].input = <<>> /\ local[t].taken = <<>>
    BY <1>5, <1>10
  <2>2. /\ pc'[t] = a /\ \A u \in Turns : u # t => pc'[u] = pc[u] /\ local'[u] = local[u]
        /\ local'[t].input = <<>> /\ local'[t].taken = <<>>
    BY <1>3, <1>4, <1>10, <2>1
  <2> QED
    BY <1>2, <1>10, <2>1, <2>2, RunQuietKeeps
<1>11. CASE RequestApproval(t) \/ FinishCheck(t) \/ FinishEmit(t) \/ (OuterLoop(t) /\ UNCHANGED local)
  <2>1. /\ pc[t] \in {"approve", "finish", "fin_emit", "outer"} /\ UNCHANGED <<local, discarded>>
        /\ \E a \in {"waiting", "done", "fin_lock", "fin_clear", "finish", "prepare"} :
              At(t, a) /\ (a = "fin_clear" => pc[t] = "fin_emit")
    <3>1. CASE RequestApproval(t)
      BY <3>1 DEF RequestApproval
    <3>2. CASE FinishCheck(t)
      BY <3>2 DEF FinishCheck
    <3>3. CASE FinishEmit(t)
      BY <3>3 DEF FinishEmit
    <3>4. CASE OuterLoop(t) /\ UNCHANGED local
      BY <3>4 DEF OuterLoop, EndRun
    <3> QED
      BY <1>11, <3>1, <3>2, <3>3, <3>4
  <2>2. pc[t] \notin HoldPoints
    BY <2>1 DEF HoldPoints, RecordPoints
  <2> QED
    BY <1>10, <2>1, <2>2 DEF Drained
<1>12. CASE SampleAnswer(t) \/ ApprovalResolves(t)
  <2>1. /\ \/ local' = [local EXCEPT ![t] = [local[t] EXCEPT !.followUp = FALSE]]
           \/ local' = [local EXCEPT ![t] = [local[t] EXCEPT !.decision = FALSE]]
        /\ pc[t] \in {"sample", "waiting"} /\ At(t, "post") /\ UNCHANGED discarded
    BY <1>12 DEF SampleAnswer, ApprovalResolves
  <2>2. ASSUME NEW d, \/ d = [local[t] EXCEPT !.followUp = FALSE]
                      \/ d = [local[t] EXCEPT !.decision = FALSE]
        PROVE  d.input = local[t].input /\ d.taken = local[t].taken
    BY <1>0, <2>2 DEF Locals
  <2>3. pc[t] \notin HoldPoints
    BY <2>1 DEF HoldPoints, RecordPoints
  <2> QED
    BY <1>10, <2>1, <2>2, <2>3 DEF Drained
<1>13. CASE SampleToolCall(t) \/ SampleFails(t)
  <2>1. /\ \/ local' = [local EXCEPT ![t] =
                           [local[t] EXCEPT !.steps = local[t].steps + 1, !.followUp = TRUE]]
           \/ local' = [local EXCEPT ![t] = [local[t] EXCEPT !.steps = local[t].steps + 1]]
           \/ UNCHANGED local
        /\ pc[t] = "sample" /\ UNCHANGED discarded
        /\ \E a \in {"post", "approve", "outer", "drain"} : At(t, a)
    BY <1>13 DEF SampleToolCall, SampleFails
  <2>2. ASSUME NEW d, \/ d = [local[t] EXCEPT !.steps = local[t].steps + 1, !.followUp = TRUE]
                      \/ d = [local[t] EXCEPT !.steps = local[t].steps + 1]
        PROVE  d.input = local[t].input /\ d.taken = local[t].taken
    BY <1>0, <2>2 DEF Locals
  <2>3. pc[t] \notin HoldPoints
    BY <2>1 DEF HoldPoints, RecordPoints
  <2> QED
    BY <1>10, <2>1, <2>2, <2>3 DEF Drained
<1>14. CASE PostSampling(t)
  <2>1. /\ \/ \E b \in BOOLEAN \cup {~local[t].followUp} :
                 local' = [local EXCEPT ![t] = [local[t] EXCEPT !.canDrain = b]]
           \/ local' = [local EXCEPT ![t] = [local[t] EXCEPT !.canDrain = TRUE,
                                                             !.steps = local[t].steps + 1]]
           \/ UNCHANGED local
        /\ pc[t] = "post" /\ UNCHANGED discarded
        /\ At(t, "drain") \/ At(t, "outer")
    BY <1>14, Zenon DEF PostSampling
  <2>2. ASSUME NEW d, NEW b, \/ d = [local[t] EXCEPT !.canDrain = b]
                             \/ d = [local[t] EXCEPT !.canDrain = TRUE, !.steps = local[t].steps + 1]
        PROVE  d.input = local[t].input /\ d.taken = local[t].taken
    BY <1>0, <2>2 DEF Locals
  <2>3. pc[t] \notin HoldPoints
    BY <2>1 DEF HoldPoints, RecordPoints
  <2> QED
    BY <1>10, <2>1, <2>2, <2>3 DEF Drained
<1> QED
  BY <1>6, <1>7, <1>8, <1>9, <1>11, <1>12, <1>13, <1>14

\* The turn's own input, and what get_pending_input returns.
LEMMA RunTakesKeep ==
    ASSUME KeepInv, LoopInv', NEW t \in Turns, Prepare(t) \/ DrainTake(t) \/ DrainMail(t)
    PROVE  KeepInv'
<1>0. /\ TypeOK /\ local[t] \in Locals /\ local \in [Turns -> Locals] /\ pc \in [Turns -> TaskPoints]
      /\ RunHands /\ None \notin States /\ activeState \in States \cup {None}
      /\ local[t].taken \in Seq(Items) /\ mailbox \in Seq(Items)
  BY KeepTypes, LocalIs, MailsAreItems DEF KeepInv, TypeOK
<1> USE DEF stateVars, fateVars, taskVars, opVars, activeVars
<1>1. UNCHANGED <<activeState, activeTask, finishing, nextState, kind, call, submitted, rejected,
                  discarded, history>>
  BY DEF Prepare, DrainTake, DrainMail
<1>2. \A a : At(t, a) => pc'[t] = a /\ \A u \in Turns : u # t => pc'[u] = pc[u]
  BY <1>0 DEF At
<1>3. \A d : local' = [local EXCEPT ![t] = d] =>
         local'[t] = d /\ \A u \in Turns : u # t => local'[u] = local[u]
  BY <1>0
<1>4. ASSUME NEW x, NEW d, d = [local[t] EXCEPT !.taken = x]
      PROVE  d.input = local[t].input /\ d.taken = x
  BY <1>0, <1>4 DEF Locals
<1>5. pc'[t] # "killed" =>
         Elems(local'[t].input) \subseteq Where' /\ Elems(local'[t].taken) \subseteq Where'
  BY WhereHas DEF WhereCovers
<1>6. CASE Prepare(t)
  <2> DEFINE d == [local[t] EXCEPT !.canDrain = (local[t].input = <<>>),
                                   !.taken = local[t].input, !.input = <<>>]
  <2>1. /\ local' = [local EXCEPT ![t] = d] /\ pc[t] = "prepare" /\ At(t, "record_input")
        /\ UNCHANGED <<pendingInput, mailbox>>
    BY <1>6 DEF Prepare
  <2>2. d.input = <<>> /\ d.taken = local[t].input
    BY <1>0 DEF Locals
  <2> HIDE DEF d
  <2>3. /\ pc'[t] = "record_input" /\ \A u \in Turns : u # t => pc'[u] = pc[u] /\ local'[u] = local[u]
        /\ local'[t].input = <<>> /\ local'[t].taken = local[t].input
    BY <1>2, <1>3, <2>1, <2>2
  <2>4. local[t].taken = <<>>
    BY <1>0, <2>1 DEF RunHands, RecordPoints
  <2>5. /\ Elems(local[t].taken) \subseteq Where' /\ Elems(local[t].input) \subseteq Where'
        /\ pc'[t] \in RecordPoints /\ pc'[t] \notin Drained
    BY <1>5, <2>3, <2>4, EmptySeq DEF RecordPoints, Drained
  <2> QED
    BY <1>1, <2>1, <2>3, <2>5, OneRunKeeps
<1>7. CASE DrainTake(t)
  <2>1. pc[t] = "drain" /\ UNCHANGED mailbox
    BY <1>7 DEF DrainTake
  <2>2. local[t].input = <<>> /\ local[t].taken = <<>>
    BY <2>1, EmptyHands DEF HoldPoints, RecordPoints
  <2>3. Elems(local[t].input) = {} /\ Elems(local[t].taken) = {}
    BY <2>2, EmptySeq
  <2>4. CASE ~local[t].canDrain
    <3>1. /\ pc'[t] = "sample" /\ UNCHANGED <<local, pendingInput>>
          /\ \A u \in Turns : u # t => pc'[u] = pc[u]
      BY <1>2, <1>7, <2>4 DEF DrainTake
    <3> QED
      BY <1>1, <2>1, <2>2, <2>3, <3>1, OneRunKeeps DEF Drained
  <2>5. CASE local[t].canDrain
    <3>1. /\ local' = [local EXCEPT ![t] = [local[t] EXCEPT !.taken = ActivePending]]
          /\ pendingInput' = PendingAfterTake
          /\ At(t, IF AcceptsMailbox THEN "drain_mail" ELSE "record")
      BY <1>7, <2>5 DEF DrainTake
    <3>2. /\ local'[t].input = <<>> /\ local'[t].taken = ActivePending
          /\ \A u \in Turns : u # t => local'[u] = local[u]
      <4> DEFINE d == [local[t] EXCEPT !.taken = ActivePending]
      <4>1. d.input = local[t].input /\ d.taken = ActivePending
        BY <1>4
      <4>2. local' = [local EXCEPT ![t] = d]
        BY <3>1
      <4> HIDE DEF d
      <4> QED
        BY <1>3, <2>2, <4>1, <4>2
    <3>3. pc'[t] \in {"drain_mail", "record"} /\ \A u \in Turns : u # t => pc'[u] = pc[u]
      BY <1>2, <3>1
    <3>4. /\ \A s \in States : s # activeState => pendingInput'[s] = pendingInput[s]
          /\ activeState \in States =>
                pendingInput'[activeState] = <<>> /\ ActivePending = pendingInput[activeState]
      BY <1>0, <3>1, TakeLeaves
    <3>5. /\ \A s \in States : Elems(pendingInput'[s]) \subseteq Elems(pendingInput[s])
          /\ \A s \in States : pendingInput'[s] = pendingInput[s] \/ Elems(pendingInput[s]) \subseteq Where'
      BY <1>5, <3>2, <3>3, <3>4, EmptySeq
    <3>6. pc'[t] \in RecordPoints \cup {"drain_mail"} /\ pc'[t] \notin Drained /\ pc'[t] # "killed"
      BY <3>3 DEF RecordPoints, Drained
    <3> QED
      BY <1>1, <2>1, <2>3, <3>2, <3>3, <3>5, <3>6, OneRunKeeps
  <2> QED
    BY <2>4, <2>5
<1>8. CASE DrainMail(t)
  <2> DEFINE d == [local[t] EXCEPT !.taken = local[t].taken \o mailbox]
  <2>1. /\ local' = [local EXCEPT ![t] = d]
        /\ mailbox' = <<>> /\ UNCHANGED pendingInput /\ pc[t] = "drain_mail" /\ At(t, "record")
    BY <1>8 DEF DrainMail
  <2>7. d.input = local[t].input /\ d.taken = local[t].taken \o mailbox
    BY <1>4
  <2> HIDE DEF d
  <2>2. /\ local'[t].input = local[t].input /\ local'[t].taken = local[t].taken \o mailbox
        /\ \A u \in Turns : u # t => local'[u] = local[u]
    BY <1>3, <2>1, <2>7
  <2>3. pc'[t] = "record" /\ \A u \in Turns : u # t => pc'[u] = pc[u]
    BY <1>2, <2>1
  <2>4. local[t].input = <<>>
    BY <1>0, <2>1 DEF RunHands
  <2>5. Elems(local[t].taken) \subseteq Where' /\ Elems(mailbox) \subseteq Where'
    <3>1. Elems(local[t].taken \o mailbox) \subseteq Where'
      BY <1>5, <2>2, <2>3
    <3> QED
      BY <1>0, <3>1, ConcatHolds
  <2>6. /\ Elems(local[t].input) \subseteq Where' /\ pc'[t] \in RecordPoints /\ pc'[t] \notin Drained
    BY <2>3, <2>4, EmptySeq DEF RecordPoints, Drained
  <2> QED
    BY <1>1, <2>1, <2>2, <2>3, <2>4, <2>5, <2>6, OneRunKeeps
<1> QED
  BY <1>6, <1>7, <1>8

\* A sequence is its first item and the rest.
LEMMA HeadAndTail ==
    ASSUME NEW s \in Seq(Items), s # <<>>
    PROVE  Elems(s) \subseteq {Head(s)} \cup Elems(Tail(s)) /\ Head(s) \in Items
<1>1. /\ Len(s) \in Nat /\ Len(s) >= 1 /\ DOMAIN s = 1 .. Len(s) /\ Head(s) = s[1]
      /\ DOMAIN Tail(s) = 1 .. Len(s) - 1 /\ \A i \in 1 .. Len(s) - 1 : Tail(s)[i] = s[i + 1]
  OBVIOUS
<1>2. ASSUME NEW i \in 1 .. Len(s)
      PROVE  s[i] = Head(s) \/ \E j \in 1 .. Len(s) - 1 : Tail(s)[j] = s[i]
  <2>1. CASE i = 1
    BY <1>1, <2>1
  <2>2. CASE i # 1
    <3>1. i - 1 \in 1 .. Len(s) - 1 /\ (i - 1) + 1 = i
      BY <1>1, <2>2
    <3>2. Tail(s)[i - 1] = s[i]
      BY <1>1, <3>1
    <3> QED
      BY <3>1, <3>2
  <2> QED
    BY <2>1, <2>2
<1>3. ASSUME NEW e \in Elems(s)
      PROVE  e = Head(s) \/ e \in Elems(Tail(s))
  <2>1. PICK i \in 1 .. Len(s) : e = s[i]
    BY <1>1 DEF Elems
  <2>2. CASE \E j \in 1 .. Len(s) - 1 : Tail(s)[j] = s[i]
    BY <1>1, <2>1, <2>2 DEF Elems
  <2> QED
    BY <1>2, <2>1, <2>2
<1>4. Head(s) \in Items
  BY <1>1
<1> QED
  BY <1>3, <1>4

\* Items are recorded or blocked one by one.
LEMMA RunRecordsKeep ==
    ASSUME KeepInv, LoopInv', NEW t \in Turns, RecordItem(t) \/ BlockItem(t) \/ RecordEnds(t)
    PROVE  KeepInv'
<1> DEFINE x == local[t].taken
<1>0. /\ TypeOK /\ local[t] \in Locals /\ local \in [Turns -> Locals] /\ pc \in [Turns -> TaskPoints]
      /\ RunHands /\ x \in Seq(Items) /\ history \in Seq(Items)
  BY KeepTypes, LocalIs DEF KeepInv, TypeOK
<1> USE DEF stateVars, fateVars, taskVars, opVars, activeVars
<1>1. /\ UNCHANGED <<activeState, activeTask, finishing, nextState, kind, call, submitted, rejected,
                     mailbox, pendingInput>>
      /\ pc[t] \in RecordPoints
  BY DEF RecordItem, BlockItem, RecordEnds
<1>2. local[t].input = <<>> /\ Elems(local[t].input) = {}
  BY <1>0, <1>1, EmptySeq DEF RunHands, RecordPoints
<1>3. \A d : local' = [local EXCEPT ![t] = d] =>
         local'[t] = d /\ \A u \in Turns : u # t => local'[u] = local[u]
  BY <1>0
<1>4. ASSUME NEW v, x # <<>>, UNCHANGED pc,
             local' = [local EXCEPT ![t] = [local[t] EXCEPT !.taken = Tail(x), !.verdict = v]],
             Elems(history) \subseteq Elems(history'), discarded \subseteq discarded',
             Head(x) \in Where'
      PROVE  KeepInv'
  <2> DEFINE d == [local[t] EXCEPT !.taken = Tail(x), !.verdict = v]
  <2>1. d.input = <<>> /\ d.taken = Tail(x) /\ local' = [local EXCEPT ![t] = d]
    BY <1>0, <1>2, <1>4 DEF Locals
  <2> HIDE DEF d
  <2>2. /\ local'[t].input = <<>> /\ local'[t].taken = Tail(x)
        /\ \A u \in Turns : u # t => local'[u] = local[u]
    BY <1>3, <2>1
  <2> HIDE DEF x
  <2>3. pc'[t] # "killed" /\ pc'[t] \in RecordPoints
    BY <1>1, <1>4 DEF RecordPoints
  <2>4. Elems(Tail(x)) \subseteq Where'
    <3>1. Elems(local'[t].taken) \subseteq Where'
      BY <2>3, WhereHas DEF WhereCovers
    <3> QED
      BY <2>2, <3>1
  <2>5. Elems(x) \subseteq Where'
    BY <1>0, <1>4, <2>4, HeadAndTail
  <2> QED
    BY <1>1, <1>2, <1>4, <2>2, <2>3, <2>5, OneRunKeeps DEF x
<1>5. CASE RecordItem(t)
  <2> DEFINE v == IF Head(x) \in UserPrompts THEN "accepted" ELSE local[t].verdict
  <2>1. /\ local' = [local EXCEPT ![t] = [local[t] EXCEPT !.taken = Tail(x), !.verdict = v]]
        /\ x # <<>> /\ UNCHANGED <<pc, discarded>> /\ history' = Append(history, Head(x))
    BY <1>5 DEF RecordItem
  <2> HIDE DEF v, x
  <2>2. Head(x) \in Items
    BY <1>0, <2>1, HeadAndTail
  <2>3. Elems(history') = Elems(history) \cup {Head(x)}
    <3>1. history' = history \o <<Head(x)>> /\ <<Head(x)>> \in Seq(Items)
      BY <1>0, <2>1, <2>2, AppendSeq
    <3>2. Elems(history') = Elems(history) \cup Elems(<<Head(x)>>)
      BY <1>0, <3>1, ConcatSeq
    <3> QED
      BY <3>2, OneSeq
  <2>4. Head(x) \in Where'
    BY <2>3, WhereHas DEF WhereCovers
  <2> QED
    BY <1>4, <2>1, <2>3, <2>4
<1>6. CASE BlockItem(t)
  <2> DEFINE v == IF local[t].verdict = "accepted" THEN "accepted" ELSE "blocked"
  <2>1. /\ local' = [local EXCEPT ![t] = [local[t] EXCEPT !.taken = Tail(x), !.verdict = v]]
        /\ x # <<>> /\ UNCHANGED <<pc, history>> /\ discarded' = discarded \cup {Head(x)}
    BY <1>6 DEF BlockItem
  <2> HIDE DEF v, x
  <2>2. Head(x) \in Where'
    BY <2>1, WhereHas DEF WhereCovers
  <2> QED
    BY <1>4, <2>1, <2>2
<1>7. CASE RecordEnds(t)
  <2> DEFINE d == [local[t] EXCEPT !.verdict = "none"]
  <2>1. /\ local' = [local EXCEPT ![t] = d] /\ x = <<>> /\ UNCHANGED <<history, discarded>>
        /\ \E a \in {"fin_emit", "outer", "drain", "sample"} :
              At(t, a) /\ (a = "fin_emit" => pc[t] = "fin_record")
    BY <1>7 DEF RecordEnds
  <2>2. d.input = <<>> /\ d.taken = <<>>
    BY <1>0, <1>2, <2>1 DEF Locals
  <2> HIDE DEF d
  <2>3. /\ local'[t].input = <<>> /\ local'[t].taken = <<>>
        /\ \A u \in Turns : u # t => local'[u] = local[u]
    BY <1>3, <2>1, <2>2
  <2>4. /\ \A u \in Turns : u # t => pc'[u] = pc[u]
        /\ pc'[t] \in {"fin_emit", "outer", "drain", "sample"}
        /\ pc'[t] = "fin_emit" => pc[t] = "fin_record"
    BY <1>0, <2>1 DEF At
  <2>5. (pc'[t] \in Drained => pc[t] \in Drained) /\ pc'[t] # "killed"
    BY <2>4 DEF Drained
  <2> QED
    BY <1>1, <1>2, <2>1, <2>3, <2>4, <2>5, RunQuietKeeps
<1> QED
  BY <1>5, <1>6, <1>7

\* A task holds no turn state before on_task_finished takes one.
NotTakenYet == \A t \in Turns : pc[t] \in Working \cup {"none"} => finishing[t] = None

LEMMA NotTakenYetNext ==
    ASSUME BaseInv, NotTakenYet, [Next]_vars
    PROVE  NotTakenYet'
<1>0. TypeOK /\ pc \in [Turns -> TaskPoints] /\ finishing \in [Turns -> States \cup {None}]
  BY DEF BaseInv, TypeOK
<1> USE DEF stateVars, fateVars, taskVars, opVars, activeVars
<1>1. ASSUME UNCHANGED <<pc, finishing>>
      PROVE  NotTakenYet'
  BY <1>1 DEF NotTakenYet
<1>2. CASE ClientStep
  <2>1. UNCHANGED <<pc, finishing>>
    BY <1>2 DEF ClientStep, UserInputSteers, UserInputRejected, UserInputStartsTurn, Compact, Interrupt,
                Shutdown, InterAgentCommunication, SteerInput, InjectNoNewTurn, OfferIdleWork,
                NotifyApproval, AbortTurnIfActive, TakeAndCancel
  <2> QED
    BY <1>1, <2>1
<1>3. ASSUME NEW p \in Callers, CallStep(p)
      PROVE  NotTakenYet'
  <2>1. CASE StartInstall(p)
    <3>1. /\ call[p].at = "start_install" /\ UNCHANGED finishing
          /\ pc' = [t \in Turns |-> CASE t = call[p].turn -> "begin"
                                      [] t = activeTask /\ t # call[p].turn -> "killed"
                                      [] OTHER -> pc[t]]
      BY <2>1 DEF StartInstall
    <3>2. call[p].turn # None /\ pc[call[p].turn] = "none"
      BY <3>1 DEF BaseInv, CallsSound, CallSound, Starting, StartPoints
    <3>3. \A t \in Turns : /\ pc'[t] \in {"begin", "killed", pc[t]}
                           /\ pc'[t] = "begin" => t = call[p].turn \/ pc[t] = "begin"
      BY <3>1
    <3>4. "killed" \notin Working \cup {"none"} /\ "begin" \in Working
      BY DEF Working, RunPoints
    <3> QED
      BY <3>1, <3>2, <3>3, <3>4 DEF NotTakenYet
  <2>2. CASE AbortTimeout(p)
    <3>1. pc' = [pc EXCEPT ![call[p].victim] = "killed"] /\ UNCHANGED finishing
      BY <2>2 DEF AbortTimeout
    <3>2. "killed" \notin Working \cup {"none"}
      BY DEF Working, RunPoints
    <3> QED
      BY <1>0, <3>1, <3>2 DEF NotTakenYet
  <2>3. CASE ~StartInstall(p) /\ ~AbortTimeout(p)
    <3>1. UNCHANGED <<pc, finishing>>
      BY <1>3, <2>3
      DEF CallStep, PendingCheck, ReserveRefused, Reserve, StartTask, StartTake, StartDrain, StartState,
          StartExtend, Abort, AbortAllTakesTask, TakeAndCancel, AbortAllFindsNoTask, AbortGraceful,
          AbortEmit, AbortClear, TryStartTurnIfIdle, IdleCheck, IdleReserve, IdleRecheck,
          IdleRelease, IdleConfirm, IdleExtend
    <3> QED
      BY <1>1, <3>1
  <2> QED
    BY <2>1, <2>2, <2>3
<1>4. ASSUME NEW t \in Turns, RunStep(t)
      PROVE  NotTakenYet'
  <2>1. /\ \A u \in Turns : u # t => pc'[u] = pc[u]
        /\ \/ pc[t] \in RunPoints
           \/ pc[t] = "fin_record" /\ pc'[t] \in {"fin_record", "fin_emit"}
        /\ UNCHANGED finishing
    BY <1>0, <1>4, RunTypes DEF RunMoves, RunVars
  <2>2. "fin_record" \notin Working \cup {"none"} /\ "fin_emit" \notin Working \cup {"none"}
    BY DEF Working, RunPoints
  <2> QED
    BY <2>1, <2>2 DEF NotTakenYet, Working
<1>5. ASSUME NEW t \in Turns, FinishStep(t)
      PROVE  NotTakenYet'
  <2>1. /\ \E a \in {"done", "fin_lock", "fin_take", "fin_record", "fin_clear"} :
              pc' = [pc EXCEPT ![t] = a] /\ (a = "fin_lock" => pc[t] = "finish" /\ UNCHANGED finishing)
        /\ UNCHANGED finishing \/ \E s : finishing' = [finishing EXCEPT ![t] = s]
    <3>1. CASE FinishCheck(t)
      BY <3>1 DEF FinishCheck, At
    <3>2. CASE FinishTake(t)
      BY <3>2 DEF FinishTake, At
    <3>3. CASE FinishTakePending(t) \/ FinishEmit(t)
      BY <3>3 DEF FinishTakePending, FinishEmit, At
    <3>4. CASE FinishClear(t)
      BY <3>4 DEF FinishClear, At
    <3> QED
      BY <1>5, <3>1, <3>2, <3>3, <3>4 DEF FinishStep
  <2>2. /\ \A u \in Turns : u # t => pc'[u] = pc[u] /\ finishing'[u] = finishing[u]
        /\ pc'[t] \in {"done", "fin_lock", "fin_take", "fin_record", "fin_clear"}
        /\ pc'[t] = "fin_lock" => pc[t] = "finish" /\ finishing'[t] = finishing[t]
    BY <1>0, <2>1
  <2>3. "finish" \in Working
        /\ {"done", "fin_take", "fin_record", "fin_clear"} \cap (Working \cup {"none"}) = {}
    BY DEF Working, RunPoints
  <2> QED
    BY <2>2, <2>3 DEF NotTakenYet
<1> QED
  BY <1>1, <1>2, <1>3, <1>4, <1>5 DEF Next, TaskStep, vars

\* on_task_finished takes the turn state in the slot.
LEMMA FinishTakeKeeps ==
    ASSUME KeepInv, LoopInv', NotTakenYet, NEW t \in Turns, FinishTake(t)
    PROVE  KeepInv'
<1>0. /\ TypeOK /\ StateInv /\ RunHands /\ LoopHands /\ LoopOwnsSlot /\ pc \in [Turns -> TaskPoints]
      /\ finishing \in [Turns -> States \cup {None}] /\ None \notin States
  BY KeepTypes DEF KeepInv, LoopInv, TypeOK
<1> USE DEF stateVars, fateVars, taskVars, opVars, activeVars
<1>1. /\ pc[t] = "fin_lock"
      /\ UNCHANGED <<activeState, nextState, kind, local, call, submitted, rejected, discarded,
                     pendingInput, mailbox, history>>
      /\ \/ HasActiveTask /\ finishing' = [finishing EXCEPT ![t] = activeState] /\ activeTask' = None
         \/ UNCHANGED <<finishing, activeTask>>
      /\ \E a \in {"fin_take", "done"} : At(t, a)
  BY DEF FinishTake
<1>2. /\ pc'[t] \in {"fin_take", "done"} /\ \A u \in Turns : u # t => pc'[u] = pc[u]
      /\ finishing[t] = None /\ pc'[t] \notin Drained
  BY <1>0, <1>1 DEF At, NotTakenYet, Working, Drained
<1>3. local[t].input = <<>> /\ local[t].taken = <<>>
  BY <1>1, EmptyHands DEF HoldPoints, RecordPoints
<1>4. RunHands' /\ LoopHands'
  BY <1>0, <1>1, <1>2, <1>3 DEF RunHands, LoopHands
<1>5. StateInv'
  <2>1. CASE UNCHANGED <<finishing, activeTask>>
    <3>1. \A u \in Turns : pc'[u] \in Drained => Elems(pendingInput'[finishing[u]]) \cap Tracked = {}
      BY <1>0, <1>1, <1>2 DEF StateInv, DrainedStays
    <3> QED
      BY <1>0, <1>1, <2>1, <3>1, StatesStay DEF StateInv, ExtendsSlot
  <2>2. CASE HasActiveTask /\ finishing' = [finishing EXCEPT ![t] = activeState] /\ activeTask' = None
    <3>1. /\ finishing'[t] = activeState /\ \A u \in Turns : u # t => finishing'[u] = finishing[u]
          /\ call["loop"].at \notin StartPoints
      BY <1>0, <2>2 DEF HasActiveTask, LoopOwnsSlot
    <3>2. Fresh' /\ OwnState' /\ ExtendsSlot' /\ FinisherHolds'
      BY <1>0, <1>1, <2>2, <3>1 DEF StateInv, Fresh, OwnState, ExtendsSlot, FinisherHolds
    <3>3. DrainedStays'
      BY <1>0, <1>1, <1>2, <3>1 DEF StateInv, DrainedStays
    <3> QED
      BY <3>2, <3>3 DEF StateInv
  <2> QED
    BY <1>1, <2>1, <2>2
<1>6. \A s \in States : Alive(s) => Alive(s)'
  <2>1. \A u \in Turns : finishing[u] \in States => finishing'[u] = finishing[u]
    BY <1>0, <1>1, <1>2
  <2> QED
    BY <1>1, <2>1 DEF Alive
<1>7. QueuesKept /\ PendingKept
  BY <1>1, <1>6, QueuesRest, PendingRests
<1>8. CallsKept
  BY <1>1, CallsStay
<1>9. RunsKept
  BY <1>1, <1>2, RunsStay
<1>10. NoInputLost'
  BY <1>1, <1>7, <1>8, <1>9, NothingLost DEF KeepInv
<1> QED
  BY <1>4, <1>5, <1>10 DEF KeepInv

\* And what is queued in it.
LEMMA FinishTakePendingKeeps ==
    ASSUME KeepInv, LoopInv', NEW t \in Turns, FinishTakePending(t)
    PROVE  KeepInv'
<1> DEFINE s0 == finishing[t]
           x == pendingInput[s0]
           d == [local[t] EXCEPT !.taken = x]
<1>0. /\ TypeOK /\ pc \in [Turns -> TaskPoints] /\ local[t] \in Locals /\ local \in [Turns -> Locals]
      /\ pendingInput \in [States -> Seq(Items)] /\ TasksSound
  BY KeepTypes DEF KeepInv, LoopInv, BaseInv, TypeOK
<1> USE DEF stateVars, fateVars, taskVars, opVars, activeVars
<1>1. /\ pc[t] = "fin_take" /\ At(t, "fin_record")
      /\ local' = [local EXCEPT ![t] = d] /\ pendingInput' = [pendingInput EXCEPT ![s0] = <<>>]
      /\ UNCHANGED <<activeState, activeTask, finishing, nextState, kind, call, submitted, rejected,
                     discarded, mailbox, history>>
  BY DEF FinishTakePending
<1>2. local[t].input = <<>> /\ local[t].taken = <<>>
  BY <1>1, EmptyHands DEF HoldPoints, RecordPoints
<1>3. s0 \in States
  BY <1>0, <1>1 DEF TasksSound, TaskSound
<1>4. d.input = <<>> /\ d.taken = x
  BY <1>0, <1>2 DEF Locals
<1> HIDE DEF d
<1>5. /\ pc'[t] = "fin_record" /\ \A u \in Turns : u # t => pc'[u] = pc[u] /\ local'[u] = local[u]
      /\ local'[t].input = <<>> /\ local'[t].taken = x
  BY <1>0, <1>1, <1>4 DEF At
<1>6. pendingInput'[s0] = <<>> /\ \A s \in States : s # s0 => pendingInput'[s] = pendingInput[s]
  BY <1>0, <1>1, <1>3
<1>7. pc'[t] \in RecordPoints /\ Elems(x) \subseteq Where'
  <2>1. Elems(local'[t].taken) \subseteq Where'
    BY <1>5, WhereHas DEF WhereCovers
  <2> QED
    BY <1>5, <2>1 DEF RecordPoints
<1>8. /\ \A s \in States : Elems(pendingInput'[s]) \subseteq Elems(pendingInput[s])
      /\ \A s \in States : pendingInput'[s] = pendingInput[s] \/ Elems(pendingInput[s]) \subseteq Where'
      /\ Elems(pendingInput'[finishing[t]]) = {}
  BY <1>6, <1>7, EmptySeq
<1>9. Elems(local[t].input) \subseteq Where' /\ Elems(local[t].taken) \subseteq Where'
  BY <1>2, EmptySeq
<1> QED
  BY <1>1, <1>5, <1>7, <1>8, <1>9, OneRunKeeps

\* When it lets go of the turn state, no input is in it.
LEMMA FinishClearKeeps ==
    ASSUME KeepInv, LoopInv', NEW t \in Turns, FinishClear(t)
    PROVE  KeepInv'
<1>0. /\ TypeOK /\ StateInv /\ RunHands /\ LoopHands /\ pc \in [Turns -> TaskPoints] /\ TasksSound
      /\ finishing \in [Turns -> States \cup {None}] /\ None \notin States /\ None = 0
      /\ activeState \in States \cup {None} /\ nextState \in Nat /\ LoopOwnsSlot
  BY KeepTypes DEF KeepInv, LoopInv, BaseInv, TypeOK
<1> USE DEF stateVars, fateVars, taskVars, opVars, activeVars
<1>1. /\ pc[t] = "fin_clear" /\ At(t, "done") /\ finishing' = [finishing EXCEPT ![t] = None]
      /\ \/ activeTask = None /\ activeState = finishing[t] /\ activeState' = None
         \/ ~(activeTask = None /\ activeState = finishing[t]) /\ UNCHANGED activeState
      /\ UNCHANGED <<activeTask, nextState, kind, local, call, submitted, rejected, discarded,
                     pendingInput, mailbox, history>>
  BY DEF FinishClear
<1>2. /\ pc'[t] = "done" /\ \A u \in Turns : u # t => pc'[u] = pc[u]
      /\ finishing'[t] = None /\ \A u \in Turns : u # t => finishing'[u] = finishing[u]
      /\ finishing[t] \in States
  BY <1>0, <1>1 DEF At, TasksSound, TaskSound
<1>3. local[t].input = <<>> /\ local[t].taken = <<>>
  BY <1>1, EmptyHands DEF HoldPoints, RecordPoints
<1>4. RunHands' /\ LoopHands'
  BY <1>0, <1>1, <1>2, <1>3 DEF RunHands, LoopHands
<1>5. StateInv'
  <2>1. /\ nextState > 0 /\ activeState < nextState
        /\ \A u \in Turns : finishing[u] < nextState
    BY <1>0 DEF StateInv, Fresh, TypeOK
  <2>2. Fresh'
    BY <1>0, <1>1, <1>2, <2>1 DEF Fresh
  <2>3. OwnState'
    BY <1>0, <1>1, <1>2 DEF StateInv, OwnState
  <2>4. ExtendsSlot'
    <3>1. call["loop"].at = "start_extend" /\ activeState # None => activeState # finishing[t]
      BY <1>0 DEF StateInv, OwnState, StartPoints
    <3> QED
      BY <1>0, <1>1, <1>2, <3>1 DEF StateInv, ExtendsSlot
  <2>5. FinisherHolds'
    BY <1>0, <1>1, <1>2 DEF StateInv, FinisherHolds
  <2>6. DrainedStays'
    BY <1>0, <1>1, <1>2 DEF StateInv, DrainedStays, Drained
  <2> QED
    BY <2>2, <2>3, <2>4, <2>5, <2>6 DEF StateInv
<1>6. PendingKept
  <2>1. \A s \in States : Alive(s) /\ s # finishing[t] => Alive(s)'
    BY <1>1, <1>2 DEF Alive
  <2>2. Elems(pendingInput[finishing[t]]) \cap Tracked = {}
    BY <1>0, <1>1 DEF StateInv, DrainedStays, Drained
  <2> QED
    BY <1>1, <2>1, <2>2, PendingStays
<1>7. QueuesKept
  BY <1>1, QueuesRest
<1>8. CallsKept
  BY <1>1, CallsStay
<1>9. RunsKept
  BY <1>1, <1>2, RunsStay
<1>10. NoInputLost'
  BY <1>1, <1>6, <1>7, <1>8, <1>9, NothingLost DEF KeepInv
<1> QED
  BY <1>4, <1>5, <1>10 DEF KeepInv

-----------------------------------------------------------------------------
(* KeepInv always holds.                                                   *)

\* Nothing was submitted at first.
LEMMA KeepInit ==
    ASSUME LoopAlone, Init
    PROVE  KeepInv /\ NotTakenYet
<1>0. LoopInv /\ "loop" \in Callers
  BY LoopInit DEF Callers
<1>1. \A t \in Turns : /\ local[t].input = <<>> /\ local[t].taken = <<>>
                       /\ pc[t] = "none" /\ finishing[t] = None
  BY DEF Init, NoLocal
<1>2. /\ call["loop"].at = "idle" /\ call["loop"].input = <<>> /\ call["loop"].items = <<>>
      /\ call["loop"].state = None
  BY <1>0 DEF Init, NoCall
<1>3. activeState = None /\ nextState = 1 /\ submitted = {} /\ None = 0
  BY DEF Init, None
<1>4. RunHands /\ LoopHands /\ NotTakenYet
  BY <1>1, <1>2 DEF RunHands, LoopHands, NotTakenYet
<1>5. StateInv
  BY <1>1, <1>2, <1>3 DEF StateInv, Fresh, OwnState, ExtendsSlot, FinisherHolds, DrainedStays, Drained
<1>6. NoInputLost
  BY <1>3 DEF NoInputLost
<1> QED
  BY <1>0, <1>4, <1>5, <1>6 DEF KeepInv

\* Every step keeps it.
LEMMA KeepNext ==
    ASSUME KeepInv, NotTakenYet, LoopInv', [Next]_vars
    PROVE  KeepInv' /\ NotTakenYet'
<1>1. NotTakenYet'
  BY NotTakenYetNext DEF KeepInv, LoopInv
<1>2. CASE ClientStep
  BY <1>1, <1>2, ClientKeeps
<1>3. ASSUME NEW p \in Callers, CallStep(p)
      PROVE  KeepInv'
  BY <1>3, CallKeeps
<1>4. ASSUME NEW t \in Turns, TaskStep(t)
      PROVE  KeepInv'
  BY <1>4, RunQuietSteps, RunTakesKeep, RunRecordsKeep, FinishTakeKeeps, FinishTakePendingKeeps,
     FinishClearKeeps DEF TaskStep, RunStep, FinishStep
<1>5. CASE UNCHANGED vars
  <2>1. UNCHANGED <<activeState, activeTask, finishing, nextState, pc, kind, local, pendingInput, call,
                    mailbox, history, discarded, rejected, submitted>>
    BY <1>5 DEF vars, activeVars, stateVars, taskVars, opVars, fateVars
  <2>2. LoopHands' /\ StateInv'
    BY <2>1 DEF KeepInv, LoopHands, StateInv, Fresh, OwnState, ExtendsSlot, FinisherHolds, DrainedStays
  <2>3. \A s \in States : Alive(s) => Alive(s)'
    BY <2>1, AliveStays
  <2>4. QueuesKept /\ PendingKept /\ CallsKept
    BY <2>1, <2>3, QueuesRest, PendingRests, CallsStay
  <2> QED
    BY <1>1, <2>1, <2>2, <2>4, LoopKeeps
<1> QED
  BY <1>1, <1>2, <1>3, <1>4, <1>5 DEF Next

\* The inductive invariant.
LEMMA KeepHolds == LoopAlone /\ Spec => []KeepInv
<1>1. LoopAlone /\ Init => KeepInv /\ NotTakenYet
  BY KeepInit
<1>2. (KeepInv /\ NotTakenYet) /\ LoopInv' /\ [Next]_vars => (KeepInv /\ NotTakenYet)'
  BY KeepNext
<1> QED
  BY <1>1, <1>2, LoopHolds, PTL DEF Spec

\* No input is lost: whatever the client and other agents submit, and however steering, mail,
\* aborts and on_task_finished interleave on the slot, it is in a queue that somebody holds, in
\* the hands of a task or of the loop, in the history, or was refused or dropped with an event,
\* for every number of turns, items and operations.
THEOREM NothingSubmittedIsLost == LoopAlone /\ Spec => []NoInputLost
<1>1. KeepInv => NoInputLost
  BY DEF KeepInv
<1> QED
  BY <1>1, KeepHolds, PTL
=============================================================================
