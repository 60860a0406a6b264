------------------------ MODULE TurnLifecycle_proofs ------------------------
EXTENDS TurnLifecycle, TLAPS

(***************************************************************************)
(* What holds of a session whoever starts and aborts its turns: the types, *)
(* and that a turn whose terminal event is out runs no more.               *)
(*                                                                         *)
(* SilentAfterTerminalEvent is not inductive: that the event of an abort   *)
(* comes after the end of its task depends on what the aborting call holds *)
(* between its steps, and that a task ends before TurnComplete on the      *)
(* turn state that on_task_finished took.  BaseInv adds what every call    *)
(* and every task hold, that no two calls start the same turn, and that    *)
(* the task in the slot has begun and is not cancelled.                    *)
(*                                                                         *)
(* Then where items are: RecordedOnce and RefusedNotRecorded are about two *)
(* of the places an item can be in.  ItemInv says of all of them that no   *)
(* item is twice in one or in two, and that what they hold was submitted   *)
(* and not refused.  Every step moves what one place holds to another one, *)
(* or drops it.                                                            *)
(***************************************************************************)

\* A call that will start a turn has its context.
Starting(c) ==
    \/ c.at \in StartPoints
    \/ c.at \in AbortPoints \cup {"abort_take"} /\ c.reason = "Replaced"

\* What a call holds: a turn of its own that has no task yet, and the task and the
\* turn state it has taken out of the slot.
CallSound(p) ==
    /\ call[p].turn # None <=> Starting(call[p])
    /\ call[p].turn # None => call[p].turn < nextTurn /\ pc[call[p].turn] = "none"
    /\ call[p].at \in AbortPoints =>
          /\ call[p].victim \in Turns /\ call[p].state \in States
          /\ pc[call[p].victim] # "none"
    /\ call[p].at = "abort_emit" => pc[call[p].victim] \in {"done", "killed"}
    /\ call[p].at = "start_extend" => call[p].state \in States

CallsSound == \A p \in Callers : CallSound(p)

\* No two calls start the same turn.
StartsDiffer ==
    \A p, q \in Callers : p # q /\ call[p].turn # None => call[p].turn # call[q].turn

\* A turn without a task is fresh; a task that finishes holds the state it took.
TaskSound(t) ==
    /\ t >= nextTurn => pc[t] = "none"
    /\ pc[t] = "none" => ~cancelled[t] /\ ended[t] = 0
    /\ pc[t] \in {"fin_take", "fin_record", "fin_emit", "fin_clear"} => finishing[t] \in States

TasksSound == \A t \in Turns : TaskSound(t)

\* The task in the slot has begun and nobody has cancelled it.
SlotSound ==
    activeTask # None =>
        activeState # None /\ pc[activeTask] # "none" /\ ~cancelled[activeTask]

BaseInv ==
    /\ TypeOK /\ CallsSound /\ StartsDiffer /\ TasksSound /\ SlotSound
    /\ SilentAfterTerminalEvent

-----------------------------------------------------------------------------
(* Records. A call, and the variables of a run, change in a few fields at a *)
(* time.                                                                   *)

\* A call that does nothing.
LEMMA NoCallType ==
    /\ NoCall \in Calls
    /\ NoCall.turn = None /\ NoCall.state = None /\ NoCall.victim = None
    /\ NoCall.kind = "Regular" /\ NoCall.input = <<>> /\ NoCall.items = <<>>
    /\ NoCall.reason = "none" /\ NoCall.at = "idle"
  BY DEF NoCall, Calls, CallPoints

\* The variables of a run, one by one.
LEMMA LocalTakes == \A d \in Locals, x \in Seq(Items) : [d EXCEPT !.taken = x] \in Locals
  BY DEF Locals
\* Its input queue.
LEMMA LocalInput == \A d \in Locals, x \in Seq(Items) : [d EXCEPT !.input = x] \in Locals
  BY DEF Locals
\* Its verdict of a hook, reset.
LEMMA LocalVerdict == \A d \in Locals : [d EXCEPT !.verdict = "none"] \in Locals
  BY DEF Locals
\* Its count of sampling requests.
LEMMA LocalSteps == \A d \in Locals, n \in 0 .. MaxSteps : [d EXCEPT !.steps = n] \in Locals
  BY DEF Locals
\* Its Boolean flags.
LEMMA LocalFlags ==
    \A d \in Locals, b \in BOOLEAN : /\ [d EXCEPT !.decision = b] \in Locals
                                     /\ [d EXCEPT !.followUp = b] \in Locals
                                     /\ [d EXCEPT !.canDrain = b] \in Locals
  BY DEF Locals

\* A run that has not begun.
LEMMA NoLocalType ==
    /\ NoLocal \in Locals
    /\ NoLocal.input = <<>> /\ NoLocal.taken = <<>> /\ NoLocal.decision = FALSE
<1>1. 0 \in 0 .. MaxSteps /\ <<>> \in Seq(Items)
  BY BoundsAssumption
<1> QED
  BY <1>1 DEF Locals, NoLocal

\* Two or three at once.
LEMMA LocalRefused == \A d \in Locals, x \in Seq(Items), n \in 0 .. MaxSteps :
                         [d EXCEPT !.input = x, !.steps = n] \in Locals
  BY DEF Locals
\* After a sampling request that lets it drain.
LEMMA LocalContinues == \A d \in Locals, b \in BOOLEAN, n \in 0 .. MaxSteps :
                           [d EXCEPT !.canDrain = b, !.steps = n] \in Locals
  BY DEF Locals
\* After one that wants a follow-up.
LEMMA LocalFollows == \A d \in Locals, b \in BOOLEAN, n \in 0 .. MaxSteps :
                         [d EXCEPT !.steps = n, !.followUp = b] \in Locals
  BY DEF Locals
\* After the head of what it took is recorded or refused.
LEMMA LocalRecords == \A d \in Locals, x \in Seq(Items), v \in {"none", "accepted", "blocked"} :
                         [d EXCEPT !.taken = x, !.verdict = v] \in Locals
  BY DEF Locals
\* After it prepared the items it took.
LEMMA LocalPrepares == \A d \in Locals, b \in BOOLEAN, y, x \in Seq(Items) :
                          [d EXCEPT !.canDrain = b, !.taken = y, !.input = x] \in Locals
  BY DEF Locals

-----------------------------------------------------------------------------
(* A step of a run.                                                        *)

RunVars == <<activeVars, nextState, kind, cancelled, finishing, nextTurn, call, opVars,
             ended, rejected, overwritten>>

\* A step of a run moves its task within the run, to its end, or through the items
\* that on_task_finished records.
RunMoves(t) ==
    /\ UNCHANGED RunVars
    /\ \A u \in Turns : u # t => pc'[u] = pc[u] /\ local'[u] = local[u]
    /\ \/ pc[t] \in RunPoints /\ pc'[t] \in RunPoints \cup {"finish"}
       \/ pc[t] = "fin_record" /\ pc'[t] \in {"fin_record", "fin_emit"}

\* The variables that runs may change.
RunTypeOK ==
    /\ pendingInput \in [States -> Seq(Items)]
    /\ phase \in [States -> {"CurrentTurn", "NextTurn"}]
    /\ waiters \in [States -> SUBSET Turns]
    /\ mailbox \in Seq(Mails) /\ history \in Seq(Items)
    /\ pc \in [Turns -> TaskPoints]
    /\ local \in [Turns -> Locals]
    /\ started \in [Turns -> BOOLEAN]
    /\ discarded \subseteq Items

\* Mail is a kind of item.
LEMMA MailsAreItems == Seq(Mails) \subseteq Seq(Items)
  BY DEF Items

\* The queue in the slot is a sequence of items, and taking it leaves others.
LEMMA PendingType ==
    ASSUME TypeOK
    PROVE  /\ ActivePending \in Seq(Items)
           /\ PendingAfterTake \in [States -> Seq(Items)]
  BY DEF TypeOK, ActivePending, PendingAfterTake

\* Appending to a queue keeps it one.
LEMMA ExtendType ==
    ASSUME TypeOK, NEW s, NEW x \in Seq(Items)
    PROVE  Extend(s, x) \in [States -> Seq(Items)]
<1>1. \A r \in States : pendingInput[r] \o x \in Seq(Items)
  BY DEF TypeOK
<1> QED
  BY <1>1 DEF TypeOK, Extend

\* The elements of a queue are items.
LEMMA ElemsType == \A x \in Seq(Items) : Elems(x) \subseteq Items
  BY DEF Elems

\* The fields of a run's variables.
LEMMA LocalIs ==
    ASSUME NEW d \in Locals
    PROVE  /\ d.input \in Seq(Items) /\ d.taken \in Seq(Items) /\ d.canDrain \in BOOLEAN
           /\ d.followUp \in BOOLEAN /\ d.verdict \in {"none", "accepted", "blocked"}
           /\ d.steps \in 0 .. MaxSteps /\ d.decision \in BOOLEAN
  BY DEF Locals

\* The steps of a run keep the types and move only their own task.
LEMMA RunTypes ==
    ASSUME TypeOK, NEW t \in Turns, RunStep(t)
    PROVE  RunMoves(t) /\ RunTypeOK'
<1> DEFINE d == local[t]
           Rest == <<pendingInput, phase, waiters, mailbox, history, started, discarded>>
<1>0. RunTypeOK /\ d \in Locals
  BY DEF TypeOK, RunTypeOK
<1>1. /\ d.input \in Seq(Items) /\ d.taken \in Seq(Items) /\ d.canDrain \in BOOLEAN
      /\ d.followUp \in BOOLEAN /\ d.verdict \in {"none", "accepted", "blocked"}
      /\ d.steps \in 0 .. MaxSteps /\ d.decision \in BOOLEAN
      /\ Elems(d.input) \subseteq Items /\ <<>> \in Seq(Items)
  BY <1>0, LocalIs, ElemsType
<1>2. MayStep(t) => d.steps + 1 \in 0 .. MaxSteps
  BY <1>1, BoundsAssumption DEF MayStep
<1> USE DEF RunPoints, TaskPoints, FinishPoints, RunVars, stateVars, fateVars, At
<1>3. ASSUME NEW e \in Locals, local' = [local EXCEPT ![t] = e] \/ local' = local,
             NEW x \in TaskPoints, pc' = [pc EXCEPT ![t] = x],
             \/ pc[t] \in RunPoints /\ x \in RunPoints \cup {"finish"}
             \/ pc[t] = "fin_record" /\ x \in {"fin_record", "fin_emit"},
             UNCHANGED RunVars
      PROVE  RunMoves(t) /\ local' \in [Turns -> Locals] /\ pc' \in [Turns -> TaskPoints]
  <2>1. /\ local' \in [Turns -> Locals]
        /\ \A u \in Turns : u # t => local'[u] = local[u]
    BY <1>0, <1>3 DEF RunTypeOK
  <2>2. /\ pc' \in [Turns -> TaskPoints] /\ pc'[t] = x
        /\ \A u \in Turns : u # t => pc'[u] = pc[u]
    BY <1>0, <1>3 DEF RunTypeOK
  <2> QED
    BY <1>3, <2>1, <2>2 DEF RunMoves
<1>4. CASE TaskBegin(t)
  <2>1. /\ \E x \in {"compacting", "prepare"} : pc' = [pc EXCEPT ![t] = x]
        /\ pc[t] = "begin" /\ UNCHANGED <<RunVars, local>>
        /\ started' = [started EXCEPT ![t] = TRUE]
        /\ UNCHANGED <<pendingInput, phase, waiters, mailbox, history, discarded>>
    BY <1>4 DEF TaskBegin
  <2> QED
    BY <1>0, <1>3, <2>1 DEF RunTypeOK
<1>5. CASE CompactRuns(t)
  <2>1. /\ local' = [local EXCEPT ![t] = NoLocal] /\ pc' = [pc EXCEPT ![t] = "finish"]
        /\ pc[t] = "compacting" /\ UNCHANGED <<RunVars, Rest>>
    BY <1>5 DEF CompactRuns, EndRun
  <2> QED
    BY <1>0, <1>3, <2>1, NoLocalType DEF RunTypeOK
<1>6. CASE PrepareFails(t)
  <2>1. local' = [local EXCEPT ![t] = [d EXCEPT !.input = <<>>, !.steps = d.steps + 1]]
    BY <1>6 DEF PrepareFails
  <2>2. /\ pc' = [pc EXCEPT ![t] = "outer"] /\ pc[t] = "prepare"
        /\ UNCHANGED <<RunVars, pendingInput, phase, waiters, mailbox, history, started>>
        /\ discarded' = discarded \cup Elems(d.input) /\ d.steps + 1 \in 0 .. MaxSteps
    BY <1>2, <1>6 DEF PrepareFails
  <2> HIDE DEF d
  <2>3. PICK e \in Locals : local' = [local EXCEPT ![t] = e]
    BY <1>0, <1>1, <2>1, <2>2, LocalRefused, Zenon
  <2> QED
    BY <1>0, <1>1, <1>3, <2>2, <2>3 DEF RunTypeOK
<1>7. CASE Prepare(t)
  <2> DEFINE b == d.input = <<>>
  <2>1. local' = [local EXCEPT ![t] = [d EXCEPT !.canDrain = b, !.taken = d.input,
                                                !.input = <<>>]]
    BY <1>7 DEF Prepare
  <2>2. /\ pc' = [pc EXCEPT ![t] = "record_input"] /\ pc[t] = "prepare"
        /\ UNCHANGED <<RunVars, Rest>> /\ b \in BOOLEAN
    BY <1>7 DEF Prepare
  <2> HIDE DEF d, b
  <2>3. PICK e \in Locals : local' = [local EXCEPT ![t] = e]
    BY <1>0, <1>1, <2>1, <2>2, LocalPrepares, Zenon
  <2> QED
    BY <1>0, <1>3, <2>2, <2>3 DEF RunTypeOK
<1>8. CASE DrainTake(t)
  <2>1. CASE d.canDrain
    <3>1. /\ local' = [local EXCEPT ![t] = [d EXCEPT !.taken = ActivePending]]
          /\ pc[t] = "drain" /\ pendingInput' = PendingAfterTake
          /\ \E x \in {"drain_mail", "record"} : pc' = [pc EXCEPT ![t] = x]
          /\ UNCHANGED <<RunVars, phase, waiters, mailbox, history, started, discarded>>
      BY <1>8, <2>1 DEF DrainTake
    <3> HIDE DEF d
    <3>2. PICK e \in Locals : local' = [local EXCEPT ![t] = e]
      BY <1>0, <3>1, PendingType, LocalTakes, Zenon
    <3> QED
      BY <1>0, <1>3, <3>1, <3>2, PendingType DEF RunTypeOK
  <2>2. CASE ~d.canDrain
    <3>1. /\ pc[t] = "drain" /\ pc' = [pc EXCEPT ![t] = "sample"]
          /\ UNCHANGED <<RunVars, local, Rest>>
      BY <1>8, <2>2 DEF DrainTake
    <3> QED
      BY <1>0, <1>3, <3>1 DEF RunTypeOK
  <2> QED
    BY <2>1, <2>2
<1>9. CASE DrainMail(t)
  <2>1. /\ local' = [local EXCEPT ![t] = [d EXCEPT !.taken = d.taken \o mailbox]]
        /\ pc[t] = "drain_mail" /\ mailbox' = <<>> /\ pc' = [pc EXCEPT ![t] = "record"]
        /\ UNCHANGED <<RunVars, pendingInput, phase, waiters, history, started, discarded>>
    BY <1>9 DEF DrainMail
  <2>2. d.taken \o mailbox \in Seq(Items) /\ <<>> \in Seq(Mails)
    BY <1>0, <1>1, MailsAreItems DEF RunTypeOK
  <2> HIDE DEF d
  <2>3. PICK e \in Locals : local' = [local EXCEPT ![t] = e]
    BY <1>0, <2>1, <2>2, LocalTakes, Zenon
  <2> QED
    BY <1>0, <1>3, <2>1, <2>2, <2>3 DEF RunTypeOK
<1>10. CASE RecordItem(t)
  <2> DEFINE v == IF Head(d.taken) \in UserPrompts THEN "accepted" ELSE d.verdict
  <2>1. local' = [local EXCEPT ![t] = [d EXCEPT !.taken = Tail(d.taken), !.verdict = v]]
    BY <1>10 DEF RecordItem
  <2>2. /\ pc[t] \in RecordPoints /\ d.taken # <<>> /\ history' = Append(history, Head(d.taken))
        /\ UNCHANGED <<RunVars, pc, pendingInput, phase, waiters, mailbox, started, discarded>>
        /\ v \in {"none", "accepted", "blocked"}
    BY <1>1, <1>10 DEF RecordItem
  <2>3. Tail(d.taken) \in Seq(Items) /\ Head(d.taken) \in Items
    BY <1>1, <2>2
  <2> HIDE DEF d, v
  <2>4. PICK e \in Locals : local' = [local EXCEPT ![t] = e]
    BY <1>0, <2>1, <2>2, <2>3, LocalRecords, Zenon
  <2>5. pc' = [pc EXCEPT ![t] = pc[t]] /\ pc[t] \in TaskPoints
    BY <1>0, <2>2 DEF RunTypeOK
  <2> QED
    BY <1>0, <1>3, <2>2, <2>3, <2>4, <2>5 DEF RunTypeOK, RecordPoints
<1>11. CASE BlockItem(t)
  <2> DEFINE v == IF d.verdict = "accepted" THEN "accepted" ELSE "blocked"
  <2>1. local' = [local EXCEPT ![t] = [d EXCEPT !.taken = Tail(d.taken), !.verdict = v]]
    BY <1>11 DEF BlockItem
  <2>2. /\ pc[t] \in RecordPoints /\ d.taken # <<>>
        /\ discarded' = discarded \cup {Head(d.taken)}
        /\ UNCHANGED <<RunVars, pc, pendingInput, phase, waiters, mailbox, history, started>>
        /\ v \in {"none", "accepted", "blocked"}
    BY <1>1, <1>11 DEF BlockItem
  <2>3. Tail(d.taken) \in Seq(Items) /\ Head(d.taken) \in Items
    BY <1>1, <2>2
  <2> HIDE DEF d, v
  <2>4. PICK e \in Locals : local' = [local EXCEPT ![t] = e]
    BY <1>0, <2>1, <2>2, <2>3, LocalRecords, Zenon
  <2>5. pc' = [pc EXCEPT ![t] = pc[t]] /\ pc[t] \in TaskPoints
    BY <1>0, <2>2 DEF RunTypeOK
  <2> QED
    BY <1>0, <1>3, <2>2, <2>3, <2>4, <2>5 DEF RunTypeOK, RecordPoints
<1>12. CASE RecordEnds(t)
  <2> DEFINE x == CASE pc[t] = "fin_record" -> "fin_emit"
                    [] pc[t] # "fin_record" /\ local[t].verdict = "blocked" -> "outer"
                    [] pc[t] = "record_input" /\ local[t].verdict # "blocked" -> "drain"
                    [] OTHER -> "sample"
  <2>1. /\ local' = [local EXCEPT ![t] = [d EXCEPT !.verdict = "none"]]
        /\ pc[t] \in RecordPoints /\ pc' = [pc EXCEPT ![t] = x] /\ UNCHANGED <<RunVars, Rest>>
    BY <1>12 DEF RecordEnds
  <2>2. /\ pc[t] = "fin_record" => x = "fin_emit"
        /\ pc[t] # "fin_record" => x \in {"outer", "drain", "sample"}
    OBVIOUS
  <2> HIDE DEF d, x
  <2>3. PICK e \in Locals : local' = [local EXCEPT ![t] = e]
    BY <1>0, <2>1, LocalVerdict
  <2> QED
    BY <1>0, <1>3, <2>1, <2>2, <2>3 DEF RunTypeOK, RecordPoints
<1>13. CASE SampleToolCall(t)
  <2>1. local' = [local EXCEPT ![t] = [d EXCEPT !.steps = d.steps + 1, !.followUp = TRUE]]
    BY <1>13 DEF SampleToolCall
  <2>2. /\ \E x \in {"post", "approve"} : pc' = [pc EXCEPT ![t] = x]
        /\ pc[t] = "sample" /\ d.steps + 1 \in 0 .. MaxSteps
        /\ phase' = phase \/ phase' = [phase EXCEPT ![activeState] = "CurrentTurn"]
        /\ UNCHANGED <<RunVars, pendingInput, waiters, mailbox, history, started, discarded>>
    BY <1>2, <1>13 DEF SampleToolCall
  <2> HIDE DEF d
  <2>3. PICK e \in Locals : local' = [local EXCEPT ![t] = e]
    BY <1>0, <2>1, <2>2, LocalFollows, Zenon
  <2> QED
    BY <1>0, <1>3, <2>2, <2>3 DEF RunTypeOK
<1>14. CASE SampleAnswer(t)
  <2>1. /\ local' = [local EXCEPT ![t] = [d EXCEPT !.followUp = FALSE]]
        /\ pc' = [pc EXCEPT ![t] = "post"] /\ pc[t] = "sample"
        /\ phase' = phase \/ phase' = [phase EXCEPT ![activeState] = "NextTurn"]
        /\ UNCHANGED <<RunVars, pendingInput, waiters, mailbox, history, started, discarded>>
    BY <1>14 DEF SampleAnswer
  <2> HIDE DEF d
  <2>2. PICK e \in Locals : local' = [local EXCEPT ![t] = e]
    BY <1>0, <2>1, LocalFlags
  <2> QED
    BY <1>0, <1>3, <2>1, <2>2 DEF RunTypeOK
<1>15. CASE SampleFails(t)
  <2>1. CASE MayStep(t) /\ local' = [local EXCEPT ![t].steps = @ + 1] /\ At(t, "drain")
    <3>1. /\ local' = [local EXCEPT ![t] = [d EXCEPT !.steps = d.steps + 1]]
          /\ pc' = [pc EXCEPT ![t] = "drain"] /\ pc[t] = "sample"
          /\ d.steps + 1 \in 0 .. MaxSteps
          /\ UNCHANGED <<RunVars, Rest>>
      BY <1>2, <1>15, <2>1 DEF SampleFails
    <3> HIDE DEF d
    <3>2. PICK e \in Locals : local' = [local EXCEPT ![t] = e]
      BY <1>0, <3>1, LocalSteps
    <3> QED
      BY <1>0, <1>3, <3>1, <3>2 DEF RunTypeOK
  <2>2. CASE At(t, "outer") /\ UNCHANGED local
    <3>1. pc' = [pc EXCEPT ![t] = "outer"] /\ pc[t] = "sample" /\ UNCHANGED <<RunVars, local, Rest>>
      BY <1>15, <2>2 DEF SampleFails
    <3> QED
      BY <1>0, <1>3, <3>1 DEF RunTypeOK
  <2> QED
    BY <1>15, <2>1, <2>2 DEF SampleFails
<1>16. CASE RequestApproval(t)
  <2>1. /\ pc' = [pc EXCEPT ![t] = "waiting"] /\ pc[t] = "approve"
        /\ UNCHANGED <<RunVars, local, pendingInput, phase, mailbox, history, started, discarded>>
        /\ waiters' = waiters \/ waiters' = [waiters EXCEPT ![activeState] = @ \cup {t}]
    BY <1>16 DEF RequestApproval
  <2>2. waiters' \in [States -> SUBSET Turns]
    <3>1. \A s \in States : waiters[s] \cup {t} \in SUBSET Turns
      BY <1>0 DEF RunTypeOK
    <3>2. waiters \in [States -> SUBSET Turns]
      BY <1>0 DEF RunTypeOK
    <3> QED
      BY <2>1, <3>1, <3>2
  <2> QED
    BY <1>0, <1>3, <2>1, <2>2 DEF RunTypeOK
<1>17. CASE ApprovalResolves(t)
  <2>1. /\ local' = [local EXCEPT ![t] = [d EXCEPT !.decision = FALSE]]
        /\ pc' = [pc EXCEPT ![t] = "post"] /\ pc[t] = "waiting" /\ UNCHANGED <<RunVars, Rest>>
    BY <1>17 DEF ApprovalResolves
  <2> HIDE DEF d
  <2>2. PICK e \in Locals : local' = [local EXCEPT ![t] = e]
    BY <1>0, <2>1, LocalFlags
  <2> QED
    BY <1>0, <1>3, <2>1, <2>2 DEF RunTypeOK
<1>18. CASE ObserveCancel(t)
  <2>1. /\ local' = [local EXCEPT ![t] = NoLocal] /\ pc' = [pc EXCEPT ![t] = "finish"]
        /\ pc[t] \in {"prepare", "sample", "waiting"}
        /\ discarded' = discarded \cup Elems(d.input)
        /\ UNCHANGED <<RunVars, pendingInput, phase, waiters, mailbox, history, started>>
    BY <1>18 DEF ObserveCancel, EndRun
  <2> QED
    BY <1>0, <1>1, <1>3, <2>1, NoLocalType DEF RunTypeOK
<1>19. CASE PostSampling(t)
  <2>0. pc[t] = "post" /\ UNCHANGED <<RunVars, Rest>>
    BY <1>19 DEF PostSampling
  <2>1. ASSUME NEW b \in BOOLEAN, local' = [local EXCEPT ![t].canDrain = b], At(t, "drain")
        PROVE  RunMoves(t) /\ RunTypeOK'
    <3>1. local' = [local EXCEPT ![t] = [d EXCEPT !.canDrain = b]]
      BY <2>1
    <3> HIDE DEF d
    <3>2. PICK e \in Locals : local' = [local EXCEPT ![t] = e]
      BY <1>0, <3>1, LocalFlags
    <3> QED
      BY <1>0, <1>3, <2>0, <2>1, <3>2 DEF RunTypeOK
  <2>2. CASE At(t, "outer") /\ UNCHANGED local
    BY <1>0, <1>3, <2>0, <2>2 DEF RunTypeOK
  <2>3. ASSUME MayStep(t), At(t, "drain"),
               local' = [local EXCEPT ![t] = [local[t] EXCEPT !.canDrain = TRUE,
                                                              !.steps = local[t].steps + 1]]
        PROVE  RunMoves(t) /\ RunTypeOK'
    <3>1. /\ local' = [local EXCEPT ![t] = [d EXCEPT !.canDrain = TRUE, !.steps = d.steps + 1]]
          /\ d.steps + 1 \in 0 .. MaxSteps
      BY <1>2, <2>3
    <3> HIDE DEF d
    <3>2. PICK e \in Locals : local' = [local EXCEPT ![t] = e]
      BY <1>0, <3>1, LocalContinues, Zenon
    <3> QED
      BY <1>0, <1>3, <2>0, <2>3, <3>2 DEF RunTypeOK
  <2>4. {TRUE, ~local[t].followUp} \subseteq BOOLEAN
    BY <1>1
  <2> QED
    BY <1>19, <2>1, <2>2, <2>3, <2>4, Zenon DEF PostSampling
<1>20. CASE OuterLoop(t)
  <2>1. CASE HasPendingInput
    <3>1. pc' = [pc EXCEPT ![t] = "prepare"] /\ pc[t] = "outer" /\ UNCHANGED <<RunVars, local, Rest>>
      BY <1>20, <2>1 DEF OuterLoop
    <3> QED
      BY <1>0, <1>3, <3>1 DEF RunTypeOK
  <2>2. CASE ~HasPendingInput
    <3>1. /\ local' = [local EXCEPT ![t] = NoLocal] /\ pc' = [pc EXCEPT ![t] = "finish"]
          /\ pc[t] = "outer" /\ UNCHANGED <<RunVars, Rest>>
      BY <1>20, <2>2 DEF OuterLoop, EndRun
    <3> QED
      BY <1>0, <1>3, <3>1, NoLocalType DEF RunTypeOK
  <2> QED
    BY <2>1, <2>2
<1> QED
  BY <1>4, <1>5, <1>6, <1>7, <1>8, <1>9, <1>10, <1>11, <1>12, <1>13, <1>14, <1>15, <1>16,
     <1>17, <1>18, <1>19, <1>20, Zenon DEF RunStep

-----------------------------------------------------------------------------
(* What a step makes of a call.                                            *)

\* The call of p, and no other, gets this point, turn, turn state, victim and reason.
Becomes(p, a, t, s, v, r) ==
    /\ call' \in [Callers -> Calls]
    /\ \A q \in Callers : q # p => call'[q] = call[q]
    /\ call'[p].at = a /\ call'[p].turn = t /\ call'[p].state = s
    /\ call'[p].victim = v /\ call'[p].reason = r

\* The call of p carries this kind of task, input and items.
Carries(p, k, i, x) ==
    call'[p].kind = k /\ call'[p].input = i /\ call'[p].items = x

\* A call changes as a whole.
LEMMA CallChanges ==
    ASSUME TypeOK, NEW p \in Callers, NEW c \in Calls, call' = [call EXCEPT ![p] = c]
    PROVE  /\ Becomes(p, c.at, c.turn, c.state, c.victim, c.reason)
           /\ Carries(p, c.kind, c.input, c.items)
  BY DEF TypeOK, Becomes, Carries

\* It moves on.
LEMMA GotoCall ==
    ASSUME TypeOK, NEW p \in Callers, NEW a \in CallPoints, Goto(p, a)
    PROVE  /\ Becomes(p, a, call[p].turn, call[p].state, call[p].victim, call[p].reason)
           /\ Carries(p, call[p].kind, call[p].input, call[p].items)
<1> DEFINE c == [call[p] EXCEPT !.at = a]
<1>1. call' = [call EXCEPT ![p] = c] /\ call[p] \in Calls
  BY DEF TypeOK, Goto
<1>2. /\ c \in Calls
      /\ c.at = a /\ c.turn = call[p].turn /\ c.state = call[p].state
      /\ c.victim = call[p].victim /\ c.kind = call[p].kind /\ c.input = call[p].input
      /\ c.items = call[p].items /\ c.reason = call[p].reason
  BY <1>1 DEF Calls
<1> HIDE DEF c
<1> QED
  BY <1>1, <1>2, CallChanges

\* It returns.
LEMMA ReturnCall ==
    ASSUME TypeOK, NEW p \in Callers, Return(p)
    PROVE  \E a \in {"idle", "exited"} :
              Becomes(p, a, None, None, None, "none") /\ Carries(p, "Regular", <<>>, <<>>)
<1> DEFINE a == IF p = "loop" /\ shutdowns > 0 THEN "exited" ELSE "idle"
           c == [NoCall EXCEPT !.at = a]
<1>1. call' = [call EXCEPT ![p] = c] /\ a \in {"idle", "exited"} /\ a \in CallPoints
  BY DEF Return, Returned, CallPoints
<1> HIDE DEF a
<1>2. /\ c \in Calls
      /\ c.at = a /\ c.turn = None /\ c.state = None /\ c.victim = None /\ c.reason = "none"
      /\ c.kind = "Regular" /\ c.input = <<>> /\ c.items = <<>>
  BY <1>1, NoCallType DEF Calls
<1> HIDE DEF c
<1> QED
  BY <1>1, <1>2, CallChanges

\* spawn_task, and the two calls of abort_all_tasks without a new turn.
LEMMA SpawnCall ==
    ASSUME TypeOK, NEW k \in {"Regular", "Compact"}, NEW x \in Seq(Items), SpawnTask(k, x)
    PROVE  /\ nextTurn \in Turns /\ nextTurn' = nextTurn + 1
           /\ Becomes("loop", "abort_take", nextTurn, None, None, "Replaced")
           /\ Carries("loop", k, x, <<>>)
<1> DEFINE c == [NoCall EXCEPT !.at = "abort_take", !.turn = nextTurn, !.kind = k, !.input = x,
                               !.reason = "Replaced"]
<1>1. /\ call' = [call EXCEPT !["loop"] = c] /\ nextTurn \in Turns /\ nextTurn' = nextTurn + 1
      /\ "abort_take" \in CallPoints /\ "loop" \in Callers
  BY BoundsAssumption DEF TypeOK, SpawnTask, Turns, CallPoints, Callers
<1>2. /\ c \in Calls
      /\ c.at = "abort_take" /\ c.turn = nextTurn /\ c.state = None /\ c.victim = None
      /\ c.reason = "Replaced" /\ c.kind = k /\ c.input = x /\ c.items = <<>>
  BY <1>1, NoCallType DEF Calls
<1> HIDE DEF c
<1> QED
  BY <1>1, <1>2, CallChanges

\* abort_all_tasks without a new turn.
LEMMA InterruptCall ==
    ASSUME TypeOK, NEW p \in Callers, InterruptTask(p)
    PROVE  /\ Becomes(p, "abort_take", None, None, None, "Interrupted")
           /\ Carries(p, "Regular", <<>>, <<>>)
<1> DEFINE c == [NoCall EXCEPT !.at = "abort_take", !.reason = "Interrupted"]
<1>1. call' = [call EXCEPT ![p] = c] /\ "abort_take" \in CallPoints
  BY DEF InterruptTask, CallPoints
<1>2. /\ c \in Calls
      /\ c.at = "abort_take" /\ c.turn = None /\ c.state = None /\ c.victim = None
      /\ c.reason = "Interrupted" /\ c.kind = "Regular" /\ c.input = <<>> /\ c.items = <<>>
  BY <1>1, NoCallType DEF Calls
<1> HIDE DEF c
<1> QED
  BY <1>1, <1>2, CallChanges

\* The start of work that was reserved (maybe_start_turn_for_pending_work,
\* try_start_turn_if_idle).
LEMMA ReservedCall ==
    ASSUME TypeOK, NEW p \in Callers, nextTurn <= MaxTurns,
           call' = [call EXCEPT ![p] = [NoCall EXCEPT !.at = "start_take", !.turn = nextTurn]]
    PROVE  /\ nextTurn \in Turns
           /\ Becomes(p, "start_take", nextTurn, None, None, "none")
           /\ Carries(p, "Regular", <<>>, <<>>)
<1> DEFINE c == [NoCall EXCEPT !.at = "start_take", !.turn = nextTurn]
<1>1. call' = [call EXCEPT ![p] = c] /\ nextTurn \in Turns /\ "start_take" \in CallPoints
  BY BoundsAssumption DEF TypeOK, Turns, CallPoints, StartPoints
<1>2. /\ c \in Calls
      /\ c.at = "start_take" /\ c.turn = nextTurn /\ c.state = None /\ c.victim = None
      /\ c.reason = "none" /\ c.kind = "Regular" /\ c.input = <<>> /\ c.items = <<>>
  BY <1>1, NoCallType DEF Calls
<1> HIDE DEF c
<1> QED
  BY <1>1, <1>2, CallChanges

\* start_task, step by step.
LEMMA StartTakeCall ==
    ASSUME TypeOK, NEW p \in Callers, StartTake(p)
    PROVE  /\ \E a \in {"start_drain", "start_state"} :
                 Becomes(p, a, call[p].turn, call[p].state, call[p].victim, call[p].reason)
           /\ Carries(p, call[p].kind, call[p].input, ActivePending)
<1> DEFINE a == IF AcceptsMailbox THEN "start_drain" ELSE "start_state"
           c == [call[p] EXCEPT !.items = ActivePending, !.at = a]
<1>1. /\ call' = [call EXCEPT ![p] = c] /\ call[p] \in Calls
      /\ a \in {"start_drain", "start_state"} /\ a \in CallPoints
  BY DEF TypeOK, StartTake, CallPoints, StartPoints
<1> HIDE DEF a
<1>2. /\ c \in Calls
      /\ c.at = a /\ c.turn = call[p].turn /\ c.state = call[p].state
      /\ c.victim = call[p].victim /\ c.kind = call[p].kind /\ c.input = call[p].input
      /\ c.items = ActivePending /\ c.reason = call[p].reason
  BY <1>1, PendingType DEF Calls
<1> HIDE DEF c
<1> QED
  BY <1>1, <1>2, CallChanges

\* It moves the mailbox behind the items it took.
LEMMA StartDrainCall ==
    ASSUME TypeOK, NEW p \in Callers, StartDrain(p)
    PROVE  /\ Becomes(p, "start_state", call[p].turn, call[p].state, call[p].victim, call[p].reason)
           /\ Carries(p, call[p].kind, call[p].input, call[p].items \o mailbox)
<1> DEFINE x == call[p].items \o mailbox
           c == [call[p] EXCEPT !.items = x, !.at = "start_state"]
<1>1. /\ call' = [call EXCEPT ![p] = c] /\ call[p] \in Calls /\ "start_state" \in CallPoints
  BY DEF TypeOK, StartDrain, CallPoints, StartPoints
<1>2. x \in Seq(Items)
  <2>1. call[p].items \in Seq(Items)
    BY <1>1 DEF Calls
  <2> QED
    BY <2>1, MailsAreItems DEF TypeOK
<1> HIDE DEF x
<1>3. /\ c \in Calls
      /\ c.at = "start_state" /\ c.turn = call[p].turn /\ c.state = call[p].state
      /\ c.victim = call[p].victim /\ c.kind = call[p].kind /\ c.input = call[p].input
      /\ c.items = x /\ c.reason = call[p].reason
  BY <1>1, <1>2 DEF Calls
<1> HIDE DEF c
<1>4. /\ Becomes(p, "start_state", call[p].turn, call[p].state, call[p].victim, call[p].reason)
      /\ Carries(p, call[p].kind, call[p].input, x)
  BY <1>1, <1>3, CallChanges
<1> QED
  BY <1>4 DEF x

\* The slot with an ActiveTurn in it.
LEMMA InsertType ==
    ASSUME TypeOK, CanInsert
    PROVE  /\ SlotAfterInsert \in States
           /\ NextStateAfterInsert \in 1 .. MaxStates + 1
  BY BoundsAssumption
  DEF TypeOK, CanInsert, SlotAfterInsert, NextStateAfterInsert, States, None

\* It finds the slot empty and inserts an ActiveTurn.
LEMMA StartStateCall ==
    ASSUME TypeOK, NEW p \in Callers, StartState(p)
    PROVE  /\ Becomes(p, "start_extend", call[p].turn, SlotAfterInsert, call[p].victim,
                      call[p].reason)
           /\ Carries(p, call[p].kind, call[p].input, call[p].items)
<1> DEFINE c == [call[p] EXCEPT !.state = SlotAfterInsert, !.at = "start_extend"]
<1>1. /\ call' = [call EXCEPT ![p] = c] /\ call[p] \in Calls /\ "start_extend" \in CallPoints
      /\ SlotAfterInsert \in States \cup {None}
  BY InsertType DEF TypeOK, StartState, CallPoints, StartPoints
<1>2. /\ c \in Calls
      /\ c.at = "start_extend" /\ c.turn = call[p].turn /\ c.state = SlotAfterInsert
      /\ c.victim = call[p].victim /\ c.kind = call[p].kind /\ c.input = call[p].input
      /\ c.items = call[p].items /\ c.reason = call[p].reason
  BY <1>1 DEF Calls
<1> HIDE DEF c
<1> QED
  BY <1>1, <1>2, CallChanges

\* It puts what it took into the turn state.
LEMMA StartExtendCall ==
    ASSUME TypeOK, NEW p \in Callers, StartExtend(p)
    PROVE  /\ Becomes(p, "start_install", call[p].turn, None, call[p].victim, call[p].reason)
           /\ Carries(p, call[p].kind, call[p].input, <<>>)
<1> DEFINE c == [call[p] EXCEPT !.items = <<>>, !.state = None, !.at = "start_install"]
<1>1. /\ call' = [call EXCEPT ![p] = c] /\ call[p] \in Calls /\ "start_install" \in CallPoints
      /\ <<>> \in Seq(Items) /\ None \in States \cup {None}
  BY DEF TypeOK, StartExtend, CallPoints, StartPoints
<1>2. /\ c \in Calls
      /\ c.at = "start_install" /\ c.turn = call[p].turn /\ c.state = None
      /\ c.victim = call[p].victim /\ c.kind = call[p].kind /\ c.input = call[p].input
      /\ c.items = <<>> /\ c.reason = call[p].reason
  BY <1>1 DEF Calls
<1> HIDE DEF c
<1> QED
  BY <1>1, <1>2, CallChanges

\* abort_all_tasks and abort_turn_if_active take the task out of the slot.
LEMMA TakeCall ==
    ASSUME TypeOK, NEW p \in Callers, NEW r \in {"none", "Replaced", "Interrupted"},
           TakeAndCancel(p, r)
    PROVE  /\ \E a \in {"abort_clear", "abort_wait"} :
                 /\ a = "abort_clear" <=> cancelled[activeTask]
                 /\ Becomes(p, a, call[p].turn, activeState, activeTask, r)
           /\ Carries(p, call[p].kind, call[p].input, call[p].items)
<1> DEFINE a == IF cancelled[activeTask] THEN "abort_clear" ELSE "abort_wait"
           c == [call[p] EXCEPT !.at = a, !.victim = activeTask, !.state = activeState, !.reason = r]
<1>1. /\ call' = [call EXCEPT ![p] = c] /\ call[p] \in Calls
      /\ a \in {"abort_clear", "abort_wait"} /\ a \in CallPoints
      /\ a = "abort_clear" <=> cancelled[activeTask]
      /\ activeState \in States \cup {None} /\ activeTask \in Turns \cup {None}
  BY DEF TypeOK, TakeAndCancel, CallPoints, AbortPoints
<1> HIDE DEF a
<1>2. /\ c \in Calls
      /\ c.at = a /\ c.turn = call[p].turn /\ c.state = activeState
      /\ c.victim = activeTask /\ c.kind = call[p].kind /\ c.input = call[p].input
      /\ c.items = call[p].items /\ c.reason = r
  BY <1>1 DEF Calls
<1> HIDE DEF c
<1>3. /\ Becomes(p, a, call[p].turn, activeState, activeTask, r)
      /\ Carries(p, call[p].kind, call[p].input, call[p].items)
  BY <1>1, <1>2, CallChanges
<1> QED
  BY <1>1, <1>3, Zenon

\* The abort is over.
LEMMA ClearCall ==
    ASSUME TypeOK, NEW p \in Callers, AbortClear(p)
    PROVE  /\ \E a \in {"start_take", "pending_check"} :
                 /\ a = "start_take" <=> call[p].reason = "Replaced"
                 /\ Becomes(p, a, call[p].turn, None, None, "none")
           /\ Carries(p, call[p].kind, call[p].input, call[p].items)
<1> DEFINE a == IF call[p].reason = "Replaced" THEN "start_take" ELSE "pending_check"
           c == [call[p] EXCEPT !.at = a, !.victim = None, !.state = None, !.reason = "none"]
<1>1. /\ call' = [call EXCEPT ![p] = c] /\ call[p] \in Calls
      /\ a \in {"start_take", "pending_check"} /\ a \in CallPoints
      /\ a = "start_take" <=> call[p].reason = "Replaced"
      /\ None \in States \cup {None} /\ None \in Turns \cup {None}
      /\ "none" \in {"none", "Replaced", "Interrupted"}
  BY DEF TypeOK, AbortClear, CallPoints, StartPoints
<1> HIDE DEF a
<1>2. /\ c \in Calls
      /\ c.at = a /\ c.turn = call[p].turn /\ c.state = None
      /\ c.victim = None /\ c.kind = call[p].kind /\ c.input = call[p].input
      /\ c.items = call[p].items /\ c.reason = "none"
  BY <1>1 DEF Calls
<1> HIDE DEF c
<1>3. /\ Becomes(p, a, call[p].turn, None, None, "none")
      /\ Carries(p, call[p].kind, call[p].input, call[p].items)
  BY <1>1, <1>2, CallChanges
<1> QED
  BY <1>1, <1>3, Zenon

\* try_start_turn_if_idle: the offer, its refusal, the reservation.
LEMMA OfferCall ==
    ASSUME TypeOK, NEW i \in IdleItems, OfferIdleWork(i)
    PROVE  /\ Becomes("extension", "idle_check", None, None, None, "none")
           /\ Carries("extension", "Regular", <<i>>, <<>>)
<1> DEFINE c == [NoCall EXCEPT !.at = "idle_check", !.input = <<i>>]
<1>1. /\ call' = [call EXCEPT !["extension"] = c] /\ "extension" \in Callers
      /\ "idle_check" \in CallPoints /\ <<i>> \in Seq(Items)
  BY DEF OfferIdleWork, CallPoints, Callers, Items
<1>2. /\ c \in Calls
      /\ c.at = "idle_check" /\ c.turn = None /\ c.state = None /\ c.victim = None
      /\ c.reason = "none" /\ c.kind = "Regular" /\ c.input = <<i>> /\ c.items = <<>>
  BY <1>1, NoCallType DEF Calls
<1> HIDE DEF c
<1> QED
  BY <1>1, <1>2, CallChanges

\* The offer is refused.
LEMMA RejectCall ==
    ASSUME TypeOK, NEW p \in Callers, NEW a \in CallPoints, IdleReject(p, a)
    PROVE  Becomes(p, a, None, None, None, "none") /\ Carries(p, "Regular", <<>>, <<>>)
<1> DEFINE c == [NoCall EXCEPT !.at = a]
<1>1. call' = [call EXCEPT ![p] = c]
  BY DEF IdleReject
<1>2. /\ c \in Calls
      /\ c.at = a /\ c.turn = None /\ c.state = None /\ c.victim = None /\ c.reason = "none"
      /\ c.kind = "Regular" /\ c.input = <<>> /\ c.items = <<>>
  BY NoCallType DEF Calls
<1> HIDE DEF c
<1> QED
  BY <1>1, <1>2, CallChanges

\* The slot is reserved for it.
LEMMA IdleReserveCall ==
    ASSUME TypeOK, NEW p \in Callers, nextState <= MaxStates,
           call' = [call EXCEPT ![p] =
                       [call[p] EXCEPT !.state = nextState, !.at = "idle_recheck"]]
    PROVE  /\ Becomes(p, "idle_recheck", call[p].turn, nextState, call[p].victim, call[p].reason)
           /\ Carries(p, call[p].kind, call[p].input, call[p].items)
<1> DEFINE c == [call[p] EXCEPT !.state = nextState, !.at = "idle_recheck"]
<1>1. /\ call' = [call EXCEPT ![p] = c] /\ call[p] \in Calls /\ "idle_recheck" \in CallPoints
      /\ nextState \in States \cup {None}
  BY BoundsAssumption DEF TypeOK, CallPoints, States
<1>2. /\ c \in Calls
      /\ c.at = "idle_recheck" /\ c.turn = call[p].turn /\ c.state = nextState
      /\ c.victim = call[p].victim /\ c.kind = call[p].kind /\ c.input = call[p].input
      /\ c.items = call[p].items /\ c.reason = call[p].reason
  BY <1>1 DEF Calls
<1> HIDE DEF c
<1> QED
  BY <1>1, <1>2, CallChanges

-----------------------------------------------------------------------------
(* BaseInv is inductive.                                                   *)

\* One call changes, or none, and no task does.
LEMMA OneCallMoves ==
    ASSUME BaseInv, NEW p \in Callers, \A q \in Callers : q # p => call'[q] = call[q],
           UNCHANGED <<pc, cancelled, ended, finishing>>,
           \/ nextTurn' = nextTurn /\ call'[p].turn \in {None, call[p].turn}
           \/ nextTurn' = nextTurn + 1 /\ nextTurn \in Turns /\ call'[p].turn = nextTurn,
           CallSound(p)'
    PROVE  CallsSound' /\ StartsDiffer' /\ TasksSound' /\ SilentAfterTerminalEvent'
<1>0. nextTurn \in Nat /\ Turns \subseteq Nat
  BY BoundsAssumption DEF BaseInv, TypeOK, Turns
<1>1. ASSUME NEW q \in Callers, q # p
      PROVE  CallSound(q)' /\ (call[q].turn # None => call[q].turn \in Nat /\ call[q].turn < nextTurn)
  <2>1. CallSound(q) /\ call'[q] = call[q] /\ call[q] \in Calls
    BY <1>1 DEF BaseInv, CallsSound, TypeOK
  <2>2. call[q].turn # None => call[q].turn \in Nat /\ call[q].turn < nextTurn
    BY <1>0, <2>1 DEF CallSound, Calls
  <2> QED
    BY <1>0, <2>1, <2>2 DEF CallSound, Starting
<1>2. CallsSound'
  BY <1>1 DEF CallsSound
<1>3. StartsDiffer'
  BY <1>0, <1>1 DEF BaseInv, StartsDiffer
<1>4. TasksSound'
  BY <1>0 DEF BaseInv, TasksSound, TaskSound
<1>5. SilentAfterTerminalEvent'
  BY DEF BaseInv, SilentAfterTerminalEvent
<1> QED
  BY <1>2, <1>3, <1>4, <1>5

\* No task and no call changes, only queues.
LEMMA NoCallMoves ==
    ASSUME BaseInv,
           UNCHANGED <<activeVars, pc, cancelled, ended, finishing, nextTurn, call>>
    PROVE  CallsSound' /\ StartsDiffer' /\ TasksSound' /\ SlotSound' /\ SilentAfterTerminalEvent'
  BY DEF BaseInv, CallsSound, CallSound, Starting, StartsDiffer, TasksSound, TaskSound, SlotSound,
         SilentAfterTerminalEvent, activeVars

\* What clients and other tasks put into queues.
LEMMA QueueSteps ==
    ASSUME BaseInv,
           \/ \E u \in UserInputs : UserInputSteers(u) \/ UserInputRejected(u)
           \/ \E u \in Steers, t \in Turns : SteerInput(u, t)
           \/ \E i \in Injected : InjectNoNewTurn(i)
           \/ \E t \in Turns : NotifyApproval(t)
    PROVE  BaseInv'
<1>0. TypeOK /\ \A i \in Items : <<i>> \in Seq(Items) /\ Append(history, i) \in Seq(Items)
  BY DEF BaseInv, TypeOK
<1>a. \A i \in Items : Extend(activeState, <<i>>) \in [States -> Seq(Items)]
  BY <1>0, ExtendType
<1> USE DEF stateVars, fateVars, taskVars, opVars, activeVars
<1>1. ASSUME NEW u \in UserInputs, UserInputSteers(u) \/ UserInputRejected(u)
      PROVE  BaseInv'
  <2>1. UNCHANGED <<activeVars, pc, cancelled, ended, finishing, nextTurn, call>>
    BY <1>1 DEF UserInputSteers, UserInputRejected
  <2>2. u \in Items
    BY DEF Items
  <2>3. TypeOK'
    BY <1>0, <1>1, <1>a, <2>2 DEF UserInputSteers, UserInputRejected, TypeOK
  <2> QED
    BY <2>1, <2>3, NoCallMoves DEF BaseInv
<1>2. ASSUME NEW u \in Steers, NEW t \in Turns, SteerInput(u, t)
      PROVE  BaseInv'
  <2>1. UNCHANGED <<activeVars, pc, cancelled, ended, finishing, nextTurn, call>>
    BY <1>2 DEF SteerInput
  <2>2. u \in Items
    BY DEF Items
  <2>3. TypeOK'
    BY <1>0, <1>2, <1>a, <2>2 DEF SteerInput, TypeOK
  <2> QED
    BY <2>1, <2>3, NoCallMoves DEF BaseInv
<1>3. ASSUME NEW i \in Injected, InjectNoNewTurn(i)
      PROVE  BaseInv'
  <2>1. UNCHANGED <<activeVars, pc, cancelled, ended, finishing, nextTurn, call>>
    BY <1>3 DEF InjectNoNewTurn
  <2>2. i \in Items
    BY DEF Items
  <2>3. TypeOK'
    BY <1>0, <1>3, <1>a, <2>2 DEF InjectNoNewTurn, TypeOK
  <2> QED
    BY <2>1, <2>3, NoCallMoves DEF BaseInv
<1>4. ASSUME NEW t \in Turns, NotifyApproval(t)
      PROVE  BaseInv'
  <2>1. UNCHANGED <<activeVars, pc, cancelled, ended, finishing, nextTurn, call>>
    BY <1>4 DEF NotifyApproval
  <2>2. [local[t] EXCEPT !.decision = TRUE] \in Locals
    BY <1>0, LocalFlags DEF TypeOK
  <2>3. local' = [local EXCEPT ![t] = [local[t] EXCEPT !.decision = TRUE]]
    BY <1>4 DEF NotifyApproval
  <2>4. local' \in [Turns -> Locals]
    BY <1>0, <2>2, <2>3 DEF TypeOK
  <2>5. waiters' \in [States -> SUBSET Turns]
    <3>1. \A s \in States : waiters[s] \ {t} \in SUBSET Turns
      BY <1>0 DEF TypeOK
    <3> QED
      BY <1>0, <1>4, <3>1 DEF NotifyApproval, TypeOK
  <2>6. TypeOK'
    BY <1>0, <1>4, <2>4, <2>5 DEF NotifyApproval, TypeOK
  <2> QED
    BY <2>1, <2>6, NoCallMoves DEF BaseInv
<1> QED
  BY <1>1, <1>2, <1>3, <1>4

\* What the submission loop takes from its channel.
LEMMA LoopSteps ==
    ASSUME BaseInv,
           \/ \E u \in UserInputs : UserInputStartsTurn(u)
           \/ Compact \/ Interrupt \/ Shutdown
           \/ \E m \in Mails : InterAgentCommunication(m)
    PROVE  BaseInv'
<1>0. TypeOK /\ "loop" \in Callers
  BY DEF BaseInv, Callers
<1>c. call["loop"].at = "idle" /\ CallSound("loop")
  BY <1>0 DEF UserInputStartsTurn, Compact, Interrupt, Shutdown, InterAgentCommunication,
              LoopReady, BaseInv, CallsSound
<1> USE DEF stateVars, fateVars, taskVars, opVars, activeVars
<1>s. ASSUME UNCHANGED activeVars, UNCHANGED <<pc, cancelled>>
      PROVE  SlotSound'
  BY <1>s DEF BaseInv, SlotSound
<1>1. ASSUME NEW k \in {"Regular", "Compact"}, NEW x \in Seq(Items), SpawnTask(k, x),
             UNCHANGED <<activeVars, pc, cancelled, ended, finishing>>, TypeOK'
      PROVE  BaseInv'
  <2>1. /\ nextTurn \in Turns /\ nextTurn' = nextTurn + 1
        /\ Becomes("loop", "abort_take", nextTurn, None, None, "Replaced")
    BY <1>0, <1>1, SpawnCall
  <2>2. CallSound("loop")'
    <3>1. nextTurn # None /\ nextTurn < nextTurn' /\ pc'[nextTurn] = "none"
      BY <1>1, <2>1, BoundsAssumption DEF Turns, None, BaseInv, TasksSound, TaskSound
    <3> QED
      BY <2>1, <3>1 DEF Becomes, CallSound, Starting, AbortPoints, StartPoints
  <2> QED
    BY <1>0, <1>1, <1>s, <2>1, <2>2, OneCallMoves DEF BaseInv, Becomes
<1>2. ASSUME NEW u \in UserInputs, UserInputStartsTurn(u)
      PROVE  BaseInv'
  <2>1. <<u>> \in Seq(Items) /\ u \in Items
    BY DEF Items
  <2>2. SpawnTask("Regular", <<u>>) /\ UNCHANGED <<activeVars, pc, cancelled, ended, finishing>>
    BY <1>2 DEF UserInputStartsTurn
  <2>3. nextTurn \in Turns /\ nextTurn' = nextTurn + 1 /\ call' \in [Callers -> Calls]
    BY <1>0, <2>1, <2>2, SpawnCall DEF Becomes
  <2>4. TypeOK'
    BY <1>0, <1>2, <2>1, <2>3, BoundsAssumption DEF UserInputStartsTurn, TypeOK, Turns
  <2> QED
    BY <1>1, <2>1, <2>2, <2>4
<1>3. CASE Compact
  <2>1. <<>> \in Seq(Items)
    OBVIOUS
  <2>2. SpawnTask("Compact", <<>>) /\ UNCHANGED <<activeVars, pc, cancelled, ended, finishing>>
    BY <1>3 DEF Compact
  <2>3. nextTurn \in Turns /\ nextTurn' = nextTurn + 1 /\ call' \in [Callers -> Calls]
    BY <1>0, <2>1, <2>2, SpawnCall DEF Becomes
  <2>4. TypeOK'
    BY <1>0, <1>3, <2>3, BoundsAssumption DEF Compact, TypeOK, Turns
  <2> QED
    BY <1>1, <2>1, <2>2, <2>4
<1>4. CASE Interrupt \/ Shutdown
  <2>1. /\ InterruptTask("loop") /\ UNCHANGED <<activeVars, pc, cancelled, ended, finishing, nextTurn>>
    BY <1>4 DEF Interrupt, Shutdown
  <2>2. Becomes("loop", "abort_take", None, None, None, "Interrupted")
    BY <1>0, <2>1, InterruptCall
  <2>3. call' \in [Callers -> Calls]
    BY <2>2 DEF Becomes
  <2>4. TypeOK'
    <3>1. CASE Interrupt
      BY <1>0, <3>1, <2>3, BoundsAssumption DEF Interrupt, TypeOK
    <3>2. CASE Shutdown
      BY <1>0, <3>2, <2>3, BoundsAssumption DEF Shutdown, TypeOK
    <3> QED
      BY <1>4, <3>1, <3>2
  <2>5. CallSound("loop")'
    BY <2>2 DEF Becomes, CallSound, Starting, AbortPoints, StartPoints
  <2> QED
    BY <1>0, <1>s, <2>1, <2>2, <2>4, <2>5, OneCallMoves DEF BaseInv, Becomes
<1>5. ASSUME NEW m \in Mails, InterAgentCommunication(m)
      PROVE  BaseInv'
  <2>1. /\ UNCHANGED <<activeVars, pc, cancelled, ended, finishing, nextTurn>>
        /\ Goto("loop", "pending_check") \/ UNCHANGED call
    BY <1>5 DEF InterAgentCommunication
  <2>2. m \in Items /\ mailbox' \in Seq(Mails)
    BY <1>0, <1>5 DEF InterAgentCommunication, Items, TypeOK
  <2>3. call' \in [Callers -> Calls]
    BY <1>0, <2>1, GotoCall DEF Becomes, TypeOK, CallPoints
  <2>4. TypeOK'
    BY <1>0, <1>5, <2>2, <2>3 DEF InterAgentCommunication, TypeOK
  <2>5. CASE UNCHANGED call
    BY <2>1, <2>4, <2>5, NoCallMoves DEF BaseInv
  <2>6. CASE Goto("loop", "pending_check")
    <3>1. Becomes("loop", "pending_check", call["loop"].turn, call["loop"].state,
                  call["loop"].victim, call["loop"].reason)
      BY <1>0, <2>6, GotoCall DEF CallPoints
    <3>2. CallSound("loop")'
      BY <1>c, <2>1, <3>1 DEF Becomes, CallSound, Starting, AbortPoints, StartPoints
    <3> QED
      BY <1>0, <1>s, <2>1, <2>4, <3>1, <3>2, OneCallMoves DEF BaseInv, Becomes
  <2> QED
    BY <2>1, <2>5, <2>6
<1> QED
  BY <1>2, <1>3, <1>4, <1>5

\* The steps of a call that touch no task: maybe_start_turn_for_pending_work, start_task
\* up to the installation, try_start_turn_if_idle, and an abort that waits or is over.
LEMMA CallMoves ==
    ASSUME BaseInv, NEW p \in Callers,
           \/ PendingCheck(p) \/ ReserveRefused(p) \/ Reserve(p)
           \/ StartTake(p) \/ StartDrain(p) \/ StartState(p) \/ StartExtend(p)
           \/ AbortAllFindsNoTask(p) \/ AbortGraceful(p) \/ AbortClear(p)
           \/ TryStartTurnIfIdle(p)
    PROVE  BaseInv'
<1>0. TypeOK /\ CallSound(p) /\ call[p] \in Calls
  BY DEF BaseInv, CallsSound, TypeOK
<1>1. /\ None \notin Turns /\ None \notin States
      /\ call[p].input \in Seq(Items) /\ call[p].items \in Seq(Items)
      /\ call[p].reason \in {"none", "Replaced", "Interrupted"}
  BY <1>0 DEF None, Turns, States, Calls
<1> USE DEF stateVars, fateVars, taskVars, opVars, activeVars
<1>2. ASSUME TypeOK', UNCHANGED <<pc, cancelled, ended, finishing>>,
             \/ UNCHANGED activeTask /\ (activeTask # None => activeState' # None)
             \/ activeTask' = None,
             \A q \in Callers : q # p => call'[q] = call[q],
             \/ nextTurn' = nextTurn /\ call'[p].turn \in {None, call[p].turn}
             \/ nextTurn' = nextTurn + 1 /\ nextTurn \in Turns /\ call'[p].turn = nextTurn,
             CallSound(p)'
      PROVE  BaseInv'
  <2>1. SlotSound'
    BY <1>2 DEF BaseInv, SlotSound
  <2> QED
    BY <1>2, <2>1, OneCallMoves DEF BaseInv
<1> USE DEF CallPoints, StartPoints, AbortPoints
<1>3. CASE PendingCheck(p) \/ ReserveRefused(p)
  <2>1. /\ Goto(p, "reserve") \/ Return(p)
        /\ UNCHANGED <<activeVars, pc, cancelled, ended, finishing, nextTurn>>
        /\ call[p].at \in {"pending_check", "reserve"}
    BY <1>3 DEF PendingCheck, ReserveRefused
  <2>2. \/ Becomes(p, "reserve", call[p].turn, call[p].state, call[p].victim, call[p].reason)
        \/ \E a \in {"idle", "exited"} : Becomes(p, a, None, None, None, "none")
    BY <1>0, <2>1, GotoCall, ReturnCall
  <2>3. CallSound(p)' /\ call'[p].turn \in {None, call[p].turn}
    BY <1>0, <1>1, <2>1, <2>2 DEF Becomes, CallSound, Starting
  <2>4. TypeOK'
    BY <1>0, <1>3, <2>2 DEF PendingCheck, ReserveRefused, TypeOK, Becomes
  <2> QED
    BY <1>2, <2>1, <2>2, <2>3, <2>4 DEF Becomes, BaseInv, SlotSound
<1>4. CASE Reserve(p)
  <2>1. /\ nextTurn \in Turns /\ Becomes(p, "start_take", nextTurn, None, None, "none")
        /\ nextTurn' = nextTurn + 1 /\ activeTask' = None
        /\ UNCHANGED <<pc, cancelled, ended, finishing>>
    BY <1>0, <1>4, ReservedCall DEF Reserve
  <2>2. CallSound(p)'
    <3>1. nextTurn # None /\ nextTurn < nextTurn' /\ pc'[nextTurn] = "none"
      BY <2>1, BoundsAssumption DEF Turns, None, BaseInv, TasksSound, TaskSound
    <3> QED
      BY <2>1, <3>1 DEF Becomes, CallSound, Starting
  <2>3. /\ nextTurn' \in 1 .. MaxTurns + 1
        /\ activeState' \in States /\ nextState' \in 1 .. MaxStates + 1
    <3>1. /\ nextTurn' = nextTurn + 1 /\ nextTurn <= MaxTurns
          /\ activeState' = nextState /\ nextState' = nextState + 1 /\ nextState <= MaxStates
      BY <1>4 DEF Reserve
    <3>2. nextTurn \in 1 .. MaxTurns + 1 /\ nextState \in 1 .. MaxStates + 1
      BY <1>0 DEF TypeOK
    <3> QED
      BY <3>1, <3>2, BoundsAssumption DEF States
  <2>4. TypeOK'
    BY <1>0, <1>4, <2>1, <2>3 DEF Reserve, TypeOK, Becomes
  <2> QED
    BY <1>2, <2>1, <2>2, <2>4 DEF Becomes
<1>5. CASE StartTake(p)
  <2>1. /\ \E a \in {"start_drain", "start_state"} :
             Becomes(p, a, call[p].turn, call[p].state, call[p].victim, call[p].reason)
        /\ UNCHANGED <<activeVars, pc, cancelled, ended, finishing, nextTurn>>
        /\ call[p].at = "start_take"
    BY <1>0, <1>5, StartTakeCall DEF StartTake
  <2>2. CallSound(p)'
    BY <1>0, <2>1 DEF Becomes, CallSound, Starting
  <2>3. TypeOK'
    BY <1>0, <1>5, <2>1, PendingType DEF StartTake, TypeOK, Becomes
  <2> QED
    BY <1>2, <2>1, <2>2, <2>3 DEF Becomes, BaseInv, SlotSound
<1>6. CASE StartDrain(p)
  <2>1. /\ Becomes(p, "start_state", call[p].turn, call[p].state, call[p].victim, call[p].reason)
        /\ UNCHANGED <<activeVars, pc, cancelled, ended, finishing, nextTurn>>
        /\ call[p].at = "start_drain" /\ mailbox' = <<>>
    BY <1>0, <1>6, StartDrainCall DEF StartDrain
  <2>2. CallSound(p)'
    BY <1>0, <2>1 DEF Becomes, CallSound, Starting
  <2>3. TypeOK'
    BY <1>0, <1>6, <2>1 DEF StartDrain, TypeOK, Becomes
  <2> QED
    BY <1>2, <2>1, <2>2, <2>3 DEF Becomes, BaseInv, SlotSound
<1>7. CASE StartState(p)
  <2>1. /\ Becomes(p, "start_extend", call[p].turn, SlotAfterInsert, call[p].victim, call[p].reason)
        /\ activeState' = SlotAfterInsert
        /\ SlotAfterInsert \in States /\ NextStateAfterInsert \in 1 .. MaxStates + 1
        /\ UNCHANGED <<activeTask, pc, cancelled, ended, finishing, nextTurn>>
        /\ call[p].at = "start_state"
    BY <1>0, <1>7, StartStateCall, InsertType DEF StartState
  <2>2. CallSound(p)'
    BY <1>0, <2>1 DEF Becomes, CallSound, Starting
  <2>3. overwritten' \in BOOLEAN
    BY <1>0, <1>7, Zenon DEF StartState, TypeOK
  <2>4. TypeOK'
    BY <1>0, <1>7, <2>1, <2>3 DEF StartState, TypeOK, Becomes
  <2> QED
    BY <1>1, <1>2, <2>1, <2>2, <2>4 DEF Becomes
<1>8. CASE StartExtend(p)
  <2>1. /\ Becomes(p, "start_install", call[p].turn, None, call[p].victim, call[p].reason)
        /\ UNCHANGED <<activeVars, pc, cancelled, ended, finishing, nextTurn>>
        /\ call[p].at = "start_extend" /\ pendingInput' = Extend(call[p].state, call[p].items)
    BY <1>0, <1>8, StartExtendCall DEF StartExtend
  <2>2. CallSound(p)'
    BY <1>0, <2>1 DEF Becomes, CallSound, Starting
  <2>3. pendingInput' \in [States -> Seq(Items)]
    BY <1>0, <1>1, <2>1, ExtendType
  <2>4. TypeOK'
    BY <1>0, <1>8, <2>1, <2>3 DEF StartExtend, TypeOK, Becomes
  <2> QED
    BY <1>2, <2>1, <2>2, <2>4 DEF Becomes, BaseInv, SlotSound
<1>9. CASE AbortAllFindsNoTask(p)
  <2>1. /\ call[p].at = "abort_take" /\ activeState' = None /\ activeTask' = None
        /\ \/ call[p].reason = "Replaced" /\ Goto(p, "start_take")
           \/ call[p].reason # "Replaced" /\ Return(p)
        /\ UNCHANGED <<pc, cancelled, ended, finishing, nextTurn>>
    BY <1>9 DEF AbortAllFindsNoTask
  <2>2. \/ /\ call[p].reason = "Replaced"
           /\ Becomes(p, "start_take", call[p].turn, call[p].state, call[p].victim, call[p].reason)
        \/ \E a \in {"idle", "exited"} : Becomes(p, a, None, None, None, "none")
    BY <1>0, <2>1, GotoCall, ReturnCall
  <2>3. CallSound(p)' /\ call'[p].turn \in {None, call[p].turn}
    BY <1>0, <1>1, <2>1, <2>2 DEF Becomes, CallSound, Starting
  <2>4. TypeOK'
    BY <1>0, <1>9, <2>2 DEF AbortAllFindsNoTask, TypeOK, Becomes
  <2> QED
    BY <1>2, <2>1, <2>2, <2>3, <2>4 DEF Becomes
<1>10. CASE AbortGraceful(p)
  <2>1. /\ Becomes(p, "abort_emit", call[p].turn, call[p].state, call[p].victim, call[p].reason)
        /\ UNCHANGED <<activeVars, pc, cancelled, ended, finishing, nextTurn>>
        /\ call[p].at = "abort_wait" /\ pc[call[p].victim] = "done"
    BY <1>0, <1>10, GotoCall DEF AbortGraceful
  <2>2. CallSound(p)'
    BY <1>0, <2>1 DEF Becomes, CallSound, Starting
  <2>3. TypeOK'
    BY <1>0, <1>10, <2>1 DEF AbortGraceful, TypeOK, Becomes
  <2> QED
    BY <1>2, <2>1, <2>2, <2>3 DEF Becomes, BaseInv, SlotSound
<1>11. CASE AbortClear(p)
  <2>1. /\ \E a \in {"start_take", "pending_check"} :
             /\ a = "start_take" <=> call[p].reason = "Replaced"
             /\ Becomes(p, a, call[p].turn, None, None, "none")
        /\ UNCHANGED <<activeVars, pc, cancelled, ended, finishing, nextTurn>>
        /\ call[p].at = "abort_clear"
    BY <1>0, <1>11, ClearCall DEF AbortClear
  <2>2. CallSound(p)'
    BY <1>0, <2>1 DEF Becomes, CallSound, Starting
  <2>3. Elems(pendingInput[call[p].state]) \subseteq Items
    BY <1>0, <2>1, ElemsType DEF CallSound, TypeOK
  <2>4. /\ pendingInput' = [pendingInput EXCEPT ![call[p].state] = <<>>]
        /\ waiters' = [waiters EXCEPT ![call[p].state] = {}]
        /\ discarded' = discarded \cup Elems(pendingInput[call[p].state])
        /\ UNCHANGED <<activeVars, phase, nextState, mailbox, history, taskVars, nextTurn, opVars,
                       started, ended, rejected, overwritten>>
    BY <1>11 DEF AbortClear
  <2>5. TypeOK'
    <3>1. call' \in [Callers -> Calls]
      BY <2>1 DEF Becomes
    <3>2. pendingInput' \in [States -> Seq(Items)]
      <4>1. pendingInput \in [States -> Seq(Items)] /\ <<>> \in Seq(Items)
        BY <1>0 DEF TypeOK
      <4> QED
        BY <2>4, <4>1
    <3>3. waiters' \in [States -> SUBSET Turns]
      BY <1>0, <2>4, {} \in SUBSET Turns DEF TypeOK
    <3> QED
      BY <1>0, <2>3, <2>4, <3>1, <3>2, <3>3 DEF TypeOK
  <2> QED
    BY <1>2, <2>1, <2>2, <2>5 DEF Becomes, BaseInv, SlotSound
<1>12. CASE TryStartTurnIfIdle(p)
  <2>1. call[p].turn = None /\ Elems(call[p].input) \subseteq Items
    BY <1>0, <1>1, <1>12, ElemsType DEF CallSound, Starting, TryStartTurnIfIdle, IdleCheck,
         IdleReserve, IdleRecheck, IdleRelease, IdleConfirm, IdleExtend
  <2>2. CASE IdleCheck(p)
    <3>1. /\ \/ IdleReject(p, "idle")
             \/ Goto(p, "idle_reserve") /\ UNCHANGED rejected
          /\ UNCHANGED <<activeVars, pc, cancelled, ended, finishing, nextTurn>>
      BY <2>2 DEF IdleCheck
    <3>2. \/ Becomes(p, "idle", None, None, None, "none")
          \/ Becomes(p, "idle_reserve", None, call[p].state, call[p].victim, call[p].reason)
      BY <1>0, <2>1, <3>1, GotoCall, RejectCall
    <3>3. CallSound(p)'
      BY <3>2 DEF Becomes, CallSound, Starting
    <3>4. rejected' \subseteq Items
      BY <1>0, <2>1, <3>1 DEF IdleReject, TypeOK
    <3>5. TypeOK'
      BY <1>0, <2>2, <3>2, <3>4 DEF IdleCheck, TypeOK, Becomes
    <3> QED
      BY <1>2, <3>1, <3>2, <3>3, <3>5 DEF Becomes, BaseInv, SlotSound
  <2>3. CASE IdleReserve(p) /\ activeState # None
    <3>1. IdleReject(p, "idle") /\ UNCHANGED <<activeVars, pc, cancelled, ended, finishing, nextTurn>>
      BY <2>3 DEF IdleReserve
    <3>2. Becomes(p, "idle", None, None, None, "none")
      BY <1>0, <3>1, RejectCall
    <3>3. CallSound(p)'
      BY <3>2 DEF Becomes, CallSound, Starting
    <3>4. rejected' \subseteq Items
      BY <1>0, <2>1, <3>1 DEF IdleReject, TypeOK
    <3>5. TypeOK'
      BY <1>0, <2>3, <3>2, <3>4 DEF IdleReserve, TypeOK, Becomes
    <3> QED
      BY <1>2, <3>1, <3>2, <3>3, <3>5 DEF Becomes, BaseInv, SlotSound
  <2>4. CASE IdleReserve(p) /\ activeState = None
    <3>1. /\ Becomes(p, "idle_recheck", None, nextState, call[p].victim, call[p].reason)
          /\ activeTask' = None /\ UNCHANGED <<pc, cancelled, ended, finishing, nextTurn>>
      BY <1>0, <2>1, <2>4, IdleReserveCall DEF IdleReserve
    <3>2. CallSound(p)'
      BY <3>1 DEF Becomes, CallSound, Starting
    <3>3. activeState' \in States /\ nextState' \in 1 .. MaxStates + 1
      <4>1. activeState' = nextState /\ nextState' = nextState + 1 /\ nextState <= MaxStates
        BY <2>4 DEF IdleReserve
      <4>2. nextState \in 1 .. MaxStates + 1
        BY <1>0 DEF TypeOK
      <4> QED
        BY <4>1, <4>2, BoundsAssumption DEF States
    <3>4. TypeOK'
      BY <1>0, <2>4, <3>1, <3>3 DEF IdleReserve, TypeOK, Becomes
    <3> QED
      BY <1>2, <3>1, <3>2, <3>4 DEF Becomes
  <2>5. CASE IdleRecheck(p) \/ IdleConfirm(p)
    <3>1. /\ \E a \in {"idle_release", "idle_confirm", "idle_extend", "idle_busy"} : Goto(p, a)
          /\ UNCHANGED <<activeVars, pc, cancelled, ended, finishing, nextTurn>>
      BY <2>5 DEF IdleRecheck, IdleConfirm
    <3>2. \E a \in {"idle_release", "idle_confirm", "idle_extend", "idle_busy"} :
             Becomes(p, a, None, call[p].state, call[p].victim, call[p].reason)
      BY <1>0, <2>1, <3>1, GotoCall
    <3>3. CallSound(p)'
      BY <3>2 DEF Becomes, CallSound, Starting
    <3>4. TypeOK'
      BY <1>0, <2>5, <3>2 DEF IdleRecheck, IdleConfirm, TypeOK, Becomes
    <3> QED
      BY <1>2, <3>1, <3>2, <3>3, <3>4 DEF Becomes, BaseInv, SlotSound
  <2>6. CASE IdleRelease(p)
    <3>1. /\ \E a \in {"idle", "pending_check"} : IdleReject(p, a)
          /\ activeState' = activeState \/ (activeState' = None /\ activeTask = None)
          /\ UNCHANGED <<activeTask, pc, cancelled, ended, finishing, nextTurn>>
      BY <2>6 DEF IdleRelease
    <3>2. \E a \in {"idle", "pending_check"} : Becomes(p, a, None, None, None, "none")
      BY <1>0, <2>1, <3>1, RejectCall
    <3>3. CallSound(p)'
      BY <3>2 DEF Becomes, CallSound, Starting
    <3>4. rejected' \subseteq Items
      BY <1>0, <2>1, <3>1 DEF IdleReject, TypeOK
    <3>5. TypeOK'
      BY <1>0, <2>6, <3>1, <3>2, <3>4 DEF IdleRelease, TypeOK, Becomes
    <3> QED
      BY <1>2, <3>1, <3>2, <3>3, <3>5 DEF Becomes, BaseInv, SlotSound
  <2>7. CASE IdleExtend(p)
    <3>1. /\ nextTurn \in Turns /\ Becomes(p, "start_take", nextTurn, None, None, "none")
          /\ nextTurn' = nextTurn + 1
          /\ UNCHANGED <<activeVars, pc, cancelled, ended, finishing>>
      BY <1>0, <2>7, ReservedCall DEF IdleExtend
    <3>2. CallSound(p)'
      <4>1. nextTurn # None /\ nextTurn < nextTurn' /\ pc'[nextTurn] = "none"
        BY <3>1, BoundsAssumption DEF Turns, None, BaseInv, TasksSound, TaskSound
      <4> QED
        BY <3>1, <4>1 DEF Becomes, CallSound, Starting
    <3>3. pendingInput' \in [States -> Seq(Items)]
      BY <1>0, <1>1, <2>7, ExtendType DEF IdleExtend
    <3>4. nextTurn' \in 1 .. MaxTurns + 1
      BY <3>1, BoundsAssumption DEF Turns
    <3>5. TypeOK'
      BY <1>0, <2>7, <3>1, <3>3, <3>4 DEF IdleExtend, TypeOK, Becomes
    <3> QED
      BY <1>2, <3>1, <3>2, <3>5 DEF Becomes, BaseInv, SlotSound
  <2> QED
    BY <1>12, <2>2, <2>3, <2>4, <2>5, <2>6, <2>7 DEF TryStartTurnIfIdle
<1> QED
  BY <1>3, <1>4, <1>5, <1>6, <1>7, <1>8, <1>9, <1>10, <1>11, <1>12

\* A task is taken out of the slot and cancelled.
LEMMA TaskTaken ==
    ASSUME BaseInv, NEW p \in Callers, NEW r \in {"none", "Replaced", "Interrupted"},
           HasActiveTask, TakeAndCancel(p, r), Starting(call[p]) <=> r = "Replaced",
           call[p].turn # None <=> r = "Replaced"
    PROVE  /\ BaseInv'
           /\ Becomes(p, "abort_wait", call[p].turn, activeState, activeTask, r)
<1>0. /\ TypeOK /\ CallSound(p) /\ call[p] \in Calls
      /\ activeTask \in Turns /\ activeState \in States
      /\ pc[activeTask] # "none" /\ ~cancelled[activeTask]
  BY DEF BaseInv, CallsSound, TypeOK, HasActiveTask, SlotSound
<1>1. Becomes(p, "abort_wait", call[p].turn, activeState, activeTask, r)
  BY <1>0, TakeCall
<1>2. /\ cancelled' = [cancelled EXCEPT ![activeTask] = TRUE]
      /\ activeState' = None /\ activeTask' = None
      /\ UNCHANGED <<stateVars, nextState, mailbox, history, pc, kind, local, finishing, nextTurn,
                     opVars, fateVars>>
  BY DEF TakeAndCancel
<1> USE DEF stateVars, fateVars, opVars
<1>3. TypeOK'
  <2>1. cancelled' \in [Turns -> BOOLEAN]
    BY <1>0, <1>2 DEF TypeOK
  <2> QED
    BY <1>0, <1>1, <1>2, <2>1 DEF TypeOK, Becomes
<1>4. ASSUME NEW q \in Callers
      PROVE  CallSound(q)'
  <2>1. CASE q = p
    BY <1>0, <1>1, <1>2, <2>1 DEF Becomes, CallSound, Starting, AbortPoints, StartPoints
  <2>2. CASE q # p
    BY <1>1, <1>2, <2>2 DEF Becomes, BaseInv, CallsSound, CallSound, Starting
  <2> QED
    BY <2>1, <2>2
<1>5. StartsDiffer'
  BY <1>1 DEF Becomes, BaseInv, StartsDiffer
<1>6. TasksSound'
  BY <1>0, <1>2 DEF BaseInv, TasksSound, TaskSound, TypeOK
<1>7. SlotSound' /\ SilentAfterTerminalEvent'
  BY <1>2 DEF BaseInv, SlotSound, SilentAfterTerminalEvent
<1> QED
  BY <1>1, <1>3, <1>4, <1>5, <1>6, <1>7 DEF BaseInv, CallsSound

\* abort_all_tasks of any caller, abort_turn_if_active of the guardian.
LEMMA TakeSteps ==
    ASSUME BaseInv,
           \/ \E p \in Callers : AbortAllTakesTask(p)
           \/ \E t \in Turns : AbortTurnIfActive(t)
    PROVE  BaseInv'
<1>1. ASSUME NEW p \in Callers, AbortAllTakesTask(p)
      PROVE  BaseInv'
  <2>1. call[p] \in Calls /\ CallSound(p) /\ call[p].at = "abort_take" /\ HasActiveTask
        /\ TakeAndCancel(p, call[p].reason)
    BY <1>1 DEF BaseInv, TypeOK, CallsSound, AbortAllTakesTask
  <2>2. /\ call[p].reason \in {"none", "Replaced", "Interrupted"}
        /\ Starting(call[p]) <=> call[p].reason = "Replaced"
        /\ call[p].turn # None <=> call[p].reason = "Replaced"
    BY <2>1 DEF Calls, CallSound, Starting, StartPoints
  <2> QED
    BY <2>1, <2>2, TaskTaken
<1>2. ASSUME NEW t \in Turns, AbortTurnIfActive(t)
      PROVE  BaseInv'
  <2>1. /\ "guardian" \in Callers /\ CallSound("guardian") /\ call["guardian"].at = "idle"
        /\ HasActiveTask /\ TakeAndCancel("guardian", "Interrupted")
    BY <1>2 DEF Callers, BaseInv, CallsSound, AbortTurnIfActive
  <2>2. ~Starting(call["guardian"]) /\ call["guardian"].turn = None
    BY <2>1 DEF CallSound, Starting, StartPoints, AbortPoints
  <2> QED
    BY <2>1, <2>2, TaskTaken
<1> QED
  BY <1>1, <1>2

\* start_task stores the task.
LEMMA InstallStep ==
    ASSUME BaseInv, NEW p \in Callers, StartInstall(p)
    PROVE  BaseInv'
<1> DEFINE n == call[p].turn
<1>0. TypeOK /\ CallSound(p) /\ call[p] \in Calls /\ call[p].at = "start_install" /\ CanInsert
  BY DEF BaseInv, CallsSound, TypeOK, StartInstall
<1>1. /\ n \in Turns /\ n < nextTurn /\ pc[n] = "none" /\ ~cancelled[n] /\ ended[n] = 0
      /\ call[p].kind \in {"Regular", "Compact"} /\ call[p].input \in Seq(Items)
  BY <1>0 DEF CallSound, Starting, StartPoints, Calls, BaseInv, TasksSound, TaskSound
<1>2. PICK a \in {"idle", "exited"} : Becomes(p, a, None, None, None, "none")
  BY <1>0, ReturnCall DEF StartInstall
<1>3. /\ activeState' = SlotAfterInsert /\ nextState' = NextStateAfterInsert
      /\ activeTask' = n /\ overwritten' = (overwritten \/ activeTask # None)
      /\ kind' = [kind EXCEPT ![n] = call[p].kind]
      /\ local' = [local EXCEPT ![n] = [local[n] EXCEPT !.input = call[p].input]]
      /\ UNCHANGED <<stateVars, mailbox, history, cancelled, finishing, nextTurn, opVars, started,
                     ended, rejected, discarded>>
  BY DEF StartInstall
<1>4. /\ pc' \in [Turns -> TaskPoints] /\ pc'[n] = "begin"
      /\ \A t \in Turns : t # n => pc'[t] = pc[t] \/ (pc'[t] = "killed" /\ t = activeTask)
  <2>1. pc' = [t \in Turns |->
                 CASE t = n -> "begin"
                   [] t = activeTask /\ t # n -> "killed"
                   [] OTHER -> pc[t]]
    BY DEF StartInstall
  <2> HIDE DEF n
  <2>2. \A t \in Turns : /\ t = n => pc'[t] = "begin"
                         /\ t # n => pc'[t] = pc[t] \/ (pc'[t] = "killed" /\ t = activeTask)
    BY <2>1
  <2>3. \A t \in Turns : pc'[t] \in TaskPoints
    BY <1>0, <2>2 DEF TypeOK, TaskPoints, RunPoints
  <2> QED
    BY <1>1, <2>1, <2>2, <2>3
<1> USE DEF stateVars, fateVars, opVars
<1>5. TypeOK'
  <2>1. local' \in [Turns -> Locals]
    <3>1. [local[n] EXCEPT !.input = call[p].input] \in Locals
      BY <1>0, <1>1, LocalInput DEF TypeOK
    <3> QED
      BY <1>0, <1>3, <3>1 DEF TypeOK
  <2>2. kind' \in [Turns -> {"Regular", "Compact"}]
    BY <1>0, <1>1, <1>3 DEF TypeOK
  <2>3. activeState' \in States /\ nextState' \in 1 .. MaxStates + 1
    BY <1>0, <1>3, InsertType
  <2>4. overwritten' \in BOOLEAN
    BY <1>0, <1>3, Zenon DEF TypeOK
  <2>5. call' \in [Callers -> Calls]
    BY <1>2 DEF Becomes
  <2> QED
    BY <1>0, <1>1, <1>3, <1>4, <2>1, <2>2, <2>3, <2>4, <2>5 DEF TypeOK
<1>6. ASSUME NEW q \in Callers
      PROVE  CallSound(q)'
  <2>1. CASE q = p
    BY <1>2, <2>1 DEF Becomes, CallSound, Starting, AbortPoints, StartPoints
  <2>2. CASE q # p
    <3>1. /\ CallSound(q) /\ call'[q] = call[q] /\ call[q] \in Calls /\ nextTurn' = nextTurn
          /\ call[q].turn # None => call[q].turn # n
      BY <1>0, <1>1, <1>2, <1>3, <2>2
      DEF Becomes, BaseInv, CallsSound, StartsDiffer, TypeOK
    <3>2. call[q].turn # None => call[q].turn \in Turns /\ pc'[call[q].turn] = "none"
      <4>1. call[q].turn # None => call[q].turn \in Turns /\ pc[call[q].turn] = "none"
        BY <3>1 DEF CallSound, Calls
      <4>2. activeTask # None => pc[activeTask] # "none"
        BY DEF BaseInv, SlotSound
      <4>3. None \notin Turns
        BY DEF None, Turns
      <4> QED
        BY <1>4, <3>1, <4>1, <4>2, <4>3
    <3>3. call[q].at \in AbortPoints =>
              /\ call[q].victim \in Turns /\ pc'[call[q].victim] # "none"
              /\ pc[call[q].victim] \in {"done", "killed"} =>
                     pc'[call[q].victim] \in {"done", "killed"}
      BY <1>1, <1>4, <3>1 DEF CallSound
    <3>4. call[q].at = "abort_emit" => call[q].at \in AbortPoints
      BY DEF AbortPoints
    <3> QED
      BY <3>1, <3>2, <3>3, <3>4 DEF CallSound, Starting
  <2> QED
    BY <2>1, <2>2
<1>7. StartsDiffer'
  BY <1>2 DEF Becomes, BaseInv, StartsDiffer
<1>8. TasksSound'
  <2>1. ASSUME NEW t \in Turns
        PROVE  TaskSound(t)'
    <3>1. TaskSound(t) /\ nextTurn' = nextTurn /\ t \in Nat
      BY <1>3 DEF BaseInv, TasksSound, Turns
    <3>a. nextTurn \in Nat
      BY <1>0, BoundsAssumption DEF TypeOK
    <3> HIDE DEF n
    <3>b. n \in Nat
      BY <1>1 DEF Turns
    <3>2. activeTask = t => pc[t] # "none"
      BY DEF BaseInv, SlotSound, None, Turns
    <3> QED
      BY <1>1, <1>3, <1>4, <3>1, <3>2, <3>a, <3>b DEF TaskSound
  <2> QED
    BY <2>1 DEF TasksSound
<1>9. SlotSound'
  <2>1. activeState' # None
    BY <1>0, <1>3, InsertType DEF States, None
  <2> QED
    BY <1>1, <1>3, <1>4, <2>1 DEF SlotSound
<1>10. SilentAfterTerminalEvent'
  BY <1>1, <1>3, <1>4 DEF BaseInv, SilentAfterTerminalEvent
<1> QED
  BY <1>5, <1>6, <1>7, <1>8, <1>9, <1>10 DEF BaseInv, CallsSound

\* One task moves, and at most a call that aborts it.
LEMMA OneTaskMoves ==
    ASSUME BaseInv, NEW t \in Turns, pc[t] # "none", pc'[t] # "none",
           pc[t] \in {"done", "killed"} => pc'[t] \in {"done", "killed"},
           \A u \in Turns : u # t => pc'[u] = pc[u] /\ ended'[u] = ended[u]
                                     /\ finishing'[u] = finishing[u],
           UNCHANGED <<cancelled, nextTurn>>,
           ended'[t] > 0 => pc'[t] \in {"fin_clear", "done", "killed"},
           pc'[t] \in {"fin_take", "fin_record", "fin_emit", "fin_clear"} =>
               finishing'[t] \in States,
           \/ UNCHANGED activeTask /\ (activeTask # None => activeState' # None)
           \/ activeTask' = None,
           \A q \in Callers :
               \/ call'[q] = call[q]
               \/ /\ call[q].at \in AbortPoints /\ call'[q].at \in AbortPoints
                  /\ call'[q].turn = call[q].turn /\ call'[q].state = call[q].state
                  /\ call'[q].victim = call[q].victim /\ call'[q].reason = call[q].reason
                  /\ call'[q].at = "abort_emit" => pc'[call[q].victim] \in {"done", "killed"}
    PROVE  CallsSound' /\ StartsDiffer' /\ TasksSound' /\ SlotSound' /\ SilentAfterTerminalEvent'
<1>0. /\ TypeOK /\ CallsSound /\ StartsDiffer /\ TasksSound /\ SlotSound
      /\ SilentAfterTerminalEvent
  BY DEF BaseInv
<1>1. ASSUME NEW q \in Callers
      PROVE  CallSound(q)' /\ call'[q].turn = call[q].turn
  <2>1. CallSound(q) /\ call[q] \in Calls
    BY <1>0 DEF CallsSound, TypeOK
  <2>2. call'[q].turn = call[q].turn
    OBVIOUS
  <2>3. call[q].turn # None => call[q].turn \in Turns /\ pc'[call[q].turn] = "none"
    BY <2>1 DEF CallSound, Calls
  <2>4. call[q].at \in AbortPoints =>
            /\ call[q].victim \in Turns /\ pc'[call[q].victim] # "none"
            /\ pc[call[q].victim] \in {"done", "killed"} =>
                   pc'[call[q].victim] \in {"done", "killed"}
    BY <2>1 DEF CallSound
  <2>5. CASE call'[q] = call[q]
    <3>1. call[q].at = "abort_emit" => call[q].at \in AbortPoints
      BY DEF AbortPoints
    <3> QED
      BY <2>1, <2>3, <2>4, <2>5, <3>1 DEF CallSound, Starting
  <2>6. CASE ~(call'[q] = call[q])
    <3>1. /\ call[q].at \in AbortPoints /\ call'[q].at \in AbortPoints
          /\ call'[q].state = call[q].state
          /\ call'[q].victim = call[q].victim /\ call'[q].reason = call[q].reason
          /\ call'[q].at = "abort_emit" => pc'[call[q].victim] \in {"done", "killed"}
      BY <2>6
    <3>2. Starting(call[q])' <=> Starting(call[q])
      BY <3>1 DEF Starting, AbortPoints, StartPoints
    <3>3. call'[q].at # "start_extend"
      BY <3>1 DEF AbortPoints
    <3> QED
      BY <2>1, <2>2, <2>3, <2>4, <3>1, <3>2, <3>3 DEF CallSound
  <2> QED
    BY <2>2, <2>5, <2>6
<1>2. StartsDiffer'
  BY <1>0, <1>1 DEF StartsDiffer
<1>3. TasksSound'
  BY <1>0 DEF TasksSound, TaskSound
<1>4. SlotSound'
  BY <1>0 DEF SlotSound, TypeOK
<1>5. SilentAfterTerminalEvent'
  BY <1>0 DEF SilentAfterTerminalEvent
<1> QED
  BY <1>1, <1>2, <1>3, <1>4, <1>5 DEF CallsSound

\* The grace period is over, or the aborted turn's event is sent.
LEMMA AbortEnds ==
    ASSUME BaseInv, NEW p \in Callers, AbortTimeout(p) \/ AbortEmit(p)
    PROVE  BaseInv'
<1> DEFINE v == call[p].victim
<1>0. /\ TypeOK /\ CallSound(p) /\ call[p] \in Calls
      /\ call[p].at \in {"abort_wait", "abort_emit"}
  BY DEF BaseInv, CallsSound, TypeOK, AbortTimeout, AbortEmit
<1>1. v \in Turns /\ call[p].state \in States /\ pc[v] # "none"
  BY <1>0 DEF CallSound, AbortPoints
<1> USE DEF stateVars, fateVars, taskVars, opVars, activeVars
<1>2. CASE AbortTimeout(p)
  <2>1. Becomes(p, "abort_emit", call[p].turn, call[p].state, v, call[p].reason)
    BY <1>0, <1>2, GotoCall DEF AbortTimeout, CallPoints, AbortPoints
  <2>2. /\ pc' = [pc EXCEPT ![v] = "killed"]
        /\ discarded' = discarded \cup Elems(local[v].input) \cup Elems(local[v].taken)
        /\ local' = [local EXCEPT ![v] = NoLocal]
        /\ UNCHANGED <<activeVars, stateVars, nextState, mailbox, history, kind, cancelled,
                       finishing, nextTurn, opVars, started, ended, rejected, overwritten>>
    BY <1>2 DEF AbortTimeout
  <2> HIDE DEF v
  <2>3. discarded' \subseteq Items
    <3>1. local[v] \in Locals
      BY <1>0, <1>1 DEF TypeOK
    <3>2. Elems(local[v].input) \subseteq Items /\ Elems(local[v].taken) \subseteq Items
      BY <3>1, LocalIs, ElemsType
    <3> QED
      BY <1>0, <2>2, <3>2 DEF TypeOK
  <2>4. TypeOK'
    <3>1. pc' \in [Turns -> TaskPoints]
      BY <1>0, <2>2 DEF TypeOK, TaskPoints
    <3>2. local' \in [Turns -> Locals]
      BY <1>0, <2>2, NoLocalType DEF TypeOK
    <3> QED
      BY <1>0, <2>1, <2>2, <2>3, <3>1, <3>2 DEF TypeOK, Becomes
  <2>5. /\ pc'[v] = "killed"
        /\ \A u \in Turns : u # v => pc'[u] = pc[u]
    BY <1>0, <1>1, <2>2 DEF TypeOK
  <2>6. call'[p].at \in AbortPoints /\ call[p].at \in AbortPoints
    BY <1>0, <2>1 DEF Becomes, AbortPoints
  <2>7. \A q \in Callers :
               \/ call'[q] = call[q]
               \/ /\ call[q].at \in AbortPoints /\ call'[q].at \in AbortPoints
                  /\ call'[q].turn = call[q].turn /\ call'[q].state = call[q].state
                  /\ call'[q].victim = call[q].victim /\ call'[q].reason = call[q].reason
                  /\ call'[q].at = "abort_emit" => pc'[call[q].victim] \in {"done", "killed"}
    BY <2>1, <2>5, <2>6 DEF Becomes, v
  <2>8. UNCHANGED activeTask /\ (activeTask # None => activeState' # None)
    BY <2>2 DEF BaseInv, SlotSound
  <2>9. CallsSound' /\ StartsDiffer' /\ TasksSound' /\ SlotSound' /\ SilentAfterTerminalEvent'
    BY <1>1, <2>2, <2>5, <2>7, <2>8, OneTaskMoves
  <2> QED
    BY <2>4, <2>9 DEF BaseInv
<1>3. CASE AbortEmit(p)
  <2>1. Becomes(p, "abort_clear", call[p].turn, call[p].state, v, call[p].reason)
    BY <1>0, <1>3, GotoCall DEF AbortEmit, CallPoints, AbortPoints
  <2>2. /\ ended' = [ended EXCEPT ![v] = ended[v] + 1] /\ pc[v] \in {"done", "killed"}
        /\ UNCHANGED <<activeVars, stateVars, nextState, mailbox, history, taskVars, nextTurn,
                       opVars, started, rejected, discarded, overwritten>>
    BY <1>0, <1>3 DEF AbortEmit, CallSound
  <2> HIDE DEF v
  <2>3. ended' \in [Turns -> Nat] /\ \A u \in Turns : u # v => ended'[u] = ended[u]
    BY <1>0, <1>1, <2>2 DEF TypeOK
  <2>4. TypeOK'
    BY <1>0, <2>1, <2>2, <2>3 DEF TypeOK, Becomes
  <2>6. call'[p].at \in AbortPoints /\ call[p].at \in AbortPoints
    BY <1>0, <2>1 DEF Becomes, AbortPoints
  <2>7. \A q \in Callers :
               \/ call'[q] = call[q]
               \/ /\ call[q].at \in AbortPoints /\ call'[q].at \in AbortPoints
                  /\ call'[q].turn = call[q].turn /\ call'[q].state = call[q].state
                  /\ call'[q].victim = call[q].victim /\ call'[q].reason = call[q].reason
                  /\ call'[q].at = "abort_emit" => pc'[call[q].victim] \in {"done", "killed"}
    BY <2>1, <2>6 DEF Becomes, v
  <2>8. UNCHANGED activeTask /\ (activeTask # None => activeState' # None)
    BY <2>2 DEF BaseInv, SlotSound
  <2>9. /\ UNCHANGED <<pc, cancelled, finishing, nextTurn>>
        /\ pc[v] \in {"fin_clear", "done", "killed"}
        /\ pc[v] \notin {"fin_take", "fin_record", "fin_emit", "fin_clear"}
    BY <2>2
  <2>10. CallsSound' /\ StartsDiffer' /\ TasksSound' /\ SlotSound' /\ SilentAfterTerminalEvent'
    BY <1>1, <2>3, <2>7, <2>8, <2>9, OneTaskMoves
  <2> QED
    BY <2>4, <2>10 DEF BaseInv
<1> QED
  BY <1>2, <1>3

\* An extension offers work.
LEMMA OfferSteps ==
    ASSUME BaseInv, NEW i \in IdleItems, OfferIdleWork(i)
    PROVE  BaseInv'
<1>0. TypeOK /\ "extension" \in Callers /\ i \in Items
  BY DEF BaseInv, Callers, Items
<1>1. Becomes("extension", "idle_check", None, None, None, "none")
  BY <1>0, OfferCall
<1>2. /\ submitted' = submitted \cup {i}
      /\ UNCHANGED <<activeVars, stateVars, nextState, mailbox, history, taskVars, nextTurn,
                     interrupts, compacts, shutdowns, fateVars>>
  BY DEF OfferIdleWork
<1> USE DEF stateVars, fateVars, taskVars, activeVars
<1>3. TypeOK'
  BY <1>0, <1>1, <1>2 DEF TypeOK, Becomes
<1>4. CallSound("extension")'
  BY <1>1 DEF Becomes, CallSound, Starting, AbortPoints, StartPoints
<1>5. SlotSound'
  BY <1>2 DEF BaseInv, SlotSound
<1> QED
  BY <1>0, <1>1, <1>2, <1>3, <1>4, <1>5, OneCallMoves DEF BaseInv, Becomes

\* A step of a run.
LEMMA RunSteps ==
    ASSUME BaseInv, NEW t \in Turns, RunStep(t)
    PROVE  BaseInv'
<1>0. TypeOK /\ TaskSound(t) /\ SilentAfterTerminalEvent /\ SlotSound
  BY DEF BaseInv, TasksSound
<1>1. RunMoves(t) /\ RunTypeOK'
  BY <1>0, RunTypes
<1>2. TypeOK'
  BY <1>0, <1>1 DEF TypeOK, RunMoves, RunTypeOK, RunVars, activeVars, opVars
<1>3. /\ UNCHANGED <<activeState, activeTask, cancelled, finishing, nextTurn, call, ended>>
      /\ \A u \in Turns : u # t => pc'[u] = pc[u]
      /\ \/ pc[t] \in RunPoints /\ pc'[t] \in RunPoints \cup {"finish"}
         \/ pc[t] = "fin_record" /\ pc'[t] \in {"fin_record", "fin_emit"}
  BY <1>1 DEF RunMoves, RunVars, activeVars
<1>4. pc[t] \notin {"fin_clear", "done", "killed", "none"} /\ pc'[t] # "none"
  BY <1>3 DEF RunPoints
<1>5. ~(ended[t] > 0)
  BY <1>0, <1>4 DEF SilentAfterTerminalEvent
<1>6. pc'[t] \in {"fin_take", "fin_record", "fin_emit", "fin_clear"} => finishing'[t] \in States
  BY <1>0, <1>3 DEF RunPoints, TaskSound
<1>7. UNCHANGED activeTask /\ (activeTask # None => activeState' # None)
  BY <1>0, <1>3 DEF SlotSound
<1>8. CallsSound' /\ StartsDiffer' /\ TasksSound' /\ SlotSound' /\ SilentAfterTerminalEvent'
  BY <1>3, <1>4, <1>5, <1>6, <1>7, OneTaskMoves
<1> QED
  BY <1>2, <1>8 DEF BaseInv

\* The end of the spawned future.
LEMMA FinishSteps ==
    ASSUME BaseInv, NEW t \in Turns, FinishStep(t)
    PROVE  BaseInv'
<1>0. /\ TypeOK /\ TaskSound(t) /\ SilentAfterTerminalEvent /\ SlotSound
      /\ pc \in [Turns -> TaskPoints] /\ finishing \in [Turns -> States \cup {None}]
  BY DEF BaseInv, TasksSound, TypeOK
<1> USE DEF stateVars, fateVars, opVars, activeVars, At
<1>a. ASSUME NEW x \in TaskPoints, pc' = [pc EXCEPT ![t] = x],
             pc[t] \notin {"none", "done", "killed"}, x # "none",
             \A u \in Turns : u # t => ended'[u] = ended[u] /\ finishing'[u] = finishing[u],
             UNCHANGED <<cancelled, nextTurn, call>>, TypeOK',
             ended'[t] > 0 => x \in {"fin_clear", "done"},
             x \in {"fin_take", "fin_record", "fin_emit", "fin_clear"} => finishing'[t] \in States,
             \/ UNCHANGED activeTask /\ (activeTask # None => activeState' # None)
             \/ activeTask' = None
      PROVE  BaseInv'
  <2>1. pc'[t] = x /\ \A u \in Turns : u # t => pc'[u] = pc[u]
    BY <1>0, <1>a
  <2>2. CallsSound' /\ StartsDiffer' /\ TasksSound' /\ SlotSound' /\ SilentAfterTerminalEvent'
    BY <1>a, <2>1, OneTaskMoves
  <2> QED
    BY <1>a, <2>2 DEF BaseInv
<1>b. activeTask # None => activeState # None
  BY <1>0 DEF SlotSound
<1>c. \A x \in TaskPoints : [pc EXCEPT ![t] = x] \in [Turns -> TaskPoints]
  BY <1>0
<1>d. \A x \in {"done", "fin_lock", "fin_take", "fin_record", "fin_clear"} : x \in TaskPoints
  BY DEF TaskPoints, FinishPoints
<1>1. CASE FinishCheck(t)
  <2>1. /\ pc[t] = "finish" /\ \E x \in {"done", "fin_lock"} : pc' = [pc EXCEPT ![t] = x]
        /\ UNCHANGED <<activeVars, stateVars, nextState, mailbox, history, kind, cancelled, local,
                       finishing, nextTurn, call, opVars, fateVars>>
    BY <1>1 DEF FinishCheck
  <2>2. TypeOK'
    BY <1>0, <1>c, <1>d, <2>1 DEF TypeOK
  <2> QED
    BY <1>0, <1>a, <1>b, <1>d, <2>1, <2>2 DEF SilentAfterTerminalEvent
<1>2. CASE FinishTake(t)
  <2>1. /\ pc[t] = "fin_lock"
        /\ UNCHANGED <<activeState, stateVars, nextState, mailbox, history, kind, cancelled, local,
                       nextTurn, call, opVars, fateVars>>
    BY <1>2 DEF FinishTake
  <2>2. ~(ended'[t] > 0)
    BY <1>0, <2>1 DEF SilentAfterTerminalEvent
  <2>3. CASE HasActiveTask
    <3>1. /\ finishing' = [finishing EXCEPT ![t] = activeState] /\ activeTask' = None
          /\ pc' = [pc EXCEPT ![t] = "fin_take"] /\ activeState \in States
      BY <1>0, <1>2, <2>3 DEF FinishTake, HasActiveTask, TypeOK
    <3>2. /\ finishing' \in [Turns -> States \cup {None}] /\ finishing'[t] \in States
          /\ \A u \in Turns : u # t => finishing'[u] = finishing[u]
      BY <1>0, <3>1
    <3>3. TypeOK'
      BY <1>0, <1>c, <1>d, <2>1, <3>1, <3>2 DEF TypeOK
    <3> QED
      BY <1>a, <1>d, <2>1, <2>2, <3>1, <3>2, <3>3
  <2>4. CASE ~HasActiveTask
    <3>1. pc' = [pc EXCEPT ![t] = "done"] /\ UNCHANGED <<finishing, activeTask>>
      BY <1>2, <2>4 DEF FinishTake
    <3>3. TypeOK'
      BY <1>0, <1>c, <1>d, <2>1, <3>1 DEF TypeOK
    <3> QED
      BY <1>a, <1>b, <1>d, <2>1, <2>2, <3>1, <3>3
  <2> QED
    BY <2>3, <2>4
<1>3. CASE FinishTakePending(t)
  <2>1. /\ pc[t] = "fin_take" /\ pc' = [pc EXCEPT ![t] = "fin_record"]
        /\ local' = [local EXCEPT ![t] = [local[t] EXCEPT !.taken = pendingInput[finishing[t]]]]
        /\ pendingInput' = [pendingInput EXCEPT ![finishing[t]] = <<>>]
        /\ UNCHANGED <<activeVars, phase, waiters, nextState, mailbox, history, kind, cancelled,
                       finishing, nextTurn, call, opVars, fateVars>>
    BY <1>3 DEF FinishTakePending
  <2>2. finishing[t] \in States /\ ~(ended'[t] > 0)
    BY <1>0, <2>1 DEF TaskSound, SilentAfterTerminalEvent
  <2>3. pendingInput \in [States -> Seq(Items)] /\ local[t] \in Locals /\ <<>> \in Seq(Items)
    BY <1>0 DEF TypeOK
  <2>4. local' \in [Turns -> Locals]
    <3>1. [local[t] EXCEPT !.taken = pendingInput[finishing[t]]] \in Locals
      BY <2>2, <2>3, LocalTakes
    <3> QED
      BY <1>0, <2>1, <3>1 DEF TypeOK
  <2>5. pendingInput' \in [States -> Seq(Items)]
    BY <2>1, <2>3
  <2>6. TypeOK'
    BY <1>0, <1>c, <1>d, <2>1, <2>4, <2>5 DEF TypeOK
  <2> QED
    BY <1>a, <1>b, <1>d, <2>1, <2>2, <2>6
<1>4. CASE FinishEmit(t)
  <2>1. /\ pc[t] = "fin_emit" /\ pc' = [pc EXCEPT ![t] = "fin_clear"]
        /\ ended' = [ended EXCEPT ![t] = ended[t] + 1]
        /\ UNCHANGED <<activeVars, stateVars, nextState, mailbox, history, kind, cancelled, local,
                       finishing, nextTurn, call, opVars, started, rejected, discarded, overwritten>>
    BY <1>4 DEF FinishEmit
  <2>2. finishing[t] \in States
    BY <1>0, <2>1 DEF TaskSound
  <2>3. ended' \in [Turns -> Nat] /\ \A u \in Turns : u # t => ended'[u] = ended[u]
    BY <1>0, <2>1 DEF TypeOK
  <2>4. TypeOK'
    BY <1>0, <1>c, <1>d, <2>1, <2>3 DEF TypeOK
  <2> QED
    BY <1>a, <1>b, <1>d, <2>1, <2>2, <2>3, <2>4
<1>5. CASE FinishClear(t)
  <2>1. /\ pc[t] = "fin_clear" /\ pc' = [pc EXCEPT ![t] = "done"]
        /\ finishing' = [finishing EXCEPT ![t] = None]
        /\ activeState' = activeState \/ (activeTask = None /\ activeState' = None)
        /\ UNCHANGED <<activeTask, stateVars, nextState, mailbox, history, kind, cancelled, local,
                       nextTurn, call, opVars, fateVars>>
    BY <1>5 DEF FinishClear
  <2>2. /\ finishing' \in [Turns -> States \cup {None}]
        /\ \A u \in Turns : u # t => finishing'[u] = finishing[u]
    BY <1>0, <2>1
  <2>3. TypeOK'
    BY <1>0, <1>c, <1>d, <2>1, <2>2 DEF TypeOK
  <2> QED
    BY <1>a, <1>b, <1>d, <2>1, <2>2, <2>3
<1> QED
  BY <1>1, <1>2, <1>3, <1>4, <1>5 DEF FinishStep

\* BaseInv holds at first.
LEMMA BaseInit ==
    ASSUME Init
    PROVE  BaseInv
<1>1. TypeOK
  <2>1. NoCall \in Calls /\ NoLocal \in Locals
    BY NoCallType, NoLocalType
  <2>2. 0 \in 0 .. MaxInterrupts /\ 0 \in 0 .. MaxCompacts /\ 0 \in 0 .. MaxShutdowns
        /\ 1 \in 1 .. MaxTurns + 1 /\ 1 \in 1 .. MaxStates + 1
    BY BoundsAssumption
  <2>3. /\ pendingInput \in [States -> Seq(Items)]
        /\ phase \in [States -> {"CurrentTurn", "NextTurn"}]
        /\ mailbox \in Seq(Mails) /\ history \in Seq(Items)
    BY DEF Init
  <2>4. waiters \in [States -> SUBSET Turns]
    BY {} \in SUBSET Turns DEF Init
  <2>5. /\ pc \in [Turns -> TaskPoints] /\ kind \in [Turns -> {"Regular", "Compact"}]
        /\ cancelled \in [Turns -> BOOLEAN] /\ finishing \in [Turns -> States \cup {None}]
        /\ started \in [Turns -> BOOLEAN] /\ ended \in [Turns -> Nat]
    BY DEF Init, TaskPoints
  <2>6. local \in [Turns -> Locals] /\ call \in [Callers -> Calls]
    BY <2>1 DEF Init
  <2>7. overwritten \in BOOLEAN
    BY DEF Init
  <2> QED
    BY <2>2, <2>3, <2>4, <2>5, <2>6, <2>7 DEF Init, TypeOK
<1>2. CallsSound /\ StartsDiffer
  <2>1. \A p \in Callers : call[p].turn = None /\ call[p].at = "idle"
    BY NoCallType DEF Init
  <2> QED
    BY <2>1 DEF CallsSound, CallSound, Starting, StartsDiffer, AbortPoints, StartPoints
<1>3. TasksSound /\ SlotSound /\ SilentAfterTerminalEvent
  BY DEF Init, TasksSound, TaskSound, SlotSound, SilentAfterTerminalEvent
<1> QED
  BY <1>1, <1>2, <1>3 DEF BaseInv

\* Every step keeps it.
LEMMA BaseNext ==
    ASSUME BaseInv, [Next]_vars
    PROVE  BaseInv'
<1>1. CASE UNCHANGED vars
  <2>1. UNCHANGED <<activeState, activeTask, pendingInput, phase, waiters, nextState, mailbox,
                    history, pc, kind, cancelled, local, finishing, nextTurn, call>>
    BY <1>1 DEF vars, activeVars, stateVars, taskVars
  <2>2. UNCHANGED <<submitted, interrupts, compacts, shutdowns, started, ended, rejected, discarded,
                    overwritten>>
    BY <1>1 DEF vars, opVars, fateVars
  <2>3. TypeOK'
    BY <2>1, <2>2 DEF BaseInv, TypeOK
  <2>4. CallsSound' /\ StartsDiffer' /\ TasksSound' /\ SlotSound' /\ SilentAfterTerminalEvent'
    BY <2>1, <2>2, NoCallMoves DEF activeVars
  <2> QED
    BY <2>3, <2>4 DEF BaseInv
<1>2. CASE ClientStep
  BY <1>2, QueueSteps, LoopSteps, OfferSteps, TakeSteps DEF ClientStep
<1>3. ASSUME NEW p \in Callers, CallStep(p)
      PROVE  BaseInv'
  BY <1>3, CallMoves, TakeSteps, InstallStep, AbortEnds DEF CallStep, StartTask, Abort
<1>4. ASSUME NEW t \in Turns, TaskStep(t)
      PROVE  BaseInv'
  BY <1>4, RunSteps, FinishSteps DEF TaskStep
<1> QED
  BY <1>1, <1>2, <1>3, <1>4 DEF Next

\* BaseInv always holds.
LEMMA BaseHolds == Spec => []BaseInv
<1>1. Init => BaseInv
  BY BaseInit
<1>2. BaseInv /\ [Next]_vars => BaseInv'
  BY BaseNext
<1> QED
  BY <1>1, <1>2, PTL DEF Spec

\* Every variable of the session keeps its type, whatever interleaving of clients,
\* callers and spawned tasks: the slot holds an allocated turn state or nothing, and a
\* task is at one of its points.
THEOREM TypeCorrect == Spec => []TypeOK
<1>1. BaseInv => TypeOK
  BY DEF BaseInv
<1> QED
  BY <1>1, BaseHolds, PTL

\* Once the terminal event of a turn is out (TurnComplete from on_task_finished or
\* TurnAborted from handle_task_abort), its task runs no more, for any number of turns
\* and any callers.
THEOREM SilenceAfterTerminalEvent == Spec => []SilentAfterTerminalEvent
<1>1. BaseInv => SilentAfterTerminalEvent
  BY DEF BaseInv
<1> QED
  BY <1>1, BaseHolds, PTL

-----------------------------------------------------------------------------
(* Where items are. An item is submitted once, and every step moves it from *)
(* one place to another, or drops it.                                      *)

\* The places: the mailbox, the history, the queue of a turn state, the input of a run
\* and what it has taken, and the input and the items of a call.
Places ==
    {<<"mailbox", 0>>, <<"history", 0>>} \cup ({"pending"} \X States)
       \cup ({"input", "taken"} \X Turns) \cup ({"arg", "items"} \X Callers)

Content(k, x) ==
    CASE k = "mailbox" -> mailbox
      [] k = "history" -> history
      [] k = "pending" -> pendingInput[x]
      [] k = "input" -> local[x].input
      [] k = "taken" -> local[x].taken
      [] k = "arg" -> call[x].input
      [] k = "items" -> call[x].items

held == [a \in Places |-> Content(a[1], a[2])]

\* A sequence without repetitions.
Distinct(s) == \A i, j \in DOMAIN s : i # j => s[i] # s[j]

\* No item is twice in one place or in two places.
Apart(S, f) ==
    \A a \in S : Distinct(f[a]) /\ \A b \in S \ {a} : Elems(f[a]) \cap Elems(f[b]) = {}

\* Items are where they are because they were submitted, and were not refused.
ItemInv ==
    /\ BaseInv /\ Apart(Places, held)
    /\ \A a \in Places : Elems(held[a]) \subseteq submitted \ rejected
    /\ rejected \subseteq submitted

\* The empty sequence has no items, and none twice.
LEMMA EmptySeq == Distinct(<<>>) /\ Elems(<<>>) = {}
  BY DEF Distinct, Elems

\* A sequence of one item.
LEMMA OneSeq == \A i : Distinct(<<i>>) /\ Elems(<<i>>) = {i}
  BY DEF Distinct, Elems

\* A sequence without its first item has no other items than before, and not the
\* first one if no item was there twice.
LEMMA TailSeq ==
    ASSUME NEW s \in Seq(Items), s # <<>>
    PROVE  /\ Tail(s) \in Seq(Items) /\ Head(s) \in Items /\ Head(s) \in Elems(s)
           /\ Elems(Tail(s)) \subseteq Elems(s)
           /\ Distinct(s) => Distinct(Tail(s)) /\ Head(s) \notin Elems(Tail(s))
<1>1. /\ Tail(s) \in Seq(Items) /\ Len(Tail(s)) = Len(s) - 1 /\ Len(s) >= 1 /\ Len(s) \in Nat
      /\ \A i \in 1 .. Len(s) - 1 : Tail(s)[i] = s[i + 1]
      /\ DOMAIN s = 1 .. Len(s) /\ DOMAIN Tail(s) = 1 .. Len(s) - 1 /\ Head(s) = s[1]
  OBVIOUS
<1>2. Head(s) \in Items /\ Head(s) \in Elems(s) /\ Elems(Tail(s)) \subseteq Elems(s)
  BY <1>1 DEF Elems
<1>3. ASSUME Distinct(s)
      PROVE  Distinct(Tail(s)) /\ Head(s) \notin Elems(Tail(s))
  <2>1. ASSUME NEW i \in DOMAIN Tail(s), NEW j \in DOMAIN Tail(s), i # j
        PROVE  Tail(s)[i] # Tail(s)[j]
    BY <1>1, <1>3, <2>1 DEF Distinct
  <2>2. ASSUME NEW i \in DOMAIN Tail(s)
        PROVE  Tail(s)[i] # Head(s)
    BY <1>1, <1>3, <2>2 DEF Distinct
  <2> QED
    BY <2>1, <2>2 DEF Distinct, Elems
<1> QED
  BY <1>1, <1>2, <1>3

\* A concatenation has the items of both parts, none twice if the parts share none.
LEMMA ConcatSeq ==
    ASSUME NEW s \in Seq(Items), NEW r \in Seq(Items)
    PROVE  /\ s \o r \in Seq(Items) /\ Elems(s \o r) = Elems(s) \cup Elems(r)
           /\ Distinct(s) /\ Distinct(r) /\ Elems(s) \cap Elems(r) = {} => Distinct(s \o r)
<1>1. /\ s \o r \in Seq(Items) /\ Len(s \o r) = Len(s) + Len(r)
      /\ DOMAIN s = 1 .. Len(s) /\ DOMAIN r = 1 .. Len(r) /\ DOMAIN (s \o r) = 1 .. Len(s) + Len(r)
      /\ Len(s) \in Nat /\ Len(r) \in Nat
      /\ \A i \in 1 .. Len(s) : (s \o r)[i] = s[i]
      /\ \A i \in 1 .. Len(s) + Len(r) : i > Len(s) => (s \o r)[i] = r[i - Len(s)]
  OBVIOUS
<1>2. Elems(s \o r) = Elems(s) \cup Elems(r)
  <2>1. ASSUME NEW i \in DOMAIN (s \o r)
        PROVE  (s \o r)[i] \in Elems(s) \cup Elems(r)
    <3>1. CASE i <= Len(s)
      BY <1>1, <3>1 DEF Elems
    <3>2. CASE i > Len(s)
      <4>1. i - Len(s) \in DOMAIN r
        BY <1>1, <3>2
      <4> QED
        BY <1>1, <3>2, <4>1 DEF Elems
    <3> QED
      BY <1>1, <3>1, <3>2
  <2>2. ASSUME NEW i \in DOMAIN s
        PROVE  s[i] \in Elems(s \o r)
    <3>1. i \in DOMAIN (s \o r) /\ (s \o r)[i] = s[i]
      BY <1>1
    <3> QED
      BY <3>1 DEF Elems
  <2>3. ASSUME NEW i \in DOMAIN r
        PROVE  r[i] \in Elems(s \o r)
    <3>1. i + Len(s) \in DOMAIN (s \o r) /\ (s \o r)[i + Len(s)] = r[i]
      BY <1>1
    <3> QED
      BY <3>1 DEF Elems
  <2> QED
    BY <2>1, <2>2, <2>3 DEF Elems
<1>3. ASSUME Distinct(s), Distinct(r), Elems(s) \cap Elems(r) = {},
             NEW i \in DOMAIN (s \o r), NEW j \in DOMAIN (s \o r), i < j
      PROVE  (s \o r)[i] # (s \o r)[j]
  <2>1. CASE j <= Len(s)
    BY <1>1, <1>3, <2>1 DEF Distinct
  <2>2. CASE i > Len(s)
    <3>1. i - Len(s) \in DOMAIN r /\ j - Len(s) \in DOMAIN r /\ i - Len(s) # j - Len(s)
      BY <1>1, <1>3, <2>2
    <3> QED
      BY <1>1, <1>3, <2>2, <3>1 DEF Distinct
  <2>3. CASE i <= Len(s) /\ j > Len(s)
    <3>1. i \in DOMAIN s /\ j - Len(s) \in DOMAIN r
      BY <1>1, <1>3, <2>3
    <3>2. s[i] \in Elems(s) /\ r[j - Len(s)] \in Elems(r)
      BY <3>1 DEF Elems
    <3> QED
      BY <1>1, <1>3, <2>3, <3>1, <3>2
  <2> QED
    BY <1>1, <2>1, <2>2, <2>3
<1>4. ASSUME Distinct(s), Distinct(r), Elems(s) \cap Elems(r) = {}
      PROVE  Distinct(s \o r)
  <2> SUFFICES ASSUME NEW i \in DOMAIN (s \o r), NEW j \in DOMAIN (s \o r), i # j
               PROVE  (s \o r)[i] # (s \o r)[j]
    BY DEF Distinct
  <2>1. i < j \/ j < i
    BY <1>1
  <2> QED
    BY <1>3, <1>4, <2>1
<1> QED
  BY <1>1, <1>2, <1>4

\* Appending is concatenating a sequence of one item.
LEMMA AppendSeq ==
    \A s \in Seq(Items), i \in Items : Append(s, i) = s \o <<i>> /\ <<i>> \in Seq(Items)
  OBVIOUS

\* What the places hold.
Contents ==
    /\ held[<<"mailbox", 0>>] = mailbox /\ held[<<"history", 0>>] = history
    /\ \A s \in States : held[<<"pending", s>>] = pendingInput[s]
    /\ \A t \in Turns : held[<<"input", t>>] = local[t].input /\ held[<<"taken", t>>] = local[t].taken
    /\ \A p \in Callers : held[<<"arg", p>>] = call[p].input /\ held[<<"items", p>>] = call[p].items

\* The places, one kind after the other.
LEMMA PlacesAre ==
    /\ <<"mailbox", 0>> \in Places /\ <<"history", 0>> \in Places
    /\ \A s \in States : <<"pending", s>> \in Places
    /\ \A t \in Turns : <<"input", t>> \in Places /\ <<"taken", t>> \in Places
    /\ \A p \in Callers : <<"arg", p>> \in Places /\ <<"items", p>> \in Places
    /\ \A a \in Places :
          \/ a = <<"mailbox", 0>> \/ a = <<"history", 0>>
          \/ \E s \in States : a = <<"pending", s>>
          \/ \E t \in Turns : a = <<"input", t>> \/ a = <<"taken", t>>
          \/ \E p \in Callers : a = <<"arg", p>> \/ a = <<"items", p>>
  BY DEF Places

\* What a place holds now, and after a step.
LEMMA ContentsAre == Contents /\ Contents'
<1>1. Contents
  BY PlacesAre DEF Contents, held, Content
<1>2. Contents'
  BY PlacesAre DEF Contents, held, Content
<1> QED
  BY <1>1, <1>2

\* Places keep what they hold, lose it, or lose its head.
Loses(y, x) == y = x \/ y = <<>> \/ (x # <<>> /\ y = Tail(x))

\* What is left has no new items.
LEMMA LosesSeq ==
    ASSUME NEW x \in Seq(Items), NEW y, Loses(y, x)
    PROVE  /\ y \in Seq(Items) /\ Elems(y) \subseteq Elems(x)
           /\ Distinct(x) => Distinct(y)
<1>1. CASE y = x
  BY <1>1
<1>2. CASE y = <<>>
  BY <1>2, EmptySeq
<1>3. CASE x # <<>> /\ y = Tail(x)
  BY <1>3, TailSeq
<1> QED
  BY <1>1, <1>2, <1>3 DEF Loses

\* Dropping items keeps the others apart.
LEMMA DropsApart ==
    ASSUME NEW S, NEW f, \A a \in S : f[a] \in Seq(Items), Apart(S, f),
           NEW g, \A a \in S : Loses(g[a], f[a])
    PROVE  Apart(S, g) /\ \A a \in S : Elems(g[a]) \subseteq Elems(f[a])
<1>1. \A a \in S : Elems(g[a]) \subseteq Elems(f[a]) /\ Distinct(g[a])
  BY LosesSeq DEF Apart
<1> QED
  BY <1>1 DEF Apart

\* What place b gets was nowhere, or is no longer elsewhere.
LEMMA GetsApart ==
    ASSUME NEW S, NEW f, \A a \in S : f[a] \in Seq(Items), Apart(S, f),
           NEW g, NEW b \in S, \A a \in S \ {b} : Loses(g[a], f[a]),
           Distinct(g[b]), \A a \in S \ {b} : Elems(g[b]) \cap Elems(g[a]) = {}
    PROVE  Apart(S, g) /\ \A a \in S \ {b} : Elems(g[a]) \subseteq Elems(f[a])
<1>1. \A a \in S \ {b} : Elems(g[a]) \subseteq Elems(f[a]) /\ Distinct(g[a])
  BY LosesSeq DEF Apart
<1>2. ASSUME NEW a \in S
      PROVE  Distinct(g[a]) /\ \A c \in S \ {a} : Elems(g[a]) \cap Elems(g[c]) = {}
  <2>1. CASE a = b
    BY <2>1
  <2>2. CASE a # b
    <3>1. ASSUME NEW c \in S \ {a}
          PROVE  Elems(g[a]) \cap Elems(g[c]) = {}
      <4>1. CASE c = b
        BY <2>2, <4>1
      <4>2. CASE c # b
        BY <1>1, <2>2, <3>1, <4>2 DEF Apart
      <4> QED
        BY <4>1, <4>2
    <3> QED
      BY <1>1, <2>2, <3>1
  <2> QED
    BY <2>1, <2>2
<1> QED
  BY <1>1, <1>2 DEF Apart

\* A new item comes to place b.
LEMMA NewApart ==
    ASSUME NEW S, NEW f, \A a \in S : f[a] \in Seq(Items), Apart(S, f),
           NEW i \in Items, \A a \in S : i \notin Elems(f[a]),
           NEW g, NEW b \in S, \A a \in S \ {b} : Loses(g[a], f[a]),
           g[b] = f[b] \o <<i>> \/ g[b] = <<i>>
    PROVE  Apart(S, g) /\ \A a \in S : Elems(g[a]) \subseteq Elems(f[a]) \cup {i}
<1>1. Distinct(g[b]) /\ Elems(g[b]) \subseteq Elems(f[b]) \cup {i}
  <2>1. Distinct(<<i>>) /\ Elems(<<i>>) = {i} /\ <<i>> \in Seq(Items)
    BY OneSeq
  <2>2. f[b] \in Seq(Items) /\ Distinct(f[b]) /\ Elems(f[b]) \cap Elems(<<i>>) = {}
    BY <2>1 DEF Apart
  <2>3. Distinct(f[b] \o <<i>>) /\ Elems(f[b] \o <<i>>) = Elems(f[b]) \cup {i}
    BY <2>1, <2>2, ConcatSeq
  <2> QED
    BY <2>1, <2>3
<1>2. \A a \in S \ {b} : Elems(g[a]) \subseteq Elems(f[a])
  BY LosesSeq
<1>3. ASSUME NEW a \in S \ {b}
      PROVE  Elems(g[b]) \cap Elems(g[a]) = {}
  <2>1. Elems(f[b]) \cap Elems(f[a]) = {} /\ i \notin Elems(f[a])
    BY <1>3 DEF Apart
  <2>2. Elems(g[a]) \subseteq Elems(f[a])
    BY <1>2
  <2> QED
    BY <1>1, <2>1, <2>2
<1>4. Apart(S, g)
  BY <1>1, <1>3, GetsApart
<1> QED
  BY <1>1, <1>2, <1>4

\* Nothing is lost, or everything.
LEMMA LosesNothing == \A x : Loses(x, x) /\ Loses(<<>>, x)
  BY DEF Loses

\* What holds of every kind of place holds of every place.
LEMMA PlacesLose ==
    ASSUME NEW B,
           <<"mailbox", 0>> \in B \/ Loses(mailbox', mailbox),
           <<"history", 0>> \in B \/ Loses(history', history),
           \A s \in States : <<"pending", s>> \in B \/ Loses(pendingInput'[s], pendingInput[s]),
           \A t \in Turns : <<"input", t>> \in B \/ Loses(local'[t].input, local[t].input),
           \A t \in Turns : <<"taken", t>> \in B \/ Loses(local'[t].taken, local[t].taken),
           \A p \in Callers : <<"arg", p>> \in B \/ Loses(call'[p].input, call[p].input),
           \A p \in Callers : <<"items", p>> \in B \/ Loses(call'[p].items, call[p].items)
    PROVE  \A a \in Places \ B : Loses(held'[a], held[a])
<1> SUFFICES ASSUME NEW a \in Places \ B
             PROVE  Loses(held'[a], held[a])
  OBVIOUS
<1>1. CASE a = <<"mailbox", 0>> \/ a = <<"history", 0>>
  BY <1>1, ContentsAre DEF Contents
<1>2. CASE \E s \in States : a = <<"pending", s>>
  BY <1>2, ContentsAre DEF Contents
<1>3. ASSUME NEW t \in Turns, a = <<"input", t>> \/ a = <<"taken", t>>
      PROVE  Loses(held'[a], held[a])
  <2>1. CASE a = <<"input", t>>
    BY <2>1, ContentsAre DEF Contents
  <2>2. CASE a = <<"taken", t>>
    BY <2>2, ContentsAre DEF Contents
  <2> QED
    BY <1>3, <2>1, <2>2
<1>4. ASSUME NEW p \in Callers, a = <<"arg", p>> \/ a = <<"items", p>>
      PROVE  Loses(held'[a], held[a])
  <2>1. CASE a = <<"arg", p>>
    BY <2>1, ContentsAre DEF Contents
  <2>2. CASE a = <<"items", p>>
    BY <2>2, ContentsAre DEF Contents
  <2> QED
    BY <1>4, <2>1, <2>2
<1> QED
  BY <1>1, <1>2, <1>3, <1>4, PlacesAre

\* Every place holds a sequence of items.
LEMMA HeldType ==
    ASSUME TypeOK
    PROVE  \A a \in Places : held[a] \in Seq(Items)
<1>0. \A p \in Callers : call[p].input \in Seq(Items) /\ call[p].items \in Seq(Items)
  BY DEF TypeOK, Calls
<1>1. \A t \in Turns : local[t].input \in Seq(Items) /\ local[t].taken \in Seq(Items)
  BY LocalIs DEF TypeOK
<1>2. mailbox \in Seq(Items) /\ history \in Seq(Items) /\ \A s \in States : pendingInput[s] \in Seq(Items)
  BY MailsAreItems DEF TypeOK
<1> SUFFICES ASSUME NEW a \in Places
             PROVE  held[a] \in Seq(Items)
  OBVIOUS
<1>3. CASE a = <<"mailbox", 0>> \/ a = <<"history", 0>>
  BY <1>2, <1>3, ContentsAre DEF Contents
<1>4. CASE \E s \in States : a = <<"pending", s>>
  BY <1>2, <1>4, ContentsAre DEF Contents
<1>5. ASSUME NEW t \in Turns, a = <<"input", t>> \/ a = <<"taken", t>>
      PROVE  held[a] \in Seq(Items)
  <2>1. CASE a = <<"input", t>>
    BY <1>1, <2>1, ContentsAre DEF Contents
  <2>2. CASE a = <<"taken", t>>
    BY <1>1, <2>2, ContentsAre DEF Contents
  <2> QED
    BY <1>5, <2>1, <2>2
<1>6. ASSUME NEW p \in Callers, a = <<"arg", p>> \/ a = <<"items", p>>
      PROVE  held[a] \in Seq(Items)
  <2>1. CASE a = <<"arg", p>>
    BY <1>0, <2>1, ContentsAre DEF Contents
  <2>2. CASE a = <<"items", p>>
    BY <1>0, <2>2, ContentsAre DEF Contents
  <2> QED
    BY <1>6, <2>1, <2>2
<1> QED
  BY <1>3, <1>4, <1>5, <1>6, PlacesAre

\* A step that drops items, or refuses the ones that a place held.
LEMMA ItemsDrop ==
    ASSUME ItemInv, BaseInv', \A a \in Places : Loses(held'[a], held[a]),
           submitted \subseteq submitted', rejected' \subseteq submitted',
           \/ rejected' = rejected
           \/ \E x : rejected' = rejected \cup {x} /\ x \notin submitted
           \/ \E b \in Places : rejected' = rejected \cup Elems(held[b]) /\ held'[b] = <<>>
    PROVE  ItemInv'
<1>1. TypeOK /\ Apart(Places, held) /\ \A a \in Places : held[a] \in Seq(Items)
  BY HeldType DEF ItemInv, BaseInv
<1>2. Apart(Places, held') /\ \A a \in Places : Elems(held'[a]) \subseteq Elems(held[a])
  BY <1>1, DropsApart
<1>3. ASSUME NEW a \in Places
      PROVE  Elems(held'[a]) \cap rejected' = {}
  <2>1. Elems(held[a]) \subseteq submitted /\ Elems(held[a]) \cap rejected = {}
    BY DEF ItemInv
  <2>2. ASSUME NEW b \in Places, rejected' = rejected \cup Elems(held[b]), held'[b] = <<>>
        PROVE  Elems(held'[a]) \cap rejected' = {}
    <3>1. CASE a = b
      BY <2>2, <3>1, EmptySeq
    <3>2. CASE a # b
      <4>1. Elems(held[a]) \cap Elems(held[b]) = {}
        BY <1>1, <3>2 DEF Apart
      <4> QED
        BY <1>2, <2>1, <2>2, <4>1
    <3> QED
      BY <3>1, <3>2
  <2> QED
    BY <1>2, <2>1, <2>2
<1>4. \A a \in Places : Elems(held'[a]) \subseteq submitted' \ rejected'
  BY <1>2, <1>3 DEF ItemInv
<1>5. Apart(Places, held)'
  BY <1>2 DEF Apart
<1> QED
  BY <1>4, <1>5 DEF ItemInv

\* A step that submits an item and puts it somewhere.
LEMMA ItemsNew ==
    ASSUME ItemInv, BaseInv', NEW i \in Items \ submitted, submitted' = submitted \cup {i},
           UNCHANGED rejected, NEW b \in Places, \A a \in Places \ {b} : Loses(held'[a], held[a]),
           held'[b] = held[b] \o <<i>> \/ held'[b] = <<i>>
    PROVE  ItemInv'
<1>1. TypeOK /\ Apart(Places, held) /\ \A a \in Places : held[a] \in Seq(Items)
  BY HeldType DEF ItemInv, BaseInv
<1>2. \A a \in Places : i \notin Elems(held[a])
  BY DEF ItemInv
<1>3. Apart(Places, held') /\ \A a \in Places : Elems(held'[a]) \subseteq Elems(held[a]) \cup {i}
  BY <1>1, <1>2, NewApart
<1>4. \A a \in Places : Elems(held'[a]) \subseteq submitted' \ rejected'
  BY <1>3 DEF ItemInv
<1>5. Apart(Places, held)' /\ rejected' \subseteq submitted'
  BY <1>3 DEF Apart, ItemInv
<1> QED
  BY <1>4, <1>5 DEF ItemInv

\* A step that moves what one place held, or its first item, to another.
LEMMA ItemsMove ==
    ASSUME ItemInv, BaseInv', UNCHANGED <<submitted, rejected>>,
           NEW b \in Places, NEW c \in Places, b # c,
           \A a \in Places \ {b} : Loses(held'[a], held[a]),
           \/ held'[c] = <<>> /\ (held'[b] = held[b] \o held[c] \/ held'[b] = held[c])
           \/ /\ held[c] # <<>> /\ held'[c] = Tail(held[c])
              /\ held'[b] = held[b] \o <<Head(held[c])>>
    PROVE  ItemInv'
<1>1. TypeOK /\ Apart(Places, held) /\ \A a \in Places : held[a] \in Seq(Items)
  BY HeldType DEF ItemInv, BaseInv
<1>2. \A a \in Places \ {b} : Elems(held'[a]) \subseteq Elems(held[a])
  BY <1>1, LosesSeq
<1>3. /\ held[b] \in Seq(Items) /\ held[c] \in Seq(Items) /\ Distinct(held[b]) /\ Distinct(held[c])
      /\ Elems(held[b]) \cap Elems(held[c]) = {}
  BY <1>1 DEF Apart
<1>4. \E M \in SUBSET Elems(held[c]) :
         /\ Elems(held'[c]) \cap M = {} /\ Distinct(held'[b])
         /\ Elems(held'[b]) \subseteq Elems(held[b]) \cup M
  <2>1. CASE held'[c] = <<>> /\ (held'[b] = held[b] \o held[c] \/ held'[b] = held[c])
    <3>1. Distinct(held[b] \o held[c]) /\ Elems(held[b] \o held[c]) = Elems(held[b]) \cup Elems(held[c])
      BY <1>3, ConcatSeq
    <3>2. Elems(held'[c]) = {}
      BY <2>1, EmptySeq
    <3>3. Distinct(held'[b]) /\ Elems(held'[b]) \subseteq Elems(held[b]) \cup Elems(held[c])
      BY <1>3, <2>1, <3>1
    <3> QED
      BY <3>2, <3>3
  <2>2. CASE /\ held[c] # <<>> /\ held'[c] = Tail(held[c])
             /\ held'[b] = held[b] \o <<Head(held[c])>>
    <3>1. PICK h : h = Head(held[c])
      OBVIOUS
    <3>2. h \in Items /\ h \in Elems(held[c]) /\ h \notin Elems(held'[c])
      BY <1>3, <2>2, <3>1, TailSeq
    <3>3. Distinct(<<h>>) /\ Elems(<<h>>) = {h} /\ <<h>> \in Seq(Items)
      BY <3>2, OneSeq
    <3>4. Elems(held[b]) \cap Elems(<<h>>) = {}
      BY <1>3, <3>2, <3>3
    <3>5. Distinct(held[b] \o <<h>>) /\ Elems(held[b] \o <<h>>) = Elems(held[b]) \cup {h}
      <4> DEFINE one == <<h>>
      <4>1. Distinct(one) /\ Elems(one) = {h} /\ one \in Seq(Items)
            /\ Elems(held[b]) \cap Elems(one) = {}
        BY <3>3, <3>4
      <4> HIDE DEF one
      <4>2. Distinct(held[b] \o one) /\ Elems(held[b] \o one) = Elems(held[b]) \cup Elems(one)
        BY <1>3, <4>1, ConcatSeq
      <4> QED
        BY <4>1, <4>2 DEF one
    <3>6. Distinct(held'[b]) /\ Elems(held'[b]) \subseteq Elems(held[b]) \cup {h}
      BY <2>2, <3>1, <3>5
    <3> QED
      BY <3>2, <3>6
  <2> QED
    BY <2>1, <2>2
<1>5. PICK M \in SUBSET Elems(held[c]) :
         /\ Elems(held'[c]) \cap M = {} /\ Distinct(held'[b])
         /\ Elems(held'[b]) \subseteq Elems(held[b]) \cup M
  BY <1>4
<1>6. ASSUME NEW a \in Places \ {b}
      PROVE  Elems(held'[b]) \cap Elems(held'[a]) = {}
  <2>1. Elems(held[b]) \cap Elems(held[a]) = {} /\ Elems(held'[a]) \subseteq Elems(held[a])
    BY <1>1, <1>2, <1>6 DEF Apart
  <2>2. M \cap Elems(held'[a]) = {}
    <3>1. CASE a = c
      BY <1>5, <3>1
    <3>2. CASE a # c
      <4>1. Elems(held[c]) \cap Elems(held[a]) = {}
        BY <1>1, <1>6, <3>2 DEF Apart
      <4> QED
        BY <1>5, <2>1, <4>1
    <3> QED
      BY <3>1, <3>2
  <2> QED
    BY <1>5, <2>1, <2>2
<1>7. Apart(Places, held')
  BY <1>1, <1>5, <1>6, GetsApart
<1>8. ASSUME NEW a \in Places
      PROVE  Elems(held'[a]) \subseteq submitted' \ rejected'
  <2>1. /\ Elems(held[a]) \subseteq submitted \ rejected
        /\ Elems(held[b]) \subseteq submitted \ rejected
        /\ Elems(held[c]) \subseteq submitted \ rejected
    BY DEF ItemInv
  <2>2. CASE a = b
    BY <1>5, <2>1, <2>2
  <2>3. CASE a # b
    BY <1>2, <2>1, <2>3
  <2> QED
    BY <2>2, <2>3
<1>9. Apart(Places, held)' /\ rejected' \subseteq submitted'
  BY <1>7 DEF Apart, ItemInv
<1> QED
  BY <1>8, <1>9 DEF ItemInv

\* Calls, runs and queues keep, lose or shorten what they hold.
CallsLose == \A p \in Callers : /\ Loses(call'[p].input, call[p].input)
                                /\ Loses(call'[p].items, call[p].items)
LocalsLose == \A t \in Turns : /\ Loses(local'[t].input, local[t].input)
                               /\ Loses(local'[t].taken, local[t].taken)
QueuesLose == /\ Loses(mailbox', mailbox) /\ Loses(history', history)
              /\ \A s \in States : Loses(pendingInput'[s], pendingInput[s])

\* What does not change loses nothing.
LEMMA Stays ==
    /\ UNCHANGED call => CallsLose
    /\ UNCHANGED local => LocalsLose
    /\ UNCHANGED <<mailbox, history, pendingInput>> => QueuesLose
  BY LosesNothing DEF CallsLose, LocalsLose, QueuesLose

\* The call of p carries less.
LEMMA CarriesLess ==
    ASSUME NEW p \in Callers, NEW k, NEW i, NEW x,
           \A q \in Callers : q # p => call'[q] = call[q], Carries(p, k, i, x),
           Loses(i, call[p].input), Loses(x, call[p].items)
    PROVE  CallsLose
  BY LosesNothing DEF CallsLose, Carries

\* A run keeps less.
LEMMA HoldsLess ==
    ASSUME NEW t \in Turns, \A u \in Turns : u # t => local'[u] = local[u],
           Loses(local'[t].input, local[t].input), Loses(local'[t].taken, local[t].taken)
    PROVE  LocalsLose
  BY LosesNothing DEF LocalsLose

\* Nothing new is anywhere.
LEMMA AllLose ==
    ASSUME CallsLose, LocalsLose, QueuesLose
    PROVE  \A a \in Places : Loses(held'[a], held[a])
<1> DEFINE B == {}
<1>1. \A a \in Places \ B : Loses(held'[a], held[a])
  BY PlacesLose DEF CallsLose, LocalsLose, QueuesLose
<1> QED
  BY <1>1

\* A step that refuses nothing and loses items at most.
LEMMA ItemsLost ==
    ASSUME ItemInv, BaseInv', CallsLose, LocalsLose, QueuesLose, UNCHANGED <<submitted, rejected>>
    PROVE  ItemInv'
<1>1. \A a \in Places : Loses(held'[a], held[a])
  BY AllLose
<1>2. submitted \subseteq submitted' /\ rejected' \subseteq submitted' /\ rejected' = rejected
  BY DEF ItemInv
<1> QED
  BY <1>1, <1>2, ItemsDrop

\* The steps of a call that move no item.
LEMMA CallQuiet ==
    ASSUME ItemInv, BaseInv', NEW p \in Callers,
           \/ PendingCheck(p) \/ ReserveRefused(p) \/ Reserve(p) \/ StartState(p)
           \/ AbortAllTakesTask(p) \/ AbortAllFindsNoTask(p) \/ AbortGraceful(p) \/ AbortEmit(p)
           \/ AbortClear(p) \/ AbortTimeout(p) \/ IdleRecheck(p) \/ IdleConfirm(p)
    PROVE  ItemInv'
<1>0. TypeOK /\ call[p] \in Calls
  BY DEF ItemInv, BaseInv, TypeOK
<1>1. \A x : Loses(x, x) /\ Loses(<<>>, x)
  BY LosesNothing
<1> USE DEF stateVars, fateVars, taskVars, opVars, activeVars
<1>a. ASSUME CallsLose, UNCHANGED <<local, mailbox, history, pendingInput, submitted, rejected>>
      PROVE  ItemInv'
  BY <1>a, Stays, ItemsLost
<1>2. CASE \/ PendingCheck(p) \/ ReserveRefused(p) \/ AbortAllFindsNoTask(p) \/ AbortGraceful(p)
           \/ AbortEmit(p) \/ IdleRecheck(p) \/ IdleConfirm(p)
  <2>1. /\ \/ Return(p)
           \/ \E a \in {"reserve", "start_take", "abort_emit", "abort_clear", "idle_release",
                        "idle_confirm", "idle_extend", "idle_busy"} : Goto(p, a)
        /\ UNCHANGED <<local, mailbox, history, pendingInput, submitted, rejected>>
    BY <1>2 DEF PendingCheck, ReserveRefused, AbortAllFindsNoTask, AbortGraceful, AbortEmit,
                IdleRecheck, IdleConfirm
  <2>2. CASE Return(p)
    BY <1>0, <1>1, <1>a, <2>1, <2>2, ReturnCall, CarriesLess DEF Becomes
  <2>3. ASSUME NEW a \in CallPoints, Goto(p, a)
        PROVE  CallsLose
    BY <1>0, <1>1, <2>3, GotoCall, CarriesLess DEF Becomes
  <2>4. {"reserve", "start_take", "abort_emit", "abort_clear", "idle_release",
         "idle_confirm", "idle_extend", "idle_busy"} \subseteq CallPoints
    BY DEF CallPoints, StartPoints, AbortPoints
  <2> QED
    BY <1>a, <2>1, <2>2, <2>3, <2>4
<1>3. CASE Reserve(p)
  <2>1. /\ \A q \in Callers : q # p => call'[q] = call[q]
        /\ Carries(p, "Regular", <<>>, <<>>)
        /\ UNCHANGED <<local, mailbox, history, pendingInput, submitted, rejected>>
    BY <1>0, <1>3, ReservedCall DEF Reserve, Becomes
  <2> QED
    BY <1>1, <1>a, <2>1, CarriesLess
<1>4. CASE StartState(p)
  <2>1. /\ \A q \in Callers : q # p => call'[q] = call[q]
        /\ Carries(p, call[p].kind, call[p].input, call[p].items)
    BY <1>0, <1>4, StartStateCall DEF Becomes
  <2>2. UNCHANGED <<local, mailbox, history, pendingInput, submitted, rejected>>
    BY <1>4 DEF StartState
  <2> QED
    BY <1>1, <1>a, <2>1, <2>2, CarriesLess
<1>5. CASE AbortAllTakesTask(p)
  <2>1. TakeAndCancel(p, call[p].reason) /\ call[p].reason \in {"none", "Replaced", "Interrupted"}
    BY <1>0, <1>5 DEF AbortAllTakesTask, Calls
  <2>2. /\ \A q \in Callers : q # p => call'[q] = call[q]
        /\ Carries(p, call[p].kind, call[p].input, call[p].items)
    BY <1>0, <2>1, TakeCall DEF Becomes
  <2>3. UNCHANGED <<local, mailbox, history, pendingInput, submitted, rejected>>
    BY <2>1 DEF TakeAndCancel
  <2> QED
    BY <1>1, <1>a, <2>2, <2>3, CarriesLess
<1>6. CASE AbortClear(p)
  <2>1. /\ \A q \in Callers : q # p => call'[q] = call[q]
        /\ Carries(p, call[p].kind, call[p].input, call[p].items)
    BY <1>0, <1>6, ClearCall DEF Becomes
  <2>2. /\ UNCHANGED <<local, mailbox, history, submitted, rejected>>
        /\ pendingInput' = [pendingInput EXCEPT ![call[p].state] = <<>>]
    BY <1>6 DEF AbortClear
  <2>3. QueuesLose
    BY <1>0, <1>1, <2>2 DEF QueuesLose, TypeOK
  <2> QED
    BY <1>1, <2>1, <2>2, <2>3, CarriesLess, Stays, ItemsLost
<1>7. CASE AbortTimeout(p)
  <2>1. /\ Goto(p, "abort_emit") /\ local' = [local EXCEPT ![call[p].victim] = NoLocal]
        /\ UNCHANGED <<mailbox, history, pendingInput, submitted, rejected>>
    BY <1>7 DEF AbortTimeout
  <2>2. /\ \A q \in Callers : q # p => call'[q] = call[q]
        /\ Carries(p, call[p].kind, call[p].input, call[p].items)
    BY <1>0, <2>1, GotoCall DEF Becomes, CallPoints, AbortPoints
  <2>3. NoLocal.input = <<>> /\ NoLocal.taken = <<>>
    BY DEF NoLocal
  <2>4. LocalsLose
    BY <1>0, <1>1, <2>1, <2>3 DEF LocalsLose, TypeOK
  <2> QED
    BY <1>1, <2>1, <2>2, <2>4, CarriesLess, Stays, ItemsLost
<1> QED
  BY <1>2, <1>3, <1>4, <1>5, <1>6, <1>7

-----------------------------------------------------------------------------
(* The steps that submit an item.                                          *)

\* A new item joins the queue of a turn state.
LEMMA NewPending ==
    ASSUME ItemInv, BaseInv', NEW i \in Items \ submitted, submitted' = submitted \cup {i},
           NEW s \in States, pendingInput' = Extend(s, <<i>>),
           UNCHANGED <<call, local, mailbox, history, rejected>>
    PROVE  ItemInv'
<1> DEFINE b == <<"pending", s>>
<1>1. /\ b \in Places /\ pendingInput' = [pendingInput EXCEPT ![s] = pendingInput[s] \o <<i>>]
      /\ pendingInput \in [States -> Seq(Items)]
  BY PlacesAre DEF Extend, ItemInv, BaseInv, TypeOK
<1>2. held'[b] = held[b] \o <<i>>
  <2>1. held[b] = pendingInput[s] /\ held'[b] = pendingInput'[s]
    BY ContentsAre DEF Contents
  <2>2. pendingInput'[s] = pendingInput[s] \o <<i>>
    BY <1>1
  <2> QED
    BY <2>1, <2>2
<1>3. \A r \in States : <<"pending", r>> \in {b} \/ Loses(pendingInput'[r], pendingInput[r])
  BY <1>1, LosesNothing
<1> HIDE DEF b
<1>4. \A a \in Places \ {b} : Loses(held'[a], held[a])
  BY <1>3, PlacesLose, LosesNothing
<1> QED
  BY <1>1, <1>2, <1>4, ItemsNew

\* A new item joins the mailbox.
LEMMA NewMail ==
    ASSUME ItemInv, BaseInv', NEW i \in Items \ submitted, submitted' = submitted \cup {i},
           mailbox' = Append(mailbox, i), CallsLose,
           UNCHANGED <<pendingInput, local, history, rejected>>
    PROVE  ItemInv'
<1> DEFINE b == <<"mailbox", 0>>
<1>1. b \in Places /\ mailbox' = mailbox \o <<i>>
  BY PlacesAre, AppendSeq, MailsAreItems DEF ItemInv, BaseInv, TypeOK
<1>2. held'[b] = held[b] \o <<i>>
  BY <1>1, ContentsAre DEF Contents
<1>3. <<"mailbox", 0>> \in {b}
  OBVIOUS
<1> HIDE DEF b
<1>4. \A a \in Places \ {b} : Loses(held'[a], held[a])
  BY <1>3, PlacesLose, LosesNothing DEF CallsLose
<1> QED
  BY <1>1, <1>2, <1>4, ItemsNew

\* A new item goes straight into the history.
LEMMA NewHistory ==
    ASSUME ItemInv, BaseInv', NEW i \in Items \ submitted, submitted' = submitted \cup {i},
           history' = Append(history, i),
           UNCHANGED <<call, pendingInput, local, mailbox, rejected>>
    PROVE  ItemInv'
<1> DEFINE b == <<"history", 0>>
<1>1. b \in Places /\ history' = history \o <<i>>
  BY PlacesAre, AppendSeq DEF ItemInv, BaseInv, TypeOK
<1>2. held'[b] = held[b] \o <<i>>
  BY <1>1, ContentsAre DEF Contents
<1>3. <<"history", 0>> \in {b}
  OBVIOUS
<1> HIDE DEF b
<1>4. \A a \in Places \ {b} : Loses(held'[a], held[a])
  BY <1>3, PlacesLose, LosesNothing
<1> QED
  BY <1>1, <1>2, <1>4, ItemsNew

\* A new item comes with a call.
LEMMA NewArgument ==
    ASSUME ItemInv, BaseInv', NEW i \in Items \ submitted, submitted' = submitted \cup {i},
           NEW p \in Callers, \A q \in Callers : q # p => call'[q] = call[q],
           call'[p].input = <<i>>, call'[p].items = <<>>,
           UNCHANGED <<pendingInput, local, mailbox, history, rejected>>
    PROVE  ItemInv'
<1> DEFINE b == <<"arg", p>>
<1>1. b \in Places
  BY PlacesAre
<1>2. held'[b] = <<i>>
  BY ContentsAre DEF Contents
<1>3. \A q \in Callers : /\ <<"arg", q>> \in {b} \/ Loses(call'[q].input, call[q].input)
                         /\ Loses(call'[q].items, call[q].items)
  BY LosesNothing
<1> HIDE DEF b
<1>4. \A a \in Places \ {b} : Loses(held'[a], held[a])
  BY <1>3, PlacesLose, LosesNothing
<1> QED
  BY <1>1, <1>2, <1>4, ItemsNew

\* A new item is refused.
LEMMA NewRefused ==
    ASSUME ItemInv, BaseInv', NEW i \in Items \ submitted, submitted' = submitted \cup {i},
           rejected' = rejected \cup {i}, UNCHANGED <<call, pendingInput, local, mailbox, history>>
    PROVE  ItemInv'
<1>1. \A a \in Places : Loses(held'[a], held[a])
  BY Stays, AllLose
<1>2. submitted \subseteq submitted' /\ rejected' \subseteq submitted' /\ i \notin submitted
  BY DEF ItemInv
<1> QED
  BY <1>1, <1>2, ItemsDrop

\* What clients, other agents and extensions do.
LEMMA ClientItems ==
    ASSUME ItemInv, BaseInv', ClientStep
    PROVE  ItemInv'
<1>0. TypeOK /\ "loop" \in Callers /\ "extension" \in Callers /\ "guardian" \in Callers
  BY DEF ItemInv, BaseInv, Callers
<1>1. /\ UserInputs \cup Mails \cup Steers \cup Injected \cup IdleItems \subseteq Items
      /\ HasActiveTask => activeState \in States
  BY <1>0 DEF Items, Mails, TypeOK, HasActiveTask
<1> USE DEF stateVars, fateVars, taskVars, opVars, activeVars
<1>2. ASSUME NEW u \in UserInputs, UserInputSteers(u)
      PROVE  ItemInv'
  BY <1>1, <1>2, NewPending DEF UserInputSteers, Steerable
<1>3. ASSUME NEW u \in UserInputs, UserInputRejected(u)
      PROVE  ItemInv'
  BY <1>1, <1>3, NewRefused DEF UserInputRejected
<1>4. ASSUME NEW u \in UserInputs, UserInputStartsTurn(u)
      PROVE  ItemInv'
  <2>1. /\ SpawnTask("Regular", <<u>>) /\ u \in Items \ submitted /\ <<u>> \in Seq(Items)
        /\ submitted' = submitted \cup {u}
        /\ UNCHANGED <<pendingInput, local, mailbox, history, rejected>>
    BY <1>1, <1>4 DEF UserInputStartsTurn
  <2>2. /\ \A q \in Callers : q # "loop" => call'[q] = call[q]
        /\ call'["loop"].input = <<u>> /\ call'["loop"].items = <<>>
    BY <1>0, <2>1, SpawnCall DEF Becomes, Carries
  <2> QED
    BY <1>0, <2>1, <2>2, NewArgument
<1>5. CASE Compact \/ Interrupt \/ Shutdown
  <2>1. /\ SpawnTask("Compact", <<>>) \/ InterruptTask("loop")
        /\ UNCHANGED <<pendingInput, local, mailbox, history, submitted, rejected>>
        /\ <<>> \in Seq(Items)
    BY <1>5 DEF Compact, Interrupt, Shutdown
  <2>2. /\ \A q \in Callers : q # "loop" => call'[q] = call[q]
        /\ call'["loop"].input = <<>> /\ call'["loop"].items = <<>>
    <3>1. CASE SpawnTask("Compact", <<>>)
      BY <1>0, <2>1, <3>1, SpawnCall DEF Becomes, Carries
    <3>2. CASE InterruptTask("loop")
      BY <1>0, <3>2, InterruptCall DEF Becomes, Carries
    <3> QED
      BY <2>1, <3>1, <3>2
  <2>3. CallsLose
    BY <2>2, LosesNothing DEF CallsLose
  <2> QED
    BY <2>1, <2>3, Stays, ItemsLost
<1>6. ASSUME NEW m \in Mails, InterAgentCommunication(m)
      PROVE  ItemInv'
  <2>1. /\ m \in Items \ submitted /\ submitted' = submitted \cup {m}
        /\ mailbox' = Append(mailbox, m)
        /\ Goto("loop", "pending_check") \/ UNCHANGED call
        /\ UNCHANGED <<pendingInput, local, history, rejected>>
    BY <1>1, <1>6 DEF InterAgentCommunication
  <2>2. CASE Goto("loop", "pending_check")
    <3>1. /\ \A q \in Callers : q # "loop" => call'[q] = call[q]
          /\ Carries("loop", call["loop"].kind, call["loop"].input, call["loop"].items)
      BY <1>0, <2>2, GotoCall DEF Becomes, CallPoints
    <3> QED
      BY <1>0, <2>1, <3>1, CarriesLess, LosesNothing, NewMail
  <2>3. CASE UNCHANGED call
    BY <2>1, <2>3, Stays, NewMail
  <2> QED
    BY <2>1, <2>2, <2>3
<1>7. ASSUME NEW u \in Steers, NEW t \in Turns, SteerInput(u, t)
      PROVE  ItemInv'
  <2>1. /\ u \in Items \ submitted /\ submitted' = submitted \cup {u}
        /\ UNCHANGED <<local, mailbox, history, call>>
    BY <1>1, <1>7 DEF SteerInput
  <2>2. CASE Steerable /\ activeTask = t
    BY <1>1, <1>7, <2>1, <2>2, NewPending DEF SteerInput, Steerable
  <2>3. CASE ~(Steerable /\ activeTask = t)
    <3>1. rejected' = rejected \cup {u} /\ UNCHANGED pendingInput
      BY <1>7, <2>3 DEF SteerInput
    <3> QED
      BY <2>1, <3>1, NewRefused
  <2> QED
    BY <2>2, <2>3
<1>8. ASSUME NEW i \in Injected, InjectNoNewTurn(i)
      PROVE  ItemInv'
  <2>1. /\ i \in Items \ submitted /\ submitted' = submitted \cup {i}
        /\ UNCHANGED <<local, mailbox, call, rejected>>
    BY <1>1, <1>8 DEF InjectNoNewTurn
  <2>2. CASE activeState # None
    <3>1. activeState \in States /\ pendingInput' = Extend(activeState, <<i>>) /\ UNCHANGED history
      BY <1>0, <1>8, <2>2 DEF InjectNoNewTurn, TypeOK
    <3> QED
      BY <2>1, <3>1, NewPending
  <2>3. CASE activeState = None
    BY <1>8, <2>1, <2>3, NewHistory DEF InjectNoNewTurn
  <2> QED
    BY <2>2, <2>3
<1>9. ASSUME NEW i \in IdleItems, OfferIdleWork(i)
      PROVE  ItemInv'
  <2>1. /\ i \in Items \ submitted /\ submitted' = submitted \cup {i}
        /\ UNCHANGED <<pendingInput, local, mailbox, history, rejected>>
    BY <1>1, <1>9 DEF OfferIdleWork
  <2>2. /\ \A q \in Callers : q # "extension" => call'[q] = call[q]
        /\ call'["extension"].input = <<i>> /\ call'["extension"].items = <<>>
    BY <1>0, <1>9, OfferCall DEF Becomes, Carries
  <2> QED
    BY <1>0, <2>1, <2>2, NewArgument
<1>10. ASSUME NEW t \in Turns, NotifyApproval(t)
       PROVE  ItemInv'
  <2>1. /\ local' = [local EXCEPT ![t] = [local[t] EXCEPT !.decision = TRUE]]
        /\ UNCHANGED <<call, pendingInput, mailbox, history, submitted, rejected>>
    BY <1>10 DEF NotifyApproval
  <2>2. local[t] \in Locals
    BY <1>0 DEF TypeOK
  <2>3. LocalsLose
    BY <1>0, <2>1, <2>2, LosesNothing DEF LocalsLose, TypeOK, Locals
  <2> QED
    BY <2>1, <2>3, Stays, ItemsLost
<1>11. ASSUME NEW t \in Turns, AbortTurnIfActive(t)
       PROVE  ItemInv'
  <2>1. /\ TakeAndCancel("guardian", "Interrupted")
        /\ UNCHANGED <<local, pendingInput, mailbox, history, submitted, rejected>>
    BY <1>11 DEF AbortTurnIfActive, TakeAndCancel
  <2>2. /\ \A q \in Callers : q # "guardian" => call'[q] = call[q]
        /\ Carries("guardian", call["guardian"].kind, call["guardian"].input, call["guardian"].items)
    BY <1>0, <2>1, TakeCall DEF Becomes
  <2> QED
    BY <1>0, <2>1, <2>2, CarriesLess, LosesNothing, Stays, ItemsLost
<1> QED
  BY <1>2, <1>3, <1>4, <1>5, <1>6, <1>7, <1>8, <1>9, <1>10, <1>11 DEF ClientStep

-----------------------------------------------------------------------------
(* The steps of a call that move items.                                    *)

\* start_task takes the queue of the slot.
LEMMA StartTakeItems ==
    ASSUME ItemInv, BaseInv', NEW p \in Callers, StartTake(p)
    PROVE  ItemInv'
<1> DEFINE b == <<"items", p>>
           c == <<"pending", activeState>>
<1>1. /\ UNCHANGED <<local, mailbox, history, submitted, rejected>>
      /\ pendingInput' = PendingAfterTake
  BY DEF StartTake, taskVars, opVars, fateVars
<1>2. /\ \A q \in Callers : q # p => call'[q] = call[q]
      /\ call'[p].input = call[p].input /\ call'[p].items = ActivePending
  BY StartTakeCall DEF ItemInv, BaseInv, Becomes, Carries
<1>3. CASE activeState = None
  <2>1. UNCHANGED pendingInput /\ call'[p].items = <<>>
    BY <1>1, <1>2, <1>3 DEF PendingAfterTake, ActivePending
  <2>2. CallsLose
    BY <1>2, <2>1, LosesNothing DEF CallsLose
  <2> QED
    BY <1>1, <2>1, <2>2, Stays, ItemsLost
<1>4. CASE activeState # None
  <2>1. /\ activeState \in States /\ pendingInput \in [States -> Seq(Items)]
        /\ pendingInput' = [pendingInput EXCEPT ![activeState] = <<>>]
        /\ call'[p].items = pendingInput[activeState]
    BY <1>1, <1>2, <1>4 DEF PendingAfterTake, ActivePending, ItemInv, BaseInv, TypeOK
  <2>2. b \in Places /\ c \in Places /\ b # c
    BY <2>1, PlacesAre
  <2>3. held'[c] = <<>> /\ held'[b] = held[c]
    BY <2>1, ContentsAre DEF Contents
  <2>4. /\ \A q \in Callers : /\ Loses(call'[q].input, call[q].input)
                              /\ <<"items", q>> \in {b} \/ Loses(call'[q].items, call[q].items)
        /\ \A s \in States : Loses(pendingInput'[s], pendingInput[s])
    BY <1>2, <2>1, LosesNothing
  <2> HIDE DEF b, c
  <2>5. \A a \in Places \ {b} : Loses(held'[a], held[a])
    BY <1>1, <2>4, PlacesLose, LosesNothing
  <2> QED
    BY <1>1, <2>2, <2>3, <2>5, ItemsMove
<1> QED
  BY <1>3, <1>4

\* It takes the mailbox.
LEMMA StartDrainItems ==
    ASSUME ItemInv, BaseInv', NEW p \in Callers, StartDrain(p)
    PROVE  ItemInv'
<1> DEFINE b == <<"items", p>>
           c == <<"mailbox", 0>>
<1>1. UNCHANGED <<local, pendingInput, history, submitted, rejected>> /\ mailbox' = <<>>
  BY DEF StartDrain, stateVars, taskVars, opVars, fateVars
<1>2. /\ \A q \in Callers : q # p => call'[q] = call[q]
      /\ call'[p].input = call[p].input /\ call'[p].items = call[p].items \o mailbox
  BY StartDrainCall DEF ItemInv, BaseInv, Becomes, Carries
<1>3. b \in Places /\ c \in Places /\ b # c
  BY PlacesAre
<1>4. held'[c] = <<>> /\ held'[b] = held[b] \o held[c]
  BY <1>1, <1>2, ContentsAre DEF Contents
<1>5. \A q \in Callers : /\ Loses(call'[q].input, call[q].input)
                         /\ <<"items", q>> \in {b} \/ Loses(call'[q].items, call[q].items)
  BY <1>2, LosesNothing
<1> HIDE DEF b, c
<1>6. \A a \in Places \ {b} : Loses(held'[a], held[a])
  BY <1>1, <1>5, PlacesLose, LosesNothing
<1> QED
  BY <1>1, <1>3, <1>4, <1>6, ItemsMove

\* It puts them into the turn state.
LEMMA StartExtendItems ==
    ASSUME ItemInv, BaseInv', NEW p \in Callers, StartExtend(p)
    PROVE  ItemInv'
<1> DEFINE b == <<"pending", call[p].state>>
           c == <<"items", p>>
<1>1. /\ UNCHANGED <<local, mailbox, history, submitted, rejected>>
      /\ pendingInput' = Extend(call[p].state, call[p].items)
  BY DEF StartExtend, taskVars, opVars, fateVars
<1>2. /\ \A q \in Callers : q # p => call'[q] = call[q]
      /\ call'[p].input = call[p].input /\ call'[p].items = <<>>
  BY StartExtendCall DEF ItemInv, BaseInv, Becomes, Carries
<1>3. call[p].state \in States /\ pendingInput \in [States -> Seq(Items)]
  BY DEF ItemInv, BaseInv, CallsSound, CallSound, StartExtend, TypeOK
<1>4. b \in Places /\ c \in Places /\ b # c
  BY <1>3, PlacesAre
<1>5. held'[c] = <<>> /\ held'[b] = held[b] \o held[c]
  <2>1. pendingInput'[call[p].state] = pendingInput[call[p].state] \o call[p].items
    BY <1>1, <1>3 DEF Extend
  <2>2. held[b] = pendingInput[call[p].state] /\ held[c] = call[p].items
    BY <1>3, ContentsAre DEF Contents
  <2>3. held'[c] = <<>> /\ \A s \in States : held'[<<"pending", s>>] = pendingInput'[s]
    BY <1>2, ContentsAre DEF Contents
  <2> QED
    BY <1>3, <2>1, <2>2, <2>3
<1>6. /\ CallsLose
      /\ \A s \in States : <<"pending", s>> \in {b} \/ Loses(pendingInput'[s], pendingInput[s])
  BY <1>1, <1>2, <1>3, LosesNothing DEF CallsLose, Extend
<1> HIDE DEF b, c
<1>7. \A a \in Places \ {b} : Loses(held'[a], held[a])
  BY <1>1, <1>6, PlacesLose, LosesNothing DEF CallsLose
<1> QED
  BY <1>1, <1>4, <1>5, <1>7, ItemsMove

\* The new task gets the input of the call.
LEMMA StartInstallItems ==
    ASSUME ItemInv, BaseInv', NEW p \in Callers, StartInstall(p)
    PROVE  ItemInv'
<1> DEFINE t == call[p].turn
           b == <<"input", t>>
           c == <<"arg", p>>
<1>1. /\ UNCHANGED <<pendingInput, mailbox, history, submitted, rejected>>
      /\ local' = [local EXCEPT ![t] = [local[t] EXCEPT !.input = call[p].input]]
      /\ Return(p)
  BY DEF StartInstall, stateVars, opVars
<1>2. /\ \A q \in Callers : q # p => call'[q] = call[q]
      /\ call'[p].input = <<>> /\ call'[p].items = <<>>
  BY <1>1, ReturnCall DEF ItemInv, BaseInv, Becomes, Carries
<1>3. /\ t \in Turns /\ local \in [Turns -> Locals] /\ call[p] \in Calls
  BY DEF ItemInv, BaseInv, CallsSound, CallSound, Starting, StartInstall, StartPoints, TypeOK, Calls
<1>4. b \in Places /\ c \in Places /\ b # c
  BY <1>3, PlacesAre
<1> HIDE DEF t
<1>5. /\ local'[t].input = call[p].input /\ local'[t].taken = local[t].taken
      /\ \A u \in Turns : u # t => local'[u] = local[u]
  BY <1>1, <1>3 DEF Locals
<1>6. held'[c] = <<>> /\ held'[b] = held[c]
  BY <1>2, <1>3, <1>5, ContentsAre DEF Contents
<1>7. /\ CallsLose
      /\ \A u \in Turns : /\ <<"input", u>> \in {b} \/ Loses(local'[u].input, local[u].input)
                          /\ Loses(local'[u].taken, local[u].taken)
  BY <1>2, <1>5, LosesNothing DEF CallsLose
<1> HIDE DEF b, c
<1>8. \A a \in Places \ {b} : Loses(held'[a], held[a])
  BY <1>1, <1>7, PlacesLose, LosesNothing DEF CallsLose
<1> QED
  BY <1>1, <1>4, <1>6, <1>8, ItemsMove

\* The items of an offer go back.
LEMMA RejectItems ==
    ASSUME ItemInv, BaseInv', NEW p \in Callers, NEW a \in CallPoints, IdleReject(p, a),
           UNCHANGED <<local, pendingInput, mailbox, history, submitted>>
    PROVE  ItemInv'
<1> DEFINE b == <<"arg", p>>
<1>1. /\ \A q \in Callers : q # p => call'[q] = call[q]
      /\ call'[p].input = <<>> /\ call'[p].items = <<>>
  BY RejectCall DEF ItemInv, BaseInv, Becomes, Carries
<1>2. b \in Places
  BY PlacesAre
<1>3. rejected' = rejected \cup Elems(held[b]) /\ held'[b] = <<>>
  BY <1>1, ContentsAre DEF Contents, IdleReject
<1>4. CallsLose
  BY <1>1, LosesNothing DEF CallsLose
<1> HIDE DEF b
<1>5. \A x \in Places : Loses(held'[x], held[x])
  BY <1>4, Stays, AllLose
<1>6. submitted \subseteq submitted' /\ rejected' \subseteq submitted'
  BY <1>2, <1>3 DEF ItemInv
<1> QED
  BY <1>2, <1>3, <1>5, <1>6, ItemsDrop

\* They are queued in the reserved turn state.
LEMMA IdleExtendItems ==
    ASSUME ItemInv, BaseInv', NEW p \in Callers, IdleExtend(p)
    PROVE  ItemInv'
<1> DEFINE b == <<"pending", call[p].state>>
           c == <<"arg", p>>
<1>1. /\ UNCHANGED <<local, mailbox, history, submitted, rejected>>
      /\ pendingInput' = Extend(call[p].state, call[p].input)
  BY DEF IdleExtend, taskVars, opVars, fateVars
<1>2. /\ \A q \in Callers : q # p => call'[q] = call[q]
      /\ call'[p].input = <<>> /\ call'[p].items = <<>>
  BY ReservedCall DEF ItemInv, BaseInv, Becomes, Carries, IdleExtend
<1>3. CallsLose /\ pendingInput \in [States -> Seq(Items)]
  BY <1>2, LosesNothing DEF CallsLose, ItemInv, BaseInv, TypeOK
<1>4. CASE call[p].state \notin States
  <2>1. \A s \in States : pendingInput'[s] = pendingInput[s]
    BY <1>1, <1>3, <1>4 DEF Extend
  <2>2. QueuesLose
    BY <1>1, <2>1, LosesNothing DEF QueuesLose
  <2> QED
    BY <1>1, <1>3, <2>2, Stays, ItemsLost
<1>5. CASE call[p].state \in States
  <2>1. b \in Places /\ c \in Places /\ b # c
    BY <1>5, PlacesAre
  <2>2. held'[c] = <<>> /\ held'[b] = held[b] \o held[c]
    <3> DEFINE r == call[p].state
    <3>1. pendingInput'[r] = pendingInput[r] \o call[p].input
      BY <1>1, <1>3, <1>5 DEF Extend
    <3>2. r \in States /\ b = <<"pending", r>>
      BY <1>5
    <3>3. held[c] = call[p].input /\ held'[c] = <<>>
      BY <1>2, ContentsAre DEF Contents
    <3> HIDE DEF r, c
    <3>4. held[<<"pending", r>>] = pendingInput[r] /\ held'[<<"pending", r>>] = pendingInput'[r]
      BY <3>2, ContentsAre DEF Contents
    <3> QED
      BY <3>1, <3>2, <3>3, <3>4
  <2>3. \A s \in States : <<"pending", s>> \in {b} \/ Loses(pendingInput'[s], pendingInput[s])
    BY <1>1, <1>3, <1>5, LosesNothing DEF Extend
  <2> HIDE DEF b, c
  <2>4. \A a \in Places \ {b} : Loses(held'[a], held[a])
    BY <1>1, <1>3, <2>3, PlacesLose, LosesNothing DEF CallsLose
  <2> QED
    BY <1>1, <2>1, <2>2, <2>4, ItemsMove
<1> QED
  BY <1>4, <1>5

\* try_start_turn_if_idle.
LEMMA IdleItemsMove ==
    ASSUME ItemInv, BaseInv', NEW p \in Callers, TryStartTurnIfIdle(p)
    PROVE  ItemInv'
<1>0. TypeOK /\ call[p] \in Calls
  BY DEF ItemInv, BaseInv, TypeOK
<1> USE DEF stateVars, fateVars, taskVars, opVars, activeVars
<1>1. "idle" \in CallPoints /\ "pending_check" \in CallPoints /\ "idle_reserve" \in CallPoints
  BY DEF CallPoints
<1>2. ASSUME CallsLose, UNCHANGED <<local, mailbox, history, pendingInput, submitted, rejected>>
      PROVE  ItemInv'
  BY <1>2, Stays, ItemsLost
<1>3. CASE IdleCheck(p)
  <2>1. UNCHANGED <<local, mailbox, history, pendingInput, submitted>>
    BY <1>3 DEF IdleCheck
  <2>2. CASE IdleReject(p, "idle")
    BY <1>1, <2>1, <2>2, RejectItems
  <2>3. CASE Goto(p, "idle_reserve") /\ UNCHANGED rejected
    <3>1. /\ \A q \in Callers : q # p => call'[q] = call[q]
          /\ Carries(p, call[p].kind, call[p].input, call[p].items)
      BY <1>0, <1>1, <2>3, GotoCall DEF Becomes
    <3> QED
      BY <1>2, <2>1, <2>3, <3>1, CarriesLess, LosesNothing
  <2> QED
    BY <1>3, <2>2, <2>3 DEF IdleCheck
<1>4. CASE IdleReserve(p)
  <2>1. UNCHANGED <<local, mailbox, history, pendingInput, submitted>>
    BY <1>4 DEF IdleReserve
  <2>2. CASE activeState # None
    BY <1>1, <1>4, <2>1, <2>2, RejectItems DEF IdleReserve
  <2>3. CASE activeState = None
    <3>1. /\ nextState <= MaxStates /\ UNCHANGED rejected
          /\ call' = [call EXCEPT ![p] =
                         [call[p] EXCEPT !.state = nextState, !.at = "idle_recheck"]]
      BY <1>4, <2>3 DEF IdleReserve
    <3>2. /\ \A q \in Callers : q # p => call'[q] = call[q]
          /\ Carries(p, call[p].kind, call[p].input, call[p].items)
      BY <1>0, <3>1, IdleReserveCall DEF Becomes
    <3> QED
      BY <1>2, <2>1, <3>1, <3>2, CarriesLess, LosesNothing
  <2> QED
    BY <2>2, <2>3
<1>5. CASE IdleRelease(p)
  <2>1. UNCHANGED <<local, mailbox, history, pendingInput, submitted>>
    BY <1>5 DEF IdleRelease
  <2>2. IdleReject(p, "idle") \/ IdleReject(p, "pending_check")
    BY <1>5 DEF IdleRelease
  <2> QED
    BY <1>1, <2>1, <2>2, RejectItems
<1>6. CASE IdleRecheck(p) \/ IdleConfirm(p)
  BY <1>6, CallQuiet
<1>7. CASE IdleExtend(p)
  BY <1>7, IdleExtendItems
<1> QED
  BY <1>3, <1>4, <1>5, <1>6, <1>7 DEF TryStartTurnIfIdle

-----------------------------------------------------------------------------
(* The steps of a task.                                                    *)

\* Steps of a task that lose at most what it holds.
LEMMA TaskQuiet ==
    ASSUME ItemInv, BaseInv', NEW t \in Turns,
           \/ TaskBegin(t) \/ CompactRuns(t) \/ PrepareFails(t) \/ BlockItem(t) \/ RecordEnds(t)
           \/ SampleToolCall(t) \/ SampleAnswer(t) \/ SampleFails(t) \/ RequestApproval(t)
           \/ ApprovalResolves(t) \/ ObserveCancel(t) \/ PostSampling(t) \/ OuterLoop(t)
           \/ FinishCheck(t) \/ FinishTake(t) \/ FinishEmit(t) \/ FinishClear(t)
    PROVE  ItemInv'
<1>0. TypeOK /\ local[t] \in Locals /\ local \in [Turns -> Locals]
  BY DEF ItemInv, BaseInv, TypeOK
<1>1. NoLocal.input = <<>> /\ NoLocal.taken = <<>>
  BY DEF NoLocal
<1> USE DEF stateVars, fateVars, taskVars, opVars, activeVars
<1>2. ASSUME UNCHANGED <<call, mailbox, history, pendingInput, submitted, rejected>>,
             \/ UNCHANGED local
             \/ \E d : /\ local' = [local EXCEPT ![t] = d]
                       /\ Loses(d.input, local[t].input) /\ Loses(d.taken, local[t].taken)
      PROVE  ItemInv'
  <2>1. ASSUME NEW d, local' = [local EXCEPT ![t] = d],
               Loses(d.input, local[t].input), Loses(d.taken, local[t].taken)
        PROVE  LocalsLose
    BY <1>0, <2>1, HoldsLess
  <2> QED
    BY <1>2, <2>1, Stays, ItemsLost
<1>3. \A x : Loses(x, x) /\ Loses(<<>>, x)
  BY LosesNothing
<1>4. CASE TaskBegin(t) \/ RequestApproval(t) \/ FinishCheck(t) \/ FinishTake(t) \/ FinishEmit(t)
              \/ FinishClear(t)
  BY <1>2, <1>4 DEF TaskBegin, RequestApproval, FinishCheck, FinishTake, FinishEmit, FinishClear
<1>5. CASE CompactRuns(t) \/ ObserveCancel(t)
  <2>1. /\ local' = [local EXCEPT ![t] = NoLocal]
        /\ UNCHANGED <<call, mailbox, history, pendingInput, submitted, rejected>>
    BY <1>5 DEF CompactRuns, ObserveCancel, EndRun
  <2> QED
    BY <1>1, <1>2, <1>3, <2>1
<1>6. CASE PrepareFails(t)
  <2> DEFINE d == [local[t] EXCEPT !.input = <<>>, !.steps = local[t].steps + 1]
  <2>1. /\ local' = [local EXCEPT ![t] = d]
        /\ UNCHANGED <<call, mailbox, history, pendingInput, submitted, rejected>>
    BY <1>6 DEF PrepareFails
  <2>2. d.input = <<>> /\ d.taken = local[t].taken
    BY <1>0 DEF Locals
  <2> HIDE DEF d
  <2> QED
    BY <1>2, <1>3, <2>1, <2>2
<1>7. CASE BlockItem(t)
  <2> DEFINE v == IF local[t].verdict = "accepted" THEN "accepted" ELSE "blocked"
             d == [local[t] EXCEPT !.taken = Tail(local[t].taken), !.verdict = v]
  <2>1. /\ local' = [local EXCEPT ![t] = d] /\ local[t].taken # <<>>
        /\ UNCHANGED <<call, mailbox, history, pendingInput, submitted, rejected>>
    BY <1>7 DEF BlockItem
  <2> HIDE DEF v
  <2>2. d.input = local[t].input /\ d.taken = Tail(local[t].taken)
    BY <1>0 DEF Locals
  <2> HIDE DEF d
  <2>3. Loses(d.taken, local[t].taken)
    BY <2>1, <2>2 DEF Loses
  <2> QED
    BY <1>2, <1>3, <2>1, <2>2, <2>3
<1>8. CASE RecordEnds(t) \/ SampleAnswer(t) \/ ApprovalResolves(t)
  <2>1. /\ \/ local' = [local EXCEPT ![t] = [local[t] EXCEPT !.verdict = "none"]]
           \/ local' = [local EXCEPT ![t] = [local[t] EXCEPT !.followUp = FALSE]]
           \/ local' = [local EXCEPT ![t] = [local[t] EXCEPT !.decision = FALSE]]
        /\ UNCHANGED <<call, mailbox, history, pendingInput, submitted, rejected>>
    BY <1>8 DEF RecordEnds, SampleAnswer, ApprovalResolves
  <2>2. ASSUME NEW d, \/ d = [local[t] EXCEPT !.verdict = "none"]
                      \/ d = [local[t] EXCEPT !.followUp = FALSE]
                      \/ d = [local[t] EXCEPT !.decision = FALSE]
        PROVE  d.input = local[t].input /\ d.taken = local[t].taken
    BY <1>0, <2>2 DEF Locals
  <2> QED
    BY <1>2, <1>3, <2>1, <2>2
<1>9. CASE SampleToolCall(t) \/ SampleFails(t)
  <2>1. /\ \/ local' = [local EXCEPT ![t] =
                           [local[t] EXCEPT !.steps = local[t].steps + 1, !.followUp = TRUE]]
           \/ local' = [local EXCEPT ![t] = [local[t] EXCEPT !.steps = local[t].steps + 1]]
           \/ UNCHANGED local
        /\ UNCHANGED <<call, mailbox, history, pendingInput, submitted, rejected>>
    BY <1>9 DEF SampleToolCall, SampleFails
  <2>2. ASSUME NEW d, \/ d = [local[t] EXCEPT !.steps = local[t].steps + 1, !.followUp = TRUE]
                      \/ d = [local[t] EXCEPT !.steps = local[t].steps + 1]
        PROVE  d.input = local[t].input /\ d.taken = local[t].taken
    BY <1>0, <2>2 DEF Locals
  <2> QED
    BY <1>2, <1>3, <2>1, <2>2
<1>10. CASE PostSampling(t)
  <2>1. /\ \/ \E b \in BOOLEAN \cup {~local[t].followUp} :
                 local' = [local EXCEPT ![t] = [local[t] EXCEPT !.canDrain = b]]
           \/ local' = [local EXCEPT ![t] = [local[t] EXCEPT !.canDrain = TRUE,
                                                             !.steps = local[t].steps + 1]]
           \/ UNCHANGED local
        /\ UNCHANGED <<call, mailbox, history, pendingInput, submitted, rejected>>
    BY <1>10, Zenon DEF PostSampling
  <2>2. ASSUME NEW d, NEW b, \/ d = [local[t] EXCEPT !.canDrain = b]
                             \/ d = [local[t] EXCEPT !.canDrain = TRUE, !.steps = local[t].steps + 1]
        PROVE  d.input = local[t].input /\ d.taken = local[t].taken
    BY <1>0, <2>2 DEF Locals
  <2> QED
    BY <1>2, <1>3, <2>1, <2>2
<1>11. CASE OuterLoop(t)
  <2>1. /\ local' = [local EXCEPT ![t] = NoLocal] \/ UNCHANGED local
        /\ UNCHANGED <<call, mailbox, history, pendingInput, submitted, rejected>>
    BY <1>11 DEF OuterLoop, EndRun
  <2> QED
    BY <1>1, <1>2, <1>3, <2>1
<1> QED
  BY <1>4, <1>5, <1>6, <1>7, <1>8, <1>9, <1>10, <1>11

\* What a run takes from place c.
LEMMA TaskTakes ==
    ASSUME ItemInv, BaseInv', NEW t \in Turns, NEW c \in Places, c # <<"taken", t>>,
           UNCHANGED <<call, history, submitted, rejected>>,
           \A u \in Turns : u # t => local'[u] = local[u],
           Loses(local'[t].input, local[t].input), Loses(mailbox', mailbox),
           \A s \in States : Loses(pendingInput'[s], pendingInput[s]),
           held'[c] = <<>>,
           local'[t].taken = local[t].taken \o held[c] \/ local'[t].taken = held[c]
    PROVE  ItemInv'
<1> DEFINE b == <<"taken", t>>
<1>1. b \in Places /\ b # c
  BY PlacesAre
<1>2. held'[b] = held[b] \o held[c] \/ held'[b] = held[c]
  BY ContentsAre DEF Contents
<1>3. \A u \in Turns : /\ Loses(local'[u].input, local[u].input)
                       /\ <<"taken", u>> \in {b} \/ Loses(local'[u].taken, local[u].taken)
  BY LosesNothing
<1> HIDE DEF b
<1>4. \A a \in Places \ {b} : Loses(held'[a], held[a])
  BY <1>3, PlacesLose, LosesNothing
<1> QED
  BY <1>1, <1>2, <1>4, ItemsMove

\* get_pending_input, the turn's own input, and on_task_finished.
LEMMA TaskTakeSteps ==
    ASSUME ItemInv, BaseInv', NEW t \in Turns,
           Prepare(t) \/ DrainTake(t) \/ DrainMail(t) \/ FinishTakePending(t)
    PROVE  ItemInv'
<1>0. TypeOK /\ local[t] \in Locals /\ local \in [Turns -> Locals]
  BY DEF ItemInv, BaseInv, TypeOK
<1>1. \A x : Loses(x, x) /\ Loses(<<>>, x)
  BY LosesNothing
<1> USE DEF stateVars, fateVars, taskVars, opVars, activeVars
<1>2. ASSUME NEW x, NEW d, d = [local[t] EXCEPT !.taken = x]
      PROVE  d.input = local[t].input /\ d.taken = x
  BY <1>0, <1>2 DEF Locals
<1>3. CASE Prepare(t)
  <2> DEFINE d == [local[t] EXCEPT !.canDrain = (local[t].input = <<>>),
                                   !.taken = local[t].input, !.input = <<>>]
             c == <<"input", t>>
  <2>1. /\ local' = [local EXCEPT ![t] = d]
        /\ UNCHANGED <<call, mailbox, history, pendingInput, submitted, rejected>>
    BY <1>3 DEF Prepare
  <2>2. d.input = <<>> /\ d.taken = local[t].input
    BY <1>0 DEF Locals
  <2> HIDE DEF d
  <2>3. /\ local'[t].input = <<>> /\ local'[t].taken = local[t].input
        /\ \A u \in Turns : u # t => local'[u] = local[u]
    BY <1>0, <2>1, <2>2
  <2>4. c \in Places /\ c # <<"taken", t>> /\ held'[c] = <<>> /\ local'[t].taken = held[c]
    BY <2>3, PlacesAre, ContentsAre DEF Contents
  <2> HIDE DEF c
  <2> QED
    BY <1>1, <2>1, <2>3, <2>4, TaskTakes
<1>4. CASE DrainTake(t)
  <2>1. UNCHANGED <<call, mailbox, history, submitted, rejected>>
    BY <1>4 DEF DrainTake
  <2>2. CASE ~local[t].canDrain
    BY <1>4, <2>1, <2>2, Stays, ItemsLost DEF DrainTake
  <2>3. CASE local[t].canDrain
    <3>1. /\ local' = [local EXCEPT ![t] = [local[t] EXCEPT !.taken = ActivePending]]
          /\ pendingInput' = PendingAfterTake
      BY <1>4, <2>3 DEF DrainTake
    <3>2. /\ local'[t].input = local[t].input /\ local'[t].taken = ActivePending
          /\ \A u \in Turns : u # t => local'[u] = local[u]
      BY <1>0, <1>2, <3>1
    <3>3. CASE activeState = None
      <4>1. local'[t].taken = <<>> /\ UNCHANGED pendingInput
        BY <3>1, <3>2, <3>3 DEF ActivePending, PendingAfterTake
      <4>2. LocalsLose
        BY <1>1, <3>2, <4>1, HoldsLess
      <4> QED
        BY <2>1, <4>1, <4>2, Stays, ItemsLost
    <3>4. CASE activeState # None
      <4> DEFINE c == <<"pending", activeState>>
      <4>1. /\ activeState \in States /\ pendingInput \in [States -> Seq(Items)]
            /\ pendingInput' = [pendingInput EXCEPT ![activeState] = <<>>]
            /\ local'[t].taken = pendingInput[activeState]
        BY <1>0, <3>1, <3>2, <3>4 DEF ActivePending, PendingAfterTake, TypeOK
      <4>2. c \in Places /\ c # <<"taken", t>> /\ held'[c] = <<>> /\ local'[t].taken = held[c]
        BY <4>1, PlacesAre, ContentsAre DEF Contents
      <4>3. \A s \in States : Loses(pendingInput'[s], pendingInput[s])
        BY <1>1, <4>1
      <4> HIDE DEF c
      <4> QED
        BY <1>1, <2>1, <3>2, <4>2, <4>3, TaskTakes
    <3> QED
      BY <3>3, <3>4
  <2> QED
    BY <2>2, <2>3
<1>5. CASE DrainMail(t)
  <2> DEFINE c == <<"mailbox", 0>>
  <2>1. /\ local' = [local EXCEPT ![t] = [local[t] EXCEPT !.taken = local[t].taken \o mailbox]]
        /\ mailbox' = <<>>
        /\ UNCHANGED <<call, history, pendingInput, submitted, rejected>>
    BY <1>5 DEF DrainMail
  <2>2. /\ local'[t].input = local[t].input /\ local'[t].taken = local[t].taken \o mailbox
        /\ \A u \in Turns : u # t => local'[u] = local[u]
    BY <1>0, <1>2, <2>1
  <2>3. /\ c \in Places /\ c # <<"taken", t>> /\ held'[c] = <<>>
        /\ local'[t].taken = local[t].taken \o held[c]
    BY <2>1, <2>2, PlacesAre, ContentsAre DEF Contents
  <2> HIDE DEF c
  <2> QED
    BY <1>1, <2>1, <2>2, <2>3, TaskTakes
<1>6. CASE FinishTakePending(t)
  <2> DEFINE s == finishing[t]
             c == <<"pending", s>>
  <2>1. /\ local' = [local EXCEPT ![t] = [local[t] EXCEPT !.taken = pendingInput[s]]]
        /\ pendingInput' = [pendingInput EXCEPT ![s] = <<>>]
        /\ UNCHANGED <<call, history, mailbox, submitted, rejected>>
    BY <1>6 DEF FinishTakePending
  <2>2. s \in States /\ pendingInput \in [States -> Seq(Items)]
    BY <1>6 DEF FinishTakePending, ItemInv, BaseInv, TasksSound, TaskSound, TypeOK
  <2> HIDE DEF s
  <2>3. /\ local'[t].input = local[t].input /\ local'[t].taken = pendingInput[s]
        /\ \A u \in Turns : u # t => local'[u] = local[u]
    BY <1>0, <1>2, <2>1
  <2>4. c \in Places /\ c # <<"taken", t>> /\ held'[c] = <<>> /\ local'[t].taken = held[c]
    BY <2>1, <2>2, <2>3, PlacesAre, ContentsAre DEF Contents
  <2>5. \A r \in States : Loses(pendingInput'[r], pendingInput[r])
    BY <1>1, <2>1, <2>2
  <2> HIDE DEF c
  <2> QED
    BY <1>1, <2>1, <2>3, <2>4, <2>5, TaskTakes
<1> QED
  BY <1>3, <1>4, <1>5, <1>6

\* An item is recorded.
LEMMA RecordItemItems ==
    ASSUME ItemInv, BaseInv', NEW t \in Turns, RecordItem(t)
    PROVE  ItemInv'
<1> DEFINE b == <<"history", 0>>
           c == <<"taken", t>>
           v == IF Head(local[t].taken) \in UserPrompts THEN "accepted" ELSE local[t].verdict
           d == [local[t] EXCEPT !.taken = Tail(local[t].taken), !.verdict = v]
<1>1. /\ local' = [local EXCEPT ![t] = d] /\ local[t].taken # <<>>
      /\ history' = Append(history, Head(local[t].taken))
      /\ UNCHANGED <<call, mailbox, pendingInput, submitted, rejected>>
  BY DEF RecordItem, stateVars, fateVars, opVars
<1>2. /\ local \in [Turns -> Locals] /\ history \in Seq(Items) /\ local[t].taken \in Seq(Items)
  BY LocalIs DEF ItemInv, BaseInv, TypeOK
<1> HIDE DEF v
<1>3. d.input = local[t].input /\ d.taken = Tail(local[t].taken)
  BY <1>2 DEF Locals
<1> HIDE DEF d
<1>4. /\ local'[t].input = local[t].input /\ local'[t].taken = Tail(local[t].taken)
      /\ \A u \in Turns : u # t => local'[u] = local[u]
  BY <1>1, <1>2, <1>3
<1>5. history' = history \o <<Head(local[t].taken)>>
  <2>1. Head(local[t].taken) \in Items
    BY <1>1, <1>2
  <2> QED
    BY <1>1, <1>2, <2>1, AppendSeq
<1>6. /\ b \in Places /\ c \in Places /\ b # c
      /\ held[c] # <<>> /\ held'[c] = Tail(held[c]) /\ held'[b] = held[b] \o <<Head(held[c])>>
  BY <1>1, <1>4, <1>5, PlacesAre, ContentsAre DEF Contents
<1>7. /\ LocalsLose /\ <<"history", 0>> \in {b}
      /\ UNCHANGED <<call, mailbox, pendingInput>>
  BY <1>1, <1>4, HoldsLess DEF Loses
<1> HIDE DEF b, c
<1>8. \A a \in Places \ {b} : Loses(held'[a], held[a])
  BY <1>7, PlacesLose, LosesNothing DEF LocalsLose
<1> QED
  BY <1>1, <1>6, <1>8, ItemsMove

-----------------------------------------------------------------------------
(* ItemInv always holds.                                                   *)

\* Nothing is anywhere at first.
LEMMA ItemInit ==
    ASSUME Init
    PROVE  ItemInv
<1>1. BaseInv /\ NoLocal.input = <<>> /\ NoLocal.taken = <<>>
  BY BaseInit DEF NoLocal
<1>2. NoCall.input = <<>> /\ NoCall.items = <<>>
  BY NoCallType
<1>3. \A a \in Places : held[a] = <<>>
  <2>1. /\ mailbox = <<>> /\ history = <<>> /\ \A s \in States : pendingInput[s] = <<>>
        /\ \A t \in Turns : local[t].input = <<>> /\ local[t].taken = <<>>
        /\ \A p \in Callers : call[p].input = <<>> /\ call[p].items = <<>>
    BY <1>1, <1>2 DEF Init
  <2> SUFFICES ASSUME NEW a \in Places
               PROVE  held[a] = <<>>
    OBVIOUS
  <2>2. CASE a = <<"mailbox", 0>> \/ a = <<"history", 0>>
    BY <2>1, <2>2, ContentsAre DEF Contents
  <2>3. ASSUME NEW s \in States, a = <<"pending", s>>
        PROVE  held[a] = <<>>
    BY <2>1, <2>3, ContentsAre DEF Contents
  <2>4. ASSUME NEW t \in Turns, a = <<"input", t>> \/ a = <<"taken", t>>
        PROVE  held[a] = <<>>
    <3>1. held[<<"input", t>>] = <<>> /\ held[<<"taken", t>>] = <<>>
      BY <2>1, ContentsAre DEF Contents
    <3> QED
      BY <2>4, <3>1
  <2>5. ASSUME NEW p \in Callers, a = <<"arg", p>> \/ a = <<"items", p>>
        PROVE  held[a] = <<>>
    <3>1. held[<<"arg", p>>] = <<>> /\ held[<<"items", p>>] = <<>>
      BY <2>1, ContentsAre DEF Contents
    <3> QED
      BY <2>5, <3>1
  <2> QED
    BY <2>2, <2>3, <2>4, <2>5, PlacesAre
<1>4. Apart(Places, held)
  BY <1>3, EmptySeq DEF Apart
<1> QED
  BY <1>1, <1>3, <1>4, EmptySeq DEF ItemInv, Init

\* Every step keeps it.
LEMMA ItemNext ==
    ASSUME ItemInv, [Next]_vars
    PROVE  ItemInv'
<1>0. BaseInv'
  BY BaseNext DEF ItemInv
<1>1. CASE UNCHANGED vars
  <2>1. UNCHANGED <<call, local, mailbox, history, pendingInput, submitted, rejected>>
    BY <1>1 DEF vars, stateVars, taskVars, opVars, fateVars
  <2> QED
    BY <1>0, <2>1, Stays, ItemsLost
<1>2. CASE ClientStep
  BY <1>0, <1>2, ClientItems
<1>3. ASSUME NEW p \in Callers, CallStep(p)
      PROVE  ItemInv'
  BY <1>0, <1>3, CallQuiet, StartTakeItems, StartDrainItems, StartExtendItems, StartInstallItems,
     IdleItemsMove DEF CallStep, StartTask, Abort
<1>4. ASSUME NEW t \in Turns, TaskStep(t)
      PROVE  ItemInv'
  BY <1>0, <1>4, TaskQuiet, TaskTakeSteps, RecordItemItems DEF TaskStep, RunStep, FinishStep
<1> QED
  BY <1>1, <1>2, <1>3, <1>4 DEF Next

\* ItemInv always holds.
LEMMA ItemHolds == Spec => []ItemInv
<1>1. Init => ItemInv
  BY ItemInit
<1>2. ItemInv /\ [Next]_vars => ItemInv'
  BY ItemNext
<1> QED
  BY <1>1, <1>2, PTL DEF Spec

\* An item is recorded in the history at most once, for any number of turns, callers and
\* items: get_pending_input, start_task and on_task_finished move an item from one place
\* to the next and never leave it behind.
THEOREM EachRecordedOnce == Spec => []RecordedOnce
<1>1. ItemInv => RecordedOnce
  <2>1. ItemInv => Distinct(history)
    BY PlacesAre, ContentsAre DEF ItemInv, Apart, Contents
  <2> QED
    BY <2>1 DEF Distinct, RecordedOnce
<1> QED
  BY <1>1, ItemHolds, PTL

\* What was refused and went back to its sender is in no queue of a turn and is never
\* recorded, for any number of turns, callers and items.
THEOREM RefusedNeverRecorded == Spec => []RefusedNotRecorded
<1>1. ASSUME ItemInv
      PROVE  RefusedNotRecorded
  <2>1. /\ Elems(history) \cap rejected = {} /\ Elems(mailbox) \cap rejected = {}
        /\ \A s \in States : Elems(pendingInput[s]) \cap rejected = {}
    BY <1>1, PlacesAre, ContentsAre DEF ItemInv, Contents
  <2> QED
    BY <2>1 DEF RefusedNotRecorded, Queued
<1> QED
  BY <1>1, ItemHolds, PTL
=============================================================================
