--------------------------- MODULE TurnLifecycle ---------------------------
(***************************************************************************)
(* The turn lifecycle of one session (motyga-rs/core): the submission loop *)
(* that executes client operations one at a time, the tokio task spawned   *)
(* for every turn, the slot `Session.active_turn` they share, the per-turn *)
(* input queue, the session mailbox, and the other callers that reach the  *)
(* same slot from their own tasks (turn/steer, item injection, the         *)
(* extension that continues work on an idle thread, the guardian that      *)
(* interrupts a turn).                                                     *)
(*                                                                         *)
(* Granularity: one action is the code from one await that can suspend to  *)
(* the next; every such stretch holds at most one of the session's locks.  *)
(***************************************************************************)
EXTENDS Naturals, Sequences, FiniteSets

CONSTANTS
    UserInputs,     \* items submitted as Op::UserInput
    Steers,         \* items sent through turn/steer
    TriggerMails,   \* inter-agent mail with trigger_turn
    PlainMails,     \* inter-agent mail without trigger_turn
    Injected,       \* items given to inject_no_new_turn
    IdleItems,      \* items an extension offers to an idle thread
    Guardian,       \* TRUE iff the guardian may interrupt a turn
    MaxTurns,       \* bound: turns started
    MaxStates,      \* bound: TurnState objects allocated
    MaxInterrupts,  \* bound: Op::Interrupt (and approval decisions "abort")
    MaxCompacts,    \* bound: Op::Compact
    MaxShutdowns,   \* bound: Op::Shutdown (0 or 1)
    MaxSteps        \* bound: follow-up samplings per turn

Mails == TriggerMails \cup PlainMails
UserPrompts == UserInputs \cup Steers
Items == UserInputs \cup Steers \cup Mails \cup Injected \cup IdleItems

ASSUME BoundsAssumption ==
    /\ MaxTurns \in Nat /\ MaxStates \in Nat /\ MaxSteps \in Nat
    /\ MaxInterrupts \in Nat /\ MaxCompacts \in Nat /\ MaxShutdowns \in Nat
    /\ Guardian \in BOOLEAN

\* What an extension injects is nobody's input.
ASSUME KindsAssumption == Injected \cap (UserInputs \cup Steers \cup Mails) = {}

Turns == 1..MaxTurns
States == 1..MaxStates
None == 0

VARIABLES
    \* Session.active_turn: Mutex<Option<ActiveTurn>>
    activeState,    \* its turn_state, None when the option is None
    activeTask,     \* its task, None when the option or the task is None
    \* TurnState, one per allocated ActiveTurn
    pendingInput, phase, waiters, nextState,
    \* InputQueue.mailbox_pending_mails and the conversation history
    mailbox, history,
    \* the spawned task of each turn
    pc, kind, cancelled,
    local,          \* the variables of its run: see NoLocal
    finishing,      \* the turn_state on_task_finished holds
    nextTurn,
    \* callers of Session methods, and what they have submitted
    call, submitted, interrupts, compacts, shutdowns,
    \* observations: events and the fate of items
    started, ended, rejected, discarded, overwritten

activeVars == <<activeState, activeTask>>
stateVars  == <<pendingInput, phase, waiters>>
taskVars   == <<pc, kind, cancelled, local, finishing>>
opVars     == <<submitted, interrupts, compacts, shutdowns>>
fateVars   == <<started, ended, rejected, discarded, overwritten>>
vars == <<activeVars, stateVars, nextState, mailbox, history, taskVars,
          nextTurn, call, opVars, fateVars>>

Elems(s) == {s[i] : i \in DOMAIN s}

Callers == {"loop", "extension", "guardian"}
NoCall == [at |-> "idle", turn |-> None, state |-> None, victim |-> None,
           kind |-> "Regular", input |-> <<>>, items |-> <<>>,
           reason |-> "none"]

\* The variables of a run: the turn's input, what get_pending_input returned,
\* can_drain_pending_input, model_needs_follow_up, the approval received, what
\* hooks made of the prompts, and the number of follow-ups so far.
NoLocal == [input |-> <<>>, taken |-> <<>>, canDrain |-> FALSE,
            followUp |-> FALSE, decision |-> FALSE, verdict |-> "none",
            steps |-> 0]

\* Where a spawned task is. The task is in SessionTask::run until "finish".
RunPoints == {"begin", "compacting", "prepare", "record_input", "drain",
              "drain_mail", "record", "sample", "approve", "waiting", "post", "outer"}
FinishPoints == {"fin_lock", "fin_take", "fin_record", "fin_emit", "fin_clear"}
RecordPoints == {"record_input", "record", "fin_record"}
TaskPoints == RunPoints \cup FinishPoints
                 \cup {"none", "finish", "done", "killed"}
AbortPoints == {"abort_wait", "abort_emit", "abort_clear"}
StartPoints == {"start_take", "start_drain", "start_state", "start_extend",
                "start_install"}
CallPoints == {"idle", "exited", "abort_take", "pending_check", "reserve",
               "idle_check", "idle_reserve", "idle_recheck", "idle_release",
               "idle_confirm", "idle_busy", "idle_extend"} \cup AbortPoints \cup StartPoints

Locals == [input : Seq(Items), taken : Seq(Items), canDrain : BOOLEAN,
           followUp : BOOLEAN, decision : BOOLEAN,
           verdict : {"none", "accepted", "blocked"}, steps : 0..MaxSteps]
Calls == [at : CallPoints, turn : Turns \cup {None}, state : States \cup {None},
          victim : Turns \cup {None}, kind : {"Regular", "Compact"},
          input : Seq(Items), items : Seq(Items),
          reason : {"none", "Replaced", "Interrupted"}]

TypeOK ==
    /\ activeState \in States \cup {None}
    /\ activeTask \in Turns \cup {None}
    /\ pendingInput \in [States -> Seq(Items)]
    /\ phase \in [States -> {"CurrentTurn", "NextTurn"}]
    /\ waiters \in [States -> SUBSET Turns]
    /\ nextState \in 1..(MaxStates + 1)
    /\ mailbox \in Seq(Mails)
    /\ history \in Seq(Items)
    /\ pc \in [Turns -> TaskPoints]
    /\ kind \in [Turns -> {"Regular", "Compact"}]
    /\ cancelled \in [Turns -> BOOLEAN]
    /\ local \in [Turns -> Locals]
    /\ finishing \in [Turns -> States \cup {None}]
    /\ nextTurn \in 1..(MaxTurns + 1)
    /\ call \in [Callers -> Calls]
    /\ submitted \subseteq Items
    /\ interrupts \in 0..MaxInterrupts
    /\ compacts \in 0..MaxCompacts
    /\ shutdowns \in 0..MaxShutdowns
    /\ started \in [Turns -> BOOLEAN]
    /\ ended \in [Turns -> Nat]
    /\ rejected \subseteq Items
    /\ discarded \subseteq Items
    /\ overwritten \in BOOLEAN

Init ==
    /\ activeState = None /\ activeTask = None
    /\ pendingInput = [s \in States |-> <<>>]
    /\ phase = [s \in States |-> "CurrentTurn"]
    /\ waiters = [s \in States |-> {}]
    /\ nextState = 1
    /\ mailbox = <<>> /\ history = <<>>
    /\ pc = [t \in Turns |-> "none"]
    /\ kind = [t \in Turns |-> "Regular"]
    /\ cancelled = [t \in Turns |-> FALSE]
    /\ local = [t \in Turns |-> NoLocal]
    /\ finishing = [t \in Turns |-> None]
    /\ nextTurn = 1
    /\ call = [p \in Callers |-> NoCall]
    /\ submitted = {} /\ interrupts = 0 /\ compacts = 0 /\ shutdowns = 0
    /\ started = [t \in Turns |-> FALSE]
    /\ ended = [t \in Turns |-> 0]
    /\ rejected = {} /\ discarded = {} /\ overwritten = FALSE

-----------------------------------------------------------------------------
(* Helpers on the shared state.                                            *)

HasTriggerTurnMail == \E m \in Elems(mailbox) : m \in TriggerMails

\* InputQueue::get_pending_input / has_pending_input read the slot whatever
\* turn it holds; with no active turn, mail is accepted.
AcceptsMailbox ==
    activeState = None \/ phase[activeState] = "CurrentTurn"
ActivePending == IF activeState = None THEN <<>> ELSE pendingInput[activeState]
HasPendingInput ==
    \/ ActivePending # <<>>
    \/ AcceptsMailbox /\ mailbox # <<>>

\* What split_off(0) on the active turn's queue leaves behind.
PendingAfterTake ==
    IF activeState = None THEN pendingInput
    ELSE [pendingInput EXCEPT ![activeState] = <<>>]

Extend(s, items) == [pendingInput EXCEPT ![s] = @ \o items]

\* steer_input: the turn in the slot has a running, steerable task.
HasActiveTask == activeState # None /\ activeTask # None
Steerable == HasActiveTask /\ kind[activeTask] = "Regular"

\* ActiveTurn::default, when the slot is empty (get_or_insert_with).
CanInsert == activeState = None => nextState <= MaxStates
SlotAfterInsert == IF activeState = None THEN nextState ELSE activeState
NextStateAfterInsert == IF activeState = None THEN nextState + 1 ELSE nextState

\* The submission loop leaves its `while` once Op::Shutdown has been handled.
Returned(p) ==
    [NoCall EXCEPT !.at = IF p = "loop" /\ shutdowns > 0 THEN "exited"
                                                         ELSE "idle"]
Goto(p, at) == call' = [call EXCEPT ![p].at = at]
Return(p) == call' = [call EXCEPT ![p] = Returned(p)]

\* abort_all_tasks is called: spawn_task, interrupt_task, shutdown.
SpawnTask(k, in) ==
    /\ nextTurn <= MaxTurns
    /\ nextTurn' = nextTurn + 1
    /\ call' = [call EXCEPT !["loop"] =
                   [NoCall EXCEPT !.at = "abort_take", !.turn = nextTurn,
                                  !.kind = k, !.input = in,
                                  !.reason = "Replaced"]]
InterruptTask(p) ==
    call' = [call EXCEPT ![p] = [NoCall EXCEPT !.at = "abort_take",
                                               !.reason = "Interrupted"]]

LoopReady == call["loop"].at = "idle"

-----------------------------------------------------------------------------
(* Operations the submission loop takes from its channel.                  *)

\* user_input_or_turn_inner: steer the running task, or start a turn.
UserInputSteers(u) ==
    /\ LoopReady /\ u \in UserInputs \ submitted /\ Steerable
    /\ submitted' = submitted \cup {u}
    /\ pendingInput' = Extend(activeState, <<u>>)
    /\ phase' = [phase EXCEPT ![activeState] = "CurrentTurn"]
    /\ UNCHANGED <<activeVars, waiters, nextState, mailbox, history, taskVars,
                   nextTurn, call, interrupts, compacts, shutdowns, fateVars>>

\* The active task cannot be steered, or new_turn_with_sub_id refuses the
\* settings that came with the input: an error event and nothing else.
UserInputRejected(u) ==
    /\ LoopReady /\ u \in UserInputs \ submitted
    /\ submitted' = submitted \cup {u}
    /\ rejected' = rejected \cup {u}
    /\ UNCHANGED <<activeVars, stateVars, nextState, mailbox, history,
                   taskVars, nextTurn, call, interrupts, compacts, shutdowns,
                   started, ended, discarded, overwritten>>

UserInputStartsTurn(u) ==
    /\ LoopReady /\ u \in UserInputs \ submitted /\ ~HasActiveTask
    /\ submitted' = submitted \cup {u}
    /\ SpawnTask("Regular", <<u>>)
    /\ UNCHANGED <<activeVars, stateVars, nextState, mailbox, history,
                   taskVars, interrupts, compacts, shutdowns, fateVars>>

\* compact: a task that takes no input and cannot be steered.
Compact ==
    /\ LoopReady /\ compacts < MaxCompacts
    /\ compacts' = compacts + 1
    /\ SpawnTask("Compact", <<>>)
    /\ UNCHANGED <<activeVars, stateVars, nextState, mailbox, history,
                   taskVars, submitted, interrupts, shutdowns, fateVars>>

\* interrupt, and exec_approval / patch_approval with ReviewDecision::Abort.
Interrupt ==
    /\ LoopReady /\ interrupts < MaxInterrupts
    /\ interrupts' = interrupts + 1
    /\ InterruptTask("loop")
    /\ UNCHANGED <<activeVars, stateVars, nextState, mailbox, history,
                   taskVars, nextTurn, submitted, compacts, shutdowns,
                   fateVars>>

\* shutdown_session_runtime aborts the tasks; then the loop exits.
Shutdown ==
    /\ LoopReady /\ shutdowns < MaxShutdowns
    /\ shutdowns' = shutdowns + 1
    /\ InterruptTask("loop")
    /\ UNCHANGED <<activeVars, stateVars, nextState, mailbox, history,
                   taskVars, nextTurn, submitted, interrupts, compacts,
                   fateVars>>

\* inter_agent_communication: enqueue, then look for pending work.
InterAgentCommunication(m) ==
    /\ LoopReady /\ m \in Mails \ submitted
    /\ submitted' = submitted \cup {m}
    /\ mailbox' = Append(mailbox, m)
    /\ IF m \in TriggerMails THEN Goto("loop", "pending_check")
                             ELSE UNCHANGED call
    /\ UNCHANGED <<activeVars, stateVars, nextState, history, taskVars,
                   nextTurn, interrupts, compacts, shutdowns, fateVars>>

\* exec_approval / patch_approval with any other decision: notify_approval
\* finds the waiter in the active turn's state and wakes it.
NotifyApproval(t) ==
    /\ LoopReady /\ activeState # None /\ t \in waiters[activeState]
    /\ waiters' = [waiters EXCEPT ![activeState] = @ \ {t}]
    /\ local' = [local EXCEPT ![t].decision = TRUE]
    /\ UNCHANGED <<activeVars, pendingInput, phase,
                   nextState, mailbox, history, pc, kind, cancelled,
                   finishing, nextTurn, call, opVars, fateVars>>

-----------------------------------------------------------------------------
(* Calls made from other tasks, each one critical section.                 *)

\* Session::steer_input called by turn/steer, for the turn the client
\* believes to be active.
SteerInput(u, expected) ==
    /\ u \in Steers \ submitted /\ expected < nextTurn
    /\ submitted' = submitted \cup {u}
    /\ IF Steerable /\ activeTask = expected
       THEN /\ pendingInput' = Extend(activeState, <<u>>)
            /\ phase' = [phase EXCEPT ![activeState] = "CurrentTurn"]
            /\ UNCHANGED rejected
       ELSE /\ rejected' = rejected \cup {u}
            /\ UNCHANGED <<pendingInput, phase>>
    /\ UNCHANGED <<activeVars, waiters, nextState, mailbox, history, taskVars,
                   nextTurn, call, interrupts, compacts, shutdowns, started,
                   ended, discarded, overwritten>>

\* inject_no_new_turn: into the active turn, else straight into history.
InjectNoNewTurn(i) ==
    /\ i \in Injected \ submitted
    /\ submitted' = submitted \cup {i}
    /\ IF activeState # None
       THEN pendingInput' = Extend(activeState, <<i>>) /\ UNCHANGED history
       ELSE history' = Append(history, i) /\ UNCHANGED pendingInput
    /\ UNCHANGED <<activeVars, phase, waiters, nextState, mailbox, taskVars,
                   nextTurn, call, interrupts, compacts, shutdowns, fateVars>>

-----------------------------------------------------------------------------
(* maybe_start_turn_for_pending_work                                       *)

PendingCheck(p) ==
    /\ call[p].at = "pending_check"
    /\ IF HasTriggerTurnMail THEN Goto(p, "reserve") ELSE Return(p)
    /\ UNCHANGED <<activeVars, stateVars, nextState, mailbox, history,
                   taskVars, nextTurn, opVars, fateVars>>

ReserveRefused(p) ==
    /\ call[p].at = "reserve" /\ activeState # None
    /\ Return(p)
    /\ UNCHANGED <<activeVars, stateVars, nextState, mailbox, history,
                   taskVars, nextTurn, opVars, fateVars>>

\* Mutant: the pending work joins whatever turn the slot holds.
ReserveOccupied(p) ==
    /\ call[p].at = "reserve" /\ nextTurn <= MaxTurns /\ CanInsert
    /\ activeState' = SlotAfterInsert
    /\ nextState' = NextStateAfterInsert
    /\ nextTurn' = nextTurn + 1
    /\ call' = [call EXCEPT ![p] = [NoCall EXCEPT !.at = "start_take",
                                                  !.turn = nextTurn]]
    /\ UNCHANGED <<activeTask, stateVars, mailbox, history, taskVars, opVars,
                   fateVars>>

Reserve(p) ==
    /\ call[p].at = "reserve" /\ activeState = None
    /\ nextState <= MaxStates /\ nextTurn <= MaxTurns
    /\ activeState' = nextState /\ activeTask' = None
    /\ nextState' = nextState + 1
    /\ nextTurn' = nextTurn + 1
    /\ call' = [call EXCEPT ![p] = [NoCall EXCEPT !.at = "start_take",
                                                  !.turn = nextTurn]]
    /\ UNCHANGED <<stateVars, mailbox, history, taskVars, opVars, fateVars>>

-----------------------------------------------------------------------------
(* start_task                                                              *)

\* get_pending_input, first half: take the queue and read the phase.
StartTake(p) ==
    /\ call[p].at = "start_take"
    /\ call' = [call EXCEPT ![p] =
                   [call[p] EXCEPT !.items = ActivePending,
                                   !.at = IF AcceptsMailbox THEN "start_drain"
                                                            ELSE "start_state"]]
    /\ pendingInput' = PendingAfterTake
    /\ UNCHANGED <<activeVars, phase, waiters, nextState, mailbox, history,
                   taskVars, nextTurn, opVars, fateVars>>

\* get_pending_input, second half: drain the mailbox behind the queue.
StartDrain(p) ==
    /\ call[p].at = "start_drain"
    /\ call' = [call EXCEPT ![p] =
                   [call[p] EXCEPT !.items = call[p].items \o mailbox,
                                   !.at = "start_state"]]
    /\ mailbox' = <<>>
    /\ UNCHANGED <<activeVars, stateVars, nextState, history, taskVars,
                   nextTurn, opVars, fateVars>>

StartState(p) ==
    /\ call[p].at = "start_state" /\ CanInsert
    /\ activeState' = SlotAfterInsert
    /\ nextState' = NextStateAfterInsert
    /\ overwritten' = (overwritten \/ activeTask # None)
    /\ call' = [call EXCEPT ![p] =
                   [call[p] EXCEPT !.state = SlotAfterInsert, !.at = "start_extend"]]
    /\ UNCHANGED <<activeTask, stateVars, mailbox, history, taskVars,
                   nextTurn, opVars, started, ended, rejected, discarded>>

\* Mutant: the items taken before the turn state was looked up are forgotten.
StartExtendForgets(p) ==
    /\ call[p].at = "start_extend"
    /\ call' = [call EXCEPT ![p] =
                   [call[p] EXCEPT !.items = <<>>, !.state = None, !.at = "start_install"]]
    /\ UNCHANGED <<activeVars, stateVars, nextState, mailbox, history,
                   taskVars, nextTurn, opVars, fateVars>>

StartExtend(p) ==
    /\ call[p].at = "start_extend"
    /\ pendingInput' = Extend(call[p].state, call[p].items)
    /\ call' = [call EXCEPT ![p] =
                   [call[p] EXCEPT !.items = <<>>, !.state = None, !.at = "start_install"]]
    /\ UNCHANGED <<activeVars, phase, waiters, nextState, mailbox, history,
                   taskVars, nextTurn, opVars, fateVars>>

\* The task is spawned and stored. A task already in the slot is dropped,
\* and AbortOnDropHandle aborts its future; in a debug build the
\* debug_assert!(turn.task.is_none()) fails instead.
StartInstall(p) ==
    /\ call[p].at = "start_install" /\ CanInsert
    /\ activeState' = SlotAfterInsert
    /\ nextState' = NextStateAfterInsert
    /\ activeTask' = call[p].turn
    /\ overwritten' = (overwritten \/ activeTask # None)
    /\ pc' = [t \in Turns |->
                 CASE t = call[p].turn -> "begin"
                   [] t = activeTask /\ t # call[p].turn -> "killed"
                   [] OTHER -> pc[t]]
    /\ kind' = [kind EXCEPT ![call[p].turn] = call[p].kind]
    /\ local' = [local EXCEPT ![call[p].turn].input = call[p].input]
    /\ Return(p)
    /\ UNCHANGED <<stateVars, mailbox, history, cancelled,
                   finishing, nextTurn, opVars, started, ended, rejected,
                   discarded>>

StartTask(p) ==
    StartTake(p) \/ StartDrain(p) \/ StartState(p) \/ StartExtend(p)
        \/ StartInstall(p)

-----------------------------------------------------------------------------
(* abort_all_tasks / abort_turn_if_active and handle_task_abort            *)

\* Mutant: pending approvals are dropped at once, while the task may wait for one.
TakeAndClear(p, reason) ==
    /\ call' = [call EXCEPT ![p] =
                   [call[p] EXCEPT !.at = "abort_wait", !.victim = activeTask,
                                   !.state = activeState, !.reason = reason]]
    /\ cancelled' = [cancelled EXCEPT ![activeTask] = TRUE]
    /\ waiters' = [waiters EXCEPT ![activeState] = {}]
    /\ activeState' = None /\ activeTask' = None
    /\ UNCHANGED <<pendingInput, phase, nextState, mailbox, history, pc, kind, local,
                   finishing, nextTurn, opVars, fateVars>>

\* The whole ActiveTurn is taken; with a task in it, its token is cancelled
\* before the caller awaits anything.
TakeAndCancel(p, reason) ==
    /\ call' = [call EXCEPT ![p] =
                   [call[p] EXCEPT !.at = IF cancelled[activeTask]
                                          THEN "abort_clear" ELSE "abort_wait",
                                   !.victim = activeTask, !.state = activeState,
                                   !.reason = reason]]
    /\ cancelled' = [cancelled EXCEPT ![activeTask] = TRUE]
    /\ activeState' = None /\ activeTask' = None
    /\ UNCHANGED <<stateVars, nextState, mailbox, history, pc, kind, local,
                   finishing, nextTurn, opVars, fateVars>>

AbortAllTakesTask(p) ==
    /\ call[p].at = "abort_take" /\ HasActiveTask
    /\ TakeAndCancel(p, call[p].reason)

\* Nothing to abort. A turn without a task (reserved, or being finished) is
\* dropped from the slot but its state is not cleared.
AbortAllFindsNoTask(p) ==
    /\ call[p].at = "abort_take" /\ ~HasActiveTask
    /\ activeState' = None /\ activeTask' = None
    /\ IF call[p].reason = "Replaced" THEN Goto(p, "start_take") ELSE Return(p)
    /\ UNCHANGED <<stateVars, nextState, mailbox, history, taskVars, nextTurn,
                   opVars, fateVars>>

\* The guardian interrupts the turn it was reviewing, if still active.
AbortTurnIfActive(t) ==
    /\ Guardian /\ call["guardian"].at = "idle"
    /\ HasActiveTask /\ activeTask = t
    /\ TakeAndCancel("guardian", "Interrupted")

AbortGraceful(p) ==
    /\ call[p].at = "abort_wait" /\ pc[call[p].victim] = "done"
    /\ Goto(p, "abort_emit")
    /\ UNCHANGED <<activeVars, stateVars, nextState, mailbox, history,
                   taskVars, nextTurn, opVars, fateVars>>

\* Mutant: handle.abort() is missing after the grace period.
AbortTimeoutLeavesTask(p) ==
    /\ call[p].at = "abort_wait" /\ pc[call[p].victim] # "done"
    /\ Goto(p, "abort_emit")
    /\ UNCHANGED <<activeVars, stateVars, nextState, mailbox, history,
                   taskVars, nextTurn, opVars, fateVars>>

\* GRACEFULL_INTERRUPTION_TIMEOUT_MS elapsed: the future is aborted where it
\* is suspended, and what it had taken from the queues goes with it.
AbortTimeout(p) ==
    /\ call[p].at = "abort_wait" /\ pc[call[p].victim] # "done"
    /\ pc' = [pc EXCEPT ![call[p].victim] = "killed"]
    /\ discarded' = discarded \cup Elems(local[call[p].victim].input)
                              \cup Elems(local[call[p].victim].taken)
    /\ local' = [local EXCEPT ![call[p].victim] = NoLocal]
    /\ Goto(p, "abort_emit")
    /\ UNCHANGED <<activeVars, stateVars, nextState,
                   mailbox, history, kind, cancelled, finishing, nextTurn,
                   opVars, started, ended, rejected, overwritten>>

\* Mutant: an abort that sends no event.
AbortSilently(p) ==
    /\ call[p].at = "abort_emit"
    /\ Goto(p, "abort_clear")
    /\ UNCHANGED <<activeVars, stateVars, nextState, mailbox, history,
                   taskVars, nextTurn, opVars, fateVars>>

\* EventMsg::TurnAborted.
AbortEmit(p) ==
    /\ call[p].at = "abort_emit"
    /\ ended' = [ended EXCEPT ![call[p].victim] = @ + 1]
    /\ Goto(p, "abort_clear")
    /\ UNCHANGED <<activeVars, stateVars, nextState, mailbox, history,
                   taskVars, nextTurn, opVars, started, rejected, discarded,
                   overwritten>>

\* clear_pending on the taken turn, then the caller's continuation.
AbortClear(p) ==
    /\ call[p].at = "abort_clear"
    /\ waiters' = [waiters EXCEPT ![call[p].state] = {}]
    /\ discarded' = discarded \cup Elems(pendingInput[call[p].state])
    /\ pendingInput' = [pendingInput EXCEPT ![call[p].state] = <<>>]
    /\ call' = [call EXCEPT ![p] =
                   [call[p] EXCEPT !.at = IF call[p].reason = "Replaced"
                                          THEN "start_take" ELSE "pending_check",
                                   !.victim = None, !.state = None, !.reason = "none"]]
    /\ UNCHANGED <<activeVars, phase, nextState, mailbox, history, taskVars,
                   nextTurn, opVars, started, ended, rejected, overwritten>>

Abort(p) ==
    AbortAllTakesTask(p) \/ AbortAllFindsNoTask(p) \/ AbortGraceful(p)
        \/ AbortTimeout(p) \/ AbortEmit(p) \/ AbortClear(p)

-----------------------------------------------------------------------------
(* try_start_turn_if_idle: an extension offers work to an idle thread.     *)

OfferIdleWork(i) ==
    /\ call["extension"].at = "idle" /\ i \in IdleItems \ submitted
    /\ submitted' = submitted \cup {i}
    /\ call' = [call EXCEPT !["extension"] =
                   [NoCall EXCEPT !.at = "idle_check", !.input = <<i>>]]
    /\ UNCHANGED <<activeVars, stateVars, nextState, mailbox, history,
                   taskVars, nextTurn, interrupts, compacts, shutdowns,
                   fateVars>>

\* The items go back to the caller with the reason.
IdleReject(p, next) ==
    /\ rejected' = rejected \cup Elems(call[p].input)
    /\ call' = [call EXCEPT ![p] = [NoCall EXCEPT !.at = next]]

\* PendingTriggerTurn or PlanMode (the mode is not modelled), else go on.
IdleCheck(p) ==
    /\ call[p].at = "idle_check"
    /\ \/ IdleReject(p, "idle")
       \/ ~HasTriggerTurnMail /\ Goto(p, "idle_reserve") /\ UNCHANGED rejected
    /\ UNCHANGED <<activeVars, stateVars, nextState, mailbox, history,
                   taskVars, nextTurn, opVars, started, ended, discarded,
                   overwritten>>

IdleReserve(p) ==
    /\ call[p].at = "idle_reserve"
    /\ IF activeState # None
       THEN /\ IdleReject(p, "idle")
            /\ UNCHANGED <<activeVars, nextState>>
       ELSE /\ nextState <= MaxStates
            /\ activeState' = nextState /\ activeTask' = None
            /\ nextState' = nextState + 1
            /\ call' = [call EXCEPT ![p] =
                           [call[p] EXCEPT !.state = nextState, !.at = "idle_recheck"]]
            /\ UNCHANGED rejected
    /\ UNCHANGED <<stateVars, mailbox, history, taskVars, nextTurn, opVars,
                   started, ended, discarded, overwritten>>

\* The mailbox is looked at again after the reservation (twice, around the
\* construction of the turn context: the later look decides), and the mode.
IdleRecheck(p) ==
    /\ call[p].at = "idle_recheck"
    /\ \/ Goto(p, "idle_release")
       \/ ~HasTriggerTurnMail /\ Goto(p, "idle_confirm")
    /\ UNCHANGED <<activeVars, stateVars, nextState, mailbox, history,
                   taskVars, nextTurn, opVars, fateVars>>

\* clear_reserved_idle_turn, then maybe_start_turn_for_pending_work unless
\* somebody else has used the reservation.
IdleRelease(p) ==
    /\ call[p].at \in {"idle_release", "idle_busy"}
    /\ IF activeTask = None /\ activeState = call[p].state
       THEN activeState' = None ELSE UNCHANGED activeState
    /\ IdleReject(p, IF call[p].at = "idle_busy" THEN "idle"
                                               ELSE "pending_check")
    /\ UNCHANGED <<activeTask, stateVars, nextState, mailbox, history,
                   taskVars, nextTurn, opVars, started, ended, discarded,
                   overwritten>>

\* Mutant: the items are queued before the reservation is confirmed.
IdleConfirmQueues(p) ==
    /\ call[p].at = "idle_confirm"
    /\ pendingInput' = Extend(call[p].state, call[p].input)
    /\ Goto(p, IF activeTask = None /\ activeState = call[p].state
               THEN "idle_extend" ELSE "idle_busy")
    /\ UNCHANGED <<activeVars, phase, waiters, nextState, mailbox, history,
                   taskVars, nextTurn, opVars, fateVars>>

\* still_reserved, else Busy.
IdleConfirm(p) ==
    /\ call[p].at = "idle_confirm"
    /\ Goto(p, IF activeTask = None /\ activeState = call[p].state
               THEN "idle_extend" ELSE "idle_busy")
    /\ UNCHANGED <<activeVars, stateVars, nextState, mailbox, history,
                   taskVars, nextTurn, opVars, fateVars>>

IdleExtend(p) ==
    /\ call[p].at = "idle_extend" /\ nextTurn <= MaxTurns
    /\ pendingInput' = Extend(call[p].state, call[p].input)
    /\ nextTurn' = nextTurn + 1
    /\ call' = [call EXCEPT ![p] = [NoCall EXCEPT !.at = "start_take",
                                                  !.turn = nextTurn]]
    /\ UNCHANGED <<activeVars, phase, waiters, nextState, mailbox, history,
                   taskVars, opVars, fateVars>>

TryStartTurnIfIdle(p) ==
    IdleCheck(p) \/ IdleReserve(p) \/ IdleRecheck(p) \/ IdleRelease(p)
        \/ IdleConfirm(p) \/ IdleExtend(p)

-----------------------------------------------------------------------------
(* The spawned task of turn t: RegularTask::run and run_turn.              *)

At(t, point) == pc' = [pc EXCEPT ![t] = point]
MayStep(t) == local[t].steps < MaxSteps

\* run returns: its variables are gone.
EndRun(t) == At(t, "finish") /\ local' = [local EXCEPT ![t] = NoLocal]

\* EventMsg::TurnStarted is the first thing a task sends.
TaskBegin(t) ==
    /\ pc[t] = "begin"
    /\ started' = [started EXCEPT ![t] = TRUE]
    /\ At(t, IF kind[t] = "Compact" THEN "compacting" ELSE "prepare")
    /\ UNCHANGED <<activeVars, stateVars, nextState, mailbox, history, kind,
                   cancelled, local, finishing, nextTurn, call, opVars, ended,
                   rejected, discarded, overwritten>>

CompactRuns(t) ==
    /\ pc[t] = "compacting"
    /\ EndRun(t)
    /\ UNCHANGED <<activeVars, stateVars, nextState, mailbox, history, kind,
                   cancelled, finishing, nextTurn, call, opVars,
                   fateVars>>

\* Pre-sampling compaction or a session-start hook ends run_turn early, the
\* turn's own input unrecorded. MaxSteps bounds how often that repeats.
PrepareFails(t) ==
    /\ pc[t] = "prepare" /\ MayStep(t)
    /\ discarded' = discarded \cup Elems(local[t].input)
    /\ local' = [local EXCEPT ![t] =
                    [local[t] EXCEPT !.input = <<>>, !.steps = local[t].steps + 1]]
    /\ At(t, "outer")
    /\ UNCHANGED <<activeVars, stateVars, nextState,
                   mailbox, history, kind, cancelled, finishing, nextTurn,
                   call, opVars, started, ended, rejected, overwritten>>

\* The turn's input is recorded, and sampled before anything queued.
Prepare(t) ==
    /\ pc[t] = "prepare"
    /\ local' = [local EXCEPT ![t] =
                    [local[t] EXCEPT !.canDrain = (local[t].input = <<>>),
                                     !.taken = local[t].input, !.input = <<>>]]
    /\ At(t, "record_input")
    /\ UNCHANGED <<activeVars, stateVars, nextState, mailbox, history, kind,
                   cancelled, finishing, nextTurn, call, opVars, fateVars>>

\* Mutant: the queue is copied and not taken.
DrainCopies(t) ==
    /\ pc[t] = "drain"
    /\ IF local[t].canDrain
       THEN /\ local' = [local EXCEPT ![t].taken = ActivePending]
            /\ At(t, IF AcceptsMailbox THEN "drain_mail" ELSE "record")
       ELSE At(t, "sample") /\ UNCHANGED local
    /\ UNCHANGED <<activeVars, stateVars, nextState,
                   mailbox, history, kind, cancelled, finishing, nextTurn,
                   call, opVars, fateVars>>

\* get_pending_input, first half.
DrainTake(t) ==
    /\ pc[t] = "drain"
    /\ IF local[t].canDrain
       THEN /\ local' = [local EXCEPT ![t].taken = ActivePending]
            /\ pendingInput' = PendingAfterTake
            /\ At(t, IF AcceptsMailbox THEN "drain_mail" ELSE "record")
       ELSE At(t, "sample") /\ UNCHANGED <<local, pendingInput>>
    /\ UNCHANGED <<activeVars, phase, waiters, nextState,
                   mailbox, history, kind, cancelled, finishing, nextTurn,
                   call, opVars, fateVars>>

\* get_pending_input, second half.
DrainMail(t) ==
    /\ pc[t] = "drain_mail"
    /\ local' = [local EXCEPT ![t].taken = local[t].taken \o mailbox]
    /\ mailbox' = <<>>
    /\ At(t, "record")
    /\ UNCHANGED <<activeVars, stateVars, nextState, history,
                   kind, cancelled, finishing, nextTurn, call, opVars,
                   fateVars>>

\* run_hooks_and_record_inputs, and the loop of on_task_finished: item by
\* item, a hook lets it into the history or, for a user prompt, blocks it.
RecordItem(t) ==
    /\ pc[t] \in RecordPoints /\ local[t].taken # <<>>
    /\ history' = Append(history, Head(local[t].taken))
    /\ local' = [local EXCEPT ![t] =
                    [local[t] EXCEPT !.taken = Tail(local[t].taken),
                        !.verdict = IF Head(local[t].taken) \in UserPrompts
                                    THEN "accepted" ELSE local[t].verdict]]
    /\ UNCHANGED <<activeVars, stateVars, nextState, mailbox, pc, kind,
                   cancelled, finishing, nextTurn, call, opVars, fateVars>>

BlockItem(t) ==
    /\ pc[t] \in RecordPoints /\ local[t].taken # <<>>
    /\ Head(local[t].taken) \in UserPrompts
    /\ discarded' = discarded \cup {Head(local[t].taken)}
    /\ local' = [local EXCEPT ![t] =
                    [local[t] EXCEPT !.taken = Tail(local[t].taken),
                        !.verdict = IF local[t].verdict = "accepted"
                                    THEN "accepted" ELSE "blocked"]]
    /\ UNCHANGED <<activeVars, stateVars, nextState, mailbox, history, pc,
                   kind, cancelled, finishing, nextTurn, call, opVars,
                   started, ended, rejected, overwritten>>

\* run_turn ends when hooks blocked input and let no prompt through.
RecordEnds(t) ==
    /\ pc[t] \in RecordPoints /\ local[t].taken = <<>>
    /\ At(t, CASE pc[t] = "fin_record" -> "fin_emit"
               [] pc[t] # "fin_record" /\ local[t].verdict = "blocked" -> "outer"
               [] pc[t] = "record_input" /\ local[t].verdict # "blocked" -> "drain"
               [] OTHER -> "sample")
    /\ local' = [local EXCEPT ![t].verdict = "none"]
    /\ UNCHANGED <<activeVars, stateVars, nextState, mailbox, history, kind,
                   cancelled, finishing, nextTurn, call, opVars, fateVars>>

\* A tool call reopens the turn to mail; it may need the user's approval.
SampleToolCall(t) ==
    /\ pc[t] = "sample" /\ MayStep(t)
    /\ local' = [local EXCEPT ![t] =
                    [local[t] EXCEPT !.steps = local[t].steps + 1, !.followUp = TRUE]]
    /\ phase' = IF activeTask = t
                THEN [phase EXCEPT ![activeState] = "CurrentTurn"] ELSE phase
    /\ \E next \in {"post", "approve"} : At(t, next)
    /\ UNCHANGED <<activeVars, pendingInput, waiters,
                   nextState, mailbox, history, kind, cancelled, finishing,
                   nextTurn, call, opVars, fateVars>>

\* A final answer closes the turn to mail unless input is already queued.
SampleAnswer(t) ==
    /\ pc[t] = "sample"
    /\ phase' = IF activeTask = t /\ pendingInput[activeState] = <<>>
                THEN [phase EXCEPT ![activeState] = "NextTurn"] ELSE phase
    /\ local' = [local EXCEPT ![t].followUp = FALSE]
    /\ At(t, "post")
    /\ UNCHANGED <<activeVars, pendingInput, waiters,
                   nextState, mailbox, history, kind, cancelled, finishing,
                   nextTurn, call, opVars, fateVars>>

\* The request failed, or an invalid image was replaced and it is repeated.
SampleFails(t) ==
    /\ pc[t] = "sample"
    /\ \/ At(t, "outer") /\ UNCHANGED local
       \/ /\ MayStep(t)
          /\ local' = [local EXCEPT ![t].steps = @ + 1]
          /\ At(t, "drain")
    /\ UNCHANGED <<activeVars, stateVars, nextState, mailbox,
                   history, kind, cancelled, finishing, nextTurn, call,
                   opVars, fateVars>>

\* request_command_approval / request_patch_approval: the waiter goes into
\* whatever turn the slot holds; without one, its sender is dropped at once.
RequestApproval(t) ==
    /\ pc[t] = "approve"
    /\ waiters' = IF activeState = None THEN waiters
                  ELSE [waiters EXCEPT ![activeState] = @ \cup {t}]
    /\ At(t, "waiting")
    /\ UNCHANGED <<activeVars, pendingInput, phase, nextState, mailbox,
                   history, kind, cancelled, local, finishing, nextTurn, call,
                   opVars, fateVars>>

\* An Arc<Mutex<TurnState>> lives while the slot, a finishing task or a
\* caller holds it; a waiter's sender lives as long.
Alive(s) ==
    \/ activeState = s
    \/ \E p \in Callers : call[p].state = s
    \/ \E t \in Turns : finishing[t] = s
HasSender(t) == \E s \in States : t \in waiters[s] /\ Alive(s)

\* rx_approve.await: the decision, or Abort when the sender is gone.
ApprovalResolves(t) ==
    /\ pc[t] = "waiting" /\ (local[t].decision \/ ~HasSender(t))
    /\ local' = [local EXCEPT ![t].decision = FALSE]
    /\ At(t, "post")
    /\ UNCHANGED <<activeVars, stateVars, nextState,
                   mailbox, history, kind, cancelled, finishing, nextTurn,
                   call, opVars, fateVars>>

\* The cancelled token is observed by a wait inside run.
ObserveCancel(t) ==
    /\ cancelled[t] /\ pc[t] \in {"prepare", "sample", "waiting"}
    /\ discarded' = discarded \cup Elems(local[t].input)
    /\ EndRun(t)
    /\ UNCHANGED <<activeVars, stateVars, nextState, mailbox,
                   history, kind, cancelled, finishing, nextTurn, call,
                   opVars, started, ended, rejected, overwritten>>

\* After a sampling request: follow up on the model's or the queue's work
\* (compacting first when the window is full), or end run_turn unless a stop
\* hook asks for more.
PostSampling(t) ==
    /\ pc[t] = "post"
    /\ IF local[t].followUp \/ HasPendingInput
       THEN \/ \E drain \in {TRUE, ~local[t].followUp} :
                  /\ local' = [local EXCEPT ![t].canDrain = drain]
                  /\ At(t, "drain")
            \/ At(t, "outer") /\ UNCHANGED local
       ELSE \/ At(t, "outer") /\ UNCHANGED local
            \/ /\ MayStep(t)
               /\ local' = [local EXCEPT ![t] =
                               [local[t] EXCEPT !.canDrain = TRUE,
                                                !.steps = local[t].steps + 1]]
               /\ At(t, "drain")
    /\ UNCHANGED <<activeVars, stateVars, nextState,
                   mailbox, history, kind, cancelled, finishing, nextTurn,
                   call, opVars, fateVars>>

\* RegularTask::run repeats run_turn while input is pending.
OuterLoop(t) ==
    /\ pc[t] = "outer"
    /\ IF HasPendingInput THEN At(t, "prepare") /\ UNCHANGED local
                          ELSE EndRun(t)
    /\ UNCHANGED <<activeVars, stateVars, nextState, mailbox, history, kind,
                   cancelled, finishing, nextTurn, call, opVars,
                   fateVars>>

-----------------------------------------------------------------------------
(* The end of the spawned future: on_task_finished.                        *)

\* A cancelled task leaves the terminal event to its aborter; otherwise it
\* goes on to on_task_finished, whatever happens to its token from here on.
FinishCheck(t) ==
    /\ pc[t] = "finish"
    /\ At(t, IF cancelled[t] THEN "done" ELSE "fin_lock")
    /\ UNCHANGED <<activeVars, stateVars, nextState, mailbox, history, kind,
                   cancelled, local, finishing, nextTurn, call, opVars,
                   fateVars>>

\* The task in the slot is taken, without comparing its sub_id.
FinishTake(t) ==
    /\ pc[t] = "fin_lock"
    /\ IF HasActiveTask
       THEN /\ finishing' = [finishing EXCEPT ![t] = activeState]
            /\ activeTask' = None
            /\ At(t, "fin_take")
       ELSE At(t, "done") /\ UNCHANGED <<finishing, activeTask>>
    /\ UNCHANGED <<activeState, stateVars, nextState, mailbox, history, kind,
                   cancelled, local, nextTurn, call, opVars, fateVars>>

\* Mutants: late input is left in the queue; late input is put back into the
\* mailbox for the next turn.
FinishLeavesPending(t) ==
    /\ pc[t] = "fin_take"
    /\ At(t, "fin_record")
    /\ UNCHANGED <<activeVars, stateVars, nextState, mailbox, history,
                   kind, cancelled, local, finishing, nextTurn, call, opVars,
                   fateVars>>
FinishRequeuesPending(t) ==
    /\ pc[t] = "fin_take"
    /\ mailbox' = mailbox \o pendingInput[finishing[t]]
    /\ pendingInput' = [pendingInput EXCEPT ![finishing[t]] = <<>>]
    /\ At(t, "fin_record")
    /\ UNCHANGED <<activeVars, phase, waiters, nextState, history,
                   kind, cancelled, local, finishing, nextTurn, call, opVars,
                   fateVars>>

\* Input that arrived too late to be sampled is taken, to be recorded.
FinishTakePending(t) ==
    /\ pc[t] = "fin_take"
    /\ local' = [local EXCEPT ![t].taken = pendingInput[finishing[t]]]
    /\ pendingInput' = [pendingInput EXCEPT ![finishing[t]] = <<>>]
    /\ At(t, "fin_record")
    /\ UNCHANGED <<activeVars, phase, waiters, nextState, mailbox, history,
                   kind, cancelled, finishing, nextTurn, call, opVars,
                   fateVars>>

\* EventMsg::TurnComplete (or TurnAborted when run returned TurnAborted).
FinishEmit(t) ==
    /\ pc[t] = "fin_emit"
    /\ ended' = [ended EXCEPT ![t] = @ + 1]
    /\ At(t, "fin_clear")
    /\ UNCHANGED <<activeVars, stateVars, nextState, mailbox, history, kind,
                   cancelled, local, finishing, nextTurn, call, opVars,
                   started, rejected, discarded, overwritten>>

\* The slot is emptied only if it still holds this turn's state, task-less.
\* emit_thread_idle_lifecycle_if_idle follows: see OfferIdleWork.
FinishClear(t) ==
    /\ pc[t] = "fin_clear"
    /\ IF activeTask = None /\ activeState = finishing[t]
       THEN activeState' = None ELSE UNCHANGED activeState
    /\ finishing' = [finishing EXCEPT ![t] = None]
    /\ At(t, "done")
    /\ UNCHANGED <<activeTask, stateVars, nextState, mailbox, history, kind,
                   cancelled, local, nextTurn, call, opVars, fateVars>>

-----------------------------------------------------------------------------
RunStep(t) ==
    \/ TaskBegin(t) \/ CompactRuns(t) \/ PrepareFails(t) \/ Prepare(t)
    \/ DrainTake(t) \/ DrainMail(t)
    \/ RecordItem(t) \/ BlockItem(t) \/ RecordEnds(t)
    \/ SampleToolCall(t) \/ SampleAnswer(t) \/ SampleFails(t)
    \/ RequestApproval(t) \/ ApprovalResolves(t) \/ ObserveCancel(t)
    \/ PostSampling(t) \/ OuterLoop(t)
FinishStep(t) ==
    \/ FinishCheck(t) \/ FinishTake(t) \/ FinishTakePending(t)
    \/ FinishEmit(t) \/ FinishClear(t)
TaskStep(t) == RunStep(t) \/ FinishStep(t)

CallStep(p) ==
    \/ PendingCheck(p) \/ ReserveRefused(p) \/ Reserve(p)
    \/ StartTask(p) \/ Abort(p) \/ TryStartTurnIfIdle(p)

ClientStep ==
    \/ \E u \in UserInputs : \/ UserInputSteers(u) \/ UserInputRejected(u)
                             \/ UserInputStartsTurn(u)
    \/ Compact \/ Interrupt \/ Shutdown
    \/ \E m \in Mails : InterAgentCommunication(m)
    \/ \E u \in Steers, t \in Turns : SteerInput(u, t)
    \/ \E i \in Injected : InjectNoNewTurn(i)
    \/ \E i \in IdleItems : OfferIdleWork(i)
    \/ \E t \in Turns : NotifyApproval(t) \/ AbortTurnIfActive(t)

Next ==
    \/ ClientStep
    \/ \E p \in Callers : CallStep(p)
    \/ \E t \in Turns : TaskStep(t)

Spec == Init /\ [][Next]_vars

\* The runtime polls every task and caller that can make progress, and the
\* client answers the approvals it is asked for.
Fairness ==
    /\ \A p \in Callers : WF_vars(CallStep(p))
    /\ \A t \in Turns : WF_vars(TaskStep(t))
    /\ \A t \in Turns : WF_vars(NotifyApproval(t))

FairSpec == Spec /\ Fairness

-----------------------------------------------------------------------------
(* Properties *)

\* Items that are still on their way, or have met their end.
Queued ==
    Elems(mailbox)
    \cup UNION {Elems(pendingInput[s]) : s \in {s \in States : Alive(s)}}
InRuns == UNION {Elems(local[t].input) \cup Elems(local[t].taken) :
                    t \in {t \in Turns : pc[t] # "killed"}}
InCalls == UNION {Elems(call[p].input) \cup Elems(call[p].items) : p \in Callers}
InHands == InRuns \cup InCalls
Settled == Elems(history) \cup rejected \cup discarded

\* No input is lost. Everything a client or another agent submitted is in a
\* queue somebody still holds, in the hands of a task or a caller, in the
\* history, or was refused or dropped with an event that says so
\* (SteerInputError, a blocking hook, the abort of its turn): steering, mail
\* delivery, aborts and on_task_finished race on the same slot without losing
\* an item, as long as only the submission loop starts turns.
NoInputLost ==
    submitted \cap (UserInputs \cup Steers \cup Mails)
       \subseteq Queued \cup InHands \cup Settled

\* An item is recorded in the history at most once, although get_pending_input
\* and on_task_finished take from the same queues.
RecordedOnce ==
    \A i, j \in DOMAIN history : i # j => history[i] # history[j]

\* What was refused (SteerInputError, TryStartTurnIfIdleError, an error event)
\* went back to its sender, who may send it again: it is in no queue of a turn
\* and is never recorded as well.
RefusedNotRecorded ==
    rejected \cap (Elems(history) \cup Queued) = {}

\* A turn gets one terminal event: TurnComplete from on_task_finished or
\* TurnAborted from handle_task_abort, never both, whatever the interleaving
\* of a finishing task with an abort.
OneTerminalEvent == \A t \in Turns : ended[t] <= 1

\* When the terminal event of a turn is out, its task runs no more: it records
\* nothing, samples nothing and asks for nothing.
SilentAfterTerminalEvent ==
    \A t \in Turns : ended[t] > 0 => pc[t] \in {"fin_clear", "done", "killed"}

\* A task that waits for an approval sees its waiter dropped (and so a
\* rejection) only after its turn was cancelled.
WaiterKeptUntilCancel ==
    \A t \in Turns :
       pc[t] = "waiting" /\ ~cancelled[t] => local[t].decision \/ HasSender(t)

\* An abort drops the pending approvals of its turn only when the task waits for none
\* any more: the waiter of a waiting task leaves its turn state with a decision ("Let
\* interrupted tasks observe cancellation before dropping pending approvals").
DropsNoWaiter ==
    \A s \in States : \A t \in waiters[s] \ waiters'[s] :
       pc'[t] = "waiting" => local'[t].decision
WaiterOutlivesWait == [][DropsNoWaiter]_vars

\* start_task finds no task in the slot: the debug_assert at both places
\* where it looks.
NoTaskOverwritten == ~overwritten

\* The ownership protocol of the slot: whoever takes a task out of it owes
\* the turn its terminal event (TurnSlot, where this is proved).
SlotPoint(t) ==
    CASE pc[t] = "none" -> IF t < nextTurn THEN "allotted" ELSE "none"
      [] pc[t] \in RunPoints -> "running"
      [] pc[t] = "fin_lock" -> "checked"
      [] pc[t] \in {"fin_take", "fin_record", "fin_emit"} -> "finishing"
      [] pc[t] = "fin_clear" -> "sent"
      [] OTHER -> pc[t]
SlotStage == CASE call["loop"].at = "abort_wait" -> "wait"
               [] call["loop"].at = "abort_emit" -> "emit"
               [] OTHER -> "idle"
Slot == INSTANCE TurnSlot WITH
    NoTurn <- None,
    slot <- activeTask,
    pc <- [t \in Turns |-> SlotPoint(t)],
    starting <- call["loop"].turn,
    stage <- SlotStage,
    victim <- IF SlotStage = "idle" THEN None ELSE call["loop"].victim
ImplementsTurnSlot == Slot!Spec

\* A turn that started ends: it gets a terminal event.
StartedTurnEnds == \A t \in Turns : started[t] ~> ended[t] > 0

\* What a client submits is settled: recorded, refused or dropped.
InputSettles ==
    \A i \in UserInputs \cup Steers : i \in submitted ~> i \in Settled

=============================================================================
