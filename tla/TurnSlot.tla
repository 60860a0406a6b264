------------------------------ MODULE TurnSlot ------------------------------
(***************************************************************************)
(* Who may end a turn. The ownership protocol of `Session.active_turn`     *)
(* with one caller, the submission loop, and everything else abstracted:   *)
(* the task of a turn is put in the slot, and whoever takes it out (the    *)
(* task itself in on_task_finished, or the caller in abort_all_tasks) owes *)
(* the turn its terminal event. TurnLifecycle implements this module where *)
(* only the loop starts and aborts turns; here the set of turns is         *)
(* arbitrary, so its theorems hold for any number.                         *)
(***************************************************************************)
EXTENDS Naturals

CONSTANTS
    Turns,      \* turn contexts, by sub_id
    NoTurn      \* Option::None

ASSUME NoTurnAssumption == NoTurn \notin Turns

VARIABLES
    slot,       \* the task in active_turn, NoTurn when there is none
    pc,         \* where the spawned task of each turn is
    cancelled,  \* its cancellation token
    ended,      \* terminal events sent for it (TurnComplete, TurnAborted)
    starting,   \* the turn the caller is about to start
    victim,     \* the task the caller has taken in order to abort it
    stage       \* where handle_task_abort is

vars == <<slot, pc, cancelled, ended, starting, victim, stage>>

Running == {"running", "finish", "checked"}
TaskPoints == {"none", "allotted", "finishing", "sent", "done", "killed"}
                 \cup Running
Stages == {"idle", "wait", "emit"}

TypeOK ==
    /\ slot \in Turns \cup {NoTurn}
    /\ pc \in [Turns -> TaskPoints]
    /\ cancelled \in [Turns -> BOOLEAN]
    /\ ended \in [Turns -> Nat]
    /\ starting \in Turns \cup {NoTurn}
    /\ victim \in Turns \cup {NoTurn}
    /\ stage \in Stages

Init ==
    /\ slot = NoTurn
    /\ pc = [t \in Turns |-> "none"]
    /\ cancelled = [t \in Turns |-> FALSE]
    /\ ended = [t \in Turns |-> 0]
    /\ starting = NoTurn /\ victim = NoTurn /\ stage = "idle"

-----------------------------------------------------------------------------
(* Starting a turn *)

\* The caller makes the context of a new turn (new_turn_with_sub_id).
Allot(t) ==
    /\ starting = NoTurn /\ stage = "idle" /\ pc[t] = "none"
    /\ starting' = t
    /\ pc' = [pc EXCEPT ![t] = "allotted"]
    /\ UNCHANGED <<slot, cancelled, ended, victim, stage>>

\* Mutants: dropping the old handle does not abort its task; a turn is
\* started while handle_task_abort is still waiting.
InstallDetaches ==
    /\ starting # NoTurn /\ stage = "idle"
    /\ slot' = starting /\ starting' = NoTurn
    /\ pc' = [pc EXCEPT ![starting] = "running"]
    /\ UNCHANGED <<cancelled, ended, victim, stage>>
InstallEarly ==
    /\ starting # NoTurn
    /\ slot' = starting /\ starting' = NoTurn
    /\ pc' = [t \in Turns |-> IF t = starting THEN "running"
                              ELSE IF t = slot THEN "killed" ELSE pc[t]]
    /\ UNCHANGED <<cancelled, ended, victim, stage>>

\* start_task stores the spawned task; a task found there is dropped with it.
Install ==
    /\ starting # NoTurn /\ stage = "idle"
    /\ slot' = starting /\ starting' = NoTurn
    /\ pc' = [t \in Turns |-> IF t = starting THEN "running"
                              ELSE IF t = slot THEN "killed" ELSE pc[t]]
    /\ UNCHANGED <<cancelled, ended, victim, stage>>

-----------------------------------------------------------------------------
(* Aborting a turn *)

\* The task is taken out of the slot and its token is cancelled.
Take ==
    /\ stage = "idle" /\ slot # NoTurn
    /\ victim' = slot
    /\ cancelled' = [cancelled EXCEPT ![slot] = TRUE]
    /\ stage' = "wait"
    /\ slot' = NoTurn
    /\ UNCHANGED <<pc, ended, starting>>

\* Mutants: the caller takes over the task's own end state; handle.abort()
\* is missing.
GracefulCopiesEnd ==
    /\ stage = "wait" /\ pc[victim] = "done"
    /\ stage' = pc[victim]
    /\ UNCHANGED <<slot, pc, cancelled, ended, starting, victim>>
TimeoutLeavesTask ==
    /\ stage = "wait" /\ pc[victim] # "done"
    /\ stage' = "emit"
    /\ UNCHANGED <<slot, pc, cancelled, ended, starting, victim>>

\* The task observed the token and is done, or it is aborted on a timeout.
Graceful ==
    /\ stage = "wait" /\ pc[victim] = "done"
    /\ stage' = "emit"
    /\ UNCHANGED <<slot, pc, cancelled, ended, starting, victim>>
Timeout ==
    /\ stage = "wait" /\ pc[victim] # "done"
    /\ pc' = [pc EXCEPT ![victim] = "killed"]
    /\ stage' = "emit"
    /\ UNCHANGED <<slot, cancelled, ended, starting, victim>>

\* TurnAborted.
EmitAborted ==
    /\ stage = "emit"
    /\ ended' = [ended EXCEPT ![victim] = @ + 1]
    /\ stage' = "idle" /\ victim' = NoTurn
    /\ UNCHANGED <<slot, pc, cancelled, starting>>

-----------------------------------------------------------------------------
(* A task that comes to its end *)

RunEnds(t) ==
    /\ pc[t] = "running"
    /\ pc' = [pc EXCEPT ![t] = "finish"]
    /\ UNCHANGED <<slot, cancelled, ended, starting, victim, stage>>

\* Cancelled: the aborter sends the terminal event. Otherwise the task goes
\* on to on_task_finished, which the aborter may still overtake.
FinishCheck(t) ==
    /\ pc[t] = "finish"
    /\ pc' = [pc EXCEPT ![t] = IF cancelled[t] THEN "done" ELSE "checked"]
    /\ UNCHANGED <<slot, cancelled, ended, starting, victim, stage>>

\* Mutant: the turn completes although its task has left the slot.
FinishAnyway(t) ==
    /\ pc[t] = "checked"
    /\ slot' = NoTurn
    /\ pc' = [pc EXCEPT ![t] = "finishing"]
    /\ UNCHANGED <<cancelled, ended, starting, victim, stage>>

\* on_task_finished takes the task in the slot, whichever it is, or returns
\* if there is none.
FinishTake(t) ==
    /\ pc[t] = "checked"
    /\ slot' = NoTurn
    /\ pc' = [pc EXCEPT ![t] = IF slot # NoTurn THEN "finishing" ELSE "done"]
    /\ UNCHANGED <<cancelled, ended, starting, victim, stage>>

\* TurnComplete.
EmitComplete(t) ==
    /\ pc[t] = "finishing"
    /\ ended' = [ended EXCEPT ![t] = @ + 1]
    /\ pc' = [pc EXCEPT ![t] = "sent"]
    /\ UNCHANGED <<slot, cancelled, starting, victim, stage>>

FinishReturns(t) ==
    /\ pc[t] = "sent"
    /\ pc' = [pc EXCEPT ![t] = "done"]
    /\ UNCHANGED <<slot, cancelled, ended, starting, victim, stage>>

-----------------------------------------------------------------------------
Next ==
    \/ Install \/ Take \/ Graceful \/ Timeout \/ EmitAborted
    \/ \E t \in Turns :
         \/ Allot(t) \/ RunEnds(t) \/ FinishCheck(t) \/ FinishTake(t)
         \/ EmitComplete(t) \/ FinishReturns(t)

Spec == Init /\ [][Next]_vars

-----------------------------------------------------------------------------
(* Properties *)

\* A turn gets at most one terminal event, from on_task_finished or from
\* handle_task_abort, however a finishing task races its aborter.
OneTerminalEvent == \A t \in Turns : ended[t] <= 1

\* Once the terminal event of a turn is out, its task does no more work.
SilentAfterTerminalEvent ==
    \A t \in Turns : ended[t] > 0 => pc[t] \in {"sent", "done", "killed"}

\* on_task_finished does not compare the sub_id of the task it takes, and the
\* token it went by may have been cancelled since: it takes its own task or
\* finds none, never that of a later turn.
FinishTakesOwnTask ==
    \A t \in Turns : pc[t] = "checked" => slot \in {t, NoTurn}

\* Two tasks never run at once unless all but one are cancelled.
OneRunningTask ==
    \A t, u \in Turns :
       /\ pc[t] \in Running /\ ~cancelled[t]
       /\ pc[u] \in Running /\ ~cancelled[u]
       => t = u

\* A turn's terminal event is never withdrawn or repeated, and none is sent
\* for a turn that never ran.
EventsOnlyGrow ==
    [][\A t \in Turns : ended'[t] # ended[t] =>
          /\ ended[t] = 0 /\ ended'[t] = 1
          /\ pc[t] \in {"finishing", "done", "killed"}]_vars
=============================================================================
