-------------------------- MODULE RequestDispatch --------------------------
(***************************************************************************)
(* How the app server runs the requests of its connections                 *)
(* (motyga-rs/app-server): the processor loop takes transport events one   *)
(* at a time and dispatches requests; requests with the same serialization *)
(* key go through one queue, drained by a task that lives while its key is *)
(* in the map; every handler passes the gate of its connection, which a    *)
(* closed connection or a server shutdown closes and then drains.          *)
(***************************************************************************)
EXTENDS Naturals, Sequences

CONSTANTS
    Requests,   \* initialized client requests, each sent once
    Keys,       \* RequestSerializationQueueKey values
    Unkeyed,    \* the key of a request without a serialization scope
    Conns,      \* connections
    keyOf, accessOf, connOf,    \* what a request asks for, and who sent it
    Hung        \* requests whose handler never returns

ASSUME RequestAssumption ==
    /\ Unkeyed \notin Keys
    /\ keyOf \in [Requests -> Keys \cup {Unkeyed}]
    /\ accessOf \in [Requests -> {"Exclusive", "SharedRead"}]
    /\ connOf \in [Requests -> Conns]
    /\ Hung \subseteq Requests

VARIABLES
    queues,     \* HashMap key -> VecDeque: the deque of every key
    present,    \* the keys in the map
    state,      \* where each request is
    drainer,    \* the drain task each request has spawned, and where it is
    batch,      \* the requests that drain task awaits in join_all
    accepting,  \* ConnectionRpcGate.accepting
    conn,       \* the connection, and the cleanup task after it closed
    server,     \* the processor loop
    arrival,    \* observation: the place of a request in the dispatch order
    clock       \* observation: how many requests have been dispatched

queueVars == <<queues, present, drainer, batch>>
gateVars  == <<accepting, conn, server>>
vars == <<queueVars, state, gateVars, arrival, clock>>

Waiting  == {"queued", "taken"}
Finished == {"done", "skipped"}
Alive == {"pop", "join"}

TypeOK ==
    /\ queues \in [Keys -> Seq(Requests)]
    /\ present \subseteq Keys
    /\ state \in [Requests -> {"new", "dropped", "running"} \cup Waiting
                                 \cup Finished]
    /\ drainer \in [Requests -> {"none", "ended"} \cup Alive]
    /\ batch \in [Requests -> SUBSET Requests]
    /\ accepting \in [Conns -> BOOLEAN]
    /\ conn \in [Conns -> {"open", "draining", "cleaned", "overdue"}]
    /\ server \in {"running", "draining", "exited", "forced"}
    /\ arrival \in [Requests -> Nat]
    /\ clock \in Nat

Init ==
    /\ queues = [k \in Keys |-> <<>>]
    /\ present = {}
    /\ state = [r \in Requests |-> "new"]
    /\ drainer = [r \in Requests |-> "none"]
    /\ batch = [r \in Requests |-> {}]
    /\ accepting = [c \in Conns |-> TRUE]
    /\ conn = [c \in Conns |-> "open"]
    /\ server = "running"
    /\ arrival = [r \in Requests |-> 0]
    /\ clock = 0

Of(c) == {r \in Requests : connOf[r] = c}
Running == {r \in Requests : state[r] = "running"}

-----------------------------------------------------------------------------
(* The processor loop dispatches a request.                                *)

Arrives(r) ==
    /\ server = "running" /\ state[r] = "new" /\ conn[connOf[r]] = "open"
    /\ clock' = clock + 1
    /\ arrival' = [arrival EXCEPT ![r] = clock + 1]

\* No serialization scope: the handler gets a task of its own.
DispatchUnkeyed(r) ==
    /\ Arrives(r) /\ keyOf[r] = Unkeyed
    /\ state' = [state EXCEPT ![r] = "taken"]
    /\ UNCHANGED <<queueVars, gateVars>>

\* enqueue, the key is in the map: its drain task will find the request.
EnqueueBehind(r) ==
    /\ Arrives(r) /\ keyOf[r] \in present
    /\ state' = [state EXCEPT ![r] = "queued"]
    /\ queues' = [queues EXCEPT ![keyOf[r]] = Append(@, r)]
    /\ UNCHANGED <<present, drainer, batch, gateVars>>

\* enqueue, the key is not in the map: insert it and spawn a drain task.
EnqueueFirst(r) ==
    /\ Arrives(r) /\ keyOf[r] \in Keys \ present
    /\ state' = [state EXCEPT ![r] = "queued"]
    /\ queues' = [queues EXCEPT ![keyOf[r]] = <<r>>]
    /\ present' = present \cup {keyOf[r]}
    /\ drainer' = [drainer EXCEPT ![r] = "pop"]
    /\ UNCHANGED <<batch, gateVars>>

\* The connection is no longer in the table, or it is but is not initialized
\* or lacks the experimental API: no handler will run.
Refuse(r) ==
    /\ server = "running" /\ state[r] = "new"
    /\ state' = [state EXCEPT ![r] = "dropped"]
    /\ UNCHANGED <<queueVars, gateVars, arrival, clock>>

-----------------------------------------------------------------------------
(* RequestSerializationQueues::drain, by the task request d spawned.       *)

\* Mutant: whatever is in the deque runs together.
IsWholeDeque(q, n) == n = Len(q)

\* The first n of the deque leave it together: an exclusive request alone,
\* shared reads up to the next exclusive request.
IsBatch(q, n) ==
    IF accessOf[q[1]] = "Exclusive" THEN n = 1
    ELSE /\ \A i \in 1..n : accessOf[q[i]] = "SharedRead"
         /\ n < Len(q) => accessOf[q[n + 1]] = "Exclusive"

DrainPop(d) ==
    LET k == keyOf[d]
        q == queues[k]
    IN  /\ drainer[d] = "pop" /\ k \in present /\ q # <<>>
        /\ \E n \in 1..Len(q) :
             /\ IsBatch(q, n)
             /\ batch' = [batch EXCEPT ![d] = {q[i] : i \in 1..n}]
             /\ state' = [r \in Requests |->
                             IF \E i \in 1..n : q[i] = r THEN "taken"
                                                         ELSE state[r]]
             /\ queues' = [queues EXCEPT ![k] = SubSeq(q, n + 1, Len(q))]
        /\ drainer' = [drainer EXCEPT ![d] = "join"]
        /\ UNCHANGED <<present, gateVars, arrival, clock>>

\* Mutant: the drain task goes on when the first handler returns.
DrainSelects(d) ==
    /\ drainer[d] = "join"
    /\ \E r \in batch[d] : state[r] \in Finished
    /\ drainer' = [drainer EXCEPT ![d] = "pop"]
    /\ batch' = [batch EXCEPT ![d] = {}]
    /\ UNCHANGED <<queues, present, state, gateVars, arrival, clock>>

\* join_all: every handler of the batch has returned or was skipped.
DrainJoined(d) ==
    /\ drainer[d] = "join"
    /\ \A r \in batch[d] : state[r] \in Finished
    /\ drainer' = [drainer EXCEPT ![d] = "pop"]
    /\ batch' = [batch EXCEPT ![d] = {}]
    /\ UNCHANGED <<queues, present, state, gateVars, arrival, clock>>

\* Mutant: the empty deque stays in the map.
DrainEndsKeepsKey(d) ==
    /\ drainer[d] = "pop" /\ (keyOf[d] \in present => queues[keyOf[d]] = <<>>)
    /\ drainer' = [drainer EXCEPT ![d] = "ended"]
    /\ UNCHANGED <<queues, present, batch, state, gateVars, arrival, clock>>

\* The deque is empty: the key leaves the map under the same lock, so that
\* the next request for it spawns a new drain task.
DrainEnds(d) ==
    /\ drainer[d] = "pop" /\ (keyOf[d] \in present => queues[keyOf[d]] = <<>>)
    /\ present' = present \ {keyOf[d]}
    /\ drainer' = [drainer EXCEPT ![d] = "ended"]
    /\ UNCHANGED <<queues, batch, state, gateVars, arrival, clock>>

-----------------------------------------------------------------------------
(* ConnectionRpcGate::run                                                  *)

\* Mutant: the token is taken without a look at accepting.
GateEnterClosed(r) ==
    /\ state[r] = "taken"
    /\ state' = [state EXCEPT ![r] = "running"]
    /\ UNCHANGED <<queueVars, gateVars, arrival, clock>>

GateEnter(r) ==
    /\ state[r] = "taken" /\ accepting[connOf[r]]
    /\ state' = [state EXCEPT ![r] = "running"]
    /\ UNCHANGED <<queueVars, gateVars, arrival, clock>>

\* Mutant: the request is refused with an error the queue does not know.
GateRefuses(r) ==
    /\ state[r] = "taken" /\ ~accepting[connOf[r]]
    /\ state' = [state EXCEPT ![r] = "refused"]
    /\ UNCHANGED <<queueVars, gateVars, arrival, clock>>

GateSkip(r) ==
    /\ state[r] = "taken" /\ ~accepting[connOf[r]]
    /\ state' = [state EXCEPT ![r] = "skipped"]
    /\ UNCHANGED <<queueVars, gateVars, arrival, clock>>

HandlerReturns(r) ==
    /\ state[r] = "running" /\ r \notin Hung
    /\ state' = [state EXCEPT ![r] = "done"]
    /\ UNCHANGED <<queueVars, gateVars, arrival, clock>>

-----------------------------------------------------------------------------
(* Closing                                                                 *)

\* TransportEvent::ConnectionClosed: out of the table, gate closed, cleanup
\* spawned.
ConnectionClosed(c) ==
    /\ server = "running" /\ conn[c] = "open"
    /\ conn' = [conn EXCEPT ![c] = "draining"]
    /\ accepting' = [accepting EXCEPT ![c] = FALSE]
    /\ UNCHANGED <<queueVars, state, server, arrival, clock>>

\* connection_closed: ConnectionRpcGate::shutdown closes the gate (again) and
\* waits until it has drained, or CONNECTION_RPC_DRAIN_TIMEOUT is over; then
\* the connection's resources are released.
CleanupDrained(c) ==
    /\ conn[c] = "draining" /\ Running \cap Of(c) = {}
    /\ server # "forced"
    /\ conn' = [conn EXCEPT ![c] = "cleaned"]
    /\ accepting' = [accepting EXCEPT ![c] = FALSE]
    /\ UNCHANGED <<queueVars, state, server, arrival, clock>>

CleanupTimesOut(c) ==
    /\ conn[c] = "draining" /\ Running \cap Of(c) # {}
    /\ server # "forced"
    /\ conn' = [conn EXCEPT ![c] = "overdue"]
    /\ accepting' = [accepting EXCEPT ![c] = FALSE]
    /\ UNCHANGED <<queueVars, state, server, arrival, clock>>

\* The loop breaks: every gate still in the table is closed and drained, and
\* the cleanup tasks are awaited, unless the shutdown is forced.
ShutdownBegins ==
    /\ server = "running"
    /\ server' = "draining"
    /\ accepting' = [c \in Conns |-> IF conn[c] = "open" THEN FALSE
                                                         ELSE accepting[c]]
    /\ UNCHANGED <<queueVars, state, conn, arrival, clock>>

ShutdownEnds ==
    /\ server = "draining"
    /\ \A c \in Conns : conn[c] = "open" => Running \cap Of(c) = {}
    /\ \A c \in Conns : conn[c] # "draining"
    /\ server' = "exited"
    /\ UNCHANGED <<queueVars, state, accepting, conn, arrival, clock>>

ShutdownForced ==
    /\ server = "running"
    /\ server' = "forced"
    /\ UNCHANGED <<queueVars, state, accepting, conn, arrival, clock>>

-----------------------------------------------------------------------------
Dispatch(r) ==
    DispatchUnkeyed(r) \/ EnqueueBehind(r) \/ EnqueueFirst(r) \/ Refuse(r)
Drain(d) == DrainPop(d) \/ DrainJoined(d) \/ DrainEnds(d)
Handle(r) == GateEnter(r) \/ GateSkip(r) \/ HandlerReturns(r)
Cleanup(c) == CleanupDrained(c) \/ CleanupTimesOut(c)

Next ==
    \/ \E r \in Requests : Dispatch(r) \/ Drain(r) \/ Handle(r)
    \/ \E c \in Conns : ConnectionClosed(c) \/ Cleanup(c)
    \/ ShutdownBegins \/ ShutdownEnds \/ ShutdownForced

Spec == Init /\ [][Next]_vars

\* The runtime polls the drain tasks, the handlers and the cleanup tasks until
\* the processor task has ended; then the process may exit at any time.
Up == server \in {"running", "draining"}
Fairness ==
    /\ \A r \in Requests : WF_vars(Up /\ Drain(r)) /\ WF_vars(Up /\ Handle(r))
    /\ \A c \in Conns : WF_vars(Up /\ Cleanup(c))
    /\ WF_vars(ShutdownEnds)

FairSpec == Spec /\ Fairness

-----------------------------------------------------------------------------
(* Properties *)

\* Handlers of one key exclude each other unless all of them are shared reads.
ExclusiveRunsAlone ==
    \A r, s \in Running :
       r # s /\ keyOf[r] = keyOf[s] /\ keyOf[r] \in Keys
          => accessOf[r] = "SharedRead" /\ accessOf[s] = "SharedRead"

\* Requests of one key take effect in the order they were dispatched: one that
\* left the queue saw every earlier request finish, except that shared reads
\* may overlap. No read overtakes an earlier write, also not into a batch that
\* is already running.
DispatchOrder ==
    \A r, s \in Requests :
       /\ keyOf[r] = keyOf[s] /\ keyOf[r] \in Keys
       /\ 0 < arrival[r] /\ arrival[r] < arrival[s]
       /\ state[s] \in {"taken", "running"} \cup Finished
       => \/ state[r] \in Finished
          \/ /\ accessOf[r] = "SharedRead" /\ accessOf[s] = "SharedRead"
             /\ state[r] \in {"taken", "running"}

\* A key in the map has one live drain task, and a request in a queue has a
\* drain task that will find it: the removal of the key under the lock leaves
\* no window in which a request is queued and nobody drains.
OneDrainer ==
    \A k \in Keys :
       LET live == {d \in Requests : keyOf[d] = k /\ drainer[d] \in Alive}
       IN  /\ \A d, e \in live : d = e
           /\ k \in present <=> live # {}
           /\ k \notin present => queues[k] = <<>>

\* When the cleanup of a closed connection releases its resources because the
\* gate has drained, and when the server has exited without force, no handler
\* of the connection runs, and none will start: only connections whose drain
\* timed out may still have one.
QuietAfterDrain ==
    \A c \in Conns :
       conn[c] = "cleaned" \/ (server = "exited" /\ conn[c] # "overdue")
          => Running \cap Of(c) = {} /\ ~accepting[c]

\* A request that was dispatched is handled or skipped while the server is up,
\* whatever happens to its connection and however long the handlers of other
\* keys take.
RequestsSettle ==
    \A r \in Requests :
       (\A h \in Hung : h # r /\ (keyOf[h] # keyOf[r] \/ keyOf[r] = Unkeyed))
          => (state[r] \in Waiting \cup {"running"}
                 ~> state[r] \in Finished \/ ~Up)
=============================================================================
