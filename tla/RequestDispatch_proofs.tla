----------------------- MODULE RequestDispatch_proofs -----------------------
(***************************************************************************)
(* Proofs about RequestDispatch, for any sets of requests, keys and        *)
(* connections.                                                            *)
(*                                                                         *)
(* None of the properties is inductive. What makes them hold is that the   *)
(* deques hold exactly the queued requests in dispatch order (QueueHolds,  *)
(* QueueSorted), that whatever left a deque and is not finished is in the  *)
(* batch of the one live drain task of its key (BatchCovers), and that a   *)
(* batch is one request or only shared reads (BatchAccess).                *)
(***************************************************************************)
EXTENDS RequestDispatch, TLAPS

Started == {"taken", "running"}

\* What a deque holds is queued for its key, and what is queued is there.
QueueHolds ==
    /\ \A k \in Keys : \A i \in 1..Len(queues[k]) :
          keyOf[queues[k][i]] = k /\ state[queues[k][i]] = "queued"
    /\ \A r \in Requests : state[r] = "queued" =>
          /\ keyOf[r] \in Keys
          /\ \E i \in 1..Len(queues[keyOf[r]]) : queues[keyOf[r]][i] = r

\* A deque is in dispatch order.
QueueSorted ==
    \A k \in Keys : \A i, j \in 1..Len(queues[k]) :
       i < j => arrival[queues[k][i]] < arrival[queues[k][j]]

\* Every dispatched request has its place.
Arrivals ==
    \A r \in Requests :
       /\ arrival[r] <= clock
       /\ arrival[r] = 0 <=> state[r] \in {"new", "dropped"}

\* A drain task serves a key and was spawned by a dispatched request.
DrainerSound ==
    \A d \in Requests : drainer[d] # "none" => keyOf[d] \in Keys /\ arrival[d] > 0

\* A started request is in the batch of a drain task of its key.
BatchCovers ==
    \A r \in Requests : state[r] \in Started /\ keyOf[r] \in Keys =>
       \E d \in Requests : /\ keyOf[d] = keyOf[r] /\ drainer[d] = "join"
                           /\ r \in batch[d]

\* A batch is one request or only shared reads.
BatchAccess ==
    \A d \in Requests : \A r, s \in batch[d] :
       r # s => accessOf[r] = "SharedRead" /\ accessOf[s] = "SharedRead"

\* What left a deque arrived before what is still in it.
TakenBefore ==
    \A r, s \in Requests :
       /\ keyOf[r] = keyOf[s] /\ keyOf[r] \in Keys
       /\ state[r] \in Started \cup Finished /\ state[s] = "queued"
       => arrival[r] < arrival[s]

\* A gate is closed with its connection and with the server.
GatesClosed ==
    /\ \A c \in Conns : conn[c] # "open" => ~accepting[c]
    /\ server \in {"draining", "exited"} => \A c \in Conns : ~accepting[c]

QInv ==
    /\ TypeOK /\ QueueHolds /\ QueueSorted /\ Arrivals /\ OneDrainer
    /\ DrainerSound /\ BatchCovers /\ BatchAccess /\ TakenBefore
    /\ DispatchOrder
GInv == GatesClosed /\ QuietAfterDrain
IInv == QInv /\ GInv

-----------------------------------------------------------------------------
(* Types *)

USE RequestAssumption

\* The initial state is well typed and satisfies the invariant: nothing is
\* queued, running or closed.
LEMMA InitIInv == Init => IInv
  BY DEF Init, IInv, QInv, GInv, TypeOK, QueueHolds, QueueSorted, Arrivals,
         OneDrainer, DrainerSound, BatchCovers, BatchAccess, TakenBefore,
         DispatchOrder, GatesClosed, QuietAfterDrain, Waiting, Finished, Alive,
         Started, Running, Of

\* The type invariant is preserved by every step of the dispatcher.
LEMMA TypeStep == TypeOK /\ [Next]_vars => TypeOK'
  <1> SUFFICES ASSUME TypeOK, [Next]_vars PROVE TypeOK'
    OBVIOUS
  <1> USE DEF TypeOK, Waiting, Finished, Alive
  <1>1. ASSUME NEW r \in Requests, Dispatch(r) PROVE TypeOK'
    <2>1. CASE DispatchUnkeyed(r)
      BY <2>1 DEF DispatchUnkeyed, Arrives, queueVars, gateVars
    <2>2. CASE EnqueueBehind(r)
      <3>1. keyOf[r] \in Keys /\ Append(queues[keyOf[r]], r) \in Seq(Requests)
        BY <2>2 DEF EnqueueBehind
      <3> QED BY <2>2, <3>1 DEF EnqueueBehind, Arrives, gateVars
    <2>3. CASE EnqueueFirst(r)
      <3>1. keyOf[r] \in Keys /\ <<r>> \in Seq(Requests)
        BY <2>3 DEF EnqueueFirst
      <3> QED BY <2>3, <3>1 DEF EnqueueFirst, Arrives, gateVars
    <2>4. CASE Refuse(r)
      BY <2>4 DEF Refuse, queueVars, gateVars
    <2> QED BY <1>1, <2>1, <2>2, <2>3, <2>4 DEF Dispatch
  <1>2. ASSUME NEW d \in Requests, Drain(d) PROVE TypeOK'
    <2>1. CASE DrainPop(d)
      <3>1. PICK n \in 1..Len(queues[keyOf[d]]) :
              /\ batch' = [batch EXCEPT ![d] = {queues[keyOf[d]][i] : i \in 1..n}]
              /\ state' = [r \in Requests |->
                             IF \E i \in 1..n : queues[keyOf[d]][i] = r
                             THEN "taken" ELSE state[r]]
              /\ queues' = [queues EXCEPT ![keyOf[d]] =
                              SubSeq(queues[keyOf[d]], n + 1, Len(queues[keyOf[d]]))]
        BY <2>1 DEF DrainPop
      <3>2. keyOf[d] \in Keys /\ queues[keyOf[d]] \in Seq(Requests)
        BY <2>1 DEF DrainPop
      <3>3. {queues[keyOf[d]][i] : i \in 1..n} \subseteq Requests
        BY <3>2
      <3>4. SubSeq(queues[keyOf[d]], n + 1, Len(queues[keyOf[d]])) \in Seq(Requests)
        BY <3>2
      <3> QED BY <2>1, <3>1, <3>2, <3>3, <3>4 DEF DrainPop, gateVars
    <2>2. CASE DrainJoined(d)
      BY <2>2 DEF DrainJoined, gateVars
    <2>3. CASE DrainEnds(d)
      BY <2>3 DEF DrainEnds, gateVars
    <2> QED BY <1>2, <2>1, <2>2, <2>3 DEF Drain
  <1>3. ASSUME NEW r \in Requests, Handle(r) PROVE TypeOK'
    <2>1. CASE GateEnter(r)
      BY <2>1 DEF GateEnter, queueVars, gateVars
    <2>2. CASE GateSkip(r)
      BY <2>2 DEF GateSkip, queueVars, gateVars
    <2>3. CASE HandlerReturns(r)
      BY <2>3 DEF HandlerReturns, queueVars, gateVars
    <2> QED BY <1>3, <2>1, <2>2, <2>3 DEF Handle
  <1>4. ASSUME NEW c \in Conns, ConnectionClosed(c) \/ Cleanup(c) PROVE TypeOK'
    <2>1. CASE ConnectionClosed(c)
      BY <2>1 DEF ConnectionClosed, queueVars
    <2>2. CASE CleanupDrained(c)
      BY <2>2 DEF CleanupDrained, queueVars
    <2>3. CASE CleanupTimesOut(c)
      BY <2>3 DEF CleanupTimesOut, queueVars
    <2> QED BY <1>4, <2>1, <2>2, <2>3 DEF Cleanup
  <1>5. CASE ShutdownBegins \/ ShutdownEnds \/ ShutdownForced
    BY <1>5 DEF ShutdownBegins, ShutdownEnds, ShutdownForced, queueVars
  <1>6. CASE UNCHANGED vars
    BY <1>6 DEF vars, queueVars, gateVars
  <1> QED BY <1>1, <1>2, <1>3, <1>4, <1>5, <1>6 DEF Next

-----------------------------------------------------------------------------
(* One lemma per action that touches the queues: it keeps every part.      *)

\* A request without a key runs outside the queues.
LEMMA UnkeyedKeeps ==
    ASSUME QInv, NEW r \in Requests, DispatchUnkeyed(r), TypeOK'
    PROVE  QInv'
  <1> USE DEF TypeOK, Waiting, Finished, Alive, DispatchUnkeyed, Arrives, queueVars, gateVars
  <1>1. QueueHolds'
    BY DEF QInv, QueueHolds
  <1>2. QueueSorted'
    BY DEF QInv, QueueSorted, QueueHolds, Arrivals
  <1>3. Arrivals'
    BY DEF QInv, Arrivals
  <1>4. OneDrainer'
    BY DEF QInv, OneDrainer
  <1>5. DrainerSound'
    BY DEF QInv, DrainerSound, Arrivals
  <1>6. BatchCovers'
    BY DEF QInv, BatchCovers, Started, Arrivals
  <1>7. BatchAccess'
    BY DEF QInv, BatchAccess
  <1>8. TakenBefore'
    BY DEF QInv, TakenBefore, Arrivals, Started
  <1>9. DispatchOrder'
    BY DEF QInv, DispatchOrder, Arrivals, TakenBefore
  <1> QED BY <1>1, <1>2, <1>3, <1>4, <1>5, <1>6, <1>7, <1>8, <1>9 DEF QInv

\* push_back keeps the deque in dispatch order.
LEMMA BehindKeeps ==
    ASSUME QInv, NEW r \in Requests, EnqueueBehind(r), TypeOK'
    PROVE  QInv'
  <1> USE DEF TypeOK, Waiting, Finished, Alive, EnqueueBehind, Arrives, gateVars
  <1>1. QueueHolds'
    <2> DEFINE k == keyOf[r]
               q == queues[k]
    <2>1. k \in Keys /\ q \in Seq(Requests) /\ queues'[k] = Append(q, r)
      OBVIOUS
    <2>2. /\ Len(queues'[k]) = Len(q) + 1 /\ queues'[k][Len(q) + 1] = r
          /\ \A i \in 1..Len(q) : queues'[k][i] = q[i]
      BY <2>1
    <2>3. \A j \in Keys : j # k => queues'[j] = queues[j]
      BY <2>1
    <2> HIDE DEF q
    <2>4. ASSUME NEW j \in Keys, NEW i \in 1..Len(queues'[j])
          PROVE  keyOf[queues'[j][i]] = j /\ state'[queues'[j][i]] = "queued"
      <3>1. CASE j # k
        <4>1. queues[j][i] \in Requests /\ state[queues[j][i]] = "queued"
          BY <2>3, <2>4, <3>1 DEF QInv, QueueHolds
        <4> QED BY <2>3, <2>4, <3>1, <4>1 DEF QInv, QueueHolds
      <3>2. CASE j = k /\ i = Len(q) + 1
        BY <2>2, <3>2
      <3>3. CASE j = k /\ i \in 1..Len(q)
        <4>1. q[i] \in Requests /\ keyOf[q[i]] = k /\ state[q[i]] = "queued"
          BY <2>1, <3>3 DEF QInv, QueueHolds, q
        <4> QED BY <2>2, <3>3, <4>1
      <3> QED BY <2>1, <2>2, <2>4, <3>1, <3>2, <3>3
    <2>5. ASSUME NEW s \in Requests, state'[s] = "queued"
          PROVE  /\ keyOf[s] \in Keys
                 /\ \E i \in 1..Len(queues'[keyOf[s]]) : queues'[keyOf[s]][i] = s
      <3>1. CASE s = r
        BY <2>1, <2>2, <3>1
      <3>2. CASE s # r
        <4>1. state[s] = "queued"
          BY <2>5, <3>2
        <4>2. PICK i \in 1..Len(queues[keyOf[s]]) : queues[keyOf[s]][i] = s
          BY <4>1 DEF QInv, QueueHolds
        <4>3. keyOf[s] \in Keys
          BY <4>1 DEF QInv, QueueHolds
        <4>4. i \in 1..Len(queues'[keyOf[s]]) /\ queues'[keyOf[s]][i] = s
          BY <2>1, <2>2, <2>3, <4>2, <4>3 DEF q
        <4> QED BY <4>3, <4>4
      <3> QED BY <3>1, <3>2
    <2> QED BY <2>4, <2>5 DEF QueueHolds
  <1>2. QueueSorted'
    BY SMTT(30) DEF QInv, QueueSorted, QueueHolds, Arrivals
  <1>3. Arrivals'
    BY DEF QInv, Arrivals
  <1>4. OneDrainer'
    BY DEF QInv, OneDrainer
  <1>5. DrainerSound'
    BY DEF QInv, DrainerSound, Arrivals
  <1>6. BatchCovers'
    BY DEF QInv, BatchCovers, Started, Arrivals
  <1>7. BatchAccess'
    BY DEF QInv, BatchAccess
  <1>8. TakenBefore'
    BY DEF QInv, TakenBefore, Arrivals, Started
  <1>9. DispatchOrder'
    BY DEF QInv, DispatchOrder, Arrivals, TakenBefore
  <1> QED BY <1>1, <1>2, <1>3, <1>4, <1>5, <1>6, <1>7, <1>8, <1>9 DEF QInv

\* The first request of a key brings the key and its drain task.
LEMMA FirstKeeps ==
    ASSUME QInv, NEW r \in Requests, EnqueueFirst(r), TypeOK'
    PROVE  QInv'
  <1> USE DEF TypeOK, Waiting, Finished, Alive, EnqueueFirst, Arrives, gateVars
  <1>1. QueueHolds'
    <2> DEFINE k == keyOf[r]
               q == queues[k]
    <2>1. k \in Keys /\ q = <<>> /\ queues'[k] = <<r>>
      BY DEF QInv, OneDrainer
    <2>2. /\ Len(queues'[k]) = Len(q) + 1 /\ queues'[k][Len(q) + 1] = r
          /\ \A i \in 1..Len(q) : queues'[k][i] = q[i]
      BY <2>1
    <2>3. \A j \in Keys : j # k => queues'[j] = queues[j]
      BY <2>1
    <2> HIDE DEF q
    <2>4. ASSUME NEW j \in Keys, NEW i \in 1..Len(queues'[j])
          PROVE  keyOf[queues'[j][i]] = j /\ state'[queues'[j][i]] = "queued"
      <3>1. CASE j # k
        <4>1. queues[j][i] \in Requests /\ state[queues[j][i]] = "queued"
          BY <2>3, <2>4, <3>1 DEF QInv, QueueHolds
        <4> QED BY <2>3, <2>4, <3>1, <4>1 DEF QInv, QueueHolds
      <3>2. CASE j = k /\ i = Len(q) + 1
        BY <2>2, <3>2
      <3>3. CASE j = k /\ i \in 1..Len(q)
        <4>1. q[i] \in Requests /\ keyOf[q[i]] = k /\ state[q[i]] = "queued"
          BY <2>1, <3>3
        <4> QED BY <2>2, <3>3, <4>1
      <3> QED BY <2>1, <2>2, <2>4, <3>1, <3>2, <3>3
    <2>5. ASSUME NEW s \in Requests, state'[s] = "queued"
          PROVE  /\ keyOf[s] \in Keys
                 /\ \E i \in 1..Len(queues'[keyOf[s]]) : queues'[keyOf[s]][i] = s
      <3>1. CASE s = r
        BY <2>1, <2>2, <3>1
      <3>2. CASE s # r
        <4>1. state[s] = "queued"
          BY <2>5, <3>2
        <4>2. PICK i \in 1..Len(queues[keyOf[s]]) : queues[keyOf[s]][i] = s
          BY <4>1 DEF QInv, QueueHolds
        <4>3. keyOf[s] \in Keys
          BY <4>1 DEF QInv, QueueHolds
        <4>4. i \in 1..Len(queues'[keyOf[s]]) /\ queues'[keyOf[s]][i] = s
          BY <2>1, <2>2, <2>3, <4>2, <4>3 DEF q
        <4> QED BY <4>3, <4>4
      <3> QED BY <3>1, <3>2
    <2> QED BY <2>4, <2>5 DEF QueueHolds
  <1>2. QueueSorted'
    BY DEF QInv, QueueSorted, QueueHolds, Arrivals
  <1>3. Arrivals'
    BY DEF QInv, Arrivals
  <1>4. OneDrainer'
    BY DEF QInv, OneDrainer
  <1>5. DrainerSound'
    BY DEF QInv, DrainerSound, Arrivals
  <1>6. BatchCovers'
    <2>1. drainer[r] = "none"
      BY DEF QInv, DrainerSound, Arrivals
    <2>2. ASSUME NEW s \in Requests, state'[s] \in Started, keyOf[s] \in Keys
          PROVE  \E d \in Requests : /\ keyOf[d] = keyOf[s] /\ drainer'[d] = "join"
                                     /\ s \in batch'[d]
      <3>1. state[s] \in Started
        BY <2>2 DEF Started
      <3>2. PICK d \in Requests : /\ keyOf[d] = keyOf[s] /\ drainer[d] = "join"
                                  /\ s \in batch[d]
        BY <2>2, <3>1 DEF QInv, BatchCovers
      <3>3. drainer'[d] = "join"
        BY <2>1, <3>2
      <3> QED BY <3>2, <3>3
    <2> QED BY <2>2 DEF BatchCovers
  <1>7. BatchAccess'
    BY DEF QInv, BatchAccess
  <1>8. TakenBefore'
    BY DEF QInv, TakenBefore, Arrivals, Started
  <1>9. DispatchOrder'
    BY DEF QInv, DispatchOrder, Arrivals, TakenBefore
  <1> QED BY <1>1, <1>2, <1>3, <1>4, <1>5, <1>6, <1>7, <1>8, <1>9 DEF QInv

\* A dropped request never enters.
LEMMA DropKeeps ==
    ASSUME QInv, NEW r \in Requests, Refuse(r), TypeOK'
    PROVE  QInv'
  <1> USE DEF TypeOK, Waiting, Finished, Alive, Refuse, queueVars, gateVars
  <1>1. QueueHolds'
    BY DEF QInv, QueueHolds
  <1>2. QueueSorted'
    BY DEF QInv, QueueSorted, QueueHolds, Arrivals
  <1>3. Arrivals'
    BY DEF QInv, Arrivals
  <1>4. OneDrainer'
    BY DEF QInv, OneDrainer
  <1>5. DrainerSound'
    BY DEF QInv, DrainerSound, Arrivals
  <1>6. BatchCovers'
    BY DEF QInv, BatchCovers, Started, Arrivals
  <1>7. BatchAccess'
    BY DEF QInv, BatchAccess
  <1>8. TakenBefore'
    BY DEF QInv, TakenBefore, Arrivals, Started
  <1>9. DispatchOrder'
    BY DEF QInv, DispatchOrder, Arrivals, TakenBefore
  <1> QED BY <1>1, <1>2, <1>3, <1>4, <1>5, <1>6, <1>7, <1>8, <1>9 DEF QInv

\* Nothing started is left when join_all returns.
LEMMA JoinedKeeps ==
    ASSUME QInv, NEW r \in Requests, DrainJoined(r), TypeOK'
    PROVE  QInv'
  <1> USE DEF TypeOK, Waiting, Finished, Alive, DrainJoined, gateVars
  <1>1. QueueHolds'
    BY DEF QInv, QueueHolds
  <1>2. QueueSorted'
    BY DEF QInv, QueueSorted, QueueHolds, Arrivals
  <1>3. Arrivals'
    BY DEF QInv, Arrivals
  <1>4. OneDrainer'
    BY DEF QInv, OneDrainer
  <1>5. DrainerSound'
    BY DEF QInv, DrainerSound, Arrivals
  <1>6. BatchCovers'
    BY DEF QInv, BatchCovers, Started, Arrivals
  <1>7. BatchAccess'
    BY DEF QInv, BatchAccess
  <1>8. TakenBefore'
    BY DEF QInv, TakenBefore, Arrivals, Started
  <1>9. DispatchOrder'
    BY DEF QInv, DispatchOrder, Arrivals, TakenBefore
  <1> QED BY <1>1, <1>2, <1>3, <1>4, <1>5, <1>6, <1>7, <1>8, <1>9 DEF QInv

\* The key leaves the map with its only drain task.
LEMMA EndsKeeps ==
    ASSUME QInv, NEW r \in Requests, DrainEnds(r), TypeOK'
    PROVE  QInv'
  <1> USE DEF TypeOK, Waiting, Finished, Alive, DrainEnds, gateVars
  <1>1. QueueHolds'
    BY DEF QInv, QueueHolds
  <1>2. QueueSorted'
    BY DEF QInv, QueueSorted, QueueHolds, Arrivals
  <1>3. Arrivals'
    BY DEF QInv, Arrivals
  <1>4. OneDrainer'
    BY DEF QInv, OneDrainer
  <1>5. DrainerSound'
    BY DEF QInv, DrainerSound, Arrivals
  <1>6. BatchCovers'
    BY DEF QInv, BatchCovers, Started, Arrivals
  <1>7. BatchAccess'
    BY DEF QInv, BatchAccess
  <1>8. TakenBefore'
    BY DEF QInv, TakenBefore, Arrivals, Started
  <1>9. DispatchOrder'
    BY DEF QInv, DispatchOrder, Arrivals, TakenBefore
  <1> QED BY <1>1, <1>2, <1>3, <1>4, <1>5, <1>6, <1>7, <1>8, <1>9 DEF QInv

\* A request of a batch starts to run.
LEMMA EnterKeeps ==
    ASSUME QInv, NEW r \in Requests, GateEnter(r), TypeOK'
    PROVE  QInv'
  <1> USE DEF TypeOK, Waiting, Finished, Alive, GateEnter, queueVars, gateVars
  <1>1. QueueHolds'
    BY DEF QInv, QueueHolds
  <1>2. QueueSorted'
    BY DEF QInv, QueueSorted, QueueHolds, Arrivals
  <1>3. Arrivals'
    BY DEF QInv, Arrivals
  <1>4. OneDrainer'
    BY DEF QInv, OneDrainer
  <1>5. DrainerSound'
    BY DEF QInv, DrainerSound, Arrivals
  <1>6. BatchCovers'
    BY DEF QInv, BatchCovers, Started, Arrivals
  <1>7. BatchAccess'
    BY DEF QInv, BatchAccess
  <1>8. TakenBefore'
    BY DEF QInv, TakenBefore, Arrivals, Started
  <1>9. DispatchOrder'
    BY DEF QInv, DispatchOrder, Arrivals, TakenBefore
  <1> QED BY <1>1, <1>2, <1>3, <1>4, <1>5, <1>6, <1>7, <1>8, <1>9 DEF QInv

\* A request of a batch is skipped.
LEMMA SkipKeeps ==
    ASSUME QInv, NEW r \in Requests, GateSkip(r), TypeOK'
    PROVE  QInv'
  <1> USE DEF TypeOK, Waiting, Finished, Alive, GateSkip, queueVars, gateVars
  <1>1. QueueHolds'
    BY DEF QInv, QueueHolds
  <1>2. QueueSorted'
    BY DEF QInv, QueueSorted, QueueHolds, Arrivals
  <1>3. Arrivals'
    BY DEF QInv, Arrivals
  <1>4. OneDrainer'
    BY DEF QInv, OneDrainer
  <1>5. DrainerSound'
    BY DEF QInv, DrainerSound, Arrivals
  <1>6. BatchCovers'
    BY DEF QInv, BatchCovers, Started, Arrivals
  <1>7. BatchAccess'
    BY DEF QInv, BatchAccess
  <1>8. TakenBefore'
    BY DEF QInv, TakenBefore, Arrivals, Started
  <1>9. DispatchOrder'
    BY DEF QInv, DispatchOrder, Arrivals, TakenBefore
  <1> QED BY <1>1, <1>2, <1>3, <1>4, <1>5, <1>6, <1>7, <1>8, <1>9 DEF QInv

\* A handler returns.
LEMMA ReturnsKeeps ==
    ASSUME QInv, NEW r \in Requests, HandlerReturns(r), TypeOK'
    PROVE  QInv'
  <1> USE DEF TypeOK, Waiting, Finished, Alive, HandlerReturns, queueVars, gateVars
  <1>1. QueueHolds'
    BY DEF QInv, QueueHolds
  <1>2. QueueSorted'
    BY DEF QInv, QueueSorted, QueueHolds, Arrivals
  <1>3. Arrivals'
    BY DEF QInv, Arrivals
  <1>4. OneDrainer'
    BY DEF QInv, OneDrainer
  <1>5. DrainerSound'
    BY DEF QInv, DrainerSound, Arrivals
  <1>6. BatchCovers'
    BY DEF QInv, BatchCovers, Started, Arrivals
  <1>7. BatchAccess'
    BY DEF QInv, BatchAccess
  <1>8. TakenBefore'
    BY DEF QInv, TakenBefore, Arrivals, Started
  <1>9. DispatchOrder'
    BY DEF QInv, DispatchOrder, Arrivals, TakenBefore
  <1> QED BY <1>1, <1>2, <1>3, <1>4, <1>5, <1>6, <1>7, <1>8, <1>9 DEF QInv

\* A batch leaves the deque. Its drain task awaited nothing else (<1>7), so
\* that what starts now has only finished requests before it, except the
\* reads of its own batch.
LEMMA PopKeeps ==
    ASSUME QInv, NEW d \in Requests, DrainPop(d), TypeOK'
    PROVE  QInv'
  <1> DEFINE k == keyOf[d]
             q == queues[k]
  <1> USE DEF TypeOK, Waiting, Finished, Alive
  <1>1. /\ k \in Keys /\ q \in Seq(Requests) /\ Len(q) \in Nat
        /\ drainer[d] = "pop"
        /\ drainer' = [drainer EXCEPT ![d] = "join"]
        /\ UNCHANGED <<present, arrival, clock>>
    BY DEF QInv, DrainPop
  <1>2. PICK n \in 1..Len(q) :
          /\ IsBatch(q, n)
          /\ batch' = [batch EXCEPT ![d] = {q[i] : i \in 1..n}]
          /\ state' = [r \in Requests |->
                         IF \E i \in 1..n : q[i] = r THEN "taken" ELSE state[r]]
          /\ queues' = [queues EXCEPT ![k] = SubSeq(q, n + 1, Len(q))]
    BY DEF DrainPop
  <1>3. /\ Len(queues'[k]) = Len(q) - n
        /\ \A i \in 1..(Len(q) - n) : queues'[k][i] = q[i + n]
        /\ \A j \in Keys : j # k => queues'[j] = queues[j]
    <2> DEFINE rest == SubSeq(q, n + 1, Len(q))
    <2>1. queues \in [Keys -> Seq(Requests)]
      BY DEF QInv
    <2> HIDE DEF k, q
    <2>2. queues' = [queues EXCEPT ![k] = rest]
      BY <1>2
    <2>3. n \in Nat /\ n <= Len(q) /\ 1 <= n
      BY <1>1, <1>2
    <2>4. /\ Len(rest) = Len(q) - n
          /\ \A i \in 1..(Len(q) - n) : rest[i] = q[i + n]
      BY <1>1, <2>3
    <2> HIDE DEF rest
    <2>5. queues'[k] = rest /\ \A j \in Keys : j # k => queues'[j] = queues[j]
      BY <1>1, <2>1, <2>2
    <2> QED BY <2>4, <2>5
  <1>4. \A i \in 1..Len(q) : /\ q[i] \in Requests /\ keyOf[q[i]] = k
                             /\ state[q[i]] = "queued" /\ arrival[q[i]] \in Nat
    BY <1>1 DEF QInv, QueueHolds
  <1>5. \A i, j \in 1..Len(q) : i < j => arrival[q[i]] < arrival[q[j]]
    BY <1>1 DEF QInv, QueueSorted
  <1>6. \A i, j \in 1..Len(q) : q[i] = q[j] => i = j
    <2> HIDE DEF q, k
    <2> SUFFICES ASSUME NEW i \in 1..Len(q), NEW j \in 1..Len(q), q[i] = q[j]
                 PROVE  i = j
      OBVIOUS
    <2>1. arrival[q[i]] \in Nat /\ arrival[q[i]] = arrival[q[j]]
      BY <1>4
    <2>2. ~(i < j) /\ ~(j < i)
      BY <1>5, <2>1
    <2> QED BY <2>2
  <1>7. \A r \in Requests : keyOf[r] = k => state[r] \notin Started
    <2> SUFFICES ASSUME NEW r \in Requests, keyOf[r] = k, state[r] \in Started
                 PROVE  FALSE
      OBVIOUS
    <2>1. PICK e \in Requests : keyOf[e] = k /\ drainer[e] = "join"
      BY <1>1 DEF QInv, BatchCovers
    <2>2. e = d
      BY <1>1, <2>1 DEF QInv, OneDrainer
    <2> QED BY <1>1, <2>1, <2>2
  <1> DEFINE Popped(r) == \E i \in 1..n : q[i] = r
  <1>8. \A r \in Requests : state'[r] = IF Popped(r) THEN "taken" ELSE state[r]
    BY <1>2
  <1>9. \A i \in 1..Len(q) : Popped(q[i]) <=> i <= n
    <2> HIDE DEF q, k
    <2> SUFFICES ASSUME NEW i \in 1..Len(q) PROVE Popped(q[i]) <=> i <= n
      OBVIOUS
    <2>1. Len(q) \in Nat /\ n \in 1..Len(q)
      BY <1>1, <1>2
    <2>2. ASSUME NEW h \in 1..n, q[h] = q[i] PROVE i <= n
      BY <1>6, <2>1, <2>2
    <2>3. i <= n => i \in 1..n
      BY <2>1
    <2> QED BY <2>2, <2>3
  <1>10. \A r \in Requests : Popped(r) => keyOf[r] = k /\ state[r] = "queued"
    <2> SUFFICES ASSUME NEW r \in Requests, NEW i \in 1..n, q[i] = r
                 PROVE  keyOf[r] = k /\ state[r] = "queued"
      OBVIOUS
    <2> HIDE DEF q, k
    <2>1. i \in 1..Len(q)
      BY <1>1, <1>2
    <2> QED BY <1>4, <2>1
  <1>11. batch'[d] = {q[i] : i \in 1..n}
         /\ \A e \in Requests : e # d => batch'[e] = batch[e]
    BY <1>2 DEF QInv
  <1>12. \A r, s \in Requests : Popped(r) /\ Popped(s) /\ r # s =>
            accessOf[r] = "SharedRead" /\ accessOf[s] = "SharedRead"
    BY <1>1, <1>2 DEF IsBatch
  <1>13. \A r \in Requests : Popped(r) <=> r \in batch'[d]
    BY <1>11
  <1> HIDE DEF k, q, Popped
  <1>shift. \A i \in 1..Len(queues'[k]) :
            i + n \in 1..Len(q) /\ ~(i + n <= n) /\ queues'[k][i] = q[i + n]
    <2>1. Len(q) \in Nat /\ n \in Nat /\ n <= Len(q)
      BY <1>1, <1>2
    <2> SUFFICES ASSUME NEW i \in 1..Len(queues'[k])
                 PROVE  i + n \in 1..Len(q) /\ ~(i + n <= n) /\ queues'[k][i] = q[i + n]
      OBVIOUS
    <2>2. i \in 1..(Len(q) - n)
      BY <1>3
    <2>3. i + n \in 1..Len(q) /\ ~(i + n <= n)
      BY <2>1, <2>2
    <2> QED BY <1>3, <2>2, <2>3
  <1>14. QueueHolds'
    <2>1. ASSUME NEW j \in Keys, NEW i \in 1..Len(queues'[j])
          PROVE  keyOf[queues'[j][i]] = j /\ state'[queues'[j][i]] = "queued"
      <3>1. CASE j # k
        <4>1. /\ queues[j][i] \in Requests /\ keyOf[queues[j][i]] = j
              /\ state[queues[j][i]] = "queued" /\ queues'[j] = queues[j]
          BY <1>3, <2>1, <3>1 DEF QInv, QueueHolds
        <4> QED BY <1>8, <1>10, <3>1, <4>1
      <3>2. CASE j = k
        <4>1. i + n \in 1..Len(q) /\ ~(i + n <= n) /\ queues'[k][i] = q[i + n]
          BY <1>shift, <3>2
        <4>2. ~Popped(q[i + n])
          BY <1>9, <4>1
        <4>3. /\ q[i + n] \in Requests /\ keyOf[q[i + n]] = k
              /\ state[q[i + n]] = "queued"
          BY <1>4, <4>1
        <4>4. state'[q[i + n]] = "queued"
          BY <1>8, <4>2, <4>3
        <4> QED BY <3>2, <4>1, <4>3, <4>4
      <3> QED BY <3>1, <3>2
    <2>2. ASSUME NEW r \in Requests, state'[r] = "queued"
          PROVE  /\ keyOf[r] \in Keys
                 /\ \E i \in 1..Len(queues'[keyOf[r]]) : queues'[keyOf[r]][i] = r
      <3>1. ~Popped(r) /\ state[r] = "queued"
        BY <1>8, <2>2
      <3>2. PICK i \in 1..Len(queues[keyOf[r]]) : queues[keyOf[r]][i] = r
        BY <3>1 DEF QInv, QueueHolds
      <3>3. keyOf[r] \in Keys
        BY <3>1 DEF QInv, QueueHolds
      <3>4. CASE keyOf[r] # k
        BY <1>3, <3>2, <3>3, <3>4
      <3>5. CASE keyOf[r] = k
        <4>1. i \in 1..Len(q) /\ q[i] = r
          BY <3>2, <3>5 DEF q
        <4>2. i > n
          BY <1>1, <1>2, <1>9, <3>1, <4>1
        <4>3. i - n \in 1..(Len(q) - n) /\ queues'[k][i - n] = r
          BY <1>1, <1>2, <1>3, <4>1, <4>2
        <4> QED BY <1>3, <3>3, <3>5, <4>3
      <3> QED BY <3>4, <3>5
    <2> QED BY <2>1, <2>2 DEF QueueHolds
  <1>15. QueueSorted'
    <2> SUFFICES ASSUME NEW j \in Keys, NEW x \in 1..Len(queues'[j]),
                        NEW y \in 1..Len(queues'[j]), x < y
                 PROVE  arrival'[queues'[j][x]] < arrival'[queues'[j][y]]
      BY DEF QueueSorted
    <2>1. CASE j # k
      BY <1>1, <1>3, <2>1 DEF QInv, QueueSorted
    <2>2. CASE j = k
      <3>1. /\ x + n \in 1..Len(q) /\ queues'[k][x] = q[x + n]
            /\ y + n \in 1..Len(q) /\ queues'[k][y] = q[y + n]
        BY <1>shift, <2>2
      <3>3. x + n < y + n
        BY <1>2
      <3>2. arrival[q[x + n]] < arrival[q[y + n]]
        BY <1>5, <3>1, <3>3
      <3> QED BY <1>1, <2>2, <3>1, <3>2
    <2> QED BY <2>1, <2>2
  <1>16. Arrivals'
    BY <1>1, <1>8, <1>10 DEF QInv, Arrivals
  <1>17. OneDrainer'
    <2>1. \A e \in Requests : drainer'[e] \in Alive <=> drainer[e] \in Alive
      BY <1>1 DEF QInv
    <2>2. k \in present
      BY DEF DrainPop, k
    <2> QED BY SMTT(30), <1>1, <1>3, <2>1, <2>2 DEF QInv, OneDrainer
  <1>18. DrainerSound'
    BY <1>1 DEF QInv, DrainerSound
  <1>19. BatchCovers'
    <2> SUFFICES ASSUME NEW r \in Requests, state'[r] \in Started, keyOf[r] \in Keys
                 PROVE  \E e \in Requests : /\ keyOf[e] = keyOf[r] /\ drainer'[e] = "join"
                                            /\ r \in batch'[e]
      BY DEF BatchCovers
    <2>1. CASE Popped(r)
      BY <1>1, <1>10, <1>13, <2>1 DEF QInv, k
    <2>2. CASE ~Popped(r)
      <3>1. state[r] \in Started
        BY <1>8, <2>2
      <3>2. PICK e \in Requests : /\ keyOf[e] = keyOf[r] /\ drainer[e] = "join"
                                  /\ r \in batch[e]
        BY <3>1 DEF QInv, BatchCovers
      <3>3. e # d
        BY <1>1, <3>2
      <3> QED BY <1>1, <1>11, <3>2, <3>3 DEF QInv
    <2> QED BY <2>1, <2>2
  <1>20. BatchAccess'
    <2> SUFFICES ASSUME NEW e \in Requests, NEW r \in batch'[e], NEW s \in batch'[e],
                        r # s
                 PROVE  accessOf[r] = "SharedRead" /\ accessOf[s] = "SharedRead"
      BY DEF BatchAccess
    <2>1. r \in Requests /\ s \in Requests
      OBVIOUS
    <2>2. CASE e = d
      BY <1>12, <1>13, <2>1, <2>2
    <2>3. CASE e # d
      BY <1>11, <2>3 DEF QInv, BatchAccess
    <2> QED BY <2>2, <2>3
  <1>21. TakenBefore'
    <2> SUFFICES ASSUME NEW r \in Requests, NEW s \in Requests,
                        keyOf[r] = keyOf[s], keyOf[r] \in Keys,
                        state'[r] \in Started \cup Finished, state'[s] = "queued"
                 PROVE  arrival[r] < arrival[s]
      BY <1>1 DEF TakenBefore
    <2>1. ~Popped(s) /\ state[s] = "queued"
      BY <1>8
    <2>2. CASE Popped(r)
      <3>1. PICK i \in 1..n : q[i] = r
        BY <2>2 DEF Popped
      <3>2. keyOf[s] = k
        BY <1>10, <2>2
      <3>3. PICK j \in 1..Len(q) : q[j] = s
        BY <2>1, <3>2 DEF QInv, QueueHolds, q
      <3>4. ~(j <= n)
        BY <1>9, <2>1, <3>3
      <3>5. Len(q) \in Nat /\ n \in 1..Len(q)
        BY <1>1, <1>2
      <3>6. i \in 1..Len(q) /\ i < j
        BY <3>4, <3>5
      <3> QED BY <1>5, <3>1, <3>3, <3>6
    <2>3. CASE ~Popped(r)
      BY <1>8, <2>1, <2>3 DEF QInv, TakenBefore
    <2> QED BY <2>2, <2>3
  <1>22. DispatchOrder'
    <2> SUFFICES ASSUME NEW r \in Requests, NEW s \in Requests,
                        keyOf[r] = keyOf[s], keyOf[r] \in Keys,
                        0 < arrival[r], arrival[r] < arrival[s],
                        state'[s] \in Started \cup Finished
                 PROVE  \/ state'[r] \in Finished
                        \/ /\ accessOf[r] = "SharedRead" /\ accessOf[s] = "SharedRead"
                           /\ state'[r] \in Started
      BY <1>1 DEF DispatchOrder, Started
    <2>1. CASE Popped(s)
      <3>1. keyOf[r] = k /\ state[r] \notin Started
        BY <1>7, <1>10, <2>1
      <3>2. state[r] \in Finished \/ state[r] = "queued"
        <4>1. arrival[r] # 0
          BY DEF QInv
        <4>2. state[r] \notin {"new", "dropped"}
          BY <4>1 DEF QInv, Arrivals
        <4> QED BY <3>1, <4>2 DEF QInv, Started
      <3>3. CASE state[r] \in Finished
        BY <1>8, <1>10, <3>3
      <3>4. CASE state[r] = "queued"
        <4>1. PICK i \in 1..Len(q) : q[i] = r
          BY <3>1, <3>4 DEF QInv, QueueHolds, q
        <4>2. PICK j \in 1..n : q[j] = s
          BY <2>1 DEF Popped
        <4>3. /\ j \in 1..Len(q)
              /\ arrival[r] \in Nat /\ arrival[s] \in Nat /\ r # s
          <5>1. arrival \in [Requests -> Nat]
            BY DEF QInv
          <5>2. j \in 1..Len(q)
            BY <1>1, <1>2, <4>2
          <5> QED BY <5>1, <5>2
        <4>4. ~(j < i) /\ j # i
          <5> HIDE DEF q
          <5>1. j < i => arrival[s] < arrival[r]
            BY <1>5, <4>1, <4>2, <4>3
          <5> QED BY <4>1, <4>2, <4>3, <5>1
        <4>5. i <= n
          BY <1>1, <1>2, <4>1, <4>2, <4>3, <4>4
        <4>6. Popped(r)
          BY <1>9, <4>1, <4>5
        <4>7. state'[r] = "taken"
          BY <1>8, <4>6
        <4>8. accessOf[r] = "SharedRead" /\ accessOf[s] = "SharedRead"
          BY <1>12, <2>1, <4>3, <4>6
        <4> QED BY <4>7, <4>8 DEF Started
      <3> QED BY <3>2, <3>3, <3>4
    <2>2. CASE ~Popped(s)
      <3>1. state[s] \in Started \cup Finished
        BY <1>8, <2>2
      <3>2. \/ state[r] \in Finished
            \/ /\ accessOf[r] = "SharedRead" /\ accessOf[s] = "SharedRead"
               /\ state[r] \in Started
        BY <3>1 DEF QInv, DispatchOrder, Started
      <3>3. ~Popped(r)
        BY <1>10, <3>2 DEF Started
      <3> QED BY <1>8, <3>2, <3>3
    <2> QED BY <2>1, <2>2
  <1> QED BY <1>14, <1>15, <1>16, <1>17, <1>18, <1>19, <1>20, <1>21, <1>22 DEF QInv

\* The gates and the connections are no part of the queues.
LEMMA GateActionsKeep ==
    ASSUME QInv, UNCHANGED <<queueVars, state, arrival, clock>>, TypeOK'
    PROVE  QInv'
  <1> USE DEF queueVars
  <1>1. QueueHolds' /\ QueueSorted' /\ Arrivals'
    BY DEF QInv, QueueHolds, QueueSorted, Arrivals
  <1>2. OneDrainer' /\ DrainerSound'
    BY DEF QInv, OneDrainer, DrainerSound
  <1>3. BatchCovers' /\ BatchAccess'
    BY DEF QInv, BatchCovers, BatchAccess
  <1>4. TakenBefore' /\ DispatchOrder'
    BY DEF QInv, TakenBefore, DispatchOrder
  <1> QED BY <1>1, <1>2, <1>3, <1>4 DEF QInv

\* The queue part of the invariant is preserved by every step.
LEMMA QueueStep == QInv /\ [Next]_vars => QInv'
  <1> SUFFICES ASSUME QInv, [Next]_vars PROVE QInv'
    OBVIOUS
  <1>0. TypeOK'
    BY TypeStep DEF QInv
  <1>1. ASSUME NEW r \in Requests, Dispatch(r) PROVE QInv'
    BY <1>0, <1>1, UnkeyedKeeps, BehindKeeps, FirstKeeps, DropKeeps DEF Dispatch
  <1>2. ASSUME NEW d \in Requests, Drain(d) PROVE QInv'
    BY <1>0, <1>2, PopKeeps, JoinedKeeps, EndsKeeps DEF Drain
  <1>3. ASSUME NEW r \in Requests, Handle(r) PROVE QInv'
    BY <1>0, <1>3, EnterKeeps, SkipKeeps, ReturnsKeeps DEF Handle
  <1>4. ASSUME \/ \E c \in Conns : ConnectionClosed(c) \/ Cleanup(c)
               \/ ShutdownBegins \/ ShutdownEnds \/ ShutdownForced
               \/ UNCHANGED vars
        PROVE  QInv'
    <2>1. UNCHANGED <<queueVars, state, arrival, clock>>
      BY <1>4 DEF ConnectionClosed, Cleanup, CleanupDrained, CleanupTimesOut,
                  ShutdownBegins, ShutdownEnds, ShutdownForced, vars
    <2> QED BY <1>0, <2>1, GateActionsKeep
  <1> QED BY <1>1, <1>2, <1>3, <1>4 DEF Next

-----------------------------------------------------------------------------
(* The gates *)

\* A handler starts only through an open gate; no queue step touches a gate.
LEMMA StartsThroughGate ==
    ASSUME TypeOK, NEW r \in Requests, Dispatch(r) \/ Drain(r) \/ Handle(r)
    PROVE  /\ UNCHANGED gateVars
           /\ \A s \in Requests : state'[s] = "running" =>
                 state[s] = "running" \/ accepting[connOf[s]]
  <1> USE DEF TypeOK, Waiting, Finished, Alive
  <1>1. CASE Dispatch(r)
    BY <1>1 DEF Dispatch, DispatchUnkeyed, EnqueueBehind, EnqueueFirst,
                Refuse, Arrives
  <1>2. CASE Drain(r)
    <2>1. CASE DrainPop(r)
      BY <2>1 DEF DrainPop
    <2>2. CASE DrainJoined(r) \/ DrainEnds(r)
      BY <2>2 DEF DrainJoined, DrainEnds
    <2> QED BY <1>2, <2>1, <2>2 DEF Drain
  <1>3. CASE Handle(r)
    BY <1>3 DEF Handle, GateEnter, GateSkip, HandlerReturns
  <1> QED BY <1>1, <1>2, <1>3

\* Closed gates stay closed, and what has drained stays quiet.
LEMMA GateStep == TypeOK /\ GInv /\ [Next]_vars => GInv'
  <1> SUFFICES ASSUME TypeOK, GInv, [Next]_vars PROVE GInv'
    OBVIOUS
  <1>1. ASSUME NEW r \in Requests, Dispatch(r) \/ Drain(r) \/ Handle(r)
        PROVE  GInv'
    <2>1. /\ UNCHANGED gateVars
          /\ \A s \in Requests : state'[s] = "running" =>
                state[s] = "running" \/ accepting[connOf[s]]
      BY <1>1, StartsThroughGate
    <2>2. GatesClosed'
      BY <2>1 DEF GInv, GatesClosed, gateVars
    <2>3. QuietAfterDrain'
      BY <2>1 DEF GInv, QuietAfterDrain, gateVars, Running, Of
    <2> QED BY <2>2, <2>3 DEF GInv
  <1>2. ASSUME NEW c \in Conns, ConnectionClosed(c) \/ Cleanup(c) PROVE GInv'
    <2> USE DEF TypeOK, GInv, ConnectionClosed, Cleanup, CleanupDrained,
                CleanupTimesOut
    <2>1. GatesClosed'
      <3>1. /\ server' = server
            /\ \A b \in Conns : /\ b # c => conn'[b] = conn[b]
                                /\ ~accepting[b] => ~accepting'[b]
        BY <1>2
      <3>2. ~accepting'[c]
        BY <1>2 DEF GatesClosed
      <3> QED BY <3>1, <3>2 DEF GatesClosed
    <2>2. QuietAfterDrain'
      <3>1. Running' = Running /\ server' = server
        BY <1>2 DEF Running
      <3>2. \A b \in Conns : ~accepting[b] => ~accepting'[b]
        BY <1>2
      <3>3. CASE ConnectionClosed(c) \/ CleanupTimesOut(c)
        <4>1. \A b \in Conns : conn'[b] = IF b = c
                 THEN IF conn[c] = "open" THEN "draining" ELSE "overdue"
                 ELSE conn[b]
          BY <3>3
        <4>2. server # "exited" \/ conn'[c] = "overdue"
          BY <3>3
        <4> QED BY <1>2, <3>1, <3>2, <4>1, <4>2 DEF QuietAfterDrain, Of
      <3>4. CASE CleanupDrained(c)
        <4>1. \A b \in Conns : conn'[b] = IF b = c THEN "cleaned" ELSE conn[b]
          BY <3>4
        <4>2. Running \cap Of(c) = {} /\ ~accepting[c]
          BY <3>4 DEF GatesClosed
        <4> QED BY <3>1, <3>2, <4>1, <4>2 DEF QuietAfterDrain, Of
      <3> QED BY <1>2, <3>3, <3>4
    <2> QED BY <2>1, <2>2
  <1>3. CASE ShutdownBegins \/ ShutdownEnds \/ ShutdownForced
    <2> USE DEF TypeOK, GInv, ShutdownBegins, ShutdownEnds, ShutdownForced
    <2>1. GatesClosed'
      BY <1>3 DEF GatesClosed
    <2>2. QuietAfterDrain'
      <3>1. Running' = Running /\ conn' = conn
        BY <1>3 DEF Running
      <3>2. \A b \in Conns : ~accepting[b] => ~accepting'[b]
        BY <1>3
      <3>3. CASE server' # "exited"
        BY <3>1, <3>2, <3>3 DEF QuietAfterDrain, Of
      <3>4. CASE server' = "exited"
        <4>1. \A b \in Conns : ~accepting[b] /\ conn[b] # "draining"
                                /\ (conn[b] = "open" => Running \cap Of(b) = {})
          BY <1>3, <3>4 DEF GatesClosed
        <4> QED BY <3>1, <3>2, <4>1 DEF QuietAfterDrain, Of
      <3> QED BY <3>3, <3>4
    <2> QED BY <2>1, <2>2
  <1>4. CASE UNCHANGED vars
    BY <1>4 DEF GInv, GatesClosed, QuietAfterDrain, Running, Of, vars, gateVars
  <1> QED BY <1>1, <1>2, <1>3, <1>4 DEF Next

-----------------------------------------------------------------------------
(* Theorems *)

\* The invariant holds in every reachable state.
LEMMA AlwaysIInv == Spec => []IInv
  <1>1. IInv /\ [Next]_vars => IInv'
    BY QueueStep, GateStep DEF IInv, QInv
  <1> QED BY <1>1, InitIInv, PTL DEF Spec

\* A batch that is one request or only reads, and one live drain task per key,
\* keep the handlers of a key apart.
LEMMA BatchesExclude == IInv => ExclusiveRunsAlone
  <1> SUFFICES ASSUME IInv, NEW r \in Running, NEW s \in Running, r # s,
                      keyOf[r] = keyOf[s], keyOf[r] \in Keys
               PROVE  accessOf[r] = "SharedRead" /\ accessOf[s] = "SharedRead"
    BY DEF ExclusiveRunsAlone
  <1>1. /\ r \in Requests /\ state[r] \in Started
        /\ s \in Requests /\ state[s] \in Started
    BY DEF Running, Started
  <1>2. PICK d \in Requests : /\ keyOf[d] = keyOf[r] /\ drainer[d] = "join"
                              /\ r \in batch[d]
    BY <1>1 DEF IInv, QInv, BatchCovers
  <1>3. PICK e \in Requests : /\ keyOf[e] = keyOf[s] /\ drainer[e] = "join"
                              /\ s \in batch[e]
    BY <1>1 DEF IInv, QInv, BatchCovers
  <1>4. d = e
    BY <1>2, <1>3 DEF IInv, QInv, OneDrainer, Alive
  <1> QED BY <1>2, <1>3, <1>4 DEF IInv, QInv, BatchAccess

\* Every reachable state of the dispatcher is well typed.
THEOREM DispatchTypeCorrect == Spec => []TypeOK
  <1>1. IInv => TypeOK
    BY DEF IInv, QInv
  <1> QED BY <1>1, AlwaysIInv, PTL

\* An exclusive request of a key never runs beside another request of it
\* (RequestSerializationQueues::drain), for any number of requests and keys.
THEOREM KeysExclude == Spec => []ExclusiveRunsAlone
  BY BatchesExclude, AlwaysIInv, PTL

\* Requests of a key take effect in dispatch order, reads overlapping at most
\* with reads: no read overtakes a queued write.
THEOREM KeysInOrder == Spec => []DispatchOrder
  <1>1. IInv => DispatchOrder
    BY DEF IInv, QInv
  <1> QED BY <1>1, AlwaysIInv, PTL

\* A key is in the map exactly while one drain task serves it, so that enqueue
\* never leaves a request in a deque nobody drains.
THEOREM KeysHaveOneDrainer == Spec => []OneDrainer
  <1>1. IInv => OneDrainer
    BY DEF IInv, QInv
  <1> QED BY <1>1, AlwaysIInv, PTL

\* After a connection's gate has drained (connection_closed, or the server's
\* shutdown) none of its handlers runs.
THEOREM QuietOnceDrained == Spec => []QuietAfterDrain
  <1>1. IInv => QuietAfterDrain
    BY DEF IInv, GInv
  <1> QED BY <1>1, AlwaysIInv, PTL
=============================================================================
