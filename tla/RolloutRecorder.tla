-------------------------- MODULE RolloutRecorder --------------------------
(***************************************************************************)
(* The recorder of a thread (motyga-rs/rollout/src/recorder.rs): its       *)
(* command queue, the writer task that keeps what is not written yet and   *)
(* retries after an I/O error, and the metadata update that appends to the *)
(* rollout beside it. It works on the files of RolloutFiles, whose worker  *)
(* compresses them meanwhile. The process of the recorder may end at any   *)
(* time and a later one resumes the thread.                                *)
(***************************************************************************)
EXTENDS RolloutFiles

CONSTANTS
    Recorder, Updater,  \* the two openers
    MaxSessions,        \* bound: processes that load the thread one after another
    MaxFaults,          \* bound: I/O errors, a retry that fails as well not counted
    MaxQueue            \* bound: the command queue (256 in the code)

ASSUME RecorderAssumption ==
    /\ Openers = {Recorder, Updater} /\ Recorder # Updater
    /\ MaxSessions \in Nat /\ MaxFaults \in Nat /\ MaxQueue \in Nat

VARIABLES
    rec,        \* RolloutWriterState, and the command the task works on
    queue,      \* the mpsc channel
    next, first,\* the item recorded next; the first item of this session
    acked,      \* lines that a barrier answered Ok for
    sessions, faults

recVars == <<rec, queue, next, first, acked, sessions, faults>>
vars == <<fileVars, recVars>>

Barriers == {"persist", "flush", "shutdown"}
Commands == [op : Barriers \cup {"add"}, items : SUBSET (1 .. MaxItems)]
NoCommand == [op |-> "add", items |-> {}]

Off == [at |-> "off", deferred |-> FALSE, meta |-> FALSE, pending |-> <<>>,
        attempt |-> 1, cmd |-> NoCommand]

Recorders == [at : {"off", "starting", "idle", "writing"}, deferred : BOOLEAN,
              meta : BOOLEAN, pending : Seq(1 .. MaxItems), attempt : {1, 2},
              cmd : Commands]

TypeOK ==
    /\ FilesTypeOK
    /\ rec \in Recorders
    /\ queue \in Seq(Commands)
    /\ next \in 1 .. MaxItems + 1 /\ first \in 1 .. next
    /\ acked \subseteq Items
    /\ sessions \in 0 .. MaxSessions /\ faults \in 0 .. MaxFaults

Init ==
    /\ FilesInit
    /\ rec = Off /\ queue = <<>>
    /\ next = 1 /\ first = 1 /\ acked = {}
    /\ sessions = 0 /\ faults = 0

-----------------------------------------------------------------------------
(* RolloutRecorder::new                                                    *)

\* Create: the file is created by the first command that needs it.
Create ==
    /\ rec.at = "off" /\ sessions = 0 /\ sessions < MaxSessions
    /\ rec' = [Off EXCEPT !.at = "idle", !.deferred = TRUE, !.meta = TRUE]
    /\ sessions' = 1
    /\ UNCHANGED <<fileVars, queue, next, first, acked, faults>>

\* Resume: get_rollout_history has found the thread id in the session meta;
\* the rollout is materialized and opened.
Resume ==
    /\ rec.at = "off" /\ 0 < sessions /\ sessions < MaxSessions
    /\ SessionMeta \in History
    /\ rec' = [Off EXCEPT !.at = "starting"]
    /\ sessions' = sessions + 1 /\ first' = next
    /\ StartOpen(Recorder)
    /\ UNCHANGED <<queue, next, acked, faults>>

ResumeOpens ==
    /\ rec.at = "starting"
    /\ Open(Recorder, FALSE)
    /\ rec' = [rec EXCEPT !.at = "idle"]
    /\ UNCHANGED <<queue, next, first, acked, sessions, faults>>

\* An I/O error is spent from the budget, unless a file is missing or the retry
\* meets the error again.
Missing(p, create) == \/ mat[p] = "decompress" /\ ~zst.exists
                      \/ mat[p] = "open" /\ ~plain.exists /\ ~create
Persists(p) == p = Recorder /\ rec.attempt = 2
Fault(p, create) == IF Missing(p, create) \/ Persists(p) THEN UNCHANGED faults
                    ELSE faults < MaxFaults /\ faults' = faults + 1

ResumeFails ==
    /\ rec.at = "starting"
    /\ Fault(Recorder, FALSE) /\ GiveUp(Recorder)
    /\ rec' = Off
    /\ UNCHANGED <<queue, next, first, acked, sessions>>

-----------------------------------------------------------------------------
(* The clients: record_canonical_items, persist, flush, shutdown           *)

Alive == rec.at \in {"idle", "writing"}

Send(c) == Alive /\ Len(queue) < MaxQueue /\ queue' = Append(queue, c)

Record ==
    /\ next <= MaxItems
    /\ Send([op |-> "add", items |-> {next}])
    /\ next' = next + 1
    /\ UNCHANGED <<fileVars, rec, first, acked, sessions, faults>>

\* A barrier promises every item that was sent before it.
Barrier(op) ==
    /\ Send([op |-> op, items |-> first .. next - 1])
    /\ UNCHANGED <<fileVars, rec, next, first, acked, sessions, faults>>

-----------------------------------------------------------------------------
(* rollout_writer: one command after another                               *)

\* The answer of a barrier. A shutdown that succeeds ends the task: the queue
\* is dropped, and with it what was sent behind the shutdown.
Answer(r, ok, lines) ==
    LET stops == r.cmd.op = "shutdown" /\ ok
    IN  /\ acked' = IF ok /\ r.cmd.op \in Barriers
                    THEN acked \cup r.cmd.items \cup lines ELSE acked
        /\ rec' = IF stops THEN Off ELSE [r EXCEPT !.at = "idle", !.attempt = 1,
                                                   !.cmd = NoCommand]

IsDeferred(r) == handle[Recorder] = "none" /\ r.deferred

\* write_pending_with_recovery starts its first attempt.
BeginWrite(r) ==
    /\ rec' = [r EXCEPT !.at = "writing", !.attempt = 1]
    /\ IF handle[Recorder] = "none" THEN StartOpen(Recorder) ELSE UNCHANGED fileVars

\* The command that is received next.
Received == rec.at = "idle" /\ queue # <<>>

\* Mutant: new items go before those that are pending.
TakeItemsFirst ==
    /\ Received /\ Head(queue).op = "add"
    /\ LET i == CHOOSE i \in Head(queue).items : TRUE
           r == [rec EXCEPT !.pending = <<i>> \o rec.pending, !.cmd = Head(queue)]
       IN  IF IsDeferred(rec)
           THEN rec' = [r EXCEPT !.cmd = NoCommand] /\ UNCHANGED fileVars
           ELSE BeginWrite(r)
    /\ queue' = Tail(queue)
    /\ UNCHANGED <<next, first, acked, sessions, faults>>

\* add_items, and flush_if_materialized.
TakeItems ==
    /\ Received /\ Head(queue).op = "add"
    /\ LET i == CHOOSE i \in Head(queue).items : TRUE
           r == [rec EXCEPT !.pending = Append(rec.pending, i), !.cmd = Head(queue)]
       IN  IF IsDeferred(rec)
           THEN rec' = [r EXCEPT !.cmd = NoCommand] /\ UNCHANGED fileVars
           ELSE BeginWrite(r)
    /\ queue' = Tail(queue)
    /\ UNCHANGED <<next, first, acked, sessions, faults>>

\* flush and shutdown have nothing to do when nothing was recorded.
TakeBarrier ==
    /\ Received /\ Head(queue).op \in Barriers
    /\ LET r == [rec EXCEPT !.cmd = Head(queue)]
           nothing == r.cmd.op # "persist" /\ IsDeferred(rec) /\ rec.pending = <<>>
       IN  IF nothing
           THEN /\ Answer(r, TRUE, {})
                /\ queue' = IF r.cmd.op = "shutdown" THEN <<>> ELSE Tail(queue)
                /\ UNCHANGED fileVars
           ELSE BeginWrite(r) /\ queue' = Tail(queue) /\ UNCHANGED acked
    /\ UNCHANGED <<next, first, sessions, faults>>

-----------------------------------------------------------------------------
(* write_pending_once                                                      *)

\* ensure_writer_open: open_log_file has the file.
WriterOpens ==
    /\ rec.at = "writing"
    /\ Open(Recorder, TRUE)
    /\ rec' = [rec EXCEPT !.deferred = FALSE]
    /\ UNCHANGED <<queue, next, first, acked, sessions, faults>>

Writing == rec.at = "writing" /\ handle[Recorder] # "none"

\* write_session_meta_if_needed: the meta is written before the items.
WriteMeta ==
    /\ Writing /\ rec.meta
    /\ WriteTo(Recorder, Line(SessionMeta), TRUE)
    /\ rec' = [rec EXCEPT !.meta = FALSE]
    /\ UNCHANGED <<queue, next, first, acked, sessions, faults>>

\* write_pending_items_once: an item leaves the queue once it is written.
WriteItem ==
    /\ Writing /\ ~rec.meta /\ rec.pending # <<>>
    /\ WriteTo(Recorder, Line(Head(rec.pending)), TRUE)
    /\ rec' = [rec EXCEPT !.pending = Tail(rec.pending)]
    /\ UNCHANGED <<queue, next, first, acked, sessions, faults>>

WriteDone ==
    /\ Writing /\ ~rec.meta /\ rec.pending = <<>>
    /\ Answer(rec, TRUE, {SessionMeta})
    /\ queue' = IF rec'.at = "off" THEN <<>> ELSE queue
    /\ IF rec'.at = "off" THEN GiveUp(Recorder) ELSE UNCHANGED fileVars
    /\ UNCHANGED <<next, first, sessions, faults>>

\* The line that is being written when the write fails.
Current == IF rec.meta THEN {SessionMeta}
           ELSE IF rec.pending # <<>> THEN {Head(rec.pending)} ELSE {}

\* Mutants: a second failure drops what is pending; it is reported as success;
\* there is no end to the attempts.
RecoverDrops ==
    IF rec.attempt = 1
    THEN rec' = [rec EXCEPT !.attempt = 2] /\ UNCHANGED acked
    ELSE Answer([rec EXCEPT !.pending = <<>>], FALSE, {})

RecoverReportsOk ==
    IF rec.attempt = 1
    THEN rec' = [rec EXCEPT !.attempt = 2] /\ UNCHANGED acked
    ELSE Answer(rec, TRUE, {SessionMeta})

RecoverForEver ==
    rec' = [rec EXCEPT !.attempt = rec.attempt + 1] /\ UNCHANGED acked

\* enter_recovery_mode closes the file; a first failure is retried with the
\* file reopened, a second one is the answer.
Recover ==
    IF rec.attempt = 1
    THEN rec' = [rec EXCEPT !.attempt = 2] /\ UNCHANGED acked
    ELSE Answer(rec, FALSE, {})

\* The failure comes before anything is written.
AttemptFails ==
    /\ rec.at = "writing" /\ (mat[Recorder] # "none" \/ (Writing /\ Current # {}))
    /\ Fault(Recorder, TRUE) /\ GiveUp(Recorder)
    /\ Recover
    /\ UNCHANGED <<queue, next, first, sessions>>

\* The failure comes in the middle of a line.
WriteTears ==
    /\ Writing /\ faults < MaxFaults /\ faults' = faults + 1
    /\ \E i \in Current : WriteTo(Recorder, Torn(i), FALSE)
    /\ Recover
    /\ UNCHANGED <<queue, next, first, sessions>>

\* The second attempt begins with no file open.
Reopen ==
    /\ rec.at = "writing" /\ handle[Recorder] = "none" /\ StartOpen(Recorder)
    /\ UNCHANGED recVars

-----------------------------------------------------------------------------
(* The process ends: what is pending and queued is lost with it            *)

Dead == /\ rec' = Off /\ queue' = <<>>
        /\ UNCHANGED <<next, first, acked, sessions>>

Crash == rec.at # "off" /\ GiveUp(Recorder) /\ Dead /\ UNCHANGED faults

CrashInWrite ==
    /\ Writing /\ faults < MaxFaults /\ faults' = faults + 1
    /\ \E i \in Current : WriteTo(Recorder, Torn(i), FALSE)
    /\ Dead

-----------------------------------------------------------------------------
(* append_rollout_item_to_path, after read_session_meta_line               *)

StartUpdate ==
    /\ SessionMeta \in History /\ Update \notin acked
    /\ StartOpen(Updater)
    /\ UNCHANGED recVars

UpdateOpens == Open(Updater, FALSE) /\ UNCHANGED recVars

WriteUpdate ==
    /\ WriteTo(Updater, Line(Update), FALSE)
    /\ acked' = acked \cup {Update}
    /\ UNCHANGED <<rec, queue, next, first, sessions, faults>>

\* The update fails, or its process ends, in the middle of the line.
UpdateTears ==
    /\ faults < MaxFaults /\ faults' = faults + 1
    /\ WriteTo(Updater, Torn(Update), FALSE)
    /\ UNCHANGED <<rec, queue, next, first, acked, sessions>>

UpdateFails ==
    /\ mat[Updater] # "none" \/ handle[Updater] # "none"
    /\ Fault(Updater, FALSE)
    /\ GiveUp(Updater)
    /\ UNCHANGED <<rec, queue, next, first, acked, sessions>>

-----------------------------------------------------------------------------
New == Create \/ Resume \/ ResumeOpens \/ ResumeFails

Client == Record \/ \E op \in Barriers : Barrier(op)

Writer ==
    \/ TakeItems \/ TakeBarrier \/ WriterOpens \/ WriteMeta \/ WriteItem \/ WriteDone
    \/ AttemptFails \/ WriteTears \/ Reopen

MetadataUpdate ==
    StartUpdate \/ UpdateOpens \/ WriteUpdate \/ UpdateTears \/ UpdateFails

Storage == /\ \/ \E p \in Openers : MatStep(p)
              \/ \E c \in Compressors : Compress(c)
              \/ GrowsCold /\ rec.at # "writing" /\ handle[Updater] = "none"
           /\ UNCHANGED recVars

Next == New \/ Client \/ Writer \/ Crash \/ CrashInWrite \/ MetadataUpdate \/ Storage

Spec == Init /\ [][Next]_vars

-----------------------------------------------------------------------------
(* Properties *)

\* Items that are recorded and not written yet: pending, or still in the channel.
Adds == {k \in DOMAIN queue : queue[k].op = "add"}
Owed == Range(rec.pending) \cup UNION {queue[k].items : k \in Adds}

\* They will be written in the order in which they were recorded.
OwedInOrder ==
    /\ \A j, k \in DOMAIN rec.pending : j < k => rec.pending[j] < rec.pending[k]
    /\ \A j \in DOMAIN rec.pending, k \in Adds :
          \A i \in queue[k].items : rec.pending[j] < i
    /\ \A j, k \in Adds :
          j < k => \A h \in queue[j].items, i \in queue[k].items : h < i

Written(i) == \E k \in DOMAIN Visible : Visible[k] = Line(i)
Glued(i) == \E k \in 2 .. Len(Visible) : Visible[k] = Line(i) /\ ~Visible[k - 1].whole

\* A barrier that was answered Ok keeps its promise across retries, crashes,
\* resumed sessions, compression and materialization: every line it covers
\* can be read, unless it landed behind a torn line, as long as no appender
\* had the file open when the worker removed it.
AckedReadable == ~raced => \A i \in acked : i \in History \/ Glued(i)

\* Readers find items in the order in which they were recorded, each once,
\* however often the writer fails and starts again.
RecordedInOrder ==
    \A j, k \in DOMAIN Visible :
       /\ j < k /\ Visible[j].whole /\ Visible[k].whole
       /\ {Visible[j].item, Visible[k].item} \subseteq 1 .. MaxItems
       => Visible[j].item < Visible[k].item

\* While the recorder lives an accepted item is owed or has been written, the
\* owed ones after all others: failed attempts neither drop nor reorder what
\* is pending.
AcceptedKept ==
    Alive => /\ OwedInOrder
             /\ \E low \in 1 .. next :
                   /\ Owed = low .. next - 1
                   /\ ~raced => \A i \in first .. low - 1 : Written(i)

\* What the documentation of flush says: what it has committed can be read.
FlushedIsReadable == acked \ {Update} \subseteq History
=============================================================================
