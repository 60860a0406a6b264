----------------------- MODULE RolloutRecorder_proofs -----------------------
(***************************************************************************)
(* Proofs about RolloutRecorder. Its steps on the files are steps of       *)
(* RolloutFiles, so that what is proved there holds here. The rest is an   *)
(* argument about order: whatever is promised in the channel, pending or   *)
(* written is an item of a line that only advances (LineUp), no content of *)
(* any file is ahead of it (Behind), and what has left it is on disk while *)
(* no file was removed under an appender (OnDisk).                         *)
(***************************************************************************)
EXTENDS RolloutRecorder, RolloutFiles_proofs

Before(S, T) == \A i \in S, j \in T : i < j

\* Commands carry items of this session, an add one item, and every command only
\* items that were recorded before those of the adds behind it: in the channel q, for
\* the pending items p and the items C of the command that is worked on, with the
\* items f .. n - 1 recorded so far.
LineUpOf(q, p, C, f, n) ==
    /\ \A k \in DOMAIN q : q[k].items \subseteq f .. n - 1
    /\ \A k \in DOMAIN q : q[k].op = "add" => \E i \in 1 .. MaxItems : q[k].items = {i}
    /\ \A j, k \in DOMAIN q : j < k /\ q[k].op = "add" => Before(q[j].items, q[k].items)
    /\ C \subseteq f .. n - 1
    /\ \A k \in DOMAIN q : q[k].op = "add" => Before(C, q[k].items)
    /\ \A j \in DOMAIN p : p[j] \in f .. n - 1
    /\ \A j, k \in DOMAIN p : j < k => p[j] < p[k]
    /\ \A j \in DOMAIN p, k \in DOMAIN q : q[k].op = "add" => Before({p[j]}, q[k].items)

LineUp == LineUpOf(queue, rec.pending, rec.cmd.items, first, next)

\* Between sessions nothing is owed; a session starts with no items of its own.
Quiescent ==
    /\ ~Alive => queue = <<>> /\ rec.pending = <<>> /\ rec.cmd = NoCommand
    /\ rec.at = "starting" => first = next /\ ~rec.meta
    /\ sessions = 0 => next = 1 /\ first = 1 /\ rec.at = "off"

\* The owed items are the last ones.
Suffix == \E low \in 1 .. next : Owed = low .. next - 1

\* Everything that is or was in one of the files.
Contents == {plain.data, zst.data} \cup {temp[p] : p \in Procs}

Item(d, k) == k \in DOMAIN d /\ d[k].whole /\ d[k].item \in 1 .. MaxItems

\* The items of d are in order and come before those in S, and before n.
BehindOf(d, S, n) ==
    /\ \A j, k \in DOMAIN d : j < k /\ Item(d, j) /\ Item(d, k) => d[j].item < d[k].item
    /\ \A k \in DOMAIN d : Item(d, k) => d[k].item < n /\ \A o \in S : d[k].item < o

Behind == \A d \in Contents : BehindOf(d, Owed, next)

\* A file loses its name only when it is removed under an appender.
OrphansRaced == \A p \in Openers : handle[p] = "orphan" => raced

\* What a session has accepted and no longer owes, its meta and what was answered
\* for are in the file that readers see.
OnDisk ==
    ~raced => /\ \A i \in acked : Written(i)
              /\ rec.at # "off" /\ ~rec.meta => Written(SessionMeta)
              /\ rec.at # "off" => \A i \in first .. next - 1 : i \in Owed \/ Written(i)

RecInv ==
    /\ FilesInv
    /\ TypeOK /\ LineUp /\ Quiescent /\ Suffix /\ Behind /\ OrphansRaced /\ OnDisk

-----------------------------------------------------------------------------
(* Sequences.                                                              *)

\* The first element and the others.
LEMMA HeadTail ==
    ASSUME NEW S, NEW s \in Seq(S), s # <<>>
    PROVE  /\ Len(s) \in Nat /\ Len(s) > 0 /\ DOMAIN s = 1 .. Len(s)
           /\ Head(s) = s[1] /\ Head(s) \in S
           /\ Tail(s) \in Seq(S) /\ DOMAIN Tail(s) = 1 .. Len(s) - 1
           /\ \A k \in 1 .. Len(s) - 1 : k + 1 \in DOMAIN s /\ Tail(s)[k] = s[k + 1]
<1>1. Len(s) \in Nat /\ Len(s) > 0 /\ DOMAIN s = 1 .. Len(s)
  OBVIOUS
<1>2. Head(s) = s[1]
  OBVIOUS
<1>3. 1 \in DOMAIN s
  BY <1>1
<1>4. s[1] \in S
  BY <1>3
<1>5. Tail(s) \in Seq(S) /\ Len(Tail(s)) = Len(s) - 1
  OBVIOUS
<1>6. \A k \in 1 .. Len(s) - 1 : k + 1 \in DOMAIN s /\ Tail(s)[k] = s[k + 1]
  BY <1>1
<1> QED
  BY <1>1, <1>2, <1>4, <1>5, <1>6

\* One element more.
LEMMA AppendFacts ==
    ASSUME NEW S, NEW s \in Seq(S), NEW x \in S
    PROVE  /\ Append(s, x) \in Seq(S) /\ Len(s) \in Nat
           /\ DOMAIN s = 1 .. Len(s) /\ DOMAIN Append(s, x) = 1 .. Len(s) + 1
           /\ \A k \in 1 .. Len(s) : Append(s, x)[k] = s[k]
           /\ Append(s, x)[Len(s) + 1] = x
           /\ s \o <<x>> = Append(s, x)
<1>1. /\ Append(s, x) \in Seq(S) /\ Len(s) \in Nat
      /\ DOMAIN s = 1 .. Len(s) /\ DOMAIN Append(s, x) = 1 .. Len(s) + 1
  OBVIOUS
<1>2. /\ \A k \in 1 .. Len(s) : Append(s, x)[k] = s[k]
      /\ Append(s, x)[Len(s) + 1] = x
  OBVIOUS
<1>3. s \o <<x>> = Append(s, x)
  OBVIOUS
<1> QED
  BY <1>1, <1>2, <1>3

-----------------------------------------------------------------------------
(* The record of the writer task.                                          *)

\* No recorder, and what its fields are.
LEMMA OffFacts ==
    /\ Off \in Recorders /\ NoCommand \in Commands
    /\ Off.at = "off" /\ ~Off.meta /\ Off.pending = <<>> /\ Off.cmd = NoCommand
    /\ NoCommand.items = {}
  BY DEF Off, NoCommand, Recorders, Commands

\* A session starts without items.
LEMMA StartFacts ==
    ASSUME NEW a \in {"idle", "starting"}, NEW m \in BOOLEAN,
           \/ m = TRUE /\ rec' = [Off EXCEPT !.at = a, !.deferred = TRUE, !.meta = TRUE]
           \/ m = FALSE /\ rec' = [Off EXCEPT !.at = a]
    PROVE  /\ rec' \in Recorders /\ rec'.at = a /\ rec'.meta = m
           /\ rec'.pending = <<>> /\ rec'.cmd = NoCommand
  BY OffFacts DEF Off, Recorders

\* The fields that a step of the task may change.
LEMMA FieldFacts ==
    ASSUME NEW r \in Recorders
    PROVE  /\ r.pending \in Seq(1 .. MaxItems) /\ r.cmd \in Commands
           /\ \A p \in Seq(1 .. MaxItems) :
                 /\ [r EXCEPT !.pending = p] \in Recorders
                 /\ [r EXCEPT !.pending = p].pending = p
                 /\ [r EXCEPT !.pending = p].at = r.at
                 /\ [r EXCEPT !.pending = p].cmd = r.cmd
                 /\ [r EXCEPT !.pending = p].meta = r.meta
           /\ \A c \in Commands :
                 /\ [r EXCEPT !.cmd = c] \in Recorders
                 /\ [r EXCEPT !.cmd = c].pending = r.pending
                 /\ [r EXCEPT !.cmd = c].at = r.at
                 /\ [r EXCEPT !.cmd = c].cmd = c
                 /\ [r EXCEPT !.cmd = c].meta = r.meta
  BY DEF Recorders

\* write_pending_with_recovery keeps what there is to write.
LEMMA BeginFacts ==
    ASSUME NEW r \in Recorders, BeginWrite(r)
    PROVE  /\ rec' \in Recorders /\ rec'.at = "writing"
           /\ rec'.pending = r.pending /\ rec'.cmd = r.cmd /\ rec'.meta = r.meta
           /\ StartOpen(Recorder) \/ UNCHANGED fileVars
<1>1. rec' = [r EXCEPT !.at = "writing", !.attempt = 1]
  BY DEF BeginWrite
<1>2. /\ rec' \in Recorders /\ rec'.at = "writing"
      /\ rec'.pending = r.pending /\ rec'.cmd = r.cmd /\ rec'.meta = r.meta
  BY <1>1 DEF Recorders
<1>3. StartOpen(Recorder) \/ UNCHANGED fileVars
  BY DEF BeginWrite
<1> QED
  BY <1>2, <1>3

\* An answer ends the command, or a shutdown ends the task.
LEMMA AnswerFacts ==
    ASSUME NEW r \in Recorders, NEW ok \in BOOLEAN, NEW lines, Answer(r, ok, lines)
    PROVE  /\ rec' \in Recorders
           /\ \/ rec' = Off /\ r.cmd.op = "shutdown" /\ ok
              \/ /\ rec'.at = "idle" /\ rec'.pending = r.pending /\ rec'.cmd = NoCommand
                 /\ rec'.meta = r.meta /\ ~(r.cmd.op = "shutdown" /\ ok)
           /\ acked' = acked \/ (ok /\ acked' = acked \cup r.cmd.items \cup lines)
<1>1. acked' = acked \/ (ok /\ acked' = acked \cup r.cmd.items \cup lines)
  BY DEF Answer
<1>2. CASE r.cmd.op = "shutdown" /\ ok
  <2>1. rec' = Off
    BY <1>2 DEF Answer
  <2> QED
    BY <1>1, <1>2, <2>1, OffFacts
<1>3. CASE ~(r.cmd.op = "shutdown" /\ ok)
  <2>1. rec' = [r EXCEPT !.at = "idle", !.attempt = 1, !.cmd = NoCommand]
    BY <1>3 DEF Answer
  <2>2. /\ rec' \in Recorders /\ rec'.at = "idle" /\ rec'.pending = r.pending
        /\ rec'.cmd = NoCommand /\ rec'.meta = r.meta
    BY <2>1, OffFacts DEF Recorders
  <2> QED
    BY <1>1, <1>3, <2>2
<1> QED
  BY <1>2, <1>3

\* enter_recovery_mode keeps what there is to write.
LEMMA RecoverFacts ==
    ASSUME rec \in Recorders, rec.at = "writing", Recover
    PROVE  /\ rec' \in Recorders /\ rec'.at \in {"idle", "writing"}
           /\ rec'.pending = rec.pending /\ rec'.meta = rec.meta
           /\ rec'.cmd = rec.cmd \/ rec'.cmd = NoCommand
           /\ acked' = acked
<1>1. CASE rec.attempt = 1
  <2>1. rec' = [rec EXCEPT !.attempt = 2] /\ acked' = acked
    BY <1>1 DEF Recover
  <2>2. /\ rec' \in Recorders /\ rec'.at = "writing" /\ rec'.pending = rec.pending
        /\ rec'.meta = rec.meta /\ rec'.cmd = rec.cmd
    BY <2>1 DEF Recorders
  <2> QED
    BY <2>1, <2>2
<1>2. CASE rec.attempt # 1
  <2>1. Answer(rec, FALSE, {})
    BY <1>2 DEF Recover
  <2> QED
    BY <2>1, AnswerFacts
<1> QED
  BY <1>1, <1>2

\* A line that is being written is a line of a rollout.
LEMMA CurrentLines ==
    ASSUME rec \in Recorders, NEW i \in Current
    PROVE  i \in Items /\ Line(i) \in Pieces /\ Torn(i) \in Pieces
<1>1. i \in Items
  <2>1. MaxItems \in Nat
    BY FilesAssumption
  <2>2. CASE rec.meta
    BY <2>1, <2>2 DEF Current, SessionMeta, Items
  <2>3. CASE ~rec.meta
    <3>1. rec.pending # <<>> /\ i = Head(rec.pending) /\ rec.pending \in Seq(1 .. MaxItems)
      BY <2>3 DEF Current, Recorders
    <3>2. i \in 1 .. MaxItems
      BY <3>1, HeadTail
    <3> QED
      BY <2>1, <3>2 DEF Items
  <2> QED
    BY <2>2, <2>3
<1> QED
  BY <1>1 DEF Line, Torn, Pieces

-----------------------------------------------------------------------------
(* The steps on the files are those of RolloutFiles.                       *)

\* What a step does to the files: nothing, a write of the line that is due, or one of
\* the steps that write no line.
LEMMA FileSteps ==
    ASSUME TypeOK, [Next]_vars
    PROVE  \/ UNCHANGED fileVars
           \/ \E p \in Openers : \/ StartOpen(p) \/ MatStep(p) \/ GiveUp(p)
                                 \/ \E create \in BOOLEAN : Open(p, create)
           \/ \E c \in Compressors : Compress(c)
           \/ GrowsCold
           \/ \E p \in Openers, piece \in Pieces, keep \in BOOLEAN : WriteTo(p, piece, keep)
<1>0. /\ Recorder \in Openers /\ Updater \in Openers
      /\ TRUE \in BOOLEAN /\ FALSE \in BOOLEAN /\ rec \in Recorders
  BY RecorderAssumption DEF TypeOK
<1>1. Line(SessionMeta) \in Pieces /\ Line(Update) \in Pieces
  BY FilesAssumption DEF Line, Pieces, Items, SessionMeta, Update
<1>2. CASE New
  BY <1>0, <1>2 DEF New, Create, Resume, ResumeOpens, ResumeFails
<1>3. CASE Client
  BY <1>3 DEF Client, Record, Barrier
<1>4. CASE TakeItems \/ TakeBarrier
  <2>1. UNCHANGED fileVars \/ StartOpen(Recorder)
    BY <1>4 DEF TakeItems, TakeBarrier, BeginWrite
  <2> QED
    BY <1>0, <2>1
<1>5. CASE WriterOpens \/ WriteDone \/ AttemptFails \/ Reopen
  BY <1>0, <1>5 DEF WriterOpens, WriteDone, AttemptFails, Reopen
<1>6. CASE WriteMeta
  BY <1>0, <1>1, <1>6 DEF WriteMeta
<1>7. CASE WriteItem
  <2>1. Head(rec.pending) \in Current
    BY <1>7 DEF WriteItem, Current
  <2>2. Line(Head(rec.pending)) \in Pieces
    BY <1>0, <2>1, CurrentLines
  <2> QED
    BY <1>0, <1>7, <2>2 DEF WriteItem
<1>8. CASE WriteTears \/ CrashInWrite
  <2>1. PICK i \in Current : WriteTo(Recorder, Torn(i), FALSE)
    BY <1>8 DEF WriteTears, CrashInWrite
  <2>2. Torn(i) \in Pieces
    BY <1>0, CurrentLines
  <2> QED
    BY <1>0, <2>1, <2>2
<1>9. CASE Crash
  BY <1>0, <1>9 DEF Crash
<1>10. CASE MetadataUpdate
  <2>1. Torn(Update) \in Pieces
    BY FilesAssumption DEF Torn, Pieces, Items, Update
  <2> QED
    BY <1>0, <1>1, <1>10, <2>1 DEF MetadataUpdate, StartUpdate, UpdateOpens, WriteUpdate,
       UpdateTears, UpdateFails
<1>11. CASE Storage
  BY <1>11 DEF Storage
<1>12. CASE UNCHANGED vars
  BY <1>12 DEF vars
<1> QED
  BY <1>2, <1>3, <1>4, <1>5, <1>6, <1>7, <1>8, <1>9, <1>10, <1>11, <1>12 DEF Next, Writer

\* Every step is a step of RolloutFiles, or leaves the files alone.
LEMMA FilesRefined == ASSUME TypeOK, [Next]_vars PROVE [FilesNext]_fileVars
  BY FileSteps DEF FilesNext, Appends

-----------------------------------------------------------------------------
(* What a step does to the line-up.                                        *)

\* The items and commands stay where they are, the command may be done with.
Keeps ==
    /\ UNCHANGED <<queue, next, first>>
    /\ rec' \in Recorders
    /\ rec'.pending = rec.pending
    /\ rec'.cmd = rec.cmd \/ rec'.cmd = NoCommand

\* The recorder is gone.
Ends == rec' = Off /\ queue' = <<>> /\ UNCHANGED <<next, first, sessions>>

\* A command leaves the channel.
Takes ==
    /\ UNCHANGED <<next, first, sessions>>
    /\ Alive /\ rec'.at \in {"idle", "writing"} /\ rec' \in Recorders
    /\ queue # <<>> /\ queue' = Tail(queue) /\ rec'.meta = rec.meta
    /\ rec'.cmd = Head(queue) \/ rec'.cmd = NoCommand

\* A failed resume, and the steps of the writer between taking a command and its end.
LEMMA KeepingSteps ==
    ASSUME TypeOK, Quiescent,
           \/ ResumeOpens \/ WriterOpens \/ WriteMeta \/ AttemptFails \/ WriteTears
           \/ WriteDone /\ rec' # Off
           \/ Reopen \/ MetadataUpdate \/ Storage \/ UNCHANGED vars
    PROVE  /\ Keeps /\ sessions' = sessions
           /\ Alive => Alive'
           /\ Alive' => Alive \/ (rec.at = "starting" /\ ResumeOpens)
           /\ rec'.at = "starting" => rec.at = "starting"
           /\ rec'.at = "off" <=> rec.at = "off"
           /\ rec'.meta = rec.meta \/ WriteMeta
<1>0. rec \in Recorders
  BY DEF TypeOK
<1>1. CASE ResumeOpens
  <2>1. rec' = [rec EXCEPT !.at = "idle"] /\ rec.at = "starting"
    BY <1>1 DEF ResumeOpens
  <2>2. /\ rec' \in Recorders /\ rec'.at = "idle" /\ rec'.pending = rec.pending
        /\ rec'.cmd = rec.cmd /\ rec'.meta = rec.meta
    BY <1>0, <2>1 DEF Recorders
  <2> QED
    BY <1>1, <2>1, <2>2 DEF ResumeOpens, Keeps, Alive
<1>2. CASE WriterOpens
  <2>1. rec' = [rec EXCEPT !.deferred = FALSE] /\ rec.at = "writing"
    BY <1>2 DEF WriterOpens
  <2>2. /\ rec' \in Recorders /\ rec'.at = rec.at /\ rec'.pending = rec.pending
        /\ rec'.cmd = rec.cmd /\ rec'.meta = rec.meta
    BY <1>0, <2>1 DEF Recorders
  <2> QED
    BY <1>2, <2>1, <2>2 DEF WriterOpens, Keeps, Alive
<1>3. CASE WriteMeta
  <2>1. rec' = [rec EXCEPT !.meta = FALSE] /\ rec.at = "writing"
    BY <1>3 DEF WriteMeta, Writing
  <2>2. /\ rec' \in Recorders /\ rec'.at = rec.at /\ rec'.pending = rec.pending
        /\ rec'.cmd = rec.cmd
    BY <1>0, <2>1 DEF Recorders
  <2> QED
    BY <1>3, <2>1, <2>2 DEF WriteMeta, Keeps, Alive
<1>4. CASE AttemptFails \/ WriteTears
  <2>1. rec.at = "writing" /\ Recover /\ UNCHANGED <<queue, next, first, sessions>>
    BY <1>4 DEF AttemptFails, WriteTears, Writing
  <2> QED
    BY <1>0, <2>1, RecoverFacts DEF Keeps, Alive
<1>5. CASE WriteDone /\ rec' # Off
  <2>1. Answer(rec, TRUE, {SessionMeta}) /\ rec.at = "writing"
    BY <1>5 DEF WriteDone, Writing
  <2>2. /\ rec' \in Recorders /\ rec'.at = "idle" /\ rec'.pending = rec.pending
        /\ rec'.cmd = NoCommand /\ rec'.meta = rec.meta
    BY <1>0, <1>5, <2>1, AnswerFacts
  <2> QED
    BY <1>5, <2>1, <2>2 DEF WriteDone, Keeps, Alive
<1>6. CASE Reopen \/ MetadataUpdate \/ Storage \/ UNCHANGED vars
  <2>1. UNCHANGED <<rec, queue, next, first, sessions>>
    BY <1>6 DEF Reopen, MetadataUpdate, Storage, vars, recVars, StartUpdate, UpdateOpens,
       WriteUpdate, UpdateTears, UpdateFails
  <2> QED
    BY <1>0, <2>1 DEF Keeps, Alive
<1> QED
  BY <1>1, <1>2, <1>3, <1>4, <1>5, <1>6

\* The steps after which there is no recorder.
LEMMA EndingSteps ==
    ASSUME TypeOK, Quiescent,
           \/ ResumeFails \/ Crash \/ CrashInWrite
           \/ WriteDone /\ rec' = Off
           \/ TakeBarrier /\ rec' = Off
    PROVE  Ends
<1>0. rec \in Recorders
  BY DEF TypeOK
<1>1. CASE ResumeFails
  BY <1>1 DEF ResumeFails, Ends, Quiescent, Alive
<1>2. CASE Crash \/ CrashInWrite
  BY <1>2 DEF Crash, CrashInWrite, Dead, Ends
<1>3. CASE WriteDone /\ rec' = Off
  BY <1>3, OffFacts DEF WriteDone, Ends
<1>4. CASE TakeBarrier /\ rec' = Off
  <2> DEFINE r == [rec EXCEPT !.cmd = Head(queue)]
  <2>1. Received /\ queue \in Seq(Commands)
    BY <1>4 DEF TakeBarrier, TypeOK
  <2>2. r \in Recorders /\ r.cmd = Head(queue)
    BY <1>0, <2>1, HeadTail, FieldFacts DEF Received
  <2>3. ~BeginWrite(r)
    <3> SUFFICES ASSUME BeginWrite(r) PROVE FALSE
      OBVIOUS
    <3>1. rec'.at = "writing"
      BY <2>2, BeginFacts
    <3> QED
      BY <1>4, <3>1, OffFacts
  <2>4. /\ Answer(r, TRUE, {})
        /\ queue' = IF r.cmd.op = "shutdown" THEN <<>> ELSE Tail(queue)
    BY <1>4, <2>3 DEF TakeBarrier
  <2>5. r.cmd.op = "shutdown"
    <3>1. \/ r.cmd.op = "shutdown"
          \/ rec'.at = "idle"
      BY <2>2, <2>4, AnswerFacts
    <3> QED
      BY <1>4, <3>1, OffFacts
  <2> QED
    BY <1>4, <2>4, <2>5 DEF TakeBarrier, Ends
<1> QED
  BY <1>1, <1>2, <1>3, <1>4

\* A barrier leaves the channel, with nothing to do or for its writes.
LEMMA TakeBarrierFacts ==
    ASSUME TypeOK, TakeBarrier, rec' # Off
    PROVE  /\ Takes /\ rec'.pending = rec.pending /\ Head(queue).op \in Barriers
           /\ \/ acked' = acked
              \/ /\ rec.pending = <<>> /\ acked' = acked \cup Head(queue).items
           /\ StartOpen(Recorder) \/ UNCHANGED fileVars
<1> DEFINE r == [rec EXCEPT !.cmd = Head(queue)]
<1>1. Received /\ queue \in Seq(Commands) /\ rec \in Recorders /\ Alive
  BY DEF TakeBarrier, TypeOK, Received, Alive
<1>2. /\ r \in Recorders /\ r.cmd = Head(queue) /\ r.pending = rec.pending
      /\ r.meta = rec.meta
  BY <1>1, HeadTail, FieldFacts DEF Received
<1>3. CASE BeginWrite(r) /\ queue' = Tail(queue) /\ UNCHANGED acked
  <2>1. /\ rec' \in Recorders /\ rec'.at = "writing"
        /\ rec'.pending = r.pending /\ rec'.cmd = r.cmd /\ rec'.meta = r.meta
        /\ StartOpen(Recorder) \/ UNCHANGED fileVars
    BY <1>2, <1>3, BeginFacts
  <2> QED
    BY <1>1, <1>2, <1>3, <2>1 DEF TakeBarrier, Takes, Received
<1>4. CASE /\ rec.pending = <<>>
           /\ Answer(r, TRUE, {})
           /\ queue' = IF r.cmd.op = "shutdown" THEN <<>> ELSE Tail(queue)
           /\ UNCHANGED fileVars
  <2>1. /\ rec' \in Recorders
        /\ rec'.at = "idle" /\ rec'.pending = r.pending /\ rec'.cmd = NoCommand
        /\ rec'.meta = r.meta /\ r.cmd.op # "shutdown"
        /\ acked' = acked \/ acked' = acked \cup r.cmd.items \cup {}
    BY <1>2, <1>4, AnswerFacts
  <2> QED
    BY <1>1, <1>2, <1>4, <2>1 DEF TakeBarrier, Takes, Received
<1>5. \/ BeginWrite(r) /\ queue' = Tail(queue) /\ UNCHANGED acked
      \/ /\ rec.pending = <<>>
         /\ Answer(r, TRUE, {})
         /\ queue' = IF r.cmd.op = "shutdown" THEN <<>> ELSE Tail(queue)
         /\ UNCHANGED fileVars
  BY DEF TakeBarrier
<1> QED
  BY <1>3, <1>4, <1>5

\* An item moves from the channel to the end of what is pending.
LEMMA TakeItemsFacts ==
    ASSUME TypeOK, LineUp, TakeItems
    PROVE  /\ Takes /\ Head(queue).op = "add" /\ acked' = acked
           /\ \E i \in 1 .. MaxItems : /\ Head(queue).items = {i}
                                       /\ rec'.pending = Append(rec.pending, i)
           /\ StartOpen(Recorder) \/ UNCHANGED fileVars
<1> DEFINE i == CHOOSE i \in Head(queue).items : TRUE
           p == Append(rec.pending, i)
           r == [rec EXCEPT !.pending = p, !.cmd = Head(queue)]
<1>1. Received /\ queue \in Seq(Commands) /\ rec \in Recorders /\ Alive
  BY DEF TakeItems, TypeOK, Received, Alive
<1>2. queue # <<>> /\ Head(queue) = queue[1] /\ 1 \in DOMAIN queue /\ Head(queue) \in Commands
  BY <1>1, HeadTail DEF Received
<1>3. Head(queue).op = "add"
  BY DEF TakeItems
<1>4. PICK j \in 1 .. MaxItems : Head(queue).items = {j}
  BY <1>2, <1>3 DEF LineUp, LineUpOf
<1>5. i = j
  BY <1>4
<1>6. p \in Seq(1 .. MaxItems)
  BY <1>1, <1>5, FieldFacts, AppendFacts
<1> HIDE DEF i, p
<1>7. /\ r \in Recorders /\ r.cmd = Head(queue) /\ r.pending = p /\ r.meta = rec.meta
      /\ r.at = "idle"
  BY <1>1, <1>2, <1>6 DEF Recorders, Received
<1>8. \/ rec' = [r EXCEPT !.cmd = NoCommand] /\ UNCHANGED fileVars
      \/ BeginWrite(r)
  BY DEF TakeItems, i, p
<1>9. queue' = Tail(queue) /\ UNCHANGED <<next, first, acked, sessions>>
  BY DEF TakeItems
<1> HIDE DEF r
<1>10. /\ rec' \in Recorders /\ rec'.at \in {"idle", "writing"} /\ rec'.pending = p
       /\ rec'.meta = rec.meta /\ rec'.cmd \in {Head(queue), NoCommand}
       /\ StartOpen(Recorder) \/ UNCHANGED fileVars
  <2>1. CASE rec' = [r EXCEPT !.cmd = NoCommand] /\ UNCHANGED fileVars
    <3>1. /\ rec' \in Recorders /\ rec'.at = r.at /\ rec'.pending = r.pending
          /\ rec'.meta = r.meta /\ rec'.cmd = NoCommand
      BY <1>7, <2>1, FieldFacts, OffFacts
    <3> QED
      BY <1>7, <2>1, <3>1
  <2>2. CASE BeginWrite(r)
    BY <1>7, <2>2, BeginFacts
  <2> QED
    BY <1>8, <2>1, <2>2
<1>11. rec'.pending = Append(rec.pending, j)
  BY <1>5, <1>10 DEF p
<1> QED
  BY <1>1, <1>2, <1>3, <1>4, <1>9, <1>10, <1>11 DEF Takes

\* The first pending item is written and is pending no more.
LEMMA WriteItemFacts ==
    ASSUME TypeOK, WriteItem
    PROVE  /\ rec' \in Recorders /\ rec.at = "writing" /\ rec'.at = "writing"
           /\ rec.pending # <<>> /\ rec'.pending = Tail(rec.pending)
           /\ rec'.cmd = rec.cmd /\ rec'.meta = rec.meta /\ ~rec.meta
           /\ UNCHANGED <<queue, next, first, acked, sessions>>
           /\ WriteTo(Recorder, Line(Head(rec.pending)), TRUE)
<1>1. /\ rec.at = "writing" /\ rec.pending # <<>> /\ ~rec.meta
      /\ rec' = [rec EXCEPT !.pending = Tail(rec.pending)]
      /\ UNCHANGED <<queue, next, first, acked, sessions>>
      /\ WriteTo(Recorder, Line(Head(rec.pending)), TRUE)
  BY DEF WriteItem, Writing
<1>2. rec \in Recorders /\ rec.pending \in Seq(1 .. MaxItems)
  BY FieldFacts DEF TypeOK
<1>3. Tail(rec.pending) \in Seq(1 .. MaxItems)
  BY <1>1, <1>2, HeadTail
<1> QED
  BY <1>1, <1>2, <1>3, FieldFacts

\* A session starts with nothing owed.
LEMMA StartingSteps ==
    ASSUME TypeOK, Quiescent, Create \/ Resume
    PROVE  /\ rec.at = "off" /\ rec'.at \in {"idle", "starting"} /\ rec' \in Recorders
           /\ rec'.pending = <<>> /\ rec'.cmd = NoCommand
           /\ UNCHANGED <<queue, next, acked>>
           /\ queue' = <<>> /\ first' = next /\ sessions' \in 1 .. MaxSessions
           /\ rec'.at = "starting" => ~rec'.meta
           /\ ~rec'.meta => SessionMeta \in History /\ StartOpen(Recorder)
           /\ StartOpen(Recorder) \/ UNCHANGED fileVars
<1>0. sessions \in Nat /\ MaxSessions \in Nat /\ rec.at = "off" /\ queue = <<>>
  BY RecorderAssumption DEF TypeOK, Create, Resume, Quiescent, Alive
<1>1. CASE Create
  <2>1. /\ rec' \in Recorders /\ rec'.at = "idle" /\ rec'.meta = TRUE
        /\ rec'.pending = <<>> /\ rec'.cmd = NoCommand
    BY <1>1, StartFacts DEF Create
  <2>2. first' = next /\ sessions' \in 1 .. MaxSessions
    BY <1>0, <1>1 DEF Create, Quiescent
  <2> QED
    BY <1>0, <1>1, <2>1, <2>2 DEF Create
<1>2. CASE Resume
  <2>1. /\ rec' \in Recorders /\ rec'.at = "starting" /\ rec'.meta = FALSE
        /\ rec'.pending = <<>> /\ rec'.cmd = NoCommand
    BY <1>2, StartFacts DEF Resume
  <2>2. first' = next /\ sessions' \in 1 .. MaxSessions
    BY <1>0, <1>2 DEF Resume
  <2> QED
    BY <1>0, <1>2, <2>1, <2>2 DEF Resume
<1> QED
  BY <1>1, <1>2

\* A client sends a command.
LEMMA SendingSteps ==
    ASSUME TypeOK, Client
    PROVE  /\ Alive /\ UNCHANGED <<fileVars, rec, first, acked, sessions, faults>>
           /\ \E c \in Commands :
                 /\ queue' = Append(queue, c)
                 /\ \/ c.op = "add" /\ c.items = {next} /\ next' = next + 1
                       /\ next \in 1 .. MaxItems
                    \/ c.op \in Barriers /\ c.items = first .. next - 1 /\ next' = next
<1>0. next \in 1 .. MaxItems + 1 /\ first \in 1 .. next /\ MaxItems \in Nat
  BY FilesAssumption DEF TypeOK
<1>1. CASE Record
  <2> DEFINE c == [op |-> "add", items |-> {next}]
  <2>1. /\ queue' = Append(queue, c) /\ next' = next + 1 /\ Alive /\ next <= MaxItems
        /\ UNCHANGED <<fileVars, rec, first, acked, sessions, faults>>
    BY <1>1 DEF Record, Send
  <2>2. next \in 1 .. MaxItems
    BY <1>0, <2>1
  <2>3. c \in Commands /\ c.op = "add" /\ c.items = {next}
    BY <2>2 DEF Commands
  <2> QED
    BY <2>1, <2>2, <2>3
<1>2. CASE \E op \in Barriers : Barrier(op)
  <2>1. PICK op \in Barriers : Barrier(op)
    BY <1>2
  <2> DEFINE c == [op |-> op, items |-> first .. next - 1]
  <2>2. /\ queue' = Append(queue, c) /\ next' = next /\ Alive
        /\ UNCHANGED <<fileVars, rec, first, acked, sessions, faults>>
    BY <2>1 DEF Barrier, Send
  <2>3. first .. next - 1 \subseteq 1 .. MaxItems
    BY <1>0
  <2>4. c \in Commands /\ c.op \in Barriers /\ c.items = first .. next - 1
    BY <2>3 DEF Commands
  <2> QED
    BY <2>2, <2>4
<1> QED
  BY <1>1, <1>2 DEF Client

\* Every step is of one of these kinds.
LEMMA StepKinds ==
    ASSUME TypeOK, Quiescent, [Next]_vars
    PROVE  \/ Create \/ Resume \/ Client \/ TakeItems \/ WriteItem
           \/ TakeBarrier /\ rec' # Off
           \/ Ends
           \/ ResumeOpens \/ WriterOpens \/ WriteMeta \/ AttemptFails \/ WriteTears
           \/ WriteDone /\ rec' # Off
           \/ Reopen \/ MetadataUpdate \/ Storage \/ UNCHANGED vars
  BY EndingSteps DEF Next, New, Writer

\* When a promise is made: by a barrier that is done with, or by a metadata update.
LEMMA AckedSteps ==
    ASSUME TypeOK, Quiescent, LineUp, [Next]_vars
    PROVE  \/ acked' = acked
           \/ /\ TakeBarrier /\ acked' = acked \cup Head(queue).items
              /\ rec.pending = <<>> /\ rec.at = "idle" /\ queue # <<>>
              /\ UNCHANGED fileVars
           \/ /\ WriteDone /\ acked' = acked \cup rec.cmd.items \cup {SessionMeta}
              /\ rec.pending = <<>> /\ rec.at = "writing" /\ ~rec.meta
           \/ WriteUpdate /\ acked' = acked \cup {Update}
<1> DEFINE Goal ==
             \/ acked' = acked
             \/ /\ TakeBarrier /\ acked' = acked \cup Head(queue).items
                /\ rec.pending = <<>> /\ rec.at = "idle" /\ queue # <<>>
                /\ UNCHANGED fileVars
             \/ /\ WriteDone /\ acked' = acked \cup rec.cmd.items \cup {SessionMeta}
                /\ rec.pending = <<>> /\ rec.at = "writing" /\ ~rec.meta
             \/ WriteUpdate /\ acked' = acked \cup {Update}
<1>0. rec \in Recorders /\ queue \in Seq(Commands)
  BY DEF TypeOK
<1>1. ASSUME TakeBarrier PROVE Goal
  <2> DEFINE r == [rec EXCEPT !.cmd = Head(queue)]
  <2>1. rec.at = "idle" /\ queue # <<>>
    BY <1>1 DEF TakeBarrier, Received
  <2>2. r \in Recorders /\ r.cmd = Head(queue)
    BY <1>0, <2>1, HeadTail, FieldFacts
  <2>3. \/ acked' = acked
        \/ rec.pending = <<>> /\ Answer(r, TRUE, {}) /\ UNCHANGED fileVars
    BY <1>1 DEF TakeBarrier
  <2>4. CASE rec.pending = <<>> /\ Answer(r, TRUE, {}) /\ UNCHANGED fileVars
    <3>1. acked' = acked \/ acked' = acked \cup r.cmd.items \cup {}
      BY <2>2, <2>4, AnswerFacts
    <3> QED
      BY <1>1, <2>1, <2>2, <2>4, <3>1
  <2> QED
    BY <2>3, <2>4
<1>2. ASSUME WriteDone PROVE Goal
  <2>1. Answer(rec, TRUE, {SessionMeta}) /\ rec.pending = <<>> /\ rec.at = "writing" /\ ~rec.meta
    BY <1>2 DEF WriteDone, Writing
  <2>2. acked' = acked \/ acked' = acked \cup rec.cmd.items \cup {SessionMeta}
    BY <1>0, <2>1, AnswerFacts
  <2> QED
    BY <1>2, <2>1, <2>2
<1>3. ASSUME AttemptFails \/ WriteTears PROVE Goal
  <2>1. rec.at = "writing" /\ Recover
    BY <1>3 DEF AttemptFails, WriteTears, Writing
  <2> QED
    BY <1>0, <2>1, RecoverFacts
<1>4. ASSUME TakeItems PROVE Goal
  BY <1>4, TakeItemsFacts
<1>5. ASSUME MetadataUpdate PROVE Goal
  BY <1>5 DEF MetadataUpdate, StartUpdate, UpdateOpens, WriteUpdate, UpdateTears, UpdateFails,
     recVars
<1>6. ASSUME New \/ Client \/ WriterOpens \/ WriteMeta \/ WriteItem \/ Reopen \/ Crash
             \/ CrashInWrite \/ Storage \/ UNCHANGED vars
      PROVE  acked' = acked
  BY <1>6 DEF New, Create, Resume, ResumeOpens, ResumeFails, Client, Record, Barrier,
     WriterOpens, WriteMeta, WriteItem, Reopen, Crash, CrashInWrite, Dead, Storage, vars, recVars
<1> QED
  BY <1>1, <1>2, <1>3, <1>4, <1>5, <1>6 DEF Next, Writer

\* An I/O error comes out of the budget.
LEMMA FaultsStep ==
    ASSUME TypeOK, [Next]_vars
    PROVE  faults' \in 0 .. MaxFaults /\ (faults' = 0 => faults = 0)
<1>0. faults \in 0 .. MaxFaults /\ MaxFaults \in Nat
  BY RecorderAssumption DEF TypeOK
<1>1. faults' = faults \/ (faults < MaxFaults /\ faults' = faults + 1)
  <2>1. ASSUME NEW p, NEW create, Fault(p, create)
        PROVE  faults' = faults \/ (faults < MaxFaults /\ faults' = faults + 1)
    BY <2>1 DEF Fault
  <2>2. CASE ResumeFails \/ AttemptFails \/ UpdateFails
    BY <2>1, <2>2 DEF ResumeFails, AttemptFails, UpdateFails
  <2>3. CASE WriteTears \/ CrashInWrite \/ UpdateTears
    BY <2>3 DEF WriteTears, CrashInWrite, UpdateTears
  <2>4. CASE \/ Create \/ Resume \/ ResumeOpens \/ Client \/ TakeItems \/ TakeBarrier
             \/ WriterOpens \/ WriteMeta \/ WriteItem \/ WriteDone \/ Reopen \/ Crash
             \/ StartUpdate \/ UpdateOpens \/ WriteUpdate \/ Storage \/ UNCHANGED vars
    BY <2>4 DEF Create, Resume, ResumeOpens, Client, Record, Barrier, TakeItems, TakeBarrier,
       WriterOpens, WriteMeta, WriteItem, WriteDone, Reopen, Crash, StartUpdate, UpdateOpens,
       WriteUpdate, Storage, vars, recVars
  <2> QED
    BY <2>2, <2>3, <2>4 DEF Next, New, Writer, MetadataUpdate
<1> QED
  BY <1>0, <1>1

\* Every step preserves the types.
LEMMA TypeStep == ASSUME TypeOK, Quiescent, LineUp, [Next]_vars PROVE TypeOK'
<1>0. /\ rec \in Recorders /\ queue \in Seq(Commands)
      /\ next \in 1 .. MaxItems + 1 /\ first \in 1 .. next /\ MaxItems \in Nat
      /\ sessions \in 0 .. MaxSessions /\ MaxSessions \in Nat
  BY FilesAssumption, RecorderAssumption DEF TypeOK
<1>1. FilesTypeOK'
  BY FilesRefined, FilesTypeStep DEF TypeOK
<1>2. faults' \in 0 .. MaxFaults
  BY FaultsStep
<1>3. acked' \subseteq Items
  <2>1. SessionMeta \in Items /\ Update \in Items /\ 1 .. MaxItems \subseteq Items
    BY <1>0 DEF SessionMeta, Update, Items
  <2>2. \A c \in Commands : c.items \subseteq Items
    BY <2>1 DEF Commands
  <2>3. rec.cmd \in Commands /\ (queue # <<>> => Head(queue) \in Commands)
    BY <1>0, FieldFacts, HeadTail
  <2>4. acked \subseteq Items
    BY DEF TypeOK
  <2> QED
    BY <2>1, <2>2, <2>3, <2>4, AckedSteps
<1> DEFINE Rest == /\ rec' \in Recorders /\ queue' \in Seq(Commands)
                   /\ next' \in 1 .. MaxItems + 1 /\ first' \in 1 .. next'
                   /\ sessions' \in 0 .. MaxSessions
<1>4. ASSUME Create \/ Resume PROVE Rest
  <2>1. /\ rec' \in Recorders /\ queue' = queue /\ next' = next /\ first' = next
        /\ sessions' \in 1 .. MaxSessions
    BY <1>4, StartingSteps
  <2> QED
    BY <1>0, <2>1
<1>5. ASSUME Client PROVE Rest
  <2>1. PICK c \in Commands :
                 /\ queue' = Append(queue, c)
                 /\ next' = next \/ (next' = next + 1 /\ next \in 1 .. MaxItems)
    BY <1>5, SendingSteps
  <2>2. rec' = rec /\ first' = first /\ sessions' = sessions
    BY <1>5, SendingSteps
  <2>3. queue' \in Seq(Commands)
    BY <1>0, <2>1, AppendFacts
  <2> QED
    BY <1>0, <2>1, <2>2, <2>3
<1>6. ASSUME TakeItems \/ (TakeBarrier /\ rec' # Off) PROVE Rest
  <2>1. Takes
    BY <1>6, TakeItemsFacts, TakeBarrierFacts
  <2>2. queue' \in Seq(Commands)
    BY <1>0, <2>1, HeadTail DEF Takes
  <2> QED
    BY <1>0, <2>1, <2>2 DEF Takes
<1>7. ASSUME WriteItem PROVE Rest
  BY <1>0, <1>7, WriteItemFacts
<1>8. ASSUME Ends PROVE Rest
  BY <1>0, <1>8, OffFacts DEF Ends
<1>9. ASSUME \/ ResumeOpens \/ WriterOpens \/ WriteMeta \/ AttemptFails \/ WriteTears
             \/ WriteDone /\ rec' # Off
             \/ Reopen \/ MetadataUpdate \/ Storage \/ UNCHANGED vars
      PROVE Rest
  BY <1>0, <1>9, KeepingSteps DEF Keeps
<1>10. Rest
  BY <1>4, <1>5, <1>6, <1>7, <1>8, <1>9, StepKinds
<1> QED
  BY <1>1, <1>2, <1>3, <1>10 DEF TypeOK

-----------------------------------------------------------------------------
(* The line-up.                                                            *)

\* An item is owed.
IsOwed(o, q, p) == \/ \E j \in DOMAIN p : o = p[j]
                   \/ \E k \in DOMAIN q : q[k].op = "add" /\ o \in q[k].items

\* That is what Owed collects, before and after a step.
LEMMA OwedIs ==
    /\ \A o : o \in Owed <=> IsOwed(o, queue, rec.pending)
    /\ \A o : o \in Owed' <=> IsOwed(o, queue', rec'.pending)
  BY DEF Owed, IsOwed, Adds, Range

\* Nothing is lined up.
LEMMA EmptyLine ==
    ASSUME NEW f, NEW n
    PROVE  LineUpOf(<<>>, <<>>, {}, f, n) /\ \A o : ~IsOwed(o, <<>>, <<>>)
<1> DEFINE e == <<>>
<1>1. DOMAIN e = {}
  OBVIOUS
<1> HIDE DEF e
<1>2. LineUpOf(e, e, {}, f, n) /\ \A o : ~IsOwed(o, e, e)
  BY <1>1 DEF LineUpOf, IsOwed, Before
<1> QED
  BY <1>2 DEF e

\* The command that was worked on is done.
LEMMA DoneLine ==
    ASSUME NEW q, NEW p, NEW C, NEW f, NEW n, LineUpOf(q, p, C, f, n)
    PROVE  LineUpOf(q, p, {}, f, n)
  BY DEF LineUpOf, Before

\* One more item.
LEMMA RecordLine ==
    ASSUME NEW q \in Seq(Commands), NEW p \in Seq(1 .. MaxItems), NEW C,
           NEW n \in 1 .. MaxItems, NEW f \in 1 .. n, NEW m \in Nat, m = n + 1, MaxItems \in Nat,
           NEW c \in Commands,
           LineUpOf(q, p, C, f, n), c.op = "add", c.items = {n}
    PROVE  /\ LineUpOf(Append(q, c), p, C, f, m)
           /\ \A o : IsOwed(o, Append(q, c), p) <=> IsOwed(o, q, p) \/ o = n
<1> DEFINE r == Append(q, c)
<1>1. /\ Len(q) \in Nat /\ DOMAIN q = 1 .. Len(q) /\ DOMAIN r = 1 .. Len(q) + 1
      /\ \A k \in DOMAIN q : r[k] = q[k]
      /\ r[Len(q) + 1] = c
  BY AppendFacts
<1> HIDE DEF r
<1>2. \A k \in DOMAIN r : k \in DOMAIN q \/ (k = Len(q) + 1 /\ r[k] = c)
  BY <1>1
<1>3. f .. n - 1 \subseteq f .. m - 1 /\ n \in f .. m - 1 /\ \A i \in f .. n - 1 : i < n
  OBVIOUS
<1>4. LineUpOf(r, p, C, f, m)
  <2>1. \A k \in DOMAIN r : r[k].items \subseteq f .. m - 1
    BY <1>1, <1>2, <1>3 DEF LineUpOf
  <2>2. \A k \in DOMAIN r : r[k].op = "add" => \E i \in 1 .. MaxItems : r[k].items = {i}
    BY <1>1, <1>2 DEF LineUpOf
  <2>3. \A j, k \in DOMAIN r : j < k /\ r[k].op = "add" => Before(r[j].items, r[k].items)
    <3> SUFFICES ASSUME NEW j \in DOMAIN r, NEW k \in DOMAIN r, j < k, r[k].op = "add"
                 PROVE  Before(r[j].items, r[k].items)
      OBVIOUS
    <3>1. j \in DOMAIN q /\ r[j] = q[j]
      BY <1>1, <1>2
    <3>2. CASE k \in DOMAIN q
      BY <1>1, <3>1, <3>2 DEF LineUpOf
    <3>3. CASE r[k] = c
      BY <1>3, <3>1, <3>3 DEF LineUpOf, Before
    <3> QED
      BY <1>2, <3>2, <3>3
  <2>4. C \subseteq f .. m - 1
    BY <1>3 DEF LineUpOf
  <2>5. \A k \in DOMAIN r : r[k].op = "add" => Before(C, r[k].items)
    BY <1>1, <1>2, <1>3 DEF LineUpOf, Before
  <2>6. \A j \in DOMAIN p : p[j] \in f .. m - 1
    BY <1>3 DEF LineUpOf
  <2>7. \A j, k \in DOMAIN p : j < k => p[j] < p[k]
    BY DEF LineUpOf
  <2>8. \A j \in DOMAIN p, k \in DOMAIN r : r[k].op = "add" => Before({p[j]}, r[k].items)
    <3>1. \A j \in DOMAIN p : Before({p[j]}, c.items)
      BY <1>3 DEF LineUpOf, Before
    <3> QED
      BY <1>1, <1>2, <3>1 DEF LineUpOf
  <2> QED
    BY <2>1, <2>2, <2>3, <2>4, <2>5, <2>6, <2>7, <2>8, Zenon DEF LineUpOf
<1>5. \A o : IsOwed(o, r, p) <=> IsOwed(o, q, p) \/ o = n
  <2>1. \A o : IsOwed(o, r, p) => IsOwed(o, q, p) \/ o = n
    BY <1>1, <1>2 DEF IsOwed
  <2>2. Len(q) + 1 \in DOMAIN r
    BY <1>1
  <2>3. IsOwed(n, r, p)
    BY <1>1, <2>2 DEF IsOwed
  <2>4. DOMAIN q \subseteq DOMAIN r
    BY <1>1
  <2>5. \A o : IsOwed(o, q, p) => IsOwed(o, r, p)
    BY <1>1, <2>4 DEF IsOwed
  <2> QED
    BY <2>1, <2>3, <2>5
<1> QED
  BY <1>4, <1>5 DEF r

\* A barrier behind all that was recorded.
LEMMA BarrierLine ==
    ASSUME NEW q \in Seq(Commands), NEW p, NEW C, NEW f, NEW n, NEW c \in Commands,
           LineUpOf(q, p, C, f, n), c.op \in Barriers, c.items = f .. n - 1
    PROVE  /\ LineUpOf(Append(q, c), p, C, f, n)
           /\ \A o : IsOwed(o, Append(q, c), p) <=> IsOwed(o, q, p)
<1> DEFINE r == Append(q, c)
<1>1. /\ Len(q) \in Nat /\ DOMAIN q = 1 .. Len(q) /\ DOMAIN r = 1 .. Len(q) + 1
      /\ \A k \in DOMAIN q : r[k] = q[k]
      /\ r[Len(q) + 1] = c /\ c.op # "add"
  BY AppendFacts DEF Barriers
<1> HIDE DEF r
<1>2. \A k \in DOMAIN r : k \in DOMAIN q \/ (k = Len(q) + 1 /\ r[k] = c)
  BY <1>1
<1>3. LineUpOf(r, p, C, f, n)
  <2>1. \A k \in DOMAIN r : r[k].items \subseteq f .. n - 1
    BY <1>1, <1>2 DEF LineUpOf
  <2>2. \A k \in DOMAIN r : r[k].op = "add" => k \in DOMAIN q /\ r[k] = q[k]
    BY <1>1, <1>2
  <2>3. \A j, k \in DOMAIN r : j < k /\ k \in DOMAIN q => j \in DOMAIN q /\ r[j] = q[j]
    BY <1>1
  <2> QED
    BY <2>1, <2>2, <2>3 DEF LineUpOf
<1>4. \A o : IsOwed(o, r, p) <=> IsOwed(o, q, p)
  BY <1>1, <1>2 DEF IsOwed
<1> QED
  BY <1>3, <1>4 DEF r

\* The next command is taken.
LEMMA TakeLine ==
    ASSUME NEW q \in Seq(Commands), q # <<>>, NEW p, NEW C, NEW f, NEW n,
           LineUpOf(q, p, C, f, n)
    PROVE  LineUpOf(Tail(q), p, Head(q).items, f, n)
<1> DEFINE r == Tail(q)
<1>1. /\ DOMAIN r = 1 .. Len(q) - 1 /\ Len(q) \in Nat /\ DOMAIN q = 1 .. Len(q)
      /\ \A k \in DOMAIN r : k + 1 \in DOMAIN q /\ r[k] = q[k + 1]
      /\ Head(q) = q[1] /\ 1 \in DOMAIN q
  BY HeadTail
<1> HIDE DEF r
<1>2. \A k \in DOMAIN r : 1 < k + 1 /\ k \in Nat
  BY <1>1
<1>3. \A j, k \in DOMAIN r : j < k => j + 1 < k + 1
  BY <1>1
<1>4. LineUpOf(r, p, q[1].items, f, n)
  <2>1. \A k \in DOMAIN r : r[k].items \subseteq f .. n - 1
    BY <1>1 DEF LineUpOf
  <2>2. \A k \in DOMAIN r : r[k].op = "add" => \E i \in 1 .. MaxItems : r[k].items = {i}
    BY <1>1 DEF LineUpOf
  <2>3. \A j, k \in DOMAIN r : j < k /\ r[k].op = "add" => Before(r[j].items, r[k].items)
    <3> SUFFICES ASSUME NEW j \in DOMAIN r, NEW k \in DOMAIN r, j < k, r[k].op = "add"
                 PROVE  Before(r[j].items, r[k].items)
      OBVIOUS
    <3>1. j + 1 \in DOMAIN q /\ k + 1 \in DOMAIN q /\ j + 1 < k + 1
      BY <1>1, <1>3
    <3>2. r[j] = q[j + 1] /\ r[k] = q[k + 1]
      BY <1>1
    <3> QED
      BY <3>1, <3>2 DEF LineUpOf
  <2>4. q[1].items \subseteq f .. n - 1
    BY <1>1 DEF LineUpOf
  <2>5. \A k \in DOMAIN r : r[k].op = "add" => Before(q[1].items, r[k].items)
    BY <1>1, <1>2 DEF LineUpOf
  <2>6. \A j \in DOMAIN p, k \in DOMAIN r : r[k].op = "add" => Before({p[j]}, r[k].items)
    BY <1>1 DEF LineUpOf
  <2> QED
    BY <2>1, <2>2, <2>3, <2>4, <2>5, <2>6 DEF LineUpOf
<1> QED
  BY <1>1, <1>4 DEF r

\* A barrier that is taken changes nothing of what is owed.
LEMMA TakeBarrierOwed ==
    ASSUME NEW q \in Seq(Commands), q # <<>>, NEW p, Head(q).op # "add"
    PROVE  \A o : IsOwed(o, Tail(q), p) <=> IsOwed(o, q, p)
<1> DEFINE r == Tail(q)
<1>1. /\ DOMAIN r = 1 .. Len(q) - 1 /\ Len(q) \in Nat /\ DOMAIN q = 1 .. Len(q)
      /\ \A k \in DOMAIN r : k + 1 \in DOMAIN q /\ r[k] = q[k + 1]
      /\ Head(q) = q[1] /\ 1 \in DOMAIN q
  BY HeadTail
<1> HIDE DEF r
<1>2. \A k \in DOMAIN q : k = 1 \/ (k - 1 \in DOMAIN r /\ r[k - 1] = q[k])
  BY <1>1
<1>3. \A o : IsOwed(o, r, p) <=> IsOwed(o, q, p)
  BY <1>1, <1>2 DEF IsOwed
<1> QED
  BY <1>3 DEF r

\* An item that is taken is pending behind the others.
LEMMA TakeItemLine ==
    ASSUME NEW q \in Seq(Commands), q # <<>>, NEW p \in Seq(1 .. MaxItems), NEW f, NEW n,
           NEW i \in 1 .. MaxItems, NEW C, LineUpOf(q, p, C, f, n),
           Head(q).op = "add", Head(q).items = {i}
    PROVE  /\ LineUpOf(Tail(q), Append(p, i), {i}, f, n)
           /\ \A o : IsOwed(o, Tail(q), Append(p, i)) <=> IsOwed(o, q, p)
<1> DEFINE r == Tail(q)
           s == Append(p, i)
<1>1. /\ DOMAIN r = 1 .. Len(q) - 1 /\ Len(q) \in Nat /\ DOMAIN q = 1 .. Len(q)
      /\ \A k \in DOMAIN r : k + 1 \in DOMAIN q /\ r[k] = q[k + 1]
      /\ Head(q) = q[1] /\ 1 \in DOMAIN q
  BY HeadTail
<1>2. /\ Len(p) \in Nat /\ DOMAIN p = 1 .. Len(p) /\ DOMAIN s = 1 .. Len(p) + 1
      /\ \A k \in DOMAIN p : s[k] = p[k]
      /\ s[Len(p) + 1] = i
  BY AppendFacts
<1>3. LineUpOf(r, p, {i}, f, n)
  BY TakeLine
<1> HIDE DEF r, s
<1>4. \A j \in DOMAIN s : (j \in DOMAIN p /\ s[j] = p[j]) \/ (j = Len(p) + 1 /\ s[j] = i)
  BY <1>2
<1>5. \A j \in DOMAIN p : p[j] < i
  BY <1>1 DEF LineUpOf, Before
<1>6. i \in f .. n - 1
  BY <1>1 DEF LineUpOf
<1>7. LineUpOf(r, s, {i}, f, n)
  <2>1. \A j \in DOMAIN s : s[j] \in f .. n - 1
    BY <1>3, <1>4, <1>6 DEF LineUpOf
  <2>2. \A j, k \in DOMAIN s : j < k => s[j] < s[k]
    BY <1>2, <1>3, <1>4, <1>5 DEF LineUpOf
  <2>3. \A j \in DOMAIN s, k \in DOMAIN r : r[k].op = "add" => Before({s[j]}, r[k].items)
    BY <1>3, <1>4 DEF LineUpOf
  <2> QED
    BY <1>3, <2>1, <2>2, <2>3 DEF LineUpOf
<1>8. \A k \in DOMAIN q : k = 1 \/ (k - 1 \in DOMAIN r /\ r[k - 1] = q[k])
  BY <1>1
<1>9. \A o : IsOwed(o, r, s) <=> IsOwed(o, q, p)
  <2>1. \A o : IsOwed(o, r, s) => IsOwed(o, q, p)
    BY <1>1, <1>4 DEF IsOwed
  <2>2. \A o : IsOwed(o, q, p) => IsOwed(o, r, s)
    <3> SUFFICES ASSUME NEW o, IsOwed(o, q, p) PROVE IsOwed(o, r, s)
      OBVIOUS
    <3>1. CASE \E j \in DOMAIN p : o = p[j]
      <4>1. DOMAIN p \subseteq DOMAIN s
        BY <1>2
      <4> QED
        BY <1>2, <3>1, <4>1 DEF IsOwed
    <3>2. CASE o = i
      <4>1. Len(p) + 1 \in DOMAIN s
        BY <1>2
      <4> QED
        BY <1>2, <3>2, <4>1 DEF IsOwed
    <3>3. CASE \E k \in DOMAIN r : r[k].op = "add" /\ o \in r[k].items
      BY <3>3 DEF IsOwed
    <3> QED
      BY <1>1, <1>8, <3>1, <3>2, <3>3 DEF IsOwed
  <2> QED
    BY <2>1, <2>2
<1> QED
  BY <1>7, <1>9 DEF r, s

\* The first pending item is the first that is owed.
LEMMA WriteLine ==
    ASSUME NEW q \in Seq(Commands), NEW p \in Seq(1 .. MaxItems), p # <<>>,
           NEW f, NEW n, NEW C, LineUpOf(q, p, C, f, n)
    PROVE  /\ LineUpOf(q, Tail(p), C, f, n)
           /\ IsOwed(Head(p), q, p) /\ Head(p) \in 1 .. MaxItems
           /\ \A o : IsOwed(o, q, Tail(p)) => IsOwed(o, q, p) /\ Head(p) < o
           /\ \A o : IsOwed(o, q, p) => IsOwed(o, q, Tail(p)) \/ o = Head(p)
<1> DEFINE s == Tail(p)
<1>1. /\ DOMAIN s = 1 .. Len(p) - 1 /\ Len(p) \in Nat /\ DOMAIN p = 1 .. Len(p)
      /\ \A k \in DOMAIN s : k + 1 \in DOMAIN p /\ s[k] = p[k + 1]
      /\ Head(p) = p[1] /\ Len(p) > 0 /\ Head(p) \in 1 .. MaxItems
  BY HeadTail
<1>0. 1 \in DOMAIN p
  BY <1>1
<1> HIDE DEF s
<1>2. \A k \in DOMAIN s : 1 < k + 1 /\ k \in Nat
  BY <1>1
<1>3. \A j, k \in DOMAIN s : j < k => j + 1 < k + 1
  BY <1>1
<1>4. LineUpOf(q, s, C, f, n)
  BY <1>1, <1>3 DEF LineUpOf
<1>5. \A k \in DOMAIN p : k = 1 \/ (k - 1 \in DOMAIN s /\ s[k - 1] = p[k])
  BY <1>1
<1>6. IsOwed(p[1], q, p)
  BY <1>0 DEF IsOwed
<1>7. \A o : IsOwed(o, q, s) => IsOwed(o, q, p) /\ p[1] < o
  BY <1>0, <1>1, <1>2 DEF IsOwed, LineUpOf, Before
<1>8. \A o : IsOwed(o, q, p) => IsOwed(o, q, s) \/ o = p[1]
  BY <1>5 DEF IsOwed
<1> QED
  BY <1>1, <1>4, <1>6, <1>7, <1>8 DEF s

\* A recorder that starts or ends owes nothing.
LEMMA QuiescentStep == ASSUME TypeOK, Quiescent, LineUp, [Next]_vars PROVE Quiescent'
<1>1. CASE Create \/ Resume
  BY <1>1, StartingSteps DEF Quiescent, Alive
<1>2. CASE Client
  <2>1. Alive /\ UNCHANGED <<rec, sessions>>
    BY <1>2, SendingSteps
  <2> QED
    BY <2>1 DEF Quiescent, Alive
<1>3. CASE TakeItems \/ (TakeBarrier /\ rec' # Off)
  <2>1. Takes
    BY <1>3, TakeItemsFacts, TakeBarrierFacts
  <2> QED
    BY <2>1 DEF Takes, Quiescent, Alive
<1>4. CASE WriteItem
  BY <1>4, WriteItemFacts DEF Quiescent, Alive
<1>5. CASE Ends
  BY <1>5, OffFacts DEF Ends, Quiescent, Alive
<1>6. CASE \/ ResumeOpens \/ WriterOpens \/ WriteMeta \/ AttemptFails \/ WriteTears
           \/ WriteDone /\ rec' # Off
           \/ Reopen \/ MetadataUpdate \/ Storage \/ UNCHANGED vars
  <2>1. /\ Keeps /\ sessions' = sessions
        /\ Alive => Alive'
        /\ rec'.at = "starting" => rec.at = "starting"
        /\ rec'.at = "off" <=> rec.at = "off"
        /\ rec'.meta = rec.meta \/ WriteMeta
    BY <1>6, KeepingSteps
  <2>2. rec.at = "starting" => ~WriteMeta
    BY DEF WriteMeta, Writing
  <2> QED
    BY <2>1, <2>2 DEF Keeps, Quiescent
<1> QED
  BY <1>1, <1>2, <1>3, <1>4, <1>5, <1>6, StepKinds

\* The item that is written was the first one owed, and the others still are.
LEMMA WriteItemOwed ==
    ASSUME TypeOK, LineUp, WriteItem
    PROVE  /\ LineUp' /\ Head(rec.pending) \in Owed /\ Head(rec.pending) \in 1 .. MaxItems
           /\ Owed' = Owed \ {Head(rec.pending)}
           /\ \A o \in Owed' : Head(rec.pending) < o
<1>0. /\ rec.pending \in Seq(1 .. MaxItems) /\ queue \in Seq(Commands)
      /\ LineUpOf(queue, rec.pending, rec.cmd.items, first, next)
  BY FieldFacts DEF TypeOK, LineUp
<1>1. /\ rec.pending # <<>> /\ rec'.pending = Tail(rec.pending) /\ rec'.cmd = rec.cmd
      /\ UNCHANGED <<queue, next, first>>
  BY WriteItemFacts
<1>2. /\ LineUpOf(queue, rec'.pending, rec.cmd.items, first, next)
      /\ IsOwed(Head(rec.pending), queue, rec.pending) /\ Head(rec.pending) \in 1 .. MaxItems
      /\ \A o : IsOwed(o, queue, rec'.pending) =>
                   IsOwed(o, queue, rec.pending) /\ Head(rec.pending) < o
      /\ \A o : IsOwed(o, queue, rec.pending) =>
                   IsOwed(o, queue, rec'.pending) \/ o = Head(rec.pending)
  BY <1>0, <1>1, WriteLine
<1>3. \A o \in Owed' : Head(rec.pending) < o
  BY <1>1, <1>2, OwedIs
<1>4. Head(rec.pending) \in Owed
  BY <1>2, OwedIs
<1>5. Head(rec.pending) \notin Owed'
  BY <1>0, <1>2, <1>3
<1>6. Owed' = Owed \ {Head(rec.pending)}
  BY <1>1, <1>2, <1>5, OwedIs
<1> QED
  BY <1>1, <1>2, <1>3, <1>4, <1>6 DEF LineUp

\* What happens to the line-up and to what is owed.
LEMMA LineUpStep ==
    ASSUME TypeOK, Quiescent, LineUp, [Next]_vars
    PROVE  /\ LineUp'
           /\ \/ Owed' = Owed /\ next' = next
              \/ Owed' = {} /\ next' = next /\ (Ends \/ Create \/ Resume)
              \/ Owed' = Owed \cup {next} /\ next' = next + 1 /\ Client
              \/ /\ WriteItem /\ next' = next /\ Head(rec.pending) \in Owed
                 /\ Owed' = Owed \ {Head(rec.pending)}
                 /\ Head(rec.pending) \in 1 .. MaxItems
                 /\ \A o \in Owed' : Head(rec.pending) < o
<1> DEFINE Goal ==
             /\ LineUp'
             /\ \/ Owed' = Owed /\ next' = next
                \/ Owed' = {} /\ next' = next /\ (Ends \/ Create \/ Resume)
                \/ Owed' = Owed \cup {next} /\ next' = next + 1 /\ Client
                \/ /\ WriteItem /\ next' = next /\ Head(rec.pending) \in Owed
                   /\ Owed' = Owed \ {Head(rec.pending)}
                   /\ Head(rec.pending) \in 1 .. MaxItems
                   /\ \A o \in Owed' : Head(rec.pending) < o
<1>0. /\ rec.pending \in Seq(1 .. MaxItems) /\ queue \in Seq(Commands)
      /\ next \in 1 .. MaxItems + 1 /\ first \in 1 .. next /\ MaxItems \in Nat
      /\ LineUpOf(queue, rec.pending, rec.cmd.items, first, next)
  BY FieldFacts, FilesAssumption DEF TypeOK, LineUp
<1>1. ASSUME rec'.pending = <<>>, queue' = <<>>, rec'.cmd = NoCommand, next' = next,
             Ends \/ Create \/ Resume
      PROVE  Goal
  <2>1. LineUpOf(queue', rec'.pending, rec'.cmd.items, first', next')
    BY <1>1, EmptyLine, OffFacts
  <2>2. Owed' = {}
    BY <1>1, EmptyLine, OwedIs
  <2> QED
    BY <1>1, <2>1, <2>2 DEF LineUp
<1>2. ASSUME Create \/ Resume PROVE Goal
  BY <1>1, <1>2, StartingSteps
<1>3. ASSUME Ends PROVE Goal
  BY <1>1, <1>3, OffFacts DEF Ends
<1>4. ASSUME Client PROVE Goal
  <2>1. /\ rec' = rec /\ first' = first
        /\ \E c \in Commands :
              /\ queue' = Append(queue, c)
              /\ \/ c.op = "add" /\ c.items = {next} /\ next' = next + 1
                    /\ next \in 1 .. MaxItems
                 \/ c.op \in Barriers /\ c.items = first .. next - 1 /\ next' = next
    BY <1>4, SendingSteps
  <2>2. PICK c \in Commands :
              /\ queue' = Append(queue, c)
              /\ \/ c.op = "add" /\ c.items = {next} /\ next' = next + 1
                    /\ next \in 1 .. MaxItems
                 \/ c.op \in Barriers /\ c.items = first .. next - 1 /\ next' = next
    BY <2>1
  <2>3. CASE c.op = "add" /\ c.items = {next} /\ next' = next + 1 /\ next \in 1 .. MaxItems
    <3>1. next' \in Nat
      BY <1>0, <2>3
    <3>2. /\ LineUpOf(Append(queue, c), rec.pending, rec.cmd.items, first, next')
          /\ \A o : IsOwed(o, Append(queue, c), rec.pending) <=>
                       IsOwed(o, queue, rec.pending) \/ o = next
      <4> DEFINE n == next
                 m == next'
                 p == rec.pending
                 C == rec.cmd.items
      <4>1. /\ queue \in Seq(Commands) /\ p \in Seq(1 .. MaxItems)
            /\ n \in 1 .. MaxItems /\ first \in 1 .. n /\ m \in Nat /\ m = n + 1
            /\ MaxItems \in Nat /\ LineUpOf(queue, p, C, first, n)
            /\ c.op = "add" /\ c.items = {n} /\ c \in Commands
        BY <1>0, <2>3, <3>1
      <4> HIDE DEF n, m, p, C
      <4>2. /\ LineUpOf(Append(queue, c), p, C, first, m)
            /\ \A o : IsOwed(o, Append(queue, c), p) <=> IsOwed(o, queue, p) \/ o = n
        BY <4>1, RecordLine
      <4> QED
        BY <4>2 DEF n, m, p, C
    <3>3. Owed' = Owed \cup {next}
      BY <2>1, <2>2, <3>2, OwedIs
    <3> QED
      BY <1>4, <2>1, <2>2, <2>3, <3>2, <3>3 DEF LineUp
  <2>4. CASE c.op \in Barriers /\ c.items = first .. next - 1 /\ next' = next
    <3>1. /\ LineUpOf(queue', rec.pending, rec.cmd.items, first, next)
          /\ \A o : IsOwed(o, queue', rec.pending) <=> IsOwed(o, queue, rec.pending)
      BY <1>0, <2>2, <2>4, BarrierLine
    <3>2. Owed' = Owed
      BY <2>1, <3>1, OwedIs
    <3> QED
      BY <2>1, <2>4, <3>1, <3>2 DEF LineUp
  <2> QED
    BY <2>2, <2>3, <2>4
<1>5. ASSUME LineUpOf(queue', rec'.pending, Head(queue).items, first, next), Takes PROVE LineUp'
  <2>1. /\ rec'.cmd = Head(queue) \/ rec'.cmd = NoCommand
        /\ next' = next /\ first' = first
    BY <1>5 DEF Takes
  <2> QED
    BY <1>5, <2>1, DoneLine, OffFacts DEF LineUp
<1>6. ASSUME TakeItems PROVE Goal
  <2>1. Takes /\ Head(queue).op = "add"
    BY <1>6, TakeItemsFacts
  <2>2. PICK i \in 1 .. MaxItems : /\ Head(queue).items = {i}
                                   /\ rec'.pending = Append(rec.pending, i)
    BY <1>6, TakeItemsFacts
  <2>3. queue # <<>> /\ queue' = Tail(queue) /\ next' = next
    BY <2>1 DEF Takes
  <2>4. /\ LineUpOf(Tail(queue), Append(rec.pending, i), {i}, first, next)
        /\ \A o : IsOwed(o, Tail(queue), Append(rec.pending, i)) <=>
                     IsOwed(o, queue, rec.pending)
    BY <1>0, <2>1, <2>2, <2>3, TakeItemLine, Zenon
  <2>5. Owed' = Owed
    BY <2>2, <2>3, <2>4, OwedIs
  <2> QED
    BY <1>5, <2>1, <2>2, <2>3, <2>4, <2>5
<1>7. ASSUME TakeBarrier, rec' # Off PROVE Goal
  <2>1. Takes /\ Head(queue).op \in Barriers /\ rec'.pending = rec.pending
    BY <1>7, TakeBarrierFacts
  <2>2. queue # <<>> /\ queue' = Tail(queue) /\ next' = next /\ Head(queue).op # "add"
    BY <2>1 DEF Takes, Barriers
  <2>3. LineUpOf(queue', rec'.pending, Head(queue).items, first, next)
    BY <1>0, <2>1, <2>2, TakeLine
  <2>4. Owed' = Owed
    BY <1>0, <2>1, <2>2, TakeBarrierOwed, OwedIs
  <2> QED
    BY <1>5, <2>1, <2>2, <2>3, <2>4
<1>8. ASSUME WriteItem PROVE Goal
  BY <1>8, WriteItemOwed, WriteItemFacts
<1>9. ASSUME \/ ResumeOpens \/ WriterOpens \/ WriteMeta \/ AttemptFails \/ WriteTears
             \/ WriteDone /\ rec' # Off
             \/ Reopen \/ MetadataUpdate \/ Storage \/ UNCHANGED vars
      PROVE  Goal
  <2>1. /\ UNCHANGED <<queue, next, first>> /\ rec'.pending = rec.pending
        /\ rec'.cmd = rec.cmd \/ rec'.cmd = NoCommand
    BY <1>9, KeepingSteps DEF Keeps
  <2>2. LineUp'
    BY <1>0, <2>1, DoneLine, OffFacts DEF LineUp
  <2>3. Owed' = Owed
    BY <2>1, OwedIs
  <2> QED
    BY <2>1, <2>2, <2>3
<1> QED
  BY <1>2, <1>3, <1>4, <1>6, <1>7, <1>8, <1>9, StepKinds

\* The owed items stay the last ones.
LEMMA SuffixStep == ASSUME TypeOK, Quiescent, LineUp, Suffix, [Next]_vars PROVE Suffix'
<1>0. next \in 1 .. MaxItems + 1 /\ MaxItems \in Nat /\ next' \in 1 .. MaxItems + 1
  BY FilesAssumption, TypeStep DEF TypeOK
<1>1. PICK low \in 1 .. next : Owed = low .. next - 1
  BY DEF Suffix
<1>2. CASE Owed' = Owed /\ next' = next
  BY <1>2 DEF Suffix
<1>3. CASE Owed' = {} /\ next' = next
  <2>1. next' \in 1 .. next' /\ Owed' = next' .. next' - 1
    BY <1>0, <1>3
  <2> QED
    BY <2>1 DEF Suffix
<1>4. CASE Owed' = Owed \cup {next} /\ next' = next + 1
  <2>1. low \in 1 .. next' /\ Owed' = low .. next' - 1
    BY <1>0, <1>1, <1>4
  <2> QED
    BY <2>1 DEF Suffix
<1>5. CASE /\ next' = next /\ Head(rec.pending) \in Owed
           /\ Owed' = Owed \ {Head(rec.pending)}
           /\ \A o \in Owed' : Head(rec.pending) < o
  <2>1. Head(rec.pending) \in low .. next - 1
    BY <1>1, <1>5
  <2>2. low \in Owed
    BY <1>0, <1>1, <2>1
  <2>3. Head(rec.pending) = low
    BY <1>0, <1>1, <1>5, <2>1, <2>2
  <2>4. low + 1 \in 1 .. next' /\ Owed' = low + 1 .. next' - 1
    BY <1>0, <1>1, <1>5, <2>1, <2>3
  <2> QED
    BY <2>4 DEF Suffix
<1> QED
  BY <1>2, <1>3, <1>4, <1>5, LineUpStep

-----------------------------------------------------------------------------
(* What is in the files.                                                   *)

\* Steps on the files move contents around; only a write makes a new one.
LEMMA ContentsMove ==
    ASSUME FilesTypeOK, NEW d \in Contents',
           \/ UNCHANGED fileVars
           \/ \E p \in Openers : \/ StartOpen(p) \/ MatStep(p) \/ GiveUp(p)
                                 \/ \E create \in BOOLEAN : Open(p, create)
           \/ \E c \in Compressors : Compress(c)
           \/ GrowsCold
    PROVE  d \in Contents \/ d = <<>>
<1> DEFINE Goal == d \in Contents \/ d = <<>>
<1> USE FileFields
<1>0. /\ temp \in [Procs -> Seq(Pieces)]
      /\ Openers \subseteq Procs /\ Compressors \subseteq Procs
      /\ \/ d = plain'.data \/ d = zst'.data \/ \E q \in Procs : d = temp'[q]
      /\ plain.data \in Contents /\ zst.data \in Contents
      /\ \A q \in Procs : temp[q] \in Contents
  BY DEF FilesTypeOK, Procs, Contents
<1>1. ASSUME NEW q \in Procs, NEW v \in Contents \cup {<<>>},
             temp' = [temp EXCEPT ![q] = v] \/ temp' = temp,
             plain'.data \in Contents \cup {<<>>}, zst'.data \in Contents \cup {<<>>}
      PROVE  Goal
  <2>1. \A r \in Procs : temp'[r] \in Contents \cup {<<>>}
    BY <1>0, <1>1
  <2> QED
    BY <1>0, <1>1, <2>1
<1>2. ASSUME NEW q \in Procs, temp' = temp,
             plain'.data \in Contents \cup {<<>>}, zst'.data \in Contents \cup {<<>>}
      PROVE  Goal
  BY <1>1, <1>2
<1>3. ASSUME NEW p \in Openers,
             \/ StartOpen(p) \/ MatCheck(p) \/ RemoveCompressed(p)
             \/ \E create \in BOOLEAN : Open(p, create)
      PROVE  Goal
  <2>1. /\ temp' = temp /\ plain'.data \in Contents \cup {<<>>}
        /\ zst'.data \in Contents \cup {<<>>}
    BY <1>0, <1>3 DEF StartOpen, MatCheck, RemoveCompressed, Open, disk
  <2> QED
    BY <1>0, <1>2, <2>1
<1>4. ASSUME NEW p \in Openers, Decompress(p) \/ Link(p) \/ GiveUp(p) PROVE Goal
  <2>1. /\ temp' = [temp EXCEPT ![p] = zst.data] \/ temp' = [temp EXCEPT ![p] = <<>>]
        /\ plain'.data \in Contents \cup {<<>>} /\ zst'.data \in Contents \cup {<<>>}
    BY <1>0, <1>4 DEF Decompress, Link, GiveUp, disk
  <2> QED
    BY <1>0, <1>1, <2>1
<1>5. ASSUME NEW c \in Compressors,
             \/ StartJob(c) \/ Verify(c) \/ Recheck(c) \/ DropCompressed(c) \/ RemovePlain(c)
      PROVE  Goal
  <2>1. /\ temp' = temp /\ plain'.data \in Contents \cup {<<>>}
        /\ zst'.data \in Contents \cup {<<>>}
    BY <1>0, <1>5 DEF StartJob, Verify, Recheck, DropCompressed, RemovePlain, disk
  <2> QED
    BY <1>0, <1>2, <2>1
<1>6. ASSUME NEW c \in Compressors, Encode(c) \/ Persist(c) \/ EndJob(c) PROVE Goal
  <2>1. /\ temp' = [temp EXCEPT ![c] = plain.data] \/ temp' = [temp EXCEPT ![c] = <<>>]
        /\ plain'.data \in Contents \cup {<<>>} /\ zst'.data \in Contents \cup {<<>>}
    BY <1>0, <1>6 DEF Encode, Persist, EndJob, disk
  <2> QED
    BY <1>0, <1>1, <2>1
<1>7. ASSUME GrowsCold \/ UNCHANGED fileVars PROVE Goal
  <2>1. UNCHANGED <<plain, zst, temp>>
    BY <1>7 DEF GrowsCold, fileVars, disk
  <2> QED
    BY <1>0, <2>1
<1> QED
  BY <1>3, <1>4, <1>5, <1>6, <1>7 DEF MatStep, Compress

\* A write adds its piece to what the plain file holds.
LEMMA ContentsWritten ==
    ASSUME FilesTypeOK, NEW d \in Contents', NEW p \in Openers, NEW piece \in Pieces,
           NEW keep \in BOOLEAN, WriteTo(p, piece, keep)
    PROVE  d \in Contents \/ d = Append(plain.data, piece)
<1>1. plain.data \in Seq(Pieces)
  BY VisibleType
<1>2. UNCHANGED <<zst, temp>> /\ (plain' = plain \/ plain'.data = plain.data \o <<piece>>)
  BY FileFields DEF WriteTo
<1>3. plain.data \o <<piece>> = Append(plain.data, piece)
  BY <1>1, AppendFacts
<1> QED
  BY <1>2, <1>3 DEF Contents

\* The contents that a step of the recorder makes.
LEMMA ContentsStep ==
    ASSUME TypeOK, [Next]_vars, NEW d \in Contents'
    PROVE  \/ d \in Contents \/ d = <<>>
           \/ WriteItem /\ d = Append(plain.data, Line(Head(rec.pending)))
           \/ \E piece \in Pieces : /\ ~(piece.whole /\ piece.item \in 1 .. MaxItems)
                                    /\ piece.whole \/ faults' # 0
                                    /\ d = Append(plain.data, piece)
<1> DEFINE Goal ==
             \/ d \in Contents \/ d = <<>>
             \/ WriteItem /\ d = Append(plain.data, Line(Head(rec.pending)))
             \/ \E piece \in Pieces : /\ ~(piece.whole /\ piece.item \in 1 .. MaxItems)
                                      /\ piece.whole \/ faults' # 0
                                      /\ d = Append(plain.data, piece)
<1>0. /\ FilesTypeOK /\ Recorder \in Openers /\ Updater \in Openers /\ rec \in Recorders
      /\ TRUE \in BOOLEAN /\ FALSE \in BOOLEAN /\ MaxItems \in Nat
  BY RecorderAssumption, FilesAssumption DEF TypeOK
<1>1. ASSUME NEW i \in Items, i \notin 1 .. MaxItems, NEW p \in Openers, NEW keep \in BOOLEAN,
             WriteTo(p, Line(i), keep)
      PROVE  Goal
  <2>1. Line(i) \in Pieces /\ Line(i).item = i /\ Line(i).whole
    BY DEF Line, Pieces
  <2>2. d \in Contents \/ d = Append(plain.data, Line(i))
    BY <1>0, <1>1, <2>1, ContentsWritten
  <2> QED
    BY <1>1, <2>1, <2>2
<1>2. ASSUME WriteTears \/ CrashInWrite \/ UpdateTears PROVE Goal
  <2>0. /\ \A i \in Current : Torn(i) \in Pieces
        /\ Torn(Update) \in Pieces /\ \A i : ~Torn(i).whole
    <3>1. Torn(Update) \in Pieces /\ \A i : ~Torn(i).whole
      BY <1>0 DEF Torn, Pieces, Items, Update
    <3> QED
      BY <1>0, <3>1, CurrentLines
  <2>1. \/ \E i \in Current : WriteTo(Recorder, Torn(i), FALSE)
        \/ WriteTo(Updater, Torn(Update), FALSE)
    BY <1>2 DEF WriteTears, CrashInWrite, UpdateTears
  <2>2. PICK piece \in Pieces, p \in Openers : ~piece.whole /\ WriteTo(p, piece, FALSE)
    BY <1>0, <2>0, <2>1
  <2>3. d \in Contents \/ d = Append(plain.data, piece)
    BY <1>0, <2>2, ContentsWritten
  <2>4. faults' # 0
    <3>1. faults' = faults + 1
      BY <1>2 DEF WriteTears, CrashInWrite, UpdateTears
    <3>2. faults \in Nat
      BY RecorderAssumption DEF TypeOK
    <3> QED
      BY <3>1, <3>2
  <2> QED
    BY <2>2, <2>3, <2>4
<1>3. ASSUME WriteItem PROVE Goal
  <2>1. Head(rec.pending) \in Current
    BY <1>3 DEF WriteItem, Current
  <2>2. Line(Head(rec.pending)) \in Pieces
    BY <1>0, <2>1, CurrentLines
  <2>3. d \in Contents \/ d = Append(plain.data, Line(Head(rec.pending)))
    BY <1>0, <1>3, <2>2, ContentsWritten, WriteItemFacts
  <2> QED
    BY <1>3, <2>3
<1>4. SessionMeta \in Items /\ Update \in Items
      /\ SessionMeta \notin 1 .. MaxItems /\ Update \notin 1 .. MaxItems
  BY <1>0 DEF SessionMeta, Update, Items
<1>5. ASSUME WriteMeta PROVE Goal
  BY <1>0, <1>1, <1>4, <1>5 DEF WriteMeta
<1>6. ASSUME WriteUpdate PROVE Goal
  BY <1>0, <1>1, <1>4, <1>6 DEF WriteUpdate
<1> DEFINE Moves == \/ UNCHANGED fileVars
                    \/ \E p \in Openers : \/ StartOpen(p) \/ MatStep(p) \/ GiveUp(p)
                                          \/ \E create \in BOOLEAN : Open(p, create)
                    \/ \E c \in Compressors : Compress(c)
                    \/ GrowsCold
<1>7. ASSUME Moves PROVE Goal
  BY <1>0, <1>7, ContentsMove
<1>8. ASSUME New \/ Client \/ Crash PROVE Moves
  BY <1>0, <1>8 DEF New, Create, Resume, ResumeOpens, ResumeFails, Client, Record, Barrier, Crash
<1>9. ASSUME \/ TakeItems \/ TakeBarrier \/ WriterOpens \/ WriteDone \/ AttemptFails \/ Reopen
      PROVE  Moves
  BY <1>0, <1>9 DEF TakeItems, TakeBarrier, BeginWrite, WriterOpens, WriteDone, AttemptFails,
     Reopen
<1>10. ASSUME StartUpdate \/ UpdateOpens \/ UpdateFails \/ Storage \/ UNCHANGED vars
       PROVE  Moves
  BY <1>0, <1>10 DEF StartUpdate, UpdateOpens, UpdateFails, Storage, vars
<1> QED
  BY <1>2, <1>3, <1>5, <1>6, <1>7, <1>8, <1>9, <1>10 DEF Next, Writer, MetadataUpdate

\* Contents are sequences of lines.
LEMMA ContentsType == ASSUME FilesTypeOK PROVE Contents \subseteq Seq(Pieces)
  BY DEF FilesTypeOK, Files, Contents

\* A piece that is no item, or an item beyond all that are there.
LEMMA BehindAppend ==
    ASSUME NEW d \in Seq(Pieces), NEW piece \in Pieces, NEW S, NEW n, BehindOf(d, S, n),
           piece.whole /\ piece.item \in 1 .. MaxItems =>
              /\ piece.item < n /\ \A o \in S : piece.item < o
              /\ \A k \in DOMAIN d : Item(d, k) => d[k].item < piece.item
    PROVE  BehindOf(Append(d, piece), S, n)
<1> DEFINE e == Append(d, piece)
<1>1. /\ Len(d) \in Nat /\ DOMAIN d = 1 .. Len(d) /\ DOMAIN e = 1 .. Len(d) + 1
      /\ \A k \in DOMAIN d : e[k] = d[k]
      /\ e[Len(d) + 1] = piece
  BY AppendFacts
<1> HIDE DEF e
<1>2. \A k \in DOMAIN e : (k \in DOMAIN d /\ e[k] = d[k]) \/ (k = Len(d) + 1 /\ e[k] = piece)
  BY <1>1
<1>3. \A k \in DOMAIN e : Item(e, k) => e[k].item < n /\ \A o \in S : e[k].item < o
  BY <1>2 DEF BehindOf, Item
<1>4. \A j, k \in DOMAIN e : j < k => j \in DOMAIN d /\ e[j] = d[j]
  BY <1>1
<1>5. \A j, k \in DOMAIN e : j < k /\ Item(e, j) /\ Item(e, k) => e[j].item < e[k].item
  BY <1>2, <1>4 DEF BehindOf, Item
<1>6. BehindOf(e, S, n)
  BY <1>3, <1>5 DEF BehindOf
<1> QED
  BY <1>6 DEF e

\* No content gets ahead of what is owed.
LEMMA BehindStep ==
    ASSUME TypeOK, Quiescent, LineUp, Suffix, Behind, [Next]_vars
    PROVE  Behind'
<1>0. /\ next \in 1 .. MaxItems + 1 /\ MaxItems \in Nat /\ FilesTypeOK
      /\ Owed \subseteq 1 .. next - 1
  <2>1. next \in 1 .. MaxItems + 1 /\ MaxItems \in Nat /\ FilesTypeOK
    BY FilesAssumption DEF TypeOK
  <2>2. PICK low \in 1 .. next : Owed = low .. next - 1
    BY DEF Suffix
  <2>3. low .. next - 1 \subseteq 1 .. next - 1
    BY <2>1, <2>2
  <2> QED
    BY <2>1, <2>2, <2>3
<1>1. Owed' \subseteq Owed \cup {next} /\ next' \in {next, next + 1}
  BY LineUpStep
<1>2. ASSUME NEW d, BehindOf(d, Owed, next) PROVE BehindOf(d, Owed', next')
  <2>1. \A k \in DOMAIN d : Item(d, k) => d[k].item \in 1 .. MaxItems
    BY DEF Item
  <2>2. \A k \in DOMAIN d : Item(d, k) => d[k].item < next' /\ \A o \in Owed' : d[k].item < o
    BY <1>0, <1>1, <1>2, <2>1 DEF BehindOf
  <2> QED
    BY <1>2, <2>2 DEF BehindOf
<1>3. plain.data \in Seq(Pieces) /\ BehindOf(plain.data, Owed, next)
  BY <1>0, VisibleType DEF Behind, Contents
<1>4. SUFFICES ASSUME NEW d \in Contents' PROVE BehindOf(d, Owed', next')
  BY DEF Behind
<1>5. CASE d \in Contents
  BY <1>2, <1>5 DEF Behind
<1>6. CASE d = <<>>
  <2>1. DOMAIN d = {}
    BY <1>6
  <2> QED
    BY <2>1 DEF BehindOf
<1>7. CASE WriteItem /\ d = Append(plain.data, Line(Head(rec.pending)))
  <2> DEFINE h == Head(rec.pending)
  <2>1. /\ h \in Owed /\ Owed' \subseteq Owed /\ next' = next /\ h \in 1 .. MaxItems
        /\ \A o \in Owed' : h < o
    BY <1>7, WriteItemFacts, WriteItemOwed
  <2> HIDE DEF h
  <2>2. Line(h) \in Pieces /\ Line(h).item = h
    BY <1>0, <2>1 DEF Line, Pieces, Items
  <2>3. BehindOf(plain.data, Owed', next')
    BY <1>2, <1>3
  <2>4. h < next'
    BY <1>0, <2>1
  <2>5. \A k \in DOMAIN plain.data : Item(plain.data, k) => plain.data[k].item < h
    BY <1>3, <2>1 DEF BehindOf
  <2>6. BehindOf(Append(plain.data, Line(h)), Owed', next')
    BY <1>3, <2>1, <2>2, <2>3, <2>4, <2>5, BehindAppend
  <2> QED
    BY <1>7, <2>6 DEF h
<1>8. CASE \E piece \in Pieces : /\ ~(piece.whole /\ piece.item \in 1 .. MaxItems)
                                 /\ d = Append(plain.data, piece)
  BY <1>2, <1>3, <1>8, BehindAppend
<1> QED
  BY <1>5, <1>6, <1>7, <1>8, ContentsStep

\* Files lose their name under an appender only where that is observed.
LEMMA OrphansStep == ASSUME TypeOK, OrphansRaced, [Next]_vars PROVE OrphansRaced'
<1>0. [FilesNext]_fileVars /\ FilesTypeOK
  BY FilesRefined DEF TypeOK
<1>1. raced => raced'
  BY <1>0, RacedStays
<1>2. ASSUME NEW c \in Compressors, RemovePlain(c) PROVE OrphansRaced'
  <2> SUFFICES ASSUME NEW p \in Openers, handle'[p] = "orphan" PROVE raced'
    BY DEF OrphansRaced
  <2>1. handle[p] = "linked" \/ handle[p] = "orphan"
    BY <1>2 DEF RemovePlain
  <2>2. CASE handle[p] = "linked"
    <3>1. InUse(c)
      BY <2>2 DEF InUse
    <3> QED
      BY <1>2, <3>1, Zenon DEF RemovePlain
  <2>3. CASE handle[p] = "orphan"
    BY <1>1, <2>3 DEF OrphansRaced
  <2> QED
    BY <2>1, <2>2, <2>3
<1>3. ASSUME \A p \in Openers : handle'[p] = "orphan" => handle[p] = "orphan"
      PROVE  OrphansRaced'
  BY <1>1, <1>3 DEF OrphansRaced
<1>4. ASSUME NEW p \in Openers, Appends(p) PROVE OrphansRaced'
  <2>1. \/ handle' = handle
        \/ \E v \in {"none", "linked", handle[p]} : handle' = [handle EXCEPT ![p] = v]
    BY <1>4 DEF Appends, StartOpen, MatStep, MatCheck, Decompress, Link, RemoveCompressed,
       Open, WriteTo, GiveUp
  <2>2. handle \in [Openers -> {"none", "linked", "orphan"}]
    BY <1>0 DEF FilesTypeOK
  <2> QED
    BY <1>3, <2>1, <2>2
<1>5. ASSUME NEW c \in Compressors,
             \/ StartJob(c) \/ Encode(c) \/ Verify(c) \/ Persist(c) \/ Recheck(c)
             \/ DropCompressed(c) \/ EndJob(c)
      PROVE  OrphansRaced'
  <2>1. handle' = handle
    BY <1>5 DEF StartJob, Encode, Verify, Persist, Recheck, DropCompressed, EndJob
  <2> QED
    BY <1>3, <2>1
<1>6. CASE GrowsCold \/ UNCHANGED fileVars
  <2>1. handle' = handle
    BY <1>6 DEF GrowsCold, fileVars
  <2> QED
    BY <1>3, <2>1
<1> QED
  BY <1>0, <1>2, <1>4, <1>5, <1>6 DEF FilesNext, Compress

-----------------------------------------------------------------------------
(* What is on disk.                                                        *)

\* A line that readers find stays where it is.
LEMMA WrittenStays ==
    ASSUME FilesInv, TypeOK, [Next]_vars, ~raced', NEW i, Written(i)
    PROVE  Written(i)'
<1>1. [FilesNext]_fileVars
  BY FilesRefined
<1>2. IsPrefix(Visible, Visible')
  BY <1>1, HistoryStep
<1>3. FilesTypeOK /\ FilesTypeOK'
  BY <1>1, FilesTypeStep DEF FilesInv
<1>4. Visible \in Seq(Pieces) /\ Visible' \in Seq(Pieces)
  BY <1>3 DEF FilesTypeOK, Files, Visible
<1> DEFINE s == Visible
           t == Visible'
<1>5. s \in Seq(Pieces) /\ t \in Seq(Pieces) /\ IsPrefix(s, t)
  BY <1>2, <1>4
<1>6. PICK k \in DOMAIN s : s[k] = Line(i)
  BY DEF Written
<1> HIDE DEF s, t
<1>7. Len(s) <= Len(t) /\ \A j \in 1 .. Len(s) : s[j] = t[j]
  BY <1>5, PrefixDef
<1>8. k \in DOMAIN t /\ t[k] = Line(i)
  BY <1>5, <1>6, <1>7
<1> QED
  BY <1>8 DEF t, Written

\* A line that is written to a file with a name is found by readers.
LEMMA WritesLine ==
    ASSUME FilesInv, OrphansRaced, NEW p \in Openers, NEW i, Line(i) \in Pieces,
           NEW keep \in BOOLEAN, WriteTo(p, Line(i), keep), ~raced'
    PROVE  Written(i)'
<1>1. handle[p] = "linked"
  BY DEF WriteTo, OrphansRaced
<1>2. plain' = File(plain.data \o <<Line(i)>>)
  BY <1>1 DEF WriteTo
<1>3. plain.data \in Seq(Pieces)
  BY VisibleType DEF FilesInv
<1>4. Visible' = Append(plain.data, Line(i))
  <2>1. plain.data \o <<Line(i)>> = Append(plain.data, Line(i))
    BY <1>3, AppendFacts
  <2>2. Visible' = plain.data \o <<Line(i)>>
    BY <1>2, FileFields DEF Visible
  <2> QED
    BY <2>1, <2>2
<1> DEFINE s == Append(plain.data, Line(i))
<1>5. Len(plain.data) + 1 \in DOMAIN s /\ s[Len(plain.data) + 1] = Line(i)
  <2>1. /\ Len(plain.data) \in Nat /\ DOMAIN s = 1 .. Len(plain.data) + 1
        /\ s[Len(plain.data) + 1] = Line(i)
    BY <1>3, AppendFacts
  <2> HIDE DEF s
  <2> QED
    BY <2>1
<1> HIDE DEF s
<1>6. \E k \in DOMAIN s : s[k] = Line(i)
  BY <1>5
<1> QED
  BY <1>4, <1>6 DEF Written, s

\* A session goes on, or starts.
LEMMA SessionStep ==
    ASSUME TypeOK, Quiescent, LineUp, [Next]_vars, rec'.at # "off"
    PROVE  \/ Create \/ Resume
           \/ /\ first' = first /\ rec.at # "off"
              /\ rec'.meta = rec.meta \/ WriteMeta
<1>1. CASE Client
  BY <1>1, SendingSteps
<1>2. CASE TakeItems \/ (TakeBarrier /\ rec' # Off)
  <2>1. Takes
    BY <1>2, TakeItemsFacts, TakeBarrierFacts
  <2> QED
    BY <2>1 DEF Takes, Alive
<1>3. CASE WriteItem
  BY <1>3, WriteItemFacts
<1>4. CASE Ends
  BY <1>4, OffFacts DEF Ends
<1>5. CASE \/ ResumeOpens \/ WriterOpens \/ WriteMeta \/ AttemptFails \/ WriteTears
           \/ WriteDone /\ rec' # Off
           \/ Reopen \/ MetadataUpdate \/ Storage \/ UNCHANGED vars
  BY <1>5, KeepingSteps DEF Keeps
<1> QED
  BY <1>1, <1>2, <1>3, <1>4, <1>5, StepKinds

\* The items that a barrier covers are not behind it.
LEMMA BarrierCovers ==
    ASSUME TypeOK, LineUp, OnDisk, ~raced, rec.at # "off", rec.pending = <<>>
    PROVE  /\ \A i \in rec.cmd.items : Written(i)
           /\ queue # <<>> /\ Head(queue).op \in Barriers =>
                 \A i \in Head(queue).items : Written(i)
<1>0. /\ next \in 1 .. MaxItems + 1 /\ first \in 1 .. next /\ MaxItems \in Nat
      /\ LineUpOf(queue, rec.pending, rec.cmd.items, first, next)
      /\ queue \in Seq(Commands)
  BY FilesAssumption DEF TypeOK, LineUp
<1>1. DOMAIN rec.pending = {}
  OBVIOUS
<1>2. \A i \in first .. next - 1 : i \notin Owed => Written(i)
  BY DEF OnDisk
<1>3. ASSUME NEW i \in rec.cmd.items PROVE Written(i)
  <2>1. i \in first .. next - 1
    BY <1>0 DEF LineUpOf
  <2>2. \A k \in DOMAIN queue : queue[k].op = "add" => i \notin queue[k].items
    BY <1>0, <2>1 DEF LineUpOf, Before
  <2>3. i \notin Owed
    BY <1>1, <2>2, OwedIs DEF IsOwed
  <2> QED
    BY <1>2, <2>1, <2>3
<1>4. ASSUME queue # <<>>, Head(queue).op \in Barriers, NEW i \in Head(queue).items
      PROVE  Written(i)
  <2>1. Head(queue) = queue[1] /\ DOMAIN queue = 1 .. Len(queue) /\ Len(queue) \in Nat
        /\ Len(queue) > 0
    BY <1>0, <1>4, HeadTail
  <2>2. 1 \in DOMAIN queue /\ \A k \in DOMAIN queue : k = 1 \/ 1 < k
    BY <2>1
  <2>3. i \in first .. next - 1
    BY <1>0, <1>4, <2>1, <2>2 DEF LineUpOf
  <2>4. queue[1].op # "add"
    BY <1>4, <2>1 DEF Barriers
  <2>5. \A k \in DOMAIN queue : queue[k].op = "add" => i \notin queue[k].items
    <3> SUFFICES ASSUME NEW k \in DOMAIN queue, queue[k].op = "add", i \in queue[k].items
                 PROVE  FALSE
      OBVIOUS
    <3>1. 1 < k
      BY <2>2, <2>4
    <3>2. Before(queue[1].items, queue[k].items)
      BY <1>0, <2>2, <3>1 DEF LineUpOf
    <3>3. i < i
      BY <1>4, <2>1, <3>2 DEF Before
    <3> QED
      BY <1>0, <2>3, <3>3
  <2>6. i \notin Owed
    BY <1>1, <2>5, OwedIs DEF IsOwed
  <2> QED
    BY <1>2, <2>3, <2>6
<1> QED
  BY <1>3, <1>4

\* Readers find a line that can be read.
LEMMA ReadLine == ASSUME FilesTypeOK, NEW i \in History PROVE Written(i)
<1>1. PICK k \in DOMAIN Visible : Reads(Visible, k) /\ i = Visible[k].item
  BY DEF History
<1>2. Visible \in Seq(Pieces)
  BY VisibleType
<1>3. Visible[k] \in Pieces
  BY <1>1, <1>2
<1>4. Visible[k] = Line(i)
  BY <1>1, <1>3 DEF Reads, Pieces, Line
<1> QED
  BY <1>4 DEF Written

\* What is on disk stays there, and a promise is made for what is.
LEMMA OnDiskStep == ASSUME RecInv, [Next]_vars PROVE OnDisk'
<1>0. /\ FilesInv /\ TypeOK /\ LineUp /\ Quiescent /\ Suffix /\ OrphansRaced /\ OnDisk
      /\ FilesTypeOK
  BY DEF RecInv, FilesInv
<1> SUFFICES ASSUME ~raced' PROVE OnDisk'
  BY DEF OnDisk
<1>1. ~raced
  BY <1>0, FilesRefined, RacedStays
<1>2. ASSUME NEW i, Written(i) PROVE Written(i)'
  BY <1>0, <1>2, WrittenStays
<1>3. /\ Recorder \in Openers /\ Updater \in Openers /\ TRUE \in BOOLEAN /\ FALSE \in BOOLEAN
      /\ Line(SessionMeta) \in Pieces /\ Line(Update) \in Pieces
      /\ \A i \in 1 .. MaxItems : Line(i) \in Pieces
  BY RecorderAssumption, FilesAssumption DEF Line, Pieces, Items, SessionMeta, Update
<1>4. ASSUME WriteMeta PROVE Written(SessionMeta)'
  BY <1>0, <1>3, <1>4, WritesLine DEF WriteMeta
<1>5. ASSUME NEW i \in acked' PROVE Written(i)'
  <2>1. CASE i \in acked
    BY <1>0, <1>1, <1>2, <2>1 DEF OnDisk
  <2>2. CASE /\ TakeBarrier /\ i \in Head(queue).items
             /\ rec.pending = <<>> /\ rec.at = "idle" /\ queue # <<>>
    BY <1>0, <1>1, <1>2, <2>2, BarrierCovers DEF TakeBarrier
  <2>3. CASE i \in rec.cmd.items /\ rec.pending = <<>> /\ rec.at = "writing"
    BY <1>0, <1>1, <1>2, <2>3, BarrierCovers
  <2>4. CASE i = SessionMeta /\ rec.at = "writing" /\ ~rec.meta
    BY <1>0, <1>1, <1>2, <2>4 DEF OnDisk
  <2>5. CASE WriteUpdate /\ i = Update
    BY <1>0, <1>3, <2>5, WritesLine DEF WriteUpdate
  <2> QED
    BY <1>0, <1>5, <2>1, <2>2, <2>3, <2>4, <2>5, AckedSteps
<1>6. ASSUME rec'.at # "off", ~rec'.meta PROVE Written(SessionMeta)'
  <2>1. CASE Create \/ Resume
    <3>1. SessionMeta \in History
      BY <1>0, <1>6, <2>1, StartingSteps
    <3> QED
      BY <1>0, <1>2, <3>1, ReadLine
  <2>2. CASE rec.at # "off" /\ rec'.meta = rec.meta
    BY <1>0, <1>1, <1>2, <1>6, <2>2 DEF OnDisk
  <2> QED
    BY <1>0, <1>4, <1>6, <2>1, <2>2, SessionStep
<1>7. ASSUME rec'.at # "off", NEW i \in first' .. next' - 1 PROVE i \in Owed' \/ Written(i)'
  <2>0. next \in 1 .. MaxItems + 1 /\ MaxItems \in Nat /\ first \in 1 .. next
    BY <1>0, FilesAssumption DEF TypeOK
  <2>1. CASE Create \/ Resume
    <3>1. first' = next /\ next' = next
      BY <1>0, <2>1, StartingSteps
    <3> QED
      BY <1>7, <2>0, <3>1
  <2>2. CASE first' = first /\ rec.at # "off" /\ ~(Create \/ Resume)
    <3>0. \A j \in first .. next - 1 : j \in Owed \/ Written(j)'
      BY <1>0, <1>1, <1>2, <2>2 DEF OnDisk
    <3>1. CASE Owed' = Owed /\ next' = next
      BY <1>7, <2>2, <3>0, <3>1
    <3>2. CASE Ends
      BY <1>7, <3>2, OffFacts DEF Ends
    <3>3. CASE Owed' = Owed \cup {next} /\ next' = next + 1
      <4>1. i \in first .. next - 1 \/ i = next
        BY <1>7, <2>0, <2>2, <3>3
      <4> QED
        BY <3>0, <3>3, <4>1
    <3>4. CASE /\ WriteItem /\ next' = next /\ Owed' = Owed \ {Head(rec.pending)}
               /\ Head(rec.pending) \in 1 .. MaxItems
      <4>1. PICK h \in 1 .. MaxItems : h = Head(rec.pending)
        BY <3>4
      <4>2. WriteTo(Recorder, Line(h), TRUE) /\ Line(h) \in Pieces
        BY <1>0, <1>3, <3>4, <4>1, WriteItemFacts
      <4>3. Written(h)'
        BY <1>0, <1>3, <4>2, WritesLine
      <4> QED
        BY <1>7, <2>2, <3>0, <3>4, <4>1, <4>3
    <3> QED
      BY <1>0, <2>2, <3>1, <3>2, <3>3, <3>4, LineUpStep
  <2> QED
    BY <1>0, <1>7, <2>1, <2>2, SessionStep
<1> QED
  BY <1>5, <1>6, <1>7 DEF OnDisk

-----------------------------------------------------------------------------
(* The theorems.                                                           *)

\* No recorder, no file, no promise.
LEMMA RecInitially == Init => RecInv
<1> SUFFICES ASSUME Init PROVE RecInv
  OBVIOUS
<1>1. FilesInv /\ FilesTypeOK
  BY FilesInitially DEF Init, FilesInv
<1>2. rec = Off /\ queue = <<>> /\ next = 1 /\ first = 1 /\ acked = {} /\ sessions = 0
      /\ faults = 0
  BY DEF Init
<1>3. rec.pending = <<>> /\ rec.cmd = NoCommand /\ rec.at = "off"
  BY <1>2, OffFacts
<1>4. TypeOK
  <2>1. queue \in Seq(Commands)
    BY <1>2
  <2>2. next \in 1 .. MaxItems + 1 /\ first \in 1 .. next
    BY <1>2, FilesAssumption
  <2>3. sessions \in 0 .. MaxSessions /\ faults \in 0 .. MaxFaults
    BY <1>2, RecorderAssumption
  <2> QED
    BY <1>1, <1>2, <2>1, <2>2, <2>3, OffFacts DEF TypeOK
<1>5. LineUp
  BY <1>2, <1>3, EmptyLine, OffFacts DEF LineUp
<1>6. Owed = {}
  BY <1>2, <1>3, EmptyLine, OwedIs
<1>7. Suffix
  <2>1. 1 \in 1 .. next /\ Owed = 1 .. next - 1
    BY <1>2, <1>6
  <2> QED
    BY <2>1 DEF Suffix
<1>8. Quiescent
  BY <1>2, <1>3 DEF Quiescent, Alive
<1>9. Behind
  <2>1. \A d \in Contents : d = <<>>
    BY FileFields DEF Init, FilesInit, Contents
  <2>2. \A d \in Contents : DOMAIN d = {}
    BY <2>1
  <2> QED
    BY <2>2 DEF Behind, BehindOf
<1>10. OrphansRaced
  BY DEF Init, FilesInit, OrphansRaced
<1>11. OnDisk
  BY <1>2, <1>3 DEF OnDisk
<1> QED
  BY <1>1, <1>4, <1>5, <1>7, <1>8, <1>9, <1>10, <1>11 DEF RecInv

\* Every step keeps the invariant.
LEMMA RecInductive == RecInv /\ [Next]_vars => RecInv'
<1> SUFFICES ASSUME RecInv, [Next]_vars PROVE RecInv'
  OBVIOUS
<1>1. FilesInv /\ TypeOK /\ LineUp /\ Quiescent /\ Suffix /\ Behind /\ OrphansRaced
  BY DEF RecInv
<1>2. FilesInv'
  BY <1>1, FilesRefined, FilesInductive
<1>3. TypeOK' /\ Quiescent' /\ Suffix' /\ Behind' /\ OrphansRaced'
  BY <1>1, TypeStep, QuiescentStep, SuffixStep, BehindStep, OrphansStep
<1>4. LineUp'
  BY <1>1, LineUpStep
<1>5. OnDisk'
  BY OnDiskStep
<1> QED
  BY <1>2, <1>3, <1>4, <1>5 DEF RecInv

\* The recorder, its channel and the files keep their types.
THEOREM TypeCorrect == Spec => []TypeOK
<1>1. RecInv => TypeOK
  BY DEF RecInv
<1> QED
  BY <1>1, RecInitially, RecInductive, PTL DEF Spec

\* The recorder beside the compression worker is an instance of any appenders beside
\* it: every step of rollout_writer and of append_rollout_item_to_path on the files is
\* one of RolloutFiles.
THEOREM RecorderAppends == Spec => FilesSpec
<1>1. Init => FilesInit
  BY DEF Init
<1>2. RecInv /\ [Next]_vars => [FilesNext]_fileVars
  BY FilesRefined DEF RecInv
<1> QED
  BY <1>1, <1>2, RecInitially, RecInductive, PTL DEF Spec, FilesSpec

\* With the recorder as well, the compressed file is an earlier state of the plain one.
THEOREM RecorderSiblingOlder == Spec => []SiblingIsOlder
  BY RecorderAppends, SiblingOlder, PTL

\* With the recorder as well, no step rewrites what readers see.
THEOREM RecorderRewritesNothing == Spec => HistoryKept
  BY RecorderAppends, NothingRewritten, PTL

\* What flush, persist and shutdown have answered Ok for stays in the rollout.
THEOREM PromisesKept == Spec => []AckedReadable
<1>1. RecInv => AckedReadable
  <2> SUFFICES ASSUME RecInv, ~raced, NEW i \in acked PROVE i \in History \/ Glued(i)
    BY DEF AckedReadable
  <2>1. Written(i) /\ Visible \in Seq(Pieces)
    BY VisibleType DEF RecInv, OnDisk, FilesInv
  <2>2. PICK k \in DOMAIN Visible : Visible[k] = Line(i)
    BY <2>1 DEF Written
  <2>3. Visible[k].whole /\ Visible[k].item = i /\ k \in 1 .. Len(Visible)
    BY <2>1, <2>2 DEF Line
  <2>4. CASE Reads(Visible, k)
    BY <2>3, <2>4 DEF History
  <2>5. CASE ~Reads(Visible, k)
    <3>1. k \in 2 .. Len(Visible) /\ ~Visible[k - 1].whole
      BY <2>1, <2>3, <2>5 DEF Reads
    <3> QED
      BY <2>2, <3>1 DEF Glued
  <2> QED
    BY <2>4, <2>5
<1> QED
  BY <1>1, RecInitially, RecInductive, PTL DEF Spec

\* The writer task, whatever fails and is retried, writes items once and in the order
\* of record_canonical_items, and no copy of the file mixes them up.
THEOREM ItemsInOrder == Spec => []RecordedInOrder
<1>1. RecInv => RecordedInOrder
  <2> SUFFICES ASSUME RecInv, NEW j \in DOMAIN Visible, NEW k \in DOMAIN Visible,
                      j < k, Visible[j].whole, Visible[k].whole,
                      {Visible[j].item, Visible[k].item} \subseteq 1 .. MaxItems
               PROVE  Visible[j].item < Visible[k].item
    BY DEF RecordedInOrder
  <2>1. Visible \in Contents
    BY DEF Visible, Contents
  <2>2. BehindOf(Visible, Owed, next)
    BY <2>1 DEF RecInv, Behind
  <2>3. Item(Visible, j) /\ Item(Visible, k)
    BY DEF Item
  <2> QED
    BY <2>2, <2>3 DEF BehindOf
<1> QED
  BY <1>1, RecInitially, RecInductive, PTL DEF Spec

\* RolloutWriterState never drops or reorders what was accepted: it is owed, in order,
\* or written.
THEOREM NothingAcceptedLost == Spec => []AcceptedKept
<1>1. RecInv => AcceptedKept
  <2> SUFFICES ASSUME RecInv, Alive
               PROVE  /\ OwedInOrder
                      /\ \E low \in 1 .. next :
                            /\ Owed = low .. next - 1
                            /\ ~raced => \A i \in first .. low - 1 : Written(i)
    BY DEF AcceptedKept
  <2>1. OwedInOrder
    BY DEF RecInv, LineUp, LineUpOf, OwedInOrder, Adds, Before
  <2>2. next \in Nat /\ first \in Nat
    BY FilesAssumption DEF RecInv, TypeOK
  <2>3. PICK low \in 1 .. next : Owed = low .. next - 1
    BY DEF RecInv, Suffix
  <2>4. ASSUME ~raced, NEW i \in first .. low - 1 PROVE Written(i)
    <3>1. i \in first .. next - 1 /\ i \notin Owed
      BY <2>2, <2>3, <2>4
    <3> QED
      BY <2>4, <3>1 DEF RecInv, OnDisk, Alive
  <2> QED
    BY <2>1, <2>3, <2>4
<1> QED
  BY <1>1, RecInitially, RecInductive, PTL DEF Spec

-----------------------------------------------------------------------------
(* Flush, where no write was torn and no file removed under an appender.   *)

\* The pieces of d are lines.
Whole(d) == \A k \in DOMAIN d : d[k].whole
AllWhole == faults = 0 => \A d \in Contents : Whole(d)

\* Only an error in the middle of a line leaves the beginning of one.
LEMMA WholeStep == ASSUME TypeOK, AllWhole, [Next]_vars PROVE AllWhole'
<1> SUFFICES ASSUME faults' = 0, NEW d \in Contents' PROVE Whole(d)
  BY DEF AllWhole
<1>0. FilesTypeOK /\ plain.data \in Seq(Pieces) /\ plain.data \in Contents
  BY VisibleType DEF TypeOK, Contents
<1>1. \A e \in Contents : Whole(e)
  BY FaultsStep DEF AllWhole
<1>2. ASSUME NEW piece \in Pieces, piece.whole PROVE Whole(Append(plain.data, piece))
  <2> DEFINE e == Append(plain.data, piece)
             n == Len(plain.data)
  <2>1. /\ n \in Nat /\ DOMAIN plain.data = 1 .. n /\ DOMAIN e = 1 .. n + 1
        /\ \A k \in 1 .. n : e[k] = plain.data[k]
        /\ e[n + 1] = piece
    BY <1>0, AppendFacts
  <2>2. \A k \in 1 .. n : plain.data[k].whole
    BY <1>0, <1>1, <2>1 DEF Whole
  <2> HIDE DEF e, n
  <2>3. \A k \in DOMAIN e : k \in 1 .. n \/ k = n + 1
    BY <2>1
  <2>4. Whole(e)
    BY <1>2, <2>1, <2>2, <2>3 DEF Whole
  <2> QED
    BY <2>4 DEF e
<1>3. CASE d \in Contents
  BY <1>1, <1>3
<1>4. CASE d = <<>>
  <2>1. DOMAIN d = {}
    BY <1>4
  <2> QED
    BY <2>1 DEF Whole
<1>5. CASE WriteItem /\ d = Append(plain.data, Line(Head(rec.pending)))
  <2>1. Head(rec.pending) \in Current /\ rec \in Recorders
    BY <1>5 DEF WriteItem, Current, TypeOK
  <2>2. Line(Head(rec.pending)) \in Pieces /\ Line(Head(rec.pending)).whole
    BY <2>1, CurrentLines DEF Line
  <2> QED
    BY <1>2, <1>5, <2>2
<1>6. CASE \E piece \in Pieces : piece.whole /\ d = Append(plain.data, piece)
  BY <1>2, <1>6
<1> QED
  BY <1>3, <1>4, <1>5, <1>6, ContentsStep

\* Where nothing is torn, what is written can be read.
LEMMA WrittenReads ==
    ASSUME FilesTypeOK, Whole(Visible), NEW i, Written(i)
    PROVE  i \in History
<1>1. Visible \in Seq(Pieces)
  BY VisibleType
<1>2. PICK k \in DOMAIN Visible : Visible[k] = Line(i)
  BY DEF Written
<1>3. k > 1 => k - 1 \in DOMAIN Visible
  BY <1>1
<1>4. Visible[k].item = i /\ Reads(Visible, k)
  BY <1>2, <1>3 DEF Reads, Whole, Line
<1> QED
  BY <1>2, <1>4 DEF History

\* Flush keeps its word, as recorder.rs documents it: while no I/O error or crash has hit a
\* write and the worker has not removed the file under an appender, whatever flush, persist or
\* shutdown was answered Ok for can be read, across crashes between writes, resumed sessions,
\* metadata updates and compression.
THEOREM FlushKeepsItsWord == Spec => [](~raced /\ faults = 0 => FlushedIsReadable)
<1>1. Init => AllWhole
  <2> SUFFICES ASSUME Init, NEW d \in Contents PROVE Whole(d)
    BY DEF AllWhole
  <2>1. d = <<>>
    BY FileFields DEF Init, FilesInit, Contents
  <2>2. DOMAIN d = {}
    BY <2>1
  <2> QED
    BY <2>2 DEF Whole
<1>2. RecInv /\ AllWhole /\ [Next]_vars => RecInv' /\ AllWhole'
  BY RecInductive, WholeStep DEF RecInv
<1>3. RecInv /\ AllWhole => (~raced /\ faults = 0 => FlushedIsReadable)
  <2> SUFFICES ASSUME RecInv, AllWhole, ~raced, faults = 0, NEW i \in acked \ {Update}
               PROVE  i \in History
    BY DEF FlushedIsReadable
  <2>1. FilesTypeOK /\ Written(i)
    BY DEF RecInv, TypeOK, OnDisk
  <2>2. Visible \in Contents
    BY DEF Visible, Contents
  <2>3. Whole(Visible)
    BY <2>2 DEF AllWhole
  <2> QED
    BY <2>1, <2>3, WrittenReads
<1> QED
  BY <1>1, <1>2, <1>3, RecInitially, PTL DEF Spec

\* Without a compression worker no file is ever removed under an appender: then only an error
\* or a crash that hits a write can come between a flush and its readers.
THEOREM UncompressedFlush ==
    Compressors = {} /\ Spec => [](faults = 0 => FlushedIsReadable)
<1>1. Init => ~raced
  BY DEF Init, FilesInit
<1>2. TypeOK /\ (Compressors = {} /\ ~raced) /\ [Next]_vars => (Compressors = {} /\ ~raced)'
  <2> SUFFICES ASSUME TypeOK, Compressors = {}, ~raced, [Next]_vars PROVE ~raced'
    BY Zenon
  <2>1. [FilesNext]_fileVars
    BY FilesRefined
  <2>2. UNCHANGED raced
    BY <2>1, Zenon DEF FilesNext, Appends, StartOpen, MatStep, MatCheck, Decompress, Link,
       RemoveCompressed, Open, WriteTo, GiveUp, GrowsCold, fileVars
  <2> QED
    BY <2>2
<1>3. (~raced /\ faults = 0 => FlushedIsReadable) /\ ~raced => (faults = 0 => FlushedIsReadable)
  OBVIOUS
<1> QED
  BY <1>1, <1>2, <1>3, TypeCorrect, FlushKeepsItsWord, PTL DEF Spec
=============================================================================
