---------------------------- MODULE RolloutFiles ----------------------------
(***************************************************************************)
(* The rollout of one thread on disk: the plain .jsonl file, its compressed*)
(* .jsonl.zst sibling, the appenders that materialize and open the plain   *)
(* file, and the background worker that compresses a cold one              *)
(* (motyga-rs/rollout/src/compression.rs, recorder.rs). The steps are the  *)
(* system calls: between two of them other processes run, and each may be  *)
(* the last one of its process.                                            *)
(***************************************************************************)
EXTENDS Naturals, Sequences, SequencesExt

CONSTANTS
    Openers,        \* who appends: the recorder, a metadata update
    Compressors,    \* workers; a stale run marker can be claimed by two of them
    MaxItems        \* how many items sessions record

ASSUME FilesAssumption ==
    Openers \cap Compressors = {} /\ MaxItems \in Nat

\* The lines of a rollout: the session meta, the items in the order in which
\* they are recorded, a metadata update.
SessionMeta == 0
Update == MaxItems + 1
Items == 0 .. MaxItems + 1

\* What one write left in a file: a line, or the beginning of one. A reader
\* that meets the beginning of a line finds the next line glued to it.
Line(i) == [item |-> i, whole |-> TRUE]
Torn(i) == [item |-> i, whole |-> FALSE]
Pieces == [item : Items, whole : BOOLEAN]

NoFile == [exists |-> FALSE, data |-> <<>>]
File(d) == [exists |-> TRUE, data |-> d]

VARIABLES
    plain, zst,     \* the two files of the rollout
    cold,           \* the plain file was last written seven days ago
    handle,         \* each opener's open file: its name still links to it or not
    mat,            \* each opener: where it is in opening the file
    job,            \* each compressor: where it is, and whether the plain file
                    \* is what it was when the job last looked (FileState)
    temp,           \* what an opener or a compressor has in its temporary file
    raced           \* observation: the plain file was removed under an appender

disk == <<plain, zst, cold>>
fileVars == <<disk, handle, mat, job, temp, raced>>

Procs == Openers \cup Compressors
MatSteps == {"none", "check", "decompress", "link", "unzip", "open"}
JobSteps == {"idle", "encode", "verify", "persist", "recheck", "drop", "remove"}

Files == [exists : BOOLEAN, data : Seq(Pieces)]
Jobs == [at : JobSteps, same : BOOLEAN]

FilesTypeOK ==
    /\ plain \in Files /\ zst \in Files
    /\ cold \in BOOLEAN /\ raced \in BOOLEAN
    /\ handle \in [Openers -> {"none", "linked", "orphan"}]
    /\ mat \in [Openers -> MatSteps]
    /\ job \in [Compressors -> Jobs]
    /\ temp \in [Procs -> Seq(Pieces)]

FilesInit ==
    /\ plain = NoFile /\ zst = NoFile /\ cold = FALSE /\ raced = FALSE
    /\ handle = [p \in Openers |-> "none"]
    /\ mat = [p \in Openers |-> "none"]
    /\ job = [c \in Compressors |-> [at |-> "idle", same |-> TRUE]]
    /\ temp = [p \in Procs |-> <<>>]

-----------------------------------------------------------------------------
(* What readers see.                                                       *)

\* existing_rollout_path: the plain file is preferred.
Visible == IF plain.exists THEN plain.data ELSE zst.data

\* load_rollout_items: a line that does not parse is skipped, so a line is
\* read when it starts at the start of a line.
Reads(d, k) == d[k].whole /\ (k > 1 => d[k - 1].whole)
History == {Visible[k].item : k \in {k \in DOMAIN Visible : Reads(Visible, k)}}

-----------------------------------------------------------------------------
(* Changes of the plain file. FileState compares length, modification time *)
(* and permissions: a write and a new file differ from every earlier state.*)

Changed == job' = [c \in Compressors |-> [job[c] EXCEPT !.same = job[c].at = "idle"]]

\* A write to the open file, which is kept open or closed after it. A file
\* without a name takes the line, and nobody will ever read it.
WriteTo(p, piece, keep) ==
    /\ IF handle[p] = "linked"
       THEN plain' = File(plain.data \o <<piece>>) /\ cold' = FALSE /\ Changed
       ELSE handle[p] = "orphan" /\ UNCHANGED <<plain, cold, job>>
    /\ handle' = [handle EXCEPT ![p] = IF keep THEN handle[p] ELSE "none"]
    /\ UNCHANGED <<zst, mat, temp, raced>>

-----------------------------------------------------------------------------
(* materialize_rollout_for_append_blocking, then the open that follows it  *)

Goto(p, s) == mat' = [mat EXCEPT ![p] = s]

StartOpen(p) ==
    /\ mat[p] = "none" /\ handle[p] = "none"
    /\ Goto(p, "check")
    /\ UNCHANGED <<disk, handle, job, temp, raced>>

\* The plain file is there, or there is no rollout: there is nothing to do.
MatCheck(p) ==
    /\ mat[p] = "check"
    /\ Goto(p, IF plain.exists \/ ~zst.exists THEN "open" ELSE "decompress")
    /\ UNCHANGED <<disk, handle, job, temp, raced>>

\* The decoder reads the compressed file; another opener may have removed it,
\* which is an error of this one.
Decompress(p) ==
    /\ mat[p] = "decompress" /\ zst.exists
    /\ temp' = [temp EXCEPT ![p] = zst.data]
    /\ Goto(p, "link")
    /\ UNCHANGED <<disk, handle, job, raced>>

\* hard_link never replaces a file: AlreadyExists is no error.
Link(p) ==
    /\ mat[p] = "link"
    /\ IF plain.exists THEN UNCHANGED <<plain, cold, job>>
       ELSE plain' = File(temp[p]) /\ cold' = FALSE /\ Changed
    /\ temp' = [temp EXCEPT ![p] = <<>>]
    /\ Goto(p, "unzip")
    /\ UNCHANGED <<zst, handle, raced>>

\* remove_file of the compressed file; NotFound is no error.
RemoveCompressed(p) ==
    /\ mat[p] = "unzip"
    /\ zst' = NoFile
    /\ Goto(p, "open")
    /\ UNCHANGED <<plain, cold, handle, job, temp, raced>>

\* Mutant: the file is opened for writing from its start.
OpenTruncates(p, create) ==
    /\ mat[p] = "open"
    /\ plain.exists \/ create
    /\ plain' = File(<<>>) /\ cold' = FALSE /\ Changed
    /\ handle' = [handle EXCEPT ![p] = "linked"]
    /\ Goto(p, "none")
    /\ UNCHANGED <<zst, temp, raced>>

\* Opens for appending: open_log_file creates the file if it is not there.
Open(p, create) ==
    /\ mat[p] = "open"
    /\ plain.exists \/ create
    /\ IF plain.exists THEN UNCHANGED <<plain, cold, job>>
       ELSE plain' = File(<<>>) /\ cold' = FALSE /\ Changed
    /\ handle' = [handle EXCEPT ![p] = "linked"]
    /\ Goto(p, "none")
    /\ UNCHANGED <<zst, temp, raced>>

\* An error on the way, or the end of the opener: the temporary file goes.
GiveUp(p) ==
    /\ handle' = [handle EXCEPT ![p] = "none"]
    /\ temp' = [temp EXCEPT ![p] = <<>>]
    /\ Goto(p, "none")
    /\ UNCHANGED <<disk, job, raced>>

MatStep(p) == MatCheck(p) \/ Decompress(p) \/ Link(p) \/ RemoveCompressed(p)

-----------------------------------------------------------------------------
(* compress_rollout_if_cold_blocking                                       *)

JobTo(c, from, to) ==
    /\ job[c].at = from
    /\ job' = [job EXCEPT ![c].at = to]

\* cold_file_state, and the check for a compressed sibling.
StartJob(c) ==
    /\ job[c].at = "idle" /\ plain.exists /\ cold /\ ~zst.exists
    /\ job' = [job EXCEPT ![c] = [at |-> "encode", same |-> TRUE]]
    /\ UNCHANGED <<disk, handle, mat, temp, raced>>

\* encode_zstd_to_writer and verify_zstd.
Encode(c) ==
    /\ plain.exists
    /\ JobTo(c, "encode", "verify")
    /\ temp' = [temp EXCEPT ![c] = plain.data]
    /\ UNCHANGED <<disk, handle, mat, raced>>

\* same_file_state before the compressed file is put in place.
Verify(c) ==
    /\ job[c].same
    /\ JobTo(c, "verify", "persist")
    /\ UNCHANGED <<disk, handle, mat, temp, raced>>

\* persist_noclobber: AlreadyExists ends the job.
Persist(c) ==
    /\ ~zst.exists
    /\ JobTo(c, "persist", "recheck")
    /\ zst' = File(temp[c])
    /\ temp' = [temp EXCEPT ![c] = <<>>]
    /\ UNCHANGED <<plain, cold, handle, mat, raced>>

\* Mutant: the file is not compared again once the compressed one is in place.
RecheckSkipped(c) ==
    /\ job[c].at = "recheck"
    /\ job' = [job EXCEPT ![c] = [at |-> "remove", same |-> TRUE]]
    /\ UNCHANGED <<disk, handle, mat, temp, raced>>

\* same_file_state again: a plain file that has changed or has gone is kept,
\* the compressed one is not.
Recheck(c) ==
    /\ JobTo(c, "recheck", IF job[c].same THEN "remove" ELSE "drop")
    /\ UNCHANGED <<disk, handle, mat, temp, raced>>

DropCompressed(c) ==
    /\ job[c].at = "drop"
    /\ job' = [job EXCEPT ![c] = [at |-> "idle", same |-> TRUE]]
    /\ zst' = NoFile
    /\ UNCHANGED <<plain, cold, handle, mat, temp, raced>>

\* Somebody may still write to the file that is about to be removed, or has
\* written since it was compared last.
InUse(c) == ~job[c].same \/ \E p \in Openers : handle[p] = "linked" \/ mat[p] = "open"

\* remove_file of the plain file: an open file lives on without a name.
RemovePlain(c) ==
    /\ job[c].at = "remove" /\ plain.exists
    /\ raced' = (raced \/ InUse(c))
    /\ plain' = NoFile /\ cold' = FALSE
    /\ job' = [d \in Compressors |->
                 IF d = c THEN [at |-> "idle", same |-> TRUE]
                 ELSE [job[d] EXCEPT !.same = job[d].at = "idle"]]
    /\ handle' = [p \in Openers |-> IF handle[p] = "linked" THEN "orphan" ELSE handle[p]]
    /\ UNCHANGED <<zst, mat, temp>>

\* The job ends: a check that fails, an error, or the end of its process. It
\* leaves both files when the compressed one was in place.
EndJob(c) ==
    /\ job[c].at # "idle"
    /\ job' = [job EXCEPT ![c] = [at |-> "idle", same |-> TRUE]]
    /\ temp' = [temp EXCEPT ![c] = <<>>]
    /\ UNCHANGED <<disk, handle, mat, raced>>

Compress(c) ==
    \/ StartJob(c) \/ Encode(c) \/ Verify(c) \/ Persist(c) \/ Recheck(c)
    \/ DropCompressed(c) \/ RemovePlain(c) \/ EndJob(c)

\* MIN_ROLLOUT_AGE passes with nobody in the middle of an operation on files.
GrowsCold ==
    /\ plain.exists /\ ~cold
    /\ \A p \in Openers : mat[p] = "none"
    /\ \A c \in Compressors : job[c].at = "idle"
    /\ cold' = TRUE
    /\ UNCHANGED <<plain, zst, handle, mat, job, temp, raced>>

-----------------------------------------------------------------------------
(* Any appenders beside the workers.                                       *)

Appends(p) ==
    \/ StartOpen(p) \/ MatStep(p) \/ \E create \in BOOLEAN : Open(p, create)
    \/ \E piece \in Pieces, keep \in BOOLEAN : WriteTo(p, piece, keep)
    \/ GiveUp(p)

FilesNext ==
    \/ \E p \in Openers : Appends(p)
    \/ \E c \in Compressors : Compress(c)
    \/ GrowsCold

FilesSpec == FilesInit /\ [][FilesNext]_fileVars

-----------------------------------------------------------------------------
(* Properties *)

\* No step shortens or rewrites what readers see: not the worker, which
\* replaces the file by its compressed copy, and not the opener that undoes
\* it, wherever either of them is interrupted; as long as the worker has not
\* removed the file under an appender.
HistoryKept == [][~raced' => IsPrefix(Visible, Visible')]_fileVars

\* When both files are there the compressed one is an earlier state of the
\* plain one, so that preferring the plain one loses nothing.
SiblingIsOlder == ~raced /\ plain.exists /\ zst.exists => IsPrefix(zst.data, plain.data)
=============================================================================
