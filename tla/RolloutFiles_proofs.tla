------------------------ MODULE RolloutFiles_proofs ------------------------
(***************************************************************************)
(* Proofs about RolloutFiles, for any appenders, workers and items. Two    *)
(* things carry them. A change of the plain file makes every job that runs *)
(* stale, and no new one starts before all have ended and the file has     *)
(* grown cold again: Epochs. And while no file was removed under an        *)
(* appender, whoever is about to remove one of the two files knows that    *)
(* the other one is there and holds what readers see: Guarded.             *)
(***************************************************************************)
EXTENDS RolloutFiles, TLAPS

Running(c) == job[c].at # "idle"
Live(c) == Running(c) /\ job[c].same
Persisted(c) == job[c].at \in {"recheck", "remove"}

\* No job has seen the plain file as it is now.
AllStale == \A c \in Compressors : ~Live(c)

\* A file that is not there has no content; an open file that has its name is there.
Present ==
    /\ ~plain.exists => plain.data = <<>> /\ ~cold
    /\ ~zst.exists => zst.data = <<>>
    /\ \A p \in Openers : handle[p] = "linked" => plain.exists

\* Jobs that run together are all stale or none is. They are when the plain file is
\* missing, and while an opener restores it.
Epochs ==
    /\ (\E c \in Compressors : Running(c) /\ ~Live(c)) => ~cold /\ AllStale
    /\ ~plain.exists => AllStale
    /\ \A p \in Openers : mat[p] \in {"decompress", "link", "unzip"} => ~cold /\ AllStale
    /\ \A c \in Compressors : job[c].at = "drop" => ~Live(c)

\* The temporary file of a worker is an earlier state of the rollout; once the
\* compressed file of a live job is in place it is the rollout.
Copies ==
    \A c \in Compressors :
        /\ job[c].at \in {"verify", "persist"} => IsPrefix(temp[c], Visible)
        /\ Live(c) /\ job[c].at \in {"verify", "persist"} => temp[c] = plain.data
        /\ Live(c) /\ Persisted(c) => zst.exists /\ zst.data = plain.data
        /\ \A d \in Compressors : Live(c) /\ Persisted(c) /\ Live(d) /\ Persisted(d) => c = d

\* Who is about to remove one file, or to create the plain one, knows of the other.
Guarded ==
    /\ \A p \in Openers :
          /\ mat[p] = "link" /\ ~plain.exists => zst.data = temp[p]
          /\ mat[p] = "unzip" => plain.exists
          /\ mat[p] = "open" /\ ~plain.exists => ~zst.exists
    /\ \A c \in Compressors :
          /\ Running(c) => plain.exists \/ zst.exists
          /\ job[c].at \in {"recheck", "drop"} => plain.exists

FilesInv ==
    /\ FilesTypeOK /\ Present /\ Epochs
    /\ ~raced => Copies /\ Guarded
    /\ SiblingIsOlder

-----------------------------------------------------------------------------
(* Prefixes.                                                               *)

\* A prefix agrees with the longer sequence on all its places.
LEMMA PrefixDef ==
    ASSUME NEW S, NEW s \in Seq(S), NEW t \in Seq(S)
    PROVE  IsPrefix(s, t) <=> /\ Len(s) <= Len(t)
                              /\ \A i \in 1 .. Len(s) : s[i] = t[i]
<1>1. SubSeq(s, 1, Len(s)) = s
  OBVIOUS
<1>2. ASSUME Len(s) <= Len(t)
      PROVE  s = SubSeq(t, 1, Len(s)) <=> \A i \in 1 .. Len(s) : s[i] = t[i]
  BY <1>2
<1> QED
  BY <1>1, <1>2 DEF IsPrefix

\* Prefixes are an order, and what is appended to leaves a prefix.
LEMMA PrefixFacts ==
    ASSUME NEW S
    PROVE  /\ \A s \in Seq(S) : IsPrefix(s, s) /\ IsPrefix(<<>>, s)
           /\ \A r, s, t \in Seq(S) : IsPrefix(r, s) /\ IsPrefix(s, t) => IsPrefix(r, t)
           /\ \A s \in Seq(S), x \in S : IsPrefix(s, s \o <<x>>)
<1>1. ASSUME NEW s \in Seq(S) PROVE IsPrefix(s, s) /\ IsPrefix(<<>>, s)
  <2>1. IsPrefix(s, s)
    BY PrefixDef
  <2> DEFINE e == <<>>
  <2>2. e \in Seq(S) /\ Len(e) = 0
    OBVIOUS
  <2> HIDE DEF e
  <2>3. Len(e) <= Len(s) /\ \A i \in 1 .. Len(e) : e[i] = s[i]
    BY <2>2
  <2>4. IsPrefix(e, s)
    BY <2>2, <2>3, PrefixDef
  <2> QED
    BY <2>1, <2>4 DEF e
<1>2. ASSUME NEW r \in Seq(S), NEW s \in Seq(S), NEW t \in Seq(S),
             IsPrefix(r, s), IsPrefix(s, t)
      PROVE  IsPrefix(r, t)
  <2>1. /\ Len(r) <= Len(s) /\ \A i \in 1 .. Len(r) : r[i] = s[i]
        /\ Len(s) <= Len(t) /\ \A i \in 1 .. Len(s) : s[i] = t[i]
    BY <1>2, PrefixDef
  <2>2. Len(r) <= Len(t) /\ \A i \in 1 .. Len(r) : r[i] = t[i]
    BY <2>1
  <2> QED
    BY <2>2, PrefixDef
<1>3. ASSUME NEW s \in Seq(S), NEW x \in S PROVE IsPrefix(s, s \o <<x>>)
  <2>1. s \o <<x>> \in Seq(S)
    OBVIOUS
  <2>2. Len(s) <= Len(s \o <<x>>) /\ \A i \in 1 .. Len(s) : s[i] = (s \o <<x>>)[i]
    OBVIOUS
  <2> QED
    BY <2>1, <2>2, PrefixDef
<1> QED
  BY <1>1, <1>2, <1>3

-----------------------------------------------------------------------------
(* Types and job states.                                                   *)

\* A written file, and none.
LEMMA FileTypes == NoFile \in Files /\ \A d \in Seq(Pieces) : File(d) \in Files
  BY DEF NoFile, File, Files

\* The fields of a file.
LEMMA FileFields ==
    /\ NoFile.exists = FALSE /\ NoFile.data = <<>>
    /\ \A d : File(d).exists = TRUE /\ File(d).data = d
  BY DEF NoFile, File

\* What readers see is a sequence of lines.
LEMMA VisibleType ==
    ASSUME FilesTypeOK
    PROVE  plain.data \in Seq(Pieces) /\ zst.data \in Seq(Pieces) /\ Visible \in Seq(Pieces)
  BY DEF FilesTypeOK, Files, Visible

\* A change of the plain file makes all jobs stale and moves none.
LEMMA ChangedFacts ==
    ASSUME FilesTypeOK, Changed
    PROVE  /\ job' \in [Compressors -> Jobs]
           /\ \A c \in Compressors : job'[c].at = job[c].at
           /\ AllStale'
<1>1. \A c \in Compressors : job'[c] = [job[c] EXCEPT !.same = (job[c].at = "idle")]
  BY DEF Changed
<1>2. \A c \in Compressors : job[c] \in Jobs
  BY DEF FilesTypeOK
<1>3. \A c \in Compressors : job'[c] \in Jobs /\ job'[c].at = job[c].at
                             /\ job'[c].same = (job[c].at = "idle")
  BY <1>1, <1>2 DEF Jobs
<1>4. job' \in [Compressors -> Jobs]
  BY <1>3 DEF Changed
<1> QED
  BY <1>3, <1>4 DEF AllStale, Live, Running

\* A job that goes on keeps what it knows.
LEMMA JobToFacts ==
    ASSUME FilesTypeOK, NEW c \in Compressors, NEW from, NEW to \in JobSteps \ {"idle"},
           JobTo(c, from, to), from # "idle"
    PROVE  /\ job' \in [Compressors -> Jobs]
           /\ job[c].at = from /\ job'[c].at = to
           /\ \A d \in Compressors \ {c} : job'[d] = job[d]
           /\ \A d \in Compressors : (Live(d)' <=> Live(d)) /\ (Running(d)' <=> Running(d))
<1>1. job' = [job EXCEPT ![c] = [job[c] EXCEPT !.at = to]] /\ job[c].at = from
  BY DEF JobTo
<1>2. job[c] \in Jobs
  BY DEF FilesTypeOK
<1>3. /\ [job[c] EXCEPT !.at = to] \in Jobs /\ [job[c] EXCEPT !.at = to].at = to
      /\ [job[c] EXCEPT !.at = to].same = job[c].same
  BY <1>2 DEF Jobs
<1>4. /\ job'[c] = [job[c] EXCEPT !.at = to]
      /\ \A d \in Compressors \ {c} : job'[d] = job[d]
      /\ job' \in [Compressors -> Jobs]
  BY <1>1, <1>3 DEF FilesTypeOK
<1> QED
  BY <1>1, <1>3, <1>4 DEF Live, Running

\* A job that starts or ends looks at the file afresh.
LEMMA JobResetFacts ==
    ASSUME FilesTypeOK, NEW c \in Compressors, NEW a \in JobSteps,
           job' = [job EXCEPT ![c] = [at |-> a, same |-> TRUE]]
    PROVE  /\ job' \in [Compressors -> Jobs]
           /\ job'[c].at = a /\ job'[c].same = TRUE
           /\ \A d \in Compressors \ {c} : job'[d] = job[d]
  BY DEF FilesTypeOK, Jobs

\* The job that removes the plain file ends, all others are stale.
LEMMA RemovePlainFacts ==
    ASSUME FilesTypeOK, NEW c \in Compressors, RemovePlain(c)
    PROVE  /\ job' \in [Compressors -> Jobs]
           /\ job'[c].at = "idle"
           /\ \A d \in Compressors \ {c} : job'[d].at = job[d].at
           /\ AllStale'
<1>1. \A d \in Compressors \ {c} : job'[d] = [job[d] EXCEPT !.same = (job[d].at = "idle")]
  BY DEF RemovePlain
<1>2. \A d \in Compressors : job[d] \in Jobs
  BY DEF FilesTypeOK
<1>3. \A d \in Compressors \ {c} : job'[d] \in Jobs /\ job'[d].at = job[d].at
                                   /\ job'[d].same = (job[d].at = "idle")
  BY <1>1, <1>2 DEF Jobs
<1>4. job'[c] = [at |-> "idle", same |-> TRUE] /\ [at |-> "idle", same |-> TRUE] \in Jobs
  BY DEF RemovePlain, Jobs, JobSteps
<1>5. job' \in [Compressors -> Jobs]
  BY <1>3, <1>4 DEF RemovePlain
<1>6. \A d \in Compressors \ {c} : ~Live(d)'
  BY <1>3 DEF Live, Running
<1>7. job'[c].at = "idle"
  BY <1>4
<1>8. ~Live(c)'
  BY <1>7 DEF Live, Running
<1> QED
  BY <1>3, <1>5, <1>6, <1>7, <1>8 DEF AllStale

\* Every step preserves the types.
LEMMA FilesTypeStep == FilesTypeOK /\ [FilesNext]_fileVars => FilesTypeOK'
<1> SUFFICES ASSUME FilesTypeOK, [FilesNext]_fileVars PROVE FilesTypeOK'
  OBVIOUS
<1> USE DEF disk
<1> DEFINE TempType == temp' \in [Procs -> Seq(Pieces)]
<1>0. /\ "none" \in MatSteps /\ "check" \in MatSteps /\ "open" \in MatSteps
      /\ "decompress" \in MatSteps /\ "link" \in MatSteps /\ "unzip" \in MatSteps
      /\ Openers \subseteq Procs /\ Compressors \subseteq Procs
  BY DEF MatSteps, Procs
<1>1. ASSUME NEW p \in Openers, NEW s \in MatSteps, Goto(p, s)
      PROVE  mat' \in [Openers -> MatSteps]
  BY <1>1 DEF Goto, FilesTypeOK
<1>2. ASSUME NEW p \in Openers, StartOpen(p) \/ MatCheck(p) PROVE FilesTypeOK'
  <2>1. mat' \in [Openers -> MatSteps]
    BY <1>0, <1>1, <1>2 DEF StartOpen, MatCheck
  <2> QED
    BY <1>2, <2>1, Zenon DEF StartOpen, MatCheck, FilesTypeOK
<1>3. ASSUME NEW p \in Openers, Decompress(p) PROVE FilesTypeOK'
  <2>1. mat' \in [Openers -> MatSteps]
    BY <1>0, <1>1, <1>3 DEF Decompress
  <2>2. TempType
    BY <1>0, <1>3, VisibleType DEF Decompress, FilesTypeOK
  <2> QED
    BY <1>3, <2>1, <2>2, Zenon DEF Decompress, FilesTypeOK
<1>4. ASSUME NEW p \in Openers, Link(p) PROVE FilesTypeOK'
  <2>1. mat' \in [Openers -> MatSteps]
    BY <1>0, <1>1, <1>4 DEF Link
  <2>2. TempType
    BY <1>0, <1>4 DEF Link, FilesTypeOK
  <2>3. plain' \in Files
    BY <1>0, <1>4, FileTypes DEF Link, FilesTypeOK
  <2>4. job' \in [Compressors -> Jobs]
    BY <1>4, ChangedFacts DEF Link, FilesTypeOK
  <2>5. cold' \in BOOLEAN
    BY <1>4, Zenon DEF Link, FilesTypeOK
  <2> QED
    BY <1>4, <2>1, <2>2, <2>3, <2>4, <2>5, Zenon DEF Link, FilesTypeOK
<1>5. ASSUME NEW p \in Openers, RemoveCompressed(p) PROVE FilesTypeOK'
  <2>1. mat' \in [Openers -> MatSteps]
    BY <1>0, <1>1, <1>5 DEF RemoveCompressed
  <2> QED
    BY <1>5, <2>1, FileTypes, Zenon DEF RemoveCompressed, FilesTypeOK
<1>6. ASSUME NEW p \in Openers, NEW create \in BOOLEAN, Open(p, create) PROVE FilesTypeOK'
  <2>1. mat' \in [Openers -> MatSteps] /\ <<>> \in Seq(Pieces)
    BY <1>0, <1>1, <1>6 DEF Open
  <2>2. plain' \in Files
    BY <1>6, <2>1, FileTypes DEF Open, FilesTypeOK
  <2>3. job' \in [Compressors -> Jobs]
    BY <1>6, ChangedFacts DEF Open, FilesTypeOK
  <2>4. handle' \in [Openers -> {"none", "linked", "orphan"}]
    BY <1>6 DEF Open, FilesTypeOK
  <2>5. cold' \in BOOLEAN
    BY <1>6, Zenon DEF Open, FilesTypeOK
  <2> QED
    BY <1>6, <2>1, <2>2, <2>3, <2>4, <2>5, Zenon DEF Open, FilesTypeOK
<1>7. ASSUME NEW p \in Openers, NEW piece \in Pieces, NEW keep \in BOOLEAN,
             WriteTo(p, piece, keep)
      PROVE  FilesTypeOK'
  <2>1. plain.data \o <<piece>> \in Seq(Pieces)
    BY VisibleType
  <2>2. plain' \in Files
    BY <1>7, <2>1, FileTypes DEF WriteTo, FilesTypeOK
  <2>3. job' \in [Compressors -> Jobs]
    BY <1>7, ChangedFacts DEF WriteTo, FilesTypeOK
  <2>4. handle' \in [Openers -> {"none", "linked", "orphan"}]
    BY <1>7 DEF WriteTo, FilesTypeOK
  <2>5. cold' \in BOOLEAN
    BY <1>7, Zenon DEF WriteTo, FilesTypeOK
  <2> QED
    BY <1>7, <2>2, <2>3, <2>4, <2>5, Zenon DEF WriteTo, FilesTypeOK
<1>8. ASSUME NEW p \in Openers, GiveUp(p) PROVE FilesTypeOK'
  <2>1. mat' \in [Openers -> MatSteps]
    BY <1>0, <1>1, <1>8 DEF GiveUp
  <2>2. TempType
    BY <1>0, <1>8 DEF GiveUp, FilesTypeOK
  <2>3. handle' \in [Openers -> {"none", "linked", "orphan"}]
    BY <1>8 DEF GiveUp, FilesTypeOK
  <2> QED
    BY <1>8, <2>1, <2>2, <2>3, Zenon DEF GiveUp, FilesTypeOK
<1>9. ASSUME NEW c \in Compressors, StartJob(c) PROVE FilesTypeOK'
  <2>1. job' \in [Compressors -> Jobs]
    BY <1>9, JobResetFacts DEF StartJob, JobSteps
  <2> QED
    BY <1>9, <2>1, Zenon DEF StartJob, FilesTypeOK
<1>10. ASSUME NEW c \in Compressors, Encode(c) PROVE FilesTypeOK'
  <2>1. job' \in [Compressors -> Jobs]
    BY <1>10, JobToFacts DEF Encode, JobSteps
  <2>2. TempType
    BY <1>0, <1>10, VisibleType DEF Encode, FilesTypeOK
  <2> QED
    BY <1>10, <2>1, <2>2, Zenon DEF Encode, FilesTypeOK
<1>11. ASSUME NEW c \in Compressors, Verify(c) \/ Recheck(c) PROVE FilesTypeOK'
  <2>1. job' \in [Compressors -> Jobs]
    BY <1>11, JobToFacts DEF Verify, Recheck, JobSteps
  <2> QED
    BY <1>11, <2>1, Zenon DEF Verify, Recheck, FilesTypeOK
<1>12. ASSUME NEW c \in Compressors, Persist(c) PROVE FilesTypeOK'
  <2>1. job' \in [Compressors -> Jobs]
    BY <1>12, JobToFacts DEF Persist, JobSteps
  <2>2. TempType /\ zst' \in Files
    BY <1>0, <1>12, FileTypes DEF Persist, FilesTypeOK
  <2> QED
    BY <1>12, <2>1, <2>2, Zenon DEF Persist, FilesTypeOK
<1>13. ASSUME NEW c \in Compressors, DropCompressed(c) PROVE FilesTypeOK'
  <2>1. job' \in [Compressors -> Jobs]
    BY <1>13, JobResetFacts DEF DropCompressed, JobSteps
  <2> QED
    BY <1>13, <2>1, FileTypes, Zenon DEF DropCompressed, FilesTypeOK
<1>14. ASSUME NEW c \in Compressors, RemovePlain(c) PROVE FilesTypeOK'
  <2>1. handle' \in [Openers -> {"none", "linked", "orphan"}]
    BY <1>14 DEF RemovePlain, FilesTypeOK
  <2>2. raced' \in BOOLEAN
    BY <1>14, Zenon DEF RemovePlain
  <2> QED
    BY <1>14, <2>1, <2>2, RemovePlainFacts, FileTypes, Zenon DEF RemovePlain, FilesTypeOK
<1>15. ASSUME NEW c \in Compressors, EndJob(c) PROVE FilesTypeOK'
  <2>1. job' \in [Compressors -> Jobs]
    BY <1>15, JobResetFacts DEF EndJob, JobSteps
  <2>2. TempType
    BY <1>0, <1>15 DEF EndJob, FilesTypeOK
  <2> QED
    BY <1>15, <2>1, <2>2, Zenon DEF EndJob, FilesTypeOK
<1>16. CASE GrowsCold
  BY <1>16, Zenon DEF GrowsCold, FilesTypeOK
<1>17. CASE UNCHANGED fileVars
  BY <1>17, Zenon DEF fileVars, FilesTypeOK
<1> QED
  BY <1>2, <1>3, <1>4, <1>5, <1>6, <1>7, <1>8, <1>9, <1>10, <1>11, <1>12, <1>13, <1>14,
     <1>15, <1>16, <1>17
  DEF FilesNext, Appends, MatStep, Compress

-----------------------------------------------------------------------------
(* The steps, by what they leave alone.                                    *)

\* Steps that leave the files and the jobs alone.
LEMMA QuietSteps ==
    ASSUME FilesTypeOK, NEW p \in Openers,
           StartOpen(p) \/ MatCheck(p) \/ Decompress(p) \/ GiveUp(p)
    PROVE  /\ UNCHANGED <<plain, zst, cold, job, raced>>
           /\ \A c \in Compressors : temp'[c] = temp[c]
           /\ \A q \in Openers \ {p} : mat'[q] = mat[q] /\ temp'[q] = temp[q]
           /\ \A q \in Openers : handle'[q] \in {handle[q], "none"}
<1> USE DEF FilesTypeOK, disk, Goto
<1>1. UNCHANGED <<plain, zst, cold, job, raced>>
  BY DEF StartOpen, MatCheck, Decompress, GiveUp
<1>2. \A c \in Procs \ {p} : temp'[c] = temp[c]
  BY DEF StartOpen, MatCheck, Decompress, GiveUp
<1>3. \A q \in Openers \ {p} : mat'[q] = mat[q]
  BY DEF StartOpen, MatCheck, Decompress, GiveUp
<1>4. \A q \in Openers : handle'[q] \in {handle[q], "none"}
  BY DEF StartOpen, MatCheck, Decompress, GiveUp
<1> QED
  BY <1>1, <1>2, <1>3, <1>4, FilesAssumption DEF Procs

\* What an opener does after one of these steps.
LEMMA QuietMoves ==
    ASSUME FilesTypeOK, NEW p \in Openers,
           StartOpen(p) \/ MatCheck(p) \/ Decompress(p) \/ GiveUp(p)
    PROVE  \/ mat'[p] \in {"none", "check"}
           \/ mat'[p] = "open" /\ (plain.exists \/ ~zst.exists)
           \/ mat'[p] = "decompress" /\ ~plain.exists
           \/ mat'[p] = "link" /\ mat[p] = "decompress" /\ temp'[p] = zst.data
<1> USE DEF FilesTypeOK, Goto
<1>1. CASE StartOpen(p) \/ GiveUp(p)
  BY <1>1 DEF StartOpen, GiveUp
<1>2. CASE MatCheck(p)
  BY <1>2 DEF MatCheck
<1>3. CASE Decompress(p)
  BY <1>3 DEF Decompress, Procs
<1> QED
  BY <1>1, <1>2, <1>3

\* Present, step by step.
LEMMA PresentStep == FilesTypeOK /\ Present /\ [FilesNext]_fileVars => Present'
<1> SUFFICES ASSUME FilesTypeOK, Present, [FilesNext]_fileVars PROVE Present'
  OBVIOUS
<1> USE FileFields DEF Present
<1>1. ASSUME NEW p \in Openers,
             StartOpen(p) \/ MatCheck(p) \/ Decompress(p) \/ GiveUp(p)
      PROVE  Present'
  BY <1>1, QuietSteps
<1>2. ASSUME NEW p \in Openers, Link(p) PROVE Present'
  BY <1>2 DEF Link
<1>3. ASSUME NEW p \in Openers, RemoveCompressed(p) PROVE Present'
  BY <1>3 DEF RemoveCompressed
<1>4. ASSUME NEW p \in Openers, NEW create \in BOOLEAN, Open(p, create) PROVE Present'
  BY <1>4 DEF Open
<1>5. ASSUME NEW p \in Openers, NEW piece \in Pieces, NEW keep \in BOOLEAN,
             WriteTo(p, piece, keep)
      PROVE  Present'
  <2>1. \A q \in Openers : handle'[q] = "linked" => handle[q] = "linked"
    BY <1>5 DEF WriteTo, FilesTypeOK
  <2> QED
    BY <1>5, <2>1 DEF WriteTo
<1>6. ASSUME NEW c \in Compressors,
             \/ StartJob(c) \/ Encode(c) \/ Verify(c) \/ Recheck(c) \/ EndJob(c)
      PROVE  Present'
  BY <1>6 DEF StartJob, Encode, Verify, Recheck, EndJob, disk
<1>7. ASSUME NEW c \in Compressors, Persist(c) \/ DropCompressed(c) PROVE Present'
  BY <1>7 DEF Persist, DropCompressed
<1>8. ASSUME NEW c \in Compressors, RemovePlain(c) PROVE Present'
  <2>1. \A q \in Openers : handle'[q] # "linked"
    BY <1>8 DEF RemovePlain
  <2> QED
    BY <1>8, <2>1 DEF RemovePlain
<1>9. CASE GrowsCold
  BY <1>9 DEF GrowsCold
<1>10. CASE UNCHANGED fileVars
  BY <1>10 DEF fileVars, disk
<1> QED
  BY <1>1, <1>2, <1>3, <1>4, <1>5, <1>6, <1>7, <1>8, <1>9, <1>10
  DEF FilesNext, Appends, MatStep, Compress

\* Epochs, step by step: a change of the plain file makes all jobs stale, a job that
\* starts finds none that is.
LEMMA EpochsStep == FilesTypeOK /\ Present /\ Epochs /\ [FilesNext]_fileVars => Epochs'
<1> SUFFICES ASSUME FilesTypeOK, Present, Epochs, [FilesNext]_fileVars PROVE Epochs'
  OBVIOUS
<1>1. ASSUME AllStale', ~cold' PROVE Epochs'
  BY <1>1 DEF Epochs, AllStale
<1>2. ASSUME NEW p \in Openers,
             StartOpen(p) \/ MatCheck(p) \/ Decompress(p) \/ GiveUp(p)
      PROVE  Epochs'
  <2>1. UNCHANGED <<plain, cold, job>> /\ \A q \in Openers \ {p} : mat'[q] = mat[q]
    BY <1>2, QuietSteps
  <2>2. mat'[p] \in {"decompress", "link", "unzip"} => ~cold /\ AllStale
    BY <1>2, QuietMoves DEF Epochs, Present
  <2>3. \A q \in Openers : mat'[q] \in {"decompress", "link", "unzip"} => ~cold /\ AllStale
    BY <2>1, <2>2 DEF Epochs
  <2> QED
    BY <2>1, <2>3 DEF Epochs, AllStale, Live, Running
<1>3. ASSUME NEW p \in Openers, Link(p) PROVE Epochs'
  <2>1. CASE plain.exists
    <3>1. UNCHANGED <<plain, cold, job>>
      BY <1>3, <2>1 DEF Link
    <3>2. mat[p] = "link" /\ \A q \in Openers \ {p} : mat'[q] = mat[q]
      BY <1>3 DEF Link, Goto, FilesTypeOK
    <3> QED
      BY <3>1, <3>2 DEF Epochs, AllStale, Live, Running
  <2>2. CASE ~plain.exists
    BY <1>1, <1>3, <2>2, ChangedFacts DEF Link
  <2> QED
    BY <2>1, <2>2
<1>4. ASSUME NEW p \in Openers, RemoveCompressed(p) PROVE Epochs'
  <2>1. UNCHANGED <<plain, cold, job>>
    BY <1>4 DEF RemoveCompressed
  <2>2. mat[p] = "unzip" /\ \A q \in Openers \ {p} : mat'[q] = mat[q]
    BY <1>4 DEF RemoveCompressed, Goto, FilesTypeOK
  <2> QED
    BY <2>1, <2>2 DEF Epochs, AllStale, Live, Running
<1>5. ASSUME NEW p \in Openers, NEW create \in BOOLEAN, Open(p, create) PROVE Epochs'
  <2>1. CASE plain.exists
    <3>1. UNCHANGED <<plain, cold, job>>
      BY <1>5, <2>1 DEF Open
    <3>2. mat'[p] = "none" /\ \A q \in Openers \ {p} : mat'[q] = mat[q]
      BY <1>5 DEF Open, Goto, FilesTypeOK
    <3> QED
      BY <3>1, <3>2 DEF Epochs, AllStale, Live, Running
  <2>2. CASE ~plain.exists
    BY <1>1, <1>5, <2>2, ChangedFacts DEF Open
  <2> QED
    BY <2>1, <2>2
<1>6. ASSUME NEW p \in Openers, NEW piece \in Pieces, NEW keep \in BOOLEAN,
             WriteTo(p, piece, keep)
      PROVE  Epochs'
  <2>1. CASE handle[p] = "linked"
    BY <1>1, <1>6, <2>1, ChangedFacts DEF WriteTo
  <2>2. CASE handle[p] # "linked"
    <3>1. UNCHANGED <<plain, cold, job, mat>>
      BY <1>6, <2>2 DEF WriteTo
    <3> QED
      BY <3>1 DEF Epochs, AllStale, Live, Running
  <2> QED
    BY <2>1, <2>2
<1>7. ASSUME NEW c \in Compressors, StartJob(c) PROVE Epochs'
  <2>1. /\ job'[c].same = TRUE /\ job'[c].at = "encode"
        /\ \A d \in Compressors \ {c} : job'[d] = job[d]
    BY <1>7, JobResetFacts DEF StartJob, JobSteps
  <2>2. cold /\ plain.exists /\ UNCHANGED <<plain, cold, mat>>
    BY <1>7 DEF StartJob, disk
  <2>3. \A d \in Compressors : Running(d) => Live(d)
    BY <2>2 DEF Epochs
  <2>4. \A d \in Compressors : Running(d)' => Live(d)'
    BY <2>1, <2>3 DEF Running, Live
  <2>5. \A d \in Compressors : job'[d].at # "drop"
    BY <2>1, <2>3 DEF Epochs, Running
  <2> QED
    BY <2>2, <2>4, <2>5 DEF Epochs
<1>8. ASSUME UNCHANGED <<plain, cold, mat>>,
             \A d \in Compressors : (Live(d)' <=> Live(d)) /\ (Running(d)' <=> Running(d)),
             \A d \in Compressors : job'[d].at = "drop" => ~Live(d)
      PROVE  Epochs'
  BY <1>8 DEF Epochs, AllStale
<1>9. ASSUME NEW c \in Compressors, Encode(c) \/ Verify(c) \/ Persist(c) PROVE Epochs'
  <2>1. UNCHANGED <<plain, cold, mat>>
    BY <1>9 DEF Encode, Verify, Persist, disk
  <2>2. /\ \A d \in Compressors : (Live(d)' <=> Live(d)) /\ (Running(d)' <=> Running(d))
        /\ job'[c].at # "drop" /\ \A d \in Compressors \ {c} : job'[d] = job[d]
    BY <1>9, JobToFacts DEF Encode, Verify, Persist, JobSteps
  <2> QED
    BY <1>8, <2>1, <2>2 DEF Epochs
<1>10. ASSUME NEW c \in Compressors, Recheck(c) PROVE Epochs'
  <2>1. UNCHANGED <<plain, cold, mat>>
    BY <1>10 DEF Recheck, disk
  <2>2. /\ \A d \in Compressors : (Live(d)' <=> Live(d)) /\ (Running(d)' <=> Running(d))
        /\ \A d \in Compressors \ {c} : job'[d] = job[d]
        /\ job'[c].at = IF job[c].same THEN "remove" ELSE "drop"
    BY <1>10, JobToFacts DEF Recheck, JobSteps
  <2> QED
    BY <1>8, <2>1, <2>2 DEF Epochs, Live
<1>11. ASSUME NEW c \in Compressors, DropCompressed(c) \/ EndJob(c) PROVE Epochs'
  <2>1. UNCHANGED <<plain, cold, mat>>
    BY <1>11 DEF DropCompressed, EndJob, disk
  <2>2. job'[c].at = "idle" /\ \A d \in Compressors \ {c} : job'[d] = job[d]
    BY <1>11, JobResetFacts DEF DropCompressed, EndJob, JobSteps
  <2> QED
    BY <2>1, <2>2 DEF Epochs, AllStale, Live, Running
<1>12. ASSUME NEW c \in Compressors, RemovePlain(c) PROVE Epochs'
  BY <1>1, <1>12, RemovePlainFacts DEF RemovePlain
<1>13. CASE GrowsCold
  <2>1. /\ \A c \in Compressors : ~Running(c) /\ job[c].at # "drop"
        /\ \A p \in Openers : mat[p] = "none"
        /\ UNCHANGED <<plain, job, mat>>
    BY <1>13 DEF GrowsCold, Running
  <2> QED
    BY <2>1 DEF Epochs, AllStale, Live, Running
<1>14. CASE UNCHANGED fileVars
  BY <1>14 DEF fileVars, disk, Epochs, AllStale, Live, Running
<1> QED
  BY <1>2, <1>3, <1>4, <1>5, <1>6, <1>7, <1>9, <1>10, <1>11, <1>12, <1>13, <1>14
  DEF FilesNext, Appends, MatStep, Compress

\* Once a file was removed under an appender the observation stays.
LEMMA RacedStays == FilesTypeOK /\ [FilesNext]_fileVars => (raced => raced')
<1> SUFFICES ASSUME FilesTypeOK, [FilesNext]_fileVars PROVE raced => raced'
  OBVIOUS
<1>1. ASSUME NEW p \in Openers, Appends(p) PROVE raced' = raced
  BY <1>1 DEF Appends, StartOpen, MatStep, MatCheck, Decompress, Link, RemoveCompressed,
     Open, WriteTo, GiveUp
<1>2. ASSUME NEW c \in Compressors, RemovePlain(c) PROVE raced => raced'
  BY <1>2, Zenon DEF RemovePlain
<1>3. ASSUME NEW c \in Compressors,
             \/ StartJob(c) \/ Encode(c) \/ Verify(c) \/ Persist(c) \/ Recheck(c)
             \/ DropCompressed(c) \/ EndJob(c)
      PROVE  raced' = raced
  BY <1>3 DEF StartJob, Encode, Verify, Persist, Recheck, DropCompressed, EndJob
<1> QED
  BY <1>1, <1>2, <1>3 DEF FilesNext, Compress, GrowsCold, fileVars

\* The worker that removes the plain file has its copy in place, and nobody is about
\* to write.
LEMMA RemovesSafely ==
    ASSUME FilesInv, NEW c \in Compressors, RemovePlain(c), ~raced'
    PROVE  /\ ~raced /\ Live(c) /\ job[c].at = "remove"
           /\ zst.exists /\ zst.data = plain.data
           /\ \A p \in Openers : mat[p] \notin {"decompress", "link", "unzip", "open"}
           /\ \A d \in Compressors : job[d].at # "drop"
           /\ \A d \in Compressors \ {c} : ~Persisted(d)
<1>1. ~raced /\ ~InUse(c) /\ job[c].at = "remove"
  BY Zenon DEF RemovePlain
<1>2. Live(c) /\ \A p \in Openers : mat[p] # "open"
  BY <1>1 DEF InUse, Live, Running
<1>3. Copies /\ Epochs
  BY <1>1 DEF FilesInv
<1>4. zst.exists /\ zst.data = plain.data
  BY <1>1, <1>2, <1>3 DEF Copies, Persisted
<1>5. ~AllStale
  BY <1>2 DEF AllStale
<1>6. \A d \in Compressors : Running(d) => Live(d)
  BY <1>3, <1>5 DEF Epochs
<1>7. /\ \A p \in Openers : mat[p] \notin {"decompress", "link", "unzip"}
      /\ \A d \in Compressors : job[d].at # "drop"
  BY <1>3, <1>5, <1>6 DEF Epochs, Running
<1>8. \A d \in Compressors \ {c} : ~Persisted(d)
  BY <1>1, <1>2, <1>3, <1>6 DEF Copies, Persisted, Running
<1> QED
  BY <1>1, <1>2, <1>4, <1>7, <1>8

\* What readers see grows: the heart of HistoryKept.
LEMMA HistoryStep ==
    ASSUME FilesInv, [FilesNext]_fileVars, ~raced'
    PROVE  IsPrefix(Visible, Visible')
<1>1. ~raced
  BY RacedStays DEF FilesInv
<1>2. Copies /\ Guarded /\ Present /\ FilesTypeOK
  BY <1>1 DEF FilesInv
<1>3. ASSUME Visible' = Visible PROVE IsPrefix(Visible, Visible')
  BY <1>2, <1>3, VisibleType, PrefixFacts
<1>4. ASSUME UNCHANGED <<plain, zst>> PROVE IsPrefix(Visible, Visible')
  BY <1>3, <1>4 DEF Visible
<1>5. ASSUME plain.exists, UNCHANGED plain PROVE IsPrefix(Visible, Visible')
  BY <1>3, <1>5 DEF Visible
<1> USE FileFields
<1>6. ASSUME NEW p \in Openers,
             StartOpen(p) \/ MatCheck(p) \/ Decompress(p) \/ GiveUp(p)
      PROVE  IsPrefix(Visible, Visible')
  BY <1>2, <1>4, <1>6, QuietSteps
<1>7. ASSUME NEW p \in Openers, Link(p) PROVE IsPrefix(Visible, Visible')
  <2>1. CASE plain.exists
    BY <1>4, <1>7, <2>1 DEF Link
  <2>2. CASE ~plain.exists
    BY <1>2, <1>3, <1>7, <2>2 DEF Link, Guarded, Visible
  <2> QED
    BY <2>1, <2>2
<1>8. ASSUME NEW p \in Openers, RemoveCompressed(p) PROVE IsPrefix(Visible, Visible')
  BY <1>2, <1>5, <1>8 DEF RemoveCompressed, Guarded
<1>9. ASSUME NEW p \in Openers, NEW create \in BOOLEAN, Open(p, create)
      PROVE  IsPrefix(Visible, Visible')
  <2>1. CASE plain.exists
    BY <1>4, <1>9, <2>1 DEF Open
  <2>2. CASE ~plain.exists
    <3>1. Visible = <<>> /\ Visible' = <<>>
      BY <1>2, <1>9, <2>2 DEF Open, Guarded, Present, Visible
    <3> QED
      BY <1>3, <3>1
  <2> QED
    BY <2>1, <2>2
<1>10. ASSUME NEW p \in Openers, NEW piece \in Pieces, NEW keep \in BOOLEAN,
              WriteTo(p, piece, keep)
       PROVE  IsPrefix(Visible, Visible')
  <2>1. CASE handle[p] = "linked"
    <3>1. Visible = plain.data /\ Visible' = plain.data \o <<piece>>
      BY <1>2, <1>10, <2>1 DEF WriteTo, Present, Visible
    <3> QED
      BY <1>2, <3>1, VisibleType, PrefixFacts
  <2>2. CASE handle[p] # "linked"
    BY <1>4, <1>10, <2>2 DEF WriteTo
  <2> QED
    BY <2>1, <2>2
<1>11. ASSUME NEW c \in Compressors,
              \/ StartJob(c) \/ Encode(c) \/ Verify(c) \/ Recheck(c) \/ EndJob(c)
       PROVE  IsPrefix(Visible, Visible')
  BY <1>4, <1>11 DEF StartJob, Encode, Verify, Recheck, EndJob, disk
<1>12. ASSUME NEW c \in Compressors, Persist(c) PROVE IsPrefix(Visible, Visible')
  <2>1. plain.exists
    BY <1>2, <1>12 DEF Persist, JobTo, Guarded, Running
  <2> QED
    BY <1>5, <1>12, <2>1 DEF Persist
<1>13. ASSUME NEW c \in Compressors, DropCompressed(c) PROVE IsPrefix(Visible, Visible')
  BY <1>2, <1>5, <1>13 DEF DropCompressed, Guarded
<1>14. ASSUME NEW c \in Compressors, RemovePlain(c) PROVE IsPrefix(Visible, Visible')
  <2>1. zst.data = plain.data /\ plain.exists
    BY <1>14, RemovesSafely DEF RemovePlain
  <2> QED
    BY <1>3, <1>14, <2>1 DEF RemovePlain, Visible
<1>15. CASE GrowsCold \/ UNCHANGED fileVars
  BY <1>4, <1>15 DEF GrowsCold, fileVars, disk
<1> QED
  BY <1>6, <1>7, <1>8, <1>9, <1>10, <1>11, <1>12, <1>13, <1>14, <1>15
  DEF FilesNext, Appends, MatStep, Compress

\* Guarded, step by step.
LEMMA GuardedStep ==
    ASSUME FilesInv, [FilesNext]_fileVars, ~raced'
    PROVE  Guarded'
<1>1. ~raced
  BY RacedStays DEF FilesInv
<1>2. Copies /\ Guarded /\ Present /\ FilesTypeOK /\ Epochs
  BY <1>1 DEF FilesInv
<1> USE FileFields
<1>3. ASSUME NEW p \in Openers,
             StartOpen(p) \/ MatCheck(p) \/ Decompress(p) \/ GiveUp(p)
      PROVE  Guarded'
  <2>1. /\ UNCHANGED <<plain, zst, job>>
        /\ \A q \in Openers \ {p} : mat'[q] = mat[q] /\ temp'[q] = temp[q]
    BY <1>2, <1>3, QuietSteps
  <2>2. \/ mat'[p] \in {"none", "check", "decompress"}
        \/ mat'[p] = "open" /\ (plain.exists \/ ~zst.exists)
        \/ mat'[p] = "link" /\ temp'[p] = zst.data
    BY <1>2, <1>3, QuietMoves
  <2> QED
    BY <1>2, <2>1, <2>2 DEF Guarded, Running
<1>5. ASSUME NEW p \in Openers, Link(p) PROVE Guarded'
  <2>1. plain'.exists
    BY <1>5 DEF Link
  <2> QED
    BY <2>1 DEF Guarded
<1>6. ASSUME NEW p \in Openers, RemoveCompressed(p) PROVE Guarded'
  <2>1. plain'.exists
    BY <1>2, <1>6 DEF RemoveCompressed, Guarded
  <2> QED
    BY <2>1 DEF Guarded
<1>7. ASSUME NEW p \in Openers, NEW create \in BOOLEAN, Open(p, create) PROVE Guarded'
  <2>1. plain'.exists
    BY <1>7 DEF Open
  <2> QED
    BY <2>1 DEF Guarded
<1>8. ASSUME NEW p \in Openers, NEW piece \in Pieces, NEW keep \in BOOLEAN,
             WriteTo(p, piece, keep)
      PROVE  Guarded'
  <2>1. CASE plain'.exists
    BY <2>1 DEF Guarded
  <2>2. CASE ~plain'.exists
    <3>1. UNCHANGED <<plain, zst, job, mat, temp>>
      BY <1>8, <2>2 DEF WriteTo
    <3> QED
      BY <1>2, <3>1 DEF Guarded, Running
  <2> QED
    BY <2>1, <2>2
<1>9. ASSUME NEW c \in Compressors, StartJob(c) PROVE Guarded'
  BY <1>9 DEF StartJob, disk, Guarded
<1>10. ASSUME UNCHANGED <<plain, zst, mat>>,
              \A q \in Openers : temp'[q] = temp[q],
              \A d \in Compressors : Running(d)' => Running(d),
              \A d \in Compressors : job'[d].at \in {"recheck", "drop"} =>
                                        job[d].at \in {"recheck", "drop"}
       PROVE  Guarded'
  BY <1>2, <1>10 DEF Guarded
<1>11. ASSUME NEW c \in Compressors, NEW q \in Openers PROVE c # q
  BY FilesAssumption
<1>12. ASSUME NEW c \in Compressors, Encode(c) PROVE Guarded'
  BY <1>12 DEF Encode, disk, Guarded
<1>13. ASSUME NEW c \in Compressors, Verify(c) \/ Recheck(c) PROVE Guarded'
  <2>1. /\ \A d \in Compressors : Running(d)' => Running(d)
        /\ job[c].at \in {"verify", "recheck"}
        /\ \A d \in Compressors \ {c} : job'[d] = job[d]
        /\ job[c].at = "verify" => job'[c].at = "persist"
    BY <1>2, <1>13, JobToFacts DEF Verify, Recheck, JobSteps
  <2>2. \A d \in Compressors : job'[d].at \in {"recheck", "drop"} =>
                                   job[d].at \in {"recheck", "drop"}
    BY <2>1
  <2> QED
    BY <1>10, <1>13, <2>1, <2>2 DEF Verify, Recheck, disk
<1>14. ASSUME NEW c \in Compressors, Persist(c) PROVE Guarded'
  <2>1. plain.exists
    BY <1>2, <1>14 DEF Persist, JobTo, Guarded, Running
  <2> QED
    BY <1>14, <2>1 DEF Persist, Guarded
<1>15. ASSUME NEW c \in Compressors, DropCompressed(c) PROVE Guarded'
  <2>1. plain.exists
    BY <1>2, <1>15 DEF DropCompressed, Guarded
  <2> QED
    BY <1>15, <2>1 DEF DropCompressed, Guarded
<1>16. ASSUME NEW c \in Compressors, EndJob(c) PROVE Guarded'
  <2>1. job'[c].at = "idle" /\ \A d \in Compressors \ {c} : job'[d] = job[d]
    BY <1>2, <1>16, JobResetFacts DEF EndJob, JobSteps
  <2>2. \A q \in Openers : temp'[q] = temp[q]
    BY <1>2, <1>11, <1>16 DEF EndJob, FilesTypeOK, Procs
  <2> QED
    BY <1>10, <1>16, <2>1, <2>2 DEF EndJob, disk, Running
<1>17. ASSUME NEW c \in Compressors, RemovePlain(c) PROVE Guarded'
  <2>1. /\ \A p \in Openers : mat[p] \notin {"decompress", "link", "unzip", "open"}
        /\ \A d \in Compressors : job[d].at # "drop"
        /\ \A d \in Compressors \ {c} : ~Persisted(d)
        /\ zst.exists
    BY <1>17, RemovesSafely
  <2>2. mat' = mat /\ zst' = zst
    BY <1>17 DEF RemovePlain
  <2>3. job'[c].at = "idle" /\ \A d \in Compressors \ {c} : job'[d].at = job[d].at
    BY <1>2, <1>17, RemovePlainFacts
  <2> QED
    BY <2>1, <2>2, <2>3 DEF Guarded, Persisted
<1>18. CASE GrowsCold \/ UNCHANGED fileVars
  BY <1>2, <1>18 DEF GrowsCold, fileVars, disk, Guarded, Running
<1> QED
  BY <1>3, <1>5, <1>6, <1>7, <1>8, <1>9, <1>12, <1>13, <1>14, <1>15, <1>16, <1>17, <1>18
  DEF FilesNext, Appends, MatStep, Compress


\* Only its own worker touches the temporary file of a job.
LEMMA TempStep ==
    ASSUME FilesTypeOK, [FilesNext]_fileVars, NEW c \in Compressors,
           job'[c].at \in {"verify", "persist"}
    PROVE  (job[c].at \in {"verify", "persist"} /\ temp'[c] = temp[c]) \/ Encode(c)
<1> DEFINE Goal == (job[c].at \in {"verify", "persist"} /\ temp'[c] = temp[c]) \/ Encode(c)
<1>0. c \notin Openers /\ c \in Procs
  BY FilesAssumption DEF Procs
<1>1. ASSUME job'[c].at = job[c].at, temp'[c] = temp[c] PROVE Goal
  BY <1>1
<1>2. ASSUME NEW p \in Openers, Appends(p) PROVE Goal
  <2>1. temp'[c] = temp[c]
    <3>1. temp' = temp \/ \E v : temp' = [temp EXCEPT ![p] = v]
      BY <1>2 DEF Appends, StartOpen, MatStep, MatCheck, Decompress, Link, RemoveCompressed,
         Open, WriteTo, GiveUp
    <3> QED
      BY <1>0, <3>1 DEF FilesTypeOK
  <2>2. job' = job \/ Changed
    BY <1>2 DEF Appends, StartOpen, MatStep, MatCheck, Decompress, Link, RemoveCompressed,
       Open, WriteTo, GiveUp
  <2>3. job'[c].at = job[c].at
    BY <2>2, ChangedFacts
  <2> QED
    BY <1>1, <2>1, <2>3
<1>3. ASSUME NEW d \in Compressors,
             StartJob(d) \/ DropCompressed(d) \/ EndJob(d) \/ RemovePlain(d)
      PROVE  Goal
  <2>1. /\ job'[d].at \in {"encode", "idle"}
        /\ \A e \in Compressors \ {d} : job'[e].at = job[e].at
    BY <1>3, JobResetFacts, RemovePlainFacts DEF StartJob, DropCompressed, EndJob, JobSteps
  <2>2. c # d
    BY <2>1
  <2>3. temp'[c] = temp[c]
    BY <1>0, <1>3, <2>2 DEF FilesTypeOK, StartJob, DropCompressed, EndJob, RemovePlain
  <2> QED
    BY <1>1, <2>1, <2>2, <2>3
<1>4. ASSUME NEW d \in Compressors, Verify(d) \/ Persist(d) \/ Recheck(d) PROVE Goal
  <2>1. /\ \A e \in Compressors \ {d} : job'[e] = job[e]
        /\ job'[d].at \in {"verify", "persist"} => job[d].at = "verify" /\ Verify(d)
    BY <1>4, JobToFacts DEF Verify, Persist, Recheck, JobSteps
  <2>2. temp'[c] = temp[c]
    BY <1>0, <1>4, <2>1 DEF FilesTypeOK, Verify, Persist, Recheck
  <2> QED
    BY <2>1, <2>2
<1>5. ASSUME NEW d \in Compressors, Encode(d) PROVE Goal
  <2>1. \A e \in Compressors \ {d} : job'[e] = job[e]
    BY <1>5, JobToFacts DEF Encode, JobSteps
  <2>2. c # d => temp'[c] = temp[c]
    BY <1>0, <1>5 DEF FilesTypeOK, Encode
  <2> QED
    BY <1>1, <1>5, <2>1, <2>2
<1>6. CASE GrowsCold \/ UNCHANGED fileVars
  BY <1>6 DEF GrowsCold, fileVars
<1> QED
  BY <1>2, <1>3, <1>4, <1>5, <1>6 DEF FilesNext, Compress

\* Copies, step by step.
LEMMA CopiesStep ==
    ASSUME FilesInv, [FilesNext]_fileVars, ~raced'
    PROVE  Copies'
<1>1. ~raced
  BY RacedStays DEF FilesInv
<1>2. Copies /\ Guarded /\ Present /\ FilesTypeOK /\ Epochs
  BY <1>1 DEF FilesInv
<1>3. FilesTypeOK'
  BY <1>2, FilesTypeStep
<1> USE FileFields
<1> DEFINE Encoded(d) == job[d].at \in {"verify", "persist"}
           Earlier == \A d \in Compressors : Encoded(d) => IsPrefix(temp[d], Visible)
           Exact == /\ \A d \in Compressors : Live(d) /\ Encoded(d) => temp[d] = plain.data
                    /\ \A d \in Compressors :
                          Live(d) /\ Persisted(d) => zst.exists /\ zst.data = plain.data
                    /\ \A d, e \in Compressors :
                          Live(d) /\ Persisted(d) /\ Live(e) /\ Persisted(e) => d = e
<1>4. Earlier'
  <2> SUFFICES ASSUME NEW d \in Compressors, Encoded(d)' PROVE IsPrefix(temp[d], Visible)'
    OBVIOUS
  <2>1. IsPrefix(Visible, Visible')
    BY HistoryStep
  <2>2. Visible \in Seq(Pieces) /\ Visible' \in Seq(Pieces)
    BY <1>2, <1>3 DEF FilesTypeOK, Files, Visible
  <2>3. CASE job[d].at \in {"verify", "persist"} /\ temp'[d] = temp[d]
    <3>1. IsPrefix(temp[d], Visible) /\ temp[d] \in Seq(Pieces)
      BY <1>2, <2>3 DEF Copies, FilesTypeOK, Procs
    <3> QED
      BY <2>1, <2>2, <2>3, <3>1, PrefixFacts
  <2>4. CASE Encode(d)
    <3>1. temp'[d] = Visible
      BY <1>2, <2>4 DEF Encode, Visible, FilesTypeOK, Procs
    <3> QED
      BY <2>1, <3>1
  <2> QED
    BY <1>2, <2>3, <2>4, TempStep
<1>5. Exact
  BY <1>2 DEF Copies
<1>6. ASSUME AllStale' PROVE Exact'
  BY <1>6 DEF AllStale
<1>7. ASSUME UNCHANGED <<plain, zst>>,
             \A d \in Compressors : Live(d)' /\ Encoded(d)' =>
                                       temp'[d] = plain.data,
             \A d \in Compressors : Live(d)' /\ Persisted(d)' => Live(d) /\ Persisted(d)
      PROVE  Exact'
  BY <1>5, <1>7
<1>8. ASSUME NEW p \in Openers, Appends(p) PROVE Exact'
  <2>1. job' = job \/ Changed
    BY <1>8 DEF Appends, StartOpen, MatStep, MatCheck, Decompress, Link, RemoveCompressed,
       Open, WriteTo, GiveUp
  <2>2. CASE Changed
    BY <1>2, <1>6, <2>2, ChangedFacts
  <2>3. CASE job' = job /\ RemoveCompressed(p)
    <3>1. AllStale
      BY <1>2, <2>3 DEF RemoveCompressed, Epochs
    <3> QED
      BY <1>6, <2>3, <3>1 DEF AllStale, Live, Running
  <2>4. CASE job' = job /\ ~Changed /\ ~RemoveCompressed(p)
    <3>1. UNCHANGED <<plain, zst>>
      BY <1>8, <2>4 DEF Appends, StartOpen, MatStep, MatCheck, Decompress, Link,
         Open, WriteTo, GiveUp, disk
    <3>2. \A d \in Compressors : Encoded(d)' => temp'[d] = temp[d]
      BY <1>2, <1>8, <2>4, TempStep DEF Encode, JobTo
    <3> QED
      BY <1>5, <1>7, <2>4, <3>1, <3>2 DEF Live, Running, Persisted
  <2> QED
    BY <2>1, <2>2, <2>3, <2>4
<1>9. ASSUME NEW c \in Compressors, StartJob(c) \/ EndJob(c) PROVE Exact'
  <2>1. /\ job'[c].at \in {"encode", "idle"}
        /\ \A d \in Compressors \ {c} : job'[d] = job[d]
    BY <1>2, <1>9, JobResetFacts DEF StartJob, EndJob, JobSteps
  <2>2. \A d \in Compressors : Encoded(d)' => d # c /\ temp'[d] = temp[d]
    BY <1>2, <1>9, <2>1 DEF StartJob, EndJob, FilesTypeOK, Procs
  <2> QED
    BY <1>5, <1>7, <1>9, <2>1, <2>2 DEF Live, Running, Persisted, StartJob, EndJob, disk
<1>10. ASSUME NEW c \in Compressors, Encode(c) \/ Verify(c) \/ Recheck(c) PROVE Exact'
  <2>1. /\ \A d \in Compressors \ {c} : job'[d] = job[d]
        /\ \A d \in Compressors : Live(d)' <=> Live(d)
        /\ job'[c].at \in {"verify", "persist", "remove", "drop"}
        /\ job'[c].at = "persist" => job[c].at = "verify"
        /\ job'[c].at = "verify" => Encode(c)
        /\ job'[c].at = "remove" => job[c].at = "recheck"
    BY <1>2, <1>10, JobToFacts DEF Encode, Verify, Recheck, JobSteps
  <2>2. Encode(c) => temp'[c] = plain.data
    BY <1>2 DEF Encode, FilesTypeOK, Procs
  <2>3. \A d \in Compressors : d # c \/ ~Encode(c) => temp'[d] = temp[d]
    BY <1>2, <1>10 DEF Encode, Verify, Recheck, FilesTypeOK, Procs
  <2>4. \A d \in Compressors : Live(d)' /\ Encoded(d)' => temp'[d] = plain.data
    BY <1>5, <2>1, <2>2, <2>3
  <2>5. \A d \in Compressors : Live(d)' /\ Persisted(d)' => Live(d) /\ Persisted(d)
    BY <2>1 DEF Persisted
  <2> QED
    BY <1>7, <1>10, <2>4, <2>5 DEF Encode, Verify, Recheck, disk
<1>11. ASSUME NEW c \in Compressors, Persist(c) PROVE Exact'
  <2>1. /\ \A d \in Compressors \ {c} : job'[d] = job[d]
        /\ \A d \in Compressors : Live(d)' <=> Live(d)
        /\ job[c].at = "persist" /\ job'[c].at = "recheck"
    BY <1>2, <1>11, JobToFacts DEF Persist, JobSteps
  <2>2. plain' = plain /\ zst' = File(temp[c]) /\ ~zst.exists
    BY <1>11 DEF Persist
  <2>3. \A d \in Compressors \ {c} : temp'[d] = temp[d]
    BY <1>2, <1>11 DEF Persist, FilesTypeOK, Procs
  <2>4. \A d \in Compressors : Live(d)' /\ Encoded(d)' => temp'[d] = plain.data
    BY <1>5, <2>1, <2>3
  <2>5. \A d \in Compressors : Live(d)' /\ Persisted(d)' => d = c
    BY <1>5, <2>1, <2>2 DEF Persisted
  <2>6. Live(c)' => zst'.exists /\ zst'.data = plain.data
    BY <1>5, <2>1, <2>2
  <2> QED
    BY <2>2, <2>4, <2>5, <2>6
<1>12. ASSUME NEW c \in Compressors, DropCompressed(c) PROVE Exact'
  <2>1. AllStale
    BY <1>2, <1>12 DEF DropCompressed, Epochs, Running
  <2>2. job'[c].at = "idle" /\ \A d \in Compressors \ {c} : job'[d] = job[d]
    BY <1>2, <1>12, JobResetFacts DEF DropCompressed, JobSteps
  <2> QED
    BY <1>6, <2>1, <2>2 DEF AllStale, Live, Running
<1>13. ASSUME NEW c \in Compressors, RemovePlain(c) PROVE Exact'
  BY <1>2, <1>6, <1>13, RemovePlainFacts
<1>14. ASSUME GrowsCold \/ UNCHANGED fileVars PROVE Exact'
  BY <1>5, <1>14 DEF GrowsCold, fileVars, disk, Live, Running, Persisted
<1>15. Exact'
  BY <1>8, <1>9, <1>10, <1>11, <1>12, <1>13, <1>14 DEF FilesNext, Compress
<1> QED
  BY <1>4, <1>15 DEF Copies

\* The compressed file stays behind the plain one.
LEMMA SiblingStep ==
    ASSUME FilesInv, [FilesNext]_fileVars
    PROVE  SiblingIsOlder'
<1> SUFFICES ASSUME ~raced', plain'.exists, zst'.exists
             PROVE  IsPrefix(zst'.data, plain'.data)
  BY DEF SiblingIsOlder
<1>1. ~raced
  BY RacedStays DEF FilesInv
<1>2. Copies /\ Guarded /\ Present /\ FilesTypeOK /\ Epochs /\ SiblingIsOlder
  BY <1>1 DEF FilesInv
<1>3. /\ plain.data \in Seq(Pieces) /\ zst.data \in Seq(Pieces)
      /\ plain'.data \in Seq(Pieces) /\ zst'.data \in Seq(Pieces)
  <2>1. FilesTypeOK'
    BY <1>2, FilesTypeStep
  <2> QED
    BY <1>2, <2>1 DEF FilesTypeOK, Files
<1> USE FileFields
<1>4. ASSUME UNCHANGED <<plain, zst>> PROVE IsPrefix(zst'.data, plain'.data)
  BY <1>1, <1>2, <1>4 DEF SiblingIsOlder
<1>5. ASSUME NEW p \in Openers, Link(p) PROVE IsPrefix(zst'.data, plain'.data)
  <2>1. CASE plain.exists
    BY <1>4, <1>5, <2>1 DEF Link
  <2>2. CASE ~plain.exists
    <3>1. plain'.data = zst'.data
      BY <1>2, <1>5, <2>2 DEF Link, Guarded
    <3> QED
      BY <1>3, <3>1, PrefixFacts
  <2> QED
    BY <2>1, <2>2
<1>6. ASSUME NEW p \in Openers, NEW create \in BOOLEAN, Open(p, create)
      PROVE  IsPrefix(zst'.data, plain'.data)
  <2>1. zst' = zst /\ mat[p] = "open"
    BY <1>6 DEF Open
  <2>2. plain.exists
    BY <1>2, <2>1 DEF Guarded
  <2> QED
    BY <1>4, <1>6, <2>2 DEF Open
<1>7. ASSUME NEW p \in Openers, NEW piece \in Pieces, NEW keep \in BOOLEAN,
             WriteTo(p, piece, keep)
      PROVE  IsPrefix(zst'.data, plain'.data)
  <2>1. CASE handle[p] = "linked"
    <3>1. plain.exists /\ zst' = zst /\ plain'.data = plain.data \o <<piece>>
      BY <1>2, <1>7, <2>1 DEF WriteTo, Present
    <3>2. IsPrefix(zst.data, plain.data) /\ IsPrefix(plain.data, plain'.data)
      BY <1>1, <1>2, <1>3, <3>1, PrefixFacts DEF SiblingIsOlder
    <3> QED
      BY <1>3, <3>1, <3>2, PrefixFacts
  <2>2. CASE handle[p] # "linked"
    BY <1>4, <1>7, <2>2 DEF WriteTo
  <2> QED
    BY <2>1, <2>2
<1>8. ASSUME NEW c \in Compressors, Persist(c) PROVE IsPrefix(zst'.data, plain'.data)
  <2>1. zst'.data = temp[c] /\ plain' = plain /\ job[c].at = "persist"
    BY <1>8 DEF Persist, JobTo
  <2> QED
    BY <1>2, <2>1 DEF Copies, Visible
<1>9. ASSUME NEW p \in Openers,
             StartOpen(p) \/ MatCheck(p) \/ Decompress(p) \/ GiveUp(p) \/ RemoveCompressed(p)
      PROVE  IsPrefix(zst'.data, plain'.data)
  BY <1>2, <1>4, <1>9, QuietSteps DEF RemoveCompressed
<1>10. ASSUME NEW c \in Compressors,
              \/ StartJob(c) \/ Encode(c) \/ Verify(c) \/ Recheck(c)
              \/ DropCompressed(c) \/ RemovePlain(c) \/ EndJob(c)
       PROVE  IsPrefix(zst'.data, plain'.data)
  BY <1>4, <1>10
  DEF StartJob, Encode, Verify, Recheck, DropCompressed, RemovePlain, EndJob, disk
<1>11. CASE GrowsCold \/ UNCHANGED fileVars
  BY <1>4, <1>11 DEF GrowsCold, fileVars, disk
<1> QED
  BY <1>5, <1>6, <1>7, <1>8, <1>9, <1>10, <1>11 DEF FilesNext, Appends, MatStep, Compress

-----------------------------------------------------------------------------
(* The theorems.                                                           *)

\* No file, nobody at work.
LEMMA FilesInitially == FilesInit => FilesInv
<1> SUFFICES ASSUME FilesInit PROVE FilesInv
  OBVIOUS
<1>1. FilesTypeOK
  <2>1. <<>> \in Seq(Pieces)
    OBVIOUS
  <2>2. [at |-> "idle", same |-> TRUE] \in Jobs
    BY DEF Jobs, JobSteps
  <2> QED
    BY <2>1, <2>2, FileTypes DEF FilesInit, FilesTypeOK, MatSteps
<1>2. Present
  BY FileFields DEF FilesInit, Present
<1>3. \A c \in Compressors : job[c].at = "idle"
  BY DEF FilesInit
<1>4. Epochs
  BY <1>3 DEF FilesInit, Epochs, AllStale, Live, Running
<1>5. Copies
  BY <1>3 DEF Copies, Persisted
<1>6. Guarded
  BY <1>3 DEF FilesInit, Guarded, Running
<1>7. SiblingIsOlder
  BY FileFields DEF FilesInit, SiblingIsOlder
<1> QED
  BY <1>1, <1>2, <1>4, <1>5, <1>6, <1>7 DEF FilesInv

\* Every step keeps the invariant.
LEMMA FilesInductive == FilesInv /\ [FilesNext]_fileVars => FilesInv'
<1> SUFFICES ASSUME FilesInv, [FilesNext]_fileVars PROVE FilesInv'
  OBVIOUS
<1>1. FilesTypeOK /\ Present /\ Epochs
  BY DEF FilesInv
<1>2. FilesTypeOK' /\ Present' /\ Epochs'
  BY <1>1, FilesTypeStep, PresentStep, EpochsStep
<1>3. ~raced' => Copies' /\ Guarded'
  BY CopiesStep, GuardedStep
<1>4. SiblingIsOlder'
  BY SiblingStep
<1> QED
  BY <1>2, <1>3, <1>4 DEF FilesInv

\* The files, open files, jobs and temporary files keep their types.
THEOREM FilesTypeCorrect == FilesSpec => []FilesTypeOK
<1>1. FilesInv => FilesTypeOK
  BY DEF FilesInv
<1> QED
  BY <1>1, FilesInitially, FilesInductive, PTL DEF FilesSpec

\* When both files of a rollout are there, the compressed one is an earlier state of
\* the plain one that existing_rollout_path prefers.
THEOREM SiblingOlder == FilesSpec => []SiblingIsOlder
<1>1. FilesInv => SiblingIsOlder
  BY DEF FilesInv
<1> QED
  BY <1>1, FilesInitially, FilesInductive, PTL DEF FilesSpec

\* No system call of an appender or of the compression worker shortens or rewrites
\* what readers of the rollout see.
THEOREM NothingRewritten == FilesSpec => HistoryKept
<1>1. FilesInv /\ [FilesNext]_fileVars => [~raced' => IsPrefix(Visible, Visible')]_fileVars
  BY HistoryStep
<1> QED
  BY <1>1, FilesInitially, FilesInductive, PTL DEF FilesSpec, HistoryKept
=============================================================================
