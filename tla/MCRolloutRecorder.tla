------------------------- MODULE MCRolloutRecorder -------------------------
(* RolloutRecorder with its two openers named, for TLC; the compression    *)
(* workers are interchangeable.                                            *)
EXTENDS RolloutRecorder, TLC

Symmetry == Permutations(Compressors)

\* What a barrier promises. Once the plain file was removed under an appender no
\* invariant speaks of promises, so that TLC need not tell them apart.
Promise(c) == IF raced \/ c.op \notin Barriers THEN {} ELSE c.items

\* Persist and flush differ only when they are taken and the file is deferred.
Kind(c, taken) == IF c.op = "persist" /\ (taken \/ ~rec.deferred) THEN "flush" ELSE c.op

View ==
    <<fileVars, next, sessions, faults, rec.at, rec.deferred, rec.meta, rec.pending,
      rec.attempt, Kind(rec.cmd, TRUE), Promise(rec.cmd),
      [k \in DOMAIN queue |->
         <<Kind(queue[k], FALSE),
           IF queue[k].op = "add" THEN queue[k].items ELSE Promise(queue[k])>>],
      IF raced THEN acked \cap {Update} ELSE acked, IF raced THEN 1 ELSE first>>
=============================================================================
