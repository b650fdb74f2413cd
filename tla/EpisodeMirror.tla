---------------------------- MODULE EpisodeMirror ----------------------------
(***************************************************************************)
(* The verified BDR mirror of a live SQLite episode store                  *)
(* (external_episode_bdr_mirror.py), beside the store that keeps serving.  *)
(*                                                                         *)
(* A run reads the client's checkpoint, takes an online snapshot of the    *)
(* live database, checks that the snapshot holds the checkpoint's row,     *)
(* imports the snapshot row by row into a new BDR store, imports it again, *)
(* reopens the store cold, and writes its report last.  Any exception ends *)
(* the run and leaves its private directory without a report.              *)
(***************************************************************************)
EXTENDS IncrementalEpisodes

CONSTANT MaxRecords     \* the limit on the records of a mirror

VARIABLES
    checkpoint,     \* the client's file: the last row it saw acknowledged
    mirror          \* the run's progress and what it read and wrote

mirrorVars == <<checkpoint, mirror>>

Fresh == [at |-> "checkpoint", watermark |-> Nothing, snapshot |-> <<>>,
          copied |-> <<>>, inserted |-> 0, report |-> Nothing]

MirrorInit == EpisodeInit /\ checkpoint = Nothing /\ mirror = Fresh

\* The client moves its checkpoint after an acknowledgement.
ClientCheckpoint ==
    /\ checkpoint' \in Answered
    /\ UNCHANGED <<episodeVars, mirror>>

To(place) == mirror' = [mirror EXCEPT !.at = place]
MirrorStep == UNCHANGED <<episodeVars, checkpoint>>
Has(row, rows) == row # Nothing => row \in RowsIn(rows)

ReadCheckpoint ==
    /\ mirror.at = "checkpoint"
    /\ mirror' = [mirror EXCEPT !.at = "snapshot", !.watermark = checkpoint]
    /\ MirrorStep

\* Mutant: the main database file is copied without its write-ahead log.
CopyMainFile ==
    /\ mirror.at = "snapshot"
    /\ backend = "sqlite"
    /\ mirror' = [mirror EXCEPT !.at = "watermark",
                    !.snapshot = SubSeq(journal, 1, Len(journal) - 1)]
    /\ MirrorStep

\* sqlite3.backup: a consistent copy although the writer is active.
TakeSnapshot ==
    /\ mirror.at = "snapshot"
    /\ backend = "sqlite"
    /\ mirror' = [mirror EXCEPT !.at = "watermark", !.snapshot = journal]
    /\ MirrorStep

CheckWatermark ==
    /\ mirror.at = "watermark"
    /\ IF Has(mirror.watermark, mirror.snapshot) /\ Len(mirror.snapshot) <= MaxRecords
         THEN To("import") ELSE To("failed")
    /\ MirrorStep

\* One durable batch per row; a row already there is not stored again.
Copy(copied, row) == IF row \in RowsIn(copied) THEN copied ELSE Append(copied, row)

ImportRow ==
    /\ mirror.at = "import"
    /\ mirror.inserted < Len(mirror.snapshot)
    /\ mirror' = [mirror EXCEPT !.inserted = @ + 1,
                    !.copied = Copy(@, mirror.snapshot[mirror.inserted + 1])]
    /\ MirrorStep

\* Counts, core digests and the canonical manifest of both stores, then a
\* second import that must store nothing.
CompareImported ==
    /\ mirror.at = "import"
    /\ mirror.inserted = Len(mirror.snapshot)
    /\ IF /\ mirror.copied = mirror.snapshot
          /\ \A row \in RowsIn(mirror.snapshot) : Copy(mirror.copied, row) = mirror.copied
         THEN To("reopen") ELSE To("failed")
    /\ MirrorStep

\* The cold store is compared with the snapshot, then the report is synced.
WriteReport ==
    /\ mirror.at = "reopen"
    /\ mirror' = [mirror EXCEPT !.at = "done",
                    !.report = [rows |-> mirror.copied,
                                watermark |-> mirror.watermark,
                                unchanged |-> mirror.watermark = checkpoint]]
    /\ MirrorStep

\* An unconfirmed batch, an I/O error or a kill.
MirrorFails ==
    /\ mirror.at \notin {"done", "failed"}
    /\ To("failed")
    /\ MirrorStep

MirrorNext ==
    \/ EpisodeNext /\ UNCHANGED mirrorVars
    \/ ClientCheckpoint
    \/ ReadCheckpoint \/ TakeSnapshot \/ CheckWatermark \/ ImportRow
    \/ CompareImported \/ WriteReport \/ MirrorFails

MirrorSpec == MirrorInit /\ [][MirrorNext]_<<episodeVars, mirrorVars>>

\* The checkpoint that was read first is always in the snapshot that was
\* taken later, so the watermark test refuses no healthy store; and a report
\* describes a copy that is a prefix of the live rows, in their order, holds
\* the watermark, and stays one while the store goes on serving.
MirrorProves ==
    /\ mirror.at \in {"watermark", "import", "reopen", "done"} =>
         Has(mirror.watermark, mirror.snapshot)
    /\ mirror.report # Nothing =>
         /\ Len(mirror.report.rows) <= Len(journal)
         /\ mirror.report.rows = SubSeq(journal, 1, Len(mirror.report.rows))
         /\ Has(mirror.report.watermark, mirror.report.rows)
=============================================================================
