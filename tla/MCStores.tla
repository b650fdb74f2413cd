------------------------------ MODULE MCStores ------------------------------
(***************************************************************************)
(* The three stores that answer for what they have written, checked in one *)
(* run.  They share no state: focus picks the one that moves.              *)
(*   "clean"       the address journal, whose failing writes leave nothing *)
(*   "faulty"      the journal when they may leave a row and the rebuild   *)
(*                 after an error may fail too                             *)
(*   "episodes"    the evidence service on its locked route alone          *)
(*   "mixed"       the same with relations saved without the lock          *)
(*   "enterprise"  enterprise memory, one request at a time                *)
(***************************************************************************)
EXTENDS Naturals, Sequences, FiniteSets, TLC

CONSTANTS
    Threads, Memories, Bodies, Inodes, KnowledgeIds, Relations, None, Torn, Empty,
    OneKey, OneThread,
    MaxSequence

VARIABLES
    focus,
    \* what the stores have alike, of which one moves
    phase, acked, crashes, errors, pc, held, job, onePc, oneHeld, oneJob,
    payloads, revisions, synced, history, revisionRows, answer, refused,
    snapshots, text, tmp, receiptFile, edges, receipt, pending, snap, fd, sent,
    snapshotFile, manifest, blobs, engine, versions

Journal == INSTANCE AddressJournalProofs WITH
    Keys <- OneKey, ErrorLeaves <- {"nothing"}, RebuildMayFail <- FALSE,
    Stops <- {"power"}, MaxCrashes <- 1, MaxErrors <- 1,
    file <- revisions, rows <- revisionRows
FaultyJournal == INSTANCE AddressJournalProofs WITH
    Keys <- OneKey, ErrorLeaves <- {"nothing", "row"}, RebuildMayFail <- TRUE,
    Stops <- {"kill"}, MaxCrashes <- 1, MaxErrors <- 2,
    Threads <- OneThread, pc <- onePc, held <- oneHeld,
    file <- revisions, rows <- revisionRows
Evidence == INSTANCE EvidenceSnapshotProofs WITH
    Episodes <- Memories, Relations <- {}, Contents <- Bodies,
    Stops <- {"kill"}, MaxRows <- 3, MaxCrashes <- 2, MaxErrors <- 2,
    file <- receiptFile, answers <- sent
MixedEvidence == INSTANCE EvidenceSnapshotProofs WITH
    Episodes <- OneKey, Contents <- OneThread,
    Stops <- {"kill", "power"}, MaxRows <- 3, MaxCrashes <- 1, MaxErrors <- 0,
    file <- receiptFile, answers <- sent
Enterprise == INSTANCE EnterpriseMemoryProofs WITH
    Keys <- Memories, Payloads <- Bodies, MaxVersion <- 2,
    MaxCrashes <- 1, MaxErrors <- 1,
    Threads <- OneThread, pc <- onePc, held <- oneHeld, job <- oneJob,
    file <- snapshotFile, entries <- versions

ASSUME StoresFit ==
    /\ Journal!JournalParameters /\ Journal!CleanStorage
    /\ FaultyJournal!JournalParameters /\ FaultyJournal!WholeLines /\ FaultyJournal!OneCaller
    /\ Evidence!EvidenceParameters /\ Evidence!LockedRoute
    /\ MixedEvidence!EvidenceParameters
    /\ Enterprise!EnterpriseParameters /\ Enterprise!OneRequest

storeVars == <<phase, acked, crashes, errors, pc, held, job, onePc, oneHeld, oneJob>>
journalVars == <<payloads, revisions, synced, history, revisionRows, answer, refused>>
evidenceVars == <<snapshots, text, tmp, receiptFile, edges, receipt, pending, snap, fd, sent>>
enterpriseVars == <<snapshotFile, manifest, blobs, engine, versions>>

\* Threads, bodies and memories are interchangeable.
Symmetry == UNION {Permutations(s) : s \in {Threads, Bodies, Memories}}

Init ==
    /\ focus \in {"clean", "faulty", "episodes", "mixed", "enterprise"}
    /\ Journal!Init /\ FaultyJournal!Init
    /\ Evidence!Init
    /\ Enterprise!Init

\* Every part but the one in focus stays as it is.
Others ==
    /\ UNCHANGED focus
    /\ IF focus \in {"clean", "faulty"} THEN TRUE ELSE UNCHANGED journalVars
    /\ IF focus \in {"episodes", "mixed"} THEN TRUE ELSE UNCHANGED evidenceVars
    /\ IF focus = "enterprise" THEN TRUE ELSE UNCHANGED <<enterpriseVars, oneJob>>
    /\ IF focus \in {"episodes", "mixed"} THEN UNCHANGED acked ELSE UNCHANGED job
    /\ IF focus = "clean" THEN TRUE ELSE UNCHANGED held
    /\ IF focus \in {"faulty", "enterprise"} THEN UNCHANGED pc ELSE UNCHANGED <<onePc, oneHeld>>

JournalMoves == focus = "clean" /\ Journal!Next /\ Others
FaultyJournalMoves == focus = "faulty" /\ FaultyJournal!Next /\ Others
EpisodesMove == focus = "episodes" /\ Evidence!Next /\ Others
MixedMove == focus = "mixed" /\ MixedEvidence!Next /\ Others
EnterpriseMoves == focus = "enterprise" /\ Enterprise!Next /\ Others

Next == JournalMoves \/ FaultyJournalMoves \/ EpisodesMove \/ MixedMove \/ EnterpriseMoves

Spec == Init /\ [][Next]_<<focus, storeVars, journalVars, evidenceVars, enterpriseVars>>

-----------------------------------------------------------------------------
\* What a store has answered with success a restart finds: a revision append()
\* returned, on clean and on faulty storage; an episode of the locked route, in
\* the snapshot its receipt names too; a version or a revocation.
AcksSurvive ==
    CASE focus = "clean" -> Journal!AckedSurvive
      [] focus = "faulty" -> FaultyJournal!AckedSurvive
      [] focus = "episodes" -> Evidence!AckedSurvive /\ Evidence!ReceiptCoversAck
      [] focus = "enterprise" -> Enterprise!AckedSurvive
      [] OTHER -> TRUE

\* A store opens whatever it has written: the constructor of the journal and
\* open() of the evidence service never refuse, and the enterprise manifest
\* never names a version that the engine beside it does not hold.
StoresReopen ==
    CASE focus = "clean" -> Journal!TypeOK /\ Journal!ReopensCanonical
      [] focus = "episodes" -> Evidence!TypeOK /\ Evidence!ReopensCanonical
      [] focus = "enterprise" -> Enterprise!TypeOK /\ Enterprise!RestartResolves
      [] OTHER -> TRUE

\* What readers see agrees with what is stored: a reader between two appends
\* sees the history a restart rebuilds, and the resolver's answers name durable
\* true neighbours on either storage; an episode has one row in memory and in
\* any snapshot, whatever unlocked saves of relations do; entry, node, route
\* and payload of a memory are one and a revoked memory stays revoked.
ReadersAgree ==
    CASE focus = "clean" -> Journal!ReadersSeeDurable /\ Journal!AnswersAreAdjacent
      [] focus = "faulty" -> FaultyJournal!AnswersAreAdjacent
      [] focus = "episodes" -> Evidence!OneRowPerEpisode
      [] focus = "mixed" -> MixedEvidence!OneRowPerEpisode
      [] focus = "enterprise" ->
           /\ Enterprise!MemoryResolves /\ Enterprise!ReceiptStored
           /\ Enterprise!RevokedStays /\ Enterprise!StoredPayloadStays
      [] OTHER -> TRUE

\* The stores implement what they promise, step by step: the journal on clean
\* storage a revision history, the locked route an evidence ledger, enterprise
\* requests one after the other an append-only history of versions.
StoresImplement ==
    /\ Journal!Abstract!Init /\ Evidence!Abstract!Init /\ Enterprise!Abstract!Init
    /\ [][focus = "clean" => Journal!Abstract!Next]_<<
           Journal!Restored(SubSeq(revisions, 1, Journal!Kept)), acked, refused>>
    /\ [][focus = "episodes" => Evidence!Abstract!Next]_<<Evidence!Durable, Evidence!Answered>>
    /\ [][focus = "enterprise" => Enterprise!Abstract!Commit]_<<
           Enterprise!DurableVersions, Enterprise!LoadedEntries>>
=============================================================================
