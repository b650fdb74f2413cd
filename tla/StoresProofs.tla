----------------------------- MODULE StoresProofs -----------------------------
(***************************************************************************)
(* The properties of the three stores, for every value of the constants.   *)
(* A behaviour moves one part; what the part's own proofs say of a step    *)
(* is carried over to the step of the whole, which leaves the other parts  *)
(* and the focus alone.                                                    *)
(***************************************************************************)
EXTENDS MCStores, TLAPS

storesVars == <<focus, storeVars, journalVars, evidenceVars, enterpriseVars>>

\* The inductive invariant of the part that moves.
CleanHolds == focus = "clean" /\ Journal!CleanInv
FaultyHolds == focus = "faulty" /\ FaultyJournal!AloneInv
EpisodesHold == focus = "episodes" /\ Evidence!LockedInv /\ Evidence!BoundsInv
MixedHolds == focus = "mixed" /\ MixedEvidence!RowsInv
EnterpriseHolds == focus = "enterprise" /\ Enterprise!ServiceInv
                   /\ Enterprise!CountsInv /\ Enterprise!ReceiptInv

StoresInv == CleanHolds \/ FaultyHolds \/ EpisodesHold \/ MixedHolds \/ EnterpriseHolds

LEMMA InitStores == Init => StoresInv
<1> SUFFICES ASSUME Init PROVE StoresInv
  OBVIOUS
<1>1. Journal!CleanInv
  BY StoresFit, Journal!InitClean DEF Init
<1>2. FaultyJournal!AloneInv
  BY StoresFit, FaultyJournal!InitAlone DEF Init
<1>3. Evidence!LockedInv /\ Evidence!BoundsInv
  BY StoresFit, Evidence!InitLocked, Evidence!InitBounds DEF Init
<1>4. MixedEvidence!RowsInv
  <2>1. MixedEvidence!Init
    BY DEF Init, Evidence!Init, MixedEvidence!Init
  <2> QED BY <2>1, StoresFit, MixedEvidence!InitRows
<1>5. Enterprise!ServiceInv /\ Enterprise!CountsInv /\ Enterprise!ReceiptInv
  <2>1. Enterprise!ServiceInv
    BY StoresFit, Enterprise!InitService DEF Init
  <2>2. Enterprise!CountsInv
    BY StoresFit DEF Init, Enterprise!Init, Enterprise!CountsInv, Enterprise!EnterpriseParameters
  <2>3. Enterprise!ReceiptInv
    BY DEF Init, Enterprise!Init, Enterprise!ReceiptInv
  <2> QED BY <2>1, <2>2, <2>3
<1> QED BY <1>1, <1>2, <1>3, <1>4, <1>5
     DEF Init, StoresInv, CleanHolds, FaultyHolds, EpisodesHold, MixedHolds, EnterpriseHolds

\* A step of the whole is one of the part in focus, or leaves it alone.
LEMMA PartMoves ==
  ASSUME [Next]_storesVars
  PROVE  /\ focus' = focus
         /\ focus = "clean" => [Journal!Next]_(Journal!vars)
         /\ focus = "faulty" => [FaultyJournal!Next]_(FaultyJournal!vars)
         /\ focus = "episodes" => [Evidence!Next]_(Evidence!vars)
         /\ focus = "mixed" => [MixedEvidence!Next]_(MixedEvidence!vars)
         /\ focus = "enterprise" => [Enterprise!Next]_(Enterprise!vars)
<1>1. CASE Next
  BY <1>1 DEF Next, JournalMoves, FaultyJournalMoves, EpisodesMove, MixedMove, EnterpriseMoves, Others
<1>2. CASE UNCHANGED storesVars
  <2>1. UNCHANGED <<focus, phase, acked, crashes, errors, pc, held, job, onePc, oneHeld, oneJob>>
    BY <1>2 DEF storesVars, storeVars
  <2>2. UNCHANGED <<Journal!vars, FaultyJournal!vars>>
    BY <1>2, <2>1 DEF storesVars, journalVars, Journal!vars, Journal!disk, Journal!memory,
       FaultyJournal!vars, FaultyJournal!disk, FaultyJournal!memory
  <2>3. UNCHANGED <<Evidence!vars, MixedEvidence!vars>>
    BY <1>2, <2>1 DEF storesVars, evidenceVars, Evidence!vars, Evidence!disk, Evidence!service,
       Evidence!thread, Evidence!counts, MixedEvidence!vars, MixedEvidence!disk,
       MixedEvidence!service, MixedEvidence!thread, MixedEvidence!counts
  <2>4. UNCHANGED Enterprise!vars
    BY <1>2, <2>1 DEF storesVars, enterpriseVars, Enterprise!vars, Enterprise!disk,
       Enterprise!service, Enterprise!thread, Enterprise!counts
  <2> QED BY <2>1, <2>2, <2>3, <2>4
<1> QED BY <1>1, <1>2

LEMMA StepStores == StoresInv /\ [Next]_storesVars => StoresInv'
<1> SUFFICES ASSUME StoresInv, [Next]_storesVars PROVE StoresInv'
  OBVIOUS
<1>1. CASE CleanHolds
  BY <1>1, PartMoves, StoresFit, Journal!StepClean DEF CleanHolds, StoresInv
<1>2. CASE FaultyHolds
  BY <1>2, PartMoves, StoresFit, FaultyJournal!StepAlone DEF FaultyHolds, StoresInv
<1>3. CASE EpisodesHold
  BY <1>3, PartMoves, StoresFit, Evidence!StepLocked, Evidence!StepBounds DEF EpisodesHold, StoresInv
<1>4. CASE MixedHolds
  BY <1>4, PartMoves, StoresFit, MixedEvidence!StepRows DEF MixedHolds, StoresInv
<1>5. CASE EnterpriseHolds
  BY <1>5, PartMoves, StoresFit, Enterprise!StepService, Enterprise!StepCounts,
     Enterprise!StepReceipts
     DEF EnterpriseHolds, StoresInv
<1> QED BY <1>1, <1>2, <1>3, <1>4, <1>5 DEF StoresInv

LEMMA StoresAlways == Spec => []StoresInv
BY InitStores, StepStores, PTL DEF Spec, storesVars

-----------------------------------------------------------------------------
(* What the invariant of each part gives.                                  *)

LEMMA FocusIsOne ==
  ASSUME StoresInv
  PROVE  /\ focus = "clean" => Journal!CleanInv
         /\ focus = "faulty" => FaultyJournal!AloneInv
         /\ focus = "episodes" => Evidence!LockedInv /\ Evidence!BoundsInv
         /\ focus = "mixed" => MixedEvidence!RowsInv
         /\ focus = "enterprise" =>
              Enterprise!ServiceInv /\ Enterprise!CountsInv /\ Enterprise!ReceiptInv
BY DEF StoresInv, CleanHolds, FaultyHolds, EpisodesHold, MixedHolds, EnterpriseHolds

LEMMA JournalPromises ==
  ASSUME Journal!CleanInv
  PROVE  /\ Journal!AckedSurvive /\ Journal!TypeOK /\ Journal!ReopensCanonical
         /\ Journal!ReadersSeeDurable /\ Journal!AnswersAreAdjacent
<1>1. Journal!StoredInv /\ Journal!AnswersAreAdjacent /\ Journal!ReopensCanonical
  BY DEF Journal!CleanInv, Journal!ReopensCanonical
<1>2. Journal!TypeOK
  BY <1>1 DEF Journal!StoredInv, Journal!JournalTyped
<1> QED BY <1>1, <1>2, Journal!StoredIsDurable, Journal!CleanIsReadable

LEMMA FaultyPromises ==
  ASSUME FaultyJournal!AloneInv
  PROVE  FaultyJournal!AckedSurvive /\ FaultyJournal!AnswersAreAdjacent
BY FaultyJournal!StoredIsDurable DEF FaultyJournal!AloneInv

\* What a store has answered with success a restart finds, for any number of
\* threads, keys, episodes and memories, stops and errors.
THEOREM StoresNeverForget == Spec => []AcksSurvive
<1>1. StoresInv => AcksSurvive
  <2> SUFFICES ASSUME StoresInv PROVE AcksSurvive
    OBVIOUS
  <2>1. focus = "clean" => Journal!AckedSurvive
    BY FocusIsOne, JournalPromises
  <2>2. focus = "faulty" => FaultyJournal!AckedSurvive
    BY FocusIsOne, FaultyPromises
  <2>3. focus = "episodes" => Evidence!AckedSurvive /\ Evidence!ReceiptCoversAck
    BY FocusIsOne, Evidence!LockedPromises
  <2>4. focus = "enterprise" => Enterprise!AckedSurvive
    BY FocusIsOne, StoresFit, Enterprise!ServicePromises
  <2> QED BY <2>1, <2>2, <2>3, <2>4 DEF AcksSurvive
<1> QED BY <1>1, StoresAlways, PTL

\* Every store opens whatever it has written, and its state is typed.
THEOREM StoresAlwaysReopen == Spec => []StoresReopen
<1>1. StoresInv => StoresReopen
  <2> SUFFICES ASSUME StoresInv PROVE StoresReopen
    OBVIOUS
  <2>1. focus = "clean" => Journal!TypeOK /\ Journal!ReopensCanonical
    BY FocusIsOne, JournalPromises
  <2>2. focus = "episodes" => Evidence!TypeOK /\ Evidence!ReopensCanonical
    BY FocusIsOne, StoresFit, Evidence!LockedPromises, Evidence!LockedTyped
  <2>3. focus = "enterprise" => Enterprise!TypeOK /\ Enterprise!RestartResolves
    BY FocusIsOne, StoresFit, Enterprise!ServicePromises, Enterprise!ServiceTyped
  <2> QED BY <2>1, <2>2, <2>3 DEF StoresReopen
<1> QED BY <1>1, StoresAlways, PTL

\* What readers see is what is stored: on either storage of the journal, in the
\* rows of an episode on either route, and in enterprise memory.
THEOREM ReadersAlwaysAgree == Spec => []ReadersAgree
<1>1. StoresInv => ReadersAgree
  <2> SUFFICES ASSUME StoresInv PROVE ReadersAgree
    OBVIOUS
  <2>1. focus = "clean" => Journal!ReadersSeeDurable /\ Journal!AnswersAreAdjacent
    BY FocusIsOne, JournalPromises
  <2>2. focus = "faulty" => FaultyJournal!AnswersAreAdjacent
    BY FocusIsOne, FaultyPromises
  <2>3. focus = "episodes" => Evidence!OneRowPerEpisode
    BY FocusIsOne, Evidence!LockedPromises
  <2>4. focus = "mixed" => MixedEvidence!OneRowPerEpisode
    BY FocusIsOne, MixedEvidence!RowsOnce
  <2>5. focus = "enterprise" =>
          /\ Enterprise!MemoryResolves /\ Enterprise!ReceiptStored
          /\ Enterprise!RevokedStays /\ Enterprise!StoredPayloadStays
    BY FocusIsOne, StoresFit, Enterprise!ServicePromises, Enterprise!ReceiptsNamed
  <2> QED BY <2>1, <2>2, <2>3, <2>4, <2>5 DEF ReadersAgree
<1> QED BY <1>1, StoresAlways, PTL

-----------------------------------------------------------------------------
(* Every store implements what it promises.                                *)

LEMMA JournalStep ==
  ASSUME StoresInv, StoresInv', [Next]_storesVars, focus = "clean"
  PROVE  [Journal!Abstract!Next]_(Journal!Abstract!historyVars)
<1>1. focus' = focus /\ [Journal!Next]_(Journal!vars)
  BY PartMoves
<1>2. Journal!CleanInv /\ Journal!CleanInv'
  BY <1>1, FocusIsOne
     DEF StoresInv, CleanHolds, FaultyHolds, EpisodesHold, MixedHolds, EnterpriseHolds
<1> QED BY <1>1, <1>2, StoresFit, Journal!StepRefines

LEMMA EpisodesStep ==
  ASSUME StoresInv, StoresInv', [Next]_storesVars, focus = "episodes"
  PROVE  [Evidence!Abstract!Next]_<<Evidence!Durable, Evidence!Answered>>
<1>1. focus' = focus /\ [Evidence!Next]_(Evidence!vars)
  BY PartMoves
<1>2. Evidence!LockedInv /\ Evidence!LockedInv'
  BY <1>1, FocusIsOne
     DEF StoresInv, CleanHolds, FaultyHolds, EpisodesHold, MixedHolds, EnterpriseHolds
<1> QED BY <1>1, <1>2, StoresFit, Evidence!StepLedger

LEMMA EnterpriseStep ==
  ASSUME StoresInv, StoresInv', [Next]_storesVars, focus = "enterprise"
  PROVE  Enterprise!Abstract!Commit
<1>1. focus' = focus /\ [Enterprise!Next]_(Enterprise!vars)
  BY PartMoves
<1>2. Enterprise!ServiceInv /\ Enterprise!ServiceInv'
  BY <1>1, FocusIsOne
     DEF StoresInv, CleanHolds, FaultyHolds, EpisodesHold, MixedHolds, EnterpriseHolds
<1> QED BY <1>1, <1>2, StoresFit, Enterprise!StepVersions

\* Each of them starts as its abstract specification does, and every step of the
\* store in focus is a step of it or leaves it alone.
THEOREM StoresAlwaysImplement == Spec => StoresImplement
<1>1. Init => Journal!Abstract!Init /\ Evidence!Abstract!Init /\ Enterprise!Abstract!Init
  BY StoresFit, Journal!InitRefines, Evidence!InitLedger, Enterprise!InitVersions DEF Init
<1>2. StoresInv /\ StoresInv' /\ [Next]_storesVars =>
        [focus = "clean" => Journal!Abstract!Next]_<<
           Journal!Restored(SubSeq(revisions, 1, Journal!Kept)), acked, refused>>
  BY JournalStep DEF Journal!Abstract!historyVars
<1>3. StoresInv /\ StoresInv' /\ [Next]_storesVars =>
        [focus = "episodes" => Evidence!Abstract!Next]_<<Evidence!Durable, Evidence!Answered>>
  BY EpisodesStep
<1>4. StoresInv /\ StoresInv' /\ [Next]_storesVars =>
        [focus = "enterprise" => Enterprise!Abstract!Commit]_<<
           Enterprise!DurableVersions, Enterprise!LoadedEntries>>
  BY EnterpriseStep
<1> QED BY <1>1, <1>2, <1>3, <1>4, StoresAlways, PTL DEF Spec, StoresImplement, storesVars
===============================================================================
