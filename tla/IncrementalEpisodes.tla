------------------------- MODULE IncrementalEpisodes -------------------------
(***************************************************************************)
(* The incremental stores of external episodes                             *)
(* (external_episode_incremental.py, external_episode_bdr_candidate.py).   *)
(*                                                                         *)
(* One owner observes one episode at a time under a lock: the row becomes  *)
(* durable (a SQLite transaction, or one BDR batch of identity, sequence   *)
(* and count), is projected on the evidence core in memory, and only then  *)
(* answered.  A projection that fails after the row is durable poisons the *)
(* process: nothing is answered until a restart rebuilds the core from the *)
(* rows.  The SQLite store also takes over the rows of the legacy snapshot *)
(* before it serves, through the same path.                                *)
(***************************************************************************)
EXTENDS Naturals, Sequences

CONSTANTS
    EpisodeKeys,    \* record keys
    Contents,       \* canonical payloads
    LegacyStores,   \* legacy snapshots a server may start with
    Foreign,        \* a legacy row that is no external episode
    Nothing,
    MaxStops,       \* restarts explored
    MaxFaults       \* failing commits and projections explored

VARIABLES
    backend,        \* "sqlite" or "bdr"
    legacy,         \* the rows of the legacy snapshot
    journal,        \* durable rows by rowid or sequence key
    index,          \* durable rows by identity
    unconfirmed,    \* a BDR batch whose durability was not confirmed
    life,           \* "down", "migrating" or "serving"
    migrated,       \* legacy rows taken over by this process
    core, count,    \* EvidenceCore rows and _count
    poisoned,
    op,             \* the observation in progress
    answers,        \* history: answers that acknowledged a row
    faults, stops   \* history: how many of the bounded events happened

episodeVars == <<backend, legacy, journal, index, unconfirmed, life, migrated,
                 core, count, poisoned, op, answers, faults, stops>>
durableVars == <<backend, legacy, journal, index>>

EpisodeRows == [key : EpisodeKeys, content : Contents]

\* A snapshot may hold rows of other kinds; the two marks are no data.
ASSUME EpisodeAssumptions ==
    /\ MaxStops \in Nat /\ MaxFaults \in Nat
    /\ LegacyStores \subseteq Seq(EpisodeRows \cup {Foreign})
    /\ Nothing \notin [row : EpisodeRows, durable : BOOLEAN]
    /\ Nothing \notin [row : EpisodeRows, at : Nat]

RowsIn(s) == {s[i] : i \in 1..Len(s)}
KeyOf(row) == row.key

EpisodeInit ==
    /\ backend \in {"sqlite", "bdr"}
    /\ legacy \in IF backend = "sqlite" THEN LegacyStores ELSE {<<>>}
    /\ journal = <<>> /\ index = {} /\ unconfirmed = Nothing
    /\ life = "down" /\ migrated = 0
    /\ core = <<>> /\ count = 0 /\ poisoned = FALSE /\ op = Nothing
    /\ answers = {} /\ faults = 0 /\ stops = 0

-----------------------------------------------------------------------------
(* Start and stop.                                                         *)

\* _rehydrate: the core is rebuilt from the rows in their order.
Start ==
    /\ life = "down"
    /\ core' = journal /\ count' = Len(journal) /\ poisoned' = FALSE
    /\ life' = IF backend = "sqlite" THEN "migrating" ELSE "serving"
    /\ migrated' = 0
    /\ UNCHANGED <<durableVars, unconfirmed, op, answers, faults, stops>>

\* The sequence key of a batch is the count in memory.
Put(s, i, row) == [j \in 1..(IF i > Len(s) THEN i ELSE Len(s)) |->
                     IF j = i THEN row ELSE s[j]]

Forget == core' = <<>> /\ count' = 0 /\ poisoned' = FALSE /\ op' = Nothing

\* A kill at any instant.  An unconfirmed batch is found or lost, whole.
Stop ==
    /\ life # "down" /\ stops < MaxStops
    /\ \/ UNCHANGED <<journal, index>>
       \/ /\ unconfirmed # Nothing
          /\ journal' = Put(journal, unconfirmed.at, unconfirmed.row)
          /\ index' = index \cup {unconfirmed.row}
    /\ unconfirmed' = Nothing
    /\ life' = "down" /\ stops' = stops + 1
    /\ Forget
    /\ UNCHANGED <<backend, legacy, migrated, answers, faults>>

-----------------------------------------------------------------------------
(* observe(), for a request or for a legacy row.                           *)

Stored(row) == \E r \in index : r.key = row.key
Ready == op = Nothing /\ ~poisoned
NextLegacy == legacy[migrated + 1]
Migrating == life = "migrating" /\ migrated < Len(legacy)

Answer(row, stored) == answers' = answers \cup {[row |-> row, stored |-> stored]}

\* A repeated observation is answered again; another content is refused.
ObserveAgain(row) ==
    /\ life = "serving" /\ Ready
    /\ row \in index
    /\ Answer(row, FALSE)
    /\ UNCHANGED <<durableVars, unconfirmed, life, migrated, core, count,
                   poisoned, op, faults, stops>>

\* Mutant: the answer is given before the row is durable.
ObserveAnswers(row) ==
    /\ Ready
    /\ life = "serving" \/ (Migrating /\ row = NextLegacy)
    /\ ~Stored(row)
    /\ op' = [row |-> row, durable |-> FALSE]
    /\ Answer(row, TRUE)
    /\ UNCHANGED <<durableVars, unconfirmed, life, migrated, core, count,
                   poisoned, faults, stops>>

ObserveNew(row) ==
    /\ Ready
    /\ life = "serving" \/ (Migrating /\ row = NextLegacy)
    /\ ~Stored(row)
    /\ op' = [row |-> row, durable |-> FALSE]
    /\ UNCHANGED <<durableVars, unconfirmed, life, migrated, core, count,
                   poisoned, answers, faults, stops>>

MakeDurable ==
    /\ op # Nothing /\ ~op.durable
    /\ journal' = IF backend = "sqlite" THEN Append(journal, op.row)
                                        ELSE Put(journal, count + 1, op.row)
    /\ index' = index \cup {op.row}
    /\ op' = [op EXCEPT !.durable = TRUE]
    /\ UNCHANGED <<backend, legacy, unconfirmed, life, migrated, core, count,
                   poisoned, answers, faults, stops>>

Fault == faults < MaxFaults /\ faults' = faults + 1
\* An exception in the migration ends the process that was starting.
Survives == life = "serving"
\* Mutant: a failed projection does not poison the process.
AfterFaultGoesOn(poison) ==
    /\ life' = IF Survives THEN life ELSE "down"
    /\ poisoned' = (Survives /\ poisoned)
    /\ op' = Nothing
    /\ core' = IF Survives THEN core ELSE <<>>
    /\ count' = IF Survives THEN count ELSE 0

AfterFault(poison) ==
    /\ life' = IF Survives THEN life ELSE "down"
    /\ poisoned' = (Survives /\ (poisoned \/ poison))
    /\ op' = Nothing
    /\ core' = IF Survives THEN core ELSE <<>>
    /\ count' = IF Survives THEN count ELSE 0

\* SQLite rolls back.  BDR raises, or returns without a confirmed sequence,
\* and poisons the process either way.
MakeDurableFails ==
    /\ op # Nothing /\ ~op.durable
    /\ Fault
    /\ AfterFault(backend = "bdr")
    /\ unconfirmed' \in {Nothing} \cup
         (IF backend = "bdr" THEN {[row |-> op.row, at |-> count + 1]} ELSE {})
    /\ UNCHANGED <<durableVars, migrated, answers, stops>>

Project ==
    /\ op # Nothing /\ op.durable
    /\ core' = Append(core, op.row) /\ count' = count + 1
    /\ op' = Nothing
    /\ IF life = "serving"
         THEN Answer(op.row, TRUE) /\ UNCHANGED migrated
         ELSE migrated' = migrated + 1 /\ UNCHANGED answers
    /\ UNCHANGED <<durableVars, unconfirmed, life, poisoned, faults, stops>>

ProjectFails ==
    /\ op # Nothing /\ op.durable
    /\ Fault
    /\ AfterFault(TRUE)
    /\ UNCHANGED <<durableVars, unconfirmed, migrated, answers, stops>>

-----------------------------------------------------------------------------
(* migrate_legacy(): rows in order, before the first request.              *)

MigrateAgain ==
    /\ Migrating /\ Ready
    /\ NextLegacy \in index
    /\ migrated' = migrated + 1
    /\ UNCHANGED <<durableVars, unconfirmed, life, core, count, poisoned, op,
                   answers, faults, stops>>

\* A row that is no external episode, or whose key has another content.
MigrateRefuses ==
    /\ Migrating /\ Ready
    /\ NextLegacy # Foreign => Stored(NextLegacy) /\ NextLegacy \notin index
    /\ life' = "down"
    /\ Forget
    /\ UNCHANGED <<durableVars, unconfirmed, migrated, answers, faults, stops>>

Serve ==
    /\ life = "migrating" /\ migrated = Len(legacy)
    /\ life' = "serving"
    /\ UNCHANGED <<durableVars, unconfirmed, migrated, core, count, poisoned,
                   op, answers, faults, stops>>

EpisodeNext ==
    \/ Start \/ Stop \/ Serve
    \/ \E row \in EpisodeRows : ObserveAgain(row) \/ ObserveNew(row)
    \/ MakeDurable \/ MakeDurableFails \/ Project \/ ProjectFails
    \/ MigrateAgain \/ MigrateRefuses

EpisodeSpec == EpisodeInit /\ [][EpisodeNext]_episodeVars

-----------------------------------------------------------------------------
EpisodeTypeOK ==
    /\ backend \in {"sqlite", "bdr"}
    /\ legacy \in Seq(EpisodeRows \cup {Foreign})
    /\ journal \in Seq(EpisodeRows) /\ index \subseteq EpisodeRows
    /\ unconfirmed = Nothing
         \/ unconfirmed \in [row : EpisodeRows, at : Nat]
    /\ life \in {"down", "migrating", "serving"}
    /\ migrated \in 0..Len(legacy)
    /\ core \in Seq(EpisodeRows) /\ count \in Nat /\ poisoned \in BOOLEAN
    /\ op = Nothing \/ op \in [row : EpisodeRows, durable : BOOLEAN]
    /\ answers \subseteq [row : EpisodeRows, stored : BOOLEAN]
    /\ faults \in 0..MaxFaults /\ stops \in 0..MaxStops

Answered == {a.row : a \in answers}

\* A process that answers has a core, a count and an identity index that
\* agree with the durable rows, one row per identity: what failed after the
\* row was durable never lets a later batch reuse its sequence number.
CoreIsJournal ==
    /\ RowsIn(journal) = index
    /\ \A i, j \in 1..Len(journal) : journal[i].key = journal[j].key => i = j
    /\ life # "down" /\ Ready => core = journal /\ count = Len(journal)

\* A server that takes requests has taken over every legacy row.
LegacyTakenOver == life = "serving" => RowsIn(legacy) \subseteq index

\* external_episode_incremental.py: the core in memory is the journal, or every
\* further observation is refused, and no legacy row is lost by a migration.
EpisodesProjected == EpisodeTypeOK /\ CoreIsJournal /\ LegacyTakenOver

\* The promise of the evidence service, kept by these stores too: rows only
\* ever join the durable evidence and an answer names a durable row.
Ledger == INSTANCE EvidenceLedger WITH
    Rows <- EpisodeRows, Key <- KeyOf, Unique <- EpisodeKeys,
    durable <- journal, answered <- Answered
KeepsLedger == Ledger!Spec
=============================================================================
