# Memoria.ia in TLA+

A verification development of Memoria.ia: TLA+ modules translated from its
source, TLC runs that check them on small instances, and TLAPS proofs of what
matters most for every value of the parameters. Paths below are relative to the
repository's root; `mr/` abbreviates `src/memoria_resolutiva/` and `nm/`
abbreviates `native/mobile/`.

Contents: 1 the system, 2 the modules and the code, 3 runs, 4 bounds, 5 fairness,
6 proofs, 7 disagreements with the documentation, 8 what the code does that a
reader may not expect, 9 what is not modelled, 10 what is left.

## 1. The system

Memoria.ia is a memory service: a FastAPI server (`mr/product_server.py`)
in front of several durable Python stores, a structural engine that reads them,
and a C runtime for mobile devices. Three facts about it shape every model here.

* Request handlers are plain `def` functions, so the server runs them in a thread
  pool. Two requests interleave wherever no lock says otherwise. The C runtime is
  called under one lock per handle.
* Each store has its own files and its own protocol for them: an append-only JSONL
  index over content-addressed payloads, a snapshot named by a small receipt or
  manifest file that is replaced by a rename, or atomic batches of BDR.
* Nothing spans stores. After a stop each one is rebuilt from its own files, and a
  derived store catches up with the one it follows by a cursor.

### Inventory

| Component | State | Operations | What is hard | What makes it correct |
|---|---|---|---|---|
| Structural observations (`structural_observation.py`) and the runtimes that follow them (`structural_association_runtime.py`, `persistent_structural_trajectory_v2.py`), driven by `product_structural.py` | payload store, `index.jsonl`, `_order`; a field or a trajectory index with a cursor, checkpoints, `current.json` | `append`, `ordered_from`, `sync`, `_checkpoint`, constructor | four writes on disk for one request, two locks, a crash or an exception between any two | acknowledged rows survive; the field is the fold of the rows below the cursor; a start accepts what the service wrote |
| Address journal (`evolving_address_state_v2.py`) and navigation (`temporal_state_v2.py`) | `revisions.jsonl`, payloads, the journal in memory | `append` with rollback, `_load`, `reverse`, `forward` | memory changes before the disk does; the error path reads the disk that failed | readers see what a restart would rebuild; answers are true neighbours |
| Evidence service (`product_evidence.py`, `external_episode_contract.py`, `evidence_state.py`) | the graph, snapshots, `receipt.json` | episode route (locked), relation route (unlocked), `save`, `open` | one temporary file for all writers; receipts assigned in any order | an ACK is durable; a receipt covers what it answers; a retry adds nothing |
| Evidence graph (`evidence_core.py`, `source_reliability.py`) | rows with epochs, adjudications, counts per origin | `observe_relation`, `adjudicate_origin`, `conflicts`, `infer_path`, the codec | circles of trust, epochs given and assigned, a search that stops early | a replay changes nothing; no origin vouches for itself; what disagrees is not used |
| Enterprise memories (`product_service.py`, `product_persistence.py`, `multitrajectory.py`, `routed_*.py`) | engine, entries, `memory.snapshot`, manifest, mirrored snapshots | `remember`, `update`, `revoke`, `recall`, `save`, `load` | no lock at all; a save with four effects on disk | manifest and snapshot stay a pair; versions are only appended; revoked stays revoked |
| Layer lifecycle (`saturating_lifecycle.py`) | strength, flags and counters of each layer | `support`, `contradict` | a loop that reads flags it has just set; two thresholds | hysteresis, the order of the layers, counters that agree |
| Structural engine (`structural_trajectory_v2.py`, `hierarchical_composition_v2.py`, `multiscale_resolver_v2.py`, `structural_density_v2.py`, `structural_rollout_v2.py`, `structural_branch_state_v2.py`, `structural_attractor_v2.py`, `structural_equivalence_v2.py`, `resolutive_inference_v2.py`) | the trajectory index; branch states of callers | ingest; queries, levels, rollouts, `observe_address`, recovery, attractors, inference | common subsequences with ties, limits that cut, an index that grows under a branch state | the answer a reference definition gives; nothing invented, nothing possible lost |
| Association fields (`structural_association_field.py`, `structural_association_continuous.py`) | edges with lazily decayed weights, a window of recent events | `observe`, `advance`, `export`, `restore` | decay applied at different times; what leaves the window | a weight is the discounted sum of its history; only what cannot matter is dropped |
| Epistemic ledger and admissions (`epistemic_response_v2.py`, `learning_admission_v2.py`) | two JSONL journals, the trajectory index | `record`, `append`, `admit`, `replay` | fsync failures; an index changed without a lock | one admission, one trajectory; replay is idempotent |
| Native leases (`native_runtime.py` and three services) | open handles, reference counts, leases | `acquire`, `call`, `release`, `close` | calls racing the last release | no use after close; one library per store |
| Incremental episodes and mirror (`external_episode_incremental.py`, `..._bdr_candidate.py`, `..._bdr_mirror.py`) | SQLite or BDR journal, graph, poison flag | `observe`, `migrate_legacy`, `create_verified_mirror` | commit before projection; a live source while copying | no ACK after a failed projection; the report describes the snapshot |
| Administration (`product_applications.py`, `product_config.py`, `product_admin_config.py`) | credentials, settings and secrets in whole-file JSON | `create`, `set_enabled`, `authenticate`, `configure_llm`, `configure_license` | memory before the file; two files for one setting | a revoked application stays revoked; what was answered survives |
| Backup (`product_backup.py`) | a ZIP of two files | `create_backup`, `restore_backup` | both files change under a running server | the archive is a pair of one save |
| Native memory (`nm/memoria_mobile.c`, `nm/mobile_persistence_bdr.c`, `nm/*_kernel.c`) | turns, episodes, derived relations, an index, BDR rows | `learn_turn_json`, `store_episode_json`, `resolve_context_json`, `format_memory`, `open` | order of batch and memory, unsure commits, corrections of corrections, derivations after the turn | what was acknowledged is there after a reopen; an answer stands on standing turns |
| Native concepts and relations (`nm/concept_*.c`, `nm/relational_activation_native.c`) | a catalog, a graph read from turns | `apply_catalog`, query rewriting, paths, collections, activation | a catalog taken over only after its save; limits on paths and frontiers | disk and memory hold one catalog; answers are the best the limits allow |
| Native structural text (`nm/structural_text_*.c`) | rows and a field per hierarchy | `observe`, query, windows by page | a row that is durable while the field fails; a client that pages while others write | an acknowledged observation survives; pages of one token are one window |

The components meet in few places: `ProductStructuralObservationService` calls the
store and then the runtimes (one module, because the cursor ties them together);
the relation, conversation and episodic routes all call the one evidence `save()`;
the conversation and episodic services share one native handle; backup reads the
files that `EnterpriseMemory` writes; the structural engine reads one trajectory
index; the native readers read the turns of one handle.

`PROJECT.json` lists each of these with its status, and the hazards line by line.

## 2. The modules and the code

A component has a module; modules that share no state are model-checked together,
in an `MC...` module whose variable `focus` picks the one a behaviour is about. The
run covers the sum of the parts, not their product. What the parts of an `INSTANCE`
are bounded by stands in that `MC` module, everything else in the cfg.

Operators marked "Mutant" are deliberate mistakes (a dropped guard, a swapped
order). `PROJECT.json` names for each property some that it detects when they
replace the definition they stand next to; `Next` never uses them.

### Stores: StructuralPipeline, and MCStores over three more

**StructuralPipeline** (and **ObservationLog**). `StructuralObservationStore.append`,
`sync` of a runtime and the constructor of the service, as the steps of request
threads and of an `Opener`:

* `append`: `AppendDuplicate`, `AppendConflict`, or `AppendNew` then `StorePayload`,
  `WriteRow`, `FsyncRow`. The store's lock is held from `AppendNew` to `FsyncRow`;
  each write has a `...Fails` action, and `ErrorLeaves` says what a raising write may
  leave in the file (nothing, the row, its first bytes).
* `sync`: `SyncNothing`, or `SyncBegin` (the suffix is read under the store's lock),
  `Observe` row by row or `ObserveRaises`, `SuffixDone`, `SaveState`,
  `ReplacePointer`, or `CheckpointFails`.
* start: `Open`, `LoadLine` / `LoadLineRaises`, `LoadRuntime` / `LoadRuntimeRaises`,
  then the opener's own `sync`; `Kill`, `PowerLoss`, `Restart`.

`payloads`, `file`, `synced`, `states` and `pointer` are the disk; `order` is `_order`;
`rt` is the runtime with its cursor. The field is the sequence folded into it, so that
"the field is the fold of the first n rows" can be said without its arithmetic.
`Reader` selects which runtime follows: the two differ in the rows on which they raise
(`Rejects`). `ObservationLog` is what a caller is promised: a log with one envelope per
event, answers that agree with it for ever, a derived view that never goes back.
`ImplementsLog` is the refinement, with the rows that survive any stop as the log.

**AddressJournal** (and **RevisionHistory**). `append` changes the journal in memory
(`AppendCandidate`), then `StorePayload`, `WriteRow`, `FsyncRow`; `StoreFails` enters
the except branch, whose `Rebuild` restores the journal from `_rows` and may itself
fail (`RebuildFails`). Since a revision id hashes its predecessor, a revision is its
key with the chain of entries up to it. `ResolveAnchor` and `ResolveNeighbour` are the
two critical sections of a navigation. `RevisionHistory` is the promise: per address a
history that only grows, with increasing sequence numbers.

**EvidenceSnapshot** (and **EvidenceLedger**). `EpisodeNew`, `EpisodeRetry`,
`EpisodeAgain` are the outcomes of the locked route, `RelationNew` the unlocked one.
`save()` is eight steps: `Dump`, `LookUp`, `AddSnapshot` or `AddExists`, `OpenTmp`,
`WriteTmp`, `Replace` or `ReplaceMissing`, `Assign`. Files are inodes, because two
threads that open the one temporary file write to one file, and a rename moves the
inode they still have open. `PowerLoss` may empty a receipt nobody has fsynced.
`EvidenceLedger` is the promise: rows only join what a restart finds, and an answer
names a row that is there.

**EnterpriseMemory** (and **VersionedMemory**). `RememberCheck`, `UpdateCheck`,
`Revoke` begin the three write requests; `LookUp`, `PutNode`, `PutRoute` are the
engine's `store()`, `Enter` the entry, `Recall` the answer that is computed before
`save()`: `Encode`, `ReplaceSnapshot`, `BuildManifest`, `WriteManifest`, `Mirror`,
`ReadManifest`, `Seal`. `Open` is `load()` with the portable fallback, `OpenRaises` the
refusal of a snapshot file that is not the receipt's. `VersionedMemory` is the promise
about what a restart finds.

### Services: MCServices

**NativeLeases**. `Acquire` shares or opens a runtime under the manager's lock;
`BeginCall`, `CheckRuntime` (which tests `_closed` without the runtime's lock),
`EnterNative`, `LeaveNative` are one call; `BeginRelease`, `MarkReleased`,
`DropReference`, `CloseRuntime` one release, with the points where a thread waits for
either lock kept apart. `SharedRelease` says whether threads may release one lease.

**IncrementalEpisodes** implements the same `EvidenceLedger` as `EvidenceSnapshot`:
`ObserveNew` begins a row, `MakeDurable` commits it, `Project` enters it into the core;
either may fail (`MakeDurableFails`, `ProjectFails`), and a failure after the commit
poisons the store until a restart. `Start` is `_rehydrate`; `MigrateAgain`,
`MigrateRefuses` and `Serve` take over a legacy snapshot. `backend` is SQLite or BDR.
**EpisodeMirror** runs `create_verified_mirror` beside it: `ReadCheckpoint`,
`TakeSnapshot`, `CheckWatermark`, `ImportRow` by row, `CompareImported`, `WriteReport`,
while the store goes on serving.

**EpistemicAdmission**. `validate()`, the appends of the decision ledger and of the
admission journal with what a raising write leaves, and `admit` whose projection tests
the trajectory index and changes it in two steps. **BackupRestore** runs a backup and a
restore, step by step, beside the four effects of a save. **AdminFiles** changes
registry, configuration and secrets in memory and then file by file.

**EvidenceCore**. `Observe` with an epoch of its own or the next one, `Adjudicate` with
the guard against circles (`IndependentOf`); `Conflicts`, `ActiveEdges` and `InferPath`
(logical edges, accepted origins, a breadth-first search one round per length, the final
order and its cut) as operators; `Questions` are what a run asks `infer_path`, of those it
does not refuse (`Inquiries`). `EpochsOf` and `JudgedBy` read a snapshot back, which is
`load(dump())`. Entities and predicates
are numbers in the order of their names; a posterior is a pair of whole numbers, and
comparisons multiply across.

### The structural engine: MCCognition

**SaturatingLifecycle**: `Support` and `Contradict` over all layers at once. The loop of
`support()` is a quantifier: `Reaches(a, i)` says that it gets to layer `i`. Strengths
are dyadic fractions in the code and whole numbers of a small unit here.

**StructuralTrajectories** is the index and its queries; **StructuralHierarchy** extends
it with windows that recur in several trajectories (an address of depth d is its
children, in place of their digest), the multiscale ranking and the density profiles;
**StructuralRollout** with the common subsequence, where a tie between directions
matters, the frontiers and the branches that agree; **StructuralBranches** with the
branch state that one caller keeps while others ingest (`Begin`, `Observe`, `Recover`);
**StructuralAttractor** and **StructuralEquivalence** with the Pareto choice and the
witnesses of equivalent beginnings; **ResolutiveInference** with the tiers of one
answer. Ids are digests that only break ties, so the place in the index stands for
them. **AssociationField** halves a weight per tick, in place of exp(-rate), and counts
in a unit that everything divides; **ContinuousField** keeps which events may still be
joined, and none of the floating point. What is kept is a set, as `_trim_history` looks
at every event and the order of the deque is never used.

### The native runtime: MCNative and MCNativeViews

**MobileMemory**: `Learn` (a statement, a correction or an echo) writes a turn with the
marks of the turns it corrects in one batch that is durable, refused, or written without
being reported; `DeriveNext` learns, one by one, the relations two independent roots
support, after the turn itself; `Answer` ends the request. Which relations those are
follows the consolidation stage by stage: `Evidence` (the relations it looks at, and none
when there are more than `MaxRelations`), `Valid` (stated in a form extracted with
confidence 0.90 or more, the `sure` of `Learn`, and resting on a root), `Supports` (the first
of each root, up to `MaxRoots`), `Claimed` (where a claim with two of them is first met),
`Considered` (the first `MaxCandidates` of those), and only then `Due`, those that no standing
derived relation says already. Candidates are a set, and the next one is the one whose
first support is earliest. Whether a turn counts is `Stands`,
computed from the lineage when it is read: `RootIn` is `resolve_node()` by the room that
`visited[]` has left, so `MaxVisited` stands for `MEMORIA_LINEAGE_MAX_VISITED`.
`StoreEpisode`, `Kill` and `Open` complete it, and `Format`, which ends in one of four ways:
durable; refused; cleared without being reported durable, which leaves the handle as it
was; or `late`, where the views do not open again. A batch is written at its slot, so the
store is a function of slots and may lack those below `erased`; `Opens` is what `open`
demands of it. **MobileIndex** is the open-addressed table;
**MobileRetrieval** the order in which a question is answered: temporal states, the turn
a conversation points at, the semantic choice, and a recalled episode.

**NativeConcepts**: `apply_catalog` builds a candidate, writes its rows in one batch and
then takes it over; a catalog with too many aliases or rows is refused where the code
refuses it; a query is rewritten to canonical names. **ConceptRelations** reads
the graph from the turns, finds paths, collections and neighbourhoods under their
limits, and spreads activation; a list of paths longer than the caller's array makes the
answer of `Bridge` "undefined" (section 7). **StructuralText** keeps the rows and the fields
that fade, and serves windows page by page under a token of their content. Concepts and
texts live in the same BDR and are formatted with the memory, so `FormatConcepts` and
`FormatStructural` have the same four outcomes; `lost` is `erased` for the rows of texts, and
`Loads` their `Opens`. `memoria_mobile_open` fails as a whole when one of the three does not
open; each is modelled with the opening of its own part. `MCNative` holds
the catalogs and texts the run uses, chosen so that names collide, cues decide, rows
repeat and limits bite; **MCNativeViews** bounds the concepts, relations and fields.

## 3. Runs

| Run | Module, cfg | Shows |
|---|---|---|
| `pipeline` | `MCStructuralPipeline`, `StructuralPipeline.cfg` | with two threads, conflicting provenances, power losses and writes that leave nothing behind when they raise: `AckedSurvive`, `StartupAccepts`, `FieldIsFold`, `CheckpointIsDurablePrefix`, `RefusedNeverStored`, and the refinement `ImplementsLog` |
| `pipeline_faults` | `StructuralPipelineFaults.cfg` | what is left when everything may fail at once: `CursorStaysValid`, `RowsHavePayload`, and that neither the order nor the checkpoint goes back (`OnlyForward`) |
| `liveness` | `MCLiveness`, `Liveness.cfg` | every acknowledged observation reaches the field of a running service (`AckedEventuallyDerived`); a release that began ends, so that no thread waits for ever on another's lock (`ReleaseEnds`) |
| `stores` | `MCStores`, `Stores.cfg` | `AcksSurvive`, `StoresReopen`, `ReadersAgree` and the three refinements `StoresImplement`, for the journal on clean and on faulty storage, the episode route alone and beside relations, and enterprise requests one after the other |
| `services` | `MCServices`, `Services.cfg` | `LeasesSafe`, `EpisodesProjected`, the refinement `KeepsLedger`, `MirrorProves`, `AdmissionsJustified`, `BackupRestores`, `AdministrationSurvives`, `EvidenceIsSound`, `PathsInferred` |
| `cognition` | `MCCognition`, `Cognition.cfg` | `LifecycleSafe` (hysteresis, order of layers, counters), `AnswersReadContent`, `LevelsAreFaithful`, `BranchesAreExact`, `InferenceIsSound`, `FieldsRememberEnough` |
| `native` | `MCNative`, `Native.cfg` | `AckedTurnsSurvive`, `LineageHolds`, `LookupIsScan`, `AnswersStand`, `ReadersExact`, `ConceptsAnswer` (catalogs and relations), `ObservationsSurvive`, `FieldsAnswer`, and of every step `ClaimsDerived` |
| `pipeline_trail`, `evidence_race`, `enterprise_overlap`, `continuous_window`, `native_current` | the cfgs of these names | violations, see section 7 |

Most properties of `stores`, `cognition`, `services` and `native` are conjunctions over
the parts; the comment above each names the code it is about, and the parts are stated
in the component's module. Those that compare with a reference definition give it
independently of the code's algorithm: all subsequences instead of the table that finds
one, all simple paths instead of the queue, the sum over the history instead of the
decayed weight, a scan of the rows instead of the index.

The properties hold under the assumptions of their cfg, and those are part of the
result. The evidence service keeps its promises while only the episode route saves and
no power is lost; the enterprise memories while requests come one at a time; both
append-only stores while a write that raises leaves no row behind; backups when they
are taken with the service stopped; administration with one request at a time. The
other runs and section 7 show that these conditions are needed.

## 4. Bounds and why they are enough

Every bound is a constant with a comment "bound", used only as a guard.

* Two events with two provenances are enough for duplicates, conflicts and an order;
  a permutation below a valid cursor needs a third event (section 7).
* Two threads: every critical section here excludes or fails to exclude one other
  actor; the constructor is a third. Three leases let a store be shared, released and
  acquired again.
* `MaxCrashes` 2: the second crash meets what the first restart left. `MaxErrors` 1
  or 2: the second error hits the handler of the first (a failing rebuild). In
  `MCStores`, `clean` has power losses with one crash and one error; `faulty` one
  thread, kills, rows left behind, a rebuild that may fail, one crash and two errors;
  `episodes` kills, two crashes and two errors; `mixed` kills and power losses, one
  episode and one relation; `enterprise` one thread, one crash and one error.
* `MaxRows` 3 for the evidence service is two episodes and a row that must not come;
  three inodes let a temporary file, the receipt and the one it replaces coexist.
* `MaxVersion` 2 is a first store and an update; kills in two consecutive saves need
  no more.
* Layers: three with rates 4, 2 and 1 and calls of up to 8 units saturate, sleep and
  wake again within `MaxTime` 10.
* The index: three trails of up to three addresses answer every query; two of up to
  five repeat windows in and across trajectories; two feed a branch state that is
  observed while a third comes; three of one length share prefixes, bridges and ends.
  A level needs two occurrences in two trajectories, so two long trails build two.
* Fields: trails of three and three ticks let an edge be reinforced, faded and read in
  any order; the intervals of the continuous field overlap, touch, leave gaps within
  and beyond the horizon.
* The evidence graph: three entities and up to four claims give two paths of different
  lengths and a fourth row that doubles an edge; three adjudications close the smallest
  circle a check of direct neighbours misses.
* Native memory: where kinds of turns mix, three requests (`MaxMixed`) are a claim, its
  correction and one more; one failed write or format and one kill or format meet at any
  of them. `MaxVisited` 5 is one short of the longest lineage they reach, so the limit
  cuts. Where turns only state (`claims`), five requests about two claims in two forms
  cut each limit of the consolidation: `MaxRoots` 2 leaves out a third root, `MaxCandidates` 1
  a second claim (also behind one that is derived already), `MaxRelations` 4 everything after
  the fourth. The table starts with two slots, so that it grows, collides and wraps with
  three rows.
* Views: ten catalogs of up to four rows over at most four concepts; `MaxAliases` 6 and
  `RowCap` 5 refuse some of them. Four facts, with two edges kept in a frontier, two
  results, two paths and two members of a list: three parallel edges are one path more
  than the array of the caller holds. The caps on members and on neighbours, 8 each, are one
  `MaxListed`. Three observations, one failure or format that fails, and one
  restart; `PageLimits` {1, 2} pages through windows of two and three.

`CHECK_DEADLOCK FALSE` is set where a part ends at its bounds; the pipeline runs check
deadlock, and show that no state is stuck: a refused start can be retried and a request
can always begin.

Symmetry is used where events, provenances, keys, threads, addresses and ids of
adjudications are interchangeable model values, and not in the liveness run.

## 5. Fairness

Only `MCLiveness` has any.

* Weak fairness, per actor, of the steps inside a call of the pipeline (`Continues`): a
  thread that holds a lock keeps running and releases it, which the operating system's
  scheduler gives. `Observe` and the checkpoint steps belong to the thread that entered
  `sync`; the next `sync` of anyone continues where an exception stopped.
* Weak fairness of `StartupSteps`: a stopped service is restarted
  (`restart: unless-stopped` in `compose.yaml`).
* Weak fairness, per thread, of `Progress` of NativeLeases: the steps of a call or of a
  release in progress. The manager's lock is taken before a runtime's and never the
  other way round, which is what `ReleaseEnds` rests on; a mutant that takes them in
  the other order deadlocks.

Beginning a request is not fair, and neither are errors or crashes. Locks are not
fair either: a thread may wait for the runtime's lock while others take it in turn,
but then each of their calls reads the whole suffix, the waiting thread's row
included. A failing checkpoint leaves the field in memory as it is; a `sync` that a
crash cut short leaves its row to the constructor's `sync` at the next start.

## 6. Proofs

Eight modules, checked by TLAPS without further assumptions than the `ASSUME`s on
constants (which the runs evaluate) and the hypotheses named below. Each shows
`Init => IInv`, one lemma or step per action for `IInv /\ [Next]_vars => IInv'`, and
`IInv => Inv`; a refinement adds that every step allowed from `IInv` is a step of the
abstract module or leaves its variables alone. `PROJECT.json` lists the theorems with
the property of a run that each states.

**StructuralPipelineProofs**, for every set of events and threads and for both readers.

* Whatever fails: `PipelineTypeOK`, `PipelineCursorStaysValid`, `PipelineRowsHavePayload`
  and the action property `PipelineOnlyForward`. The inductive invariant is `ControlInv`:
  the types, who may be where (request threads only in a running service, the opener
  only while it opens, a suffix ends inside `order`), and the cursor. `RowsHavePayload`
  needs `PayloadInv` besides: whoever is about to write a row has stored its payload.
* Under `CleanWrites` (a raising write leaves nothing, no row is torn, and kills and power
  losses do not mix): `AcknowledgedSurvives`, `RefusalIsFinal`, `DerivedFieldIsFold`,
  `CheckpointIsFold` and the refinement `PipelineImplementsLog`. None is inductive.
  `StoreInv` adds that the index has one row per event, that `order` is a durable prefix
  of it, all of it except for the row the holder of the lock has not yet fsynced, and that
  answers agree with the durable rows; `RuntimeInv` adds that field and checkpoint are
  folds of prefixes. `QuietStep` and `QuietRuntime` dispose of the actions that touch
  neither.
* `StartupAlwaysAccepts` needs moreover that no row is one the reader raises on
  (`RowsFoldable`); `pipeline_trail` shows a service that such a row keeps from starting.

**AddressJournalProofs**, for any keys and threads. `JournalTypeOK` holds on any storage.
`JournalAckedSurvive` needs `WholeLines`: no half line, and kills or power losses but not
both, since a line that a kill left without fsync is replayed and acknowledged, and may
then be lost with the power. On `CleanStorage` (a raising write leaves nothing, and the
rebuild of the except branch does not fail): `JournalReopens`, `JournalReaders`,
`JournalAnswers`, `JournalRefines`. The invariant says which of file, memory and the
holder of the lock is ahead of which, that the file is one chain per key, and that a
resolver between its two critical sections holds a revision that is still there.
`JournalAnswersAlone` is about faulty storage and one caller: an answer is durable and
adjacent even where lines are left behind and rebuilds fail. With a rival it need not be.

**EvidenceSnapshotProofs**. `EpisodesStayOnce` holds for any overlap of the two routes and
any stop. On the locked route alone (`LockedRoute`: no relations, kills, no power loss,
two inodes) `EvidenceTypeOK`, `EpisodeAcksSurvive`, `EpisodeReceiptsCover`,
`EpisodeStoreReopens` and the refinement `EpisodesImplementLedger`. `evidence_race` and
section 7 show why the other route and power losses are excluded.

**EnterpriseMemoryProofs**. `ReceiptsAlwaysStored` holds for any overlap of requests. With
one thread (`OneRequest`): `EnterpriseTypeOK`, `VersionsSurvive`, `RestartsResolve`,
`MemoryAlwaysResolves`, `RevokedAlwaysStays`, `StoredPayloadAlwaysStays` and the refinement
`MemoryIsAppendOnly`. A kill inside `save()` makes a restart pair an earlier index with a
later engine, so the invariant relates every index a restart may find with an engine that
holds all its versions and perhaps later ones.

**StoresProofs** carries the three to the composite that `stores` checks: `StoresNeverForget`,
`StoresAlwaysReopen`, `ReadersAlwaysAgree` and `StoresAlwaysImplement`, under `StoresFit`,
an `ASSUME` of `MCStores`: what it gives its parts meets the hypotheses above. A step of the composite is a step of the part in focus.

**ServicesProofs**.

* `LeasesAreSafe`, for any number of threads, leases and runtimes, if no two threads release
  one lease (`~SharedRelease`) and identities do not clash (`LeaseAssumptions`). The count
  of an entry is the number of its live leases, so the invariant says who they are: issued
  and not yet dropped, a lease that its owner has marked released but not yet taken off the
  count included. The bookkeeping is by cardinality, with `FiniteSetTheorems`.
* `ProjectedAlways` and `EpisodesKeepLedger`, for both backends and every legacy snapshot.
  While the store is neither poisoned nor between a commit and its projection, core and
  journal are the same rows (`CoreKept`); `Unsure` names the one row that may be on disk
  and in nobody's answer. `MirrorAlwaysProves` follows the snapshot the mirror took, which
  stays a beginning of the live rows while the store goes on.
* `BackupAlwaysRestores` (`BackupParameters`: what is absent is no version), with the
  archive, the half-restored pair and the four effects of a save told apart;
  `AdministrationAlwaysSurvives`, for requests that follow one another;
  `AdmissionsAlwaysJustified`, for callers that overlap: an index entry, a journal row and
  a decision are tied while `admit` is between its steps.
* `EvidenceAlwaysSound`, for any relations, epochs and adjudications. `EvidenceInv` says
  that the sequence of rows, replayed, gives each its epoch, that the trust graph holds
  every adjudication, and that it is grounded: every group of origins has a member
  that none of the group vouches for. What an adjudication adds is refused when the
  judge is reached from the judged, and a set that was grounded stays so: it either has a
  member that is not reached or none of the judges. The replay is a recursive function of
  the rows, and `Upwards` proves what it computes place by place.
* `PathsAlwaysInferred`, for any graph that can be stated and every question
  `infer_path` does not refuse (`QuestionsAssumption`: at least one edge, one path and one
  origin asked for; without the last an edge nobody supports would have no floor). The
  steps: the logical edges have one for each subject, predicate and object
  (`LogicalGraph`), so their order by name is one row (`Ranking`: in a strict total order
  of a finite set each element stands where the number below it says); a round turns a
  list of all trails of one length, each once, into that of the next (`RoundGrows`,
  `ExploreLists`), or stops with enough, and then every path shorter than the last round
  is there (`Found`); the order of the answers is strict and what is not better than
  another is not better than all that is (`BetterIsStrict`, over its five levels,
  fractions by cross-multiplication); so the paths with fewer than `max_paths` ahead are
  as many as were asked for, and none left out is better than any of them.

**NativeProofs**.

* `TurnsSurvive` (`MobileSpec => []AckedTurnsSurvive`), for any namespaces, claims and
  outcomes of batches and formats. `MemoryInv` has the types, that every turn of the
  handle above `erased` is stored in its slot and the store has no slot below (`OnDisk`,
  `StoredIn`), that what was answered since the last clear is among the stored rows, and,
  between the batch of a turn and its answer, that the request carries its slots. What
  makes it inductive is that a batch writes at the next slot of the handle and cuts what
  lies beyond (`WrittenIn`, `MarkedOnDisk`): no later batch touches an earlier row, a
  refused or unsure one included. A clear that is not reported puts `erased` at the length
  of the handle. From then on the theorem promises the rows above it, which are on disk,
  and not that the store opens; with nothing erased it opens, and a store that opens has
  nothing erased or no rows at all (`OpensWhole`).
* `ObservedIsKept`: acknowledged observations stay in the rows, in their order, whatever
  fails in between. The disk may hold one row more than the memory, which an unsure batch
  leaves, and lacks the rows that an unreported clear erased (`lost`); those of the memory
  that are not lost are on disk.
* `ReadersAlwaysExact`. `EveryHistoryExact` and `EveryRecallExact` say it of every list of
  facts and of episodes: after n of them the running state names the latest and the one
  before, or the best and whether it has a rival (`StateOf`, `RecallOf`), whatever order
  they were stored in.
* `LineageAlwaysHolds` (`MobileSpec => []LineageHolds`). The search of `resolve_node()` goes
  through sets of visited ids and the reference `Grounded` through steps, so
  `SearchFindsLineage` is proved for every finite graph, by the room left in one direction
  (what is found is grounded) and by steps in the other: a shortest grounding meets no id
  twice, so no path of it is cut. The rest is `FoundedInv`: a derived row names parents
  that are stored before it, are no echoes and state what it states, whichever rows are
  cut by a later batch.
* `ClaimsAlwaysDerived` (`MobileSpec => ClaimsDerived`), an action property, for any limits of
  the consolidation with `MaxRoots >= 2` (`ClaimLimits`). It promises a relation to the first
  `MaxCandidates` claims that surely stated memories of two roots support, while no more than
  `MaxRelations` relations are stored. The property names those claims from the rows alone, the
  code by its supports; that the two agree is `SupportsAre` and `ClaimedAreFirsts`: the
  first memory of a claim is a support, and so is the first one of a second root, however few
  are kept. A derived row is no evidence and moves no root, so it leaves the first claims
  the first (`FirstsKept`). The rest rests on a
  derived row leaving every lineage that was there before as it is, so that candidates
  computed at the claim are still due when their turn comes, and on what is still
  queued: between the claim and its answer every claim that is due has its relation or
  waits. The limit of the search makes one exception, which the property states: memories
  grounded only in the last step have no room for a relation above them, which is
  then derived and never stands. Nor is a claim derived once and for all: when a relation
  stopped standing, it is derived anew beside the old one, which may come to stand again.
* `EveryAnswerStands`, from `NumberedInv` (the ids of turns are given once, and what
  repeats is a derived relation that says the same; in the store as well, unless a clear
  that was not reported erased rows, after which it opens only when empty), for any queries and
  windows of finitely many words; `AnswersAlwaysStand` for those of the run. The semantic
  choice is a recursive function of the row, whose running state names rows that stand.
* `WindowsAlwaysWhole`, the conjunct `WindowsReadWhole` of `FieldsAnswer`: the window is
  taken by rank, each page continues the one before, and a token that is still valid means
  that the window has not changed since the first page.
* `LookupAlwaysScan` (`IndexSpec => []LookupIsScan`), for any keys, hash, first capacity and
  turns. `IndexInv` says that every taken slot holds an entry of the rows, each key at
  most once and with no free slot before it on the way from its hash (`TableSound`), that a slot
  stays free, and, while no id is empty, that each key is entered where it first
  occurs (`CompleteTo`). `Reserve` keeps the entries in other slots and makes room for
  the whole row (`ReserveKeeps`); `EverySlot` shows that a search meets all slots,
  and `FittingFits` that the doublings suffice.

**CognitionProofs**.

* `LifecycleHolds`, for every number of layers, rates, thresholds with
  `Deactivate < Activate < MaxStrength`, and amounts. The hysteresis is inductive with the
  types; the order of the layers needs that "has once been active" is closed downwards;
  the counters that they differ by one exactly while a layer is active.
* `WindowOmitsNothing`, the other side of `continuous_window`: `OnlyNegligibleOmitted` holds for
  any clocks, horizons and limits when no interval reaches back before one that is
  centered earlier (`NoneReachesBack`; instants, and intervals of one length, are
  such). The invariant is that what left the window is out of reach of the latest
  coordinate of its clock, and out of reach of all that is centered later (`FartherOn`).
* `BranchesFollow`: `BranchesFollowMemory` for any addresses, step counts, limits, sources
  and trails, and an index of any length, given that `max_steps` is at least 1
  (`BranchParameters`); `BranchesAlwaysExact` (`Spec => []BranchesAreExact`) is the same of
  the machine of `MCCognition`. `BranchInv` says how a state begins (`BeginsRight`: each stored
  trajectory witnesses one branch or has ended, at an anchor that lies on it, and what
  remains of the branch is what the trajectory goes on with) and what is left of it
  (`Narrowed`: the witnesses whose continuation begins with what was heard, in
  branches no two of which have the same rest). One observed address keeps the second
  (`ObserveOne`); rows are only added to the index, so that all of it stays true while
  others ingest (`StillRight`). That a rollout begins right needs that its anchors lie on
  the trails: the table of the longest common subsequence is positive exactly where a part
  of the query and a part of the trail share an address (`TableMatches`), so
  the walk back through it comes past a match (`PositionsLie`), and the ranking holds the rows
  with common addresses and no other (`SortedKeeps`, `MatchesMeet`).
  Recovery joins nothing since a trail with nothing to go on with after the last place
  it holds the seed ends with it (`HoldersEnd`).
* `InferenceHolds`: `EquivalenceIsSound` and `InferenceIsGrounded` of every query, for any
  addresses, sources, trails, bridge lengths and lineage thresholds
  (`EquivalenceParameters`: at least 1 and 2, as the engine demands), and an index below
  `Unlimited`; `InferenceAlwaysSound` (`Spec => []InferenceIsSound`) is the same of the
  machine of `MCCognition`. The invariant, `InferenceInv`, is that stored trails have no address
  twice in a row, so that what is delivered again is the row it was (`CollapsedStays`) and the
  index keeps to its bound. Unlimited, the witnesses are all pairs of views that meet at
  a bridge (`WitnessesAre`): the relation read backwards has the same pairs of lineages turned
  round (`RelationMirrors`), and a replayed trajectory stands wherever the one it repeats
  does (`ReplayShowsNothing`). Grounding needs that a rollout is complete: a query that
  anything matches is bounded out, goes on or ends (`RollsWhole`), so the attractor is
  ambiguous, resolved or terminal (`AttractorGrounded`); and that a query with a reformulation
  begins a stored trajectory (`ReformulatedIsKnown`), so the equivalent tier never answers.

* `QueriesHold`: `QueriesReadContent` and `AttractorIsStable` of every query, for any
  addresses and an index of any trails from any sources; `AnswersAlwaysRead` (`Spec =>
  []AnswersReadContent`) is the same of the machine of `MCCognition`. The invariant,
  `QueryInv`, adds to the one of inference that rows are numbered by their place
  (`Numbered`). The keys of a ranking end in that number, so no two are equal and an
  insertion sort by them is the only list in descending order (`SortedRanks`,
  `SameRanking`): the order rows came in cannot show (`OrderIgnored`). Both frontiers read
  the same occurrences, one from each side (`FrontiersMeet`). A rollout starts from the
  rows that share most with the query at depth 0, which their addresses tell without the
  levels above (`PlacesAre`), so levels that climb differently with one more row change
  nothing. Of the candidates of an attractor, one that dominates has more discrete
  evidence in all, or as much and more mass (`DominanceLowers`), so a candidate of
  greatest evidence is undominated (`ParetoExists`) although dominance is not transitive.
  An occurrence shown again stands wherever the first did (`AgainStands`), only adds to
  the support of the winner (`GrowthHelps`), and changes no reading: the winner stays
  alone (`WinnerStays`) unless the limits cut (`StaysResolved`).

Only model-checked: of `cognition` `LevelsAreFaithful` and `FieldsRememberEnough` (of whose
window `WindowOmitsNothing` tells a part); of
`native` `ConceptsAnswer`, and `FieldsAnswer` but for its windows. They
compare an algorithm with a reference over folds and sums, a ranking with the ranking of
every permutation, or an answer with all subsequences. Liveness under
fairness stays with TLC for good, as does induction over data in general. Where an
algorithm walks a sequence place by place it is written as a recursive function instead,
and `Upwards` (through the largest place below which a claim holds) takes the place of the induction.

## 7. Disagreements between code and documentation

Five are kept as runs that TLC must find violated; `PROJECT.json` quotes the sentence
each contradicts.

* `pipeline_trail`: an observation with an empty trail, the default of the HTTP request,
  is stored and acknowledged; the trajectory index raises on it in every later `sync`,
  the constructor's included, and the runtime never opens again.
* `evidence_race`: a relation's `save()` truncates the temporary file an episode's
  `save()` is about to rename: `receipt.json` is empty when the episode is acknowledged.
* `enterprise_overlap`: two saves overlap, the older manifest is written last, and a
  revocation that was answered is not there after a restart.
* `continuous_window`: an event that ended before the latest coordinate of its clock is
  dropped from the window, and an interval that overlaps it arrives later: the pair that
  would have had a kernel of 1 is never joined, while the class comment promises that
  only negligible contributions are omitted.
* `native_current`: a correction that states no claim of its own supersedes a turn, but
  the temporal reader still offers the superseded claim as the current state.

Others come out of the same modules when the constants of a cfg, or of an `INSTANCE` in
`MCStores`, are changed:

| Start from | Change | Property that fails | Why |
|---|---|---|---|
| `StructuralPipelineTrail.cfg` | `EmptyTrail = {}`, `BlankName = {p1}`, `Reader = "association"` | `StartupAccepts` | a hierarchy name of white space is stored, and the field raises on it for ever |
| `StructuralPipeline.cfg` | `ErrorLeaves = {"row"}` | `StartupAccepts` | a row whose fsync raised is in the file but not in memory; its event is accepted again with another provenance |
| the same | three events, one provenance, one thread, `Stops = {"kill"}` | `FieldIsFold` | such a row is overtaken and stored again; after a restart the order of rows is not the one that was folded |
| `MCStores`, `Journal` | `ErrorLeaves <- {"row"}`, `Stops <- {"kill"}` | `StoresReopen` | the same, in the journal |
| `MCStores`, `Journal` | `RebuildMayFail <- TRUE`, `MaxErrors <- 2` | `StoresReopen` | the except branch empties the journal before it loads; a second first revision is then accepted |
| `MCStores`, `Journal` | `Stops <- {"kill", "power"}`, `MaxCrashes <- 2`, `MaxErrors <- 0` | `AcksSurvive` | a line that was written but never fsynced is replayed and acknowledged after a kill, then lost |
| `EvidenceSnapshotRace.cfg` | `INVARIANTS ReceiptCoversAck` | itself | the older receipt is assigned last; a retry is answered with it |
| `MCStores`, `Evidence` | `Stops <- {"power"}` | `AcksSurvive` | nothing fsyncs `receipt.json` |
| `EnterpriseMemoryOverlap.cfg` | one key, `INVARIANTS RevokedStays` | itself | a first store that passed its check early replaces the revoked entry |
| the same | one key, two payloads, `INVARIANTS StoredPayloadStays` | itself | two first stores of one id both find no node |
| the same | one thread, one key, two crashes, `INVARIANTS UpdateWritesNew` | itself | two kills inside `save()` pair old entries with a newer engine; the next update's version is taken |
| `Services.cfg` | `SharedRelease = TRUE` | `LeasesSafe` | two threads that release one lease count it down twice: the runtime closes under another lease |

Two more sentences need no run to be contradicted; the models do what the code does.

* "Maximum candidate paths: 2" (`docs/POST_V1_NATIVE_RELATION_RESOLVE_ACTIVATION.md:26`).
  The search looks at the number once per waiting path, and writes `out_paths[found]` for
  every edge that reaches the target in between (`concept_relation_traversal.c:100-134`).
  The bridge gives it an array of two on its stack
  (`concept_relation_resolve_bridge.c:319`, `353-359`), so three edges between the same
  two concepts, which the run contains, write beyond it. What the program does then is not
  defined: the model answers "undefined", and `PathsAreUnique` promises only that it takes
  more than `MaxPaths` paths to get there.
* "Cold reopen deterministically repairs this process-local failure by replaying the
  persisted suffix" (`structural_text_runtime.c:685-686`), of a field whose update failed
  half-way after its row was stored. The failed row is not counted in memory, and slots
  are numbered for the whole runtime: the next observation, of any hierarchy, is written
  to its slot, and a reopen replays that one instead. Of the same hierarchy, it is also
  applied to the half-done field. `ObservationsSurvive` promises acknowledged rows, and
  `FieldsAnswer` excepts hierarchies that went `astray` until a reopen.

With two threads `MemoryResolves` and `ReceiptStored` still hold (one key, two
knowledge ids, two payloads, no crashes). `BackupRestores` is about archives that are
taken with the service stopped, as the manual asks; beside a running save an archive may
pair a snapshot with the manifest of another version, and the restored service refuses it.

## 8. What the code does that a reader may not expect

The models follow the code in these too, and the properties are stated so that they hold.
Where that means an exception, the bullet says so.

Services and structural engine:

* The evidence id an inferred path cites for an edge is that of its newest row, which may
  come from an origin that the confidence or reliability asked for has ruled out.
* The search of `infer_path` stops after `max_paths` paths and looks at the number once
  per waiting path: a longer path with more independent origins may be missing.
* Epochs are assigned without a lock (`evidence_core.py:121`): under threads two rows may
  get one epoch, and a single-valued slot is then in conflict with itself.
* The tier of inference for equivalent beginnings never answers: a query with a known
  reformulation begins a stored trajectory, so direct evidence exists. Its disagreements
  are reported all the same.
* A rollout continues from the end of a common subsequence, a recovered branch from the
  end of an exact occurrence of the longest known suffix; the comments at
  `structural_rollout_v2.py:149` and `structural_branch_state_v2.py:149` describe the
  choice among ties differently from what the comparison does.
* `max_witnesses_per_pair` cuts by digest and may hide witnesses of other lineages; it is
  not modelled.

Native runtime:

* Which source types count as roots is listed in several places that differ: a turn of
  type `direct_observation` is a root for derivations and never for the lineage kernel,
  so it never stands.
* A correction of a turn whose batch was unsure leaves marks and a row on disk that the
  handle does not know; the next `open` reads them. If rows of one id repeat, the first
  one answers.
* A derived relation stays when all its supports come to rest on one root, and the stored
  ultimate source is not looked at again on the path of trajectories.
* A format whose clear is not reported durable (`mobile_persistence_bdr.c:394`) is
  answered as failed and leaves the handle as it was (`memoria_mobile.c:2098`), above an
  empty store. The turns answered before are gone at the next start; a turn answered after
  it is stored at the slot behind them, and such a store does not open again. Erased
  observations are still answered as duplicates. `AckedTurnsSurvive` and
  `ObservationsSurvive` count as acknowledged what was answered since the last clear,
  reported or not, and promise an opening store only while nothing is `erased` or `lost`.
  A format that fails after its clear (`memoria_mobile.c:2121-2134`) has emptied both, and
  leaves concepts and texts closed until a restart. A format that succeeds starts the ids
  again.
* Not every claim that two roots support is derived. The consolidation keeps the first
  eight of them, before it leaves out those already derived (`memoria_mobile.c:874`,
  `semantic_consolidation_state.c:111-116`), so a ninth is never derived while the eight
  stand; over 1024 relations it derives nothing (`semantic_consolidation_kernel.c:75`); a
  claim stated elliptically is extracted with 0.85 and never counts, as 0.90 is asked; of
  more than 16 roots the first 16 are named as parents. `ClaimsDerived` excepts these, and
  the two cases its comment adds. Namespaces are compared without regard to case and white
  space, unlike everywhere else; the namespaces of the model differ by more.
* An echo within the margin of its own root keeps a reference from being answered, or is
  answered itself; which of two ambiguous semantic rows is canonical depends on the order
  of rows.
* An empty memory id drops the index. Lookups scan until the next turn, which starts a
  new table (`memory_index_reserve`) that lacks the rows before it, so they are no longer
  found; and since the rebuild fails on the empty id, the store does not open again
  (`memoria_mobile.c:937`). The model does the same, and `LookupIsScan` excepts tables over rows
  with an empty id (`AllNamed`).
* Two turns that witness one relation twice make its answer ambiguous; a full collection
  no longer improves the evidence of its members.
* An unsure catalog save, followed by the old catalog, is answered "unchanged" while the
  disk has the new one.
* A source id that a context already lists is not listed again
  (`structural_text_runtime.c:724`): an occurrence that repeats is not counted.

## 9. Not modelled, and why

Components with status `not_modelled` in `PROJECT.json`, and what the models leave out:

* Weights, kernels and scores in floating point. The discrete field is exact with halving;
  of the continuous one only the window is modelled. The Wilson bound of the evidence
  graph is irrational.
* Hashing, JSON and canonical forms: an identity is a model value, equal exactly when
  the code's ids are. A digest collision does not occur. Tokens, case folding and UTF-8
  likewise: a text is the set or the sequence of its words.
* BDR and SQLite: a payload that was stored is durable, and a batch is whole, as their
  contracts say; for BDR in the native runtime also that a batch may be written without
  being reported. The storage health checks are left out, and so is the group commit of
  `bdr_store.py`.
* The conversation, episodic and chat services: parsing and prompting around the evidence
  service, whose graph they change by the route modelled as relations.
* The Python registries of concepts, provenance and promotion: in memory, called from one
  thread. The native versions of the same ideas are modelled.
* Requests with an explicit order or authority, texts with several claims, and a
  consolidation request longer than its buffer of 8192 bytes, which is not learned, in
  `MobileMemory`.
* Requests of an administrator that overlap: the registry has no lock, and two saves would
  share one temporary file, as in `evidence_race`.
* `restore_or_portable_fallback` (`product_persistence.py:103`), `records_under`, the
  content of a change of an address (a longest common subsequence of its children), HTTP
  models, adapters to language models, diagnostics, routers, benchmarks and experiments.

## 10. What is left

* Theorems: `EquivalenceIsSound` and `IndexIsCanonical`, whose modules declare no recursive
  operator; the levels and branches, once their recursive operators are functions.
* `memory_provenance.py` and `factual_inference.py` as a reader of EvidenceCore: the
  lineage rules are those of MobileMemory, over rows that may conflict.
* Overlapping requests in AdminFiles, and the group commit of BDR under power losses.
