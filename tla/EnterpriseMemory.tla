--------------------------- MODULE EnterpriseMemory ---------------------------
(***************************************************************************)
(* The product's logical memories: remember(), update() and revoke() of    *)
(* EnterpriseMemoryService over the routed engine, and the save() of       *)
(* PersistentEnterpriseMemoryService that every write request runs.        *)
(*                                                                         *)
(* The engine maps the route of a version to a knowledge node; the service *)
(* keeps an entry per logical memory.  save() writes the engine to         *)
(* memory.snapshot and the entries to the manifest, stores a copy of the   *)
(* snapshot file in BDR/SQLite and writes the manifest again with the      *)
(* receipt of that copy.  No lock is held anywhere: requests interleave.   *)
(* Both files are fsynced and renamed over the old ones.                   *)
(***************************************************************************)
EXTENDS Naturals, FiniteSets

CONSTANTS
  Keys,          \* logical memories: a scope and a trajectory
  KnowledgeIds,  \* names clients give to what they store
  Payloads,
  Threads,
  None,
  MaxVersion,    \* bound: versions of a logical memory
  MaxCrashes,    \* bound: kills in a behaviour
  MaxErrors      \* bound: I/O exceptions in a behaviour

Versions == 1..MaxVersion

Nodes == [key : Keys, version : Versions, kid : KnowledgeIds, payload : Payloads]
Routes == [key : Keys, version : Versions, kid : KnowledgeIds]

\* "object" tells entries that replaced one another apart.
Entries == [kid : KnowledgeIds, latest : Versions, revoked : BOOLEAN,
            object : 1..Cardinality(Threads)]

Engines == [nodes : SUBSET Nodes, routes : SUBSET Routes]
Indexes == [Keys -> Entries \cup {None}]
Manifests == [entries : Indexes, receipt : Engines \cup {None}]

EnterpriseParameters ==
  /\ MaxVersion \in Nat \ {0} /\ MaxCrashes \in Nat /\ MaxErrors \in Nat
  /\ \A values \in {Entries, Payloads, Engines, Manifests} : None \notin values

VARIABLES
  file,       \* memory.snapshot, an engine
  manifest,   \* enterprise.manifest.json: entries and the snapshot receipt
  blobs,      \* snapshots in the BDR/SQLite store
  engine,     \* knowledge nodes and routes in memory
  entries,    \* _entries
  phase,      \* "down", "up", or "refused": load() raised
  pc,         \* where each thread is in its request
  job,        \* the request
  held,       \* the bytes it has encoded or read
  acked,      \* requests answered with success
  crashes, errors

disk    == <<file, manifest, blobs>>
service == <<engine, entries, phase>>
thread  == <<pc, job, held>>
counts  == <<crashes, errors>>
vars    == <<disk, service, thread, acked, counts>>

NoEngine == [nodes |-> {}, routes |-> {}]
NoEntries == [k \in Keys |-> None]

Init ==
  /\ file = None /\ manifest = None /\ blobs = {}
  /\ engine = NoEngine /\ entries = NoEntries
  /\ phase = "down"
  /\ pc = [t \in Threads |-> "idle"]
  /\ job = [t \in Threads |-> None]
  /\ held = [t \in Threads |-> None]
  /\ acked = {}
  /\ crashes = 0 /\ errors = 0

-----------------------------------------------------------------------------
Goto(t, label) == pc' = [pc EXCEPT ![t] = label]

\* The request is answered, with success or not.
Done(t) ==
  /\ Goto(t, "idle")
  /\ job' = [job EXCEPT ![t] = None]
  /\ held' = [held EXCEPT ![t] = None]

IOError ==
  /\ errors < MaxErrors
  /\ errors' = errors + 1

Free(t) == phase = "up" /\ pc[t] = "idle"

NodesAt(e, r) ==
  {n \in e.nodes : n.key = r.key /\ n.version = r.version /\ n.kid = r.kid}
RoutesAt(e, k, v) == {r \in e.routes : r.key = k /\ r.version = v}

\* What version v of logical memory k resolves to.
Resolved(e, k, v) ==
  LET found == UNION {NodesAt(e, r) : r \in RoutesAt(e, k, v)}
  IN  IF found = {} THEN None ELSE (CHOOSE n \in found : TRUE).payload

-----------------------------------------------------------------------------
(* remember(), update(), revoke()                                          *)

\* Mutant: a revoked memory may be stored anew.
RememberAgain(t, k, kid, p) ==
  /\ Free(t) /\ (entries[k] # None => entries[k].revoked)
  /\ job' = [job EXCEPT ![t] =
       [op |-> "remember", key |-> k, kid |-> kid, payload |-> p,
        version |-> 1, object |-> None]]
  /\ Goto(t, "lookup")
  /\ UNCHANGED <<disk, service, held, acked, counts>>

\* A logical memory that exists is refused and nothing changes.
RememberCheck(t, k, kid, p) ==
  /\ Free(t) /\ entries[k] = None
  /\ job' = [job EXCEPT ![t] =
       [op |-> "remember", key |-> k, kid |-> kid, payload |-> p,
        version |-> 1, object |-> None]]
  /\ Goto(t, "lookup")
  /\ UNCHANGED <<disk, service, held, acked, counts>>

\* Mutant: the new version is the version that is current.
UpdateInPlace(t, k, p) ==
  /\ Free(t) /\ entries[k] # None /\ ~entries[k].revoked
  /\ job' = [job EXCEPT ![t] =
       [op |-> "update", key |-> k, kid |-> entries[k].kid, payload |-> p,
        version |-> entries[k].latest, object |-> entries[k].object]]
  /\ Goto(t, "put")
  /\ UNCHANGED <<disk, service, held, acked, counts>>

\* A missing or revoked memory is refused and nothing changes.
UpdateCheck(t, k, p) ==
  /\ Free(t) /\ entries[k] # None /\ ~entries[k].revoked
  /\ entries[k].latest < MaxVersion
  /\ job' = [job EXCEPT ![t] =
       [op |-> "update", key |-> k, kid |-> entries[k].kid, payload |-> p,
        version |-> entries[k].latest + 1, object |-> entries[k].object]]
  /\ Goto(t, "lookup")
  /\ UNCHANGED <<disk, service, held, acked, counts>>

\* Mutant: the revocation is answered before it is saved.
RevokeAnswered(t, k) ==
  /\ Free(t) /\ entries[k] # None
  /\ entries' = [entries EXCEPT ![k].revoked = TRUE]
  /\ acked' = acked \cup {[op |-> "revoke", key |-> k, kid |-> entries[k].kid,
       payload |-> None, version |-> entries[k].latest, object |-> entries[k].object]}
  /\ UNCHANGED <<disk, engine, phase, thread, counts>>

Revoke(t, k) ==
  /\ Free(t) /\ entries[k] # None
  /\ entries' = [entries EXCEPT ![k].revoked = TRUE]
  /\ job' = [job EXCEPT ![t] =
       [op |-> "revoke", key |-> k, kid |-> entries[k].kid, payload |-> None,
        version |-> entries[k].latest, object |-> entries[k].object]]
  /\ Goto(t, "encode")
  /\ UNCHANGED <<disk, engine, phase, held, acked, counts>>

\* store(): the knowledge id is known with this payload, unknown, or
\* known with another payload, which raises.
LookUp(t) ==
  LET known == {n.payload : n \in NodesAt(engine, job[t])}
  IN  /\ pc[t] = "lookup"
      /\ IF known \subseteq {job[t].payload}
         THEN /\ Goto(t, IF known = {} THEN "put" ELSE "route")
              /\ UNCHANGED <<job, held>>
         ELSE Done(t)
      /\ UNCHANGED <<disk, service, acked, counts>>

\* The node found missing is put, whatever another thread put meanwhile.
PutNode(t) ==
  LET node == [key |-> job[t].key, version |-> job[t].version,
               kid |-> job[t].kid, payload |-> job[t].payload]
  IN  /\ pc[t] = "put"
      /\ engine' = [engine EXCEPT !.nodes = (@ \ NodesAt(engine, node)) \cup {node}]
      /\ Goto(t, "route")
      /\ UNCHANGED <<disk, entries, phase, job, held, acked, counts>>

\* Mutant: the route keeps the owner it has.
PutNoRoute(t) ==
  /\ pc[t] = "route"
  /\ Goto(t, "enter")
  /\ UNCHANGED <<disk, service, job, held, acked, counts>>

\* The route of the version, unless it leads to another knowledge id.
PutRoute(t) ==
  LET route == [key |-> job[t].key, version |-> job[t].version, kid |-> job[t].kid]
  IN  /\ pc[t] = "route"
      /\ IF RoutesAt(engine, route.key, route.version) \subseteq {route}
         THEN /\ engine' = [engine EXCEPT !.routes = @ \cup {route}]
              /\ Goto(t, "enter")
              /\ UNCHANGED <<job, held>>
         ELSE /\ Done(t)
              /\ UNCHANGED engine
      /\ UNCHANGED <<disk, entries, phase, acked, counts>>

\* Mutant: the index is one version ahead of the engine.
EnterNext(t) ==
  LET k == job[t].key
      old == entries[k]
  IN  /\ pc[t] = "enter"
      /\ entries' =
           IF job[t].op = "remember"
           THEN [entries EXCEPT ![k] =
                  [kid |-> job[t].kid, latest |-> 1, revoked |-> FALSE,
                   object |-> IF old = None THEN 1 ELSE old.object + 1]]
           ELSE IF old.object = job[t].object
           THEN [entries EXCEPT ![k].latest = job[t].version + 1]
           ELSE entries
      /\ Goto(t, "recall")
      /\ UNCHANGED <<disk, engine, phase, job, held, acked, counts>>

\* remember() puts a new entry; update() changes the entry it read.
Enter(t) ==
  LET k == job[t].key
      old == entries[k]
  IN  /\ pc[t] = "enter"
      /\ entries' =
           IF job[t].op = "remember"
           THEN [entries EXCEPT ![k] =
                  [kid |-> job[t].kid, latest |-> 1, revoked |-> FALSE,
                   object |-> IF old = None THEN 1 ELSE old.object + 1]]
           ELSE IF old.object = job[t].object
           THEN [entries EXCEPT ![k].latest = job[t].version]
           ELSE entries
      /\ Goto(t, "recall")
      /\ UNCHANGED <<disk, engine, phase, job, held, acked, counts>>

\* The answer is what recall() finds now; the assertion fails on nothing.
Recall(t) ==
  LET k == job[t].key
  IN  /\ pc[t] = "recall"
      /\ IF ~entries[k].revoked /\ Resolved(engine, k, entries[k].latest) # None
         THEN /\ job' = [job EXCEPT ![t].version = entries[k].latest]
              /\ Goto(t, "encode")
              /\ UNCHANGED held
         ELSE Done(t)
      /\ UNCHANGED <<disk, service, acked, counts>>

-----------------------------------------------------------------------------
(* save()                                                                  *)

Encode(t) ==
  /\ pc[t] = "encode"
  /\ held' = [held EXCEPT ![t] = engine]
  /\ Goto(t, "replace")
  /\ UNCHANGED <<disk, service, job, acked, counts>>

ReplaceSnapshot(t) ==
  /\ pc[t] = "replace"
  /\ file' = held[t]
  /\ Goto(t, "build")
  /\ UNCHANGED <<manifest, blobs, service, job, held, acked, counts>>

\* Mutant: the manifest keeps the receipt it had.
BuildWithReceipt(t) ==
  /\ pc[t] = "build"
  /\ held' = [held EXCEPT ![t] = [entries |-> entries,
       receipt |-> IF manifest = None THEN None ELSE manifest.receipt]]
  /\ Goto(t, "manifest")
  /\ UNCHANGED <<disk, service, job, acked, counts>>

BuildManifest(t) ==
  /\ pc[t] = "build"
  /\ held' = [held EXCEPT ![t] = [entries |-> entries, receipt |-> None]]
  /\ Goto(t, "manifest")
  /\ UNCHANGED <<disk, service, job, acked, counts>>

WriteManifest(t) ==
  /\ pc[t] = "manifest"
  /\ manifest' = held[t]
  /\ Goto(t, "mirror")
  /\ UNCHANGED <<file, blobs, service, job, held, acked, counts>>

\* Mutant: the receipt is computed, the bytes are not stored.
MirrorNothing(t) ==
  /\ pc[t] = "mirror"
  /\ held' = [held EXCEPT ![t] = file]
  /\ Goto(t, "read")
  /\ UNCHANGED <<disk, service, job, acked, counts>>

\* The snapshot file is read back and its bytes stored under their digest.
Mirror(t) ==
  /\ pc[t] = "mirror"
  /\ blobs' = blobs \cup {file}
  /\ held' = [held EXCEPT ![t] = file]
  /\ Goto(t, "read")
  /\ UNCHANGED <<file, manifest, service, job, acked, counts>>

\* The manifest is read back and given the receipt.
ReadManifest(t) ==
  /\ pc[t] = "read"
  /\ held' = [held EXCEPT ![t] = [manifest EXCEPT !.receipt = held[t]]]
  /\ Goto(t, "seal")
  /\ UNCHANGED <<disk, service, job, acked, counts>>

\* The manifest is written again and the client has its answer.
Seal(t) ==
  /\ pc[t] = "seal"
  /\ manifest' = held[t]
  /\ acked' = acked \cup {job[t]}
  /\ Done(t)
  /\ UNCHANGED <<file, blobs, service, counts>>

\* A write, a read or the store raises.
SaveFails(t) ==
  /\ pc[t] \in {"encode", "replace", "build", "manifest", "mirror", "read", "seal"}
  /\ IOError
  /\ blobs' \in {blobs} \cup (IF pc[t] = "mirror" THEN {blobs \cup {file}} ELSE {})
  /\ Done(t)
  /\ UNCHANGED <<file, manifest, service, acked, crashes>>

-----------------------------------------------------------------------------
(* Crash and restart.                                                      *)

Kill ==
  /\ phase = "up" /\ crashes < MaxCrashes
  /\ crashes' = crashes + 1
  /\ phase' = "down"
  /\ engine' = NoEngine /\ entries' = NoEntries
  /\ pc' = [t \in Threads |-> "idle"]
  /\ job' = [t \in Threads |-> None]
  /\ held' = [t \in Threads |-> None]
  /\ UNCHANGED <<disk, acked, errors>>

\* What load() builds from the disk.
LoadedEngine ==
  CASE manifest = None         -> NoEngine
    [] manifest # None /\ manifest.receipt # None -> manifest.receipt
    [] manifest # None /\ manifest.receipt = None -> file
LoadedEntries == IF manifest = None THEN NoEntries ELSE manifest.entries

\* The receipt's bytes come from the store, or from the snapshot file when
\* its digest is the receipt's.
Open ==
  /\ phase = "down"
  /\ engine' = LoadedEngine /\ entries' = LoadedEntries
  /\ phase' = "up"
  /\ UNCHANGED <<disk, thread, acked, counts>>

\* The store does not answer and the snapshot file is not the receipt's.
OpenRaises ==
  /\ phase = "down"
  /\ manifest # None /\ manifest.receipt \notin {None, file}
  /\ IOError
  /\ phase' = "refused"
  /\ UNCHANGED <<disk, engine, entries, thread, acked, crashes>>

Retry ==
  /\ phase = "refused"
  /\ phase' = "down"
  /\ UNCHANGED <<disk, engine, entries, thread, acked, counts>>

-----------------------------------------------------------------------------
Next ==
  \/ \E t \in Threads :
       \/ \E k \in Keys, kid \in KnowledgeIds, p \in Payloads : RememberCheck(t, k, kid, p)
       \/ \E k \in Keys, p \in Payloads : UpdateCheck(t, k, p)
       \/ \E k \in Keys : Revoke(t, k)
       \/ LookUp(t) \/ PutNode(t) \/ PutRoute(t) \/ Enter(t) \/ Recall(t)
       \/ Encode(t) \/ ReplaceSnapshot(t) \/ BuildManifest(t) \/ WriteManifest(t)
       \/ Mirror(t) \/ ReadManifest(t) \/ Seal(t) \/ SaveFails(t)
  \/ Kill \/ Open \/ OpenRaises \/ Retry

Spec == Init /\ [][Next]_vars

-----------------------------------------------------------------------------
(* Properties.                                                             *)

Pcs == {"idle", "lookup", "put", "route", "enter", "recall", "encode", "replace",
        "build", "manifest", "mirror", "read", "seal"}

TypeOK ==
  /\ file \in Engines \cup {None} /\ manifest \in Manifests \cup {None}
  /\ blobs \subseteq Engines
  /\ engine \in Engines /\ entries \in Indexes
  /\ phase \in {"down", "up", "refused"}
  /\ pc \in [Threads -> Pcs]
  /\ crashes \in 0..MaxCrashes /\ errors \in 0..MaxErrors

(* A restart finds what every answered request did: the stored version and *)
(* its payload, the revocation.                                            *)
AckedSurvive ==
  \A a \in acked :
    LET entry == LoadedEntries[a.key]
    IN  /\ entry # None /\ entry.latest >= a.version
        /\ IF a.op = "revoke" THEN entry.revoked
           ELSE Resolved(LoadedEngine, a.key, a.version) = a.payload

(* Every version an index names resolves in the engine that goes with it:  *)
(* the manifest and the snapshot a restart pairs are never at odds, nor    *)
(* are the entries and the engine in memory.                               *)
Resolves(index, e) ==
  \A k \in Keys : index[k] # None =>
    \A v \in 1..index[k].latest : Resolved(e, k, v) # None
RestartResolves == Resolves(LoadedEntries, LoadedEngine)
MemoryResolves == Resolves(entries, engine)

(* The copy a manifest's receipt names is in the store: a restart need not *)
(* fall back on the snapshot file.                                         *)
ReceiptStored ==
  manifest # None => manifest.receipt \in blobs \cup {None}

(* A revoked memory stays revoked while the process runs.                  *)
RevokedStays ==
  \A a \in acked : phase = "up" /\ a.op = "revoke" => entries[a.key].revoked

(* A payload that was stored with success is what its version resolves to. *)
StoredPayloadStays ==
  \A a \in acked : phase = "up" /\ a.op = "remember" =>
    Resolved(engine, a.key, 1) = a.payload

(* An update writes a new version: the engine holds no node for it yet     *)
(* (no run checks it; the README says which constants break it).           *)
UpdateWritesNew ==
  \A t \in Threads : pc[t] = "lookup" /\ job[t].op = "update" =>
    NodesAt(engine, job[t]) = {}

(* Refinement: what a restart finds changes only by new versions and       *)
(* revocations.                                                            *)
DurableVersions ==
  [k \in Keys |-> IF LoadedEntries[k] = None THEN <<>>
                  ELSE [v \in 1..LoadedEntries[k].latest |-> Resolved(LoadedEngine, k, v)]]
Abstract == INSTANCE VersionedMemory WITH
  versions <- DurableVersions,
  revoked <- {k \in Keys : LoadedEntries[k] # None /\ LoadedEntries[k].revoked}
AppendOnly == Abstract!Spec
=============================================================================
