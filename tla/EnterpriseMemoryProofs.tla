------------------------ MODULE EnterpriseMemoryProofs ------------------------
(***************************************************************************)
(* Proofs about EnterpriseMemory.                                          *)
(*                                                                         *)
(* That the receipt of the manifest names stored bytes holds for any       *)
(* number of interleaved requests.  Everything else rests on requests that *)
(* follow one another: then what a restart finds is an earlier state of    *)
(* the index, paired with an engine that holds all its versions and        *)
(* perhaps later ones, and memory has grown from there.                    *)
(***************************************************************************)
EXTENDS EnterpriseMemory, FiniteSetTheorems, SequenceTheorems, TLAPS

\* The actions one by one.
LEMMA NextActions ==
  ASSUME Next
  PROVE  \/ \E t \in Threads :
              \/ \E k \in Keys, kid \in KnowledgeIds, p \in Payloads : RememberCheck(t, k, kid, p)
              \/ \E k \in Keys, p \in Payloads : UpdateCheck(t, k, p)
              \/ \E k \in Keys : Revoke(t, k)
              \/ LookUp(t) \/ PutNode(t) \/ PutRoute(t) \/ Enter(t) \/ Recall(t)
         \/ \E t \in Threads :
              \/ Encode(t) \/ ReplaceSnapshot(t) \/ BuildManifest(t) \/ WriteManifest(t)
              \/ Mirror(t) \/ ReadManifest(t) \/ Seal(t) \/ SaveFails(t)
         \/ Kill \/ Open \/ OpenRaises \/ Retry
BY DEF Next

-----------------------------------------------------------------------------
(* Receipts, however requests interleave.                                  *)

\* A manifest whose receipt, if any, names bytes of the store.
Stored(m) == \E index, receipt : m = [entries |-> index, receipt |-> receipt]
                                 /\ receipt \in blobs \cup {None}

ReceiptInv ==
  /\ manifest # None => Stored(manifest)
  /\ DOMAIN pc = Threads /\ DOMAIN held = Threads
  /\ \A t \in Threads :
       /\ pc[t] \in {"manifest", "seal"} => Stored(held[t])
       /\ pc[t] \in {"mirror", "read"} => Stored(manifest)
       /\ pc[t] = "read" => held[t] \in blobs

\* Bytes are only added to the store, and a thread that waits keeps what it has.
LEMMA ReceiptsStay ==
  ASSUME ReceiptInv, NEW t \in Threads, blobs \subseteq blobs',
         manifest' = manifest \/ Stored(manifest)',
         DOMAIN pc' = Threads, DOMAIN held' = Threads,
         \A u \in Threads : u # t => held'[u] = held[u] /\ pc'[u] = pc[u],
         pc'[t] \in {"manifest", "seal"} => Stored(held[t])',
         pc'[t] \in {"mirror", "read"} => Stored(manifest)',
         pc'[t] = "read" => held'[t] \in blobs'
  PROVE  ReceiptInv'
<1>1. \A x : Stored(x) => Stored(x)'
  BY DEF Stored
<1>2. manifest' # None => Stored(manifest)'
  BY <1>1 DEF ReceiptInv
<1>3. ASSUME NEW u \in Threads
      PROVE  /\ pc'[u] \in {"manifest", "seal"} => Stored(held[u])'
             /\ pc'[u] \in {"mirror", "read"} => Stored(manifest)'
             /\ pc'[u] = "read" => held'[u] \in blobs'
  <2>1. CASE u = t
    BY <2>1
  <2>2. CASE u # t
    BY <1>1, <2>2 DEF ReceiptInv
  <2> QED
    BY <2>1, <2>2
<1> QED
  BY <1>2, <1>3 DEF ReceiptInv

LEMMA StepReceipts == ASSUME ReceiptInv, [Next]_vars PROVE ReceiptInv'
<1>0. DOMAIN held = Threads /\ DOMAIN pc = Threads
  BY DEF ReceiptInv
<1>1. ASSUME NEW t \in Threads, NEW label,
             label \notin {"manifest", "seal", "mirror", "read"},
             pc' = [pc EXCEPT ![t] = label], UNCHANGED manifest, blobs \subseteq blobs',
             held' = held \/ \E bytes : held' = [held EXCEPT ![t] = bytes]
      PROVE  ReceiptInv'
  <2>1. /\ DOMAIN held' = Threads /\ DOMAIN pc' = Threads /\ pc'[t] = label
        /\ \A u \in Threads : u # t => held'[u] = held[u] /\ pc'[u] = pc[u]
    BY <1>0, <1>1
  <2> QED
    BY <1>1, <2>1, ReceiptsStay
<1>2. ASSUME NEW t \in Threads,
             \/ \E k \in Keys, kid \in KnowledgeIds, p \in Payloads : RememberCheck(t, k, kid, p)
             \/ \E k \in Keys, p \in Payloads : UpdateCheck(t, k, p)
             \/ \E k \in Keys : Revoke(t, k)
      PROVE  ReceiptInv'
  <2>1. /\ UNCHANGED <<manifest, blobs, held>>
        /\ \E label \in {"lookup", "encode"} : pc' = [pc EXCEPT ![t] = label]
    BY <1>2 DEF RememberCheck, UpdateCheck, Revoke, Goto, disk
  <2> QED
    BY <1>1, <2>1
<1>3. ASSUME NEW t \in Threads,
             \/ LookUp(t) \/ PutNode(t) \/ PutRoute(t) \/ Enter(t) \/ Recall(t)
             \/ Encode(t) \/ ReplaceSnapshot(t)
      PROVE  ReceiptInv'
  <2>1. /\ UNCHANGED <<manifest, blobs>>
        /\ \E label \in Pcs \ {"manifest", "seal", "mirror", "read"} :
             pc' = [pc EXCEPT ![t] = label]
        /\ held' = held \/ \E bytes : held' = [held EXCEPT ![t] = bytes]
    BY <1>3
       DEF LookUp, PutNode, PutRoute, Enter, Recall, Encode, ReplaceSnapshot, Done, Goto, disk, Pcs
  <2> QED
    BY <1>1, <2>1
<1>4. ASSUME NEW t \in Threads, SaveFails(t) PROVE ReceiptInv'
  <2>1. /\ manifest' = manifest /\ blobs \subseteq blobs'
        /\ pc' = [pc EXCEPT ![t] = "idle"] /\ held' = [held EXCEPT ![t] = None]
    BY <1>4 DEF SaveFails, Done, Goto
  <2> QED
    BY <1>1, <2>1
<1>5. ASSUME NEW t \in Threads, NEW label, pc' = [pc EXCEPT ![t] = label],
             NEW bytes, held' = [held EXCEPT ![t] = bytes]
      PROVE  /\ DOMAIN held' = Threads /\ DOMAIN pc' = Threads
             /\ pc'[t] = label /\ held'[t] = bytes
             /\ \A u \in Threads : u # t => held'[u] = held[u] /\ pc'[u] = pc[u]
  BY <1>0, <1>5
<1>6. ASSUME NEW t \in Threads, BuildManifest(t) PROVE ReceiptInv'
  <2>1. /\ UNCHANGED <<manifest, blobs>> /\ pc' = [pc EXCEPT ![t] = "manifest"]
        /\ held' = [held EXCEPT ![t] = [entries |-> entries, receipt |-> None]]
    BY <1>6 DEF BuildManifest, Goto, disk
  <2>2. /\ DOMAIN held' = Threads /\ DOMAIN pc' = Threads /\ pc'[t] = "manifest"
        /\ held'[t] = [entries |-> entries, receipt |-> None]
        /\ \A u \in Threads : u # t => held'[u] = held[u] /\ pc'[u] = pc[u]
    BY <1>5, <2>1
  <2>3. Stored(held[t])'
    BY <2>2 DEF Stored
  <2> QED
    BY <2>1, <2>2, <2>3, ReceiptsStay
<1>7. ASSUME NEW t \in Threads, WriteManifest(t) PROVE ReceiptInv'
  <2>1. /\ pc[t] = "manifest" /\ manifest' = held[t] /\ blobs' = blobs /\ held' = held
        /\ pc' = [pc EXCEPT ![t] = "mirror"]
    BY <1>7 DEF WriteManifest, Goto
  <2>2. Stored(manifest)'
    BY <2>1 DEF ReceiptInv, Stored
  <2>3. /\ DOMAIN pc' = Threads /\ pc'[t] = "mirror"
        /\ \A u \in Threads : u # t => held'[u] = held[u] /\ pc'[u] = pc[u]
    BY <1>0, <2>1
  <2> QED
    BY <1>0, <2>1, <2>2, <2>3, ReceiptsStay
<1>8. ASSUME NEW t \in Threads, Mirror(t) PROVE ReceiptInv'
  <2>1. /\ pc[t] = "mirror" /\ manifest' = manifest /\ blobs' = blobs \cup {file}
        /\ held' = [held EXCEPT ![t] = file] /\ pc' = [pc EXCEPT ![t] = "read"]
    BY <1>8 DEF Mirror, Goto
  <2>2. Stored(manifest)'
    BY <2>1 DEF ReceiptInv, Stored
  <2>3. /\ DOMAIN held' = Threads /\ DOMAIN pc' = Threads /\ pc'[t] = "read" /\ held'[t] = file
        /\ \A u \in Threads : u # t => held'[u] = held[u] /\ pc'[u] = pc[u]
    BY <1>5, <2>1
  <2> QED
    BY <2>1, <2>2, <2>3, ReceiptsStay
<1>9. ASSUME NEW t \in Threads, ReadManifest(t) PROVE ReceiptInv'
  <2>1. /\ pc[t] = "read" /\ UNCHANGED <<manifest, blobs>>
        /\ held' = [held EXCEPT ![t] = [manifest EXCEPT !.receipt = held[t]]]
        /\ pc' = [pc EXCEPT ![t] = "seal"]
    BY <1>9 DEF ReadManifest, Goto, disk
  <2>2. held[t] \in blobs /\ Stored(manifest)
    BY <2>1 DEF ReceiptInv
  <2>3. PICK index, receipt : manifest = [entries |-> index, receipt |-> receipt]
    BY <2>2 DEF Stored
  <2>4. [manifest EXCEPT !.receipt = held[t]] = [entries |-> index, receipt |-> held[t]]
    BY <2>3
  <2>5. /\ DOMAIN held' = Threads /\ DOMAIN pc' = Threads /\ pc'[t] = "seal"
        /\ held'[t] = [entries |-> index, receipt |-> held[t]]
        /\ \A u \in Threads : u # t => held'[u] = held[u] /\ pc'[u] = pc[u]
    BY <1>5, <2>1, <2>4
  <2>6. Stored(held[t])'
    BY <2>1, <2>2, <2>5 DEF Stored
  <2> QED
    BY <2>1, <2>5, <2>6, ReceiptsStay
<1>10. ASSUME NEW t \in Threads, Seal(t) PROVE ReceiptInv'
  <2>1. /\ pc[t] = "seal" /\ manifest' = held[t] /\ blobs' = blobs
        /\ pc' = [pc EXCEPT ![t] = "idle"] /\ held' = [held EXCEPT ![t] = None]
    BY <1>10 DEF Seal, Done, Goto
  <2>2. Stored(manifest)'
    BY <2>1 DEF ReceiptInv, Stored
  <2>3. /\ DOMAIN held' = Threads /\ DOMAIN pc' = Threads /\ pc'[t] = "idle"
        /\ \A u \in Threads : u # t => held'[u] = held[u] /\ pc'[u] = pc[u]
    BY <1>5, <2>1
  <2> QED
    BY <2>1, <2>2, <2>3, ReceiptsStay
<1>11. CASE Kill
  <2>1. /\ UNCHANGED <<manifest, blobs>>
        /\ pc' = [t \in Threads |-> "idle"] /\ held' = [t \in Threads |-> None]
    BY <1>11 DEF Kill, disk
  <2> QED
    BY <2>1 DEF ReceiptInv, Stored
<1>12. CASE Open \/ OpenRaises \/ Retry \/ UNCHANGED vars
  <2>1. UNCHANGED <<manifest, blobs, pc, held>>
    BY <1>12 DEF Open, OpenRaises, Retry, vars, disk, thread
  <2> QED
    BY <2>1 DEF ReceiptInv, Stored
<1> QED
  BY <1>2, <1>3, <1>4, <1>6, <1>7, <1>8, <1>9, <1>10, <1>11, <1>12, NextActions

LEMMA ReceiptsNamed == ReceiptInv => ReceiptStored
BY DEF ReceiptInv, Stored, ReceiptStored

(* The bytes the receipt of the manifest names are in the store, for any   *)
(* number of requests that run at once: a thread only seals what it, or a  *)
(* thread before it, has mirrored.                                         *)
THEOREM ReceiptsAlwaysStored == Spec => []ReceiptStored
<1>1. Init => ReceiptInv
  BY DEF Init, ReceiptInv
<1>2. ReceiptInv /\ [Next]_vars => ReceiptInv'
  BY StepReceipts
<1> QED
  BY <1>1, <1>2, ReceiptsNamed, PTL DEF Spec

-----------------------------------------------------------------------------
(* Engines and indexes.                                                    *)

Known(e, k, v, kid, p) ==
  /\ [key |-> k, version |-> v, kid |-> kid] \in e.routes
  /\ [key |-> k, version |-> v, kid |-> kid, payload |-> p] \in e.nodes

\* A version has one route, and a node on that route one payload.
Functional(e) ==
  /\ e \in Engines
  /\ \A n, m \in e.nodes :
       n.key = m.key /\ n.version = m.version /\ n.kid = m.kid => n = m
  /\ \A r, s \in e.routes : r.key = s.key /\ r.version = s.version => r = s

\* Every version the index names is in the engine.
Paired(index, e) ==
  \A k \in Keys : index[k] # None =>
    \A v \in 1..index[k].latest : \E p \in Payloads : Known(e, k, v, index[k].kid, p)

Grown(new, old) == old.nodes \subseteq new.nodes /\ old.routes \subseteq new.routes

\* What an index may become: versions join, and a revoked memory keeps its.
Later(new, old) ==
  \A k \in Keys : old[k] # None =>
    /\ new[k] # None /\ new[k].kid = old[k].kid /\ new[k].latest >= old[k].latest
    /\ old[k].revoked => new[k].revoked /\ new[k].latest = old[k].latest

LEMMA KnownResolves ==
  ASSUME NEW e, Functional(e), NEW k, NEW v, NEW kid, NEW p, Known(e, k, v, kid, p)
  PROVE  Resolved(e, k, v) = p
<1> DEFINE route == [key |-> k, version |-> v, kid |-> kid]
           node == [key |-> k, version |-> v, kid |-> kid, payload |-> p]
<1>1. RoutesAt(e, k, v) = {route}
  BY DEF RoutesAt, Known, Functional
<1>2. NodesAt(e, route) = {node}
  BY DEF NodesAt, Known, Functional
<1> HIDE DEF route
<1>3. UNION {NodesAt(e, r) : r \in RoutesAt(e, k, v)} = {node}
  BY <1>1, <1>2
<1>4. Resolved(e, k, v) = (CHOOSE n \in {node} : TRUE).payload
  BY <1>3 DEF Resolved
<1>5. (CHOOSE n \in {node} : TRUE) = node
  OBVIOUS
<1> QED
  BY <1>4, <1>5

LEMMA PairedResolves ==
  ASSUME EnterpriseParameters, NEW index, NEW e, Functional(e), Paired(index, e)
  PROVE  Resolves(index, e)
BY KnownResolves DEF Paired, Resolves, EnterpriseParameters

LEMMA PairedGrows ==
  ASSUME NEW index, NEW old, NEW new, Paired(index, old), Grown(new, old)
  PROVE  Paired(index, new)
BY DEF Paired, Grown, Known

\* An index that has grown names at least what it named.
LEMMA LaterChain ==
  ASSUME NEW a \in Indexes, NEW b \in Indexes, NEW c \in Indexes, Later(a, b), Later(b, c)
  PROVE  Later(a, c)
BY DEF Later, Indexes, Entries, Versions

LEMMA LaterSelf == ASSUME NEW a \in Indexes PROVE Later(a, a)
BY DEF Later, Indexes, Entries, Versions

LEMMA NothingYet ==
  ASSUME EnterpriseParameters
  PROVE  /\ Functional(NoEngine) /\ NoEntries \in Indexes
         /\ \A e : Paired(NoEntries, e) /\ Later(e, NoEntries)
BY DEF NoEngine, NoEntries, Functional, Engines, Paired, Later, Indexes

-----------------------------------------------------------------------------
(* Requests that follow one another.                                       *)

OneRequest == \A t, u \in Threads : t = u

\* A restart never pairs the index with an engine that lacks its versions.
DiskInv ==
  /\ file \in Engines \cup {None} /\ manifest \in Manifests \cup {None}
  /\ blobs \subseteq Engines
  /\ manifest # None => file # None
  /\ Functional(LoadedEngine) /\ Paired(LoadedEntries, LoadedEngine)

\* Memory is paired, and has grown from what a restart would find.
MemoryInv ==
  /\ Functional(engine) /\ entries \in Indexes /\ Paired(entries, engine)
  /\ phase \in {"down", "up", "refused"}
  /\ phase = "up" => Grown(engine, LoadedEngine) /\ Later(entries, LoadedEntries)
  /\ phase # "up" => \A t \in Threads : pc[t] = "idle"

Jobs == [op : {"remember", "update", "revoke"}, key : Keys, kid : KnowledgeIds,
         payload : Payloads \cup {None}, version : Versions,
         object : 1..Cardinality(Threads) \cup {None}]

\* A write request that has not changed the index yet.
NewVersion(j) ==
  /\ j.payload \in Payloads
  /\ IF j.op = "remember" THEN entries[j.key] = None /\ j.version = 1
     ELSE /\ j.op = "update" /\ entries[j.key] # None /\ ~entries[j.key].revoked
          /\ j.version = entries[j.key].latest + 1
          /\ j.kid = entries[j.key].kid /\ j.object = entries[j.key].object

\* A request whose change is in the index and in the engine.
InMemory(j) ==
  /\ entries[j.key] # None /\ j.version = entries[j.key].latest
  /\ IF j.op = "revoke" THEN entries[j.key].revoked
     ELSE /\ j.op = "remember" => j.version = 1
          /\ j.payload \in Payloads /\ Known(engine, j.key, j.version, j.kid, j.payload)

NodeOf(j) == [key |-> j.key, version |-> j.version, kid |-> j.kid, payload |-> j.payload]
RouteOf(j) == [key |-> j.key, version |-> j.version, kid |-> j.kid]

\* Where a request is, given its label, its job and the bytes it holds.
At(label, j, bytes) ==
  /\ label # "idle" => j \in Jobs
  /\ label \in {"lookup", "put", "route", "enter"} => NewVersion(j)
  /\ label = "put" => NodesAt(engine, j) = {}
  /\ label \in {"route", "enter"} => NodeOf(j) \in engine.nodes
  /\ label = "enter" => RouteOf(j) \in engine.routes
  /\ label = "recall" => InMemory(j) /\ j.op # "revoke" /\ ~entries[j.key].revoked
  /\ label \in {"encode", "replace", "build", "manifest", "mirror", "read", "seal"} => InMemory(j)
  /\ label = "replace" => bytes = engine
  /\ label \in {"build", "manifest", "mirror", "read", "seal"} => file = engine
  /\ label = "manifest" => bytes = [entries |-> entries, receipt |-> None]
  /\ label \in {"mirror", "read"} => manifest = [entries |-> entries, receipt |-> None]
  /\ label = "read" => bytes = engine
  /\ label = "seal" => bytes = [entries |-> entries, receipt |-> engine]

RequestInv ==
  /\ pc \in [Threads -> Pcs] /\ DOMAIN job = Threads /\ DOMAIN held = Threads
  /\ \A t \in Threads : At(pc[t], job[t], held[t])

\* What a request did is on disk.
Durable(j) ==
  /\ j.key \in Keys /\ LoadedEntries[j.key] # None
  /\ LoadedEntries[j.key].latest >= j.version
  /\ IF j.op = "revoke" THEN LoadedEntries[j.key].revoked
     ELSE /\ j.op = "remember" => j.version = 1
          /\ Known(LoadedEngine, j.key, j.version, j.kid, j.payload)

AckedInv == \A a \in acked : a.version \in Nat /\ Durable(a)

ServiceInv == DiskInv /\ MemoryInv /\ RequestInv /\ AckedInv

\* The one request moves.
LEMMA RequestMoves ==
  ASSUME OneRequest, NEW t \in Threads, RequestInv,
         pc' \in [Threads -> Pcs], DOMAIN job' = Threads, DOMAIN held' = Threads,
         At(pc[t], job[t], held[t])'
  PROVE  RequestInv'
<1>1. \A u \in Threads : u = t
  BY DEF OneRequest
<1>2. \A u \in Threads : At(pc[u], job[u], held[u])'
  BY <1>1
<1> QED
  BY <1>2 DEF RequestInv

LEMMA Labels ==
  ASSUME RequestInv, NEW t \in Threads, NEW label \in Pcs, Goto(t, label)
  PROVE  pc' \in [Threads -> Pcs] /\ pc'[t] = label
BY DEF RequestInv, Goto

LEMMA RequestEnds ==
  ASSUME OneRequest, NEW t \in Threads, RequestInv, Done(t)
  PROVE  RequestInv'
<1>1. /\ pc' \in [Threads -> Pcs] /\ DOMAIN job' = Threads /\ DOMAIN held' = Threads
      /\ pc'[t] = "idle"
  BY Labels DEF RequestInv, Done, Pcs
<1>2. At("idle", job[t], held[t])'
  BY DEF At
<1> QED
  BY <1>1, <1>2, RequestMoves

\* What the invariant says of the types of the state, and of a running request.
LEMMA Facts ==
  ASSUME EnterpriseParameters, ServiceInv
  PROVE  /\ engine \in Engines /\ entries \in Indexes /\ LoadedEntries \in Indexes
         /\ LoadedEngine \in Engines
         /\ \A t \in Threads : pc[t] # "idle" => phase = "up"
         /\ None \notin Engines /\ None \notin Manifests /\ None \notin Payloads
         /\ \A k \in Keys : entries[k] # None => entries[k] \in Entries
         /\ \A k \in Keys : LoadedEntries[k] # None => LoadedEntries[k] \in Entries
BY NothingYet
   DEF ServiceInv, DiskInv, MemoryInv, Functional, Indexes, LoadedEntries, LoadedEngine,
       EnterpriseParameters, Manifests

\* Files and index as they were: what a restart finds is as it was.
LEMMA DiskQuiet ==
  ASSUME DiskInv, AckedInv, UNCHANGED <<file, manifest>>, acked' = acked,
         blobs' \subseteq Engines
  PROVE  /\ DiskInv' /\ AckedInv'
         /\ LoadedEntries' = LoadedEntries /\ LoadedEngine' = LoadedEngine
BY DEF DiskInv, AckedInv, Durable, LoadedEntries, LoadedEngine, Paired

\* A request starts.
LEMMA StartStep ==
  ASSUME EnterpriseParameters, OneRequest, ServiceInv, NEW t \in Threads,
         \/ \E k \in Keys, kid \in KnowledgeIds, p \in Payloads : RememberCheck(t, k, kid, p)
         \/ \E k \in Keys, p \in Payloads : UpdateCheck(t, k, p)
         \/ \E k \in Keys : Revoke(t, k)
  PROVE  ServiceInv'
<1>0. /\ DOMAIN job = Threads /\ DOMAIN held = Threads /\ DOMAIN pc = Threads
      /\ MaxVersion \in Nat \ {0}
  BY DEF ServiceInv, RequestInv, EnterpriseParameters
<1>1. ASSUME NEW k \in Keys, NEW kid \in KnowledgeIds, NEW p \in Payloads,
             RememberCheck(t, k, kid, p)
      PROVE  ServiceInv'
  <2> DEFINE j == [op |-> "remember", key |-> k, kid |-> kid, payload |-> p,
                   version |-> 1, object |-> None]
  <2>1. /\ UNCHANGED <<file, manifest, blobs, engine, entries, phase, held, acked>>
        /\ job' = [job EXCEPT ![t] = j] /\ Goto(t, "lookup")
        /\ phase = "up" /\ entries[k] = None
    BY <1>1 DEF RememberCheck, disk, service, Free
  <2>2. j \in Jobs /\ NewVersion(j)'
    BY <1>0, <2>1 DEF Jobs, Versions, NewVersion
  <2>3. At("lookup", j, held[t])'
    BY <2>2 DEF At
  <2>4. pc' \in [Threads -> Pcs] /\ pc'[t] = "lookup" /\ job'[t] = j /\ DOMAIN job' = Threads
    BY <1>0, <2>1, Labels DEF ServiceInv, Pcs
  <2>5. RequestInv'
    BY <1>0, <2>1, <2>3, <2>4, RequestMoves DEF ServiceInv
  <2>6. DiskInv' /\ AckedInv' /\ LoadedEntries' = LoadedEntries /\ LoadedEngine' = LoadedEngine
    BY <2>1, DiskQuiet DEF ServiceInv, DiskInv
  <2>7. MemoryInv'
    BY <2>1, <2>6 DEF ServiceInv, MemoryInv, Paired
  <2> QED
    BY <2>5, <2>6, <2>7 DEF ServiceInv
<1>2. ASSUME NEW k \in Keys, NEW p \in Payloads, UpdateCheck(t, k, p)
      PROVE  ServiceInv'
  <2> DEFINE j == [op |-> "update", key |-> k, kid |-> entries[k].kid, payload |-> p,
                   version |-> entries[k].latest + 1, object |-> entries[k].object]
  <2>1. /\ UNCHANGED <<file, manifest, blobs, engine, entries, phase, held, acked>>
        /\ job' = [job EXCEPT ![t] = j] /\ Goto(t, "lookup")
        /\ phase = "up" /\ entries[k] # None /\ ~entries[k].revoked
        /\ entries[k].latest < MaxVersion
    BY <1>2 DEF UpdateCheck, disk, service, Free
  <2>2. entries[k] \in Entries
    BY <2>1, Facts
  <2>3. j \in Jobs /\ NewVersion(j)
    BY <1>0, <2>1, <2>2 DEF Jobs, Versions, NewVersion, Entries
  <2>4. At("lookup", job[t], held[t])'
    <3>1. job'[t] = j
      BY <1>0, <2>1
    <3>2. NewVersion(job[t])'
      BY <2>1, <2>3, <3>1 DEF NewVersion
    <3> QED
      BY <2>3, <3>1, <3>2 DEF At
  <2>5. pc' \in [Threads -> Pcs] /\ pc'[t] = "lookup" /\ job'[t] = j /\ DOMAIN job' = Threads
    BY <1>0, <2>1, Labels DEF ServiceInv, Pcs
  <2>6. RequestInv'
    BY <1>0, <2>1, <2>4, <2>5, RequestMoves DEF ServiceInv
  <2>7. DiskInv' /\ AckedInv' /\ LoadedEntries' = LoadedEntries /\ LoadedEngine' = LoadedEngine
    BY <2>1, DiskQuiet DEF ServiceInv, DiskInv
  <2>8. MemoryInv'
    BY <2>1, <2>7 DEF ServiceInv, MemoryInv, Paired
  <2> QED
    BY <2>6, <2>7, <2>8 DEF ServiceInv
<1>3. ASSUME NEW k \in Keys, Revoke(t, k) PROVE ServiceInv'
  <2> DEFINE j == [op |-> "revoke", key |-> k, kid |-> entries[k].kid, payload |-> None,
                   version |-> entries[k].latest, object |-> entries[k].object]
             hidden == [entries EXCEPT ![k].revoked = TRUE]
  <2>1. /\ UNCHANGED <<file, manifest, blobs, engine, phase, held, acked>>
        /\ entries' = hidden
        /\ job' = [job EXCEPT ![t] = j] /\ Goto(t, "encode")
        /\ phase = "up" /\ entries[k] # None
    BY <1>3 DEF Revoke, disk, Free
  <2>2. entries[k] \in Entries /\ entries \in Indexes /\ LoadedEntries \in Indexes
    BY <2>1, Facts
  <2>3. /\ hidden \in Indexes /\ hidden[k] # None /\ hidden[k].revoked
        /\ hidden[k].latest = entries[k].latest /\ hidden[k].kid = entries[k].kid
        /\ \A x \in Keys : x # k => hidden[x] = entries[x]
    <3>1. hidden[k] = [entries[k] EXCEPT !.revoked = TRUE] /\ \A x \in Keys : x # k => hidden[x] = entries[x]
      BY <2>2 DEF Indexes
    <3>2. /\ entries[k] = [kid |-> entries[k].kid, latest |-> entries[k].latest,
                            revoked |-> entries[k].revoked, object |-> entries[k].object]
          /\ entries[k].kid \in KnowledgeIds /\ entries[k].latest \in Versions
          /\ entries[k].object \in 1..Cardinality(Threads)
      BY <2>2 DEF Entries
    <3> HIDE DEF hidden
    <3>3. hidden[k] = [kid |-> entries[k].kid, latest |-> entries[k].latest,
                       revoked |-> TRUE, object |-> entries[k].object]
      BY <3>1, <3>2
    <3>4. hidden[k] \in Entries
      BY <3>2, <3>3 DEF Entries
    <3>5. hidden \in Indexes
      <4>1. hidden = [x \in Keys |-> hidden[x]]
        BY <2>2 DEF hidden, Indexes
      <4> QED
        BY <2>2, <3>1, <3>4, <4>1 DEF Indexes
    <3> QED
      BY <3>1, <3>3, <3>4, <3>5 DEF EnterpriseParameters
  <2> HIDE DEF hidden
  <2>4. Later(hidden, entries) /\ Paired(hidden, engine)
    <3>1. \A x \in Keys : /\ hidden[x] # None => entries[x] # None
                         /\ hidden[x].kid = entries[x].kid /\ hidden[x].latest = entries[x].latest
      BY <2>1, <2>3
    <3>2. \A x \in Keys : entries[x] # None => entries[x].latest \in Nat
      BY Facts DEF Entries, Versions
    <3>3. Paired(hidden, engine)
      BY <3>1 DEF Paired, ServiceInv, MemoryInv
    <3>4. Later(hidden, entries)
      BY <2>3, <3>1, <3>2 DEF Later
    <3> QED
      BY <3>3, <3>4
  <2>5. j \in Jobs
    BY <2>2 DEF Jobs, Entries
  <2>6. At("encode", job[t], held[t])'
    <3>1. job'[t] = j
      BY <1>0, <2>1
    <3>2. InMemory(job[t])'
      BY <2>1, <2>3, <3>1 DEF InMemory
    <3> QED
      BY <2>5, <3>1, <3>2 DEF At
  <2>7. pc' \in [Threads -> Pcs] /\ pc'[t] = "encode" /\ job'[t] = j /\ DOMAIN job' = Threads
    BY <1>0, <2>1, Labels DEF ServiceInv, Pcs
  <2>8. RequestInv'
    BY <1>0, <2>1, <2>6, <2>7, RequestMoves DEF ServiceInv
  <2>9. DiskInv' /\ AckedInv' /\ LoadedEntries' = LoadedEntries /\ LoadedEngine' = LoadedEngine
    BY <2>1, DiskQuiet DEF ServiceInv, DiskInv
  <2>10. Later(hidden, LoadedEntries)
    BY <2>1, <2>2, <2>3, <2>4, LaterChain DEF ServiceInv, MemoryInv
  <2>11. MemoryInv'
    BY <2>1, <2>3, <2>4, <2>9, <2>10 DEF ServiceInv, MemoryInv, Paired
  <2> QED
    BY <2>8, <2>9, <2>11 DEF ServiceInv
<1> QED
  BY <1>1, <1>2, <1>3

\* A request that changes neither memory nor files.
LEMMA QuietStep ==
  ASSUME ServiceInv, RequestInv', UNCHANGED <<file, manifest, engine, entries, phase, acked>>,
         blobs' \subseteq Engines, phase = "up"
  PROVE  ServiceInv'
<1>1. DiskInv' /\ AckedInv' /\ LoadedEntries' = LoadedEntries /\ LoadedEngine' = LoadedEngine
  BY DiskQuiet DEF ServiceInv
<1>2. MemoryInv'
  BY <1>1 DEF ServiceInv, MemoryInv, Paired
<1> QED
  BY <1>1, <1>2 DEF ServiceInv

\* The engine of a request that stores a version grows.
LEMMA PutNodeStep ==
  ASSUME EnterpriseParameters, OneRequest, ServiceInv, NEW t \in Threads, PutNode(t)
  PROVE  ServiceInv'
<1> DEFINE j == job[t]
           node == NodeOf(j)
<1>1. /\ pc[t] = "put" /\ phase = "up"
      /\ engine' = [engine EXCEPT !.nodes = (@ \ NodesAt(engine, node)) \cup {node}]
      /\ UNCHANGED <<file, manifest, blobs, entries, phase, job, held, acked>> /\ Goto(t, "route")
  BY Facts DEF PutNode, NodeOf, disk
<1>2. j \in Jobs /\ NewVersion(j) /\ NodesAt(engine, j) = {}
  BY <1>1 DEF ServiceInv, RequestInv, At
<1>3. /\ node \in Nodes /\ NodesAt(engine, node) = {}
      /\ node.key = j.key /\ node.version = j.version /\ node.kid = j.kid
  BY <1>2 DEF NewVersion, Jobs, NodeOf, Nodes, NodesAt
<1> HIDE DEF node
<1>4. /\ engine' = [nodes |-> engine.nodes \cup {node}, routes |-> engine.routes]
      /\ engine.nodes \subseteq Nodes /\ engine.routes \subseteq Routes
  BY <1>1, <1>3, Facts DEF Engines
<1>5. engine'.nodes = engine.nodes \cup {node} /\ engine'.routes = engine.routes
  BY <1>4
<1>6. engine' \in Engines
  BY <1>3, <1>4 DEF Engines
<1>7. \A n \in engine.nodes :
        ~(n.key = node.key /\ n.version = node.version /\ n.kid = node.kid)
  BY <1>3 DEF NodesAt
<1>8. Functional(engine')
  BY <1>5, <1>6, <1>7 DEF Functional, ServiceInv, MemoryInv
<1>9. Grown(engine', engine)
  BY <1>5 DEF Grown
<1>10. DiskInv' /\ AckedInv' /\ LoadedEntries' = LoadedEntries /\ LoadedEngine' = LoadedEngine
  BY <1>1, DiskQuiet DEF ServiceInv, DiskInv
<1>11. MemoryInv'
  <2>1. Paired(entries, engine')
    BY <1>9, PairedGrows DEF ServiceInv, MemoryInv
  <2>2. Grown(engine', LoadedEngine)
    BY <1>1, <1>9 DEF ServiceInv, MemoryInv, Grown
  <2>3. Functional(engine)' /\ Paired(entries, engine)' /\ Grown(engine, LoadedEngine)'
    BY <1>1, <1>8, <1>10, <2>1, <2>2 DEF Paired, Grown
  <2> QED
    BY <1>1, <1>10, <2>3 DEF ServiceInv, MemoryInv
<1>12. RequestInv'
  <2>1. pc' \in [Threads -> Pcs] /\ pc'[t] = "route"
    BY <1>1, Labels DEF ServiceInv, Pcs
  <2>2. NewVersion(j)'
    BY <1>1, <1>2 DEF NewVersion
  <2>3. NodeOf(j)' \in engine'.nodes
    BY <1>1, <1>5 DEF node
  <2>4. At("route", job[t], held[t])'
    BY <1>1, <1>2, <2>2, <2>3 DEF At
  <2> QED
    BY <1>1, <2>1, <2>4, RequestMoves DEF ServiceInv, RequestInv
<1> QED
  BY <1>10, <1>11, <1>12 DEF ServiceInv

LEMMA PutRouteStep ==
  ASSUME EnterpriseParameters, OneRequest, ServiceInv, NEW t \in Threads, PutRoute(t)
  PROVE  ServiceInv'
<1> DEFINE j == job[t]
           route == RouteOf(j)
<1>1. /\ pc[t] = "route" /\ phase = "up"
      /\ UNCHANGED <<file, manifest, blobs, entries, phase, acked>>
      /\ \/ /\ RoutesAt(engine, route.key, route.version) \subseteq {route}
            /\ engine' = [engine EXCEPT !.routes = @ \cup {route}]
            /\ UNCHANGED <<job, held>> /\ Goto(t, "enter")
         \/ Done(t) /\ engine' = engine
  BY Facts DEF PutRoute, RouteOf, disk
<1>2. j \in Jobs /\ NewVersion(j) /\ NodeOf(j) \in engine.nodes
  BY <1>1 DEF ServiceInv, RequestInv, At
<1>3. CASE Done(t) /\ engine' = engine
  BY <1>1, <1>3, RequestEnds, QuietStep DEF ServiceInv, DiskInv
<1>4. CASE /\ RoutesAt(engine, route.key, route.version) \subseteq {route}
           /\ engine' = [engine EXCEPT !.routes = @ \cup {route}]
           /\ UNCHANGED <<job, held>> /\ Goto(t, "enter")
  <2>1. route \in Routes
    BY <1>2 DEF Jobs, RouteOf, Routes
  <2> HIDE DEF route
  <2>2. /\ engine' = [nodes |-> engine.nodes, routes |-> engine.routes \cup {route}]
        /\ engine.nodes \subseteq Nodes /\ engine.routes \subseteq Routes
    BY <1>4, Facts DEF Engines
  <2>3. engine'.nodes = engine.nodes /\ engine'.routes = engine.routes \cup {route}
    BY <2>2
  <2>4. engine' \in Engines
    BY <2>1, <2>2 DEF Engines
  <2>5. \A r \in engine.routes :
          r.key = route.key /\ r.version = route.version => r = route
    BY <1>4 DEF RoutesAt
  <2>6. Functional(engine')
    BY <2>3, <2>4, <2>5 DEF Functional, ServiceInv, MemoryInv
  <2>7. Grown(engine', engine)
    BY <2>3 DEF Grown
  <2>8. DiskInv' /\ AckedInv' /\ LoadedEntries' = LoadedEntries /\ LoadedEngine' = LoadedEngine
    BY <1>1, DiskQuiet DEF ServiceInv, DiskInv
  <2>9. MemoryInv'
    <3>1. Paired(entries, engine')
      BY <2>7, PairedGrows DEF ServiceInv, MemoryInv
    <3>2. Grown(engine', LoadedEngine)
      BY <1>1, <2>7 DEF ServiceInv, MemoryInv, Grown
    <3>3. Functional(engine)' /\ Paired(entries, engine)' /\ Grown(engine, LoadedEngine)'
      BY <1>1, <2>6, <2>8, <3>1, <3>2 DEF Paired, Grown
    <3> QED
      BY <1>1, <2>8, <3>3 DEF ServiceInv, MemoryInv
  <2>10. RequestInv'
    <3>1. pc' \in [Threads -> Pcs] /\ pc'[t] = "enter"
      BY <1>4, Labels DEF ServiceInv, Pcs
    <3>2. NewVersion(j)'
      BY <1>1, <1>2, <1>4 DEF NewVersion
    <3>3. NodeOf(j)' \in engine'.nodes /\ RouteOf(j)' \in engine'.routes
      BY <1>2, <1>4, <2>3 DEF route, NodeOf
    <3>4. At("enter", job[t], held[t])'
      BY <1>2, <1>4, <3>2, <3>3 DEF At
    <3> QED
      BY <1>4, <3>1, <3>4, RequestMoves DEF ServiceInv, RequestInv
  <2> QED
    BY <2>8, <2>9, <2>10 DEF ServiceInv
<1> QED
  BY <1>1, <1>3, <1>4

LEMMA EntryMoved ==
  ASSUME NEW e \in Entries, NEW v
  PROVE  [e EXCEPT !.latest = v] =
           [kid |-> e.kid, latest |-> v, revoked |-> e.revoked, object |-> e.object]
<1> DEFINE new == [e EXCEPT !.latest = v]
<1>1. /\ DOMAIN new = {"kid", "latest", "revoked", "object"}
      /\ new.kid = e.kid /\ new.latest = v /\ new.revoked = e.revoked /\ new.object = e.object
  BY DEF Entries
<1>2. new = [x \in DOMAIN new |-> new[x]]
  BY DEF Entries
<1> QED
  BY <1>1, <1>2 DEF Entries

\* The index learns of the version the engine holds.
LEMMA EnterStep ==
  ASSUME EnterpriseParameters, OneRequest, ServiceInv, NEW t \in Threads, Enter(t)
  PROVE  ServiceInv'
<1> DEFINE j == job[t]
           k == j.key
           entry == [kid |-> j.kid, latest |-> j.version, revoked |-> FALSE,
                     object |-> IF j.op = "remember" THEN 1 ELSE j.object]
<1>1. /\ pc[t] = "enter" /\ phase = "up"
      /\ UNCHANGED <<file, manifest, blobs, engine, phase, job, held, acked>> /\ Goto(t, "recall")
  BY Facts DEF Enter, disk
<1>2. /\ j \in Jobs /\ NewVersion(j)
      /\ Known(engine, k, j.version, j.kid, j.payload)
  BY <1>1 DEF ServiceInv, RequestInv, At, Known, NodeOf, RouteOf
<1>3. k \in Keys /\ entries \in Indexes /\ (entries[k] # None => entries[k] \in Entries)
  BY <1>2, Facts DEF Jobs
<1>4. 1 \in 1..Cardinality(Threads)
  <2>1. Threads = {t}
    BY DEF OneRequest
  <2> QED
    BY <2>1, FS_Singleton
<1>5. entries' = [entries EXCEPT ![k] = entry]
  <2>1. CASE j.op = "remember"
    BY <1>2, <2>1 DEF Enter, NewVersion
  <2>2. CASE j.op # "remember"
    <3>1. /\ entries' = [entries EXCEPT ![k].latest = j.version]
          /\ entries[k] \in Entries /\ ~entries[k].revoked
          /\ j.kid = entries[k].kid /\ j.object = entries[k].object
      BY <1>2, <1>3, <2>2 DEF Enter, NewVersion
    <3>2. ~entries[k].revoked <=> entries[k].revoked = FALSE
      BY <3>1 DEF Entries
    <3>3. [entries[k] EXCEPT !.latest = j.version] =
            [kid |-> j.kid, latest |-> j.version, revoked |-> FALSE, object |-> j.object]
      BY <3>1, <3>2, EntryMoved
    <3>4. [entries[k] EXCEPT !.latest = j.version] = entry
      BY <2>2, <3>3
    <3> HIDE DEF entry
    <3> QED
      BY <1>3, <3>1, <3>4
  <2> QED
    BY <2>1, <2>2
<1>6. entry \in Entries /\ entry # None /\ ~entry.revoked
      /\ entry.kid = j.kid /\ entry.latest = j.version
  <2>1. j.op # "remember" => j.object \in 1..Cardinality(Threads)
    BY <1>2, <1>3 DEF NewVersion, Entries
  <2>2. entry.object \in 1..Cardinality(Threads)
    BY <1>4, <2>1
  <2>3. j.kid \in KnowledgeIds /\ j.version \in Versions
    BY <1>2 DEF Jobs
  <2>4. entry \in Entries
    BY <2>2, <2>3 DEF Entries
  <2> QED
    BY <2>4 DEF EnterpriseParameters
<1> HIDE DEF entry
<1>7. /\ entries' \in Indexes /\ entries'[k] = entry
      /\ \A x \in Keys : x # k => entries'[x] = entries[x]
  BY <1>3, <1>5, <1>6 DEF Indexes
<1>8. Later(entries', entries)
  <2>1. \A x \in Keys : entries[x] # None => entries[x].latest \in Nat
    BY Facts DEF Entries, Versions
  <2>2. entries[k] # None => /\ ~entries[k].revoked /\ entries[k].kid = entry.kid
                             /\ entry.latest = entries[k].latest + 1
    BY <1>2, <1>6 DEF NewVersion
  <2> QED
    BY <1>6, <1>7, <2>1, <2>2 DEF Later
<1>9. Paired(entries', engine)
  <2> SUFFICES ASSUME NEW x \in Keys, entries'[x] # None, NEW v \in 1..entries'[x].latest
               PROVE  \E p \in Payloads : Known(engine, x, v, entries'[x].kid, p)
    BY DEF Paired
  <2>1. CASE x # k
    BY <1>7, <2>1 DEF ServiceInv, MemoryInv, Paired
  <2>2. CASE x = k /\ v = j.version
    BY <1>2, <1>6, <1>7, <2>2 DEF NewVersion
  <2>3. CASE x = k /\ v # j.version
    <3>1. v \in 1..j.version /\ j.version \in Nat
      BY <1>2, <1>6, <1>7, <2>3 DEF Jobs, Versions
    <3>2. entries[k] # None /\ j.version = entries[k].latest + 1 /\ entries[k].kid = j.kid
      BY <1>2, <2>3, <3>1 DEF NewVersion
    <3>3. entries[k].latest \in Nat
      BY <1>3, <3>2 DEF Entries, Versions
    <3>4. v \in 1..entries[k].latest
      BY <2>3, <3>1, <3>2, <3>3
    <3> QED
      BY <1>3, <1>6, <1>7, <2>3, <3>2, <3>4 DEF ServiceInv, MemoryInv, Paired
  <2> QED
    BY <2>1, <2>2, <2>3
<1>10. DiskInv' /\ AckedInv' /\ LoadedEntries' = LoadedEntries /\ LoadedEngine' = LoadedEngine
  BY <1>1, DiskQuiet DEF ServiceInv, DiskInv
<1>11. MemoryInv'
  <2>1. Later(entries', LoadedEntries)
    BY <1>1, <1>3, <1>7, <1>8, LaterChain, Facts DEF ServiceInv, MemoryInv
  <2>2. Paired(entries, engine)' /\ Functional(engine)'
    BY <1>1, <1>9 DEF ServiceInv, MemoryInv
  <2> QED
    BY <1>1, <1>7, <1>10, <2>1, <2>2 DEF ServiceInv, MemoryInv
<1>12. RequestInv'
  <2>1. pc' \in [Threads -> Pcs] /\ pc'[t] = "recall"
    BY <1>1, Labels DEF ServiceInv, Pcs
  <2>2. InMemory(j)' /\ j.op # "revoke"
    BY <1>1, <1>2, <1>6, <1>7 DEF InMemory, NewVersion
  <2>3. At("recall", job[t], held[t])'
    BY <1>1, <1>2, <1>6, <1>7, <2>2 DEF At
  <2> QED
    BY <1>1, <2>1, <2>3, RequestMoves DEF ServiceInv, RequestInv
<1> QED
  BY <1>10, <1>11, <1>12 DEF ServiceInv

\* The answer is read back: nothing changes but what the answer will say.
LEMMA ReadStep ==
  ASSUME EnterpriseParameters, OneRequest, ServiceInv, NEW t \in Threads,
         LookUp(t) \/ Recall(t)
  PROVE  ServiceInv'
<1>1. /\ UNCHANGED <<file, manifest, blobs, engine, entries, phase, acked>> /\ phase = "up"
      /\ DOMAIN job = Threads /\ DOMAIN held = Threads
  BY Facts DEF LookUp, Recall, disk, service, ServiceInv, RequestInv
<1>2. CASE Done(t)
  BY <1>1, <1>2, RequestEnds, QuietStep DEF ServiceInv, DiskInv
<1>3. CASE LookUp(t) /\ ~Done(t)
  <2> DEFINE j == job[t]
             known == {n.payload : n \in NodesAt(engine, j)}
  <2>1. /\ pc[t] = "lookup" /\ UNCHANGED <<job, held>> /\ known \subseteq {j.payload}
        /\ Goto(t, IF known = {} THEN "put" ELSE "route")
    BY <1>3 DEF LookUp
  <2>2. j \in Jobs /\ NewVersion(j)
    BY <2>1 DEF ServiceInv, RequestInv, At
  <2>3. NewVersion(job[t])' /\ NodesAt(engine, job[t])' = NodesAt(engine, j)
    BY <1>1, <2>1, <2>2 DEF NewVersion, NodesAt
  <2>4. CASE known = {}
    <3>1. pc' \in [Threads -> Pcs] /\ pc'[t] = "put"
      BY <2>1, <2>4, Labels DEF ServiceInv, Pcs
    <3>2. NodesAt(engine, j) = {}
      BY <2>4
    <3>3. At("put", job[t], held[t])'
      BY <2>1, <2>2, <2>3, <3>2 DEF At
    <3>4. RequestInv'
      BY <1>1, <2>1, <3>1, <3>3, RequestMoves DEF ServiceInv
    <3> QED
      BY <1>1, <3>4, QuietStep DEF ServiceInv, DiskInv
  <2>5. CASE known # {}
    <3>1. pc' \in [Threads -> Pcs] /\ pc'[t] = "route"
      BY <2>1, <2>5, Labels DEF ServiceInv, Pcs
    <3>2. PICK n \in NodesAt(engine, j) : n.payload = j.payload
      BY <2>1, <2>5
    <3>3. n \in Nodes /\ n.key = j.key /\ n.version = j.version /\ n.kid = j.kid
          /\ n \in engine.nodes
      BY Facts DEF NodesAt, Engines
    <3>4. n = NodeOf(j)
      BY <3>2, <3>3 DEF Nodes, NodeOf
    <3>5. At("route", job[t], held[t])'
      BY <1>1, <2>1, <2>2, <2>3, <3>3, <3>4 DEF At
    <3>6. RequestInv'
      BY <1>1, <2>1, <3>1, <3>5, RequestMoves DEF ServiceInv
    <3> QED
      BY <1>1, <3>6, QuietStep DEF ServiceInv, DiskInv
  <2> QED
    BY <2>4, <2>5
<1>4. CASE Recall(t) /\ ~Done(t)
  <2> DEFINE j == job[t]
  <2>1. /\ pc[t] = "recall" /\ Goto(t, "encode") /\ held' = held
        /\ job' = [job EXCEPT ![t].version = entries[j.key].latest]
    BY <1>4 DEF Recall
  <2>2. j \in Jobs /\ InMemory(j)
    BY <2>1 DEF ServiceInv, RequestInv, At
  <2>3. j = [op |-> j.op, key |-> j.key, kid |-> j.kid, payload |-> j.payload,
             version |-> j.version, object |-> j.object]
    BY <2>2 DEF Jobs
  <2>4. [j EXCEPT !.version = entries[j.key].latest] = j
    BY <2>2, <2>3 DEF InMemory
  <2>5. job'[t] = j /\ DOMAIN job' = Threads
    BY <1>1, <2>1, <2>4
  <2>6. pc' \in [Threads -> Pcs] /\ pc'[t] = "encode"
    BY <2>1, Labels DEF ServiceInv, Pcs
  <2>7. InMemory(job[t])'
    BY <1>1, <2>2, <2>5 DEF InMemory
  <2>8. At("encode", job[t], held[t])'
    BY <2>2, <2>5, <2>7 DEF At
  <2>9. RequestInv'
    BY <1>1, <2>1, <2>5, <2>6, <2>8, RequestMoves DEF ServiceInv
  <2> QED
    BY <1>1, <2>9, QuietStep DEF ServiceInv, DiskInv
<1> QED
  BY <1>2, <1>3, <1>4

\* A file is written: a restart finds what it found, or more of what is in
\* memory.
LEMMA DiskMoves ==
  ASSUME EnterpriseParameters, ServiceInv, phase = "up", UNCHANGED <<engine, entries, phase>>,
         file' \in Engines, manifest' \in Manifests \cup {None}, blobs' \subseteq Engines,
         \/ LoadedEntries' = entries /\ LoadedEngine' = engine
         \/ LoadedEntries' = LoadedEntries /\ LoadedEngine' \in {LoadedEngine, engine}
  PROVE  /\ DiskInv' /\ MemoryInv' /\ \A a \in acked : Durable(a)'
         /\ Grown(LoadedEngine', LoadedEngine) /\ Later(LoadedEntries', LoadedEntries)
<1>1. /\ Functional(engine) /\ entries \in Indexes /\ Paired(entries, engine)
      /\ Grown(engine, LoadedEngine) /\ Later(entries, LoadedEntries)
      /\ Functional(LoadedEngine) /\ Paired(LoadedEntries, LoadedEngine)
      /\ file' # None /\ LoadedEntries \in Indexes
  BY Facts DEF ServiceInv, DiskInv, MemoryInv
<1>2. Functional(LoadedEngine') /\ Grown(engine, LoadedEngine') /\ Grown(LoadedEngine', LoadedEngine)
  BY <1>1 DEF Grown
<1>3. Later(entries, LoadedEntries') /\ Later(LoadedEntries', LoadedEntries)
  BY <1>1, LaterSelf
<1>4. Paired(LoadedEntries', LoadedEngine')
  BY <1>1, <1>2, PairedGrows
<1>5. DiskInv'
  BY <1>1, <1>2, <1>4 DEF DiskInv, Functional, Paired
<1>6. MemoryInv'
  BY <1>1, <1>2, <1>3 DEF MemoryInv, Functional, Paired, Grown, Later
<1>7. ASSUME NEW a \in acked PROVE Durable(a)'
  <2>1. a.version \in Nat /\ Durable(a)
    BY DEF ServiceInv, AckedInv
  <2>2. /\ LoadedEntries'[a.key] # None
        /\ LoadedEntries'[a.key].latest >= LoadedEntries[a.key].latest
        /\ LoadedEntries[a.key].revoked => LoadedEntries'[a.key].revoked
    BY <1>3, <2>1 DEF Later, Durable
  <2>3. LoadedEntries'[a.key].latest \in Nat /\ LoadedEntries[a.key].latest \in Nat
    BY <1>1, <2>1, <2>2 DEF Durable, Indexes, Entries, Versions
  <2> QED
    BY <1>2, <2>1, <2>2, <2>3 DEF Durable, Known, Grown
<1> QED
  BY <1>2, <1>3, <1>5, <1>6, <1>7

\* The request writes its files.
LEMMA SaveStep ==
  ASSUME EnterpriseParameters, OneRequest, ServiceInv, NEW t \in Threads,
         \/ Encode(t) \/ ReplaceSnapshot(t) \/ BuildManifest(t) \/ WriteManifest(t)
         \/ Mirror(t) \/ ReadManifest(t) \/ Seal(t) \/ SaveFails(t)
  PROVE  ServiceInv'
<1> DEFINE j == job[t]
           sheet == [entries |-> entries, receipt |-> None]
<1>1. /\ UNCHANGED <<engine, entries, phase>> /\ phase = "up"
      /\ DOMAIN job = Threads /\ DOMAIN held = Threads
      /\ blobs \subseteq Engines /\ manifest \in Manifests \cup {None}
      /\ file \in Engines \cup {None} /\ engine \in Engines /\ entries \in Indexes
      /\ None \notin Engines /\ None \notin Manifests
      /\ pc[t] # "idle" /\ At(pc[t], j, held[t])
      /\ sheet \in Manifests
  BY Facts
     DEF Encode, ReplaceSnapshot, BuildManifest, WriteManifest, Mirror, ReadManifest, Seal,
         SaveFails, service, ServiceInv, RequestInv, DiskInv, Manifests
<1>2. ASSUME InMemory(j), job' = job, NEW label \in Pcs, Goto(t, label)
      PROVE  /\ pc' \in [Threads -> Pcs] /\ pc'[t] = label
             /\ InMemory(job[t])' /\ job'[t] \in Jobs
  <2>1. pc' \in [Threads -> Pcs] /\ pc'[t] = label
    BY <1>2, Labels DEF ServiceInv
  <2>2. InMemory(job[t])'
    BY <1>1, <1>2 DEF InMemory
  <2> QED
    BY <1>1, <1>2, <2>1, <2>2 DEF At
<1>3. CASE Encode(t)
  <2>1. /\ pc[t] = "encode" /\ Goto(t, "replace") /\ held' = [held EXCEPT ![t] = engine]
        /\ UNCHANGED <<file, manifest, blobs, job, acked>>
    BY <1>3 DEF Encode, disk
  <2>2. /\ pc' \in [Threads -> Pcs] /\ pc'[t] = "replace"
        /\ InMemory(job[t])' /\ job'[t] \in Jobs
    BY <1>1, <1>2, <2>1 DEF At, Pcs
  <2>3. At("replace", job[t], held[t])'
    BY <1>1, <2>1, <2>2 DEF At
  <2>4. RequestInv'
    BY <1>1, <2>1, <2>2, <2>3, RequestMoves DEF ServiceInv
  <2> QED
    BY <1>1, <2>1, <2>4, QuietStep
<1>4. CASE ReplaceSnapshot(t)
  <2>1. /\ pc[t] = "replace" /\ Goto(t, "build") /\ file' = engine
        /\ UNCHANGED <<manifest, blobs, job, held, acked>>
    BY <1>1, <1>4 DEF ReplaceSnapshot, At
  <2>2. /\ pc' \in [Threads -> Pcs] /\ pc'[t] = "build"
        /\ InMemory(job[t])' /\ job'[t] \in Jobs
    BY <1>1, <1>2, <2>1 DEF At, Pcs
  <2>3. At("build", job[t], held[t])'
    BY <1>1, <2>1, <2>2 DEF At
  <2>4. RequestInv'
    BY <1>1, <2>1, <2>2, <2>3, RequestMoves DEF ServiceInv
  <2>5. LoadedEntries' = LoadedEntries /\ LoadedEngine' \in {LoadedEngine, engine}
    BY <2>1 DEF LoadedEntries, LoadedEngine
  <2>6. DiskInv' /\ MemoryInv' /\ \A a \in acked : Durable(a)'
    BY <1>1, <2>1, <2>5, DiskMoves
  <2> QED
    BY <2>1, <2>4, <2>6 DEF ServiceInv, AckedInv
<1>5. CASE BuildManifest(t)
  <2>1. /\ pc[t] = "build" /\ Goto(t, "manifest") /\ held' = [held EXCEPT ![t] = sheet]
        /\ UNCHANGED <<file, manifest, blobs, job, acked>>
    BY <1>5 DEF BuildManifest, disk
  <2>2. /\ pc' \in [Threads -> Pcs] /\ pc'[t] = "manifest"
        /\ InMemory(job[t])' /\ job'[t] \in Jobs
    BY <1>1, <1>2, <2>1 DEF At, Pcs
  <2>3. At("manifest", job[t], held[t])'
    BY <1>1, <2>1, <2>2 DEF At
  <2>4. RequestInv'
    BY <1>1, <2>1, <2>2, <2>3, RequestMoves DEF ServiceInv
  <2> QED
    BY <1>1, <2>1, <2>4, QuietStep
<1>6. CASE WriteManifest(t)
  <2>1. /\ pc[t] = "manifest" /\ Goto(t, "mirror") /\ manifest' = sheet /\ file = engine
        /\ UNCHANGED <<file, blobs, job, held, acked>>
    BY <1>1, <1>6 DEF WriteManifest, At
  <2>2. /\ pc' \in [Threads -> Pcs] /\ pc'[t] = "mirror"
        /\ InMemory(job[t])' /\ job'[t] \in Jobs
    BY <1>1, <1>2, <2>1 DEF At, Pcs
  <2>3. At("mirror", job[t], held[t])'
    BY <1>1, <2>1, <2>2 DEF At
  <2>4. RequestInv'
    BY <1>1, <2>1, <2>2, <2>3, RequestMoves DEF ServiceInv
  <2>5. LoadedEntries' = entries /\ LoadedEngine' = engine
    BY <1>1, <2>1 DEF LoadedEntries, LoadedEngine
  <2>6. DiskInv' /\ MemoryInv' /\ \A a \in acked : Durable(a)'
    BY <1>1, <2>1, <2>5, DiskMoves
  <2> QED
    BY <2>1, <2>4, <2>6 DEF ServiceInv, AckedInv
<1>7. CASE Mirror(t)
  <2>1. /\ pc[t] = "mirror" /\ Goto(t, "read") /\ file = engine
        /\ held' = [held EXCEPT ![t] = engine] /\ blobs' = blobs \cup {engine}
        /\ UNCHANGED <<file, manifest, job, acked>>
    BY <1>1, <1>7 DEF Mirror, At
  <2>2. /\ pc' \in [Threads -> Pcs] /\ pc'[t] = "read"
        /\ InMemory(job[t])' /\ job'[t] \in Jobs
    BY <1>1, <1>2, <2>1 DEF At, Pcs
  <2>3. At("read", job[t], held[t])'
    BY <1>1, <2>1, <2>2 DEF At
  <2>4. RequestInv'
    BY <1>1, <2>1, <2>2, <2>3, RequestMoves DEF ServiceInv
  <2> QED
    BY <1>1, <2>1, <2>4, QuietStep
<1>8. CASE ReadManifest(t)
  <2>1. /\ pc[t] = "read" /\ Goto(t, "seal") /\ manifest = sheet /\ held[t] = engine
        /\ held' = [held EXCEPT ![t] = [manifest EXCEPT !.receipt = held[t]]]
        /\ UNCHANGED <<file, manifest, blobs, job, acked>>
    BY <1>1, <1>8 DEF ReadManifest, At, disk
  <2>2. held'[t] = [entries |-> entries, receipt |-> engine]
    BY <1>1, <2>1
  <2>3. /\ pc' \in [Threads -> Pcs] /\ pc'[t] = "seal"
        /\ InMemory(job[t])' /\ job'[t] \in Jobs
    BY <1>1, <1>2, <2>1 DEF At, Pcs
  <2>4. At("seal", job[t], held[t])'
    BY <1>1, <2>1, <2>2, <2>3 DEF At
  <2>5. RequestInv'
    BY <1>1, <2>1, <2>3, <2>4, RequestMoves DEF ServiceInv
  <2> QED
    BY <1>1, <2>1, <2>5, QuietStep
<1>9. CASE Seal(t)
  <2>1. /\ pc[t] = "seal" /\ Done(t) /\ file = engine /\ InMemory(j) /\ j \in Jobs
        /\ manifest' = [entries |-> entries, receipt |-> engine]
        /\ acked' = acked \cup {j}
        /\ UNCHANGED <<file, blobs>>
    BY <1>1, <1>9 DEF Seal, At
  <2>2. LoadedEntries' = entries /\ LoadedEngine' = engine /\ manifest' \in Manifests
    BY <1>1, <2>1 DEF LoadedEntries, LoadedEngine, Manifests
  <2>3. DiskInv' /\ MemoryInv' /\ \A a \in acked : Durable(a)'
    BY <1>1, <2>1, <2>2, DiskMoves
  <2>4. ASSUME NEW x \in Jobs, InMemory(x) PROVE Durable(x)' /\ x.version \in Nat
    <3>1. x.version \in Nat /\ x.key \in Keys
      BY DEF Jobs, Versions
    <3>2. Durable(x)'
      BY <1>1, <2>2, <2>4, <3>1 DEF Durable, InMemory
    <3> QED
      BY <3>1, <3>2
  <2>5. RequestInv'
    BY <2>1, RequestEnds DEF ServiceInv
  <2>6. \A a \in acked' : a.version \in Nat /\ Durable(a)'
    BY <2>1, <2>3, <2>4 DEF ServiceInv, AckedInv
  <2> QED
    BY <2>3, <2>5, <2>6 DEF ServiceInv, AckedInv
<1>10. CASE SaveFails(t)
  <2>1. /\ Done(t) /\ UNCHANGED <<file, manifest, acked>>
        /\ blobs' = blobs \/ (pc[t] = "mirror" /\ blobs' = blobs \cup {file})
    BY <1>10 DEF SaveFails
  <2>2. blobs' \subseteq Engines
    BY <1>1, <2>1 DEF At
  <2>3. RequestInv'
    BY <2>1, RequestEnds DEF ServiceInv
  <2> QED
    BY <1>1, <2>1, <2>2, <2>3, QuietStep
<1> QED
  BY <1>3, <1>4, <1>5, <1>6, <1>7, <1>8, <1>9, <1>10

\* The process is killed, and starts again.
LEMMA RestartStep ==
  ASSUME EnterpriseParameters, ServiceInv, Kill \/ Open \/ OpenRaises \/ Retry
  PROVE  ServiceInv'
<1>1. /\ UNCHANGED <<file, manifest, blobs, acked>>
      /\ Functional(LoadedEngine) /\ Paired(LoadedEntries, LoadedEngine)
      /\ LoadedEntries \in Indexes
  BY Facts DEF Kill, Open, OpenRaises, Retry, disk, ServiceInv, DiskInv
<1>2. DiskInv' /\ AckedInv' /\ LoadedEntries' = LoadedEntries /\ LoadedEngine' = LoadedEngine
  BY <1>1, DiskQuiet DEF ServiceInv, DiskInv
<1>3. CASE Kill
  <2>1. /\ engine' = NoEngine /\ entries' = NoEntries /\ phase' = "down"
        /\ pc' = [t \in Threads |-> "idle"]
        /\ job' = [t \in Threads |-> None] /\ held' = [t \in Threads |-> None]
    BY <1>3 DEF Kill
  <2>2. RequestInv'
    BY <2>1 DEF RequestInv, At, Pcs
  <2>3. Functional(engine)' /\ entries' \in Indexes /\ Paired(entries, engine)'
    BY <2>1, NothingYet
  <2>4. MemoryInv'
    BY <2>1, <2>3 DEF MemoryInv
  <2> QED
    BY <1>2, <2>2, <2>4 DEF ServiceInv
<1>4. CASE Open
  <2>1. /\ engine' = LoadedEngine /\ entries' = LoadedEntries /\ phase = "down" /\ phase' = "up"
        /\ UNCHANGED <<pc, job, held>>
    BY <1>4 DEF Open, thread
  <2>2. \A t \in Threads : pc[t] = "idle"
    BY <2>1 DEF ServiceInv, MemoryInv
  <2>3. RequestInv'
    BY <2>1, <2>2 DEF ServiceInv, RequestInv, At
  <2>4. Grown(engine', LoadedEngine) /\ Later(entries', LoadedEntries)
    BY <1>1, <2>1, LaterSelf DEF Grown
  <2>5. MemoryInv'
    BY <1>1, <1>2, <2>1, <2>4 DEF MemoryInv
  <2> QED
    BY <1>2, <2>3, <2>5 DEF ServiceInv
<1>5. CASE OpenRaises \/ Retry
  <2>1. /\ UNCHANGED <<engine, entries, pc, job, held>>
        /\ phase # "up" /\ phase' \in {"down", "refused"}
    BY <1>5 DEF OpenRaises, Retry, thread
  <2>2. \A t \in Threads : pc[t] = "idle"
    BY <2>1 DEF ServiceInv, MemoryInv
  <2>3. RequestInv'
    BY <2>1, <2>2 DEF ServiceInv, RequestInv, At
  <2>4. MemoryInv'
    BY <2>1, <2>2 DEF ServiceInv, MemoryInv, Paired
  <2> QED
    BY <1>2, <2>3, <2>4 DEF ServiceInv
<1> QED
  BY <1>3, <1>4, <1>5

LEMMA StepService ==
  ASSUME EnterpriseParameters, OneRequest, ServiceInv, [Next]_vars PROVE ServiceInv'
<1>1. CASE UNCHANGED vars
  <2>1. /\ UNCHANGED <<file, manifest, blobs, engine, entries, phase>>
        /\ UNCHANGED <<pc, job, held, acked>>
    BY <1>1 DEF vars, disk, service, thread
  <2>2. DiskInv' /\ AckedInv' /\ LoadedEntries' = LoadedEntries /\ LoadedEngine' = LoadedEngine
    BY <2>1, DiskQuiet DEF ServiceInv, DiskInv
  <2>3. MemoryInv'
    BY <2>1, <2>2 DEF ServiceInv, MemoryInv, Paired
  <2>4. RequestInv'
    BY <2>1 DEF ServiceInv, RequestInv, At, NewVersion, InMemory, NodesAt
  <2> QED
    BY <2>2, <2>3, <2>4 DEF ServiceInv
<1> QED
  BY <1>1, NextActions, StartStep, ReadStep, PutNodeStep, PutRouteStep, EnterStep, SaveStep,
     RestartStep

LEMMA InitService == ASSUME EnterpriseParameters, Init PROVE ServiceInv
<1>1. LoadedEngine = NoEngine /\ LoadedEntries = NoEntries
  BY DEF Init, LoadedEngine, LoadedEntries
<1>2. DiskInv /\ MemoryInv
  BY <1>1, NothingYet DEF Init, DiskInv, MemoryInv
<1>3. RequestInv /\ AckedInv
  BY DEF Init, RequestInv, AckedInv, At, Pcs
<1> QED
  BY <1>2, <1>3 DEF ServiceInv

LEMMA ServiceAlways ==
  ASSUME EnterpriseParameters, OneRequest PROVE Spec => []ServiceInv
<1>1. Init => ServiceInv
  BY InitService
<1>2. ServiceInv /\ [Next]_vars => ServiceInv'
  BY StepService
<1> QED
  BY <1>1, <1>2, PTL DEF Spec

\* The bounds on kills and on I/O errors.
CountsInv == crashes \in 0..MaxCrashes /\ errors \in 0..MaxErrors

LEMMA StepCounts ==
  ASSUME EnterpriseParameters, CountsInv, [Next]_vars PROVE CountsInv'
<1> USE DEF CountsInv, EnterpriseParameters
<1>1. ASSUME NEW t \in Threads, SaveFails(t) PROVE CountsInv'
  BY <1>1 DEF SaveFails, IOError
<1>2. CASE Kill \/ OpenRaises
  BY <1>2 DEF Kill, OpenRaises, IOError
<1>3. CASE UNCHANGED counts
  BY <1>3 DEF counts
<1>4. CASE Open \/ Retry \/ UNCHANGED vars
  BY <1>3, <1>4 DEF Open, Retry, vars
<1>5. ASSUME NEW t \in Threads,
             \/ \E k \in Keys, kid \in KnowledgeIds, p \in Payloads : RememberCheck(t, k, kid, p)
             \/ \E k \in Keys, p \in Payloads : UpdateCheck(t, k, p)
             \/ \E k \in Keys : Revoke(t, k)
             \/ LookUp(t) \/ PutNode(t) \/ PutRoute(t) \/ Enter(t) \/ Recall(t)
      PROVE  CountsInv'
  BY <1>3, <1>5
     DEF RememberCheck, UpdateCheck, Revoke, LookUp, PutNode, PutRoute, Enter, Recall
<1>6. ASSUME NEW t \in Threads,
             \/ Encode(t) \/ ReplaceSnapshot(t) \/ BuildManifest(t) \/ WriteManifest(t)
             \/ Mirror(t) \/ ReadManifest(t) \/ Seal(t)
      PROVE  CountsInv'
  BY <1>3, <1>6
     DEF Encode, ReplaceSnapshot, BuildManifest, WriteManifest, Mirror, ReadManifest, Seal
<1> QED
  BY <1>1, <1>2, <1>4, <1>5, <1>6, NextActions

LEMMA ServiceTyped ==
  ASSUME EnterpriseParameters, ServiceInv, CountsInv PROVE TypeOK
BY DEF ServiceInv, CountsInv, DiskInv, MemoryInv, RequestInv, Functional, TypeOK

(* The type invariant.                                                     *)
THEOREM EnterpriseTypeOK ==
  ASSUME EnterpriseParameters, OneRequest PROVE Spec => []TypeOK
<1>1. Init => CountsInv
  BY DEF Init, CountsInv, EnterpriseParameters
<1>2. CountsInv /\ [Next]_vars => CountsInv'
  BY StepCounts
<1> QED
  BY <1>1, <1>2, ServiceTyped, ServiceAlways, PTL DEF Spec

LEMMA ServicePromises ==
  ASSUME EnterpriseParameters, ServiceInv
  PROVE  /\ AckedSurvive /\ RestartResolves /\ MemoryResolves
         /\ RevokedStays /\ StoredPayloadStays
<1>1. AckedSurvive
  <2> SUFFICES ASSUME NEW a \in acked
               PROVE  LET entry == LoadedEntries[a.key]
                      IN  /\ entry # None /\ entry.latest >= a.version
                          /\ IF a.op = "revoke" THEN entry.revoked
                             ELSE Resolved(LoadedEngine, a.key, a.version) = a.payload
    BY DEF AckedSurvive
  <2> QED
    BY KnownResolves DEF ServiceInv, AckedInv, DiskInv, Durable
<1>2. RestartResolves
  BY PairedResolves DEF ServiceInv, DiskInv, RestartResolves
<1>3. MemoryResolves
  BY PairedResolves DEF ServiceInv, MemoryInv, MemoryResolves
<1>4. RevokedStays
  BY DEF ServiceInv, MemoryInv, AckedInv, Durable, Later, RevokedStays
<1>5. StoredPayloadStays
  <2> SUFFICES ASSUME NEW a \in acked, phase = "up", a.op = "remember"
               PROVE  Resolved(engine, a.key, 1) = a.payload
    BY DEF StoredPayloadStays
  <2>1. Known(engine, a.key, 1, a.kid, a.payload)
    BY DEF ServiceInv, MemoryInv, AckedInv, Durable, Known, Grown
  <2> QED
    BY <2>1, KnownResolves DEF ServiceInv, MemoryInv
<1> QED
  BY <1>1, <1>2, <1>3, <1>4, <1>5

(* A version or a revocation whose request was answered with success is    *)
(* what a restart finds, over kills and over saves that fail half-way.     *)
THEOREM VersionsSurvive ==
  ASSUME EnterpriseParameters, OneRequest PROVE Spec => []AckedSurvive
BY ServicePromises, ServiceAlways, PTL

(* The index a restart loads names no version the engine it loads lacks,   *)
(* although two files and a store are written one after the other.         *)
THEOREM RestartsResolve ==
  ASSUME EnterpriseParameters, OneRequest PROVE Spec => []RestartResolves
BY ServicePromises, ServiceAlways, PTL

(* Nor does the index in memory, between any two steps of a request.       *)
THEOREM MemoryAlwaysResolves ==
  ASSUME EnterpriseParameters, OneRequest PROVE Spec => []MemoryResolves
BY ServicePromises, ServiceAlways, PTL

(* A memory revoked with success stays hidden: no later request brings it  *)
(* back, and no restart does.                                              *)
THEOREM RevokedAlwaysStays ==
  ASSUME EnterpriseParameters, OneRequest PROVE Spec => []RevokedStays
BY ServicePromises, ServiceAlways, PTL

(* The payload remember() stored is what version 1 resolves to from then   *)
(* on: updates write other nodes, and a payload is never overwritten.      *)
THEOREM StoredPayloadAlwaysStays ==
  ASSUME EnterpriseParameters, OneRequest PROVE Spec => []StoredPayloadStays
BY ServicePromises, ServiceAlways, PTL

-----------------------------------------------------------------------------
(* Requests that follow one another implement VersionedMemory.             *)

\* What a restart finds grows.
LEMMA DiskGrows ==
  ASSUME EnterpriseParameters, ServiceInv, ServiceInv', [Next]_vars
  PROVE  Grown(LoadedEngine', LoadedEngine) /\ Later(LoadedEntries', LoadedEntries)
<1>1. LoadedEntries \in Indexes
  BY Facts
<1>2. CASE UNCHANGED <<file, manifest>>
  BY <1>1, <1>2, LaterSelf DEF LoadedEngine, LoadedEntries, Grown
<1>3. CASE ~UNCHANGED <<file, manifest>>
  <2>1. PICK t \in Threads : ReplaceSnapshot(t) \/ WriteManifest(t) \/ Seal(t)
    <3>1. ~UNCHANGED vars
      BY <1>3 DEF vars, disk
    <3>2. \A t \in Threads :
            ~(\/ \E k \in Keys, kid \in KnowledgeIds, p \in Payloads : RememberCheck(t, k, kid, p)
              \/ \E k \in Keys, p \in Payloads : UpdateCheck(t, k, p)
              \/ \E k \in Keys : Revoke(t, k))
      BY <1>3 DEF RememberCheck, UpdateCheck, Revoke, disk
    <3>3. \A t \in Threads :
            ~(LookUp(t) \/ PutNode(t) \/ PutRoute(t) \/ Enter(t) \/ Recall(t) \/ Encode(t))
      BY <1>3 DEF LookUp, PutNode, PutRoute, Enter, Recall, Encode, disk
    <3>4. \A t \in Threads : ~(BuildManifest(t) \/ Mirror(t) \/ ReadManifest(t) \/ SaveFails(t))
      BY <1>3 DEF BuildManifest, Mirror, ReadManifest, SaveFails, disk
    <3>5. ~(Kill \/ Open \/ OpenRaises \/ Retry)
      BY <1>3 DEF Kill, Open, OpenRaises, Retry, disk
    <3> QED
      BY <3>1, <3>2, <3>3, <3>4, <3>5, NextActions
  <2>2. /\ pc[t] # "idle" /\ phase = "up" /\ At(pc[t], job[t], held[t])
        /\ UNCHANGED <<engine, entries, phase>>
    BY <2>1, Facts DEF ReplaceSnapshot, WriteManifest, Seal, service, ServiceInv, RequestInv
  <2>3. /\ file' \in Engines /\ manifest' \in Manifests \cup {None} /\ blobs' \subseteq Engines
        /\ engine # None /\ None \notin Manifests /\ entries \in Indexes /\ engine \in Engines
    <3>1. file' # None
      BY <2>1, <2>2, Facts DEF ReplaceSnapshot, WriteManifest, Seal, At
    <3> QED
      BY <3>1, Facts DEF ServiceInv, DiskInv
  <2>4. \/ LoadedEntries' = entries /\ LoadedEngine' = engine
        \/ LoadedEntries' = LoadedEntries /\ LoadedEngine' \in {LoadedEngine, engine}
    <3>1. CASE ReplaceSnapshot(t)
      BY <2>2, <3>1 DEF ReplaceSnapshot, At, LoadedEntries, LoadedEngine
    <3>2. CASE WriteManifest(t) \/ Seal(t)
      <4>1. /\ file' = engine
            /\ \/ manifest' = [entries |-> entries, receipt |-> None]
               \/ manifest' = [entries |-> entries, receipt |-> engine]
        BY <2>2, <3>2 DEF WriteManifest, Seal, At
      <4>2. manifest' # None
        BY <2>3, <4>1 DEF Manifests
      <4> QED
        BY <2>3, <4>1, <4>2 DEF LoadedEntries, LoadedEngine
    <3> QED
      BY <2>1, <3>1, <3>2
  <2> QED
    BY <2>2, <2>3, <2>4, DiskMoves
<1> QED
  BY <1>2, <1>3

Revoked == {k \in Keys : LoadedEntries[k] # None /\ LoadedEntries[k].revoked}

\* The versions a restart finds, one after the other.
VersionsListed ==
  /\ DurableVersions \in [Keys -> Seq(Payloads)]
  /\ \A k \in Keys : LoadedEntries[k] = None => DurableVersions[k] = <<>>
  /\ \A k \in Keys : LoadedEntries[k] # None =>
       /\ LoadedEntries[k].latest \in Nat
       /\ Len(DurableVersions[k]) = LoadedEntries[k].latest
       /\ \A v \in 1..LoadedEntries[k].latest :
            Known(LoadedEngine, k, v, LoadedEntries[k].kid, DurableVersions[k][v])

LEMMA ListVersions == EnterpriseParameters /\ ServiceInv => VersionsListed
<1> SUFFICES ASSUME EnterpriseParameters, ServiceInv PROVE VersionsListed
  OBVIOUS
<1>1. ASSUME NEW k \in Keys, LoadedEntries[k] # None
      PROVE  /\ LoadedEntries[k].latest \in Nat
             /\ DurableVersions[k] \in Seq(Payloads)
             /\ Len(DurableVersions[k]) = LoadedEntries[k].latest
             /\ \A v \in 1..LoadedEntries[k].latest :
                   Known(LoadedEngine, k, v, LoadedEntries[k].kid, DurableVersions[k][v])
  <2> DEFINE n == LoadedEntries[k].latest
  <2>1. n \in Nat
    BY <1>1, Facts DEF Entries, Versions
  <2>2. DurableVersions[k] = [v \in 1..n |-> Resolved(LoadedEngine, k, v)]
    BY <1>1 DEF DurableVersions
  <2>3. \A v \in 1..n : /\ Resolved(LoadedEngine, k, v) \in Payloads
                        /\ Known(LoadedEngine, k, v, LoadedEntries[k].kid, Resolved(LoadedEngine, k, v))
    BY <1>1, KnownResolves DEF ServiceInv, DiskInv, Paired
  <2> HIDE DEF n
  <2>4. DurableVersions[k] \in [1..n -> Payloads]
    BY <2>2, <2>3
  <2>5. DurableVersions[k] \in Seq(Payloads) /\ Len(DurableVersions[k]) = n
    BY <2>1, <2>4
  <2> QED
    BY <2>1, <2>2, <2>3, <2>5 DEF n
<1>2. \A k \in Keys : LoadedEntries[k] = None => DurableVersions[k] = <<>>
  BY DEF DurableVersions
<1>3. DurableVersions = [k \in Keys |-> DurableVersions[k]]
  BY DEF DurableVersions
<1>4. ASSUME NEW k \in Keys PROVE DurableVersions[k] \in Seq(Payloads)
  <2>1. <<>> \in Seq(Payloads)
    OBVIOUS
  <2> QED
    BY <1>1, <1>2, <2>1
<1> QED
  BY <1>1, <1>2, <1>3, <1>4 DEF VersionsListed

LEMMA StepVersions ==
  ASSUME EnterpriseParameters, ServiceInv, ServiceInv', [Next]_vars
  PROVE  Abstract!Commit
<1>1. Grown(LoadedEngine', LoadedEngine) /\ Later(LoadedEntries', LoadedEntries)
  BY DiskGrows
<1>0. VersionsListed /\ VersionsListed'
  <2>1. (EnterpriseParameters /\ ServiceInv => VersionsListed)'
    BY ListVersions, PTL
  <2> QED
    BY <2>1, ListVersions
<1>2. DurableVersions \in [Keys -> Seq(Payloads)] /\ DurableVersions' \in [Keys -> Seq(Payloads)]
  BY <1>0 DEF VersionsListed
<1>3. ASSUME NEW k \in Keys, LoadedEntries[k] # None
      PROVE  /\ Len(DurableVersions[k]) <= Len(DurableVersions'[k])
             /\ \A v \in 1..Len(DurableVersions[k]) : DurableVersions'[k][v] = DurableVersions[k][v]
             /\ LoadedEntries[k].revoked => Len(DurableVersions'[k]) = Len(DurableVersions[k])
             /\ LoadedEntries'[k] # None
             /\ LoadedEntries[k].revoked => LoadedEntries'[k].revoked
  <2>1. /\ LoadedEntries'[k] # None /\ LoadedEntries'[k].kid = LoadedEntries[k].kid
        /\ LoadedEntries'[k].latest >= LoadedEntries[k].latest
        /\ LoadedEntries[k].revoked =>
             LoadedEntries'[k].revoked /\ LoadedEntries'[k].latest = LoadedEntries[k].latest
    BY <1>1, <1>3 DEF Later
  <2>2. /\ LoadedEntries[k].latest \in Nat /\ LoadedEntries'[k].latest \in Nat
        /\ Len(DurableVersions[k]) = LoadedEntries[k].latest
        /\ Len(DurableVersions'[k]) = LoadedEntries'[k].latest
    BY <1>0, <1>3, <2>1 DEF VersionsListed
  <2>3. ASSUME NEW v \in 1..LoadedEntries[k].latest
        PROVE  DurableVersions'[k][v] = DurableVersions[k][v]
    <3>1. Known(LoadedEngine, k, v, LoadedEntries[k].kid, DurableVersions[k][v])
      BY <1>0, <1>3 DEF VersionsListed
    <3>2. v \in 1..LoadedEntries'[k].latest
      BY <2>1, <2>2
    <3>3. Known(LoadedEngine', k, v, LoadedEntries'[k].kid, DurableVersions'[k][v])
      BY <1>0, <2>1, <3>2 DEF VersionsListed, Known
    <3>4. Known(LoadedEngine', k, v, LoadedEntries[k].kid, DurableVersions[k][v])
      BY <1>1, <3>1 DEF Grown, Known
    <3>5. Functional(LoadedEngine')
      BY DEF ServiceInv, DiskInv, Functional
    <3> QED
      BY <3>3, <3>4, <3>5, KnownResolves
  <2> QED
    BY <2>1, <2>2, <2>3
<1>4. ASSUME NEW k \in Keys
      PROVE  /\ Abstract!Extends(DurableVersions'[k], DurableVersions[k])
             /\ k \in Revoked => k \in Revoked' /\ DurableVersions'[k] = DurableVersions[k]
  <2>1. DurableVersions[k] \in Seq(Payloads) /\ DurableVersions'[k] \in Seq(Payloads)
    BY <1>2
  <2>2. CASE LoadedEntries[k] = None
    <3>1. DurableVersions[k] = <<>> /\ k \notin Revoked
      BY <1>0, <2>2 DEF VersionsListed, Revoked
    <3> QED
      BY <2>1, <3>1 DEF Abstract!Extends
  <2>3. CASE LoadedEntries[k] # None
    <3>1. Abstract!Extends(DurableVersions'[k], DurableVersions[k])
      BY <1>3, <2>1, <2>3 DEF Abstract!Extends
    <3>2. ASSUME k \in Revoked PROVE k \in Revoked' /\ DurableVersions'[k] = DurableVersions[k]
      <4>1. /\ Len(DurableVersions'[k]) = Len(DurableVersions[k]) /\ k \in Revoked'
            /\ \A v \in 1..Len(DurableVersions[k]) :
                 DurableVersions'[k][v] = DurableVersions[k][v]
        BY <1>3, <2>3, <3>2 DEF Revoked
      <4> QED
        BY <2>1, <4>1, SeqEqual
    <3> QED
      BY <3>1, <3>2
  <2> QED
    BY <2>2, <2>3
<1> QED
  BY <1>2, <1>4 DEF Abstract!Commit, Revoked

LEMMA InitVersions == Init => Abstract!Init
BY DEF Init, Abstract!Init, DurableVersions, LoadedEntries, NoEntries

(* What a restart finds implements VersionedMemory: versions are only ever *)
(* appended, and a revoked memory keeps the versions it has.               *)
THEOREM MemoryIsAppendOnly ==
  ASSUME EnterpriseParameters, OneRequest PROVE Spec => AppendOnly
<1>1. ServiceInv /\ ServiceInv' /\ [Next]_vars => Abstract!Commit
  BY StepVersions
<1> QED
  BY <1>1, InitVersions, ServiceAlways, PTL DEF Spec, AppendOnly, Abstract!Spec
=============================================================================
