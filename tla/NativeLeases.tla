---------------------------- MODULE NativeLeases ----------------------------
(***************************************************************************)
(* Reference-counted leases of native runtimes (native_runtime.py).        *)
(*                                                                         *)
(* Services that use the native library share one runtime per library and  *)
(* store: the manager hands out leases, counts them and closes the C       *)
(* handle with the last one.  Requests call through a lease from a thread  *)
(* pool while another thread may be releasing it, so a call is four steps: *)
(* the test of the lease, the test of the runtime, the C call under the    *)
(* runtime's lock, and the unlock.  A release is the test and the mark,    *)
(* both without a lock, then the count under the manager's lock, which it  *)
(* still holds while it waits for the runtime's lock to close the handle.  *)
(***************************************************************************)
EXTENDS Naturals, FiniteSets

CONSTANTS
    Libraries,      \* paths of shared libraries
    Stores,         \* <<data directory, organization>> pairs
    Threads,        \* request and lifespan threads of the process
    LeaseIds,       \* the leases a behaviour may hand out
    RuntimeIds,     \* the runtimes a behaviour may open
    SharedRelease,  \* may a thread release a lease that another one acquired?
    None

ASSUME LeaseAssumptions ==
    /\ IsFiniteSet(LeaseIds)
    /\ None \notin Threads \cup LeaseIds \cup RuntimeIds \cup (Libraries \X Stores)

VARIABLES
    entries,         \* manager._entries: key -> runtime and its references
    storeLibraries,  \* manager._store_libraries: store -> library
    runtimes,        \* NativeRuntime: its key, its handle, its lock's holder
    leases,          \* NativeRuntimeLease: owner, key, runtime, _released
    manager,         \* who holds manager._lock across a step
    threads          \* what each thread is doing

leaseVars == <<entries, storeLibraries, runtimes, leases, manager, threads>>

Keys == Libraries \X Stores
Idle == [at |-> "idle", lease |-> None, handle |-> None]
At(t, place) == threads[t].at = place
Goto(t, place) == threads' = [threads EXCEPT ![t].at = place]
Rest(t) == threads' = [threads EXCEPT ![t] = Idle]
RuntimeOf(t) == leases[threads[t].lease].runtime

LeaseInit ==
    /\ entries = [k \in {} |-> None]
    /\ storeLibraries = [s \in {} |-> None]
    /\ runtimes = [r \in RuntimeIds |->
                     [handle |-> "unopened", key |-> None, holder |-> None]]
    /\ leases = [l \in LeaseIds |->
                   [status |-> "unissued", owner |-> None, key |-> None,
                    runtime |-> None]]
    /\ manager = None
    /\ threads = [t \in Threads |-> Idle]

-----------------------------------------------------------------------------
(* acquire(): the whole body runs under the manager's lock.                *)

Issue(t, l, key, r) ==
    leases' = [leases EXCEPT ![l] = [status |-> "held", owner |-> t,
                                     key |-> key, runtime |-> r]]

\* A store open with another library is refused; an entry is shared.
Share(t, l, key) ==
    /\ key \in DOMAIN entries
    /\ entries' = [entries EXCEPT ![key].refs = @ + 1]
    /\ Issue(t, l, key, entries[key].runtime)
    /\ UNCHANGED <<storeLibraries, runtimes>>

Open(t, l, key) ==
    /\ key \notin DOMAIN entries
    /\ \E r \in RuntimeIds :
         /\ runtimes[r].handle = "unopened"
         /\ runtimes' = [runtimes EXCEPT ![r].handle = "open", ![r].key = key]
         /\ entries' = [k \in DOMAIN entries \cup {key} |->
                          IF k = key THEN [runtime |-> r, refs |-> 1]
                                     ELSE entries[k]]
         /\ storeLibraries' = [s \in DOMAIN storeLibraries \cup {key[2]} |->
                                 IF s = key[2] THEN key[1]
                                               ELSE storeLibraries[s]]
         /\ Issue(t, l, key, r)

Acquire(t, l, key) ==
    /\ At(t, "idle")
    /\ manager = None
    /\ leases[l].status = "unissued"
    /\ key[2] \in DOMAIN storeLibraries => storeLibraries[key[2]] = key[1]
    /\ Share(t, l, key) \/ Open(t, l, key)
    /\ UNCHANGED <<manager, threads>>

-----------------------------------------------------------------------------
(* call() and flush(): two unlocked tests, then the C function.            *)

BeginCall(t, l) ==
    /\ At(t, "idle")
    /\ leases[l].status = "held"
    /\ threads' = [threads EXCEPT ![t] = [Idle EXCEPT !.at = "leased", !.lease = l]]
    /\ UNCHANGED <<entries, storeLibraries, runtimes, leases, manager>>

\* A closed runtime raises before its lock is asked for.
CheckRuntime(t) ==
    /\ At(t, "leased")
    /\ IF runtimes[RuntimeOf(t)].handle = "closed" THEN Rest(t)
                                                   ELSE Goto(t, "checked")
    /\ UNCHANGED <<entries, storeLibraries, runtimes, leases, manager>>

\* The handle is read under the lock: null once the runtime was closed, and
\* every C function refuses a null handle.
EnterNative(t) ==
    LET r == RuntimeOf(t) IN
    /\ At(t, "checked")
    /\ runtimes[r].holder = None
    /\ runtimes' = [runtimes EXCEPT ![r].holder = t]
    /\ threads' = [threads EXCEPT
                     ![t].at = "native",
                     ![t].handle = IF runtimes[r].handle = "open" THEN r ELSE None]
    /\ UNCHANGED <<entries, storeLibraries, leases, manager>>

\* Mutant: a call asks for the manager's lock while it holds the runtime's.
LeaveAfterManager(t) ==
    /\ At(t, "native") /\ manager = None
    /\ runtimes' = [runtimes EXCEPT ![RuntimeOf(t)].holder = None]
    /\ Rest(t)
    /\ UNCHANGED <<entries, storeLibraries, leases, manager>>

LeaveNative(t) ==
    /\ At(t, "native")
    /\ runtimes' = [runtimes EXCEPT ![RuntimeOf(t)].holder = None]
    /\ Rest(t)
    /\ UNCHANGED <<entries, storeLibraries, leases, manager>>

-----------------------------------------------------------------------------
(* release() and the manager's _release().                                 *)

BeginRelease(t, l) ==
    /\ At(t, "idle")
    /\ SharedRelease \/ leases[l].owner = t
    /\ leases[l].status = "held"
    /\ threads' = [threads EXCEPT ![t] = [Idle EXCEPT !.at = "tested", !.lease = l]]
    /\ UNCHANGED <<entries, storeLibraries, runtimes, leases, manager>>

MarkReleased(t) ==
    /\ At(t, "tested")
    /\ leases' = [leases EXCEPT ![threads[t].lease].status = "released"]
    /\ Goto(t, "marked")
    /\ UNCHANGED <<entries, storeLibraries, runtimes, manager>>

\* An unknown key returns, a shared entry is decremented, and the last
\* reference keeps the manager's lock for the close.
DropReference(t) ==
    LET key == leases[threads[t].lease].key IN
    /\ At(t, "marked")
    /\ manager = None
    /\ \/ /\ key \notin DOMAIN entries
          /\ Rest(t)
          /\ UNCHANGED <<entries, manager>>
       \/ /\ key \in DOMAIN entries
          /\ entries[key].refs > 1
          /\ entries' = [entries EXCEPT ![key].refs = @ - 1]
          /\ Rest(t)
          /\ UNCHANGED manager
       \/ /\ key \in DOMAIN entries
          /\ entries[key].refs <= 1
          /\ manager' = t
          /\ Goto(t, "closing")
          /\ UNCHANGED entries
    /\ UNCHANGED <<storeLibraries, runtimes, leases>>

\* Mutant: the close does not take the runtime's lock.
MayCloseInUse(r) == runtimes[r].handle = "open"

\* The close waits for the call that holds the runtime's lock.
MayClose(r) == runtimes[r].holder = None

CloseRuntime(t) ==
    LET key == leases[threads[t].lease].key
        r == entries[key].runtime
    IN
    /\ At(t, "closing")
    /\ MayClose(r)
    /\ runtimes' = [runtimes EXCEPT ![r].handle = "closed"]
    /\ entries' = [k \in DOMAIN entries \ {key} |-> entries[k]]
    /\ storeLibraries' = [s \in DOMAIN storeLibraries \ {key[2]} |->
                            storeLibraries[s]]
    /\ manager' = None
    /\ Rest(t)
    /\ UNCHANGED leases

-----------------------------------------------------------------------------
\* Steps a thread takes by itself once it began a call or a release.
Progress(t) ==
    \/ CheckRuntime(t) \/ EnterNative(t) \/ LeaveNative(t)
    \/ MarkReleased(t) \/ DropReference(t) \/ CloseRuntime(t)

LeaseNext ==
    \E t \in Threads :
        \/ \E l \in LeaseIds, key \in Keys : Acquire(t, l, key)
        \/ \E l \in LeaseIds : BeginCall(t, l) \/ BeginRelease(t, l)
        \/ Progress(t)

LeaseFairness == \A t \in Threads : WF_leaseVars(Progress(t))
LeaseSpec == LeaseInit /\ [][LeaseNext]_leaseVars
FairLeaseSpec == LeaseSpec /\ LeaseFairness

-----------------------------------------------------------------------------
LeaseTypeOK ==
    /\ DOMAIN entries \subseteq Keys
    /\ \A k \in DOMAIN entries : entries[k] \in [runtime : RuntimeIds, refs : Nat]
    /\ DOMAIN storeLibraries \subseteq Stores
    /\ \A s \in DOMAIN storeLibraries : storeLibraries[s] \in Libraries
    /\ runtimes \in [RuntimeIds ->
         [handle : {"unopened", "open", "closed"}, key : Keys \cup {None},
          holder : Threads \cup {None}]]
    /\ leases \in [LeaseIds ->
         [status : {"unissued", "held", "released"}, owner : Threads \cup {None},
          key : Keys \cup {None}, runtime : RuntimeIds \cup {None}]]
    /\ manager \in Threads \cup {None}
    /\ threads \in [Threads ->
         [at : {"idle", "leased", "checked", "native", "tested", "marked", "closing"},
          lease : LeaseIds \cup {None}, handle : RuntimeIds \cup {None}]]

\* Threads whose release of lease l has not reached the manager's count.
Releasing(l) == {t \in Threads : threads[t].lease = l
                                 /\ threads[t].at \in {"marked", "closing"}}

\* The references that the manager should count for a key.
Counted(k) == {l \in LeaseIds : leases[l].key = k
                 /\ (leases[l].status = "held" \/ Releasing(l) # {})}

\* A lease that nobody released is backed by an open runtime, the one its
\* key's entry names, and the entry counts every such lease: the lock-free
\* test in release() never closes a runtime that somebody still leases.
LeaseBacked ==
    /\ \A l \in LeaseIds : leases[l].status = "held" =>
         /\ leases[l].key \in DOMAIN entries
         /\ entries[leases[l].key].runtime = leases[l].runtime
         /\ runtimes[leases[l].runtime].handle = "open"
    /\ \A k \in DOMAIN entries : entries[k].refs = Cardinality(Counted(k))

\* The C library is never inside a call on a handle that was closed, and no
\* store is open twice, whatever libraries are asked for it: acquire() tests
\* the store under the lock that the close still holds.
HandlesSafe ==
    /\ \A t \in Threads : At(t, "native") /\ threads[t].handle # None =>
         runtimes[threads[t].handle].handle = "open"
    /\ \A r, q \in RuntimeIds :
         runtimes[r].handle = "open" /\ runtimes[q].handle = "open"
           /\ runtimes[r].key[2] = runtimes[q].key[2] => r = q

\* What the manager promises the services that share it: see each part.
LeasesSafe == LeaseTypeOK /\ LeaseBacked /\ HandlesSafe

\* A release that began ends, although the manager's lock is held while the
\* runtime's is waited for: calls take the two locks in no other order.
ReleaseEnds == \A t \in Threads : At(t, "tested") ~> At(t, "idle")
=============================================================================
