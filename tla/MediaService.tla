---------------------------- MODULE MediaService ----------------------------
(* Leases, quota and cleanup of the media service                            *)
(* (crates/kinema-desktop/src/media/mod.rs, with create, failed_asset,       *)
(* discard, cleanup and open of media/storage.rs and the lease lookup of     *)
(* media/server.rs).                                                         *)
(*                                                                           *)
(* An Arc<Asset> is an arc of this module. It is shared by the asset map,    *)
(* the sessions, the acquisition thread and the HTTP readers, and cleanup    *)
(* decides from its strong count alone what may be deleted.                  *)
EXTENDS Integers, FiniteSets

CONSTANTS
    Keys,           \* storage keys: one per upstream identity
    Size,           \* known size of each key's file
    Limits,         \* cache budgets the user may choose
    Tokens,         \* capability tokens; their number is MAX_SESSIONS
    Readers,        \* HTTP body readers
    Arcs,           \* identities of asset allocations, reused when free
    MaxAssets,      \* 8 in the code: running acquisitions
    MaxCrashes,     \* bound: crashes of the process
    None

ASSUME SizeAssumption == Size \in [Keys -> Nat \ {0}] /\ Limits \subseteq Nat
ASSUME NoneAssumption ==
    None \notin Keys \cup Arcs \cup Tokens /\ Arcs \cap {"free", "local"} = {}
ASSUME FiniteAssumption ==
    IsFiniteSet(Keys) /\ IsFiniteSet(Arcs) /\ MaxAssets \in Nat /\ MaxCrashes \in Nat
\* An allocation is never refused for want of an identity.
ASSUME ArcsAssumption == \E f \in [Keys -> Arcs] : \A j, k \in Keys : f[j] = f[k] => j = k

VARIABLES
    disk,       \* which directories of a key exist: staged, final, tombstone
    done,       \* keys whose payload is complete and checkpointed
    limit,      \* State.limit, and the budget kept in the settings
    map,        \* State.assets: the arc of each key, or None
    arc,        \* the fields of each allocation
    session,    \* State.sessions: the source of each lease
    owner,      \* the acquisition thread of each arc
    reader,     \* the lease clone each HTTP reader holds
    sweep,      \* keys cleanup_unused has still to discard, while it holds the lock
    canceled,   \* Shared.canceled: the service was dropped
    crashes

vars == <<disk, done, limit, map, arc, session, owner, reader, sweep, canceled, crashes>>

-----------------------------------------------------------------------------
NoArc == [key |-> None, dir |-> "final", running |-> FALSE, cancel |-> TRUE, error |-> FALSE]
NoReader == [arc |-> None, token |-> None, active |-> FALSE]

Mapped == {k \in Keys : map[k] # None}

\* Every byte that the assets of m may come to occupy; the code adds the sizes.
Bytes(m) == UNION {{k} \X (1 .. Size[k]) : k \in {j \in Keys : m[j] # None}}
Reserved(m) == Cardinality(Bytes(m))

Leases(i) == {t \in Tokens : session[t] = i}
Streams(i) == {r \in Readers : reader[r].arc = i}

\* Mutant: the running flag stands for the thread.
UnpinnedByFlag(i) == Leases(i) = {} /\ Streams(i) = {} /\ ~arc[i].running

\* Arc::strong_count(asset) == 1: only the asset map holds it.
Unpinned(i) == Leases(i) = {} /\ Streams(i) = {} /\ owner[i] = "none"

Referenced(i) == ~Unpinned(i) \/ \E k \in Keys : map[k] = i
FreshArc == CHOOSE i \in Arcs : ~Referenced(i)

Running == {k \in Mapped : arc[map[k]].running}

LockFree == sweep = {}
Serving == ~canceled /\ LockFree

Init ==
    /\ disk = [k \in Keys |-> {}] /\ done = {} /\ limit \in Limits
    /\ map = [k \in Keys |-> None] /\ arc = [i \in Arcs |-> NoArc]
    /\ session = [t \in Tokens |-> "free"]
    /\ owner = [i \in Arcs |-> "none"]
    /\ reader = [r \in Readers |-> NoReader]
    /\ sweep = {} /\ canceled = FALSE /\ crashes = 0

-----------------------------------------------------------------------------
(* Storage: what each operation may leave on disk when one of its steps fails *)

\* storage::create of a new key: nothing, a surviving staging directory, a
\* published directory whose parent sync failed, or success.
Created(d) ==
    {[disk |-> d, ok |-> FALSE], [disk |-> d \cup {"staged"}, ok |-> FALSE],
     [disk |-> d \cup {"final"}, ok |-> FALSE], [disk |-> d \cup {"final"}, ok |-> TRUE]}

\* remove_owned of the tombstone: it must exist; its files may resist, and the
\* parent sync may fail after the directory is gone.
Removed(d) ==
    {[disk |-> d, ok |-> FALSE]}
    \cup (IF "tombstone" \in d
          THEN {[disk |-> d \ {"tombstone"}, ok |-> b] : b \in BOOLEAN} ELSE {})

\* Mutant: what the rename hides counts as deleted.
DiscardedByRename(d, dir) ==
    IF dir \in d /\ "tombstone" \notin d
    THEN {[disk |-> (d \ {dir}) \cup {"tombstone"}, ok |-> TRUE]} ELSE Removed(d)

\* storage::discard: rename to the tombstone unless the directory is already
\* gone, sync the root, remove the tombstone.
Discarded(d, dir) ==
    IF dir \notin d THEN Removed(d)
    ELSE {[disk |-> d, ok |-> FALSE]}
         \cup (IF "tombstone" \in d THEN {}
               ELSE Removed((d \ {dir}) \cup {"tombstone"}))

-----------------------------------------------------------------------------
(* register_remote and register_local                                        *)

Registers(t) == Serving /\ session[t] = "free"

Admits(extra) == Reserved(map) + extra <= limit

\* What a new asset must pass before anything is created for it.
Creatable(k) ==
    /\ map[k] = None /\ Cardinality(Running) < MaxAssets
    /\ Size[k] <= limit /\ Admits(Size[k])

\* Mutant: the thread is left to raise the running flag.
StartedLate(i) ==
    /\ arc' = [arc EXCEPT ![i].cancel = FALSE, ![i].error = FALSE]
    /\ owner' = [owner EXCEPT ![i] = "work"]

\* The running owner of an asset: a thread of its own, holding the arc.
Started(i) ==
    /\ arc' = [arc EXCEPT ![i].running = TRUE, ![i].cancel = FALSE, ![i].error = FALSE]
    /\ owner' = [owner EXCEPT ![i] = "work"]

\* Known asset: its directory must be the published one.
Usable(k) ==
    /\ map[k] # None /\ arc[map[k]].dir = "final" /\ "final" \in disk[k]
    /\ Admits(0)

\* Another lease is active on the asset: share it, whatever its owner came to.
RegisterShared(t, k) ==
    /\ Registers(t) /\ Usable(k) /\ Leases(map[k]) # {}
    /\ session' = [session EXCEPT ![t] = map[k]]
    /\ UNCHANGED <<disk, done, limit, map, arc, owner, reader, sweep, canceled, crashes>>

\* No lease and no running owner: acquisition starts again from the checkpoint,
\* or its thread cannot be spawned.
RegisterIdle(t, k) ==
    /\ Registers(t) /\ Usable(k) /\ Leases(map[k]) = {}
    /\ ~arc[map[k]].running /\ Cardinality(Running) < MaxAssets
    /\ \/ Started(map[k]) /\ session' = [session EXCEPT ![t] = map[k]]
       \/ /\ arc' = [arc EXCEPT ![map[k]].cancel = FALSE, ![map[k]].error = FALSE]
          /\ UNCHANGED <<session, owner>>
    /\ UNCHANGED <<disk, done, limit, map, reader, sweep, canceled, crashes>>

NewAsset(k, dir, cancel, error) ==
    [key |-> k, dir |-> dir, running |-> FALSE, cancel |-> cancel, error |-> error]

\* New asset: admitted at its full size, created on disk, then started. A failed
\* creation stays reserved if any of its directories survived; a failed spawn
\* takes the creation back unless that fails too.
RegisterNew(t, k) ==
    /\ Registers(t) /\ Creatable(k)
    /\ \E i \in {FreshArc}, made \in Created(disk[k]) :
        \/ /\ ~made.ok
           /\ disk' = [disk EXCEPT ![k] = made.disk]
           /\ IF made.disk = {} THEN UNCHANGED <<map, arc>>
              ELSE /\ map' = [map EXCEPT ![k] = i]
                   /\ arc' = [arc EXCEPT ![i] = NewAsset(k,
                               IF "final" \in made.disk THEN "final" ELSE "staged", TRUE, TRUE)]
           /\ UNCHANGED <<session, owner>>
        \/ /\ made.ok
           /\ disk' = [disk EXCEPT ![k] = made.disk]
           /\ map' = [map EXCEPT ![k] = i]
           /\ arc' = [arc EXCEPT ![i] =
                        [NewAsset(k, "final", FALSE, FALSE) EXCEPT !.running = TRUE]]
           /\ owner' = [owner EXCEPT ![i] = "work"]
           /\ session' = [session EXCEPT ![t] = i]
        \/ /\ made.ok
           /\ \E gone \in Discarded(made.disk, "final") :
                /\ disk' = [disk EXCEPT ![k] = gone.disk]
                /\ IF gone.ok THEN UNCHANGED <<map, arc>>
                   ELSE /\ map' = [map EXCEPT ![k] = i]
                        /\ arc' = [arc EXCEPT ![i] = NewAsset(k, "final", FALSE, FALSE)]
           /\ UNCHANGED <<session, owner>>
    /\ UNCHANGED <<done, limit, reader, sweep, canceled, crashes>>

RegisterLocal(t) ==
    /\ Registers(t)
    /\ session' = [session EXCEPT ![t] = "local"]
    /\ UNCHANGED <<disk, done, limit, map, arc, owner, reader, sweep, canceled, crashes>>

\* Mutant: the count is taken after the removal.
LastLeaseNever(t) == session[t] \in Arcs /\ Leases(session[t]) = {}

\* No other token leases the asset.
LastLease(t) == session[t] \in Arcs /\ Leases(session[t]) = {t}

\* Idempotent; only the last lease on an asset cancels its owner.
Release(t) ==
    /\ Serving /\ session[t] # "free"
    /\ session' = [session EXCEPT ![t] = "free"]
    /\ reader' = [r \in Readers |->
                    [reader[r] EXCEPT !.active = @ /\ reader[r].token # t]]
    /\ arc' = IF LastLease(t)
              THEN [arc EXCEPT ![session[t]].cancel = TRUE] ELSE arc
    /\ UNCHANGED <<disk, done, limit, map, owner, sweep, canceled, crashes>>

\* Lowering the limit below what is reserved is refused.
SetLimit(l) ==
    /\ Serving /\ Reserved(map) <= l
    /\ limit' = l
    /\ UNCHANGED <<disk, done, map, arc, session, owner, reader, sweep, canceled, crashes>>

-----------------------------------------------------------------------------
(* The acquisition thread (MediaAcquire seen from the service)               *)

stopped(i) == arc[i].cancel \/ canceled

\* The result is in: complete, or an error, Canceled when it was told to stop.
OwnerEnds(i) ==
    /\ owner[i] = "work"
    /\ owner' = [owner EXCEPT ![i] = "ended"]
    /\ \/ done' = done \cup {arc[i].key} /\ UNCHANGED arc
       \/ arc' = [arc EXCEPT ![i].error = TRUE] /\ UNCHANGED done
    /\ UNCHANGED <<disk, limit, map, session, reader, sweep, canceled, crashes>>

\* running.store(false): a new owner may start while this thread still holds
\* its arc.
OwnerYields(i) ==
    /\ owner[i] = "ended"
    /\ arc' = [arc EXCEPT ![i].running = FALSE]
    /\ owner' = [owner EXCEPT ![i] = "exit"]
    /\ UNCHANGED <<disk, done, limit, map, session, reader, sweep, canceled, crashes>>

OwnerDrops(i) ==
    /\ owner[i] = "exit"
    /\ owner' = [owner EXCEPT ![i] = "none"]
    /\ UNCHANGED <<disk, done, limit, map, arc, session, reader, sweep, canceled, crashes>>

-----------------------------------------------------------------------------
(* HTTP readers                                                              *)

\* The lookup clones the lease, and with it the arc, under the state lock.
ReaderLooksUp(r, t) ==
    /\ Serving /\ session[t] \in Arcs /\ reader[r] = NoReader
    /\ reader' = [reader EXCEPT ![r] = [arc |-> session[t], token |-> t, active |-> TRUE]]
    /\ UNCHANGED <<disk, done, limit, map, arc, session, owner, sweep, canceled, crashes>>

\* The body ends, fails, or meets an inactive lease or a stopped service.
ReaderEnds(r) ==
    /\ reader[r] # NoReader
    /\ reader' = [reader EXCEPT ![r] = NoReader]
    /\ UNCHANGED <<disk, done, limit, map, arc, session, owner, sweep, canceled, crashes>>

-----------------------------------------------------------------------------
(* cleanup_unused: the keys are chosen once, then discarded one after the    *)
(* other under the same lock; the first failure ends the sweep.              *)

SweepStarts ==
    /\ Serving
    /\ sweep' = {k \in Mapped : Unpinned(map[k])} /\ sweep' # {}
    /\ UNCHANGED <<disk, done, limit, map, arc, session, owner, reader, canceled, crashes>>

Discards(k) ==
    /\ k \in sweep
    /\ \E gone \in Discarded(disk[k], arc[map[k]].dir) :
         /\ disk' = [disk EXCEPT ![k] = gone.disk]
         /\ done' = IF "final" \in gone.disk THEN done ELSE done \ {k}
         /\ IF gone.ok
            THEN /\ sweep' = sweep \ {k} /\ map' = [map EXCEPT ![k] = None]
                 /\ arc' = [arc EXCEPT ![map[k]] = NoArc]
            ELSE sweep' = {} /\ UNCHANGED <<map, arc>>
    /\ UNCHANGED <<limit, session, owner, reader, canceled, crashes>>

-----------------------------------------------------------------------------
(* Shutdown, crash and the next start                                        *)

Drop ==
    /\ Serving
    /\ canceled' = TRUE
    /\ UNCHANGED <<disk, done, limit, map, arc, session, owner, reader, sweep, crashes>>

\* storage::open on what a run left: staging and tombstones go, every published
\* directory becomes an idle asset.
Recovered(d) ==
    LET at == CHOOSE f \in [Keys -> Arcs] : \A j, k \in Keys : f[j] = f[k] => j = k
    IN  /\ disk' = [k \in Keys |-> d[k] \cap {"final"}]
        /\ map' = [k \in Keys |-> IF "final" \in d[k] THEN at[k] ELSE None]
        /\ arc' = [i \in Arcs |->
                    IF \E k \in Keys : map'[k] = i
                    THEN NewAsset(CHOOSE k \in Keys : map'[k] = i, "final", TRUE, FALSE)
                    ELSE NoArc]
        /\ done' = {k \in done : "final" \in d[k]}
        /\ session' = [t \in Tokens |-> "free"]
        /\ owner' = [i \in Arcs |-> "none"]
        /\ reader' = [r \in Readers |-> NoReader]
        /\ sweep' = {} /\ canceled' = FALSE
        /\ UNCHANGED limit

\* The root lock is free once every thread of the dropped service is gone.
Restart ==
    /\ canceled
    /\ \A i \in Arcs : owner[i] = "none"
    /\ \A r \in Readers : reader[r] = NoReader
    /\ Recovered(disk)
    /\ UNCHANGED crashes

\* The process dies, possibly inside the creation or the removal of one key.
Crash ==
    /\ crashes < MaxCrashes
    /\ crashes' = crashes + 1
    /\ \/ Recovered(disk)
       \/ \E k \in Keys :
            \E left \in (IF k \in sweep THEN Discarded(disk[k], arc[map[k]].dir) ELSE {})
                       \cup (IF Serving /\ Creatable(k) THEN Created(disk[k]) ELSE {}) :
               Recovered([disk EXCEPT ![k] = left.disk])

-----------------------------------------------------------------------------
Owning(i) == OwnerEnds(i) \/ OwnerYields(i) \/ OwnerDrops(i)

Next ==
    \/ \E t \in Tokens :
         \/ \E k \in Keys : RegisterShared(t, k) \/ RegisterIdle(t, k) \/ RegisterNew(t, k)
         \/ RegisterLocal(t) \/ Release(t)
         \/ \E r \in Readers : ReaderLooksUp(r, t)
    \/ \E l \in Limits : SetLimit(l)
    \/ \E i \in Arcs : Owning(i)
    \/ \E r \in Readers : ReaderEnds(r)
    \/ SweepStarts \/ \E k \in Keys : Discards(k)
    \/ Drop \/ Restart \/ Crash

Spec == Init /\ [][Next]_vars

\* An owner told to stop ends (MediaAcquire!ReleaseStopsOwner), a reader whose
\* lease is gone notices at its next segment, and file operations return.
Fairness ==
    /\ \A i \in Arcs :
         /\ WF_vars(stopped(i) /\ OwnerEnds(i))
         /\ WF_vars(OwnerYields(i) \/ OwnerDrops(i))
    /\ \A r \in Readers : WF_vars((~reader[r].active \/ canceled) /\ ReaderEnds(r))
    /\ WF_vars(\E k \in Keys : Discards(k))

FairSpec == Spec /\ Fairness

-----------------------------------------------------------------------------
(* Properties                                                                *)

Asset == [key : Keys \cup {None}, dir : {"staged", "final"}, running : BOOLEAN,
          cancel : BOOLEAN, error : BOOLEAN]
Clone == [arc : Arcs \cup {None}, token : Tokens \cup {None}, active : BOOLEAN]

\* Every variable ranges over the values its Rust counterpart can hold.
TypeOK ==
    /\ disk \in [Keys -> SUBSET {"staged", "final", "tombstone"}]
    /\ done \in SUBSET Keys /\ limit \in Limits
    /\ map \in [Keys -> Arcs \cup {None}]
    /\ arc \in [Arcs -> Asset]
    /\ session \in [Tokens -> Arcs \cup {"free", "local"}]
    /\ owner \in [Arcs -> {"none", "work", "ended", "exit"}]
    /\ reader \in [Readers -> Clone]
    /\ sweep \in SUBSET Keys /\ canceled \in BOOLEAN /\ crashes \in Nat

\* Assets reserve their full size against the budget, whatever mix of failed
\* creations, failed deletions and lowered limits came before.
QuotaHolds == Reserved(map) <= limit

\* Space still on disk counts as used: no failure path forgets a directory that
\* survived it, so a restart always fits the budget it ran with.
ArtifactsReserved == \A k \in Keys : disk[k] # {} => map[k] # None

\* A lease, an HTTP reader or an acquisition thread refers to the asset.
Held(i) == \/ \E t \in Tokens : session[t] = i
           \/ \E r \in Readers : reader[r].arc = i
           \/ owner[i] # "none"

\* Whoever holds an asset - a lease, an acquisition, a reader - holds the one in
\* the map, published on disk: cleanup never deletes under an owner, and no
\* second allocation of the same key ever has an owner of its own.
HoldersAreCurrent ==
    \A i \in Arcs : Held(i) =>
        \E k \in Keys : map[k] = i /\ "final" \in disk[k]

\* Acquisition is cancelled only when the last lease on an asset is released.
LeasedNotCancelled ==
    \A t \in Tokens : session[t] \in Arcs => ~arc[session[t]].cancel

\* A lease always has its bytes, an owner fetching them, or an error to show.
LeaseNeverStalls ==
    \A t \in Tokens : session[t] \in Arcs =>
        LET i == session[t] IN arc[i].key \in done \/ arc[i].running \/ arc[i].error

\* What the budget counts: never more than the limit, and all that is on disk.
SpaceAccounted == TypeOK /\ QuotaHolds /\ ArtifactsReserved

\* A lease keeps its acquisition going until the lease itself is released.
LeasesServed == LeasedNotCancelled /\ LeaseNeverStalls

\* An asset nobody leases any more becomes free for cleanup, unless it is leased
\* again first.
ReleasedBecomesFree ==
    \A i \in Arcs : (Leases(i) = {} /\ ~Unpinned(i)) ~> (Unpinned(i) \/ Leases(i) # {})
=============================================================================
