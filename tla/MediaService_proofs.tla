------------------------ MODULE MediaService_proofs ------------------------
(* For every number of keys, leases, readers, crashes and every budget: the   *)
(* budget counts what is on disk, cleanup never deletes under a holder, and   *)
(* a lease keeps its acquisition. Then, for every list of insertions and every *)
(* width of the numbers: the intervals of an asset are the set of its bytes,  *)
(* and a Range header resolves to the bytes it names.                         *)
EXTENDS MediaService, RangeSet, FiniteSetTheorems, SequenceTheorems,
        WellFoundedInduction, TLAPS

-----------------------------------------------------------------------------
(* The invariant                                                             *)

\* Two keys never share an allocation.
SingleHome == \A j, k \in Mapped : map[j] = map[k] => j = k

\* The asset of a key is about that key, and names the one directory of it that
\* is not on its way out.
AssetsKeyed ==
    \A k \in Mapped : arc[map[k]].key = k /\ disk[k] \subseteq {arc[map[k]].dir, "tombstone"}

\* An acquisition raises the running flag for all of its life, and leaves a
\* result before it lowers it.
OwnersRun ==
    \A i \in Arcs :
        /\ owner[i] \in {"work", "ended"} => arc[i].running
        /\ owner[i] = "ended" => arc[i].key \in done \/ arc[i].error

\* What cleanup chose stays free while it holds the lock.
SweptUnpinned == \A k \in sweep : map[k] # None /\ Unpinned(map[k])

Homes == SingleHome /\ AssetsKeyed

ServiceInv ==
    /\ TypeOK /\ QuotaHolds /\ ArtifactsReserved
    /\ Homes /\ HoldersAreCurrent
    /\ OwnersRun /\ SweptUnpinned /\ LeasesServed

-----------------------------------------------------------------------------
(* The budget                                                                *)

\* The bytes of finitely many files are finitely many.
LEMMA BytesFinite ==
    ASSUME NEW m PROVE IsFiniteSet(Bytes(m)) /\ Reserved(m) \in Nat
<1> DEFINE K == {j \in Keys : m[j] # None}
<1> DEFINE F(k) == {k} \X (1 .. Size[k])
<1> DEFINE P == {F(k) : k \in K}
<1> DEFINE g == [k \in K |-> F(k)]
<1>1. IsFiniteSet(K)
  BY FiniteAssumption, FS_Subset
<1>2. g \in Surjection(K, P)
  <2> HIDE DEF F, K
  <2> QED  BY DEF Surjection
<1>3. IsFiniteSet(P)
  <2> HIDE DEF g, P, K
  <2> QED  BY <1>1, <1>2, FS_Surjection
<1>4. \A T \in P : IsFiniteSet(T)
  <2>1. SUFFICES ASSUME NEW k \in Keys PROVE IsFiniteSet(F(k))
    OBVIOUS
  <2>2. Size[k] \in Int
    BY SizeAssumption
  <2>3. IsFiniteSet({k})
    BY FS_Singleton
  <2>4. IsFiniteSet(1 .. Size[k])
    BY <2>2, FS_Interval
  <2> QED  BY <2>3, <2>4, FS_Product
<1>5. IsFiniteSet(UNION P)
  <2> HIDE DEF P
  <2> QED  BY <1>3, <1>4, FS_UNION
<1>6. IsFiniteSet(Bytes(m))
  BY <1>5 DEF Bytes
<1> QED  BY <1>6, FS_CardinalityType DEF Reserved

\* Who keeps no asset that another does not keep reserves no more.
LEMMA ReservedMonotone ==
    ASSUME NEW m, NEW n, \A k \in Keys : m[k] # None => n[k] # None
    PROVE  Reserved(m) <= Reserved(n)
<1>1. Bytes(m) \subseteq Bytes(n)
  BY DEF Bytes
<1> QED  BY <1>1, BytesFinite, FS_Subset DEF Reserved

\* One more asset reserves its size.
LEMMA ReservedOneMore ==
    ASSUME NEW m, NEW n, NEW k \in Keys,
           \A j \in Keys : n[j] # None => m[j] # None \/ j = k
    PROVE  Reserved(n) <= Reserved(m) + Size[k]
<1> DEFINE B == {k} \X (1 .. Size[k])
<1>1. Size[k] \in Int /\ Size[k] > 0
  BY SizeAssumption
<1>2. /\ IsFiniteSet({k}) /\ Cardinality({k}) = 1
      /\ IsFiniteSet(1 .. Size[k]) /\ Cardinality(1 .. Size[k]) = Size[k]
  <2>1. IsFiniteSet({k}) /\ Cardinality({k}) = 1
    BY FS_Singleton
  <2>2. IsFiniteSet(1 .. Size[k]) /\ Cardinality(1 .. Size[k]) = Size[k]
    <3>1. /\ IsFiniteSet(1 .. Size[k])
          /\ Cardinality(1 .. Size[k]) = IF 1 > Size[k] THEN 0 ELSE Size[k] - 1 + 1
      BY <1>1, FS_Interval
    <3> QED  BY <1>1, <3>1
  <2> QED  BY <2>1, <2>2
<1>3. IsFiniteSet(B) /\ Cardinality(B) = Size[k]
  <2>1. IsFiniteSet(B) /\ Cardinality(B) = Cardinality({k}) * Cardinality(1 .. Size[k])
    BY <1>2, FS_Product
  <2> QED  BY <1>1, <1>2, <2>1
<1>4. Bytes(n) \subseteq Bytes(m) \cup B
  BY DEF Bytes
<1> HIDE DEF B
<1>5. /\ IsFiniteSet(Bytes(m) \cup B)
      /\ Cardinality(Bytes(m) \cup B)
           = Cardinality(Bytes(m)) + Cardinality(B) - Cardinality(Bytes(m) \cap B)
  BY <1>3, BytesFinite, FS_Union
<1>6. Cardinality(Bytes(m) \cap B) \in Nat
  BY BytesFinite, FS_Intersection, FS_CardinalityType
<1>7. Cardinality(Bytes(n)) <= Cardinality(Bytes(m) \cup B)
  BY <1>4, <1>5, FS_Subset
<1>8. Cardinality(Bytes(n)) \in Nat /\ Cardinality(Bytes(m)) \in Nat
  BY BytesFinite DEF Reserved
<1> QED  BY <1>1, <1>3, <1>5, <1>6, <1>7, <1>8 DEF Reserved

\* Nothing reserves nothing.
LEMMA ReservedNone ==
    Reserved([k \in Keys |-> None]) = 0
<1>1. Bytes([k \in Keys |-> None]) = {}
  BY DEF Bytes
<1> QED  BY <1>1, FS_EmptySet DEF Reserved

-----------------------------------------------------------------------------
(* Identities                                                                *)

\* While some key has no asset, an allocation is free.
LEMMA FreshArcFree ==
    ASSUME ServiceInv, NEW k \in Keys, map[k] = None
    PROVE  FreshArc \in Arcs /\ ~Referenced(FreshArc)
<1>1. PICK f \in [Keys -> Arcs] : \A i, j \in Keys : f[i] = f[j] => i = j
  BY ArcsAssumption
<1>2. SUFFICES ASSUME \A i \in Arcs : Referenced(i) PROVE FALSE
  BY DEF FreshArc
<1>3. \A i \in Arcs : \E j \in Keys : map[j] = i
  BY <1>2 DEF Referenced, Unpinned, ServiceInv, HoldersAreCurrent, Held, Leases, Streams
<1>4. f \in Injection(Keys, Arcs)
  BY <1>1 DEF Injection, IsInjective
<1>5. Cardinality(Keys) <= Cardinality(Arcs)
  BY <1>4, FiniteAssumption, FS_Injection
<1> DEFINE g == [j \in Mapped |-> map[j]]
<1>6. g \in Surjection(Mapped, Arcs)
  <2>1. g \in [Mapped -> Arcs]
    BY NoneAssumption DEF ServiceInv, TypeOK, Mapped
  <2>2. \A i \in Arcs : \E j \in Mapped : g[j] = i
    BY <1>3, NoneAssumption DEF Mapped
  <2> HIDE DEF g
  <2> QED  BY <2>1, <2>2 DEF Surjection
<1>7. IsFiniteSet(Mapped) /\ Cardinality(Mapped) <= Cardinality(Keys)
      /\ (Cardinality(Keys) = Cardinality(Mapped) => Keys = Mapped)
  BY FiniteAssumption, FS_Subset DEF Mapped
<1>8. Cardinality(Arcs) <= Cardinality(Mapped)
  <2> HIDE DEF g
  <2> QED  BY <1>6, <1>7, FS_Surjection
<1>9. Cardinality(Arcs) \in Nat /\ Cardinality(Mapped) \in Nat /\ Cardinality(Keys) \in Nat
  BY <1>7, FiniteAssumption, FS_CardinalityType
<1>10. Keys = Mapped
  BY <1>5, <1>7, <1>8, <1>9
<1> QED  BY <1>10 DEF Mapped

-----------------------------------------------------------------------------
(* Every step keeps the invariant                                            *)

LEMMA InitServiceInv == Init => ServiceInv
<1> SUFFICES ASSUME Init PROVE ServiceInv
  OBVIOUS
<1>1. TypeOK
  BY NoneAssumption DEF Init, TypeOK, NoArc, NoReader, Asset, Clone
<1>2. QuotaHolds
  BY <1>1, ReservedNone, SizeAssumption DEF Init, QuotaHolds, TypeOK
<1>3. ArtifactsReserved /\ SweptUnpinned
  BY DEF Init, ArtifactsReserved, SweptUnpinned
<1>4. Homes
  BY DEF Init, Homes, SingleHome, AssetsKeyed, Mapped
<1>5. HoldersAreCurrent /\ OwnersRun /\ LeasesServed
  BY NoneAssumption DEF Init, HoldersAreCurrent, Held, OwnersRun, LeasesServed,
     LeasedNotCancelled, LeaseNeverStalls, NoReader
<1> QED  BY <1>1, <1>2, <1>3, <1>4, <1>5 DEF ServiceInv

LEMMA AssetRestarted ==
    ASSUME NEW a \in Asset
    PROVE  /\ [a EXCEPT !.running = TRUE, !.cancel = FALSE, !.error = FALSE] \in Asset
           /\ [a EXCEPT !.cancel = FALSE, !.error = FALSE] \in Asset
BY DEF Asset

\* Steps that leave the assets' places alone leave the budget and the disk so.
LEMMA SameStorage ==
    ASSUME ServiceInv, map' = map, disk' = disk, limit' = limit,
           \A i \in Arcs : arc'[i].key = arc[i].key /\ arc'[i].dir = arc[i].dir
    PROVE  QuotaHolds' /\ ArtifactsReserved' /\ Homes'
<1>1. \A k \in Mapped : map[k] \in Arcs
  BY DEF ServiceInv, TypeOK, Mapped
<1>2. QuotaHolds' /\ ArtifactsReserved'
  BY DEF ServiceInv, QuotaHolds, ArtifactsReserved, Reserved, Bytes
<1>3. Homes'
  BY <1>1 DEF ServiceInv, Homes, SingleHome, AssetsKeyed, Mapped
<1> QED  BY <1>2, <1>3

\* New holders hold what is in the map and on disk.
LEMMA HoldersStay ==
    ASSUME ServiceInv, map' = map, disk' = disk,
           \A i \in Arcs : Held(i)' => Held(i) \/ \E k \in Keys : Usable(k) /\ map[k] = i
    PROVE  HoldersAreCurrent'
BY DEF ServiceInv, HoldersAreCurrent, Usable

\* A lease more on an asset of the map.
LEMMA SharedKeeps ==
    ASSUME ServiceInv, NEW t \in Tokens, NEW k \in Keys, RegisterShared(t, k)
    PROVE  ServiceInv'
<1> USE DEF RegisterShared
<1>1. map[k] \in Arcs /\ Usable(k) /\ Leases(map[k]) # {}
  BY DEF ServiceInv, TypeOK, Usable
<1>2. TypeOK' /\ OwnersRun'
  BY <1>1 DEF ServiceInv, TypeOK, OwnersRun
<1>3. QuotaHolds' /\ ArtifactsReserved' /\ Homes'
  BY SameStorage
<1>4. HoldersAreCurrent'
  <2>1. \A i \in Arcs : Held(i)' => Held(i) \/ i = map[k]
    BY DEF Held, ServiceInv, TypeOK
  <2> QED  BY <1>1, <2>1, HoldersStay
<1>5. SweptUnpinned'
  BY DEF SweptUnpinned, Registers, Serving, LockFree
<1>6. LeasesServed'
  BY <1>1 DEF ServiceInv, TypeOK, LeasesServed, LeasedNotCancelled, LeaseNeverStalls, Leases
<1> QED  BY <1>2, <1>3, <1>4, <1>5, <1>6 DEF ServiceInv

\* An acquisition starts again, or cannot.
LEMMA IdleKeeps ==
    ASSUME ServiceInv, NEW t \in Tokens, NEW k \in Keys, RegisterIdle(t, k)
    PROVE  ServiceInv'
<1>1. /\ map[k] \in Arcs /\ Usable(k) /\ Leases(map[k]) = {} /\ ~arc[map[k]].running
      /\ map' = map /\ disk' = disk /\ limit' = limit /\ done' = done /\ reader' = reader
      /\ sweep' = {} /\ canceled' = canceled /\ crashes' = crashes
  BY DEF RegisterIdle, ServiceInv, TypeOK, Usable, Registers, Serving, LockFree
<1>2. SweptUnpinned'
  BY <1>1 DEF SweptUnpinned
<1>3. owner[map[k]] \notin {"work", "ended"}
  BY <1>1 DEF ServiceInv, OwnersRun
<1>4. ASSUME Started(map[k]), session' = [session EXCEPT ![t] = map[k]]
      PROVE  ServiceInv'
  <2> USE DEF Started
  <2>1. TypeOK'
    <3>1. [arc[map[k]] EXCEPT !.running = TRUE, !.cancel = FALSE, !.error = FALSE] \in Asset
      BY <1>1, AssetRestarted DEF ServiceInv, TypeOK
    <3>2. arc' \in [Arcs -> Asset]
      BY <1>1, <1>4, <3>1 DEF ServiceInv, TypeOK
    <3> QED  BY <1>1, <1>4, <3>2 DEF ServiceInv, TypeOK
  <2>2. QuotaHolds' /\ ArtifactsReserved' /\ Homes'
    <3>1. \A i \in Arcs : arc'[i].key = arc[i].key /\ arc'[i].dir = arc[i].dir
      BY <1>1, <1>4 DEF ServiceInv, TypeOK, Asset
    <3> QED  BY <1>1, <3>1, SameStorage
  <2>3. HoldersAreCurrent'
    <3>1. \A i \in Arcs : Held(i)' => Held(i) \/ i = map[k]
      BY <1>1, <1>4 DEF Held, ServiceInv, TypeOK
    <3> QED  BY <1>1, <3>1, HoldersStay
  <2>4. OwnersRun'
    BY <1>1, <1>4 DEF ServiceInv, TypeOK, OwnersRun
  <2>5. LeasesServed'
    BY <1>1, <1>4 DEF ServiceInv, TypeOK, LeasesServed, LeasedNotCancelled, LeaseNeverStalls, Leases
  <2> QED  BY <1>2, <2>1, <2>2, <2>3, <2>4, <2>5 DEF ServiceInv
<1>5. ASSUME arc' = [arc EXCEPT ![map[k]].cancel = FALSE, ![map[k]].error = FALSE],
             UNCHANGED <<session, owner>>
      PROVE  ServiceInv'
  <2>1. TypeOK'
    <3>1. [arc[map[k]] EXCEPT !.cancel = FALSE, !.error = FALSE] \in Asset
      BY <1>1, AssetRestarted DEF ServiceInv, TypeOK
    <3>2. arc' \in [Arcs -> Asset]
      BY <1>1, <1>5, <3>1 DEF ServiceInv, TypeOK
    <3> QED  BY <1>1, <1>5, <3>2 DEF ServiceInv, TypeOK
  <2>2. QuotaHolds' /\ ArtifactsReserved' /\ Homes'
    <3>1. \A i \in Arcs : arc'[i].key = arc[i].key /\ arc'[i].dir = arc[i].dir
      BY <1>1, <1>5 DEF ServiceInv, TypeOK, Asset
    <3> QED  BY <1>1, <3>1, SameStorage
  <2>3. HoldersAreCurrent'
    <3>1. \A i \in Arcs : Held(i)' => Held(i)
      BY <1>1, <1>5 DEF Held
    <3> QED  BY <1>1, <3>1, HoldersStay
  <2>4. OwnersRun'
    BY <1>1, <1>3, <1>5 DEF ServiceInv, TypeOK, OwnersRun
  <2>5. LeasesServed'
    BY <1>1, <1>5 DEF ServiceInv, TypeOK, LeasesServed, LeasedNotCancelled, LeaseNeverStalls, Leases
  <2> QED  BY <1>2, <2>1, <2>2, <2>3, <2>4, <2>5 DEF ServiceInv
<1> QED  BY <1>4, <1>5 DEF RegisterIdle

\* A lease ends; the asset may be cancelled by the last one.
LEMMA ReleaseKeeps ==
    ASSUME ServiceInv, NEW t \in Tokens, Release(t)
    PROVE  ServiceInv'
<1> USE DEF Release
<1>0. \A r \in Readers : reader'[r] \in Clone /\ reader'[r].arc = reader[r].arc
  BY DEF ServiceInv, TypeOK, Clone
<1>1. TypeOK'
  <2>1. session[t] \in Arcs => [arc[session[t]] EXCEPT !.cancel = TRUE] \in Asset
    BY DEF ServiceInv, TypeOK, Asset
  <2>2. arc' \in [Arcs -> Asset]
    BY <2>1 DEF ServiceInv, TypeOK, LastLease
  <2>3. reader' \in [Readers -> Clone]
    BY <1>0
  <2> QED  BY <2>2, <2>3 DEF ServiceInv, TypeOK
<1>2. QuotaHolds' /\ ArtifactsReserved' /\ Homes'
  <2>1. \A i \in Arcs : arc'[i].key = arc[i].key /\ arc'[i].dir = arc[i].dir
    BY DEF ServiceInv, TypeOK, Asset, LastLease
  <2> QED  BY <2>1, SameStorage
<1>3. HoldersAreCurrent'
  <2>1. \A i \in Arcs : Held(i)' => Held(i)
    BY <1>0, NoneAssumption DEF Held, ServiceInv, TypeOK
  <2> QED  BY <2>1, HoldersStay
<1>4. OwnersRun'
  BY DEF ServiceInv, TypeOK, Asset, OwnersRun, LastLease
<1>5. SweptUnpinned'
  BY DEF SweptUnpinned, Serving, LockFree
<1>6. LeasesServed'
  BY NoneAssumption DEF ServiceInv, TypeOK, LeasesServed, LeasedNotCancelled, LeaseNeverStalls,
     LastLease, Leases
<1> QED  BY <1>1, <1>2, <1>3, <1>4, <1>5, <1>6 DEF ServiceInv

\* Another file is leased, the budget changes, or the service is dropped.
LEMMA UserKeeps ==
    ASSUME ServiceInv,
           (\E t \in Tokens : RegisterLocal(t)) \/ (\E l \in Limits : SetLimit(l)) \/ Drop
    PROVE  ServiceInv'
<1>1. ASSUME NEW t \in Tokens, RegisterLocal(t) PROVE ServiceInv'
  <2> USE <1>1 DEF RegisterLocal
  <2>1. TypeOK' /\ OwnersRun'
    BY DEF ServiceInv, TypeOK, OwnersRun
  <2>2. QuotaHolds' /\ ArtifactsReserved' /\ Homes'
    BY SameStorage
  <2>3. HoldersAreCurrent'
    <3>1. \A i \in Arcs : Held(i)' => Held(i)
      BY NoneAssumption DEF Held, ServiceInv, TypeOK
    <3> QED  BY <3>1, HoldersStay
  <2>4. SweptUnpinned'
    BY DEF SweptUnpinned, Registers, Serving, LockFree
  <2>5. LeasesServed'
    BY NoneAssumption DEF ServiceInv, TypeOK, LeasesServed, LeasedNotCancelled, LeaseNeverStalls
  <2> QED  BY <2>1, <2>2, <2>3, <2>4, <2>5 DEF ServiceInv
<1>2. ASSUME NEW l \in Limits, SetLimit(l) PROVE ServiceInv'
  <2> USE <1>2 DEF SetLimit
  <2>1. TypeOK' /\ QuotaHolds'
    BY DEF ServiceInv, TypeOK, QuotaHolds, Reserved, Bytes
  <2>2. ArtifactsReserved' /\ Homes' /\ HoldersAreCurrent'
    BY DEF ServiceInv, ArtifactsReserved, Homes, SingleHome, AssetsKeyed, Mapped,
       HoldersAreCurrent, Held
  <2>3. OwnersRun' /\ SweptUnpinned' /\ LeasesServed'
    BY DEF ServiceInv, OwnersRun, SweptUnpinned, Unpinned, Leases, Streams, LeasesServed,
       LeasedNotCancelled, LeaseNeverStalls
  <2> QED  BY <2>1, <2>2, <2>3 DEF ServiceInv
<1>3. ASSUME Drop PROVE ServiceInv'
  <2> USE <1>3 DEF Drop
  <2>1. TypeOK' /\ QuotaHolds'
    BY DEF ServiceInv, TypeOK, QuotaHolds, Reserved, Bytes
  <2>2. ArtifactsReserved' /\ Homes' /\ HoldersAreCurrent'
    BY DEF ServiceInv, ArtifactsReserved, Homes, SingleHome, AssetsKeyed, Mapped,
       HoldersAreCurrent, Held
  <2>3. OwnersRun' /\ SweptUnpinned' /\ LeasesServed'
    BY DEF ServiceInv, OwnersRun, SweptUnpinned, Unpinned, Leases, Streams, LeasesServed,
       LeasedNotCancelled, LeaseNeverStalls
  <2> QED  BY <2>1, <2>2, <2>3 DEF ServiceInv
<1> QED  BY <1>1, <1>2, <1>3

\* A thread brings its result, lowers its flag, drops its reference.
LEMMA OwningKeeps ==
    ASSUME ServiceInv, NEW i \in Arcs, Owning(i)
    PROVE  ServiceInv'
<1>1. /\ map' = map /\ disk' = disk /\ limit' = limit /\ session' = session /\ reader' = reader
      /\ sweep' = sweep /\ canceled' = canceled /\ crashes' = crashes
      /\ owner[i] # "none"
  BY DEF Owning, OwnerEnds, OwnerYields, OwnerDrops
<1>2. PICK o \in {"none", "ended", "exit"} :
        /\ owner' = [owner EXCEPT ![i] = o]
        /\ o = "ended" => owner[i] = "work" /\ (arc[i].key \in done' \/ arc'[i].error)
        /\ o # "exit" => arc'[i].running = arc[i].running
        /\ o = "exit" => owner[i] = "ended"
  <2>1. arc[i] \in Asset /\ arc \in [Arcs -> Asset]
    BY DEF ServiceInv, TypeOK
  <2>2. CASE OwnerEnds(i)
    <3>1. /\ owner' = [owner EXCEPT ![i] = "ended"] /\ owner[i] = "work"
          /\ arc[i].key \in done' \/ arc'[i].error
      BY <2>1, <2>2 DEF OwnerEnds, Asset
    <3>2. arc'[i].running = arc[i].running
      BY <2>1, <2>2 DEF OwnerEnds, Asset
    <3> QED  BY <3>1, <3>2
  <2>3. CASE OwnerYields(i)
    BY <2>3 DEF OwnerYields
  <2>4. CASE OwnerDrops(i)
    BY <2>4 DEF OwnerDrops
  <2> QED  BY <2>2, <2>3, <2>4 DEF Owning
<1>3. /\ \A j \in Arcs : /\ arc'[j].key = arc[j].key /\ arc'[j].dir = arc[j].dir
                         /\ arc'[j].cancel = arc[j].cancel /\ (arc[j].error => arc'[j].error)
                         /\ j # i => arc'[j] = arc[j]
      /\ arc' \in [Arcs -> Asset]
  <2>1. arc[i] \in Asset /\ arc \in [Arcs -> Asset]
    BY DEF ServiceInv, TypeOK
  <2>2. CASE arc' = arc
    BY <2>1, <2>2
  <2>3. CASE arc' = [arc EXCEPT ![i].error = TRUE]
    BY <2>1, <2>3 DEF Asset
  <2>4. CASE arc' = [arc EXCEPT ![i].running = FALSE]
    BY <2>1, <2>4 DEF Asset
  <2> QED  BY <2>2, <2>3, <2>4 DEF Owning, OwnerEnds, OwnerYields, OwnerDrops
<1>4. arc[i].key \in Keys /\ done \subseteq done' /\ done' \subseteq Keys
  <2>1. \E k \in Keys : map[k] = i /\ arc[i].key = k
    BY <1>1, NoneAssumption DEF ServiceInv, HoldersAreCurrent, Held, Homes, AssetsKeyed, Mapped
  <2> QED  BY <2>1 DEF Owning, OwnerEnds, OwnerYields, OwnerDrops, ServiceInv, TypeOK
<1>5. TypeOK'
  BY <1>1, <1>2, <1>3, <1>4 DEF ServiceInv, TypeOK
<1>6. QuotaHolds' /\ ArtifactsReserved' /\ Homes'
  BY <1>1, <1>3, SameStorage
<1>7. HoldersAreCurrent'
  <2>1. \A j \in Arcs : Held(j)' => Held(j)
    BY <1>1, <1>2 DEF Held, ServiceInv, TypeOK
  <2> QED  BY <1>1, <2>1, HoldersStay
<1>8. OwnersRun'
  BY <1>1, <1>2, <1>3, <1>4 DEF ServiceInv, TypeOK, OwnersRun
<1>9. SweptUnpinned'
  BY <1>1, <1>2 DEF ServiceInv, TypeOK, SweptUnpinned, Unpinned, Leases, Streams
<1>10. LeasesServed'
  <2>1. o = "exit" => arc'[i].key \in done' \/ arc'[i].error
    BY <1>2, <1>3, <1>4 DEF ServiceInv, OwnersRun
  <2>2. o # "exit" => arc'[i].running = arc[i].running
    BY <1>2
  <2> QED  BY <1>1, <1>3, <1>4, <2>1, <2>2 DEF ServiceInv, LeasesServed, LeasedNotCancelled, LeaseNeverStalls
<1> QED  BY <1>5, <1>6, <1>7, <1>8, <1>9, <1>10 DEF ServiceInv

\* A reader takes its clone of a lease, or drops it.
LEMMA ReaderKeeps ==
    ASSUME ServiceInv, NEW r \in Readers,
           ReaderEnds(r) \/ \E t \in Tokens : ReaderLooksUp(r, t)
    PROVE  ServiceInv'
<1>1. /\ map' = map /\ disk' = disk /\ limit' = limit /\ session' = session /\ owner' = owner
      /\ arc' = arc /\ done' = done
      /\ sweep' = sweep /\ canceled' = canceled /\ crashes' = crashes
  BY DEF ReaderEnds, ReaderLooksUp
<1>2. \/ reader' = [reader EXCEPT ![r] = NoReader]
      \/ sweep = {} /\ \E t \in Tokens :
            /\ session[t] \in Arcs
            /\ reader' = [reader EXCEPT ![r] = [arc |-> session[t], token |-> t, active |-> TRUE]]
  <2>1. CASE ReaderEnds(r)
    BY <2>1 DEF ReaderEnds
  <2>2. ASSUME NEW t \in Tokens, ReaderLooksUp(r, t)
        PROVE  /\ sweep = {} /\ session[t] \in Arcs
               /\ reader' = [reader EXCEPT ![r] = [arc |-> session[t], token |-> t, active |-> TRUE]]
    BY <2>2 DEF ReaderLooksUp, Serving, LockFree
  <2> QED  BY <2>1, <2>2
<1>3. TypeOK'
  <2>1. NoReader \in Clone
    BY DEF NoReader, Clone
  <2>2. \A t \in Tokens : session[t] \in Arcs =>
          [arc |-> session[t], token |-> t, active |-> TRUE] \in Clone
    BY DEF Clone
  <2>3. reader' \in [Readers -> Clone]
    BY <1>2, <2>1, <2>2 DEF ServiceInv, TypeOK
  <2> QED  BY <1>1, <2>3 DEF ServiceInv, TypeOK
<1>4. QuotaHolds' /\ ArtifactsReserved' /\ Homes'
  BY <1>1, SameStorage
<1>5. HoldersAreCurrent'
  <2>1. \A j \in Arcs : Held(j)' => Held(j)
    BY <1>1, <1>2, NoneAssumption DEF Held, ServiceInv, TypeOK, NoReader, Clone
  <2> QED  BY <1>1, <2>1, HoldersStay
<1>6. SweptUnpinned'
  BY <1>1, <1>2, NoneAssumption DEF ServiceInv, TypeOK, SweptUnpinned, Unpinned, Leases, Streams, NoReader
<1>7. OwnersRun' /\ LeasesServed'
  BY <1>1 DEF ServiceInv, OwnersRun, LeasesServed, LeasedNotCancelled, LeaseNeverStalls
<1> QED  BY <1>3, <1>4, <1>5, <1>6, <1>7 DEF ServiceInv


\* The asset of a creation, whatever became of it: it takes the place of nothing,
\* and reserves its size.
LEMMA CreationFits ==
    ASSUME ServiceInv, NEW k \in Keys, Creatable(k), NEW i \in Arcs, ~Referenced(i),
           NEW a \in Asset, a.key = k, NEW d,
           d \in SUBSET {"staged", "final", "tombstone"}, d \subseteq {a.dir, "tombstone"},
           disk' = [disk EXCEPT ![k] = d],
           map' = [map EXCEPT ![k] = i], arc' = [arc EXCEPT ![i] = a], limit' = limit
    PROVE  /\ map' \in [Keys -> Arcs \cup {None}] /\ arc' \in [Arcs -> Asset]
           /\ disk' \in [Keys -> SUBSET {"staged", "final", "tombstone"}]
           /\ QuotaHolds' /\ ArtifactsReserved' /\ Homes'
<1>1. /\ map' \in [Keys -> Arcs \cup {None}] /\ arc' \in [Arcs -> Asset]
      /\ disk' \in [Keys -> SUBSET {"staged", "final", "tombstone"}]
  BY DEF ServiceInv, TypeOK
<1>2. QuotaHolds'
  <2>1. \A j \in Keys : map'[j] # None => map[j] # None \/ j = k
    BY DEF ServiceInv, TypeOK
  <2>2. Reserved(map') <= Reserved(map) + Size[k]
    BY <2>1, ReservedOneMore
  <2>3. Reserved(map) \in Nat /\ Reserved(map') \in Nat /\ Size[k] \in Nat /\ limit \in Nat
    BY BytesFinite, SizeAssumption DEF ServiceInv, TypeOK
  <2>4. Reserved(map) + Size[k] <= limit
    BY DEF Creatable, Admits
  <2>5. Reserved(map') <= limit'
    BY <2>2, <2>3, <2>4
  <2>6. Reserved(map)' = Reserved(map')
    BY DEF Reserved, Bytes
  <2> QED  BY <2>5, <2>6 DEF QuotaHolds
<1>3. ArtifactsReserved'
  BY NoneAssumption DEF ServiceInv, TypeOK, ArtifactsReserved
<1>4. \A j \in Keys : map[j] # i
  BY DEF Referenced
<1>5. Homes'
  <2>1. \A j \in Mapped : j # k /\ map'[j] = map[j] /\ map[j] # i /\ map[j] \in Arcs
                          /\ arc'[map[j]] = arc[map[j]] /\ disk'[j] = disk[j]
    BY <1>4 DEF ServiceInv, TypeOK, Mapped, Creatable
  <2>2. \A j \in Keys : j \in Mapped' => j = k \/ j \in Mapped
    BY DEF ServiceInv, TypeOK, Mapped
  <2>3. map'[k] = i /\ arc'[i] = a /\ disk'[k] = d
    BY DEF ServiceInv, TypeOK
  <2>4. SingleHome'
    BY <2>1, <2>2, <2>3 DEF ServiceInv, Homes, SingleHome, Mapped
  <2>5. AssetsKeyed'
    <3>1. SUFFICES ASSUME NEW j \in Mapped'
                   PROVE  arc'[map'[j]].key = j /\ disk'[j] \subseteq {arc'[map'[j]].dir, "tombstone"}
      BY DEF AssetsKeyed
    <3>2. CASE j = k
      BY <2>3, <3>2
    <3>3. CASE j \in Mapped
      BY <2>1, <3>3 DEF ServiceInv, Homes, AssetsKeyed
    <3> QED  BY <2>2, <3>1, <3>2, <3>3 DEF Mapped
  <2> QED  BY <2>4, <2>5 DEF Homes
<1> QED  BY <1>1, <1>2, <1>3, <1>5

\* Nothing refers to an allocation that is taken anew.
LEMMA CreationKeepsOthers ==
    ASSUME ServiceInv, NEW k \in Keys, Creatable(k), NEW i \in Arcs, ~Referenced(i),
           NEW a \in Asset, NEW d,
           disk' = [disk EXCEPT ![k] = d],
           map' = [map EXCEPT ![k] = i], arc' = [arc EXCEPT ![i] = a],
           UNCHANGED <<session, owner, reader, done>>
    PROVE  HoldersAreCurrent' /\ OwnersRun' /\ LeasesServed'
<1>1. ~Held(i)
  BY DEF Referenced, Unpinned, Held, Leases, Streams
<1>2. \A j \in Arcs : Held(j)' = Held(j)
  BY DEF Held
<1>3. \A j \in Arcs : j # i => arc'[j] = arc[j]
  BY DEF ServiceInv, TypeOK
<1>4. HoldersAreCurrent'
  <2>1. SUFFICES ASSUME NEW j \in Arcs, Held(j)
                 PROVE  \E q \in Keys : map'[q] = j /\ "final" \in disk'[q]
    BY <1>2 DEF HoldersAreCurrent
  <2>2. PICK q \in Keys : map[q] = j /\ "final" \in disk[q]
    BY <2>1 DEF ServiceInv, HoldersAreCurrent
  <2>3. q # k
    BY <2>2, NoneAssumption DEF Creatable
  <2>4. map'[q] = map[q] /\ disk'[q] = disk[q]
    BY <2>3 DEF ServiceInv, TypeOK
  <2> QED  BY <2>2, <2>4
<1>5. OwnersRun'
  BY <1>1, <1>3 DEF ServiceInv, OwnersRun, Held
<1>6. LeasesServed'
  BY <1>1, <1>3 DEF ServiceInv, LeasesServed, LeasedNotCancelled, LeaseNeverStalls, Held
<1> QED  BY <1>4, <1>5, <1>6

\* What a creation may leave, and what taking it back may.
LEMMA CreatedShape ==
    ASSUME NEW made \in Created({})
    PROVE  /\ made.disk \in {{}, {"staged"}, {"final"}}
           /\ made.ok => made.disk = {"final"}
           /\ made.ok \in BOOLEAN
<1>1. {} \cup {"staged"} = {"staged"} /\ {} \cup {"final"} = {"final"}
  OBVIOUS
<1>2. \/ made = [disk |-> {}, ok |-> FALSE]
      \/ made = [disk |-> {} \cup {"staged"}, ok |-> FALSE]
      \/ made = [disk |-> {} \cup {"final"}, ok |-> FALSE]
      \/ made = [disk |-> {} \cup {"final"}, ok |-> TRUE]
  BY DEF Created
<1>3. ASSUME NEW d \in {{}, {"staged"}, {"final"}}, NEW b \in BOOLEAN,
             b => d = {"final"}, made = [disk |-> d, ok |-> b]
      PROVE  /\ made.disk \in {{}, {"staged"}, {"final"}}
             /\ made.ok => made.disk = {"final"}
             /\ made.ok \in BOOLEAN
  <2>1. made.disk = d /\ made.ok = b
    BY <1>3
  <2> QED  BY <1>3, <2>1
<1> QED  BY <1>1, <1>2, <1>3

LEMMA RemovedShape ==
    ASSUME NEW d, NEW gone \in Removed(d)
    PROVE  \/ gone.disk = d /\ ~gone.ok
           \/ "tombstone" \in d /\ gone.disk = d \ {"tombstone"}
<1>1. CASE gone = [disk |-> d, ok |-> FALSE]
  BY <1>1
<1>2. CASE gone # [disk |-> d, ok |-> FALSE]
  <2>1. "tombstone" \in d
    BY <1>2 DEF Removed
  <2>2. gone \in {[disk |-> d \ {"tombstone"}, ok |-> b] : b \in BOOLEAN}
    BY <1>2, <2>1, Zenon DEF Removed
  <2> QED  BY <2>1, <2>2
<1> QED  BY <1>1, <1>2

\* What a removal leaves of a published or staged directory and its tombstone.
LEMMA DiscardedShape ==
    ASSUME NEW dir \in {"staged", "final"}, NEW d, d \subseteq {dir, "tombstone"},
           NEW gone \in Discarded(d, dir)
    PROVE  /\ gone.disk \subseteq {dir, "tombstone"}
           /\ gone.ok => gone.disk = {}
<1>1. CASE dir \notin d
  <2>1. gone \in Removed(d)
    BY <1>1 DEF Discarded
  <2>2. d \ {"tombstone"} = {}
    BY <1>1
  <2>3. (gone.disk = d /\ ~gone.ok) \/ gone.disk = {}
    BY <2>1, <2>2, RemovedShape
  <2> QED  BY <2>3
<1>2. CASE dir \in d
  <2>1. gone = [disk |-> d, ok |-> FALSE] \/ gone \in Removed((d \ {dir}) \cup {"tombstone"})
    BY <1>2 DEF Discarded
  <2>2. CASE gone = [disk |-> d, ok |-> FALSE]
    BY <2>2
  <2>3. CASE gone \in Removed((d \ {dir}) \cup {"tombstone"})
    <3>1. (d \ {dir}) \cup {"tombstone"} = {"tombstone"}
      <4>1. \A x \in d \ {dir} : x = "tombstone"
        OBVIOUS
      <4> QED  BY <4>1
    <3>4. {"tombstone"} \ {"tombstone"} = {}
      OBVIOUS
    <3>2. gone \in Removed({"tombstone"})
      BY <2>3, <3>1
    <3>3. (gone.disk = {"tombstone"} /\ ~gone.ok) \/ gone.disk = {}
      BY <3>2, <3>4, RemovedShape
    <3> QED  BY <3>3
  <2> QED  BY <2>1, <2>2, <2>3
<1> QED  BY <1>1, <1>2

\* A new asset is created, fails to be, or is taken back.
LEMMA NewKeeps ==
    ASSUME ServiceInv, NEW t \in Tokens, NEW k \in Keys, RegisterNew(t, k)
    PROVE  ServiceInv'
<1>1. /\ Creatable(k) /\ map[k] = None /\ session[t] = "free" /\ sweep = {}
      /\ UNCHANGED <<done, limit, reader, sweep, canceled, crashes>>
  BY DEF RegisterNew, Creatable, Registers, Serving, LockFree
<1>2. disk[k] = {}
  BY <1>1 DEF ServiceInv, ArtifactsReserved
<1>3. PICK i \in Arcs : i = FreshArc /\ ~Referenced(i)
  BY <1>1, FreshArcFree
<1>4. SweptUnpinned'
  BY <1>1 DEF SweptUnpinned
<1>6. \A dir \in {"staged", "final"}, c, e \in BOOLEAN :
        LET a == NewAsset(k, dir, c, e) IN a \in Asset /\ a.key = k /\ a.dir = dir
  BY DEF NewAsset, Asset
<1>7. ~Held(i) /\ \A j \in Keys : map[j] # i
  BY <1>3 DEF Referenced, Unpinned, Held, Leases, Streams
<1>8. PICK made \in Created({}) :
        \/ /\ ~made.ok
           /\ disk' = [disk EXCEPT ![k] = made.disk]
           /\ IF made.disk = {} THEN UNCHANGED <<map, arc>>
              ELSE /\ map' = [map EXCEPT ![k] = i]
                   /\ arc' = [arc EXCEPT ![i] = NewAsset(k,
                               IF "final" \in made.disk THEN "final" ELSE "staged", TRUE, TRUE)]
           /\ UNCHANGED <<session, owner>>
        \/ /\ made.ok
           /\ disk' = [disk EXCEPT ![k] = made.disk]
           /\ map' = [map EXCEPT ![k] = i]
           /\ arc' = [arc EXCEPT ![i] =
                        [NewAsset(k, "final", FALSE, FALSE) EXCEPT !.running = TRUE]]
           /\ owner' = [owner EXCEPT ![i] = "work"]
           /\ session' = [session EXCEPT ![t] = i]
        \/ /\ made.ok
           /\ \E gone \in Discarded(made.disk, "final") :
                /\ disk' = [disk EXCEPT ![k] = gone.disk]
                /\ IF gone.ok THEN UNCHANGED <<map, arc>>
                   ELSE /\ map' = [map EXCEPT ![k] = i]
                        /\ arc' = [arc EXCEPT ![i] = NewAsset(k, "final", FALSE, FALSE)]
           /\ UNCHANGED <<session, owner>>
  <2>1. Created(disk[k]) = Created({})
    BY <1>2
  <2> QED  BY <1>3, <2>1 DEF RegisterNew
<1>9. ASSUME disk' = disk, UNCHANGED <<map, arc, session, owner>>
      PROVE  ServiceInv'
  <2>1. TypeOK' /\ QuotaHolds' /\ ArtifactsReserved' /\ Homes'
    BY <1>1, <1>9, SameStorage DEF ServiceInv, TypeOK
  <2>2. HoldersAreCurrent' /\ OwnersRun' /\ LeasesServed'
    BY <1>1, <1>9 DEF ServiceInv, HoldersAreCurrent, Held, OwnersRun, LeasesServed,
       LeasedNotCancelled, LeaseNeverStalls
  <2> QED  BY <1>4, <2>1, <2>2 DEF ServiceInv
<1>10. ASSUME NEW d \in SUBSET {"staged", "final", "tombstone"}, NEW a \in Asset, a.key = k,
              d \subseteq {a.dir, "tombstone"}, disk' = [disk EXCEPT ![k] = d],
              map' = [map EXCEPT ![k] = i], arc' = [arc EXCEPT ![i] = a],
              UNCHANGED <<session, owner>>
       PROVE  ServiceInv'
  <2>2. /\ map' \in [Keys -> Arcs \cup {None}] /\ arc' \in [Arcs -> Asset]
        /\ disk' \in [Keys -> SUBSET {"staged", "final", "tombstone"}]
        /\ QuotaHolds' /\ ArtifactsReserved' /\ Homes'
    BY <1>1, <1>3, <1>10, CreationFits
  <2>3. TypeOK'
    BY <1>1, <1>10, <2>2 DEF ServiceInv, TypeOK
  <2>4. HoldersAreCurrent' /\ OwnersRun' /\ LeasesServed'
    BY <1>1, <1>3, <1>10, CreationKeepsOthers
  <2> QED  BY <1>4, <2>2, <2>3, <2>4 DEF ServiceInv
<1>11. ASSUME NEW a \in Asset, a.key = k, a.dir = "final", a.running, ~a.cancel,
              disk' = [disk EXCEPT ![k] = {"final"}],
              map' = [map EXCEPT ![k] = i], arc' = [arc EXCEPT ![i] = a],
              owner' = [owner EXCEPT ![i] = "work"], session' = [session EXCEPT ![t] = i]
       PROVE  ServiceInv'
  <2>1. {"final"} \in SUBSET {"staged", "final", "tombstone"} /\ {"final"} \subseteq {a.dir, "tombstone"}
    BY <1>11
  <2>2. /\ map' \in [Keys -> Arcs \cup {None}] /\ arc' \in [Arcs -> Asset]
        /\ disk' \in [Keys -> SUBSET {"staged", "final", "tombstone"}]
        /\ QuotaHolds' /\ ArtifactsReserved' /\ Homes'
    BY <1>1, <1>3, <1>11, <2>1, CreationFits
  <2>3. TypeOK'
    BY <1>1, <1>11, <2>2 DEF ServiceInv, TypeOK
  <2>4. HoldersAreCurrent'
    <3>1. \A j \in Arcs : Held(j)' => Held(j) \/ j = i
      BY <1>1, <1>11 DEF Held, ServiceInv, TypeOK
    <3>2. map'[k] = i /\ disk'[k] = {"final"}
      BY <1>11 DEF ServiceInv, TypeOK
    <3>3. \A q \in Keys, j \in Arcs :
            map[q] = j => map'[q] = j /\ disk'[q] = disk[q]
      BY <1>1, <1>11, NoneAssumption DEF ServiceInv, TypeOK
    <3>4. \A j \in Arcs : Held(j) => \E q \in Keys : map[q] = j /\ "final" \in disk[q]
      BY DEF ServiceInv, HoldersAreCurrent
    <3>5. \A j \in Arcs : Held(j) => \E q \in Keys : map'[q] = j /\ "final" \in disk'[q]
      BY <3>3, <3>4
    <3> QED  BY <3>1, <3>2, <3>5 DEF HoldersAreCurrent
  <2>5. \A j \in Arcs : j # i => arc'[j] = arc[j]
    BY <1>11 DEF ServiceInv, TypeOK
  <2>6. arc'[i] = a
    BY <1>11 DEF ServiceInv, TypeOK
  <2>7. OwnersRun'
    BY <1>1, <1>11, <2>5, <2>6 DEF ServiceInv, TypeOK, OwnersRun
  <2>8. LeasesServed'
    BY <1>1, <1>11, <2>5, <2>6 DEF ServiceInv, TypeOK, LeasesServed, LeasedNotCancelled, LeaseNeverStalls
  <2> QED  BY <1>4, <2>2, <2>3, <2>4, <2>7, <2>8 DEF ServiceInv
<1>12. CASE ~made.ok
  <2>1. made.disk \in {{}, {"staged"}, {"final"}}
    BY CreatedShape
  <2>2. CASE made.disk = {}
    <3>1. disk' = disk /\ UNCHANGED <<map, arc, session, owner>>
      BY <1>2, <1>8, <1>12, <2>2 DEF ServiceInv, TypeOK
    <3> QED  BY <1>9, <3>1
  <2>3. CASE made.disk # {}
    <3> DEFINE dir == IF "final" \in made.disk THEN "final" ELSE "staged"
    <3> DEFINE a == NewAsset(k, dir, TRUE, TRUE)
    <3>1. made.disk \in {{"staged"}, {"final"}, {"tombstone"}} /\ made.disk \subseteq {dir, "tombstone"}
          /\ dir \in {"staged", "final"}
      BY <2>1, <2>3
    <3>2. disk' = [disk EXCEPT ![k] = made.disk] /\ map' = [map EXCEPT ![k] = i]
          /\ arc' = [arc EXCEPT ![i] = a] /\ UNCHANGED <<session, owner>>
      BY <1>8, <1>12, <2>3
    <3>3. a \in Asset /\ a.key = k /\ a.dir = dir
      BY <1>6, <3>1
    <3> HIDE DEF a, dir
    <3> QED  BY <1>10, <3>1, <3>2, <3>3
  <2> QED  BY <2>2, <2>3
<1>13. CASE made.ok
  <2>1. made.disk = {"final"}
    BY <1>13, CreatedShape
  <2>2. CASE owner' = [owner EXCEPT ![i] = "work"] /\ session' = [session EXCEPT ![t] = i]
             /\ arc' = [arc EXCEPT ![i] = [NewAsset(k, "final", FALSE, FALSE) EXCEPT !.running = TRUE]]
             /\ disk' = [disk EXCEPT ![k] = made.disk] /\ map' = [map EXCEPT ![k] = i]
    <3> DEFINE a == [NewAsset(k, "final", FALSE, FALSE) EXCEPT !.running = TRUE]
    <3>1. a \in Asset /\ a.key = k /\ a.dir = "final" /\ a.running /\ ~a.cancel
      BY DEF NewAsset, Asset
    <3> HIDE DEF a
    <3> QED  BY <1>11, <2>1, <2>2, <3>1 DEF a
  <2>3. ASSUME NEW gone \in Discarded({"final"}, "final"),
               disk' = [disk EXCEPT ![k] = gone.disk],
               IF gone.ok THEN UNCHANGED <<map, arc>>
               ELSE /\ map' = [map EXCEPT ![k] = i]
                    /\ arc' = [arc EXCEPT ![i] = NewAsset(k, "final", FALSE, FALSE)],
               UNCHANGED <<session, owner>>
        PROVE  ServiceInv'
    <3>1. gone.disk \subseteq {"final", "tombstone"} /\ (gone.ok => gone.disk = {})
      BY DiscardedShape
    <3>2. CASE gone.ok
      <4>1. disk' = disk
        BY <1>2, <2>3, <3>1, <3>2 DEF ServiceInv, TypeOK
      <4> QED  BY <1>9, <2>3, <3>2, <4>1
    <3>3. CASE ~gone.ok
      <4> DEFINE a == NewAsset(k, "final", FALSE, FALSE)
      <4>1. a \in Asset /\ a.key = k /\ a.dir = "final"
        BY <1>6
      <4>2. disk' = [disk EXCEPT ![k] = gone.disk] /\ map' = [map EXCEPT ![k] = i]
            /\ arc' = [arc EXCEPT ![i] = a] /\ UNCHANGED <<session, owner>>
        BY <2>3, <3>3
      <4> HIDE DEF a
      <4> QED  BY <1>10, <3>1, <4>1, <4>2
    <3> QED  BY <3>2, <3>3
  <2> QED  BY <1>8, <1>13, <2>1, <2>2, <2>3
<1> QED  BY <1>12, <1>13

-----------------------------------------------------------------------------
(* Cleanup                                                                   *)

\* Cleanup chooses what nobody holds.
LEMMA SweepStartsKeeps == ServiceInv /\ SweepStarts => ServiceInv'
<1> SUFFICES ASSUME ServiceInv, SweepStarts PROVE ServiceInv'
  OBVIOUS
<1> USE DEF SweepStarts
<1>1. TypeOK'
  BY DEF ServiceInv, TypeOK, Mapped
<1>2. QuotaHolds' /\ ArtifactsReserved' /\ Homes'
  BY SameStorage
<1>3. HoldersAreCurrent' /\ OwnersRun' /\ LeasesServed'
  BY DEF ServiceInv, HoldersAreCurrent, Held, OwnersRun, LeasesServed, LeasedNotCancelled,
     LeaseNeverStalls
<1>4. SweptUnpinned'
  BY DEF SweptUnpinned, Unpinned, Leases, Streams, Mapped
<1> QED  BY <1>1, <1>2, <1>3, <1>4 DEF ServiceInv

\* One key is discarded, or its removal ends the sweep.
LEMMA DiscardsKeeps ==
    ASSUME ServiceInv, NEW k \in Keys, Discards(k)
    PROVE  ServiceInv'
<1> DEFINE i == map[k]
<1>1. /\ k \in Mapped /\ i \in Arcs /\ Unpinned(i) /\ arc[i] \in Asset
      /\ arc[i].key = k /\ disk[k] \subseteq {arc[i].dir, "tombstone"}
  BY DEF Discards, ServiceInv, TypeOK, SweptUnpinned, Mapped, Homes, AssetsKeyed
<1>2. PICK gone \in Discarded(disk[k], arc[i].dir) :
        /\ disk' = [disk EXCEPT ![k] = gone.disk]
        /\ done' = IF "final" \in gone.disk THEN done ELSE done \ {k}
        /\ IF gone.ok
           THEN /\ sweep' = sweep \ {k} /\ map' = [map EXCEPT ![k] = None]
                /\ arc' = [arc EXCEPT ![i] = NoArc]
           ELSE sweep' = {} /\ UNCHANGED <<map, arc>>
  BY DEF Discards
<1>3. UNCHANGED <<limit, session, owner, reader, canceled, crashes>>
  BY DEF Discards
<1>4. /\ gone.disk \subseteq {arc[i].dir, "tombstone"} /\ (gone.ok => gone.disk = {})
      /\ gone.disk \subseteq {"staged", "final", "tombstone"}
  <2>1. arc[i].dir \in {"staged", "final"}
    BY <1>1 DEF Asset
  <2> HIDE DEF i
  <2> QED  BY <1>1, <2>1, DiscardedShape
<1>5. ~Held(i) /\ \A j \in Arcs : Held(j)' = Held(j)
  BY <1>1, <1>3 DEF Held, Unpinned, Leases, Streams
<1>6. \A j \in Keys : j # k => /\ disk'[j] = disk[j] /\ map'[j] = map[j]
                               /\ j \in done' <=> j \in done
  BY <1>2 DEF ServiceInv, TypeOK
<1>7. \A j \in Arcs : j # i => arc'[j] = arc[j]
  BY <1>2 DEF ServiceInv, TypeOK
<1>8. \A j \in Keys : map'[j] # None => /\ map'[j] = map[j]
                                        /\ arc'[map[j]] = arc[map[j]]
  <2>1. CASE gone.ok
    <3>1. \A j \in Keys : map'[j] # None => j # k /\ map[j] # None /\ map'[j] = map[j] /\ map[j] # i
      BY <1>1, <1>2, <2>1 DEF ServiceInv, TypeOK, Homes, SingleHome, Mapped
    <3>2. \A j \in Keys : map[j] # None => map[j] \in Arcs
      BY DEF ServiceInv, TypeOK
    <3> QED  BY <1>7, <3>1, <3>2
  <2>2. CASE ~gone.ok
    BY <1>2, <2>2
  <2> QED  BY <2>1, <2>2
<1>9. TypeOK'
  <2>1. map' \in [Keys -> Arcs \cup {None}] /\ arc' \in [Arcs -> Asset]
    <3>1. NoArc \in Asset
      BY DEF NoArc, Asset
    <3> QED  BY <1>1, <1>2, <3>1 DEF ServiceInv, TypeOK
  <2>2. disk' \in [Keys -> SUBSET {"staged", "final", "tombstone"}]
    BY <1>2, <1>4 DEF ServiceInv, TypeOK
  <2>3. done' \in SUBSET Keys /\ sweep' \in SUBSET Keys
    BY <1>2 DEF ServiceInv, TypeOK
  <2> QED  BY <1>3, <2>1, <2>2, <2>3 DEF ServiceInv, TypeOK
<1>10. QuotaHolds'
  <2>1. Reserved(map') <= Reserved(map)
    BY <1>8, ReservedMonotone
  <2>2. Reserved(map)' = Reserved(map')
    BY DEF Reserved, Bytes
  <2>3. Reserved(map) \in Nat /\ Reserved(map') \in Nat /\ limit \in Nat
    BY BytesFinite, SizeAssumption DEF ServiceInv, TypeOK
  <2>4. Reserved(map) <= limit
    BY DEF ServiceInv, QuotaHolds
  <2> QED  BY <1>3, <2>1, <2>2, <2>3, <2>4 DEF QuotaHolds
<1>11. ArtifactsReserved'
  BY <1>1, <1>2, <1>4, <1>6 DEF ServiceInv, TypeOK, ArtifactsReserved, Mapped
<1>12. Homes'
  <2>1. SingleHome'
    BY <1>8 DEF ServiceInv, Homes, SingleHome, Mapped
  <2>2. AssetsKeyed'
    <3>1. \A j \in Keys : map'[j] # None => arc[map[j]].key = j /\ disk[j] \subseteq {arc[map[j]].dir, "tombstone"}
      BY <1>8 DEF ServiceInv, Homes, AssetsKeyed, Mapped
    <3>2. disk'[k] = gone.disk
      BY <1>2 DEF ServiceInv, TypeOK
    <3> QED  BY <1>4, <1>6, <1>8, <3>1, <3>2 DEF AssetsKeyed, Mapped
  <2> QED  BY <2>1, <2>2 DEF Homes
<1>13. \A j \in Arcs : Held(j) => j # i /\ \E q \in Keys : q # k /\ map[q] = j /\ "final" \in disk[q]
  BY <1>5 DEF ServiceInv, HoldersAreCurrent
<1>14. HoldersAreCurrent'
  BY <1>5, <1>6, <1>13 DEF HoldersAreCurrent
<1>15. \A j \in Arcs : Held(j) => arc[j].key \in Keys /\ arc[j].key # k /\ arc'[j] = arc[j]
  BY <1>7, <1>13, NoneAssumption DEF ServiceInv, Homes, AssetsKeyed, Mapped
<1>16. OwnersRun'
  <2>1. \A j \in Arcs : owner[j] # "none" => Held(j)
    BY DEF Held
  <2> QED  BY <1>3, <1>6, <1>15, <2>1 DEF ServiceInv, OwnersRun
<1>17. LeasesServed'
  <2>1. \A t \in Tokens : session[t] \in Arcs => Held(session[t])
    BY DEF Held
  <2> QED  BY <1>3, <1>6, <1>15, <2>1 DEF ServiceInv, LeasesServed, LeasedNotCancelled, LeaseNeverStalls
<1>18. SweptUnpinned'
  BY <1>2, <1>3, <1>6 DEF ServiceInv, TypeOK, SweptUnpinned, Unpinned, Leases, Streams
<1> QED  BY <1>9, <1>10, <1>11, <1>12, <1>14, <1>16, <1>17, <1>18 DEF ServiceInv

-----------------------------------------------------------------------------
(* Recovery                                                                  *)

\* Whatever the process left, the next one starts from what is published, which
\* fits the budget if the keys that keep something on disk do.
LEMMA RecoveredKeeps ==
    ASSUME ServiceInv, NEW d \in [Keys -> SUBSET {"staged", "final", "tombstone"}],
           Recovered(d), crashes' \in Nat,
           NEW m, \A k \in Keys : d[k] # {} => m[k] # None, Reserved(m) <= limit
    PROVE  ServiceInv'
<1> DEFINE Injective(f) == \A j, k \in Keys : f[j] = f[k] => j = k
<1> DEFINE at == CHOOSE f \in [Keys -> Arcs] : \A j, k \in Keys : f[j] = f[k] => j = k
<1>1. at \in [Keys -> Arcs] /\ Injective(at)
  BY ArcsAssumption
<1>2. /\ disk' = [k \in Keys |-> d[k] \cap {"final"}]
      /\ map' = [k \in Keys |-> IF "final" \in d[k] THEN at[k] ELSE None]
      /\ done' = {k \in done : "final" \in d[k]}
      /\ session' = [t \in Tokens |-> "free"] /\ owner' = [i \in Arcs |-> "none"]
      /\ reader' = [r \in Readers |-> NoReader]
      /\ sweep' = {} /\ canceled' = FALSE /\ limit' = limit
  BY DEF Recovered
<1>3. arc' = [i \in Arcs |->
                IF \E k \in Keys : map'[k] = i
                THEN NewAsset(CHOOSE k \in Keys : map'[k] = i, "final", TRUE, FALSE)
                ELSE NoArc]
  BY DEF Recovered
<1> HIDE DEF at
<1>4. \A j, k \in Keys : map'[j] # None /\ map'[j] = map'[k] => j = k
  BY <1>1, <1>2
<1>5. \A k \in Keys : map'[k] # None => map'[k] \in Arcs /\ "final" \in d[k]
  BY <1>1, <1>2
<1>6. ASSUME NEW k \in Keys, map'[k] # None
      PROVE  arc'[map'[k]] = NewAsset(k, "final", TRUE, FALSE)
  <2> DEFINE i == map'[k]
  <2>1. (CHOOSE j \in Keys : map'[j] = i) = k
    BY <1>4, <1>6
  <2> QED  BY <1>3, <1>5, <1>6, <2>1
<1>7. TypeOK'
  <2>1. arc' \in [Arcs -> Asset]
    <3>1. SUFFICES ASSUME NEW i \in Arcs PROVE arc'[i] \in Asset
      BY <1>3
    <3>2. CASE \E k \in Keys : map'[k] = i
      <4>1. PICK k \in Keys : map'[k] = i
        BY <3>2
      <4>2. arc'[i] = NewAsset(k, "final", TRUE, FALSE)
        BY <1>6, <4>1, NoneAssumption
      <4> QED  BY <4>2 DEF NewAsset, Asset
    <3>3. CASE ~\E k \in Keys : map'[k] = i
      <4>1. arc'[i] = NoArc
        BY <1>3, <3>3
      <4> QED  BY <4>1 DEF NoArc, Asset
    <3> QED  BY <3>2, <3>3
  <2>2. NoReader \in Clone
    BY DEF NoReader, Clone
  <2>3. map' \in [Keys -> Arcs \cup {None}]
    BY <1>1, <1>2
  <2> QED  BY <1>2, <2>1, <2>2, <2>3 DEF ServiceInv, TypeOK
<1>8. QuotaHolds'
  <2>1. Reserved(map') <= Reserved(m)
    BY <1>5, ReservedMonotone
  <2>2. Reserved(map)' = Reserved(map')
    BY DEF Reserved, Bytes
  <2>3. Reserved(m) \in Nat /\ Reserved(map') \in Nat /\ limit \in Nat
    BY BytesFinite, SizeAssumption DEF ServiceInv, TypeOK
  <2> QED  BY <1>2, <2>1, <2>2, <2>3 DEF QuotaHolds
<1>9. ArtifactsReserved'
  BY <1>1, <1>2, NoneAssumption DEF ArtifactsReserved
<1>10. Homes'
  <2>1. SingleHome'
    BY <1>4 DEF SingleHome, Mapped
  <2>2. AssetsKeyed'
    <3>1. SUFFICES ASSUME NEW k \in Keys, map'[k] # None
                   PROVE  arc'[map'[k]].key = k /\ disk'[k] \subseteq {arc'[map'[k]].dir, "tombstone"}
      BY DEF AssetsKeyed, Mapped
    <3>2. arc'[map'[k]].key = k /\ arc'[map'[k]].dir = "final"
      <4>1. arc'[map'[k]] = NewAsset(k, "final", TRUE, FALSE)
        BY <1>6, <3>1
      <4>2. NewAsset(k, "final", TRUE, FALSE).key = k /\ NewAsset(k, "final", TRUE, FALSE).dir = "final"
        BY DEF NewAsset
      <4> QED  BY <4>1, <4>2
    <3>3. disk'[k] \subseteq {"final"}
      BY <1>2
    <3> QED  BY <3>2, <3>3
  <2> QED  BY <2>1, <2>2 DEF Homes
<1>11. HoldersAreCurrent' /\ OwnersRun' /\ SweptUnpinned' /\ LeasesServed'
  BY <1>2, NoneAssumption DEF HoldersAreCurrent, Held, NoReader, OwnersRun, SweptUnpinned,
     LeasesServed, LeasedNotCancelled, LeaseNeverStalls
<1> QED  BY <1>7, <1>8, <1>9, <1>10, <1>11 DEF ServiceInv

\* The service starts again, or the process dies, between two steps of storage or
\* inside one.
LEMMA RestartKeeps == ServiceInv /\ (Restart \/ Crash) => ServiceInv'
<1> SUFFICES ASSUME ServiceInv, Restart \/ Crash PROVE ServiceInv'
  OBVIOUS
<1> DEFINE Dirs == [Keys -> SUBSET {"staged", "final", "tombstone"}]
<1>1. disk \in Dirs /\ crashes' \in Nat
  BY DEF ServiceInv, TypeOK, Restart, Crash
<1>2. \A k \in Keys : disk[k] # {} => map[k] # None
  BY DEF ServiceInv, ArtifactsReserved
<1>3. Reserved(map) <= limit
  BY DEF ServiceInv, QuotaHolds
<1>4. CASE Recovered(disk)
  BY <1>1, <1>2, <1>3, <1>4, RecoveredKeeps
<1>5. ASSUME NEW k \in Keys, k \in sweep, NEW left \in Discarded(disk[k], arc[map[k]].dir),
             Recovered([disk EXCEPT ![k] = left.disk])
      PROVE  ServiceInv'
  <2>1. /\ k \in Mapped /\ arc[map[k]] \in Asset
        /\ disk[k] \subseteq {arc[map[k]].dir, "tombstone"}
    BY <1>5 DEF ServiceInv, TypeOK, SweptUnpinned, Mapped, Homes, AssetsKeyed
  <2>2. arc[map[k]].dir \in {"staged", "final"}
    BY <2>1 DEF Asset
  <2>3. left.disk \subseteq {arc[map[k]].dir, "tombstone"}
    BY <1>5, <2>1, <2>2, DiscardedShape
  <2> DEFINE d == [disk EXCEPT ![k] = left.disk]
  <2>4. d \in Dirs
    BY <1>1, <2>2, <2>3
  <2>5. \A j \in Keys : d[j] # {} => map[j] # None
    BY <1>1, <1>2, <2>1 DEF Mapped
  <2> HIDE DEF d
  <2> QED  BY <1>1, <1>3, <1>5, <2>4, <2>5, RecoveredKeeps DEF d
<1>6. ASSUME NEW k \in Keys, Creatable(k), NEW left \in Created(disk[k]),
             Recovered([disk EXCEPT ![k] = left.disk])
      PROVE  ServiceInv'
  <2>1. disk[k] = {}
    BY <1>2, <1>6 DEF Creatable
  <2>2. left.disk \in {{}, {"staged"}, {"final"}}
    BY <1>6, <2>1, CreatedShape
  <2> DEFINE d == [disk EXCEPT ![k] = left.disk]
  <2> DEFINE m == [j \in Keys |-> IF j = k THEN k ELSE map[j]]
  <2>3. d \in Dirs
    BY <1>1, <2>2
  <2>4. \A j \in Keys : d[j] # {} => m[j] # None
    BY <1>1, <1>2, NoneAssumption
  <2>5. Reserved(m) <= Reserved(map) + Size[k]
    <3>1. \A j \in Keys : m[j] # None => map[j] # None \/ j = k
      OBVIOUS
    <3> HIDE DEF m
    <3> QED  BY <3>1, ReservedOneMore
  <2>6. Reserved(m) \in Nat /\ Reserved(map) \in Nat /\ Size[k] \in Nat /\ limit \in Nat
    BY BytesFinite, SizeAssumption DEF ServiceInv, TypeOK
  <2>7. Reserved(map) + Size[k] <= limit
    BY <1>6 DEF Creatable, Admits
  <2>8. Reserved(m) <= limit
    BY <2>5, <2>6, <2>7
  <2> HIDE DEF d, m
  <2> QED  BY <1>1, <1>6, <2>3, <2>4, <2>8, RecoveredKeeps DEF d
<1>7. CASE Restart
  BY <1>4, <1>7 DEF Restart
<1>8. CASE Crash
  <2>1. CASE Recovered(disk)
    BY <1>4, <2>1
  <2>2. CASE \E k \in Keys :
               \E left \in (IF k \in sweep THEN Discarded(disk[k], arc[map[k]].dir) ELSE {})
                          \cup (IF Serving /\ Creatable(k) THEN Created(disk[k]) ELSE {}) :
                  Recovered([disk EXCEPT ![k] = left.disk])
    <3>1. PICK k \in Keys :
               \E left \in (IF k \in sweep THEN Discarded(disk[k], arc[map[k]].dir) ELSE {})
                          \cup (IF Serving /\ Creatable(k) THEN Created(disk[k]) ELSE {}) :
                  Recovered([disk EXCEPT ![k] = left.disk])
      BY <2>2
    <3>2. PICK left \in (IF k \in sweep THEN Discarded(disk[k], arc[map[k]].dir) ELSE {})
                          \cup (IF Serving /\ Creatable(k) THEN Created(disk[k]) ELSE {}) :
                  Recovered([disk EXCEPT ![k] = left.disk])
      BY <3>1
    <3>3. CASE k \in sweep /\ left \in Discarded(disk[k], arc[map[k]].dir)
      BY <1>5, <3>2, <3>3
    <3>4. CASE Creatable(k) /\ left \in Created(disk[k])
      BY <1>6, <3>2, <3>4
    <3> QED  BY <3>2, <3>3, <3>4
  <2> QED  BY <1>8, <2>1, <2>2 DEF Crash
<1> QED  BY <1>7, <1>8

-----------------------------------------------------------------------------
(* The theorems                                                              *)

LEMMA NextKeepsInv == ServiceInv /\ [Next]_vars => ServiceInv'
<1> SUFFICES ASSUME ServiceInv, [Next]_vars PROVE ServiceInv'
  OBVIOUS
<1>1. ASSUME NEW t \in Tokens, NEW k \in Keys,
             RegisterShared(t, k) \/ RegisterIdle(t, k) \/ RegisterNew(t, k)
      PROVE  ServiceInv'
  BY <1>1, SharedKeeps, IdleKeeps, NewKeeps
<1>2. ASSUME NEW t \in Tokens, Release(t) PROVE ServiceInv'
  BY <1>2, ReleaseKeeps
<1>3. ASSUME (\E t \in Tokens : RegisterLocal(t)) \/ (\E l \in Limits : SetLimit(l)) \/ Drop
      PROVE  ServiceInv'
  BY <1>3, UserKeeps
<1>4. ASSUME NEW r \in Readers, ReaderEnds(r) \/ \E t \in Tokens : ReaderLooksUp(r, t)
      PROVE  ServiceInv'
  BY <1>4, ReaderKeeps
<1>5. ASSUME NEW i \in Arcs, Owning(i) PROVE ServiceInv'
  BY <1>5, OwningKeeps
<1>6. ASSUME NEW k \in Keys, Discards(k) PROVE ServiceInv'
  BY <1>6, DiscardsKeeps
<1>7. CASE UNCHANGED vars
  <2>1. TypeOK' /\ QuotaHolds' /\ ArtifactsReserved' /\ Homes'
    BY <1>7, SameStorage DEF vars, ServiceInv, TypeOK
  <2>2. HoldersAreCurrent' /\ OwnersRun' /\ SweptUnpinned' /\ LeasesServed'
    BY <1>7 DEF vars, ServiceInv, HoldersAreCurrent, Held, OwnersRun, SweptUnpinned, Unpinned,
       Leases, Streams, LeasesServed, LeasedNotCancelled, LeaseNeverStalls
  <2> QED  BY <2>1, <2>2 DEF ServiceInv
<1> QED
  BY <1>1, <1>2, <1>3, <1>4, <1>5, <1>6, <1>7, SweepStartsKeeps, RestartKeeps DEF Next

LEMMA ServiceInvariant == Spec => []ServiceInv
<1> QED  BY InitServiceInv, NextKeepsInv, PTL DEF Spec

\* For every set of keys, sizes, budgets, leases, readers and crashes: assets
\* reserve no more than the budget, and whatever survives on disk is reserved.
THEOREM SpaceIsAccounted == Spec => []SpaceAccounted
<1>1. ServiceInv => SpaceAccounted
  BY DEF ServiceInv, SpaceAccounted
<1> QED  BY <1>1, ServiceInvariant, PTL

\* Whoever holds an asset holds the current allocation of its key, published on
\* disk, so cleanup deletes nothing under a lease, a reader or a thread.
THEOREM CleanupSparesHolders == Spec => []HoldersAreCurrent
<1>1. ServiceInv => HoldersAreCurrent
  BY DEF ServiceInv
<1> QED  BY <1>1, ServiceInvariant, PTL

\* A leased asset is not cancelled, and has its bytes, a running owner or an error.
THEOREM LeasesAreServed == Spec => []LeasesServed
<1>1. ServiceInv => LeasesServed
  BY DEF ServiceInv
<1> QED  BY <1>1, ServiceInvariant, PTL

-----------------------------------------------------------------------------
(* Induction and recursion over the places of a sequence                     *)

\* A set of naturals that is not empty has a least member.
LEMMA LeastOf ==
    ASSUME NEW T, T \subseteq Nat, T # {}
    PROVE  \E n \in T : \A m \in T : n <= m
<1>1. PICK n \in T : \A m \in T : ~(<<m, n>> \in OpToRel(<, Nat))
  BY NatLessThanWellFounded, WFMin
<1>2. \A m \in T : ~(m < n)
  BY <1>1 DEF OpToRel
<1> QED  BY <1>2

\* Induction up to n, of a set rather than of a formula.
LEMMA Stepwise ==
    ASSUME NEW n \in Nat, NEW P, 0 \in P, \A i \in 1 .. n : i - 1 \in P => i \in P
    PROVE  0 .. n \subseteq P
<1> SUFFICES ASSUME NEW k \in 0 .. n, k \notin P PROVE FALSE
  OBVIOUS
<1> DEFINE T == {i \in 0 .. n : i \notin P}
<1>1. PICK m \in T : \A i \in T : m <= i
  <2>1. T \subseteq Nat /\ T # {}
    OBVIOUS
  <2> QED  BY <2>1, LeastOf
<1>2. m \in 1 .. n /\ m \notin P
  BY <1>1
<1>3. m - 1 \in 0 .. n /\ m - 1 \notin T
  BY <1>1, <1>2
<1>4. m - 1 \in P
  BY <1>3
<1> QED  BY <1>2, <1>4

\* A function can be defined by recursion: some function does what is asked.
Runs(f, n, base, next) == f[0] = base /\ \A i \in 1 .. n : f[i] = next[<<i, f[i - 1]>>]

LEMMA Recursion ==
    ASSUME NEW n \in Nat, NEW S, NEW base \in S, NEW next \in [(1 .. n) \X S -> S]
    PROVE  \E f \in [0 .. n -> S] : Runs(f, n, base, next)
<1> DEFINE Good(k) == \E f \in [0 .. n -> S] :
                         f[0] = base /\ \A i \in 1 .. k : f[i] = next[<<i, f[i - 1]>>]
           P == {k \in 0 .. n : Good(k)}
<1>1. 0 \in P
  <2> DEFINE f == [i \in 0 .. n |-> base]
  <2>1. f \in [0 .. n -> S] /\ f[0] = base
    OBVIOUS
  <2> HIDE DEF f
  <2>2. Good(0)
    BY <2>1
  <2> QED  BY <2>2
<1>2. ASSUME NEW k \in 1 .. n, k - 1 \in P PROVE k \in P
  <2>1. PICK f \in [0 .. n -> S] : f[0] = base /\ \A i \in 1 .. k - 1 : f[i] = next[<<i, f[i - 1]>>]
    BY <1>2
  <2> DEFINE v == next[<<k, f[k - 1]>>]
             g == [f EXCEPT ![k] = v]
  <2>2. k - 1 \in 0 .. n /\ k \in 0 .. n
    OBVIOUS
  <2>3. <<k, f[k - 1]>> \in (1 .. n) \X S
    BY <2>1, <2>2
  <2>4. v \in S
    BY <2>3
  <2> HIDE DEF v
  <2>5. g \in [0 .. n -> S] /\ g[k] = v /\ \A i \in 0 .. n : i # k => g[i] = f[i]
    BY <2>1, <2>2, <2>4
  <2> HIDE DEF g
  <2>6. g[0] = base
    BY <2>1, <2>5
  <2>7. ASSUME NEW i \in 1 .. k PROVE g[i] = next[<<i, g[i - 1]>>]
    <3>1. CASE i = k
      <4>1. g[k - 1] = f[k - 1]
        BY <2>2, <2>5
      <4> QED  BY <2>5, <3>1, <4>1 DEF v
    <3>2. CASE i # k
      <4>1. i \in 1 .. k - 1 /\ i \in 0 .. n /\ i - 1 \in 0 .. n /\ i - 1 # k
        BY <3>2
      <4> QED  BY <2>1, <2>5, <4>1
    <3> QED  BY <3>1, <3>2
  <2>8. Good(k)
    BY <2>5, <2>6, <2>7
  <2> QED  BY <2>2, <2>8
<1>3. n \in P
  <2> HIDE DEF P
  <2>1. 0 .. n \subseteq P
    BY <1>1, <1>2, Stepwise
  <2> QED  BY <2>1
<1> QED  BY <1>3 DEF Runs

\* What holds of a prefix of the places that goes on without a gap: it is counted
\* by its last member.
LEMMA PrefixCount ==
    ASSUME NEW n \in Nat, NEW D \in SUBSET (1 .. n), \A i \in D : i = 1 \/ i - 1 \in D
    PROVE  Cardinality(D) \in 0 .. n /\ D = 1 .. Cardinality(D)
<1> DEFINE T == {i \in 1 .. n + 1 : i \notin D}
<1>1. PICK m \in T : \A i \in T : m <= i
  <2>1. T \subseteq Nat /\ n + 1 \in T
    OBVIOUS
  <2> QED  BY <2>1, LeastOf
<1>2. 1 .. m - 1 \subseteq D
  BY <1>1
<1>3. ASSUME NEW i \in D PROVE i < m
  <2>1. SUFFICES ASSUME i >= m PROVE FALSE
    BY <1>1
  <2> DEFINE P == {k \in 0 .. i - m : i - k \in D}
  <2>2. 0 .. i - m \subseteq P
    <3>1. i - m \in Nat /\ 0 \in P
      BY <1>1, <2>1
    <3>2. ASSUME NEW k \in 1 .. i - m, k - 1 \in P PROVE k \in P
      <4>1. i - (k - 1) \in D /\ i - (k - 1) # 1
        BY <1>1, <2>1, <3>2
      <4> QED  BY <1>1, <2>1, <3>2, <4>1
    <3> HIDE DEF P
    <3> QED  BY <3>1, <3>2, Stepwise
  <2>3. i - (i - m) \in D
    BY <1>1, <2>1, <2>2
  <2> QED  BY <1>1, <2>1, <2>3
<1>4. D = 1 .. m - 1
  <2>1. \A i \in D : i \in 1 .. m - 1
    BY <1>1, <1>3
  <2> QED  BY <1>2, <2>1
<1>5. Cardinality(D) = m - 1
  BY <1>1, <1>4, FS_Interval
<1> QED  BY <1>1, <1>4, <1>5

\* What every step of a recursion keeps holds of every place.
LEMMA StepsKeep ==
    ASSUME NEW n \in Nat, NEW f, NEW S,
           f[0] \in S, \A i \in 1 .. n : f[i - 1] \in S => f[i] \in S
    PROVE  \A i \in 0 .. n : f[i] \in S
<1> DEFINE P == {i \in 0 .. n : f[i] \in S}
<1>1. 0 \in P
  OBVIOUS
<1>2. \A i \in 1 .. n : i - 1 \in P => i \in P
  OBVIOUS
<1>3. 0 .. n \subseteq P
  <2> HIDE DEF P
  <2> QED  BY <1>1, <1>2, Stepwise
<1> QED  BY <1>3

-----------------------------------------------------------------------------
(* What the loops over the intervals do                                      *)

Pairs == [start : Nat, end : Nat]
Growths == [range : Pairs, count : Nat, open : BOOLEAN]

LEMMA AbsorbType ==
    ASSUME NEW g \in Growths, NEW item \in ByteRange
    PROVE  Absorb(g, item) \in Growths
<1> DEFINE low == Smaller(g.range.start, item.start)
           high == Larger(g.range.end, item.end)
<1>1. low \in Nat /\ high \in Nat
  BY TopAssumption DEF Growths, Pairs, ByteRange, Smaller, Larger
<1>2. Absorb(g, item) = IF g.open /\ item.start <= g.range.end
                        THEN [g EXCEPT !.range = [start |-> low, end |-> high], !.count = @ + 1]
                        ELSE [g EXCEPT !.open = FALSE]
  BY DEF Absorb
<1> DEFINE hull == [start |-> low, end |-> high]
<1>3. hull \in Pairs
  BY <1>1 DEF Pairs
<1> HIDE DEF hull
<1>4. g \in [range : Pairs, count : Nat, open : BOOLEAN] /\ g.count + 1 \in Nat
  BY DEF Growths
<1> DEFINE count == g.count + 1
<1> HIDE DEF count
<1>5. [g EXCEPT !.range = hull, !.count = count] \in Growths
  BY <1>3, <1>4 DEF Growths, count
<1>6. [g EXCEPT !.open = FALSE] \in Growths
  BY <1>4 DEF Growths
<1> QED  BY <1>2, <1>5, <1>6 DEF hull, count

LEMMA GrowingIs ==
    ASSUME NEW r \in ByteRange, NEW s \in Seq(ByteRange)
    PROVE  /\ Growing(r, s)[0] = [range |-> r, count |-> 0, open |-> TRUE]
           /\ \A i \in 1 .. Len(s) : Growing(r, s)[i] = Absorb(Growing(r, s)[i - 1], s[i])
           /\ \A i \in 0 .. Len(s) : Growing(r, s)[i] \in Growths
<1> DEFINE n == Len(s)
           base == [range |-> r, count |-> 0, open |-> TRUE]
           next == [p \in (1 .. n) \X Growths |-> Absorb(p[2], s[p[1]])]
<1>1. n \in Nat /\ base \in Growths /\ \A i \in 1 .. n : s[i] \in ByteRange
  BY TopAssumption, LenProperties, ElementOfSeq DEF Growths, Pairs, ByteRange
<1>2. next \in [(1 .. n) \X Growths -> Growths]
  BY <1>1, AbsorbType
<1>3. \A i \in 1 .. n, g \in Growths : next[<<i, g>>] = Absorb(g, s[i])
  OBVIOUS
<1> HIDE DEF next
<1>4. PICK f \in [0 .. n -> Growths] : Runs(f, n, base, next)
  <2>1. n \in Nat /\ base \in Growths
    BY <1>1
  <2> HIDE DEF n, base
  <2> QED  BY <1>2, <2>1, Recursion
<1>5. \A i \in 1 .. n : f[i] = Absorb(f[i - 1], s[i])
  <2> SUFFICES ASSUME NEW i \in 1 .. n PROVE f[i] = Absorb(f[i - 1], s[i])
    OBVIOUS
  <2>1. f[i - 1] \in Growths
    BY <1>1, <1>4
  <2> QED  BY <1>3, <1>4, <2>1 DEF Runs
<1>6. f = [i \in 0 .. n |-> IF i = 0 THEN base ELSE Absorb(f[i - 1], s[i])]
  BY <1>1, <1>4, <1>5 DEF Runs
<1>7. Growing(r, s) = [i \in 0 .. n |-> IF i = 0 THEN base ELSE Absorb(Growing(r, s)[i - 1], s[i])]
  BY <1>6 DEF Growing
<1> DEFINE g == Growing(r, s)
<1>8. g[0] = base /\ \A i \in 1 .. n : g[i] = Absorb(g[i - 1], s[i])
  <2> HIDE DEF base
  <2>1. 0 \in 0 .. n /\ \A i \in 1 .. n : i \in 0 .. n /\ i # 0
    BY <1>1
  <2> QED  BY <1>7, <2>1
<1>9. \A i \in 0 .. n : g[i] \in Growths
  <2>1. \A i \in 1 .. n : g[i - 1] \in Growths => g[i] \in Growths
    BY <1>1, <1>8, AbsorbType
  <2> HIDE DEF g, n
  <2> QED  BY <1>1, <1>8, <2>1, StepsKeep
<1> QED  BY <1>8, <1>9

\* The intervals are in order, with a byte between any two.
Apart(s) == \A i, j \in DOMAIN s : i < j => s[i].end < s[j].start

\* What a range has grown to once it met i of the intervals that end after its start.
Grown(r, s, i, g) ==
    /\ g.count \in 0 .. i /\ g.range \in ByteRange /\ g.range.start <= r.start
    /\ IF g.open THEN g.count = i ELSE g.count < i /\ g.range.end < s[g.count + 1].start
    /\ g.range.start = r.start \/ \E k \in 1 .. i : g.range.start = s[k].start
    /\ \A b \in Int : b \in BytesOf(g.range) <=>
                        b \in BytesOf(r) \/ \E k \in 1 .. g.count : b \in BytesOf(s[k])

LEMMA MinMax ==
    ASSUME NEW a \in Nat, NEW b \in Nat
    PROVE  /\ Smaller(a, b) \in {a, b} /\ Smaller(a, b) <= a /\ Smaller(a, b) <= b
           /\ Larger(a, b) \in {a, b} /\ Larger(a, b) >= a /\ Larger(a, b) >= b
           /\ Smaller(a, b) \in Nat /\ Larger(a, b) \in Nat
<1> QED  BY DEF Smaller, Larger

\* Two ranges that touch or overlap are one range.
LEMMA HullBytes ==
    ASSUME NEW p \in Nat, NEW q \in Nat, NEW u \in Nat, NEW v \in Nat, u <= q, p <= v,
           p < q, u < v, NEW b \in Int
    PROVE  b \in Smaller(p, u) .. Larger(q, v) - 1 <=> b \in p .. q - 1 \/ b \in u .. v - 1
<1> QED  BY DEF Smaller, Larger

LEMMA GrowsOn ==
    ASSUME NEW r \in ByteRange, NEW s \in Seq(ByteRange), \A k \in 1 .. Len(s) : r.start <= s[k].end,
           NEW i \in 1 .. Len(s), NEW g \in Growths, Grown(r, s, i - 1, g)
    PROVE  Grown(r, s, i, Absorb(g, s[i]))
<1> DEFINE item == s[i]
           a == Absorb(g, item)
<1>1. item \in ByteRange /\ r.start <= item.end /\ i \in Nat \ {0}
  BY LenProperties, ElementOfSeq
<1>2. /\ g.count \in 0 .. i - 1 /\ g.range \in ByteRange /\ g.range.start <= r.start
      /\ g.open \in BOOLEAN
  BY DEF Grown, Growths
<1>3. /\ item.start \in Nat /\ item.end \in Nat /\ item.start < item.end /\ item.end <= Top
      /\ g.range.start \in Nat /\ g.range.end \in Nat /\ g.range.start < g.range.end
      /\ g.range.end <= Top /\ r.start \in Nat /\ r.end \in Nat /\ Top \in Nat
      /\ g.count \in Nat
  BY <1>1, <1>2, TopAssumption DEF ByteRange
<1>4. CASE g.open /\ item.start <= g.range.end
  <2> DEFINE low == Smaller(g.range.start, item.start)
             high == Larger(g.range.end, item.end)
             hull == [start |-> low, end |-> high]
  <2>1. /\ low \in Nat /\ high \in Nat /\ low <= g.range.start /\ low <= item.start
        /\ high >= g.range.end /\ high >= item.end
        /\ low \in {g.range.start, item.start} /\ high \in {g.range.end, item.end}
    BY <1>3, MinMax
  <2>2. a = [g EXCEPT !.range = hull, !.count = @ + 1]
    BY <1>4 DEF Absorb
  <2> HIDE DEF low, high
  <2>3. hull \in ByteRange /\ hull.start = low /\ hull.end = high
    BY <1>3, <2>1 DEF ByteRange
  <2>4. a.range = hull /\ a.count = i /\ a.open
    <3>1. g.count = i - 1
      BY <1>4 DEF Grown
    <3> HIDE DEF hull, item
    <3> QED  BY <1>1, <1>3, <1>4, <2>2, <3>1 DEF Growths
  <2> HIDE DEF a
  <2>5. ASSUME NEW b \in Int
        PROVE  b \in BytesOf(hull) <=> b \in BytesOf(g.range) \/ b \in BytesOf(item)
    <3>1. g.range.start <= item.end
      BY <1>1, <1>2, <1>3
    <3> HIDE DEF hull, item
    <3>2. b \in Smaller(g.range.start, item.start) .. Larger(g.range.end, item.end) - 1 <=>
             b \in g.range.start .. g.range.end - 1 \/ b \in item.start .. item.end - 1
      BY <1>3, <1>4, <3>1, HullBytes
    <3> QED  BY <2>3, <3>2 DEF BytesOf, low, high
  <2>6. g.count = i - 1
    BY <1>4 DEF Grown
  <2>7. ASSUME NEW b \in Int
        PROVE  b \in BytesOf(a.range) <=>
                 b \in BytesOf(r) \/ \E k \in 1 .. a.count : b \in BytesOf(s[k])
    <3>1. b \in BytesOf(g.range) <=> b \in BytesOf(r) \/ \E k \in 1 .. i - 1 : b \in BytesOf(s[k])
      BY <2>6 DEF Grown
    <3>2. (\E k \in 1 .. i : b \in BytesOf(s[k])) <=>
             b \in BytesOf(item) \/ \E k \in 1 .. i - 1 : b \in BytesOf(s[k])
      <4>1. \A k : k \in 1 .. i <=> k = i \/ k \in 1 .. i - 1
        BY <1>1
      <4> QED  BY <4>1
    <3> QED  BY <2>4, <2>5, <3>1, <3>2
  <2>8. a.range.start = r.start \/ \E k \in 1 .. i : a.range.start = s[k].start
    <3>1. g.range.start = r.start \/ \E k \in 1 .. i - 1 : g.range.start = s[k].start
      BY DEF Grown
    <3> QED  BY <1>1, <2>1, <2>3, <2>4, <3>1
  <2>9. a.range.start <= r.start
    BY <1>2, <1>3, <2>1, <2>3, <2>4
  <2>10. Grown(r, s, i, a)
    <3> HIDE DEF hull
    <3> QED  BY <1>1, <2>3, <2>4, <2>7, <2>8, <2>9 DEF Grown
  <2> QED  BY <2>10 DEF a
<1>5. CASE ~(g.open /\ item.start <= g.range.end)
  <2>1. a = [g EXCEPT !.open = FALSE]
    BY <1>5 DEF Absorb
  <2>2. a.range = g.range /\ a.count = g.count /\ a.open = FALSE
    BY <2>1 DEF Growths
  <2> HIDE DEF a
  <2>3. g.count < i /\ g.range.end < s[g.count + 1].start
    <3>1. CASE g.open
      <4>1. g.count = i - 1 /\ s[g.count + 1] = item
        BY <1>1, <3>1 DEF Grown
      <4> QED  BY <1>1, <1>3, <1>5, <3>1, <4>1
    <3>2. CASE ~g.open
      BY <1>1, <1>3, <3>2 DEF Grown
    <3> QED  BY <3>1, <3>2
  <2>4. g.count \in 0 .. i /\ \A k \in 1 .. i - 1 : k \in 1 .. i
    BY <1>1, <1>2
  <2>5. g.range.start = r.start \/ \E k \in 1 .. i : g.range.start = s[k].start
    BY <2>4 DEF Grown
  <2>6. \A b \in Int : b \in BytesOf(g.range) <=>
                        b \in BytesOf(r) \/ \E k \in 1 .. g.count : b \in BytesOf(s[k])
    BY DEF Grown
  <2>7. Grown(r, s, i, a)
    BY <1>2, <2>2, <2>3, <2>4, <2>5, <2>6 DEF Grown
  <2> QED  BY <2>7 DEF a
<1> QED  BY <1>4, <1>5

LEMMA GrowthIs ==
    ASSUME NEW r \in ByteRange, NEW s \in Seq(ByteRange), \A k \in 1 .. Len(s) : r.start <= s[k].end
    PROVE  Grown(r, s, Len(s), Growing(r, s)[Len(s)])
<1> DEFINE n == Len(s)
           f == Growing(r, s)
           P == {i \in 0 .. n : Grown(r, s, i, f[i])}
<1>1. /\ n \in Nat /\ f[0] = [range |-> r, count |-> 0, open |-> TRUE]
      /\ \A i \in 1 .. n : f[i] = Absorb(f[i - 1], s[i])
      /\ \A i \in 0 .. n : f[i] \in Growths
  BY LenProperties, GrowingIs
<1> HIDE DEF f
<1>2. 0 \in P
  <2>1. f[0].range = r /\ f[0].count = 0 /\ f[0].open
    BY <1>1
  <2>2. r.start \in Nat
    BY DEF ByteRange
  <2>3. Grown(r, s, 0, f[0])
    BY <2>1, <2>2 DEF Grown
  <2> QED  BY <1>1, <2>3
<1>3. ASSUME NEW i \in 1 .. n, i - 1 \in P PROVE i \in P
  <2>1. Grown(r, s, i - 1, f[i - 1]) /\ f[i - 1] \in Growths
    BY <1>1, <1>3
  <2>2. Grown(r, s, i, f[i])
    BY <1>1, <2>1, GrowsOn
  <2> QED  BY <1>1, <2>2
<1>4. 0 .. n \subseteq P
  <2> HIDE DEF P, n
  <2> QED  BY <1>1, <1>2, <1>3, Stepwise
<1>5. Grown(r, s, n, f[n])
  BY <1>1, <1>4
<1> QED  BY <1>5 DEF f

-----------------------------------------------------------------------------
(* Inserting a range                                                         *)

LEMMA CutIs ==
    ASSUME NEW S, NEW s \in Seq(S), NEW m \in 0 .. Len(s), NEW n \in m .. Len(s)
    PROVE  /\ SubSeq(s, m + 1, n) \in Seq(S) /\ Len(SubSeq(s, m + 1, n)) = n - m
           /\ \A i \in 1 .. n - m : SubSeq(s, m + 1, n)[i] = s[m + i]
<1>1. m \in Nat /\ n \in Nat /\ Len(s) \in Nat /\ m <= n /\ n <= Len(s)
  BY LenProperties
<1>2. \A i \in m + 1 .. n : s[i] \in S
  BY <1>1, ElementOfSeq
<1>3. SubSeq(s, m + 1, n) \in Seq(S) /\ Len(SubSeq(s, m + 1, n)) = n - m
  BY <1>1, <1>2, SubSeqProperties
<1>4. \A i \in 1 .. n - m : SubSeq(s, m + 1, n)[i] = s[m + 1 + i - 1]
  BY <1>1, <1>2, <1>3, SubSeqProperties
<1> QED  BY <1>1, <1>3, <1>4

\* partition_point: the intervals that end before a byte come first.
LEMMA EndsBefore ==
    ASSUME NEW s \in Seq(ByteRange), Apart(s), NEW T \in SUBSET (DOMAIN s),
           \A i \in T, j \in DOMAIN s : s[j].end < s[i].end => j \in T
    PROVE  Cardinality(T) \in 0 .. Len(s) /\ T = 1 .. Cardinality(T)
<1>1. Len(s) \in Nat /\ DOMAIN s = 1 .. Len(s)
  BY LenProperties
<1>2. \A i \in T : i = 1 \/ i - 1 \in T
  <2> SUFFICES ASSUME NEW i \in T, i # 1 PROVE i - 1 \in T
    OBVIOUS
  <2>1. i \in DOMAIN s /\ i - 1 \in DOMAIN s /\ i - 1 < i
    BY <1>1
  <2>2. s[i] \in ByteRange /\ s[i - 1] \in ByteRange
    BY <1>1, <2>1, ElementOfSeq
  <2>3. s[i - 1].end < s[i].end
    BY <2>1, <2>2, TopAssumption DEF Apart, ByteRange
  <2> QED  BY <2>1, <2>3
<1> QED  BY <1>1, <1>2, PrefixCount

LEMMA JoinIs ==
    ASSUME NEW S, NEW a \in Seq(S), NEW b \in Seq(S), NEW c, c = a \o b
    PROVE  /\ c \in Seq(S) /\ Len(c) = Len(a) + Len(b)
           /\ \A i \in 1 .. Len(a) : c[i] = a[i]
           /\ \A i \in 1 .. Len(b) : c[Len(a) + i] = b[i]
<1>1. Len(a) \in Nat /\ Len(b) \in Nat
  BY LenProperties
<1>2. c \in Seq(S) /\ Len(c) = Len(a) + Len(b)
  BY ConcatProperties
<1>3. ASSUME NEW i \in 1 .. Len(a) + Len(b)
      PROVE  c[i] = IF i <= Len(a) THEN a[i] ELSE b[i - Len(a)]
  BY ConcatProperties
<1>4. ASSUME NEW i \in 1 .. Len(a) PROVE c[i] = a[i]
  BY <1>1, <1>3
<1>5. ASSUME NEW i \in 1 .. Len(b) PROVE c[Len(a) + i] = b[i]
  <2>1. /\ Len(a) + i \in 1 .. Len(a) + Len(b) /\ ~(Len(a) + i <= Len(a))
        /\ Len(a) + i - Len(a) = i
    BY <1>1
  <2>2. c[Len(a) + i] = IF Len(a) + i <= Len(a) THEN a[Len(a) + i] ELSE b[Len(a) + i - Len(a)]
    BY <1>3, <2>1
  <2> QED  BY <2>1, <2>2
<1> QED  BY <1>2, <1>4, <1>5

\* A splice of one element into a sequence, in the place of those after the first
\* ones and up to the last.
Splice(s, first, last, e) == SubSeq(s, 1, first) \o <<e>> \o SubSeq(s, last + 1, Len(s))

IsSpliced(S, s, first, last, e, out) ==
    /\ out \in Seq(S) /\ Len(out) = first + 1 + (Len(s) - last)
    /\ \A i \in 1 .. first : out[i] = s[i]
    /\ out[first + 1] = e
    /\ \A i \in 1 .. Len(s) - last : out[first + 1 + i] = s[last + i]

LEMMA SpliceIs ==
    ASSUME NEW S, NEW s \in Seq(S), NEW first \in 0 .. Len(s), NEW last \in first .. Len(s),
           NEW e \in S
    PROVE  IsSpliced(S, s, first, last, e, Splice(s, first, last, e))
<1> DEFINE n == Len(s)
           front == SubSeq(s, 1, first)
           mid == <<e>>
           back == SubSeq(s, last + 1, n)
           head == front \o mid
           out == Splice(s, first, last, e)
<1>1. n \in Nat /\ first \in Nat /\ last \in Nat /\ first <= last /\ last <= n
  BY LenProperties
<1>2. front \in Seq(S) /\ Len(front) = first /\ \A i \in 1 .. first : front[i] = s[i]
  <2>1. /\ SubSeq(s, 0 + 1, first) \in Seq(S) /\ Len(SubSeq(s, 0 + 1, first)) = first - 0
        /\ \A i \in 1 .. first - 0 : SubSeq(s, 0 + 1, first)[i] = s[0 + i]
    <3>1. 0 \in 0 .. Len(s) /\ first \in 0 .. Len(s)
      BY <1>1
    <3> QED  BY <3>1, CutIs
  <2> QED  BY <1>1, <2>1
<1>3. back \in Seq(S) /\ Len(back) = n - last /\ \A i \in 1 .. n - last : back[i] = s[last + i]
  <2>1. last \in 0 .. Len(s) /\ Len(s) \in last .. Len(s)
    BY <1>1
  <2> QED  BY <2>1, CutIs
<1>4. mid \in Seq(S) /\ Len(mid) = 1 /\ mid[1] = e
  OBVIOUS
<1> HIDE DEF front, mid, back
<1>5. /\ head \in Seq(S) /\ Len(head) = first + 1
      /\ \A i \in 1 .. first : head[i] = s[i]
      /\ head[first + 1] = e
  <2>1. /\ head \in Seq(S) /\ Len(head) = Len(front) + Len(mid)
        /\ \A i \in 1 .. Len(front) : head[i] = front[i]
        /\ \A i \in 1 .. Len(mid) : head[Len(front) + i] = mid[i]
    <3>1. front \in Seq(S) /\ mid \in Seq(S) /\ head = front \o mid
      BY <1>2, <1>4
    <3> HIDE DEF head
    <3> QED  BY <3>1, JoinIs
  <2>2. 1 \in 1 .. Len(mid)
    BY <1>4
  <2>3. head[Len(front) + 1] = mid[1]
    BY <2>1, <2>2
  <2> HIDE DEF head
  <2> QED  BY <1>2, <1>4, <2>1, <2>3
<1>6. out = head \o back
  BY DEF front, mid, back, Splice
<1> HIDE DEF head, out
<1>7. /\ out \in Seq(S) /\ Len(out) = Len(head) + Len(back)
      /\ \A i \in 1 .. Len(head) : out[i] = head[i]
      /\ \A i \in 1 .. Len(back) : out[Len(head) + i] = back[i]
  <2>1. head \in Seq(S) /\ back \in Seq(S) /\ out = head \o back
    BY <1>3, <1>5, <1>6
  <2> DEFINE all == head \o back
  <2>2. all = head \o back
    OBVIOUS
  <2> HIDE DEF all
  <2>3. /\ all \in Seq(S) /\ Len(all) = Len(head) + Len(back)
        /\ \A i \in 1 .. Len(head) : all[i] = head[i]
        /\ \A i \in 1 .. Len(back) : all[Len(head) + i] = back[i]
    BY <2>1, <2>2, JoinIs
  <2> QED  BY <2>1, <2>2, <2>3
<1>8. \A i \in 1 .. first + 1 : out[i] = head[i]
  BY <1>5, <1>7
<1>9. (\A i \in 1 .. first : out[i] = s[i]) /\ out[first + 1] = e
  <2>1. first + 1 \in 1 .. first + 1 /\ \A i \in 1 .. first : i \in 1 .. first + 1
    BY <1>1
  <2> QED  BY <1>5, <1>8, <2>1
<1>10. ASSUME NEW i \in 1 .. n - last PROVE out[first + 1 + i] = s[last + i]
  BY <1>3, <1>5, <1>7
<1>11. /\ out \in Seq(S) /\ Len(out) = first + 1 + (n - last)
  BY <1>3, <1>5, <1>7
<1>12. IsSpliced(S, s, first, last, e, out)
  BY <1>9, <1>10, <1>11 DEF IsSpliced
<1> QED  BY <1>12 DEF out

\* Inserting is a splice: what ends before the range stays, what it absorbed gives
\* way to it, and the rest follows.
Spliced(s, r, first, last, hull) ==
    /\ first \in 0 .. Len(s) /\ last \in first .. Len(s) /\ hull \in ByteRange
    /\ Insert(s, r) = Splice(s, first, last, hull)
    /\ \A i \in 1 .. first : s[i].end < hull.start
    /\ \A i \in 1 .. Len(s) - last : hull.end < s[last + i].start
    /\ \A b \in Int : b \in BytesOf(hull) <=>
         b \in BytesOf(r) \/ \E k \in first + 1 .. last : b \in BytesOf(s[k])

LEMMA InsertIs ==
    ASSUME NEW s \in Seq(ByteRange), Apart(s), NEW r \in ByteRange
    PROVE  \E first, last, hull : Spliced(s, r, first, last, hull)
<1> DEFINE n == Len(s)
           T == {i \in DOMAIN s : s[i].end < r.start}
           first == Cardinality(T)
           t == SubSeq(s, first + 1, n)
           g == Growing(r, t)[Len(t)]
           last == first + g.count
           out == Insert(s, r)
           hull == g.range
<1>1. /\ n \in Nat /\ DOMAIN s = 1 .. n /\ \A i \in 1 .. n : s[i] \in ByteRange
      /\ r.start \in Nat /\ \A i \in 1 .. n : s[i].start \in Nat /\ s[i].end \in Nat
  BY LenProperties, ElementOfSeq, TopAssumption DEF ByteRange
<1>2. out = Splice(s, first, last, hull)
  BY DEF Insert, Before, Splice
<1>3. first \in 0 .. n /\ T = 1 .. first
  <2>1. \A i \in T, j \in DOMAIN s : s[j].end < s[i].end => j \in T
    BY <1>1
  <2> QED  BY <2>1, EndsBefore
<1>4. \A i \in 1 .. n : i <= first <=> s[i].end < r.start
  BY <1>1, <1>3
<1> HIDE DEF T, first
<1>5. /\ t \in Seq(ByteRange) /\ Len(t) = n - first
      /\ \A i \in 1 .. n - first : t[i] = s[first + i]
  <2>1. first \in 0 .. Len(s) /\ Len(s) \in first .. Len(s)
    BY <1>1, <1>3
  <2> HIDE DEF first
  <2> QED  BY <2>1, CutIs
<1>6. \A k \in 1 .. Len(t) : r.start <= t[k].end
  <2> HIDE DEF t
  <2> SUFFICES ASSUME NEW k \in 1 .. n - first PROVE r.start <= t[k].end
    BY <1>5
  <2>1. first + k \in 1 .. n /\ ~(first + k <= first)
    BY <1>1, <1>3
  <2>2. ~(s[first + k].end < r.start)
    BY <1>4, <2>1
  <2> QED  BY <1>1, <1>5, <2>1, <2>2
<1> HIDE DEF t
<1>7. Grown(r, t, Len(t), g)
  BY <1>5, <1>6, GrowthIs
<1> HIDE DEF g
<1>8. /\ g.count \in 0 .. n - first /\ g.range \in ByteRange
      /\ g.count < n - first => g.range.end < s[last + 1].start
      /\ g.range.start = r.start \/ \E k \in 1 .. n - first : g.range.start = s[first + k].start
  <2>1. /\ g.count \in 0 .. Len(t) /\ g.range \in ByteRange
        /\ IF g.open THEN g.count = Len(t)
           ELSE g.count < Len(t) /\ g.range.end < t[g.count + 1].start
        /\ g.range.start = r.start \/ \E k \in 1 .. Len(t) : g.range.start = t[k].start
    BY <1>7 DEF Grown
  <2>2. g.count < n - first => g.range.end < t[g.count + 1].start
    BY <1>1, <1>3, <1>5, <2>1
  <2>3. g.count < n - first => t[g.count + 1] = s[first + (g.count + 1)]
    BY <1>1, <1>3, <1>5, <2>1
  <2>4. first + (g.count + 1) = last + 1
    BY <1>1, <1>3, <1>5, <2>1
  <2> QED  BY <1>5, <2>1, <2>2, <2>3, <2>4
<1>9. last \in 0 .. n /\ first <= last
  BY <1>1, <1>3, <1>8
<1> HIDE DEF out, hull
<1> HIDE DEF n, last
<1>11. \A i \in 1 .. first : s[i].end < g.range.start
  <2> SUFFICES ASSUME NEW i \in 1 .. first PROVE s[i].end < g.range.start
    OBVIOUS
  <2>1. i \in 1 .. n /\ s[i].end < r.start
    BY <1>1, <1>3, <1>4
  <2>2. ASSUME NEW k \in 1 .. n - first PROVE s[i].end < s[first + k].start
    <3>1. first + k \in 1 .. n /\ i < first + k
      BY <1>1, <1>3
    <3> QED  BY <1>1, <2>1, <3>1 DEF Apart
  <2> QED  BY <1>8, <2>1, <2>2
<1>12. \A i \in 1 .. n - last : g.range.end < s[last + i].start
  <2> SUFFICES ASSUME NEW i \in 1 .. n - last PROVE g.range.end < s[last + i].start
    OBVIOUS
  <2>1. last \in Nat /\ n - last \in Nat /\ last + 1 \in 1 .. n /\ last + i \in 1 .. n
    BY <1>1, <1>9
  <2>2. g.range.end < s[last + 1].start
    BY <1>1, <1>3, <1>8, <2>1 DEF last
  <2>3. i = 1 \/ last + 1 < last + i
    BY <2>1
  <2>4. s[last + 1].start < s[last + 1].end /\ g.range.end \in Nat
    <3>1. s[last + 1] \in ByteRange
      BY <1>1, <2>1
    <3> QED  BY <1>8, <3>1, TopAssumption DEF ByteRange
  <2>5. CASE i # 1
    <3>1. s[last + 1].end < s[last + i].start
      BY <1>1, <2>1, <2>3, <2>5 DEF Apart
    <3>2. s[last + i].start \in Nat /\ s[last + 1].start \in Nat /\ s[last + 1].end \in Nat
      BY <1>1, <2>1
    <3> QED  BY <2>2, <2>4, <3>1, <3>2
  <2> QED  BY <2>2, <2>5
<1>13. \A b \in Int : b \in BytesOf(g.range) <=>
         b \in BytesOf(r) \/ \E k \in first + 1 .. last : b \in BytesOf(s[k])
  <2> SUFFICES ASSUME NEW b \in Int
               PROVE  b \in BytesOf(g.range) <=>
                        b \in BytesOf(r) \/ \E k \in first + 1 .. last : b \in BytesOf(s[k])
    OBVIOUS
  <2>1. b \in BytesOf(g.range) <=> b \in BytesOf(r) \/ \E k \in 1 .. g.count : b \in BytesOf(t[k])
    BY <1>7 DEF Grown
  <2>2. \A k \in 1 .. g.count : t[k] = s[first + k] /\ first + k \in first + 1 .. last
    BY <1>1, <1>3, <1>5, <1>8 DEF last
  <2>3. \A k \in first + 1 .. last : k - first \in 1 .. g.count /\ first + (k - first) = k
    BY <1>1, <1>3, <1>8 DEF last
  <2>4. (\E k \in 1 .. g.count : b \in BytesOf(t[k])) <=>
          \E k \in first + 1 .. last : b \in BytesOf(s[k])
    <3>1. ASSUME NEW k \in 1 .. g.count, b \in BytesOf(t[k])
          PROVE  \E j \in first + 1 .. last : b \in BytesOf(s[j])
      BY <2>2, <3>1
    <3>2. ASSUME NEW j \in first + 1 .. last, b \in BytesOf(s[j])
          PROVE  \E k \in 1 .. g.count : b \in BytesOf(t[k])
      BY <2>2, <2>3, <3>2
    <3> QED  BY <3>1, <3>2
  <2> QED  BY <2>1, <2>4
<1>14. hull \in ByteRange /\ first \in 0 .. Len(s) /\ last \in first .. Len(s)
  BY <1>1, <1>3, <1>8, <1>9 DEF hull, n
<1>15. Spliced(s, r, first, last, hull)
  BY <1>2, <1>11, <1>12, <1>13, <1>14 DEF Spliced, hull, n, out
<1> QED  BY <1>15

\* Insertion keeps the intervals canonical and adds exactly the bytes of the range.
LEMMA InsertKeeps ==
    ASSUME NEW s \in Seq(ByteRange), Apart(s), NEW r \in ByteRange
    PROVE  /\ Insert(s, r) \in Seq(ByteRange) /\ Apart(Insert(s, r))
           /\ Denotes(Insert(s, r)) = Denotes(s) \cup BytesOf(r)
<1> DEFINE n == Len(s)
           out == Insert(s, r)
<1>1. PICK first, last, hull : Spliced(s, r, first, last, hull)
  BY InsertIs
<1>2. /\ n \in Nat /\ DOMAIN s = 1 .. n /\ \A i \in 1 .. n : s[i] \in ByteRange
      /\ \A i \in 1 .. n : s[i].start \in Nat /\ s[i].end \in Nat /\ s[i].start < s[i].end
  BY LenProperties, ElementOfSeq, TopAssumption DEF ByteRange
<1>3. /\ first \in 0 .. n /\ last \in first .. n /\ hull \in ByteRange
      /\ first \in Nat /\ last \in Nat /\ last <= n /\ first <= last
      /\ hull.start \in Nat /\ hull.end \in Nat /\ hull.start < hull.end
  BY <1>1, <1>2, TopAssumption DEF Spliced, ByteRange
<1>4. /\ out \in Seq(ByteRange) /\ Len(out) = first + 1 + (n - last)
      /\ \A i \in 1 .. first : out[i] = s[i]
      /\ out[first + 1] = hull
      /\ \A i \in 1 .. n - last : out[first + 1 + i] = s[last + i]
  <2>1. out = Splice(s, first, last, hull)
    BY <1>1 DEF Spliced
  <2>2. first \in 0 .. Len(s) /\ last \in first .. Len(s) /\ hull \in ByteRange
    BY <1>3
  <2>3. IsSpliced(ByteRange, s, first, last, hull, Splice(s, first, last, hull))
    BY <2>2, SpliceIs
  <2>4. IsSpliced(ByteRange, s, first, last, hull, out)
    BY <2>1, <2>3
  <2> HIDE DEF out
  <2> QED  BY <2>4 DEF IsSpliced
<1>5. /\ \A i \in 1 .. first : s[i].end < hull.start
      /\ \A i \in 1 .. n - last : hull.end < s[last + i].start
      /\ \A b \in Int : b \in BytesOf(hull) <=>
           b \in BytesOf(r) \/ \E k \in first + 1 .. last : b \in BytesOf(s[k])
  BY <1>1 DEF Spliced
<1> HIDE DEF out, n
<1>6. DOMAIN out = 1 .. first + 1 + (n - last)
  BY <1>4, LenProperties
<1>7. ASSUME NEW i \in DOMAIN out
      PROVE  \/ i \in 1 .. first
             \/ i = first + 1
             \/ i - (first + 1) \in 1 .. n - last /\ i = first + 1 + (i - (first + 1))
  BY <1>2, <1>3, <1>6
<1>8. ASSUME NEW i \in DOMAIN out, NEW j \in DOMAIN out, i < j
      PROVE  out[i].end < out[j].start
  <2> DEFINE k == i - (first + 1)
             l == j - (first + 1)
  <2>1. CASE i \in 1 .. first /\ j \in 1 .. first
    <3>1. i \in DOMAIN s /\ j \in DOMAIN s
      BY <1>2, <1>3, <2>1
    <3> QED  BY <1>4, <1>8, <2>1, <3>1 DEF Apart
  <2>2. CASE i \in 1 .. first /\ j = first + 1
    BY <1>4, <1>5, <2>2
  <2>3. CASE i \in 1 .. first /\ l \in 1 .. n - last /\ j = first + 1 + l
    <3>1. i \in DOMAIN s /\ last + l \in DOMAIN s /\ i < last + l
      BY <1>2, <1>3, <2>3
    <3> HIDE DEF l
    <3> QED  BY <1>4, <2>3, <3>1 DEF Apart
  <2>4. CASE i = first + 1 /\ l \in 1 .. n - last /\ j = first + 1 + l
    <3> HIDE DEF l
    <3> QED  BY <1>4, <1>5, <2>4
  <2>5. CASE k \in 1 .. n - last /\ i = first + 1 + k /\ l \in 1 .. n - last /\ j = first + 1 + l
    <3>1. last + k \in DOMAIN s /\ last + l \in DOMAIN s /\ last + k < last + l
      BY <1>2, <1>3, <1>8, <2>5
    <3> HIDE DEF k, l
    <3> QED  BY <1>4, <2>5, <3>1 DEF Apart
  <2>6. i = first + 1 => ~(j \in 1 .. first) /\ j # first + 1
    BY <1>3, <1>6, <1>8
  <2>7. i - (first + 1) \in 1 .. n - last => ~(j \in 1 .. first) /\ j # first + 1
    BY <1>3, <1>6, <1>8
  <2> QED  BY <1>7, <2>1, <2>2, <2>3, <2>4, <2>5, <2>6, <2>7
<1>9. ASSUME NEW b \in Int
      PROVE  (\E i \in DOMAIN out : b \in BytesOf(out[i])) <=>
               b \in BytesOf(r) \/ \E i \in DOMAIN s : b \in BytesOf(s[i])
  <2>1. ASSUME NEW i \in DOMAIN out, b \in BytesOf(out[i])
        PROVE  b \in BytesOf(r) \/ \E k \in DOMAIN s : b \in BytesOf(s[k])
    <3> DEFINE k == i - (first + 1)
    <3>1. CASE i \in 1 .. first
      <4>1. i \in DOMAIN s
        BY <1>2, <1>3, <3>1
      <4> QED  BY <1>4, <2>1, <3>1, <4>1
    <3>2. CASE i = first + 1
      <4>1. \A m \in first + 1 .. last : m \in DOMAIN s
        BY <1>2, <1>3
      <4> QED  BY <1>4, <1>5, <2>1, <3>2, <4>1
    <3>3. CASE k \in 1 .. n - last /\ i = first + 1 + k
      <4>1. last + k \in DOMAIN s
        BY <1>2, <1>3, <3>3
      <4> HIDE DEF k
      <4>2. out[i] = s[last + k]
        BY <1>4, <3>3
      <4> QED  BY <2>1, <4>1, <4>2
    <3> QED  BY <1>7, <3>1, <3>2, <3>3
  <2>2. first + 1 \in DOMAIN out /\ \A m \in 1 .. first : m \in DOMAIN out
    BY <1>2, <1>3, <1>6
  <2>3. ASSUME b \in BytesOf(r) PROVE \E i \in DOMAIN out : b \in BytesOf(out[i])
    BY <1>4, <1>5, <2>2, <2>3
  <2>4. ASSUME NEW k \in DOMAIN s, b \in BytesOf(s[k])
        PROVE  \E i \in DOMAIN out : b \in BytesOf(out[i])
    <3>1. CASE k \in 1 .. first
      BY <1>4, <2>2, <2>4, <3>1
    <3>2. CASE k \in first + 1 .. last
      BY <1>4, <1>5, <2>2, <2>4, <3>2
    <3>3. CASE k \in last + 1 .. n
      <4> DEFINE m == k - last
      <4>1. m \in 1 .. n - last /\ last + m = k /\ first + 1 + m \in DOMAIN out
        BY <1>2, <1>3, <1>6, <3>3
      <4> HIDE DEF m
      <4>2. out[first + 1 + m] = s[k]
        BY <1>4, <4>1
      <4> QED  BY <2>4, <4>1, <4>2
    <3>4. k \in 1 .. first \/ k \in first + 1 .. last \/ k \in last + 1 .. n
      BY <1>2, <1>3
    <3> QED  BY <3>1, <3>2, <3>3, <3>4
  <2> QED  BY <2>1, <2>3, <2>4
<1>10. \A b : b \in Denotes(out) => b \in Int
  <2> SUFFICES ASSUME NEW i \in DOMAIN out, NEW b \in BytesOf(out[i]) PROVE b \in Int
    BY DEF Denotes
  <2>1. out[i] \in ByteRange
    BY <1>4, <1>6, ElementOfSeq
  <2>2. out[i].start \in Int /\ out[i].end - 1 \in Int
    BY <2>1, TopAssumption DEF ByteRange
  <2> QED  BY <2>2 DEF BytesOf
<1>11. \A b : b \in Denotes(s) \cup BytesOf(r) => b \in Int
  <2>1. ASSUME NEW i \in DOMAIN s, NEW b \in BytesOf(s[i]) PROVE b \in Int
    <3>1. s[i].start \in Int /\ s[i].end - 1 \in Int
      BY <1>2
    <3> QED  BY <3>1 DEF BytesOf
  <2>2. ASSUME NEW b \in BytesOf(r) PROVE b \in Int
    <3>1. r.start \in Int /\ r.end - 1 \in Int
      BY TopAssumption DEF ByteRange
    <3> QED  BY <3>1 DEF BytesOf
  <2> QED  BY <2>1, <2>2 DEF Denotes
<1>12. Denotes(out) = Denotes(s) \cup BytesOf(r)
  <2>1. ASSUME NEW b PROVE b \in Denotes(out) <=> b \in Denotes(s) \cup BytesOf(r)
    <3>1. CASE b \in Int
      BY <1>9, <3>1 DEF Denotes
    <3>2. CASE b \notin Int
      BY <1>10, <1>11, <3>2
    <3> QED  BY <3>1, <3>2
  <2> QED  BY <2>1
<1> QED  BY <1>4, <1>8, <1>12 DEF out, Apart

-----------------------------------------------------------------------------
(* The queries                                                               *)

LEMMA RangeBytes ==
    ASSUME NEW r \in ByteRange
    PROVE  /\ r.start \in Nat /\ r.end \in Nat /\ r.start < r.end /\ r.end <= Top /\ Top \in Nat
           /\ \A b : b \in BytesOf(r) <=> b \in Int /\ r.start <= b /\ b < r.end
<1>1. r.start \in Nat /\ r.end \in Nat /\ r.start < r.end /\ r.end <= Top /\ Top \in Nat
  BY TopAssumption DEF ByteRange
<1>2. ASSUME NEW b PROVE b \in BytesOf(r) <=> b \in Int /\ r.start <= b /\ b < r.end
  BY <1>1 DEF BytesOf
<1> QED  BY <1>1, <1>2

LEMMA SortedBytes ==
    ASSUME NEW s \in Seq(ByteRange)
    PROVE  /\ Len(s) \in Nat /\ DOMAIN s = 1 .. Len(s) /\ Top \in Nat
           /\ \A i \in 1 .. Len(s) : /\ s[i] \in ByteRange /\ s[i].start \in Nat /\ s[i].end \in Nat
                                     /\ s[i].start < s[i].end /\ s[i].end <= Top
           /\ \A b : b \in Denotes(s) <=>
                b \in Int /\ \E i \in 1 .. Len(s) : s[i].start <= b /\ b < s[i].end
<1>1. Len(s) \in Nat /\ DOMAIN s = 1 .. Len(s) /\ \A i \in 1 .. Len(s) : s[i] \in ByteRange
  BY LenProperties, ElementOfSeq
<1>2. ASSUME NEW i \in 1 .. Len(s)
      PROVE  /\ s[i] \in ByteRange /\ s[i].start \in Nat /\ s[i].end \in Nat
             /\ s[i].start < s[i].end /\ s[i].end <= Top
             /\ \A b : b \in BytesOf(s[i]) <=> b \in Int /\ s[i].start <= b /\ b < s[i].end
  BY <1>1, RangeBytes
<1>3. ASSUME NEW b
      PROVE  b \in Denotes(s) <=>
               b \in Int /\ \E i \in 1 .. Len(s) : s[i].start <= b /\ b < s[i].end
  BY <1>1, <1>2 DEF Denotes
<1> QED  BY <1>1, <1>2, <1>3, TopAssumption

\* Containment is decided by one interval, the first that ends after the start.
LEMMA ContainsIs ==
    ASSUME NEW s \in Seq(ByteRange), Apart(s), NEW r \in ByteRange
    PROVE  Contains(s, r) <=> BytesOf(r) \subseteq Denotes(s)
<1> DEFINE n == Len(s)
           T == {i \in DOMAIN s : s[i].end <= r.start}
           first == Cardinality(T)
           index == first + 1
<1>1. /\ n \in Nat /\ DOMAIN s = 1 .. n
      /\ \A i \in 1 .. n : /\ s[i] \in ByteRange /\ s[i].start \in Nat /\ s[i].end \in Nat
                           /\ s[i].start < s[i].end
      /\ \A b : b \in Denotes(s) <=>
           b \in Int /\ \E i \in 1 .. n : s[i].start <= b /\ b < s[i].end
  BY SortedBytes
<1>2. /\ r.start \in Nat /\ r.end \in Nat /\ r.start < r.end
      /\ \A b : b \in BytesOf(r) <=> b \in Int /\ r.start <= b /\ b < r.end
  BY RangeBytes
<1>3. Contains(s, r) <=> index \in 1 .. n /\ s[index].start <= r.start /\ s[index].end >= r.end
  BY <1>1 DEF Contains, Before
<1>4. first \in 0 .. n /\ T = 1 .. first
  <2>1. \A i \in T, j \in DOMAIN s : s[j].end < s[i].end => j \in T
    BY <1>1, <1>2
  <2> QED  BY <2>1, EndsBefore
<1>5. \A i \in 1 .. n : i <= first <=> s[i].end <= r.start
  BY <1>1, <1>4
<1>6. \A i, j \in 1 .. n : i < j => s[i].end < s[j].start
  BY <1>1 DEF Apart
<1> HIDE DEF T, first, n
<1>7. ASSUME Contains(s, r), NEW b \in BytesOf(r) PROVE b \in Denotes(s)
  <2>1. index \in 1 .. n /\ s[index].start <= r.start /\ s[index].end >= r.end
    BY <1>3, <1>7
  <2>2. b \in Int /\ r.start <= b /\ b < r.end
    BY <1>2
  <2> HIDE DEF index
  <2>3. s[index].start <= b /\ b < s[index].end
    BY <1>1, <1>2, <2>1, <2>2
  <2> QED  BY <1>1, <2>1, <2>2, <2>3
<1>8. ASSUME BytesOf(r) \subseteq Denotes(s) PROVE Contains(s, r)
  <2>1. PICK k \in 1 .. n : s[k].start <= r.start /\ r.start < s[k].end
    <3>1. r.start \in BytesOf(r)
      BY <1>2
    <3> QED  BY <1>1, <1>8, <3>1
  <2>2. k = index
    <3>1. k > first
      BY <1>1, <1>2, <1>4, <1>5, <2>1
    <3>2. ASSUME k > index PROVE FALSE
      <4>1. index \in 1 .. n /\ ~(index <= first)
        BY <1>1, <1>4, <3>2
      <4>2. s[index].end < s[k].start
        BY <1>6, <3>2, <4>1
      <4>3. s[index].end <= r.start
        BY <1>1, <1>2, <2>1, <4>1, <4>2
      <4> QED  BY <1>5, <4>1, <4>3
    <3> QED  BY <1>1, <1>4, <3>1, <3>2
  <2>3. ASSUME s[k].end < r.end PROVE FALSE
    <3> DEFINE b == s[k].end
    <3>1. b \in Int /\ b \in BytesOf(r)
      BY <1>1, <1>2, <2>1, <2>3
    <3>2. PICK j \in 1 .. n : s[j].start <= b /\ b < s[j].end
      BY <1>1, <1>8, <3>1
    <3>3. CASE j = k
      BY <1>1, <3>2, <3>3
    <3>4. CASE j < k
      BY <1>1, <1>6, <3>2, <3>4
    <3>5. CASE j > k
      BY <1>1, <1>6, <3>2, <3>5
    <3> QED  BY <3>3, <3>4, <3>5
  <2>4. index \in 1 .. n /\ s[index].start <= r.start /\ ~(s[index].end < r.end)
    BY <2>1, <2>2, <2>3
  <2> HIDE DEF index
  <2> QED  BY <1>1, <1>2, <1>3, <2>4
<1> QED  BY <1>7, <1>8

\* Another interval adds its bytes; one after all the others keeps them apart.
Holds(rs, b) == \E i \in 1 .. Len(rs) : rs[i].start <= b /\ b < rs[i].end

LEMMA AppendedBytes ==
    ASSUME NEW g \in Seq(ByteRange), NEW x \in ByteRange
    PROVE  /\ Append(g, x) \in Seq(ByteRange)
           /\ \A b \in Int : Holds(Append(g, x), b) <=> Holds(g, b) \/ (x.start <= b /\ b < x.end)
           /\ (Apart(g) /\ \A i \in 1 .. Len(g) : g[i].end < x.start) => Apart(Append(g, x))
<1> DEFINE m == Len(g)
           h == Append(g, x)
<1>1. /\ h \in Seq(ByteRange) /\ Len(h) = m + 1 /\ m \in Nat
      /\ \A i \in 1 .. m : h[i] = g[i]
      /\ h[m + 1] = x
  BY AppendProperties, LenProperties
<1>2. DOMAIN h = 1 .. m + 1 /\ DOMAIN g = 1 .. m
  BY <1>1, LenProperties
<1> HIDE DEF h, m
<1>3. \A i : i \in 1 .. m + 1 <=> i \in 1 .. m \/ i = m + 1
  BY <1>1
<1>4. ASSUME NEW b \in Int
      PROVE  Holds(h, b) <=> Holds(g, b) \/ (x.start <= b /\ b < x.end)
  BY <1>1, <1>3 DEF Holds, m
<1>5. ASSUME Apart(g), \A i \in 1 .. m : g[i].end < x.start PROVE Apart(h)
  <2> SUFFICES ASSUME NEW i \in 1 .. m + 1, NEW j \in 1 .. m + 1, i < j
               PROVE  h[i].end < h[j].start
    BY <1>2 DEF Apart
  <2>1. i \in 1 .. m
    BY <1>1
  <2>2. CASE j \in 1 .. m
    BY <1>1, <1>2, <1>5, <2>1, <2>2 DEF Apart
  <2>3. CASE j = m + 1
    BY <1>1, <1>5, <2>1, <2>3
  <2> QED  BY <1>3, <2>2, <2>3
<1>6. Apart(g) /\ (\A i \in 1 .. m : g[i].end < x.start) => Apart(h)
  BY <1>5
<1> QED  BY <1>1, <1>4, <1>6 DEF h, m

LEMMA NoInterval ==
    /\ <<>> \in Seq(ByteRange) /\ Len(<<>>) = 0 /\ Apart(<<>>) /\ DOMAIN <<>> = {}
    /\ \A b : ~Holds(<<>>, b)
<1>1. <<>> \in Seq(ByteRange) /\ Len(<<>>) = 0
  OBVIOUS
<1>2. DOMAIN <<>> = {}
  BY <1>1, LenProperties
<1> QED  BY <1>1, <1>2 DEF Apart, Holds

LEMMA HeldBytes ==
    ASSUME NEW s \in Seq(ByteRange), NEW b
    PROVE  b \in Denotes(s) <=> b \in Int /\ Holds(s, b)
<1> QED  BY SortedBytes DEF Holds

LEMMA KeepIs ==
    ASSUME NEW k \in Seq(ByteRange), NEW item \in ByteRange, NEW r \in ByteRange
    PROVE  /\ Keep(k, item, r) \in Seq(ByteRange)
           /\ \A b \in Int : Holds(Keep(k, item, r), b) <=>
                Holds(k, b) \/ (item.start <= b /\ b < item.end /\ r.start <= b /\ b < r.end)
<1> DEFINE low == Larger(item.start, r.start)
           high == Smaller(item.end, r.end)
           cut == Cut(item, r)
<1>1. /\ item.start \in Nat /\ item.end \in Nat /\ item.end <= Top /\ Top \in Nat
      /\ r.start \in Nat /\ r.end \in Nat
  BY RangeBytes
<1>2. low \in Nat /\ high \in Nat /\ high <= Top
  BY <1>1 DEF Larger, Smaller
<1>3. \A b \in Int : low <= b /\ b < high <=>
        item.start <= b /\ b < item.end /\ r.start <= b /\ b < r.end
  BY <1>1 DEF Larger, Smaller
<1>4. cut = [start |-> low, end |-> high]
  BY DEF Cut
<1> HIDE DEF low, high
<1>5. cut.start = low /\ cut.end = high
  BY <1>4
<1>6. CASE low < high
  <2>1. cut \in ByteRange
    BY <1>1, <1>2, <1>4, <1>6 DEF ByteRange
  <2>2. Keep(k, item, r) = Append(k, cut)
    BY <1>5, <1>6 DEF Keep
  <2> HIDE DEF cut
  <2>3. /\ Append(k, cut) \in Seq(ByteRange)
        /\ \A b \in Int : Holds(Append(k, cut), b) <=> Holds(k, b) \/ (cut.start <= b /\ b < cut.end)
    BY <2>1, AppendedBytes
  <2> QED  BY <1>3, <1>5, <2>2, <2>3
<1>7. CASE ~(low < high)
  <2>1. Keep(k, item, r) = k
    BY <1>5, <1>7 DEF Keep
  <2>2. \A b \in Int : ~(low <= b /\ b < high)
    BY <1>2, <1>7
  <2> QED  BY <1>3, <2>1, <2>2
<1> QED  BY <1>6, <1>7

LEMMA CuttingIs ==
    ASSUME NEW r \in ByteRange, NEW s \in Seq(ByteRange)
    PROVE  /\ Cutting(s, r)[0] = <<>>
           /\ \A i \in 1 .. Len(s) : Cutting(s, r)[i] = Keep(Cutting(s, r)[i - 1], s[i], r)
           /\ \A i \in 0 .. Len(s) : Cutting(s, r)[i] \in Seq(ByteRange)
<1> DEFINE n == Len(s)
           S == Seq(ByteRange)
           next == [p \in (1 .. n) \X S |-> Keep(p[2], s[p[1]], r)]
<1>1. n \in Nat /\ <<>> \in S /\ \A i \in 1 .. n : s[i] \in ByteRange
  BY LenProperties, ElementOfSeq, NoInterval
<1>2. next \in [(1 .. n) \X S -> S]
  BY <1>1, KeepIs
<1>3. \A i \in 1 .. n, k \in S : next[<<i, k>>] = Keep(k, s[i], r)
  OBVIOUS
<1>4. \A i \in 1 .. n, k \in S : Keep(k, s[i], r) \in S
  BY <1>1, KeepIs
<1> HIDE DEF next, S
<1>5. PICK f \in [0 .. n -> S] : Runs(f, n, <<>>, next)
  <2> HIDE DEF n
  <2> QED  BY <1>1, <1>2, Recursion
<1>6. \A i \in 1 .. n : f[i] = Keep(f[i - 1], s[i], r)
  <2> SUFFICES ASSUME NEW i \in 1 .. n PROVE f[i] = Keep(f[i - 1], s[i], r)
    OBVIOUS
  <2>1. f[i - 1] \in S
    BY <1>1, <1>5
  <2> QED  BY <1>3, <1>5, <2>1 DEF Runs
<1>7. f = [i \in 0 .. n |-> IF i = 0 THEN <<>> ELSE Keep(f[i - 1], s[i], r)]
  BY <1>1, <1>5, <1>6 DEF Runs
<1>8. Cutting(s, r) = [i \in 0 .. n |-> IF i = 0 THEN <<>> ELSE Keep(Cutting(s, r)[i - 1], s[i], r)]
  BY <1>7 DEF Cutting
<1> DEFINE g == Cutting(s, r)
<1>9. g[0] = <<>> /\ \A i \in 1 .. n : g[i] = Keep(g[i - 1], s[i], r)
  <2>1. 0 \in 0 .. n /\ \A i \in 1 .. n : i \in 0 .. n /\ i # 0
    BY <1>1
  <2> QED  BY <1>8, <2>1
<1>10. \A i \in 0 .. n : g[i] \in S
  <2> HIDE DEF g, n
  <2>1. \A i \in 1 .. n : g[i - 1] \in S => g[i] \in S
    BY <1>4, <1>9
  <2> QED  BY <1>1, <1>9, <2>1, StepsKeep
<1> QED  BY <1>9, <1>10 DEF S

LEMMA IntersectionIs ==
    ASSUME NEW r \in ByteRange, NEW s \in Seq(ByteRange)
    PROVE  Denotes(Intersection(s, r)) = BytesOf(r) \cap Denotes(s)
<1> DEFINE n == Len(s)
           f == Cutting(s, r)
           Upto(i, b) == \E k \in 1 .. i : s[k].start <= b /\ b < s[k].end
           P == {i \in 0 .. n : \A b \in Int : Holds(f[i], b) <=> Upto(i, b) /\ r.start <= b /\ b < r.end}
<1>1. /\ n \in Nat /\ f[0] = <<>>
      /\ \A i \in 1 .. n : f[i] = Keep(f[i - 1], s[i], r)
      /\ \A i \in 0 .. n : f[i] \in Seq(ByteRange)
      /\ \A i \in 1 .. n : s[i] \in ByteRange
  BY LenProperties, CuttingIs, ElementOfSeq
<1> HIDE DEF f
<1>2. 0 \in P
  BY <1>1, NoInterval
<1>3. ASSUME NEW i \in 1 .. n, i - 1 \in P PROVE i \in P
  <2>1. ASSUME NEW b \in Int
        PROVE  Holds(f[i], b) <=> Upto(i, b) /\ r.start <= b /\ b < r.end
    <3>1. Holds(f[i - 1], b) <=> Upto(i - 1, b) /\ r.start <= b /\ b < r.end
      BY <1>3
    <3>2. Upto(i, b) <=> Upto(i - 1, b) \/ (s[i].start <= b /\ b < s[i].end)
      <4>1. \A k : k \in 1 .. i <=> k \in 1 .. i - 1 \/ k = i
        BY <1>1
      <4> QED  BY <4>1
    <3>3. Holds(f[i], b) <=> Holds(f[i - 1], b)
            \/ (s[i].start <= b /\ b < s[i].end /\ r.start <= b /\ b < r.end)
      <4>1. i - 1 \in 0 .. n
        BY <1>1
      <4>2. f[i - 1] \in Seq(ByteRange) /\ s[i] \in ByteRange /\ f[i] = Keep(f[i - 1], s[i], r)
        BY <1>1, <4>1
      <4> DEFINE prev == f[i - 1]
                 item == s[i]
      <4>3. prev \in Seq(ByteRange) /\ item \in ByteRange /\ f[i] = Keep(prev, item, r)
        BY <4>2
      <4> HIDE DEF prev, item
      <4>4. Holds(Keep(prev, item, r), b) <=>
              Holds(prev, b) \/ (item.start <= b /\ b < item.end /\ r.start <= b /\ b < r.end)
        BY <4>3, KeepIs
      <4> QED  BY <4>3, <4>4 DEF prev, item
    <3> HIDE DEF Upto
    <3> QED  BY <3>1, <3>2, <3>3
  <2> HIDE DEF Upto
  <2> QED  BY <1>1, <2>1
<1>4. n \in P
  <2>1. 0 .. n \subseteq P
    <3> HIDE DEF P, n
    <3> QED  BY <1>1, <1>2, <1>3, Stepwise
  <2> HIDE DEF P
  <2> QED  BY <1>1, <2>1
<1>5. f[n] \in Seq(ByteRange)
  BY <1>1
<1>6. Intersection(s, r) = f[n]
  BY DEF Intersection, f
<1>7. ASSUME NEW b PROVE b \in Denotes(f[n]) <=> b \in BytesOf(r) \cap Denotes(s)
  <2>1. b \in Int => (Holds(f[n], b) <=> Upto(n, b) /\ r.start <= b /\ b < r.end)
    BY <1>4
  <2>2. b \in Denotes(f[n]) <=> b \in Int /\ Holds(f[n], b)
    BY <1>5, HeldBytes
  <2>3. b \in Denotes(s) <=> b \in Int /\ Upto(n, b)
    BY HeldBytes DEF Holds
  <2>4. b \in BytesOf(r) <=> b \in Int /\ r.start <= b /\ b < r.end
    BY RangeBytes
  <2> HIDE DEF Upto
  <2> QED  BY <2>1, <2>2, <2>3, <2>4
<1> QED  BY <1>6, <1>7

LEMMA CountingIs ==
    ASSUME NEW s \in Seq(ByteRange)
    PROVE  /\ Counting(s)[0] = 0
           /\ \A i \in 1 .. Len(s) : Counting(s)[i] = Counting(s)[i - 1] + (s[i].end - s[i].start)
<1> DEFINE n == Len(s)
           next == [p \in (1 .. n) \X Int |-> p[2] + (s[p[1]].end - s[p[1]].start)]
<1>1. n \in Nat /\ \A i \in 1 .. n : s[i].end \in Nat /\ s[i].start \in Nat
  BY SortedBytes
<1>2. next \in [(1 .. n) \X Int -> Int]
  BY <1>1
<1>3. \A i \in 1 .. n, k \in Int : next[<<i, k>>] = k + (s[i].end - s[i].start)
  OBVIOUS
<1> HIDE DEF next
<1>4. PICK f \in [0 .. n -> Int] : Runs(f, n, 0, next)
  <2> HIDE DEF n
  <2>1. 0 \in Int
    OBVIOUS
  <2> QED  BY <1>1, <1>2, <2>1, Recursion
<1>5. \A i \in 1 .. n : f[i] = f[i - 1] + (s[i].end - s[i].start)
  <2> SUFFICES ASSUME NEW i \in 1 .. n PROVE f[i] = f[i - 1] + (s[i].end - s[i].start)
    OBVIOUS
  <2>1. f[i - 1] \in Int
    BY <1>1, <1>4
  <2> QED  BY <1>3, <1>4, <2>1 DEF Runs
<1>6. f = [i \in 0 .. n |-> IF i = 0 THEN 0 ELSE f[i - 1] + (s[i].end - s[i].start)]
  BY <1>1, <1>4, <1>5 DEF Runs
<1>7. Counting(s) = [i \in 0 .. n |-> IF i = 0 THEN 0
                                      ELSE Counting(s)[i - 1] + (s[i].end - s[i].start)]
  BY <1>6 DEF Counting
<1> DEFINE g == Counting(s)
<1>8. g[0] = 0 /\ \A i \in 1 .. n : g[i] = g[i - 1] + (s[i].end - s[i].start)
  <2>1. 0 \in 0 .. n /\ \A i \in 1 .. n : i \in 0 .. n /\ i # 0
    BY <1>1
  <2> QED  BY <1>7, <2>1
<1> QED  BY <1>8

\* Apart as they are, the intervals count every byte once.
LEMMA TotalIs ==
    ASSUME NEW s \in Seq(ByteRange), Apart(s)
    PROVE  TotalBytes(s) = Cardinality(Denotes(s))
<1> DEFINE n == Len(s)
           f == Counting(s)
           Upto(i) == {b \in Int : \E k \in 1 .. i : s[k].start <= b /\ b < s[k].end}
           P == {i \in 0 .. n : IsFiniteSet(Upto(i)) /\ f[i] = Cardinality(Upto(i))}
<1>1. /\ n \in Nat /\ f[0] = 0
      /\ \A i \in 1 .. n : f[i] = f[i - 1] + (s[i].end - s[i].start)
  BY LenProperties, CountingIs
<1>2. /\ \A i \in 1 .. n : s[i].end \in Nat /\ s[i].start \in Nat /\ s[i].start < s[i].end
      /\ \A i, j \in 1 .. n : i < j => s[i].end < s[j].start
  BY SortedBytes DEF Apart
<1> HIDE DEF f, n
<1>3. 0 \in P
  <2>1. Upto(0) = {}
    OBVIOUS
  <2> HIDE DEF Upto
  <2>2. IsFiniteSet(Upto(0)) /\ f[0] = Cardinality(Upto(0))
    BY <1>1, <2>1, FS_EmptySet
  <2> QED  BY <1>1, <2>2
<1>4. ASSUME NEW i \in 1 .. n, i - 1 \in P PROVE i \in P
  <2> DEFINE low == s[i].start
             high == s[i].end
             cell == low .. high - 1
  <2>1. low \in Nat /\ high \in Nat /\ low < high
    BY <1>2
  <2>2. Upto(i) = Upto(i - 1) \cup cell
    <3>1. \A k : k \in 1 .. i <=> k \in 1 .. i - 1 \/ k = i
      BY <1>1
    <3>2. ASSUME NEW b PROVE b \in cell <=> b \in Int /\ low <= b /\ b < high
      BY <2>1
    <3> HIDE DEF cell
    <3> QED  BY <3>1, <3>2
  <2>3. Upto(i - 1) \cap cell = {}
    <3> SUFFICES ASSUME NEW b \in Int, low <= b, NEW k \in 1 .. i - 1, b < s[k].end PROVE FALSE
      BY <2>1
    <3>1. k \in 1 .. n /\ k < i
      BY <1>1
    <3>2. s[k].end < low /\ s[k].end \in Nat
      BY <1>2, <3>1
    <3> HIDE DEF low
    <3> QED  BY <2>1, <3>2
  <2>4. IsFiniteSet(cell) /\ Cardinality(cell) = high - low
    <3> HIDE DEF low, high
    <3>1. low \in Int /\ high - 1 \in Int /\ ~(low > high - 1) /\ high - 1 - low + 1 = high - low
      BY <2>1
    <3> QED  BY <3>1, FS_Interval
  <2>5. IsFiniteSet(Upto(i - 1)) /\ f[i - 1] = Cardinality(Upto(i - 1))
    BY <1>4
  <2> HIDE DEF Upto, cell
  <2>6. /\ IsFiniteSet(Upto(i - 1) \cup cell)
        /\ Cardinality(Upto(i - 1) \cup cell) =
             Cardinality(Upto(i - 1)) + Cardinality(cell) - Cardinality(Upto(i - 1) \cap cell)
    BY <2>4, <2>5, FS_Union
  <2>7. Cardinality(Upto(i - 1) \cap cell) = 0
    BY <2>3, FS_EmptySet
  <2>8. Cardinality(Upto(i - 1)) \in Nat
    BY <2>5, FS_CardinalityType
  <2>9. Cardinality(Upto(i)) = f[i - 1] + (high - low)
    BY <2>1, <2>2, <2>4, <2>5, <2>6, <2>7, <2>8
  <2>10. f[i] = Cardinality(Upto(i)) /\ IsFiniteSet(Upto(i)) /\ i \in 0 .. n
    BY <1>1, <2>2, <2>6, <2>9
  <2> QED  BY <2>10
<1>5. n \in P
  <2>1. 0 .. n \subseteq P
    <3> HIDE DEF P
    <3> QED  BY <1>1, <1>3, <1>4, Stepwise
  <2> HIDE DEF P
  <2> QED  BY <1>1, <2>1
<1>6. Upto(n) = Denotes(s)
  <2>1. ASSUME NEW b PROVE b \in Upto(n) <=> b \in Denotes(s)
    BY SortedBytes DEF n
  <2> QED  BY <2>1
<1> HIDE DEF Upto
<1> QED  BY <1>5, <1>6 DEF TotalBytes, f, n

Passes == [cursor : Nat, gaps : Seq(ByteRange)]

LEMMA GapIs ==
    ASSUME NEW cursor \in Nat, NEW item \in ByteRange, cursor < item.start
    PROVE  [start |-> cursor, end |-> item.start] \in ByteRange
<1>1. item.start \in Nat /\ item.start <= Top
  BY RangeBytes
<1>2. cursor \in 0 .. Top /\ item.start \in 0 .. Top
  BY <1>1, TopAssumption
<1> DEFINE low == item.start
<1> HIDE DEF low
<1>3. [start |-> cursor, end |-> low] \in ByteRange
  BY <1>2 DEF ByteRange, low
<1> QED  BY <1>3 DEF low

LEMMA PassType ==
    ASSUME NEW p \in Passes, NEW item \in ByteRange, NEW r \in ByteRange
    PROVE  Pass(p, item, r) \in Passes
<1> DEFINE next == Smaller(Larger(p.cursor, item.end), r.end)
           gap == [start |-> p.cursor, end |-> item.start]
           gaps == IF p.cursor < item.start THEN Append(p.gaps, gap) ELSE p.gaps
<1>1. p.cursor \in Nat /\ p.gaps \in Seq(ByteRange) /\ item.end \in Nat /\ r.end \in Nat
  BY RangeBytes DEF Passes
<1>2. next \in Nat
  BY <1>1 DEF Larger, Smaller
<1>3. gaps \in Seq(ByteRange)
  <2>1. CASE p.cursor < item.start
    <3>1. gap \in ByteRange
      BY <1>1, <2>1, GapIs
    <3> HIDE DEF gap
    <3> QED  BY <1>1, <2>1, <3>1, AppendedBytes
  <2>2. CASE ~(p.cursor < item.start)
    BY <1>1, <2>2
  <2> QED  BY <2>1, <2>2
<1>4. Pass(p, item, r) = p \/ Pass(p, item, r) = [cursor |-> next, gaps |-> gaps]
  BY DEF Pass
<1> HIDE DEF next, gaps
<1> QED  BY <1>2, <1>3, <1>4 DEF Passes

LEMMA PassingIs ==
    ASSUME NEW r \in ByteRange, NEW s \in Seq(ByteRange)
    PROVE  /\ Passing(s, r)[0] = [cursor |-> r.start, gaps |-> <<>>]
           /\ \A i \in 1 .. Len(s) : Passing(s, r)[i] = Pass(Passing(s, r)[i - 1], s[i], r)
           /\ \A i \in 0 .. Len(s) : Passing(s, r)[i] \in Passes
<1> DEFINE n == Len(s)
           base == [cursor |-> r.start, gaps |-> <<>>]
           next == [p \in (1 .. n) \X Passes |-> Pass(p[2], s[p[1]], r)]
<1>1. n \in Nat /\ \A i \in 1 .. n : s[i] \in ByteRange
  BY LenProperties, ElementOfSeq
<1>2. base \in Passes
  <2>1. r.start \in Nat /\ <<>> \in Seq(ByteRange)
    BY RangeBytes
  <2> QED  BY <2>1 DEF Passes
<1>3. next \in [(1 .. n) \X Passes -> Passes]
  BY <1>1, PassType
<1>4. \A i \in 1 .. n, g \in Passes : next[<<i, g>>] = Pass(g, s[i], r)
  OBVIOUS
<1> HIDE DEF next
<1>5. PICK f \in [0 .. n -> Passes] : Runs(f, n, base, next)
  <2> HIDE DEF n, base
  <2> QED  BY <1>1, <1>2, <1>3, Recursion
<1>6. \A i \in 1 .. n : f[i] = Pass(f[i - 1], s[i], r)
  <2> SUFFICES ASSUME NEW i \in 1 .. n PROVE f[i] = Pass(f[i - 1], s[i], r)
    OBVIOUS
  <2>1. f[i - 1] \in Passes
    BY <1>1, <1>5
  <2> QED  BY <1>4, <1>5, <2>1 DEF Runs
<1>7. f = [i \in 0 .. n |-> IF i = 0 THEN base ELSE Pass(f[i - 1], s[i], r)]
  BY <1>1, <1>5, <1>6 DEF Runs
<1>8. Passing(s, r) = [i \in 0 .. n |-> IF i = 0 THEN base ELSE Pass(Passing(s, r)[i - 1], s[i], r)]
  BY <1>7 DEF Passing
<1> DEFINE g == Passing(s, r)
<1>9. g[0] = base /\ \A i \in 1 .. n : g[i] = Pass(g[i - 1], s[i], r)
  <2> HIDE DEF base
  <2>1. 0 \in 0 .. n /\ \A i \in 1 .. n : i \in 0 .. n /\ i # 0
    BY <1>1
  <2> QED  BY <1>8, <2>1
<1>10. \A i \in 0 .. n : g[i] \in Passes
  <2>1. \A i \in 1 .. n : g[i - 1] \in Passes => g[i] \in Passes
    BY <1>1, <1>9, PassType
  <2> HIDE DEF g, n
  <2> QED  BY <1>1, <1>2, <1>9, <2>1, StepsKeep
<1> QED  BY <1>9, <1>10

\* Some of the first intervals holds the byte.
Upto(s, i, b) == \E k \in 1 .. i : s[k].start <= b /\ b < s[k].end

\* What a pass has found once it met i intervals: below the cursor every missing
\* byte is in a gap, and the intervals met have nothing left above it.
Passed(s, r, i, p) ==
    /\ p.cursor \in r.start .. r.end
    /\ p.cursor # r.start => \E k \in 1 .. i : p.cursor <= s[k].end
    /\ \A k \in 1 .. i : s[k].end <= p.cursor \/ s[k].start >= r.end \/ p.cursor = r.end
    /\ Apart(p.gaps) /\ \A k \in 1 .. Len(p.gaps) : p.gaps[k].end < p.cursor
    /\ \A b \in Int : Holds(p.gaps, b) <=> r.start <= b /\ b < p.cursor /\ ~Upto(s, i, b)

LEMMA PassesOn ==
    ASSUME NEW r \in ByteRange, NEW s \in Seq(ByteRange), Apart(s),
           NEW i \in 1 .. Len(s), NEW p \in Passes, Passed(s, r, i - 1, p)
    PROVE  Passed(s, r, i, Pass(p, s[i], r))
<1> DEFINE n == Len(s)
           c == p.cursor
           low == s[i].start
           high == s[i].end
           q == Pass(p, s[i], r)
<1>1. /\ n \in Nat /\ i \in Nat /\ i - 1 \in Nat
      /\ \A k \in 1 .. n : /\ s[k] \in ByteRange /\ s[k].start \in Nat /\ s[k].end \in Nat
                           /\ s[k].start < s[k].end
      /\ \A k \in 1 .. i - 1 : k \in 1 .. n /\ s[k].end < low
      /\ \A k : k \in 1 .. i <=> k \in 1 .. i - 1 \/ k = i
  <2>1. n \in Nat /\ DOMAIN s = 1 .. n
    BY SortedBytes
  <2>2. \A k \in 1 .. n : /\ s[k] \in ByteRange /\ s[k].start \in Nat /\ s[k].end \in Nat
                          /\ s[k].start < s[k].end
    BY SortedBytes
  <2>3. ASSUME NEW k \in 1 .. i - 1 PROVE k \in 1 .. n /\ s[k].end < low
    <3>1. k \in 1 .. n /\ i \in 1 .. n /\ k < i
      BY <2>1
    <3> QED  BY <2>1, <3>1 DEF Apart
  <2>4. \A k : k \in 1 .. i <=> k \in 1 .. i - 1 \/ k = i
    BY <2>1
  <2> QED  BY <2>1, <2>2, <2>3, <2>4
<1>2. low \in Nat /\ high \in Nat /\ low < high /\ s[i] \in ByteRange
  BY <1>1
<1>3. r.start \in Nat /\ r.end \in Nat /\ r.start < r.end
  BY RangeBytes
<1>4. c \in Nat /\ p.gaps \in Seq(ByteRange)
  BY DEF Passes
<1>5. /\ c \in r.start .. r.end
      /\ c # r.start => \E k \in 1 .. i - 1 : c <= s[k].end
      /\ \A k \in 1 .. i - 1 : s[k].end <= c \/ s[k].start >= r.end \/ c = r.end
      /\ Apart(p.gaps) /\ \A k \in 1 .. Len(p.gaps) : p.gaps[k].end < c
      /\ \A b \in Int : Holds(p.gaps, b) <=> r.start <= b /\ b < c /\ ~Upto(s, i - 1, b)
  BY DEF Passed
<1>6. c # r.start => c < low
  <2> SUFFICES ASSUME c # r.start PROVE c < low
    OBVIOUS
  <2>1. PICK k \in 1 .. i - 1 : c <= s[k].end
    BY <1>5
  <2> QED  BY <1>1, <1>2, <1>4, <2>1
<1>7. ASSUME NEW b \in Int PROVE Upto(s, i, b) <=> Upto(s, i - 1, b) \/ (low <= b /\ b < high)
  BY <1>1 DEF Upto
<1>8. ASSUME NEW b \in Int, r.start <= b, b < c PROVE Upto(s, i, b) <=> Upto(s, i - 1, b)
  <2>1. c # r.start
    BY <1>3, <1>4, <1>8
  <2>2. b < low
    BY <1>2, <1>4, <1>6, <1>8, <2>1
  <2> QED  BY <1>2, <1>7, <2>2
<1>9. CASE high <= c \/ low >= r.end \/ c = r.end
  <2>1. q = p
    BY <1>9 DEF Pass
  <2>2. c # r.start => \E k \in 1 .. i : c <= s[k].end
    BY <1>1, <1>5
  <2>3. \A k \in 1 .. i : s[k].end <= c \/ s[k].start >= r.end \/ c = r.end
    BY <1>1, <1>5, <1>9
  <2>4. \A b \in Int : Holds(p.gaps, b) <=> r.start <= b /\ b < c /\ ~Upto(s, i, b)
    BY <1>5, <1>8
  <2> QED  BY <1>5, <2>1, <2>2, <2>3, <2>4 DEF Passed
<1>10. CASE ~(high <= c \/ low >= r.end \/ c = r.end)
  <2> DEFINE next == Smaller(Larger(c, high), r.end)
             gap == [start |-> c, end |-> low]
             gaps == IF c < low THEN Append(p.gaps, gap) ELSE p.gaps
  <2>1. q = [cursor |-> next, gaps |-> gaps]
    BY <1>10 DEF Pass
  <2>2. /\ next \in Nat /\ c < next /\ next <= high /\ next <= r.end /\ low < next
        /\ next = high \/ next = r.end
        /\ next \in r.start .. r.end
    BY <1>2, <1>3, <1>4, <1>5, <1>10 DEF Smaller, Larger
  <2>3. \E k \in 1 .. i : next <= s[k].end
    BY <1>1, <2>2
  <2>4. \A k \in 1 .. i : s[k].end <= next \/ s[k].start >= r.end \/ next = r.end
    <3>1. ASSUME NEW k \in 1 .. i - 1 PROVE s[k].end <= next \/ s[k].start >= r.end
      <4>1. s[k].end <= c \/ s[k].start >= r.end
        BY <1>5, <1>10
      <4>2. s[k].end \in Nat
        BY <1>1
      <4> QED  BY <1>4, <2>2, <4>1, <4>2
    <3>2. s[i].end <= next \/ next = r.end
      BY <1>2, <2>2
    <3> QED  BY <1>1, <3>1, <3>2
  <2>5. ASSUME NEW b \in Int, c <= b, b < next
        PROVE  Upto(s, i, b) <=> low <= b
    <3>1. ~Upto(s, i - 1, b)
      <4> SUFFICES ASSUME NEW k \in 1 .. i - 1, s[k].start <= b, b < s[k].end PROVE FALSE
        BY DEF Upto
      <4>1. s[k].end <= c \/ s[k].start >= r.end
        BY <1>5, <1>10
      <4>2. s[k].end \in Nat /\ s[k].start \in Nat
        BY <1>1
      <4> QED  BY <1>3, <1>4, <2>2, <2>5, <4>1, <4>2
    <3>2. b < high
      BY <1>2, <2>2, <2>5
    <3> QED  BY <1>7, <3>1, <3>2
  <2>6. /\ Apart(gaps) /\ \A k \in 1 .. Len(gaps) : gaps[k].end < next
        /\ \A b \in Int : Holds(gaps, b) <=> Holds(p.gaps, b) \/ (c <= b /\ b < low)
    <3>1. CASE c < low
      <4>1. gap \in ByteRange
        BY <1>2, <1>4, <3>1, GapIs
      <4>2. gap.start = c /\ gap.end = low
        OBVIOUS
      <4> HIDE DEF gap, next
      <4>3. /\ \A b \in Int : Holds(Append(p.gaps, gap), b) <=>
                 Holds(p.gaps, b) \/ (gap.start <= b /\ b < gap.end)
            /\ (Apart(p.gaps) /\ \A k \in 1 .. Len(p.gaps) : p.gaps[k].end < gap.start) =>
                 Apart(Append(p.gaps, gap))
        BY <1>4, <4>1, AppendedBytes
      <4>4. ASSUME NEW k \in 1 .. Len(Append(p.gaps, gap))
            PROVE  Append(p.gaps, gap)[k].end < next
        <5>1. /\ Len(p.gaps) \in Nat /\ Len(Append(p.gaps, gap)) = Len(p.gaps) + 1
              /\ \A j \in 1 .. Len(p.gaps) : Append(p.gaps, gap)[j] = p.gaps[j]
              /\ Append(p.gaps, gap)[Len(p.gaps) + 1] = gap
          BY <1>4, <4>1, AppendProperties, LenProperties
        <5>2. CASE k \in 1 .. Len(p.gaps)
          <6>1. p.gaps[k] \in ByteRange
            BY <1>4, <5>2, ElementOfSeq
          <6>2. p.gaps[k].end \in Nat /\ p.gaps[k].end < c
            BY <1>5, <5>2, <6>1, RangeBytes
          <6> QED  BY <1>4, <2>2, <5>1, <5>2, <6>2
        <5>3. CASE k = Len(p.gaps) + 1
          BY <2>2, <4>2, <5>1, <5>3
        <5> QED  BY <5>1, <5>2, <5>3
      <4> QED  BY <1>5, <3>1, <4>2, <4>3, <4>4
    <3>2. CASE ~(c < low)
      <4>1. gaps = p.gaps
        BY <3>2
      <4>2. ASSUME NEW k \in 1 .. Len(p.gaps) PROVE p.gaps[k].end < next
        <5>1. p.gaps[k] \in ByteRange
          BY <1>4, ElementOfSeq
        <5>2. p.gaps[k].end \in Nat /\ p.gaps[k].end < c
          BY <1>5, <5>1, RangeBytes
        <5> QED  BY <1>4, <2>2, <5>2
      <4>3. \A b \in Int : ~(c <= b /\ b < low)
        BY <1>2, <1>4, <3>2
      <4> HIDE DEF gaps, next
      <4> QED  BY <1>5, <4>1, <4>2, <4>3
    <3> QED  BY <3>1, <3>2
  <2> HIDE DEF gaps, next
  <2>7. ASSUME NEW b \in Int
        PROVE  Holds(gaps, b) <=> r.start <= b /\ b < next /\ ~Upto(s, i, b)
    <3>1. CASE b < r.start
      BY <1>3, <1>4, <1>5, <2>6, <3>1
    <3>2. CASE r.start <= b /\ b < c
      BY <1>4, <1>5, <1>8, <2>2, <2>6, <3>2
    <3>3. CASE c <= b /\ b < next
      BY <1>2, <1>3, <1>4, <1>5, <2>2, <2>5, <2>6, <3>3
    <3>4. CASE next <= b
      BY <1>2, <1>4, <1>5, <2>2, <2>6, <3>4
    <3> QED  BY <1>3, <1>4, <1>5, <2>2, <3>1, <3>2, <3>3, <3>4
  <2>8. q.cursor = next /\ q.gaps = gaps
    BY <2>1
  <2> HIDE DEF q
  <2>9. Passed(s, r, i, q)
    BY <2>2, <2>3, <2>4, <2>6, <2>7, <2>8 DEF Passed
  <2> QED  BY <2>9 DEF q
<1> QED  BY <1>9, <1>10

LEMMA PassEnds ==
    ASSUME NEW r \in ByteRange, NEW s \in Seq(ByteRange), Apart(s)
    PROVE  Passing(s, r)[Len(s)] \in Passes /\ Passed(s, r, Len(s), Passing(s, r)[Len(s)])
<1> DEFINE n == Len(s)
           f == Passing(s, r)
           P == {i \in 0 .. n : Passed(s, r, i, f[i])}
<1>1. /\ n \in Nat /\ f[0] = [cursor |-> r.start, gaps |-> <<>>]
      /\ \A i \in 1 .. n : f[i] = Pass(f[i - 1], s[i], r)
      /\ \A i \in 0 .. n : f[i] \in Passes
  BY LenProperties, PassingIs
<1> HIDE DEF f
<1>2. 0 \in P
  <2>1. f[0].cursor = r.start /\ f[0].gaps = <<>>
    BY <1>1
  <2>2. r.start \in Nat /\ r.end \in Nat /\ r.start < r.end
    BY RangeBytes
  <2>3. Passed(s, r, 0, f[0])
    BY <2>1, <2>2, NoInterval DEF Passed
  <2> QED  BY <1>1, <2>3
<1>3. ASSUME NEW i \in 1 .. n, i - 1 \in P PROVE i \in P
  <2>1. f[i - 1] \in Passes /\ Passed(s, r, i - 1, f[i - 1])
    BY <1>1, <1>3
  <2>2. Passed(s, r, i, f[i])
    BY <1>1, <2>1, PassesOn
  <2> QED  BY <1>1, <2>2
<1>4. 0 .. n \subseteq P
  <2> HIDE DEF P, n
  <2> QED  BY <1>1, <1>2, <1>3, Stepwise
<1>5. f[n] \in Passes /\ Passed(s, r, n, f[n])
  BY <1>1, <1>4
<1> QED  BY <1>5 DEF f, n

\* A fetch plan names exactly what is missing, in order.
LEMMA MissingIs ==
    ASSUME NEW r \in ByteRange, NEW s \in Seq(ByteRange), Apart(s)
    PROVE  /\ Missing(s, r) \in Seq(ByteRange) /\ Apart(Missing(s, r))
           /\ Denotes(Missing(s, r)) = BytesOf(r) \ Denotes(s)
<1> DEFINE n == Len(s)
           p == Passing(s, r)[n]
           rest == [start |-> p.cursor, end |-> r.end]
           gaps == Missing(s, r)
<1>1. p \in Passes /\ Passed(s, r, n, p)
  BY PassEnds
<1>2. gaps = IF p.cursor < r.end THEN Append(p.gaps, rest) ELSE p.gaps
  BY DEF Missing
<1> HIDE DEF p, gaps
<1>3. p.cursor \in Nat /\ p.gaps \in Seq(ByteRange)
  BY <1>1 DEF Passes
<1>4. /\ r.start \in Nat /\ r.end \in Nat /\ r.start < r.end /\ r.end <= Top /\ Top \in Nat
      /\ \A b : b \in BytesOf(r) <=> b \in Int /\ r.start <= b /\ b < r.end
  BY RangeBytes
<1>5. /\ p.cursor \in r.start .. r.end
      /\ \A k \in 1 .. n : s[k].end <= p.cursor \/ s[k].start >= r.end \/ p.cursor = r.end
      /\ Apart(p.gaps) /\ \A k \in 1 .. Len(p.gaps) : p.gaps[k].end < p.cursor
      /\ \A b \in Int : Holds(p.gaps, b) <=> r.start <= b /\ b < p.cursor /\ ~Upto(s, n, b)
  BY <1>1 DEF Passed
<1>6. \A k \in 1 .. n : s[k].start \in Nat /\ s[k].end \in Nat
  BY SortedBytes
<1>7. gaps \in Seq(ByteRange) /\ Apart(gaps)
      /\ \A b \in Int : Holds(gaps, b) <=> Holds(p.gaps, b) \/ (p.cursor <= b /\ b < r.end)
  <2>1. CASE p.cursor < r.end
    <3>1. rest \in ByteRange
      <4> DEFINE low == p.cursor
                 high == r.end
      <4>1. low \in 0 .. Top /\ high \in 0 .. Top /\ low < high
        BY <1>3, <1>4, <2>1
      <4> HIDE DEF low, high
      <4>2. [start |-> low, end |-> high] \in ByteRange
        BY <4>1 DEF ByteRange
      <4> QED  BY <4>2 DEF low, high
    <3>2. rest.start = p.cursor /\ rest.end = r.end
      OBVIOUS
    <3> HIDE DEF rest
    <3>3. /\ Append(p.gaps, rest) \in Seq(ByteRange)
          /\ \A b \in Int : Holds(Append(p.gaps, rest), b) <=>
               Holds(p.gaps, b) \/ (rest.start <= b /\ b < rest.end)
          /\ (Apart(p.gaps) /\ \A k \in 1 .. Len(p.gaps) : p.gaps[k].end < rest.start) =>
               Apart(Append(p.gaps, rest))
      BY <1>3, <3>1, AppendedBytes
    <3> QED  BY <1>2, <1>5, <2>1, <3>2, <3>3
  <2>2. CASE ~(p.cursor < r.end)
    <3>1. gaps = p.gaps
      BY <1>2, <2>2
    <3>2. \A b \in Int : ~(p.cursor <= b /\ b < r.end)
      BY <1>3, <1>4, <2>2
    <3> QED  BY <1>3, <1>5, <3>1, <3>2
  <2> QED  BY <2>1, <2>2
<1>8. ASSUME NEW b \in Int, p.cursor <= b, b < r.end PROVE ~Upto(s, n, b)
  <2> SUFFICES ASSUME NEW k \in 1 .. n, s[k].start <= b, b < s[k].end PROVE FALSE
    BY DEF Upto
  <2>1. s[k].end <= p.cursor \/ s[k].start >= r.end
    BY <1>3, <1>4, <1>5, <1>8
  <2> QED  BY <1>3, <1>4, <1>6, <1>8, <2>1
<1>9. ASSUME NEW b PROVE b \in Denotes(gaps) <=> b \in BytesOf(r) \ Denotes(s)
  <2>1. b \in Denotes(gaps) <=> b \in Int /\ Holds(gaps, b)
    BY <1>7, HeldBytes
  <2>2. b \in Denotes(s) <=> b \in Int /\ Upto(s, n, b)
    BY HeldBytes DEF Holds, Upto
  <2>3. CASE b \in Int
    <3>1. Holds(gaps, b) <=> r.start <= b /\ b < r.end /\ ~Upto(s, n, b)
      BY <1>3, <1>4, <1>5, <1>7, <1>8, <2>3
    <3> QED  BY <1>4, <2>1, <2>2, <2>3, <3>1
  <2>4. CASE b \notin Int
    BY <1>4, <2>1, <2>4
  <2> QED  BY <2>3, <2>4
<1>10. Denotes(gaps) = BytesOf(r) \ Denotes(s)
  BY <1>9
<1> QED  BY <1>7, <1>10 DEF gaps

-----------------------------------------------------------------------------
(* A header resolves to the bytes it names                                   *)

LEMMA ParseIs ==
    ASSUME NEW spec \in HeaderSpec, NEW size \in 0 .. Top
    PROVE  LET r == ParseHttpRange(spec, size)
               wanted == Named(spec, size)
           IN  IF Malformed(spec) THEN r = Failed("invalid")
               ELSE IF wanted = {} THEN r = Failed("unsatisfiable")
               ELSE r \in ByteRange /\ BytesOf(r) = wanted
<1> DEFINE r == ParseHttpRange(spec, size)
           wanted == Named(spec, size)
<1> USE TopAssumption
<1>1. \A low, high \in 0 .. Top : low < high =>
        /\ [start |-> low, end |-> high] \in ByteRange
        /\ BytesOf([start |-> low, end |-> high]) = low .. high - 1
  BY DEF ByteRange, BytesOf
<1>2. CASE spec \in [form : {"suffix"}, length : Number]
  <2>1. spec.form = "suffix" /\ spec.length \in Nat /\ spec.length <= Top + 1
    BY <1>2 DEF Number
  <2>2. Malformed(spec) <=> spec.length > Top
    BY <2>1 DEF Malformed
  <2>3. wanted = {b \in 0 .. size - 1 : b >= size - spec.length}
    BY <2>1 DEF Named
  <2>4. r = IF ~Fits(spec.length) THEN Failed("invalid")
            ELSE IF size = 0 \/ spec.length = 0 THEN Failed("unsatisfiable")
            ELSE [start |-> Larger(0, size - spec.length), end |-> size]
    BY <2>1 DEF ParseHttpRange
  <2> HIDE DEF r, wanted
  <2>5. CASE size = 0 \/ spec.length = 0
    <3>1. wanted = {}
      BY <2>1, <2>3, <2>5
    <3> QED  BY <2>1, <2>2, <2>4, <2>5, <3>1 DEF Fits, r, wanted
  <2>6. CASE ~(size = 0 \/ spec.length = 0)
    <3> DEFINE low == Larger(0, size - spec.length)
    <3>1. low \in 0 .. Top /\ low < size /\ size - 1 >= size - spec.length
          /\ \A b \in Nat : b >= size - spec.length <=> b >= low
      BY <2>1, <2>6 DEF Larger
    <3> HIDE DEF low
    <3>2. wanted = low .. size - 1 /\ size - 1 \in wanted
      BY <2>1, <2>3, <3>1
    <3>3. [start |-> low, end |-> size] \in ByteRange
          /\ BytesOf([start |-> low, end |-> size]) = low .. size - 1
      BY <1>1, <3>1
    <3>4. ~Malformed(spec) => r = [start |-> low, end |-> size]
      BY <2>1, <2>2, <2>4, <2>6 DEF Fits, low
    <3>5. Malformed(spec) => r = Failed("invalid")
      BY <2>1, <2>2, <2>4 DEF Fits
    <3> QED  BY <3>2, <3>3, <3>4, <3>5 DEF r, wanted
  <2> QED  BY <2>5, <2>6
<1>3. CASE spec \in [form : {"from"}, start : Number]
  <2>1. spec.form = "from" /\ spec.start \in Nat /\ spec.start <= Top + 1
    BY <1>3 DEF Number
  <2>2. Malformed(spec) <=> spec.start > Top
    BY <2>1 DEF Malformed
  <2>3. wanted = {b \in 0 .. size - 1 : b >= spec.start}
    BY <2>1 DEF Named
  <2>4. r = IF ~Fits(spec.start) THEN Failed("invalid")
            ELSE IF spec.start >= size THEN Failed("unsatisfiable")
            ELSE [start |-> spec.start, end |-> size]
    BY <2>1 DEF ParseHttpRange
  <2> HIDE DEF r, wanted
  <2>5. CASE spec.start >= size
    <3>1. wanted = {}
      BY <2>1, <2>3, <2>5
    <3> QED  BY <2>1, <2>2, <2>4, <2>5, <3>1 DEF Fits, r, wanted
  <2>6. CASE ~(spec.start >= size)
    <3> DEFINE low == spec.start
    <3>1. low \in 0 .. Top /\ low < size
      BY <2>1, <2>6
    <3> HIDE DEF low
    <3>2. wanted = low .. size - 1 /\ size - 1 \in wanted
      BY <2>1, <2>3, <3>1 DEF low
    <3>3. [start |-> low, end |-> size] \in ByteRange
          /\ BytesOf([start |-> low, end |-> size]) = low .. size - 1
      BY <1>1, <3>1
    <3>4. r = [start |-> low, end |-> size] /\ ~Malformed(spec)
      BY <2>1, <2>2, <2>4, <2>6, <3>1 DEF Fits, low
    <3> QED  BY <3>2, <3>3, <3>4 DEF r, wanted
  <2> QED  BY <2>5, <2>6
<1>4. CASE spec \in [form : {"span"}, start : Number, end : Number]
  <2>1. /\ spec.form = "span" /\ spec.start \in Nat /\ spec.start <= Top + 1
        /\ spec.end \in Nat /\ spec.end <= Top + 1
    BY <1>4 DEF Number
  <2>2. Malformed(spec) <=> spec.start > Top \/ spec.end > Top \/ spec.end < spec.start
    BY <2>1 DEF Malformed
  <2>3. wanted = {b \in 0 .. size - 1 : b >= spec.start /\ b <= spec.end}
    BY <2>1 DEF Named
  <2>4. r = IF ~Fits(spec.start) \/ ~Fits(spec.end) \/ spec.end < spec.start
            THEN Failed("invalid")
            ELSE IF spec.start >= size THEN Failed("unsatisfiable")
            ELSE [start |-> spec.start, end |-> Smaller(spec.end, size - 1) + 1]
    BY <2>1 DEF ParseHttpRange
  <2> HIDE DEF r, wanted
  <2>5. Malformed(spec) => r = Failed("invalid")
    BY <2>1, <2>2, <2>4 DEF Fits
  <2>6. CASE ~Malformed(spec) /\ spec.start >= size
    <3>1. wanted = {}
      BY <2>1, <2>3, <2>6
    <3>2. r = Failed("unsatisfiable")
      BY <2>1, <2>2, <2>4, <2>6 DEF Fits
    <3> QED  BY <2>6, <3>1, <3>2 DEF r, wanted
  <2>7. CASE ~Malformed(spec) /\ ~(spec.start >= size)
    <3> DEFINE low == spec.start
               high == Smaller(spec.end, size - 1) + 1
    <3>1. low \in 0 .. Top /\ high \in 0 .. Top /\ low < high
          /\ \A b \in Nat : b <= size - 1 /\ b <= spec.end <=> b <= high - 1
      BY <2>1, <2>2, <2>7 DEF Smaller
    <3>2. r = [start |-> low, end |-> high]
      BY <2>1, <2>2, <2>4, <2>7 DEF Fits
    <3> HIDE DEF low, high
    <3>3. wanted = low .. high - 1 /\ low \in wanted
      <4>1. ASSUME NEW b PROVE b \in wanted <=> b \in low .. high - 1
        BY <2>1, <2>3, <3>1 DEF low
      <4>2. wanted = low .. high - 1
        BY <4>1, Zenon
      <4>3. low \in low .. high - 1
        BY <3>1
      <4> QED  BY <4>2, <4>3
    <3>4. [start |-> low, end |-> high] \in ByteRange
          /\ BytesOf([start |-> low, end |-> high]) = low .. high - 1
      BY <1>1, <3>1
    <3> QED  BY <2>7, <3>2, <3>3, <3>4 DEF r, wanted
  <2> QED  BY <2>5, <2>6, <2>7 DEF r, wanted
<1> QED  BY <1>2, <1>3, <1>4 DEF HeaderSpec

-----------------------------------------------------------------------------
(* Every behaviour                                                           *)

\* The intervals are typed, apart and cover the bytes inserted, and the result of
\* the last request is that of its header.
RangeInv ==
    /\ ranges \in Seq(ByteRange) /\ Apart(ranges) /\ Denotes(ranges) = bytes
    /\ request.spec \in HeaderSpec /\ request.size \in 0 .. Top
    /\ request.result = ParseHttpRange(request.spec, request.size)

LEMMA NoRequestResolved ==
    /\ NoRequest.spec \in HeaderSpec /\ NoRequest.size \in 0 .. Top
    /\ NoRequest.result = ParseHttpRange(NoRequest.spec, NoRequest.size)
<1> DEFINE spec == [form |-> "from", start |-> 0]
<1>1. NoRequest = [spec |-> spec, size |-> 0, result |-> Failed("unsatisfiable")]
  BY DEF NoRequest
<1>2. spec.form = "from" /\ spec.start = 0 /\ 0 \in 0 .. Top /\ 0 \in Number
  BY TopAssumption DEF Number
<1>3. spec \in [form : {"from"}, start : Number]
  BY <1>2
<1> HIDE DEF spec
<1>4. ParseHttpRange(spec, 0) = Failed("unsatisfiable")
  BY <1>2, TopAssumption DEF ParseHttpRange, Fits
<1> QED  BY <1>1, <1>2, <1>3, <1>4 DEF HeaderSpec

LEMMA RangesStartEmpty == NoRanges => RangeInv
<1> SUFFICES ASSUME NoRanges PROVE RangeInv
  OBVIOUS
<1>1. Denotes(<<>>) = {}
  BY NoInterval, HeldBytes
<1> QED  BY <1>1, NoInterval, NoRequestResolved DEF NoRanges, RangeInv

LEMMA RangesStep == RangeInv /\ [RangeNext]_rangeVars => RangeInv'
<1> SUFFICES ASSUME RangeInv, [RangeNext]_rangeVars PROVE RangeInv'
  OBVIOUS
<1>1. ASSUME NEW range \in ByteRange, Add(range) PROVE RangeInv'
  <2>1. /\ Insert(ranges, range) \in Seq(ByteRange) /\ Apart(Insert(ranges, range))
        /\ Denotes(Insert(ranges, range)) = Denotes(ranges) \cup BytesOf(range)
    BY InsertKeeps DEF RangeInv
  <2>2. ranges' \in Seq(ByteRange) /\ Apart(ranges') /\ Denotes(ranges') = bytes'
    BY <1>1, <2>1 DEF Add, RangeInv
  <2> QED  BY <1>1, <2>2, NoRequestResolved DEF Add, RangeInv
<1>2. ASSUME NEW spec \in HeaderSpec, NEW size \in 0 .. Top, Resolve(spec, size) PROVE RangeInv'
  BY <1>2 DEF Resolve, RangeInv
<1>3. CASE UNCHANGED rangeVars
  BY <1>3 DEF RangeInv, rangeVars
<1> QED  BY <1>1, <1>2, <1>3 DEF RangeNext

LEMMA RangesAlways == RangeSpec => []RangeInv
<1> QED  BY RangesStartEmpty, RangesStep, PTL DEF RangeSpec

\* Whatever is inserted, in any order and overlap, and for every width of the
\* numbers, the sorted intervals stand for the set of the bytes inserted and every
\* query answers as that set would (RangeSet::insert, contains, missing,
\* intersection, total_bytes).
THEOREM IntervalsActAsSet == RangeSpec => []ActsAsSet
<1>1. RangeInv => ActsAsSet
  <2> SUFFICES ASSUME RangeInv PROVE ActsAsSet
    OBVIOUS
  <2>1. ranges \in Seq(ByteRange) /\ Apart(ranges) /\ Denotes(ranges) = bytes
    BY DEF RangeInv
  <2>2. ASSUME NEW s \in Seq(ByteRange), Apart(s)
        PROVE  /\ \A i \in DOMAIN s : s[i] \in ByteRange
               /\ \A i \in DOMAIN s : i > 1 => s[i - 1].end < s[i].start
    <3>1. DOMAIN s = 1 .. Len(s) /\ Len(s) \in Nat /\ \A i \in 1 .. Len(s) : s[i] \in ByteRange
      BY SortedBytes
    <3>2. ASSUME NEW i \in DOMAIN s, i > 1 PROVE s[i - 1].end < s[i].start
      <4>1. i - 1 \in DOMAIN s /\ i - 1 < i
        BY <3>1, <3>2
      <4> QED  BY <2>2, <4>1 DEF Apart
    <3> QED  BY <3>1, <3>2
  <2>3. Canonical
    BY <2>1, <2>2 DEF Canonical
  <2>4. ASSUME NEW r \in ByteRange
        PROVE  LET gaps == Missing(ranges, r)
               IN  /\ Contains(ranges, r) <=> BytesOf(r) \subseteq bytes
                   /\ Denotes(Intersection(ranges, r)) = BytesOf(r) \cap bytes
                   /\ Denotes(gaps) = BytesOf(r) \ bytes
                   /\ \A i \in DOMAIN gaps : gaps[i] \in ByteRange
                   /\ \A i \in DOMAIN gaps : i > 1 => gaps[i - 1].end < gaps[i].start
    <3> DEFINE gaps == Missing(ranges, r)
    <3>1. gaps \in Seq(ByteRange) /\ Apart(gaps) /\ Denotes(gaps) = BytesOf(r) \ bytes
      BY <2>1, MissingIs
    <3>2. Contains(ranges, r) <=> BytesOf(r) \subseteq bytes
      BY <2>1, ContainsIs
    <3>3. Denotes(Intersection(ranges, r)) = BytesOf(r) \cap bytes
      BY <2>1, IntersectionIs
    <3> HIDE DEF gaps
    <3>4. /\ \A i \in DOMAIN gaps : gaps[i] \in ByteRange
          /\ \A i \in DOMAIN gaps : i > 1 => gaps[i - 1].end < gaps[i].start
      BY <2>2, <3>1
    <3> QED  BY <3>1, <3>2, <3>3, <3>4 DEF gaps
  <2>5. TotalBytes(ranges) = Cardinality(bytes)
    BY <2>1, TotalIs
  <2>6. QueriesAgree
    BY <2>4, <2>5 DEF QueriesAgree
  <2> QED  BY <2>3, <2>6 DEF ActsAsSet
<1> QED  BY <1>1, RangesAlways, PTL

\* For every width of the numbers and every size of the file a Range header
\* resolves to the bytes it names, a malformed one is refused as invalid and one
\* that names no byte as unsatisfiable (parse_http_range).
THEOREM HeadersResolve == RangeSpec => []HeaderResolves
<1>1. RangeInv => HeaderResolves
  BY ParseIs DEF RangeInv, HeaderResolves
<1> QED  BY <1>1, RangesAlways, PTL
=============================================================================
