---------------------------- MODULE Artwork_proofs ----------------------------
(* For every set of images, pages and slots: a cleared miss stays cleared, and *)
(* the threads' slots are accounted for.                                      *)
(*                                                                            *)
(* ClearInv: a miss and the fetches that could write it stand at the last     *)
(* clearing. PoolInv: every taken slot has one command, thread or answer, and *)
(* nothing waits that could run.                                              *)
EXTENDS Artwork, FiniteSetTheorems, SequenceTheorems, WellFoundedInduction, TLAPS

\* What a thread does is an image's fetch, or the clearing of a title's misses.
Pcs == {"derive", "clear", "lease", "find", "fetch", "write", "mark"}
FetchesOf(A) ==
    [pc : Pcs, slot : A, address : A, scoped : A, result : A, seen : A, revoked : BOOLEAN]
ClearsOf(A) == [pc : {"scope", "urls"}, id : A, addresses : A]
IsFetch(w) == \E A : w \in FetchesOf(A)
IsClear(w) == \E A : w \in ClearsOf(A)

\* A fetch that found no miss still means this clearing, or its lease is revoked.
Leased(w) == w.pc \in {"fetch", "write"} /\ ~w.revoked
Bound(w) == Leased(w) /\ w.address \in Addresses => w.seen = clears[w.address]
Works == \A w \in working : (IsFetch(w) \/ IsClear(w)) /\ Bound(w)

Miss(s) == \/ miss[s] = None
           \/ \E marked \in BOOLEAN : miss[s] = [seen |-> clears[s], marked |-> marked]
Misses == /\ clears = [s \in Addresses |-> clears[s]]
          /\ miss = [s \in Addresses |-> miss[s]] /\ \A s \in Addresses : Miss(s)

ClearInv == Misses /\ Works

LEMMA InitClearInv == Init => ClearInv
<1> SUFFICES ASSUME Init PROVE ClearInv
  OBVIOUS
<1>1. Misses
  BY DEF Init, Misses, Miss
<1> QED  BY <1>1 DEF Init, ClearInv, Works

-----------------------------------------------------------------------------
(* What a step does to a fetch and to a miss                                 *)

\* A thread whose work goes on leaves the others alone.
LEMMA StepWorks ==
    ASSUME Works, UNCHANGED clears, NEW w \in working, NEW next,
           working' \subseteq (working \ {w}) \cup {next},
           IsFetch(next) \/ IsClear(next), Bound(next)
    PROVE  Works'
<1>1. ASSUME NEW v \in working' PROVE (IsFetch(v) \/ IsClear(v)) /\ (Bound(v))'
  <2>1. (IsFetch(v) \/ IsClear(v)) /\ Bound(v)
    BY <1>1 DEF Works
  <2> QED  BY <2>1 DEF Bound
<1> QED  BY <1>1 DEF Works

LEMMA SameMisses == Misses /\ UNCHANGED <<miss, clears>> => Misses'
<1> QED  BY DEF Misses, Miss

\* Fetches and clearings remain what they are.
LEMMA WorkKinds ==
    ASSUME NEW w
    PROVE  /\ IsFetch(w) => w.pc \in Pcs /\ ~IsClear(w)
           /\ IsClear(w) => w.pc \in {"scope", "urls"}
<1> QED  BY DEF IsFetch, IsClear, FetchesOf, ClearsOf, Pcs

GoesOn(w, pc, result, seen) == [w EXCEPT !.pc = pc, !.result = result, !.seen = seen]

LEMMA FetchGoesOn ==
    ASSUME NEW w, IsFetch(w), NEW pc \in {"lease", "find", "fetch", "write", "mark"},
           NEW result, NEW seen
    PROVE  LET next == GoesOn(w, pc, result, seen)
           IN  /\ IsFetch(next) /\ next.pc = pc /\ next.address = w.address
               /\ next.seen = seen /\ next.revoked = w.revoked
<1> DEFINE next == GoesOn(w, pc, result, seen)
<1>1. PICK A : w \in FetchesOf(A)
  BY DEF IsFetch
<1> DEFINE B == A \cup {result, seen}
<1>2. w \in FetchesOf(B)
  BY <1>1 DEF FetchesOf
<1>3. result \in B /\ seen \in B /\ pc \in Pcs
  BY DEF Pcs
<1> HIDE DEF B, Pcs
<1>4. next \in FetchesOf(B)
  BY <1>2, <1>3 DEF FetchesOf, GoesOn
<1>5. next.pc = pc /\ next.address = w.address /\ next.seen = seen /\ next.revoked = w.revoked
  BY <1>2 DEF FetchesOf, GoesOn
<1> QED  BY <1>4, <1>5 DEF IsFetch

LEMMA FetchRevoked ==
    ASSUME NEW w, IsFetch(w)
    PROVE  LET next == [w EXCEPT !.revoked = TRUE]
           IN  /\ IsFetch(next) /\ next.revoked
<1> DEFINE next == [w EXCEPT !.revoked = TRUE]
<1>1. PICK A : w \in FetchesOf(A)
  BY DEF IsFetch
<1>4. next \in FetchesOf(A)
  BY <1>1 DEF FetchesOf
<1>5. next.revoked = TRUE
  BY <1>1 DEF FetchesOf
<1> QED  BY <1>4, <1>5 DEF IsFetch

LEMMA ClearGoesOn ==
    ASSUME NEW w, IsClear(w), NEW addresses
    PROVE  LET next == [w EXCEPT !.pc = "urls"]
               fewer == [w EXCEPT !.addresses = addresses]
           IN  /\ IsClear(next) /\ next.pc = "urls" /\ IsClear(fewer) /\ fewer.pc = w.pc
<1>1. PICK A : w \in ClearsOf(A)
  BY DEF IsClear
<1> DEFINE B == A \cup {addresses}
<1>2. w \in ClearsOf(B) /\ addresses \in B
  BY <1>1 DEF ClearsOf
<1> HIDE DEF B
<1> QED  BY <1>2 DEF IsClear, ClearsOf

\* A work may only change what it does next, unless that is to rely on no miss.
LEMMA NextWork ==
    ASSUME NEW w, IsFetch(w) \/ IsClear(w), Bound(w), NEW pc,
           IsFetch(w) => pc \in {"lease", "find", "mark"},
           IsClear(w) => pc = "urls"
    PROVE  LET next == [w EXCEPT !.pc = pc]
           IN  (IsFetch(next) \/ IsClear(next)) /\ Bound(next)
<1>1. CASE IsFetch(w)
  <2>1. [w EXCEPT !.pc = pc] = GoesOn(w, pc, w.result, w.seen)
    BY <1>1 DEF IsFetch, FetchesOf, GoesOn
  <2> DEFINE next == GoesOn(w, pc, w.result, w.seen)
  <2>2. IsFetch(next) /\ next.pc = pc
    BY <1>1, FetchGoesOn
  <2> HIDE DEF next
  <2> QED  BY <1>1, <2>1, <2>2 DEF Bound, Leased, next
<1>2. CASE IsClear(w)
  <2> DEFINE next == [w EXCEPT !.pc = pc]
  <2>1. IsClear(next) /\ next.pc = "urls"
    BY <1>2, ClearGoesOn
  <2> HIDE DEF next
  <2> QED  BY <2>1 DEF Bound, Leased, next
<1> QED  BY <1>1, <1>2

\* A clearing revokes whoever could bring the miss back.
LEMMA ClearMissClears ==
    ASSUME Misses, NEW works, \A w \in works : (IsFetch(w) \/ IsClear(w)) /\ Bound(w),
           NEW address, ClearMiss(works, address)
    PROVE  ClearInv'
<1>1. Misses'
  <2>1. clears' = [s \in Addresses |-> clears'[s]]
    BY DEF Misses, ClearMiss
  <2>2. miss' = [s \in Addresses |-> miss'[s]]
    BY DEF Misses, ClearMiss
  <2>3. ASSUME NEW s \in Addresses PROVE Miss(s)'
    BY <2>3 DEF Misses, Miss, ClearMiss
  <2> QED  BY <2>1, <2>2, <2>3 DEF Misses
<1>2. ASSUME NEW v \in working' PROVE (IsFetch(v) \/ IsClear(v)) /\ Bound(v)'
  <2>1. PICK w \in works :
          v = IF w.pc \in {"find", "fetch", "write"} /\ w.address = address
              THEN [w EXCEPT !.revoked = TRUE] ELSE w
    BY <1>2 DEF ClearMiss, Revoked
  <2>2. (IsFetch(w) \/ IsClear(w)) /\ Bound(w)
    OBVIOUS
  <2>3. CASE w.pc \in {"find", "fetch", "write"} /\ w.address = address
    <3>1. IsFetch(w)
      BY <2>2, <2>3, WorkKinds
    <3>2. IsFetch(v) /\ v.revoked
      <4>1. v = [w EXCEPT !.revoked = TRUE]
        BY <2>1, <2>3
      <4> QED  BY <3>1, <4>1, FetchRevoked
    <3> QED  BY <3>2 DEF Bound, Leased
  <2>4. CASE ~(w.pc \in {"find", "fetch", "write"} /\ w.address = address)
    <3>1. v = w
      BY <2>1, <2>4
    <3>2. Leased(w) /\ w.address \in Addresses => clears'[w.address] = clears[w.address]
      BY <2>4 DEF Leased, Misses, ClearMiss
    <3> QED  BY <2>2, <3>1, <3>2 DEF Bound
  <2> QED  BY <2>3, <2>4
<1> QED  BY <1>1, <1>2 DEF ClearInv, Works

-----------------------------------------------------------------------------
(* The threads                                                               *)

LEMMA TakeClears == ASSUME ClearInv, Take PROVE ClearInv'
<1>1. PICK next : /\ working' = working \cup {next} /\ UNCHANGED <<miss, clears>>
                  /\ (IsFetch(next) \/ IsClear(next)) /\ ~Leased(next)
  <2> DEFINE c == Head(store.channel)
             new == IF c.op = "clear"
                    THEN [pc |-> "scope", id |-> c.id, addresses |-> c.addresses]
                    ELSE [pc |-> IF c.known # None THEN "derive"
                                 ELSE IF c.clear THEN "clear" ELSE "lease",
                          slot |-> c.slot, address |-> c.address, scoped |-> c.scoped,
                          result |-> c.known, seen |-> 0, revoked |-> FALSE]
  <2>1. working' = working \cup {new} /\ UNCHANGED <<miss, clears>>
    BY DEF Take
  <2>2. CASE c.op = "clear"
    <3>1. new \in ClearsOf({c.id, c.addresses}) /\ new.pc = "scope"
      BY <2>2 DEF ClearsOf
    <3> HIDE DEF new
    <3> QED  BY <2>1, <3>1 DEF Leased, IsClear
  <2>3. CASE c.op # "clear"
    <3>1. /\ new \in FetchesOf({c.slot, c.address, c.scoped, c.known, 0})
          /\ new.pc \in {"derive", "clear", "lease"}
      BY <2>3 DEF FetchesOf, Pcs
    <3> HIDE DEF new
    <3> QED  BY <2>1, <3>1 DEF Leased, IsFetch
  <2> QED  BY <2>2, <2>3
<1>2. Misses'
  BY <1>1, SameMisses DEF ClearInv
<1>3. ASSUME NEW v \in working' PROVE (IsFetch(v) \/ IsClear(v)) /\ Bound(v)'
  BY <1>1, <1>3 DEF ClearInv, Works, Bound
<1> QED  BY <1>2, <1>3 DEF ClearInv, Works

\* A thread that replies is free.
LEMMA ReplyClears ==
    ASSUME ClearInv, NEW w \in working, NEW result, Reply(w, result), UNCHANGED clears,
           Misses'
    PROVE  ClearInv'
<1>1. ASSUME NEW v \in working' PROVE (IsFetch(v) \/ IsClear(v)) /\ Bound(v)'
  BY <1>1 DEF ClearInv, Works, Bound, Reply
<1> QED  BY <1>1 DEF ClearInv, Works

LEMMA WorkClears ==
    ASSUME ClearInv, NEW w \in working,
           ClearScope(w) \/ ClearUrl(w) \/ ClearOwn(w) \/ Lease(w) \/ Find(w)
    PROVE  ClearInv'
<1>1. (IsFetch(w) \/ IsClear(w)) /\ Bound(w)
  BY DEF ClearInv, Works
<1>2. CASE ClearScope(w)
  <2>1. IsClear(w) /\ ~IsFetch(w)
    BY <1>1, <1>2, WorkKinds DEF ClearScope, Pcs
  <2>2. Works'
    <3> DEFINE next == [w EXCEPT !.pc = "urls"]
    <3>1. (IsFetch(next) \/ IsClear(next)) /\ Bound(next)
      BY <1>1, <2>1, NextWork
    <3>2. working' \subseteq (working \ {w}) \cup {next} /\ UNCHANGED clears
      BY <1>2 DEF ClearScope, Step
    <3> HIDE DEF next
    <3> QED  BY <3>1, <3>2, StepWorks DEF ClearInv
  <2>3. Misses'
    BY <1>2 DEF ClearScope, ClearInv, Misses, Miss
  <2> QED  BY <2>2, <2>3 DEF ClearInv
<1>3. CASE ClearUrl(w)
  <2>1. CASE \E s \in w.addresses :
               ClearMiss((working \ {w}) \cup {[w EXCEPT !.addresses = @ \ {s}]}, s)
    <3>1. PICK s : ClearMiss((working \ {w}) \cup {[w EXCEPT !.addresses = @ \ {s}]}, s)
      BY <2>1
    <3> DEFINE next == [w EXCEPT !.addresses = @ \ {s}]
    <3>2. IsClear(next) /\ next.pc = "urls"
      <4>1. w.pc = "urls" /\ IsClear(w)
        BY <1>1, <1>3, WorkKinds DEF ClearUrl, Pcs
      <4> QED  BY <4>1, ClearGoesOn
    <3> HIDE DEF next
    <3>3. \A v \in (working \ {w}) \cup {next} : (IsFetch(v) \/ IsClear(v)) /\ Bound(v)
      BY <3>2 DEF ClearInv, Works, Bound, Leased
    <3>4. ClearMiss((working \ {w}) \cup {next}, s)
      BY <3>1 DEF next
    <3> QED  BY <3>3, <3>4, ClearMissClears DEF ClearInv
  <2>2. CASE working' = working \ {w} /\ UNCHANGED <<store, miss, views, clears>>
    <3>1. ASSUME NEW v \in working' PROVE (IsFetch(v) \/ IsClear(v)) /\ Bound(v)'
      BY <2>2, <3>1 DEF ClearInv, Works, Bound
    <3> QED  BY <2>2, <3>1, SameMisses DEF ClearInv, Works
  <2> QED  BY <1>3, <2>1, <2>2 DEF ClearUrl
<1>4. CASE ClearOwn(w)
  <2> DEFINE next == [w EXCEPT !.pc = "lease"]
  <2>1. IsFetch(w) /\ ~IsClear(w)
    BY <1>1, <1>4, WorkKinds DEF ClearOwn, Pcs
  <2>2. (IsFetch(next) \/ IsClear(next)) /\ Bound(next)
    BY <1>1, <2>1, NextWork
  <2>3. ClearMiss((working \ {w}) \cup {next}, w.address)
    BY <1>4 DEF ClearOwn
  <2> HIDE DEF next
  <2>4. \A v \in (working \ {w}) \cup {next} : (IsFetch(v) \/ IsClear(v)) /\ Bound(v)
    BY <2>2 DEF ClearInv, Works
  <2> QED  BY <2>3, <2>4, ClearMissClears DEF ClearInv
<1>5. CASE Lease(w)
  <2> DEFINE next == [w EXCEPT !.pc = "find"]
  <2>1. IsFetch(w) /\ ~IsClear(w)
    BY <1>1, <1>5, WorkKinds DEF Lease, Pcs
  <2>2. (IsFetch(next) \/ IsClear(next)) /\ Bound(next)
    BY <1>1, <2>1, NextWork
  <2>3. working' \subseteq (working \ {w}) \cup {next} /\ UNCHANGED <<miss, clears>>
    BY <1>5 DEF Lease, Step
  <2> HIDE DEF next
  <2> QED  BY <2>2, <2>3, StepWorks, SameMisses DEF ClearInv
<1>6. CASE Find(w)
  <2>1. IsFetch(w)
    BY <1>1, <1>6, WorkKinds DEF Find
  <2>2. UNCHANGED <<miss, clears>>
    BY <1>6 DEF Find
  <2>3. PICK next : /\ working' = (working \ {w}) \cup {next}
                    /\ IsFetch(next) /\ Bound(next)
    <3>1. CASE miss[w.address] # None
      <4> DEFINE next == [w EXCEPT !.pc = "mark", !.result = CachedMiss(miss[w.address].seen)]
      <4>1. IsFetch(next) /\ next.pc = "mark"
        <5> DEFINE miss0 == CachedMiss(miss[w.address].seen)
        <5>1. next = GoesOn(w, "mark", miss0, w.seen)
          BY <2>1 DEF IsFetch, FetchesOf, GoesOn
        <5> DEFINE other == GoesOn(w, "mark", miss0, w.seen)
        <5>2. IsFetch(other) /\ other.pc = "mark"
          BY <2>1, FetchGoesOn
        <5> HIDE DEF other, next
        <5> QED  BY <5>1, <5>2 DEF other
      <4>2. working' = (working \ {w}) \cup {next}
        BY <1>6, <3>1 DEF Find, Step
      <4> HIDE DEF next
      <4> QED  BY <4>1, <4>2 DEF Bound, Leased
    <3>2. CASE miss[w.address] = None
      <4> DEFINE next == [w EXCEPT !.pc = "fetch", !.seen = clears[w.address]]
      <4>1. IsFetch(next) /\ next.seen = clears[next.address]
        <5>1. next = GoesOn(w, "fetch", w.result, clears[w.address])
          BY <2>1 DEF IsFetch, FetchesOf, GoesOn
        <5> DEFINE other == GoesOn(w, "fetch", w.result, clears[w.address])
        <5>2. IsFetch(other) /\ other.seen = clears[w.address] /\ other.address = w.address
          BY <2>1, FetchGoesOn
        <5> HIDE DEF other, next
        <5> QED  BY <5>1, <5>2 DEF other
      <4>2. working' = (working \ {w}) \cup {next}
        BY <1>6, <3>2 DEF Find, Step
      <4> HIDE DEF next
      <4> QED  BY <4>1, <4>2 DEF Bound
    <3> QED  BY <3>1, <3>2
  <2> QED  BY <2>2, <2>3, StepWorks, SameMisses DEF ClearInv
<1> QED  BY <1>2, <1>3, <1>4, <1>5, <1>6

LEMMA EndClears ==
    ASSUME ClearInv, NEW w \in working, Derive(w) \/ Fetch(w) \/ WriteMiss(w) \/ Mark(w)
    PROVE  ClearInv'
<1>1. (IsFetch(w) \/ IsClear(w)) /\ Bound(w)
  BY DEF ClearInv, Works
<1>2. IsFetch(w) /\ ~IsClear(w)
  BY <1>1, WorkKinds DEF Derive, Fetch, WriteMiss, Mark, Pcs
<1>3. CASE Derive(w)
  <2>1. PICK result : Reply(w, result) /\ UNCHANGED <<miss, clears>>
    BY <1>3 DEF Derive
  <2> QED  BY <2>1, ReplyClears, SameMisses DEF ClearInv
<1>4. CASE Fetch(w)
  <2>1. UNCHANGED <<miss, clears>>
    BY <1>4 DEF Fetch
  <2>2. CASE \E result : Reply(w, result)
    BY <2>1, <2>2, ReplyClears, SameMisses DEF ClearInv
  <2>3. CASE Step(w, [w EXCEPT !.pc = "write", !.result = CachedMiss(w.seen)])
    <3> DEFINE next == [w EXCEPT !.pc = "write", !.result = CachedMiss(w.seen)]
    <3>1. /\ IsFetch(next) /\ next.address = w.address /\ next.revoked = w.revoked
          /\ next.seen = w.seen
      <4>1. next = GoesOn(w, "write", CachedMiss(w.seen), w.seen)
        BY <1>2 DEF IsFetch, FetchesOf, GoesOn
      <4> DEFINE other == GoesOn(w, "write", CachedMiss(w.seen), w.seen)
      <4>2. /\ IsFetch(other) /\ other.address = w.address /\ other.revoked = w.revoked
            /\ other.seen = w.seen
        BY <1>2, FetchGoesOn
      <4> HIDE DEF other, next
      <4> QED  BY <4>1, <4>2 DEF other
    <3>2. w.pc = "fetch"
      BY <1>4 DEF Fetch
    <3>3. working' = (working \ {w}) \cup {next}
      BY <2>3 DEF Step
    <3> HIDE DEF next
    <3>4. Bound(next)
      BY <1>1, <3>1, <3>2 DEF Bound, Leased
    <3> QED  BY <2>1, <3>1, <3>3, <3>4, StepWorks, SameMisses DEF ClearInv
  <2> QED  BY <1>4, <2>2, <2>3 DEF Fetch
<1>5. CASE WriteMiss(w)
  <2>1. Works'
    <3> DEFINE next == [w EXCEPT !.pc = "mark"]
    <3>1. (IsFetch(next) \/ IsClear(next)) /\ Bound(next)
      BY <1>1, <1>2, NextWork
    <3>2. working' \subseteq (working \ {w}) \cup {next} /\ UNCHANGED clears
      BY <1>5 DEF WriteMiss, Step
    <3> HIDE DEF next
    <3> QED  BY <3>1, <3>2, StepWorks DEF ClearInv
  <2>2. Misses'
    <3>1. CASE w.revoked
      BY <1>5, <3>1, SameMisses DEF WriteMiss, ClearInv
    <3>2. CASE ~w.revoked
      <4>1. w.address \in Addresses => w.seen = clears[w.address]
        BY <1>1, <1>5, <3>2 DEF WriteMiss, Bound, Leased
      <4>2. /\ miss' = [miss EXCEPT ![w.address] = [seen |-> w.seen, marked |-> FALSE]]
            /\ clears' = clears
        BY <1>5, <3>2 DEF WriteMiss
      <4>3. ASSUME NEW s \in Addresses PROVE Miss(s)'
        BY <4>1, <4>2, <4>3 DEF ClearInv, Misses, Miss
      <4> QED  BY <4>2, <4>3 DEF ClearInv, Misses
    <3> QED  BY <3>1, <3>2
  <2> QED  BY <2>1, <2>2 DEF ClearInv
<1>6. CASE Mark(w)
  <2>1. Reply(w, w.result) /\ UNCHANGED clears
    BY <1>6 DEF Mark
  <2>2. Misses'
    <3>1. CASE w.scoped /\ miss[w.address] # None
      <4>1. miss' = [miss EXCEPT ![w.address].marked = TRUE]
        BY <1>6, <3>1 DEF Mark
      <4>2. ASSUME NEW s \in Addresses PROVE Miss(s)'
        <5>1. CASE s = w.address
          <6>1. PICK marked \in BOOLEAN : miss[s] = [seen |-> clears[s], marked |-> marked]
            BY <3>1, <5>1 DEF ClearInv, Misses, Miss
          <6>2. miss'[s] = [seen |-> clears[s], marked |-> TRUE]
            <7>1. miss'[s] = [miss[s] EXCEPT !.marked = TRUE]
              BY <4>1, <5>1 DEF ClearInv, Misses
            <7> DEFINE S == [seen : {clears[s]}, marked : BOOLEAN]
            <7>2. miss[s] \in S
              BY <6>1
            <7>3. miss'[s] \in S /\ miss'[s].marked = TRUE
              BY <7>1, <7>2
            <7> QED  BY <7>3
          <6> QED  BY <2>1, <6>2 DEF Miss
        <5>2. CASE s # w.address
          BY <2>1, <4>1, <5>2 DEF ClearInv, Misses, Miss
        <5> QED  BY <5>1, <5>2
      <4> QED  BY <2>1, <4>1, <4>2 DEF ClearInv, Misses
    <3>2. CASE ~(w.scoped /\ miss[w.address] # None)
      BY <1>6, <3>2, SameMisses DEF Mark, ClearInv
    <3> QED  BY <3>1, <3>2
  <2> QED  BY <2>1, <2>2, ReplyClears
<1> QED  BY <1>3, <1>4, <1>5, <1>6

-----------------------------------------------------------------------------
LEMMA NextClearInv == ClearInv /\ [Next]_vars => ClearInv'
<1>1. ASSUME ClearInv, Thread PROVE ClearInv'
  BY <1>1, TakeClears, WorkClears, EndClears DEF Thread
<1>2. ASSUME ClearInv, UNCHANGED threads PROVE ClearInv'
  BY <1>2 DEF ClearInv, threads, Misses, Miss, Works, Bound
<1>3. ASSUME Next PROVE Thread \/ UNCHANGED threads
  BY <1>3 DEF Next, User, NewSubject, Scroll, Grid, OpenDetail, LeaveDetail, Refresh, DrawWindow,
              Complete, Draw
<1>4. ASSUME UNCHANGED vars PROVE UNCHANGED threads
  BY <1>4 DEF vars, threads
<1> QED  BY <1>1, <1>2, <1>3, <1>4

\* No fetch brings back a miss that was cleared after the fetch found none.
THEOREM ClearedForGood == Spec => []ClearedStaysCleared
<1>1. ClearInv => ClearedStaysCleared
  BY DEF ClearInv, Misses, Miss, ClearedStaysCleared
<1> QED  BY <1>1, InitClearInv, NextClearInv, PTL DEF Spec

-----------------------------------------------------------------------------
(* Least members and recursion over the places of a sequence                 *)

\* A set of naturals that is not empty has a least member.
LEMMA LeastOf ==
    ASSUME NEW T, T \subseteq Nat, T # {}
    PROVE  Least(T) \in T /\ \A m \in T : Least(T) <= m
<1>1. PICK n \in T : \A m \in T : ~(<<m, n>> \in OpToRel(<, Nat))
  BY NatLessThanWellFounded, WFMin
<1>2. \A m \in T : ~(m < n)
  BY <1>1 DEF OpToRel
<1>3. \E k \in T : \A m \in T : k <= m
  BY <1>2
<1> QED  BY <1>3 DEF Least

\* Induction up to n, of a set rather than of a formula.
LEMMA Stepwise ==
    ASSUME NEW n \in Nat, NEW P, 0 \in P, \A i \in 1 .. n : i - 1 \in P => i \in P
    PROVE  0 .. n \subseteq P
<1> SUFFICES ASSUME NEW k \in 0 .. n, k \notin P PROVE FALSE
  OBVIOUS
<1> DEFINE T == {i \in 0 .. n : i \notin P}
           m == Least(T)
<1>1. m \in T /\ \A i \in T : m <= i
  <2>1. T \subseteq Nat /\ T # {}
    OBVIOUS
  <2> QED  BY <2>1, LeastOf
<1> HIDE DEF m
<1>2. m \in 1 .. n /\ m \notin P
  BY <1>1
<1>3. m - 1 \in 0 .. n /\ m - 1 \notin T
  BY <1>1, <1>2
<1>4. m - 1 \in P
  BY <1>3
<1> QED  BY <1>2, <1>4

LEMMA OnlyOne == \A x : Only({x}) = x
<1> QED  BY DEF Only

\* What is kept of a sequence are some of its elements, each from a place of its
\* own, and fewer than there were if a place is left out.
Picked(t, q, places) ==
    /\ Len(t) <= Len(q)
    /\ (\E i \in 1 .. Len(q) : i \notin places) => Len(t) <= Len(q) - 1
    /\ \A j \in 1 .. Len(t) : \E i \in 1 .. Len(q) : i \in places /\ t[j] = q[i]
    /\ \A j, k \in 1 .. Len(t) : j # k =>
         \E i, l \in 1 .. Len(q) : i \in places /\ l \in places /\ i # l /\ t[j] = q[i] /\ t[k] = q[l]

LEMMA AppendIs ==
    ASSUME NEW S, NEW q \in Seq(S), NEW x \in S
    PROVE  /\ Append(q, x) \in Seq(S) /\ Len(Append(q, x)) = Len(q) + 1 /\ Len(q) \in Nat
           /\ \A i \in 1 .. Len(q) : Append(q, x)[i] = q[i]
           /\ Append(q, x)[Len(q) + 1] = x
           /\ DOMAIN q = 1 .. Len(q) /\ DOMAIN Append(q, x) = 1 .. Len(q) + 1
<1> QED  BY AppendProperties, LenProperties

\* The loop of Keeping, place by place.
KeepsUpTo(f, q, places, n) ==
    f = [i \in 0 .. n |-> IF i = 0 THEN <<>>
                          ELSE IF i \in places THEN Append(f[i - 1], q[i]) ELSE f[i - 1]]

LEMMA KeepsExists ==
    ASSUME NEW q, NEW places, NEW n \in Nat
    PROVE  \E f : KeepsUpTo(f, q, places, n)
<1> DEFINE P == {k \in 0 .. n : \E f : KeepsUpTo(f, q, places, k)}
<1>1. 0 \in P
  <2> DEFINE f == [i \in 0 .. 0 |-> <<>>]
  <2>1. f = [i \in 0 .. 0 |-> IF i = 0 THEN <<>>
                              ELSE IF i \in places THEN Append(f[i - 1], q[i]) ELSE f[i - 1]]
    OBVIOUS
  <2> HIDE DEF f
  <2>2. KeepsUpTo(f, q, places, 0)
    BY <2>1 DEF KeepsUpTo
  <2> QED  BY <2>2
<1>2. ASSUME NEW k \in 1 .. n, k - 1 \in P PROVE k \in P
  <2>1. PICK f : KeepsUpTo(f, q, places, k - 1)
    BY <1>2
  <2> DEFINE next == IF k \in places THEN Append(f[k - 1], q[k]) ELSE f[k - 1]
             g == [i \in 0 .. k |-> IF i = k THEN next ELSE f[i]]
  <2>2. /\ k \in Nat /\ k # 0 /\ k - 1 \in 0 .. k /\ k - 1 # k
        /\ \A i \in 0 .. k : i = k \/ i \in 0 .. k - 1
        /\ \A i \in 0 .. k : i # k /\ i # 0 => i - 1 \in 0 .. k /\ i - 1 # k
    OBVIOUS
  <2>3. \A i \in 0 .. k - 1 :
          f[i] = IF i = 0 THEN <<>>
                 ELSE IF i \in places THEN Append(f[i - 1], q[i]) ELSE f[i - 1]
    BY <2>1 DEF KeepsUpTo
  <2>4. ASSUME NEW i \in 0 .. k
        PROVE  (IF i = k THEN next ELSE f[i]) =
                 IF i = 0 THEN <<>>
                 ELSE IF i \in places THEN Append(g[i - 1], q[i]) ELSE g[i - 1]
    <3>1. CASE i = k
      <4>1. g[k - 1] = f[k - 1]
        BY <2>2
      <4> HIDE DEF g
      <4> QED  BY <2>2, <3>1, <4>1
    <3>2. CASE i # k
      <4>1. i # 0 => g[i - 1] = f[i - 1]
        BY <2>2, <3>2
      <4> HIDE DEF g, next
      <4> QED  BY <2>2, <2>3, <3>2, <4>1
    <3> QED  BY <3>1, <3>2
  <2>5. KeepsUpTo(g, q, places, k)
    <3> DEFINE h == [i \in 0 .. k |-> IF i = 0 THEN <<>>
                       ELSE IF i \in places THEN Append(g[i - 1], q[i]) ELSE g[i - 1]]
    <3>1. g = h
      <4> HIDE DEF next
      <4>1. \A i \in 0 .. k : g[i] = h[i]
        BY <2>4
      <4> QED  BY <4>1
    <3> QED  BY <3>1 DEF KeepsUpTo
  <2> QED  BY <2>5
<1>3. 0 .. n \subseteq P
  <2> HIDE DEF P
  <2> QED  BY <1>1, <1>2, Stepwise
<1> QED  BY <1>3

LEMMA KeepingIs ==
    ASSUME NEW S, NEW q \in Seq(S), NEW places
    PROVE  Keeping(q, places) \in Seq(S) /\ Picked(Keeping(q, places), q, places)
<1> DEFINE n == Len(q)
           f == CHOOSE f : KeepsUpTo(f, q, places, n)
<1>1. n \in Nat /\ \A i \in 1 .. n : q[i] \in S
  BY LenProperties, ElementOfSeq
<1>2. KeepsUpTo(f, q, places, n)
  BY <1>1, KeepsExists
<1>3. Keeping(q, places) = f[n]
  BY DEF Keeping, KeepsUpTo
<1> HIDE DEF f
<1>4. /\ f[0] = <<>>
      /\ \A i \in 1 .. n : f[i] = IF i \in places THEN Append(f[i - 1], q[i]) ELSE f[i - 1]
  <2>1. 0 \in 0 .. n /\ \A i \in 1 .. n : i \in 0 .. n /\ i # 0
    BY <1>1
  <2> QED  BY <1>2, <2>1 DEF KeepsUpTo
<1> DEFINE Upto(t, m) ==
             /\ t \in Seq(S)
             /\ Len(t) <= m
             /\ (\E i \in 1 .. m : i \notin places) => Len(t) <= m - 1
             /\ \A j \in 1 .. Len(t) : \E i \in 1 .. m : i \in places /\ t[j] = q[i]
             /\ \A j, k \in 1 .. Len(t) : j # k =>
                  \E i, l \in 1 .. m :
                    i \in places /\ l \in places /\ i # l /\ t[j] = q[i] /\ t[k] = q[l]
           P == {i \in 0 .. n : Upto(f[i], i)}
<1>5. 0 \in P
  <2>1. f[0] \in Seq(S) /\ Len(f[0]) = 0
    BY <1>4
  <2>2. Upto(f[0], 0)
    BY <2>1
  <2> QED  BY <1>1, <2>2
<1>6. ASSUME NEW m \in 1 .. n, m - 1 \in P PROVE m \in P
  <2> DEFINE t == f[m - 1]
             u == f[m]
  <2>1. Upto(t, m - 1)
    BY <1>6
  <2>2. m \in Nat /\ \A i : i \in 1 .. m <=> i \in 1 .. m - 1 \/ i = m
    BY <1>1
  <2>3. u = IF m \in places THEN Append(t, q[m]) ELSE t
    BY <1>4
  <2> HIDE DEF t, u
  <2>4. Len(t) \in Nat
    BY <2>1, LenProperties
  <2>5. CASE m \notin places
    <3>1. u = t
      BY <2>3, <2>5
    <3>2. Upto(t, m)
      <4>1. Len(t) <= m - 1
        BY <2>1
      <4>2. Len(t) <= m
        BY <2>2, <2>4, <4>1
      <4>3. \A i \in 1 .. m - 1 : i \in 1 .. m
        BY <2>2
      <4> QED  BY <2>1, <4>1, <4>2, <4>3
    <3> HIDE DEF Upto
    <3>3. Upto(f[m], m)
      BY <3>1, <3>2 DEF u
    <3> QED  BY <1>1, <3>3
  <2>6. CASE m \in places
    <3>1. /\ u = Append(t, q[m]) /\ q[m] \in S
      BY <1>1, <2>3, <2>6
    <3>2. t \in Seq(S)
      BY <2>1
    <3>3. /\ u \in Seq(S) /\ Len(u) = Len(t) + 1
          /\ \A i \in 1 .. Len(t) : u[i] = t[i]
          /\ u[Len(t) + 1] = q[m]
      BY <3>1, <3>2, AppendIs
    <3>4. Len(u) <= m
      BY <2>1, <2>2, <2>4, <3>3
    <3>5. (\E i \in 1 .. m : i \notin places) => Len(u) <= m - 1
      <4>1. SUFFICES ASSUME NEW i \in 1 .. m, i \notin places PROVE Len(u) <= m - 1
        OBVIOUS
      <4>2. i \in 1 .. m - 1
        BY <2>2, <2>6, <4>1
      <4>3. Len(t) <= m - 1 - 1
        BY <2>1, <4>1, <4>2
      <4> QED  BY <2>2, <2>4, <3>3, <4>3
    <3>6. \A j : j \in 1 .. Len(u) <=> j \in 1 .. Len(t) \/ j = Len(t) + 1
      BY <2>4, <3>3
    <3>7. ASSUME NEW j \in 1 .. Len(t)
          PROVE  \E i \in 1 .. m : i \in places /\ i # m /\ u[j] = q[i]
      <4>1. PICK i \in 1 .. m - 1 : i \in places /\ t[j] = q[i]
        BY <2>1
      <4>2. i \in 1 .. m /\ i # m
        BY <2>2, <4>1
      <4> QED  BY <3>3, <4>1, <4>2
    <3>8. \A j \in 1 .. Len(u) : \E i \in 1 .. m : i \in places /\ u[j] = q[i]
      <4>1. m \in 1 .. m
        BY <2>2
      <4> QED  BY <2>6, <3>3, <3>6, <3>7, <4>1
    <3>9. ASSUME NEW j \in 1 .. Len(u), NEW k \in 1 .. Len(u), j # k
          PROVE  \E i, l \in 1 .. m :
                   i \in places /\ l \in places /\ i # l /\ u[j] = q[i] /\ u[k] = q[l]
      <4>1. CASE j \in 1 .. Len(t) /\ k \in 1 .. Len(t)
        <5>1. PICK i, l \in 1 .. m - 1 :
                i \in places /\ l \in places /\ i # l /\ t[j] = q[i] /\ t[k] = q[l]
          BY <2>1, <3>9, <4>1
        <5>2. i \in 1 .. m /\ l \in 1 .. m
          BY <2>2
        <5> QED  BY <3>3, <4>1, <5>1, <5>2
      <4>2. CASE j \in 1 .. Len(t) /\ k = Len(t) + 1
        <5>1. m \in 1 .. m
          BY <2>2
        <5> QED  BY <2>6, <3>3, <3>7, <4>2, <5>1
      <4>3. CASE k \in 1 .. Len(t) /\ j = Len(t) + 1
        <5>1. m \in 1 .. m
          BY <2>2
        <5> QED  BY <2>6, <3>3, <3>7, <4>3, <5>1
      <4> QED  BY <3>6, <3>9, <4>1, <4>2, <4>3
    <3>10. Upto(u, m)
      BY <3>3, <3>4, <3>5, <3>8, <3>9
    <3> HIDE DEF Upto
    <3>11. Upto(f[m], m)
      BY <3>10 DEF u
    <3> QED  BY <1>1, <3>11
  <2> QED  BY <2>5, <2>6
<1>7. n \in P
  <2>1. 0 .. n \subseteq P
    <3> HIDE DEF P, n
    <3> QED  BY <1>1, <1>5, <1>6, Stepwise
  <2> HIDE DEF P
  <2> QED  BY <1>1, <2>1
<1>8. Upto(f[n], n)
  BY <1>7
<1> QED  BY <1>3, <1>8 DEF Picked

-----------------------------------------------------------------------------
(* What the store holds                                                      *)

EntryOf == [key : Keys, result : Outcomes]
CommandOf ==
    [op : {"image"}, slot : Slots, address : Addresses, clear : BOOLEAN, scoped : BOOLEAN,
     known : Outcomes \cup {None}]
    \cup [op : {"clear"}, id : Nat, addresses : SUBSET Addresses]
AnswerOf == [slot : Slots, result : Outcomes]
Stores ==
    [queue : Seq(JobOf), active : [Slots -> RunningJob \cup {None}], cache : Seq(EntryOf),
     newest : Owners \cup {None}, requested : (SUBSET Addresses) \cup {None},
     retry : SUBSET Addresses, channel : Seq(CommandOf), answers : SUBSET AnswerOf]

Sized(s) == Len(s.queue) <= Queued /\ Len(s.cache) <= Entries /\ Len(s.channel) <= Active + 1

\* No image is fetched twice, and none is kept twice.
Alone(s) == \A i, j \in Jobs(s) : i # j => s.active[i].key.source # s.active[j].key.source
OneEntry(s) == \A i, j \in DOMAIN s.cache : i # j => s.cache[i].key # s.cache[j].key

\* What is fetched for a current generation is not kept yet.
Fresh(s) == \A i \in Jobs(s) : ~s.active[i].old => ~Cached(s, s.active[i].key)

Spared(s) == Cardinality(Prefetching(s)) <= Active - Reserved

\* A slot is taken exactly while a command, a thread or an answer has it.
Images(s) == {k \in DOMAIN s.channel : s.channel[k].op = "image"}
Fetching(W) == {w \in W : w.pc \notin {"scope", "urls"}}
Sent(s, i) == \E k \in Images(s) : s.channel[k].slot = i
Worked(W, i) == \E w \in Fetching(W) : w.slot = i
Answered(s, i) == \E a \in s.answers : a.slot = i

Placed(s, W) ==
    /\ \A i \in Slots : i \in Jobs(s) <=> Sent(s, i) \/ Worked(W, i) \/ Answered(s, i)
    /\ \A i \in Slots : /\ ~(Sent(s, i) /\ Worked(W, i)) /\ ~(Sent(s, i) /\ Answered(s, i))
                        /\ ~(Worked(W, i) /\ Answered(s, i))
    /\ \A j, k \in Images(s) : s.channel[j].slot = s.channel[k].slot => j = k
    /\ \A v, w \in Fetching(W) : v.slot = w.slot => v = w
    /\ \A a, b \in s.answers : a.slot = b.slot => a = b

Pool(s, W) ==
    /\ s \in Stores /\ Sized(s) /\ Alone(s) /\ OneEntry(s) /\ Fresh(s) /\ Spared(s)
    /\ Placed(s, W)

\* Nothing waits that could run, except while an answer is being taken.
Settled(s) ==
    /\ \A i \in DOMAIN s.queue :
         s.queue[i].interactive /\ Untouched(s, s.queue[i].key)
            => /\ Jobs(s) = Slots
               /\ Cardinality(Jobs(s) \ Prefetching(s)) >= Reserved
    /\ s.queue # <<>> => Jobs(s) # {}

LEMMA StoreFields ==
    ASSUME NEW s \in Stores
    PROVE  /\ s.queue \in Seq(JobOf) /\ Len(s.queue) \in Nat /\ DOMAIN s.queue = 1 .. Len(s.queue)
           /\ \A i \in 1 .. Len(s.queue) : s.queue[i] \in JobOf
           /\ s.active \in [Slots -> RunningJob \cup {None}]
           /\ s.cache \in Seq(EntryOf) /\ Len(s.cache) \in Nat /\ DOMAIN s.cache = 1 .. Len(s.cache)
           /\ \A i \in 1 .. Len(s.cache) : s.cache[i] \in EntryOf
           /\ s.newest \in Owners \cup {None} /\ s.requested \in (SUBSET Addresses) \cup {None}
           /\ s.retry \in SUBSET Addresses /\ s.answers \in SUBSET AnswerOf
           /\ s.channel \in Seq(CommandOf) /\ Len(s.channel) \in Nat
           /\ DOMAIN s.channel = 1 .. Len(s.channel)
           /\ \A i \in 1 .. Len(s.channel) : s.channel[i] \in CommandOf
           /\ \A i \in Jobs(s) : i \in Slots /\ s.active[i] \in RunningJob
<1>1. /\ s.queue \in Seq(JobOf) /\ s.active \in [Slots -> RunningJob \cup {None}]
      /\ s.cache \in Seq(EntryOf) /\ s.newest \in Owners \cup {None}
      /\ s.requested \in (SUBSET Addresses) \cup {None} /\ s.retry \in SUBSET Addresses
      /\ s.channel \in Seq(CommandOf) /\ s.answers \in SUBSET AnswerOf
  BY DEF Stores
<1>2. \A i \in Jobs(s) : i \in Slots /\ s.active[i] \in RunningJob
  BY <1>1 DEF Jobs
<1>3. /\ Len(s.queue) \in Nat /\ DOMAIN s.queue = 1 .. Len(s.queue)
      /\ \A i \in 1 .. Len(s.queue) : s.queue[i] \in JobOf
  BY <1>1, LenProperties, ElementOfSeq
<1>4. /\ Len(s.cache) \in Nat /\ DOMAIN s.cache = 1 .. Len(s.cache)
      /\ \A i \in 1 .. Len(s.cache) : s.cache[i] \in EntryOf
  BY <1>1, LenProperties, ElementOfSeq
<1>5. /\ Len(s.channel) \in Nat /\ DOMAIN s.channel = 1 .. Len(s.channel)
      /\ \A i \in 1 .. Len(s.channel) : s.channel[i] \in CommandOf
  BY <1>1, LenProperties, ElementOfSeq
<1> QED  BY <1>1, <1>2, <1>3, <1>4, <1>5

LEMMA PoolSize == /\ Active \in Nat \ {0} /\ Reserved \in Nat /\ Active - Reserved \in Nat \ {0}
                  /\ Queued \in Nat \ {0} /\ Entries \in Nat \ {0}
                  /\ IsFiniteSet(Slots) /\ Cardinality(Slots) = Active /\ Slots \subseteq Nat
<1>1. Active \in Nat \ {0} /\ Reserved \in 0 .. Active - 1
  BY PoolAssumption
<1>2. IsFiniteSet(Slots) /\ Cardinality(Slots) = Active
  BY <1>1, FS_Interval DEF Slots
<1> QED  BY <1>1, <1>2, PoolAssumption DEF Slots

\* The same slots are taken for the same images, if anything by older generations.
SameSlots(s, t) ==
    /\ Jobs(t) = Jobs(s)
    /\ \A i \in Jobs(s) : /\ t.active[i].key = s.active[i].key
                          /\ t.active[i].interactive = s.active[i].interactive
                          /\ ~t.active[i].old => ~s.active[i].old
    /\ \A i \in Slots : Sent(t, i) <=> Sent(s, i)
    /\ \A j, k \in Images(t) : t.channel[j].slot = t.channel[k].slot => j = k
    /\ t.answers = s.answers

LEMMA SlotsStay ==
    ASSUME NEW s, NEW t, NEW W, SameSlots(s, t)
    PROVE  /\ Alone(s) => Alone(t)
           /\ Spared(s) => Spared(t)
           /\ Placed(s, W) => Placed(t, W)
           /\ Prefetching(t) = Prefetching(s)
           /\ \A key : Untouched(t, key) <=> Untouched(s, key)
           /\ Fresh(s) /\ (\A key : Cached(t, key) => Cached(s, key)) => Fresh(t)
<1>1. Prefetching(t) = Prefetching(s)
  BY DEF SameSlots, Prefetching
<1>2. Alone(s) => Alone(t)
  BY DEF SameSlots, Alone
<1>3. \A key : Untouched(t, key) <=> Untouched(s, key)
  BY DEF SameSlots, Untouched
<1>4. Placed(s, W) => Placed(t, W)
  BY DEF SameSlots, Placed, Answered
<1>5. Fresh(s) /\ (\A key : Cached(t, key) => Cached(s, key)) => Fresh(t)
  BY DEF SameSlots, Fresh
<1> QED  BY <1>1, <1>2, <1>3, <1>4, <1>5 DEF Spared

LEMMA SameChannel ==
    ASSUME NEW s, NEW t, NEW W, t.channel = s.channel, Placed(s, W)
    PROVE  /\ \A i \in Slots : Sent(t, i) <=> Sent(s, i)
           /\ \A j, k \in Images(t) : t.channel[j].slot = t.channel[k].slot => j = k
<1> QED  BY DEF Sent, Images, Placed

\* What is kept of the cache keeps each image once, and no other.
LEMMA FewerEntries ==
    ASSUME NEW s \in Stores, NEW t \in Stores, NEW places, Picked(t.cache, s.cache, places)
    PROVE  /\ OneEntry(s) => OneEntry(t)
           /\ \A key : Cached(t, key) => Cached(s, key)
<1>1. DOMAIN t.cache = 1 .. Len(t.cache) /\ DOMAIN s.cache = 1 .. Len(s.cache)
  BY StoreFields
<1>2. ASSUME OneEntry(s), NEW i \in 1 .. Len(t.cache), NEW j \in 1 .. Len(t.cache), i # j
      PROVE  t.cache[i].key # t.cache[j].key
  <2>1. PICK k, l \in 1 .. Len(s.cache) : k # l /\ t.cache[i] = s.cache[k] /\ t.cache[j] = s.cache[l]
    BY <1>2 DEF Picked
  <2> QED  BY <1>1, <1>2, <2>1 DEF OneEntry
<1>3. ASSUME NEW key, Cached(t, key) PROVE Cached(s, key)
  <2>1. PICK i \in 1 .. Len(t.cache) : t.cache[i].key = key
    BY <1>1, <1>3 DEF Cached, Entry
  <2>2. PICK k \in 1 .. Len(s.cache) : t.cache[i] = s.cache[k]
    BY DEF Picked
  <2> QED  BY <1>1, <2>1, <2>2 DEF Cached, Entry
<1>4. OneEntry(s) => OneEntry(t)
  BY <1>1, <1>2 DEF OneEntry
<1> QED  BY <1>3, <1>4

\* With fewer waiting and the same slots taken nothing comes to wait.
LEMMA StillSettled ==
    ASSUME NEW s \in Stores, NEW t \in Stores, NEW places, Picked(t.queue, s.queue, places),
           SameSlots(s, t), Settled(s)
    PROVE  Settled(t)
<1>1. /\ DOMAIN t.queue = 1 .. Len(t.queue) /\ DOMAIN s.queue = 1 .. Len(s.queue)
      /\ Len(t.queue) \in Nat /\ t.queue \in Seq(JobOf)
  BY StoreFields
<1>2. Jobs(t) = Jobs(s) /\ Prefetching(t) = Prefetching(s)
      /\ \A key : Untouched(t, key) <=> Untouched(s, key)
  BY SlotsStay DEF SameSlots
<1>3. ASSUME NEW i \in DOMAIN t.queue, t.queue[i].interactive, Untouched(t, t.queue[i].key)
      PROVE  Jobs(t) = Slots /\ Cardinality(Jobs(t) \ Prefetching(t)) >= Reserved
  <2>1. PICK j \in 1 .. Len(s.queue) : t.queue[i] = s.queue[j]
    BY <1>1, <1>3 DEF Picked
  <2> QED  BY <1>1, <1>2, <1>3, <2>1 DEF Settled
<1>4. t.queue # <<>> => Jobs(t) # {}
  <2>1. SUFFICES ASSUME t.queue # <<>> PROVE s.queue # <<>>
    BY <1>2 DEF Settled
  <2>2. Len(t.queue) # 0
    BY <1>1, <2>1, EmptySeq
  <2>3. 1 \in 1 .. Len(t.queue)
    BY <1>1, <2>2
  <2>4. PICK j \in 1 .. Len(s.queue) : t.queue[1] = s.queue[j]
    BY <2>3 DEF Picked
  <2> QED  BY <2>4
<1> QED  BY <1>3, <1>4 DEF Settled

LEMMA PickedAll == ASSUME NEW S, NEW q \in Seq(S) PROVE Picked(q, q, 1 .. Len(q))
<1>1. Len(q) \in Nat
  BY LenProperties
<1> QED  BY <1>1 DEF Picked

LEMMA PoolStays ==
    ASSUME NEW s, NEW t \in Stores, NEW W, Pool(s, W), SameSlots(s, t),
           NEW places, Picked(t.cache, s.cache, places),
           Len(t.queue) <= Queued, Len(t.channel) <= Active + 1
    PROVE  Pool(t, W)
<1>1. s \in Stores /\ Sized(s) /\ Alone(s) /\ OneEntry(s) /\ Fresh(s) /\ Spared(s) /\ Placed(s, W)
  BY DEF Pool
<1>2. OneEntry(t) /\ \A key : Cached(t, key) => Cached(s, key)
  BY <1>1, FewerEntries
<1>3. Alone(t) /\ Spared(t) /\ Placed(t, W) /\ Fresh(t)
  BY <1>1, <1>2, SlotsStay
<1>4. Len(t.cache) <= Entries
  <2>1. Len(t.cache) <= Len(s.cache) /\ Len(s.cache) <= Entries
    BY <1>1 DEF Picked, Sized
  <2> QED  BY <1>1, <2>1, StoreFields, PoolSize
<1> QED  BY <1>2, <1>3, <1>4 DEF Pool, Sized

-----------------------------------------------------------------------------
(* What the store does                                                       *)

\* A generation ends: its running work keeps its slots, what waits for it is gone.
LEMMA AdvancedKeeps ==
    ASSUME NEW s, NEW W, Pool(s, W), NEW owner \in Owners
    PROVE  LET t == Advanced(s, owner)
           IN  /\ Pool(t, W) /\ (Settled(s) => Settled(t))
               /\ t.retry = s.retry
               /\ t.requested = IF owner = "detail" THEN None ELSE s.requested
<1> DEFINE t == Advanced(s, owner)
           inQueue == {i \in DOMAIN s.queue : s.queue[i].owner # owner}
           inCache == {i \in DOMAIN s.cache : s.cache[i].result = Ready}
           queue == Keeping(s.queue, inQueue)
           cache == Keeping(s.cache, inCache)
           requested == IF owner = "detail" THEN None ELSE s.requested
           active == [i \in Slots |-> IF s.active[i] # None /\ s.active[i].owner = owner
                                      THEN [s.active[i] EXCEPT !.old = TRUE] ELSE s.active[i]]
<1>1. s \in Stores /\ Sized(s) /\ Placed(s, W)
  BY DEF Pool
<1>2. /\ s.queue \in Seq(JobOf) /\ s.cache \in Seq(EntryOf)
      /\ s.active \in [Slots -> RunningJob \cup {None}]
      /\ s.requested \in (SUBSET Addresses) \cup {None}
      /\ Len(s.queue) \in Nat
  BY <1>1, StoreFields
<1>3. t = [s EXCEPT !.queue = queue, !.active = active, !.requested = requested,
                    !.cache = cache, !.newest = owner]
  BY DEF Advanced
<1>4. queue \in Seq(JobOf) /\ Picked(queue, s.queue, inQueue)
  <2> HIDE DEF inQueue
  <2> QED  BY <1>2, KeepingIs
<1>5. cache \in Seq(EntryOf) /\ Picked(cache, s.cache, inCache)
  <2> HIDE DEF inCache
  <2> QED  BY <1>2, KeepingIs
<1>6. requested \in (SUBSET Addresses) \cup {None}
  BY <1>2
<1>7. ASSUME NEW i \in Slots
      PROVE  /\ active[i] \in RunningJob \cup {None}
             /\ active[i] = None <=> s.active[i] = None
             /\ s.active[i] # None => /\ active[i].key = s.active[i].key
                                      /\ active[i].interactive = s.active[i].interactive
                                      /\ ~active[i].old => ~s.active[i].old
  <2> DEFINE job == s.active[i]
  <2>1. job \in RunningJob \cup {None}
    BY <1>2
  <2>2. active[i] = IF job # None /\ job.owner = owner THEN [job EXCEPT !.old = TRUE] ELSE job
    OBVIOUS
  <2> HIDE DEF active, job
  <2>3. CASE job \in RunningJob
    <3>1. /\ [job EXCEPT !.old = TRUE] \in RunningJob
          /\ [job EXCEPT !.old = TRUE].key = job.key
          /\ [job EXCEPT !.old = TRUE].interactive = job.interactive
          /\ [job EXCEPT !.old = TRUE].old = TRUE
      BY <2>3 DEF RunningJob
    <3> QED  BY <2>2, <2>3, <3>1, FreeAssumption DEF job
  <2>4. CASE job = None
    BY <2>2, <2>4 DEF job
  <2> QED  BY <2>1, <2>3, <2>4
<1>8. active \in [Slots -> RunningJob \cup {None}]
  BY <1>7
<1> HIDE DEF queue, cache, requested, active, inQueue, inCache
<1>9. /\ t \in Stores /\ t.queue = queue /\ t.active = active /\ t.requested = requested
      /\ t.cache = cache /\ t.channel = s.channel /\ t.answers = s.answers /\ t.retry = s.retry
  BY <1>1, <1>3, <1>4, <1>5, <1>6, <1>8 DEF Stores
<1> HIDE DEF t
<1>10. SameSlots(s, t)
  <2>1. Jobs(t) = Jobs(s)
    BY <1>7, <1>9 DEF Jobs
  <2>2. \A i \in Jobs(s) : /\ t.active[i].key = s.active[i].key
                           /\ t.active[i].interactive = s.active[i].interactive
                           /\ ~t.active[i].old => ~s.active[i].old
    BY <1>7, <1>9 DEF Jobs
  <2> QED  BY <1>1, <1>9, <2>1, <2>2, SameChannel DEF SameSlots
<1>11. Pool(t, W)
  <2>1. Len(t.queue) <= Queued
    <3>1. Len(queue) <= Len(s.queue) /\ Len(s.queue) <= Queued /\ Len(queue) \in Nat
      BY <1>1, <1>4, LenProperties DEF Picked, Sized
    <3> QED  BY <1>2, <1>9, <3>1, PoolSize
  <2>2. Len(t.channel) <= Active + 1
    BY <1>1, <1>9 DEF Sized
  <2> QED  BY <1>5, <1>9, <1>10, <2>1, <2>2, PoolStays
<1>12. Settled(s) => Settled(t)
  BY <1>1, <1>4, <1>9, <1>10, StillSettled
<1> QED  BY <1>9, <1>11, <1>12 DEF t, requested

LEMMA TitledKeeps ==
    ASSUME NEW s, NEW W, Pool(s, W)
    PROVE  Pool(Titled(s), W) /\ (Settled(s) => Settled(Titled(s)))
<1> DEFINE t == Advanced(s, "detail")
           u == Titled(s)
<1>1. Pool(t, W) /\ (Settled(s) => Settled(t))
  BY AdvancedKeeps DEF Owners
<1>2. u = [t EXCEPT !.requested = {}]
  BY DEF Titled
<1> HIDE DEF t, u
<1>3. t \in Stores /\ Sized(t) /\ Placed(t, W)
  BY <1>1 DEF Pool
<1>4. /\ u \in Stores /\ u.queue = t.queue /\ u.active = t.active /\ u.cache = t.cache
      /\ u.channel = t.channel /\ u.answers = t.answers
  BY <1>2, <1>3 DEF Stores
<1>5. SameSlots(t, u)
  BY <1>3, <1>4, SameChannel DEF SameSlots, Jobs
<1>6. /\ Picked(u.cache, t.cache, 1 .. Len(t.cache)) /\ Picked(u.queue, t.queue, 1 .. Len(t.queue))
  BY <1>3, <1>4, StoreFields, PickedAll
<1>7. Pool(u, W)
  BY <1>1, <1>3, <1>4, <1>5, <1>6, PoolStays DEF Sized
<1>8. Settled(t) => Settled(u)
  BY <1>3, <1>4, <1>5, <1>6, StillSettled
<1> QED  BY <1>1, <1>7, <1>8 DEF u

\* A lookup only moves the entry to the end.
LEMMA TouchedKeeps ==
    ASSUME NEW s \in Stores, NEW key
    PROVE  LET t == Touched(s, key)
           IN  /\ t \in Stores /\ Picked(t.cache, s.cache, 1 .. Len(s.cache))
               /\ t.queue = s.queue /\ t.active = s.active /\ t.channel = s.channel
               /\ t.answers = s.answers /\ t.retry = s.retry /\ t.requested = s.requested
<1> DEFINE t == Touched(s, key)
           c == s.cache
           n == Len(c)
<1>1. c \in Seq(EntryOf) /\ n \in Nat /\ DOMAIN c = 1 .. n /\ \A i \in 1 .. n : c[i] \in EntryOf
  BY StoreFields
<1>2. CASE ~Cached(s, key)
  <2>1. t = s
    BY <1>2 DEF Touched
  <2> QED  BY <1>1, <2>1, PickedAll
<1>3. CASE Cached(s, key)
  <2> DEFINE i == CHOOSE i \in Entry(s, key) : TRUE
             fewer == Without(c, i)
             moved == Append(fewer, c[i])
  <2>1. i \in 1 .. n
    <3>1. i \in Entry(s, key)
      BY <1>3 DEF Cached
    <3> QED  BY <1>1, <3>1 DEF Entry
  <2>2. t = [s EXCEPT !.cache = moved]
    BY <1>3 DEF Touched
  <2> HIDE DEF i
  <2>3. fewer \in Seq(EntryOf) /\ Picked(fewer, c, DOMAIN c \ {i})
    <3> HIDE DEF c
    <3> QED  BY <1>1, KeepingIs DEF Without
  <2>4. c[i] \in EntryOf
    BY <1>1, <2>1
  <2> DEFINE e == c[i]
             m == Len(fewer)
  <2> HIDE DEF fewer, c
  <2>5. /\ moved \in Seq(EntryOf) /\ Len(moved) = m + 1 /\ m \in Nat
        /\ \A j \in 1 .. m : moved[j] = fewer[j]
        /\ moved[m + 1] = e
    BY <2>3, <2>4, AppendIs
  <2> HIDE DEF moved, e, m
  <2>6. /\ m <= n - 1
        /\ \A j \in 1 .. m : \E k \in 1 .. n : k # i /\ fewer[j] = c[k]
        /\ \A j, l \in 1 .. m : j # l => \E p, q \in 1 .. n : p # q /\ fewer[j] = c[p] /\ fewer[l] = c[q]
    BY <1>1, <2>1, <2>3 DEF Picked, m
  <2>7. \A j : j \in 1 .. Len(moved) <=> j \in 1 .. m \/ j = m + 1
    BY <2>5
  <2>8. Picked(moved, c, 1 .. n)
    <3>1. Len(moved) <= n
      BY <1>1, <2>5, <2>6
    <3>2. ASSUME NEW j \in 1 .. Len(moved) PROVE \E k \in 1 .. n : moved[j] = c[k]
      <4>1. CASE j \in 1 .. m
        <5>1. PICK k \in 1 .. n : k # i /\ fewer[j] = c[k]
          BY <2>6, <4>1
        <5>2. moved[j] = fewer[j]
          BY <2>5, <4>1
        <5> QED  BY <5>1, <5>2
      <4>2. CASE j = m + 1
        <5>1. moved[j] = c[i]
          BY <2>5, <4>2 DEF e
        <5> QED  BY <2>1, <5>1
      <4> QED  BY <2>7, <3>2, <4>1, <4>2
    <3>3. ASSUME NEW j \in 1 .. Len(moved), NEW l \in 1 .. Len(moved), j # l
          PROVE  \E p, q \in 1 .. n : p # q /\ moved[j] = c[p] /\ moved[l] = c[q]
      <4>1. CASE j \in 1 .. m /\ l \in 1 .. m
        <5>1. PICK p, q \in 1 .. n : p # q /\ fewer[j] = c[p] /\ fewer[l] = c[q]
          BY <2>6, <3>3, <4>1
        <5>2. moved[j] = fewer[j] /\ moved[l] = fewer[l]
          BY <2>5, <4>1
        <5> QED  BY <5>1, <5>2
      <4>2. CASE j \in 1 .. m /\ l = m + 1
        <5>1. PICK p \in 1 .. n : p # i /\ fewer[j] = c[p]
          BY <2>6, <4>2
        <5>2. moved[j] = fewer[j] /\ moved[l] = c[i]
          BY <2>5, <4>2 DEF e
        <5> QED  BY <2>1, <5>1, <5>2
      <4>3. CASE l \in 1 .. m /\ j = m + 1
        <5>1. PICK p \in 1 .. n : p # i /\ fewer[l] = c[p]
          BY <2>6, <4>3
        <5>2. moved[l] = fewer[l] /\ moved[j] = c[i]
          BY <2>5, <4>3 DEF e
        <5> QED  BY <2>1, <5>1, <5>2
      <4> QED  BY <2>7, <3>3, <4>1, <4>2, <4>3
    <3> QED  BY <3>1, <3>2, <3>3 DEF Picked, n
  <2>9. /\ t \in Stores /\ t.cache = moved
        /\ t.queue = s.queue /\ t.active = s.active /\ t.channel = s.channel
        /\ t.answers = s.answers /\ t.retry = s.retry /\ t.requested = s.requested
    BY <2>2, <2>5 DEF Stores
  <2> QED  BY <2>8, <2>9 DEF c, n
<1> QED  BY <1>2, <1>3

\* What is left of the queue is in place of it.
Requeued(s, t, W, q) ==
    /\ Pool(t, W) /\ t.queue = q /\ t.active = s.active /\ t.cache = s.cache
    /\ t.newest = s.newest

LEMMA QueueKeeps ==
    ASSUME NEW s, NEW W, Pool(s, W), NEW q \in Seq(JobOf), Len(q) <= Queued,
           NEW requested \in (SUBSET Addresses) \cup {None}
    PROVE  Requeued(s, [s EXCEPT !.queue = q, !.requested = requested], W, q)
<1> DEFINE t == [s EXCEPT !.queue = q, !.requested = requested]
<1>1. s \in Stores /\ Sized(s) /\ Placed(s, W)
  BY DEF Pool
<1>2. /\ t \in Stores /\ t.queue = q /\ t.active = s.active /\ t.cache = s.cache
      /\ t.channel = s.channel /\ t.answers = s.answers /\ t.newest = s.newest
  BY <1>1 DEF Stores
<1> HIDE DEF t
<1>3. SameSlots(s, t)
  BY <1>1, <1>2, SameChannel DEF SameSlots, Jobs
<1>4. Picked(t.cache, s.cache, 1 .. Len(s.cache))
  BY <1>1, <1>2, StoreFields, PickedAll
<1>5. Pool(t, W)
  BY <1>1, <1>2, <1>3, <1>4, PoolStays DEF Sized
<1> QED  BY <1>2, <1>5 DEF t, Requeued

LEMMA FewerKeeps ==
    ASSUME NEW s, NEW W, Pool(s, W), NEW places
    PROVE  LET q == Keeping(s.queue, places)
               t == [s EXCEPT !.queue = q]
           IN  /\ Requeued(s, t, W, q)
               /\ q \in Seq(JobOf) /\ Picked(q, s.queue, places) /\ Len(q) <= Queued
<1> DEFINE q == Keeping(s.queue, places)
<1>1. s \in Stores /\ Len(s.queue) <= Queued
  BY DEF Pool, Sized
<1>2. s.queue \in Seq(JobOf) /\ Len(s.queue) \in Nat /\ s.requested \in (SUBSET Addresses) \cup {None}
  BY <1>1, StoreFields
<1>3. q \in Seq(JobOf) /\ Picked(q, s.queue, places)
  BY <1>2, KeepingIs
<1> HIDE DEF q
<1>4. Len(q) <= Queued
  BY <1>1, <1>2, <1>3, LenProperties, PoolSize DEF Picked
<1> DEFINE t == [s EXCEPT !.queue = q]
           r == s.requested
           u == [s EXCEPT !.queue = q, !.requested = r]
<1>5. t = u
  BY <1>1 DEF Stores
<1>6. r \in (SUBSET Addresses) \cup {None}
  BY <1>2
<1> HIDE DEF t, r
<1>7. Requeued(s, u, W, q)
  BY <1>3, <1>4, <1>6, QueueKeeps
<1> HIDE DEF u
<1>8. Requeued(s, t, W, q)
  BY <1>5, <1>7
<1> QED  BY <1>3, <1>4, <1>8 DEF t, q

LEMMA MadeRoomIs ==
    ASSUME NEW s \in Stores, NEW owner, NEW interactive
    PROVE  MadeRoom(s, owner, interactive) \in Seq(JobOf)
<1> DEFINE victims == Victims(s, owner, interactive)
           q == s.queue
<1>1. q \in Seq(JobOf) /\ Len(q) \in Nat
  BY StoreFields
<1>2. Keeping(q, DOMAIN q \ {Least(victims)}) \in Seq(JobOf)
  BY <1>1, KeepingIs
<1>3. CASE Len(q) < Queued
  BY <1>1, <1>3 DEF MadeRoom
<1>4. CASE ~(Len(q) < Queued) /\ victims # {}
  BY <1>2, <1>4 DEF MadeRoom, Without
<1>5. CASE ~(Len(q) < Queued) /\ victims = {}
  <2>1. Len(q) # 0
    BY <1>1, <1>5, PoolSize
  <2>2. q # <<>>
    BY <2>1, EmptySeq
  <2>3. Tail(q) \in Seq(JobOf)
    BY <1>1, <2>2, HeadTailProperties
  <2> QED  BY <1>1, <1>5, <2>3 DEF MadeRoom
<1> QED  BY <1>3, <1>4, <1>5

LEMMA EnqueuedKeeps ==
    ASSUME NEW s, NEW W, Pool(s, W), NEW owner \in Owners, NEW key \in Keys,
           NEW interactive \in BOOLEAN
    PROVE  Pool(Enqueued(s, owner, key, interactive), W)
<1> DEFINE t == Enqueued(s, owner, key, interactive)
           room == MadeRoom(s, owner, interactive)
           j == Least(Waiting(s, owner, key))
           held == Cached(s, key) \/ Running(s, owner, key)
           waits == Waiting(s, owner, key) # {}
           full == Len(room) >= Queued
<1>1. s \in Stores /\ Len(s.queue) <= Queued
  BY DEF Pool, Sized
<1>2. /\ s.queue \in Seq(JobOf) /\ Len(s.queue) \in Nat /\ DOMAIN s.queue = 1 .. Len(s.queue)
      /\ \A i \in 1 .. Len(s.queue) : s.queue[i] \in JobOf
      /\ s.requested \in (SUBSET Addresses) \cup {None}
  BY <1>1, StoreFields
<1>3. CASE held \/ (~waits /\ full)
  <2>1. t = s
    BY <1>3 DEF Enqueued
  <2> QED  BY <2>1
<1>4. CASE ~held /\ waits
  <2> DEFINE job == [s.queue[j] EXCEPT !.interactive = @ \/ interactive]
             q == [s.queue EXCEPT ![j] = job]
             r == s.requested
  <2>1. j \in 1 .. Len(s.queue)
    <3>1. Waiting(s, owner, key) \subseteq Nat
      BY <1>2 DEF Waiting
    <3>2. j \in Waiting(s, owner, key)
      BY <1>4, <3>1, LeastOf
    <3> QED  BY <1>2, <3>2 DEF Waiting
  <2>2. t = [s EXCEPT !.queue = q]
    BY <1>4 DEF Enqueued
  <2> HIDE DEF j
  <2>3. job \in JobOf
    <3> DEFINE old == s.queue[j]
    <3>1. old \in JobOf
      BY <1>2, <2>1
    <3> HIDE DEF old
    <3>2. [old EXCEPT !.interactive = @ \/ interactive] \in JobOf
      BY <3>1 DEF JobOf
    <3> QED  BY <3>2 DEF old
  <2> HIDE DEF job
  <2>4. q \in Seq(JobOf) /\ Len(q) = Len(s.queue)
    BY <1>2, <2>1, <2>3, ExceptSeq
  <2> HIDE DEF q
  <2>5. [s EXCEPT !.queue = q] = [s EXCEPT !.queue = q, !.requested = r]
    BY <1>1 DEF Stores
  <2> HIDE DEF r
  <2> DEFINE u == [s EXCEPT !.queue = q, !.requested = r]
  <2>6. Requeued(s, u, W, q)
    <3>1. r \in (SUBSET Addresses) \cup {None} /\ Len(q) <= Queued
      BY <1>1, <1>2, <2>4 DEF r
    <3> HIDE DEF u
    <3> QED  BY <2>4, <3>1, QueueKeeps DEF u
  <2> HIDE DEF t
  <2>7. Pool(t, W)
    BY <2>2, <2>5, <2>6 DEF Requeued
  <2> QED  BY <2>7 DEF t
<1>5. CASE ~held /\ ~waits /\ ~full
  <2> DEFINE job == [owner |-> owner, key |-> key, interactive |-> interactive]
             q == Append(room, job)
             r == IF owner = "detail" /\ s.requested # None
                  THEN s.requested \cup {key.source.address} ELSE s.requested
  <2>1. t = [s EXCEPT !.queue = q, !.requested = r]
    BY <1>5 DEF Enqueued
  <2>2. room \in Seq(JobOf) /\ Len(room) \in Nat
    BY <1>1, MadeRoomIs, LenProperties
  <2>3. job \in JobOf
    BY DEF JobOf
  <2> HIDE DEF job, room
  <2>4. q \in Seq(JobOf) /\ Len(q) <= Queued
    <3>1. q \in Seq(JobOf) /\ Len(q) = Len(room) + 1
      BY <2>2, <2>3, AppendIs
    <3> QED  BY <1>5, <2>2, <3>1, PoolSize
  <2>5. key.source.address \in Addresses
    BY ViewsAssumption
  <2>6. r \in (SUBSET Addresses) \cup {None}
    BY <1>2, <2>5
  <2> HIDE DEF q, r, t
  <2>7. Requeued(s, [s EXCEPT !.queue = q, !.requested = r], W, q)
    BY <2>4, <2>6, QueueKeeps
  <2>8. Pool(t, W)
    BY <2>1, <2>7 DEF Requeued
  <2> QED  BY <2>8 DEF t
<1> QED  BY <1>3, <1>4, <1>5

LEMMA EmptiedKeeps == ASSUME NEW s, NEW W, Pool(s, W) PROVE Pool(Emptied(s), W)
<1> DEFINE places == {i \in DOMAIN s.queue : s.queue[i].owner # "browse" \/ s.queue[i].interactive}
           t == [s EXCEPT !.queue = Keeping(s.queue, places)]
<1>1. Emptied(s) = t
  BY DEF Emptied
<1> HIDE DEF places
<1>2. Pool(t, W)
  BY FewerKeeps DEF Requeued
<1> HIDE DEF t
<1> QED  BY <1>1, <1>2

\* What is wanted is not cached.
LEMMA WantedKeeps ==
    ASSUME NEW s, NEW W, Pool(s, W)
    PROVE  LET t == Wanted(s)
           IN  /\ Requeued(s, t, W, t.queue)
               /\ \E places : Picked(t.queue, s.queue, places)
               /\ \A i \in DOMAIN t.queue : ~Cached(t, t.queue[i].key)
<1> DEFINE places == {i \in DOMAIN s.queue : ~Cached(s, s.queue[i].key)}
           q == Keeping(s.queue, places)
           t == [s EXCEPT !.queue = q]
<1>1. Wanted(s) = t
  BY DEF Wanted
<1>2. s \in Stores
  BY DEF Pool
<1>3. \A i \in 1 .. Len(s.queue) : i \in places => ~Cached(s, s.queue[i].key)
  BY <1>2, StoreFields
<1> HIDE DEF places
<1>4. Requeued(s, t, W, q) /\ q \in Seq(JobOf) /\ Picked(q, s.queue, places)
  BY FewerKeeps
<1> HIDE DEF q, t
<1>5. t.queue = q /\ t.cache = s.cache
  BY <1>4 DEF Requeued
<1>6. DOMAIN q = 1 .. Len(q)
  BY <1>4, LenProperties
<1>7. ASSUME NEW i \in DOMAIN t.queue PROVE ~Cached(t, t.queue[i].key)
  <2>1. PICK j \in 1 .. Len(s.queue) : j \in places /\ q[i] = s.queue[j]
    BY <1>4, <1>5, <1>6 DEF Picked
  <2> QED  BY <1>3, <1>5, <2>1 DEF Cached, Entry
<1> QED  BY <1>1, <1>4, <1>5, <1>7

\* A loop whose turns stay in a set has a result there.
Runs(f, a, g, n) == f[0] = a /\ \A i \in 1 .. n : f[i] = g[i][f[i - 1]]

LEMMA Loop ==
    ASSUME NEW S, NEW n \in Nat, NEW a \in S, NEW g \in [1 .. n -> [S -> S]]
    PROVE  \E f \in [0 .. n -> S] : Runs(f, a, g, n)
<1> DEFINE P == {k \in 0 .. n : \E f \in [0 .. k -> S] : Runs(f, a, g, k)}
<1>1. 0 \in P
  <2>1. [i \in 0 .. 0 |-> a] \in [0 .. 0 -> S] /\ Runs([i \in 0 .. 0 |-> a], a, g, 0)
    BY DEF Runs
  <2> QED  BY <2>1
<1>2. ASSUME NEW k \in 1 .. n, k - 1 \in P PROVE k \in P
  <2>1. PICK f \in [0 .. k - 1 -> S] : Runs(f, a, g, k - 1)
    BY <1>2
  <2> DEFINE next == g[k][f[k - 1]]
             h == [i \in 0 .. k |-> IF i = k THEN next ELSE f[i]]
  <2>2. /\ k \in Nat /\ k # 0 /\ k - 1 \in 0 .. k /\ k - 1 # k /\ k - 1 \in 0 .. k - 1
        /\ \A i \in 0 .. k : i = k \/ i \in 0 .. k - 1
        /\ \A i \in 1 .. k : i = k \/ i \in 1 .. k - 1
        /\ \A i \in 1 .. k - 1 : i \in 0 .. k /\ i # k /\ i - 1 \in 0 .. k /\ i - 1 # k
        /\ 0 \in 0 .. k /\ k \in 0 .. k
    OBVIOUS
  <2>3. next \in S
    <3>1. g[k] \in [S -> S] /\ f[k - 1] \in S
      BY <2>2
    <3> QED  BY <3>1
  <2>4. next = g[k][f[k - 1]]
    OBVIOUS
  <2> HIDE DEF next
  <2>5. h \in [0 .. k -> S]
    BY <2>2, <2>3
  <2>6. h[0] = f[0] /\ h[k] = next /\ \A i \in 0 .. k : i # k => h[i] = f[i]
    BY <2>2
  <2> HIDE DEF h
  <2>7. Runs(h, a, g, k)
    <3>1. ASSUME NEW i \in 1 .. k PROVE h[i] = g[i][h[i - 1]]
      <4>1. CASE i = k
        BY <2>2, <2>4, <2>6, <4>1
      <4>2. CASE i \in 1 .. k - 1
        <5>1. h[i] = f[i] /\ h[i - 1] = f[i - 1]
          BY <2>2, <2>6, <4>2
        <5> QED  BY <2>1, <4>2, <5>1 DEF Runs
      <4> QED  BY <2>2, <4>1, <4>2
    <3> QED  BY <2>1, <2>6, <3>1 DEF Runs
  <2> QED  BY <2>5, <2>7
<1>3. 0 .. n \subseteq P
  <2> HIDE DEF P
  <2> QED  BY <1>1, <1>2, Stepwise
<1> QED  BY <1>3

\* The loop of Rewindowed.
FillsUpTo(f, s, keys, n) ==
    f = [i \in 0 .. n |->
            IF i = 0 THEN Emptied(s)
            ELSE Only({Enqueued(t, "browse", keys[i], FALSE) : t \in {f[i - 1]}})]

LEMMA OneEnqueued ==
    ASSUME NEW x, NEW key
    PROVE  Only({Enqueued(t, "browse", key, FALSE) : t \in {x}}) = Enqueued(x, "browse", key, FALSE)
<1> DEFINE y == Enqueued(x, "browse", key, FALSE)
<1>1. {Enqueued(t, "browse", key, FALSE) : t \in {x}} = {y}
  OBVIOUS
<1> HIDE DEF y
<1>2. Only({Enqueued(t, "browse", key, FALSE) : t \in {x}}) = y
  BY <1>1, OnlyOne
<1> QED  BY <1>2 DEF y

LEMMA FillsExist ==
    ASSUME NEW s, NEW W, Pool(s, W), NEW keys, NEW n \in Nat, \A i \in 1 .. n : keys[i] \in Keys
    PROVE  \E f : FillsUpTo(f, s, keys, n)
<1> DEFINE S == {t \in Stores : Pool(t, W)}
           g == [i \in 1 .. n |-> [t \in S |-> Enqueued(t, "browse", keys[i], FALSE)]]
<1>1. Emptied(s) \in S
  BY EmptiedKeeps DEF Pool
<1>2. g \in [1 .. n -> [S -> S]]
  <2>1. ASSUME NEW i \in 1 .. n, NEW t \in S PROVE Enqueued(t, "browse", keys[i], FALSE) \in S
    <3>1. Pool(t, W) /\ keys[i] \in Keys /\ "browse" \in Owners /\ FALSE \in BOOLEAN
      BY DEF Owners
    <3>2. Pool(Enqueued(t, "browse", keys[i], FALSE), W)
      BY <3>1, EnqueuedKeeps
    <3> QED  BY <3>2 DEF Pool
  <2> HIDE DEF S
  <2> QED  BY <2>1
<1>3. \A i \in 1 .. n : \A t \in S : g[i][t] = Enqueued(t, "browse", keys[i], FALSE)
  OBVIOUS
<1> HIDE DEF S, g
<1>4. PICK f \in [0 .. n -> S] : Runs(f, Emptied(s), g, n)
  <2> DEFINE a == Emptied(s)
  <2> HIDE DEF a
  <2>1. a \in S
    BY <1>1 DEF a
  <2>2. \E f \in [0 .. n -> S] : Runs(f, a, g, n)
    BY <1>2, <2>1, Loop
  <2> QED  BY <2>2 DEF a
<1> DEFINE h == [i \in 0 .. n |->
                   IF i = 0 THEN Emptied(s)
                   ELSE Only({Enqueued(t, "browse", keys[i], FALSE) : t \in {f[i - 1]}})]
<1>5. ASSUME NEW i \in 0 .. n PROVE f[i] = h[i]
  <2>1. CASE i = 0
    BY <1>4, <2>1 DEF Runs
  <2>2. CASE i # 0
    <3>1. i \in 1 .. n /\ i - 1 \in 0 .. n
      BY <2>2
    <3>2. f[i] = Enqueued(f[i - 1], "browse", keys[i], FALSE)
      BY <1>3, <1>4, <3>1 DEF Runs
    <3>3. h[i] = Only({Enqueued(t, "browse", keys[i], FALSE) : t \in {f[i - 1]}})
      BY <2>2
    <3> HIDE DEF h
    <3> QED  BY <3>2, <3>3, OneEnqueued
  <2> QED  BY <2>1, <2>2
<1>6. f = h
  <2>1. f \in [0 .. n -> S] /\ DOMAIN h = 0 .. n /\ h = [i \in 0 .. n |-> h[i]]
    OBVIOUS
  <2> HIDE DEF h
  <2> QED  BY <1>5, <2>1
<1>7. FillsUpTo(f, s, keys, n)
  BY <1>6 DEF FillsUpTo
<1> QED  BY <1>7

LEMMA RewindowedKeeps ==
    ASSUME NEW s, NEW W, Pool(s, W), NEW keys \in Seq(Keys)
    PROVE  Pool(Rewindowed(s, keys), W)
<1> DEFINE n == IF Len(keys) < Queued THEN Len(keys) ELSE Queued
           f == CHOOSE f : FillsUpTo(f, s, keys, n)
<1>1. n \in Nat /\ \A i \in 1 .. n : keys[i] \in Keys
  <2>1. Len(keys) \in Nat /\ \A i \in 1 .. Len(keys) : keys[i] \in Keys
    BY LenProperties, ElementOfSeq
  <2>2. Queued \in Nat
    BY PoolSize
  <2>3. n \in Nat /\ n <= Len(keys)
    BY <2>1, <2>2
  <2>4. \A i \in 1 .. n : i \in 1 .. Len(keys)
    <3> HIDE DEF n
    <3> QED  BY <2>1, <2>3
  <2> QED  BY <2>1, <2>3, <2>4
<1>2. Rewindowed(s, keys) = f[n]
  BY DEF Rewindowed, FillsUpTo
<1> HIDE DEF n
<1>3. FillsUpTo(f, s, keys, n)
  BY <1>1, FillsExist
<1> HIDE DEF f
<1> DEFINE P == {i \in 0 .. n : Pool(f[i], W)}
<1>4. 0 \in P
  <2>1. f[0] = Emptied(s)
    BY <1>1, <1>3 DEF FillsUpTo
  <2> QED  BY <1>1, <2>1, EmptiedKeeps
<1>5. ASSUME NEW i \in 1 .. n, i - 1 \in P PROVE i \in P
  <2>1. i \in 0 .. n /\ i # 0 /\ Pool(f[i - 1], W)
    BY <1>5
  <2>2. f[i] = Only({Enqueued(t, "browse", keys[i], FALSE) : t \in {f[i - 1]}})
    BY <1>3, <2>1 DEF FillsUpTo
  <2>3. f[i] = Enqueued(f[i - 1], "browse", keys[i], FALSE)
    BY <2>2, OneEnqueued
  <2>4. Pool(f[i - 1], W) /\ "browse" \in Owners /\ keys[i] \in Keys /\ FALSE \in BOOLEAN
    BY <1>1, <2>1 DEF Owners
  <2>5. Pool(Enqueued(f[i - 1], "browse", keys[i], FALSE), W)
    BY <2>4, EnqueuedKeeps
  <2> QED  BY <2>1, <2>3, <2>5
<1>6. 0 .. n \subseteq P
  <2> HIDE DEF P
  <2> QED  BY <1>1, <1>4, <1>5, Stepwise
<1>7. Pool(f[n], W)
  BY <1>1, <1>6
<1> QED  BY <1>2, <1>7

LEMMA BestIs ==
    ASSUME NEW s \in Stores
    PROVE  /\ Best(s) \subseteq Startable(s)
           /\ Startable(s) # {} => Best(s) # {}
<1> DEFINE S == Startable(s)
           T == {7 - Rank(s, i) : i \in S}
           r == Least(T)
           I == {i \in S : 7 - Rank(s, i) = r}
           b == Least(I)
<1>1. Best(s) = {i \in S : \A j \in S : Precedes(s, i, j)}
  <2> HIDE DEF S
  <2> QED  BY DEF Best, S
<1>2. S \subseteq Nat
  <2>1. DOMAIN s.queue = 1 .. Len(s.queue) /\ Len(s.queue) \in Nat
    BY StoreFields
  <2> QED  BY <2>1 DEF Startable
<1>3. \A i \in S : Rank(s, i) \in 0 .. 7
  BY DEF Rank
<1> SUFFICES ASSUME S # {} PROVE \E i \in S : \A j \in S : Precedes(s, i, j)
  BY <1>1
<1> HIDE DEF S
<1>4. r \in T /\ \A m \in T : r <= m
  <2>1. T \subseteq Nat /\ T # {}
    BY <1>3
  <2> HIDE DEF T
  <2> QED  BY <2>1, LeastOf
<1>5. I # {} /\ I \subseteq Nat
  BY <1>2, <1>4
<1>6. b \in I /\ \A m \in I : b <= m
  <2> HIDE DEF I
  <2> QED  BY <1>5, LeastOf
<1> HIDE DEF b, r
<1>7. b \in S /\ 7 - Rank(s, b) = r
  BY <1>6
<1>8. ASSUME NEW j \in S PROVE Precedes(s, b, j)
  <2>1. r <= 7 - Rank(s, j)
    BY <1>4
  <2>2. Rank(s, j) = Rank(s, b) => b <= j
    BY <1>6, <1>7
  <2>3. Rank(s, b) >= Rank(s, j)
    BY <1>3, <1>7, <2>1
  <2> QED  BY <1>3, <1>7, <2>2, <2>3 DEF Precedes
<1> QED  BY <1>7, <1>8

\* A job that has its slot goes to the threads, or fails at once.
Passed(s, u, slot) ==
    /\ u \in Stores /\ u.queue = s.queue /\ u.active = s.active
    /\ Picked(u.cache, s.cache, 1 .. Len(s.cache))
    /\ \/ /\ u.answers = s.answers /\ Len(s.channel) <= Active
          /\ \E c \in CommandOf : /\ c.op = "image" /\ c.slot = slot
                                  /\ u.channel = Append(s.channel, c)
       \/ /\ u.channel = s.channel
          /\ u.answers = s.answers \cup {[slot |-> slot, result |-> Failure]}

LEMMA SubmittedIs ==
    ASSUME NEW s \in Stores, NEW slot \in Slots, NEW job \in JobOf
    PROVE  Passed(s, Submitted(s, slot, job), slot)
<1> DEFINE source == [job.key EXCEPT !.blurred = FALSE]
           known == job.key.blurred /\ Cached(s, source)
           t == IF known THEN Touched(s, source) ELSE s
           result == IF known THEN s.cache[CHOOSE i \in Entry(s, source) : TRUE].result ELSE None
           clear == job.key.source.address \in s.retry
           scoped == job.owner = "detail" /\ s.requested # None
           command == [op |-> "image", slot |-> slot, address |-> job.key.source.address,
                       clear |-> clear, scoped |-> scoped, known |-> result]
           retry == t.retry \ {job.key.source.address}
           sent == [t EXCEPT !.retry = retry, !.channel = Append(t.channel, command)]
           failed == [t EXCEPT !.retry = retry,
                               !.answers = t.answers \cup {[slot |-> slot, result |-> Failure]}]
           u == Submitted(s, slot, job)
<1>1. u = IF Len(s.channel) <= Active THEN sent ELSE failed
  BY DEF Submitted
<1>2. job.key.source.address \in Addresses
  BY ViewsAssumption DEF JobOf
<1>3. result \in Outcomes \cup {None}
  <2>1. ASSUME known PROVE result \in Outcomes
    <3> DEFINE i == CHOOSE i \in Entry(s, source) : TRUE
    <3>1. i \in Entry(s, source)
      BY <2>1 DEF Cached
    <3>2. i \in 1 .. Len(s.cache)
      BY <3>1, StoreFields DEF Entry
    <3> HIDE DEF i
    <3>3. s.cache[i].result \in Outcomes
      BY <3>2, StoreFields DEF EntryOf
    <3> QED  BY <2>1, <3>3 DEF i
  <2> QED  BY <2>1
<1>4. clear \in BOOLEAN /\ scoped \in BOOLEAN
  OBVIOUS
<1>5. /\ t \in Stores /\ Picked(t.cache, s.cache, 1 .. Len(s.cache))
      /\ t.queue = s.queue /\ t.active = s.active /\ t.channel = s.channel
      /\ t.answers = s.answers /\ t.retry = s.retry
  <2>1. CASE known
    <3> DEFINE v == Touched(s, source)
    <3>1. t = v
      BY <2>1
    <3> HIDE DEF t, source
    <3>2. /\ v \in Stores /\ Picked(v.cache, s.cache, 1 .. Len(s.cache))
          /\ v.queue = s.queue /\ v.active = s.active /\ v.channel = s.channel
          /\ v.answers = s.answers /\ v.retry = s.retry
      BY TouchedKeeps
    <3> QED  BY <3>1, <3>2
  <2>2. CASE ~known
    <3>1. t = s
      BY <2>2
    <3>2. s.cache \in Seq(EntryOf)
      BY StoreFields
    <3> QED  BY <3>1, <3>2, PickedAll
  <2> QED  BY <2>1, <2>2
<1> HIDE DEF t, known, source, result, clear, scoped
<1>6. command \in CommandOf /\ command.op = "image" /\ command.slot = slot
  BY <1>2, <1>3, <1>4 DEF CommandOf
<1>7. retry \in SUBSET Addresses
  BY <1>5, StoreFields
<1> HIDE DEF u, command, retry
<1>8. CASE Len(s.channel) <= Active
  <2>1. u = sent
    BY <1>1, <1>8
  <2>2. Append(t.channel, command) \in Seq(CommandOf)
    BY <1>5, <1>6, StoreFields, AppendIs
  <2>3. /\ u \in Stores /\ u.queue = t.queue /\ u.active = t.active /\ u.cache = t.cache
        /\ u.channel = Append(t.channel, command) /\ u.answers = t.answers
    BY <1>5, <1>7, <2>1, <2>2 DEF Stores
  <2>4. Passed(s, u, slot)
    BY <1>5, <1>6, <1>8, <2>3 DEF Passed
  <2> QED  BY <2>4 DEF u
<1>9. CASE ~(Len(s.channel) <= Active)
  <2> DEFINE answer == [slot |-> slot, result |-> Failure]
             answers == t.answers \cup {answer}
  <2>1. u = [t EXCEPT !.retry = retry, !.answers = answers]
    BY <1>1, <1>9
  <2>2. answer \in AnswerOf
    BY DEF AnswerOf, Outcomes
  <2>3. answers \in SUBSET AnswerOf
    BY <1>5, <2>2, StoreFields
  <2> HIDE DEF answers
  <2>4. /\ u \in Stores /\ u.queue = t.queue /\ u.active = t.active /\ u.cache = t.cache
        /\ u.channel = t.channel /\ u.answers = answers
    BY <1>5, <1>7, <2>1, <2>3 DEF Stores
  <2>5. Passed(s, u, slot)
    BY <1>5, <2>4 DEF Passed, answers
  <2> QED  BY <2>5 DEF u
<1> QED  BY <1>8, <1>9

\* A free slot is given to a waiting job.
Launch(s, u, i, slot) ==
    /\ Passed([s EXCEPT !.queue = u.queue, !.active = u.active], u, slot)
    /\ u.queue = Without(s.queue, i)
    /\ u.active = [s.active EXCEPT ![slot] =
                     [owner |-> s.queue[i].owner, key |-> s.queue[i].key,
                      interactive |-> s.queue[i].interactive, old |-> FALSE]]

LEMMA StartedIs ==
    ASSUME NEW s \in Stores, NEW i \in DOMAIN s.queue, NEW slot \in Slots,
           slot = Least(Slots \ Jobs(s))
    PROVE  Launch(s, Started(s, i), i, slot)
<1> DEFINE u == Started(s, i)
           job == [owner |-> s.queue[i].owner, key |-> s.queue[i].key,
                   interactive |-> s.queue[i].interactive, old |-> FALSE]
           q == Without(s.queue, i)
           active == [s.active EXCEPT ![slot] = job]
           t == [s EXCEPT !.queue = q, !.active = active]
           waiting == s.queue[i]
           v == Submitted(t, slot, waiting)
<1>1. s.queue[i] \in JobOf
  BY StoreFields
<1>2. job \in RunningJob
  BY <1>1 DEF JobOf, RunningJob
<1>3. u = v
  <2> DEFINE x == [s EXCEPT !.queue = Without(@, i),
                            !.active[slot] = [owner |-> s.queue[i].owner, key |-> s.queue[i].key,
                                              interactive |-> s.queue[i].interactive,
                                              old |-> FALSE]]
  <2>1. x = t
    OBVIOUS
  <2>2. u = Only({Submitted(y, slot, waiting) : y \in {x}})
    BY DEF Started
  <2> HIDE DEF x, t, job, u
  <2>3. {Submitted(y, slot, waiting) : y \in {x}} = {Submitted(t, slot, waiting)}
    BY <2>1
  <2> QED  BY <2>2, <2>3, OnlyOne
<1>4. q \in Seq(JobOf)
  BY StoreFields, KeepingIs DEF Without
<1> HIDE DEF job
<1>5. active \in [Slots -> RunningJob \cup {None}]
  BY <1>2, StoreFields
<1> HIDE DEF q, active
<1>6. t \in Stores /\ t.queue = q /\ t.active = active
  BY <1>4, <1>5 DEF Stores
<1> HIDE DEF t, u
<1>7. Passed(t, v, slot)
  BY <1>1, <1>6, SubmittedIs
<1> HIDE DEF v
<1>8. v.queue = q /\ v.active = active
  BY <1>6, <1>7 DEF Passed
<1>9. t = [s EXCEPT !.queue = u.queue, !.active = u.active]
  BY <1>3, <1>8 DEF t
<1>10. Launch(s, u, i, slot)
  <2>1. Passed([s EXCEPT !.queue = u.queue, !.active = u.active], u, slot)
    BY <1>3, <1>7, <1>9
  <2>2. u.queue = q /\ u.active = active
    BY <1>3, <1>8
  <2> QED  BY <2>1, <2>2 DEF Launch, q, active, job
<1> QED  BY <1>10 DEF u

\* A free slot is taken by one command or one answer.
LEMMA PlaceOne ==
    ASSUME NEW s \in Stores, NEW u, NEW W, Placed(s, W), NEW slot \in Slots, slot \notin Jobs(s),
           Jobs(u) = Jobs(s) \cup {slot},
           \/ /\ u.answers = s.answers
              /\ \E c \in CommandOf : /\ c.op = "image" /\ c.slot = slot
                                      /\ u.channel = Append(s.channel, c)
           \/ /\ u.channel = s.channel
              /\ \E r : u.answers = s.answers \cup {[slot |-> slot, result |-> r]}
    PROVE  Placed(u, W)
<1> DEFINE n == Len(s.channel)
<1>1. s.channel \in Seq(CommandOf) /\ DOMAIN s.channel = 1 .. n /\ n \in Nat
  BY StoreFields
<1>2. ~Sent(s, slot) /\ ~Worked(W, slot) /\ ~Answered(s, slot)
  BY DEF Placed
<1>3. CASE u.answers = s.answers /\ \E c \in CommandOf : /\ c.op = "image" /\ c.slot = slot
                                                         /\ u.channel = Append(s.channel, c)
  <2>1. PICK c \in CommandOf : /\ c.op = "image" /\ c.slot = slot
                               /\ u.channel = Append(s.channel, c)
    BY <1>3
  <2>2. /\ DOMAIN u.channel = 1 .. n + 1 /\ u.channel[n + 1] = c
        /\ \A k \in 1 .. n : u.channel[k] = s.channel[k]
    BY <1>1, <2>1, AppendIs
  <2>3. \A k : k \in 1 .. n + 1 <=> k \in 1 .. n \/ k = n + 1
    BY <1>1
  <2>4. \A k : k \in Images(u) <=> k \in Images(s) \/ k = n + 1
    BY <1>1, <2>1, <2>2, <2>3 DEF Images
  <2>5. \A k \in Images(s) : u.channel[k].slot = s.channel[k].slot /\ k \in 1 .. n
    BY <1>1, <2>2 DEF Images
  <2>6. \A i \in Slots : Sent(u, i) <=> Sent(s, i) \/ i = slot
    BY <2>1, <2>2, <2>4, <2>5 DEF Sent
  <2>7. \A i : Answered(u, i) <=> Answered(s, i)
    BY <1>3 DEF Answered
  <2>8. \A j, k \in Images(u) : u.channel[j].slot = u.channel[k].slot => j = k
    <3>1. ASSUME NEW j \in Images(s), NEW k \in Images(s), u.channel[j].slot = u.channel[k].slot
          PROVE  j = k
      BY <2>5, <3>1 DEF Placed
    <3>2. \A j \in Images(s) : u.channel[j].slot # slot
      BY <1>2, <2>5 DEF Sent
    <3> QED  BY <2>1, <2>2, <2>4, <3>1, <3>2
  <2>9. \A i \in Slots : i \in Jobs(u) <=> Sent(u, i) \/ Worked(W, i) \/ Answered(u, i)
    BY <2>6, <2>7 DEF Placed
  <2>10. \A i \in Slots : /\ ~(Sent(u, i) /\ Worked(W, i)) /\ ~(Sent(u, i) /\ Answered(u, i))
                          /\ ~(Worked(W, i) /\ Answered(u, i))
    BY <1>2, <2>6, <2>7 DEF Placed
  <2>11. /\ \A v, w \in Fetching(W) : v.slot = w.slot => v = w
         /\ \A a, b \in u.answers : a.slot = b.slot => a = b
    BY <1>3 DEF Placed
  <2> QED  BY <2>8, <2>9, <2>10, <2>11 DEF Placed
<1>4. CASE u.channel = s.channel /\ \E r : u.answers = s.answers \cup {[slot |-> slot, result |-> r]}
  <2>1. PICK r : u.answers = s.answers \cup {[slot |-> slot, result |-> r]}
    BY <1>4
  <2> DEFINE a == [slot |-> slot, result |-> r]
  <2>2. u.answers = s.answers \cup {a} /\ a.slot = slot
    BY <2>1
  <2> HIDE DEF a
  <2>3. \A i \in Slots : Answered(u, i) <=> Answered(s, i) \/ i = slot
    BY <2>2 DEF Answered
  <2>4. \A i : Sent(u, i) <=> Sent(s, i)
    BY <1>4 DEF Sent, Images
  <2>5. \A b, c \in u.answers : b.slot = c.slot => b = c
    <3>1. \A b \in s.answers : b.slot # slot
      BY <1>2 DEF Answered
    <3>2. \A b, c \in s.answers : b.slot = c.slot => b = c
      BY DEF Placed
    <3> QED  BY <2>2, <3>1, <3>2
  <2>6. \A i \in Slots : i \in Jobs(u) <=> Sent(u, i) \/ Worked(W, i) \/ Answered(u, i)
    BY <2>3, <2>4 DEF Placed
  <2>7. \A i \in Slots : /\ ~(Sent(u, i) /\ Worked(W, i)) /\ ~(Sent(u, i) /\ Answered(u, i))
                         /\ ~(Worked(W, i) /\ Answered(u, i))
    BY <1>2, <2>3, <2>4 DEF Placed
  <2>8. \A j, k \in Images(u) : u.channel[j].slot = u.channel[k].slot => j = k
    BY <1>4 DEF Placed, Images
  <2>9. \A v, w \in Fetching(W) : v.slot = w.slot => v = w
    BY DEF Placed
  <2> QED  BY <2>5, <2>6, <2>7, <2>8, <2>9 DEF Placed
<1> QED  BY <1>3, <1>4

\* A job that may start keeps what the pool promises.
LEMMA StartedKeeps ==
    ASSUME NEW s, NEW W, Pool(s, W), NEW i \in Startable(s), ~Cached(s, s.queue[i].key),
           Jobs(s) # Slots
    PROVE  /\ Pool(Started(s, i), W)
           /\ Cardinality(Jobs(Started(s, i))) = Cardinality(Jobs(s)) + 1
<1> DEFINE u == Started(s, i)
           slot == Least(Slots \ Jobs(s))
           wait == s.queue[i]
           job == [owner |-> wait.owner, key |-> wait.key, interactive |-> wait.interactive,
                   old |-> FALSE]
<1>1. /\ s \in Stores /\ Sized(s) /\ Alone(s) /\ OneEntry(s) /\ Fresh(s) /\ Spared(s)
      /\ Placed(s, W)
  BY DEF Pool
<1>2. slot \in Slots /\ slot \notin Jobs(s)
  <2>1. Slots \ Jobs(s) \subseteq Nat /\ Slots \ Jobs(s) # {}
    BY PoolSize DEF Jobs
  <2> QED  BY <2>1, LeastOf
<1>3. /\ i \in DOMAIN s.queue /\ wait \in JobOf /\ Untouched(s, wait.key)
      /\ wait.interactive \/ Cardinality(Prefetching(s)) < Active - Reserved
  BY <1>1, StoreFields DEF Startable
<1>4. Launch(s, u, i, slot)
  <2> HIDE DEF u
  <2>1. \A k : k = Least(Slots \ Jobs(s)) /\ k \in Slots => Launch(s, Started(s, i), i, k)
    BY <1>1, <1>3, StartedIs
  <2> QED  BY <1>2, <2>1 DEF u
<1> HIDE DEF u, slot
<1> DEFINE t == [s EXCEPT !.queue = u.queue, !.active = u.active]
<1>5. /\ u \in Stores /\ Picked(u.cache, t.cache, 1 .. Len(t.cache))
      /\ \/ /\ u.answers = t.answers /\ Len(t.channel) <= Active
            /\ \E c \in CommandOf : /\ c.op = "image" /\ c.slot = slot
                                    /\ u.channel = Append(t.channel, c)
         \/ /\ u.channel = t.channel
            /\ u.answers = t.answers \cup {[slot |-> slot, result |-> Failure]}
  BY <1>4 DEF Launch, Passed
<1>6. t.cache = s.cache /\ t.channel = s.channel /\ t.answers = s.answers
  BY <1>1 DEF Stores
<1> HIDE DEF t
<1>7. u.queue = Without(s.queue, i) /\ u.active = [s.active EXCEPT ![slot] = job]
  BY <1>4 DEF Launch
<1>8. /\ job \in RunningJob /\ job # None /\ job.key = wait.key /\ ~job.old
      /\ job.interactive = wait.interactive
  <2>1. /\ wait.owner \in Owners /\ wait.key \in Keys /\ wait.interactive \in BOOLEAN
    BY <1>3 DEF JobOf
  <2> HIDE DEF wait
  <2>2. job \in RunningJob /\ job.key = wait.key /\ ~job.old /\ job.interactive = wait.interactive
    BY <2>1 DEF RunningJob
  <2> HIDE DEF job
  <2> QED  BY <2>2, FreeAssumption
<1> HIDE DEF job
<1>9. /\ u.active[slot] = job /\ \A k \in Slots : k # slot => u.active[k] = s.active[k]
  BY <1>1, <1>2, <1>7, StoreFields
<1>10. Jobs(u) = Jobs(s) \cup {slot}
  BY <1>2, <1>8, <1>9 DEF Jobs
<1>11. \A k \in Jobs(s) : k # slot /\ u.active[k] = s.active[k]
  BY <1>2, <1>9 DEF Jobs
<1>12. IsFiniteSet(Jobs(s)) /\ Cardinality(Jobs(u)) = Cardinality(Jobs(s)) + 1
  <2>1. IsFiniteSet(Jobs(s))
    <3>1. Jobs(s) \subseteq Slots
      BY DEF Jobs
    <3> QED  BY <3>1, PoolSize, FS_Subset
  <2> QED  BY <1>2, <1>10, <2>1, FS_AddElement
<1>13. Sized(u)
  <2>1. Len(u.queue) <= Queued
    <3>1. s.queue \in Seq(JobOf) /\ Len(s.queue) \in Nat /\ Len(u.queue) \in Nat
      BY <1>1, <1>5, StoreFields
    <3>2. Len(u.queue) <= Len(s.queue)
      BY <1>7, <3>1, KeepingIs DEF Without, Picked
    <3> QED  BY <1>1, <3>1, <3>2, PoolSize DEF Sized
  <2>2. Len(u.cache) <= Entries
    <3>1. Len(u.cache) <= Len(s.cache) /\ Len(u.cache) \in Nat /\ Len(s.cache) \in Nat
      BY <1>1, <1>5, <1>6, StoreFields DEF Picked
    <3> QED  BY <1>1, <3>1, PoolSize DEF Sized
  <2>3. Len(u.channel) <= Active + 1
    <3>1. s.channel \in Seq(CommandOf) /\ Len(s.channel) \in Nat
      BY <1>1, StoreFields
    <3>2. CASE u.channel = s.channel
      BY <1>1, <3>2 DEF Sized
    <3>3. CASE Len(s.channel) <= Active /\ \E c \in CommandOf : u.channel = Append(s.channel, c)
      <4>1. Len(u.channel) = Len(s.channel) + 1
        BY <3>1, <3>3, AppendIs
      <4> QED  BY <3>1, <3>3, <4>1, PoolSize
    <3> QED  BY <1>5, <1>6, <3>2, <3>3
  <2> QED  BY <2>1, <2>2, <2>3 DEF Sized
<1>14. Alone(u)
  <2>1. \A k \in Jobs(s) : u.active[k].key.source # u.active[slot].key.source
    BY <1>3, <1>8, <1>9, <1>11 DEF Untouched
  <2> QED  BY <1>1, <1>10, <1>11, <2>1 DEF Alone
<1>15. OneEntry(u) /\ \A key : Cached(u, key) => Cached(s, key)
  BY <1>1, <1>5, <1>6, FewerEntries
<1>16. Fresh(u)
  BY <1>1, <1>8, <1>9, <1>10, <1>11, <1>15 DEF Fresh
<1>17. Spared(u)
  <2>1. IsFiniteSet(Prefetching(s)) /\ Cardinality(Prefetching(s)) \in Nat
    <3>1. Prefetching(s) \subseteq Jobs(s)
      BY DEF Prefetching
    <3> QED  BY <1>12, <3>1, FS_Subset, FS_CardinalityType
  <2>2. CASE wait.interactive
    <3>1. Prefetching(u) = Prefetching(s)
      BY <1>8, <1>9, <1>10, <1>11, <2>2 DEF Prefetching
    <3> QED  BY <1>1, <3>1 DEF Spared
  <2>3. CASE ~wait.interactive
    <3>1. Prefetching(u) = Prefetching(s) \cup {slot} /\ slot \notin Prefetching(s)
      BY <1>2, <1>8, <1>9, <1>10, <1>11, <2>3 DEF Prefetching
    <3>2. Cardinality(Prefetching(u)) = Cardinality(Prefetching(s)) + 1
      BY <2>1, <3>1, FS_AddElement
    <3>3. Cardinality(Prefetching(s)) < Active - Reserved
      BY <1>3, <2>3
    <3> QED  BY <2>1, <3>2, <3>3, PoolSize DEF Spared
  <2> QED  BY <2>2, <2>3
<1>18. Placed(u, W)
  <2>1. \/ /\ u.answers = s.answers
           /\ \E c \in CommandOf : /\ c.op = "image" /\ c.slot = slot
                                   /\ u.channel = Append(s.channel, c)
        \/ /\ u.channel = s.channel
           /\ \E r : u.answers = s.answers \cup {[slot |-> slot, result |-> r]}
    BY <1>5, <1>6
  <2> QED  BY <1>1, <1>2, <1>10, <2>1, PlaceOne
<1>19. Pool(u, W)
  BY <1>5, <1>13, <1>14, <1>15, <1>16, <1>17, <1>18 DEF Pool
<1> QED  BY <1>12, <1>19 DEF u

-----------------------------------------------------------------------------
(* Filling the free slots                                                    *)

Done(s) == Jobs(s) = Slots \/ Startable(s) = {}

\* With no free slot, or nothing to start, nothing waits that could run.
LEMMA DoneSettles == ASSUME NEW s, NEW W, Pool(s, W), Done(s) PROVE Settled(s)
<1>1. s \in Stores /\ Spared(s)
  BY DEF Pool
<1>2. DOMAIN s.queue = 1 .. Len(s.queue) /\ Len(s.queue) \in Nat /\ s.queue \in Seq(JobOf)
  BY <1>1, StoreFields
<1>3. Prefetching(s) \subseteq Jobs(s) /\ Jobs(s) \subseteq Slots
  BY DEF Prefetching, Jobs
<1>4. CASE Jobs(s) = Slots
  <2>1. Cardinality(Slots \ Prefetching(s)) >= Reserved
    <3>1. IsFiniteSet(Prefetching(s)) /\ Cardinality(Prefetching(s)) \in Nat
      BY <1>3, PoolSize, FS_Subset, FS_CardinalityType
    <3>2. Cardinality(Slots \ Prefetching(s))
            = Cardinality(Slots) - Cardinality(Slots \cap Prefetching(s))
      BY <3>1, PoolSize, FS_Difference
    <3>3. Slots \cap Prefetching(s) = Prefetching(s)
      BY <1>3
    <3> QED  BY <1>1, <3>1, <3>2, <3>3, PoolSize DEF Spared
  <2>2. Slots # {}
    BY PoolSize DEF Slots
  <2> QED  BY <1>4, <2>1, <2>2 DEF Settled
<1>5. CASE Startable(s) = {}
  <2>1. \A i \in DOMAIN s.queue : ~(s.queue[i].interactive /\ Untouched(s, s.queue[i].key))
    BY <1>5 DEF Startable
  <2>2. ASSUME s.queue # <<>>, Jobs(s) = {} PROVE FALSE
    <3>1. 1 \in DOMAIN s.queue
      <4>1. Len(s.queue) # 0
        BY <1>2, <2>2, EmptySeq
      <4> QED  BY <1>2, <4>1
    <3>2. Untouched(s, s.queue[1].key)
      BY <2>2 DEF Untouched
    <3>3. Cardinality(Prefetching(s)) < Active - Reserved
      <4>1. Prefetching(s) = {}
        BY <1>3, <2>2
      <4>2. Cardinality(Prefetching(s)) = 0
        BY <4>1, FS_EmptySet
      <4> QED  BY <4>2, PoolSize
    <3>4. 1 \in Startable(s)
      BY <3>1, <3>2, <3>3 DEF Startable
    <3> QED  BY <1>5, <3>4
  <2> QED  BY <2>1, <2>2 DEF Settled
<1> QED  BY <1>4, <1>5 DEF Done

\* One turn starts a job, or finds that there is none to start.
Turn(s, t, W) ==
    /\ Pool(t, W)
    /\ Done(t) \/ Cardinality(Jobs(t)) = Cardinality(Jobs(s)) + 1
    /\ Done(s) => Done(t)

LEMMA RefilledKeeps == ASSUME NEW s, NEW W, Pool(s, W) PROVE Turn(s, Refilled(s), W)
<1> DEFINE r == Refilled(s)
<1>1. CASE Jobs(s) = Slots
  <2>1. r = s
    BY <1>1 DEF Refilled
  <2> HIDE DEF r
  <2>2. Turn(s, r, W)
    BY <1>1, <2>1 DEF Turn, Done
  <2> QED  BY <2>2 DEF r
<1>2. CASE Jobs(s) # Slots
  <2> DEFINE t == Wanted(s)
             X == {u \in {t} : Best(u) = {}} \cup {Started(t, i) : i \in Best(t)}
  <2>1. r = Only(X)
    <3> DEFINE w == Wanted(s)
    <3>1. r = Only({u \in {w} : Best(u) = {}} \cup UNION {{Started(u, i) : i \in Best(u)} : u \in {w}})
      BY <1>2 DEF Refilled
    <3> HIDE DEF w, r
    <3>2. UNION {{Started(u, i) : i \in Best(u)} : u \in {w}} = {Started(w, i) : i \in Best(w)}
      OBVIOUS
    <3> QED  BY <3>1, <3>2 DEF w
  <2>2. /\ Requeued(s, t, W, t.queue)
        /\ \E places : Picked(t.queue, s.queue, places)
        /\ \A i \in DOMAIN t.queue : ~Cached(t, t.queue[i].key)
    BY WantedKeeps
  <2> HIDE DEF t, r
  <2>3. Pool(t, W) /\ t.active = s.active
    BY <2>2 DEF Requeued
  <2>4. t \in Stores /\ s \in Stores
    BY <2>3 DEF Pool
  <2>5. /\ Jobs(t) = Jobs(s) /\ Prefetching(t) = Prefetching(s)
        /\ \A key : Untouched(t, key) <=> Untouched(s, key)
    BY <2>3 DEF Jobs, Prefetching, Untouched
  <2>6. r \in X
    <3>1. X # {}
      OBVIOUS
    <3> HIDE DEF X
    <3> QED  BY <2>1, <3>1 DEF Only
  <2>7. CASE Best(t) = {}
    <3>1. r = t
      BY <2>6, <2>7
    <3>2. Done(t)
      BY <2>4, <2>7, BestIs DEF Done
    <3>3. Turn(s, r, W)
      BY <2>3, <3>1, <3>2 DEF Turn
    <3> QED  BY <3>3 DEF r
  <2>8. CASE Best(t) # {}
    <3>1. PICK i \in Best(t) : r = Started(t, i)
      BY <2>6, <2>8
    <3>2. i \in Startable(t)
      BY <2>4, BestIs
    <3>3. i \in DOMAIN t.queue
      BY <3>2 DEF Startable
    <3>4. Pool(Started(t, i), W) /\ Cardinality(Jobs(Started(t, i))) = Cardinality(Jobs(t)) + 1
      BY <1>2, <2>2, <2>3, <2>5, <3>2, <3>3, StartedKeeps
    <3>5. ~Done(s)
      <4>1. SUFFICES Startable(s) # {}
        BY <1>2 DEF Done
      <4>2. PICK places : Picked(t.queue, s.queue, places)
        BY <2>2
      <4>3. DOMAIN t.queue = 1 .. Len(t.queue) /\ DOMAIN s.queue = 1 .. Len(s.queue)
        BY <2>4, StoreFields
      <4>4. PICK j \in 1 .. Len(s.queue) : t.queue[i] = s.queue[j]
        BY <3>3, <4>2, <4>3 DEF Picked
      <4>5. j \in Startable(s)
        BY <2>5, <3>2, <4>3, <4>4 DEF Startable
      <4> QED  BY <4>5
    <3>6. Turn(s, r, W)
      BY <2>5, <3>1, <3>4, <3>5 DEF Turn
    <3> QED  BY <3>6 DEF r
  <2> QED  BY <2>7, <2>8
<1> QED  BY <1>1, <1>2

\* The loop of Pumped.
PumpsUpTo(f, s, n) ==
    f = [i \in 0 .. n |-> IF i = 0 THEN s ELSE Only({Refilled(t) : t \in {f[i - 1]}})]

LEMMA OneRefilled == ASSUME NEW x PROVE Only({Refilled(t) : t \in {x}}) = Refilled(x)
<1> DEFINE y == Refilled(x)
<1>1. {Refilled(t) : t \in {x}} = {y}
  OBVIOUS
<1> HIDE DEF y
<1>2. Only({Refilled(t) : t \in {x}}) = y
  BY <1>1, OnlyOne
<1> QED  BY <1>2 DEF y

LEMMA PumpsExist ==
    ASSUME NEW s, NEW W, Pool(s, W), NEW n \in Nat
    PROVE  \E f : PumpsUpTo(f, s, n)
<1> DEFINE S == {t \in Stores : Pool(t, W)}
           g == [i \in 1 .. n |-> [t \in S |-> Refilled(t)]]
<1>1. s \in S
  BY DEF Pool
<1>2. g \in [1 .. n -> [S -> S]]
  <2>1. ASSUME NEW t \in S PROVE Refilled(t) \in S
    BY RefilledKeeps DEF Turn, Pool
  <2> HIDE DEF S
  <2> QED  BY <2>1
<1>3. \A i \in 1 .. n : \A t \in S : g[i][t] = Refilled(t)
  OBVIOUS
<1> HIDE DEF S, g
<1>4. PICK f \in [0 .. n -> S] : Runs(f, s, g, n)
  BY <1>1, <1>2, Loop
<1> DEFINE h == [i \in 0 .. n |-> IF i = 0 THEN s ELSE Only({Refilled(t) : t \in {f[i - 1]}})]
<1>5. ASSUME NEW i \in 0 .. n PROVE f[i] = h[i]
  <2>1. CASE i = 0
    BY <1>4, <2>1 DEF Runs
  <2>2. CASE i # 0
    <3>1. i \in 1 .. n /\ i - 1 \in 0 .. n
      BY <2>2
    <3>2. f[i] = Refilled(f[i - 1])
      BY <1>3, <1>4, <3>1 DEF Runs
    <3>3. h[i] = Only({Refilled(t) : t \in {f[i - 1]}})
      BY <2>2
    <3> HIDE DEF h
    <3> QED  BY <3>2, <3>3, OneRefilled
  <2> QED  BY <2>1, <2>2
<1>6. f = h
  <2>1. f \in [0 .. n -> S] /\ DOMAIN h = 0 .. n /\ h = [i \in 0 .. n |-> h[i]]
    OBVIOUS
  <2> HIDE DEF h
  <2> QED  BY <1>5, <2>1
<1>7. PumpsUpTo(f, s, n)
  BY <1>6 DEF PumpsUpTo
<1> QED  BY <1>7

\* As many turns as there are slots leave nothing that could run.
LEMMA PumpedSettles ==
    ASSUME NEW s, NEW W, Pool(s, W)
    PROVE  Pool(Pumped(s), W) /\ Settled(Pumped(s))
<1> DEFINE n == Active
           f == CHOOSE f : PumpsUpTo(f, s, n)
           P == {i \in 0 .. n : Pool(f[i], W) /\ (Done(f[i]) \/ Cardinality(Jobs(f[i])) >= i)}
<1>1. n \in Nat
  BY PoolSize
<1>2. Pumped(s) = f[n]
  BY DEF Pumped, PumpsUpTo
<1> HIDE DEF n
<1>3. PumpsUpTo(f, s, n)
  BY <1>1, PumpsExist
<1> HIDE DEF f
<1>4. \A x : IsFiniteSet(Jobs(x)) /\ Cardinality(Jobs(x)) \in Nat
  <2>1. \A x : Jobs(x) \subseteq Slots
    BY DEF Jobs
  <2> QED  BY <2>1, PoolSize, FS_Subset, FS_CardinalityType
<1>5. 0 \in P
  <2>1. f[0] = s
    BY <1>1, <1>3 DEF PumpsUpTo
  <2>2. Cardinality(Jobs(s)) >= 0
    BY <1>4
  <2> QED  BY <1>1, <2>1, <2>2
<1>6. ASSUME NEW i \in 1 .. n, i - 1 \in P PROVE i \in P
  <2> DEFINE t == f[i - 1]
  <2>1. i \in 0 .. n /\ i # 0 /\ i \in Nat /\ Pool(t, W) /\ (Done(t) \/ Cardinality(Jobs(t)) >= i - 1)
    BY <1>1, <1>6
  <2>2. f[i] = Only({Refilled(u) : u \in {t}})
    BY <1>3, <2>1 DEF PumpsUpTo
  <2> HIDE DEF t
  <2>3. f[i] = Refilled(t)
    BY <2>2, OneRefilled
  <2>4. Turn(t, Refilled(t), W)
    BY <2>1, RefilledKeeps
  <2>5. Done(f[i]) \/ Cardinality(Jobs(f[i])) >= i
    BY <1>4, <2>1, <2>3, <2>4 DEF Turn
  <2> QED  BY <2>1, <2>3, <2>4, <2>5 DEF Turn
<1>7. 0 .. n \subseteq P
  <2> HIDE DEF P
  <2> QED  BY <1>1, <1>5, <1>6, Stepwise
<1>8. Pool(f[n], W) /\ (Done(f[n]) \/ Cardinality(Jobs(f[n])) >= n)
  BY <1>1, <1>7
<1>9. Done(f[n])
  <2> DEFINE J == Jobs(f[n])
  <2>1. SUFFICES ASSUME Cardinality(J) >= n PROVE J = Slots
    BY <1>8 DEF Done
  <2>2. J \subseteq Slots
    BY DEF Jobs
  <2> HIDE DEF J
  <2>3. Cardinality(J) <= Cardinality(Slots) /\ (Cardinality(Slots) = Cardinality(J) => Slots = J)
    BY <2>2, PoolSize, FS_Subset
  <2>4. Cardinality(J) \in Nat
    BY <1>4 DEF J
  <2> QED  BY <2>1, <2>3, <2>4, PoolSize DEF n
<1>10. Settled(f[n])
  BY <1>8, <1>9, DoneSettles
<1> QED  BY <1>2, <1>8, <1>10

-----------------------------------------------------------------------------
(* Answers and clearings                                                     *)

\* The answer's slot is free, and no other job fetches the same image.
Vacated(s, u, a) ==
    /\ u \in Stores /\ u.queue = s.queue /\ u.cache = s.cache /\ u.channel = s.channel
    /\ \A i \in Jobs(u) : u.active[i].key.source # s.active[a.slot].key.source

LEMMA FreedKeeps ==
    ASSUME NEW s, NEW W, Pool(s, W), NEW a \in s.answers
    PROVE  /\ Pool(Freed(s, a), W) /\ Vacated(s, Freed(s, a), a)
           /\ a \in AnswerOf /\ a.slot \in Jobs(s)
<1> DEFINE u == Freed(s, a)
           slot == a.slot
           active == [s.active EXCEPT ![slot] = None]
           answers == s.answers \ {a}
<1>1. /\ s \in Stores /\ Sized(s) /\ Alone(s) /\ OneEntry(s) /\ Fresh(s) /\ Spared(s)
      /\ Placed(s, W)
  BY DEF Pool
<1>2. a \in AnswerOf /\ slot \in Slots
  BY <1>1, StoreFields DEF AnswerOf
<1>3. slot \in Jobs(s)
  BY <1>1, <1>2 DEF Placed, Answered
<1>4. u = [s EXCEPT !.active = active, !.answers = answers]
  BY DEF Freed
<1>5. active \in [Slots -> RunningJob \cup {None}] /\ answers \in SUBSET AnswerOf
  BY <1>1, StoreFields
<1>6. active[slot] = None /\ \A i \in Slots : i # slot => active[i] = s.active[i]
  BY <1>1, <1>2, StoreFields
<1> HIDE DEF active, answers, u
<1>7. /\ u \in Stores /\ u.queue = s.queue /\ u.active = active /\ u.cache = s.cache
      /\ u.channel = s.channel /\ u.answers = answers
  BY <1>1, <1>4, <1>5 DEF Stores
<1>8. /\ \A i : i \in Jobs(u) <=> i \in Jobs(s) /\ i # slot
      /\ \A i \in Jobs(u) : u.active[i] = s.active[i]
  BY <1>6, <1>7 DEF Jobs
<1>9. Alone(u) /\ \A i \in Jobs(u) : u.active[i].key.source # s.active[slot].key.source
  BY <1>1, <1>3, <1>8 DEF Alone
<1>10. Fresh(u)
  BY <1>1, <1>7, <1>8 DEF Fresh, Cached, Entry
<1>11. Spared(u)
  <2>1. Prefetching(u) \subseteq Prefetching(s) /\ Prefetching(s) \subseteq Slots
    BY <1>8 DEF Prefetching, Jobs
  <2>2. IsFiniteSet(Prefetching(s))
    BY <2>1, PoolSize, FS_Subset
  <2>3. Cardinality(Prefetching(u)) <= Cardinality(Prefetching(s)) /\ IsFiniteSet(Prefetching(u))
    BY <2>1, <2>2, FS_Subset
  <2>4. Cardinality(Prefetching(u)) \in Nat /\ Cardinality(Prefetching(s)) \in Nat
    BY <2>2, <2>3, FS_CardinalityType
  <2> QED  BY <1>1, <2>3, <2>4, PoolSize DEF Spared
<1>12. Placed(u, W)
  <2>1. \A i : Sent(u, i) <=> Sent(s, i)
    BY <1>7 DEF Sent, Images
  <2>2. Images(u) = Images(s)
    BY <1>7 DEF Images
  <2>3. \A i : Answered(u, i) <=> Answered(s, i) /\ i # slot
    <3>1. \A b, c \in s.answers : b.slot = c.slot => b = c
      BY <1>1 DEF Placed
    <3> QED  BY <1>7, <3>1 DEF Answered, answers
  <2>4. \A i \in Slots : i \in Jobs(u) <=> Sent(u, i) \/ Worked(W, i) \/ Answered(u, i)
    <3>1. Answered(s, slot)
      BY DEF Answered
    <3>2. ~Sent(s, slot) /\ ~Worked(W, slot)
      BY <1>1, <1>2, <3>1 DEF Placed
    <3> QED  BY <1>1, <1>8, <2>1, <2>3, <3>1, <3>2 DEF Placed
  <2>5. \A i \in Slots : /\ ~(Sent(u, i) /\ Worked(W, i)) /\ ~(Sent(u, i) /\ Answered(u, i))
                         /\ ~(Worked(W, i) /\ Answered(u, i))
    BY <1>1, <2>1, <2>3 DEF Placed
  <2>6. /\ \A j, k \in Images(u) : u.channel[j].slot = u.channel[k].slot => j = k
        /\ \A v, w \in Fetching(W) : v.slot = w.slot => v = w
    BY <1>1, <1>7, <2>2 DEF Placed
  <2>7. \A b, c \in u.answers : b.slot = c.slot => b = c
    BY <1>1, <1>7 DEF Placed, answers
  <2> QED  BY <2>4, <2>5, <2>6, <2>7 DEF Placed
<1>13. OneEntry(u) /\ Sized(u)
  BY <1>1, <1>7 DEF OneEntry, Sized
<1>14. Pool(u, W)
  BY <1>7, <1>9, <1>10, <1>11, <1>12, <1>13 DEF Pool
<1>15. Vacated(s, u, a)
  BY <1>7, <1>9 DEF Vacated
<1> QED  BY <1>2, <1>3, <1>14, <1>15 DEF u

\* The end of a sequence.
LEMMA EndIs ==
    ASSUME NEW S, NEW q \in Seq(S), NEW m \in 1 .. Len(q)
    PROVE  LET t == SubSeq(q, m, Len(q))
           IN  /\ t \in Seq(S) /\ Len(t) = Len(q) - m + 1
               /\ Picked(t, q, 1 .. Len(q))
<1> DEFINE n == Len(q)
           t == SubSeq(q, m, n)
<1>1. n \in Nat /\ (\A i \in 1 .. n : q[i] \in S) /\ m \in Int /\ n \in Int /\ m <= n
  BY LenProperties, ElementOfSeq
<1>2. \A i \in m .. n : q[i] \in S
  BY <1>1
<1> HIDE DEF n
<1>3. /\ t \in Seq(S) /\ Len(t) = IF m <= n THEN n - m + 1 ELSE 0
      /\ \A i \in 1 .. n - m + 1 : t[i] = q[m + i - 1]
  BY <1>1, <1>2, SubSeqProperties
<1> HIDE DEF t
<1>4. Len(t) = n - m + 1 /\ \A i \in 1 .. Len(t) : t[i] = q[m + i - 1]
  BY <1>1, <1>3
<1>5. \A i \in 1 .. Len(t) : m + i - 1 \in 1 .. n
  BY <1>1, <1>4
<1>6. \A i, j \in 1 .. Len(t) : i # j => m + i - 1 # m + j - 1
  BY <1>1, <1>4
<1>7. Picked(t, q, 1 .. n)
  <2>1. Len(t) <= n
    BY <1>1, <1>4
  <2>2. \A i \in 1 .. Len(t) : \E k \in 1 .. n : t[i] = q[k]
    BY <1>4, <1>5
  <2>3. \A i, j \in 1 .. Len(t) : i # j =>
          \E k, l \in 1 .. n : k # l /\ t[i] = q[k] /\ t[j] = q[l]
    BY <1>4, <1>5, <1>6
  <2>4. ~\E k \in 1 .. n : k \notin 1 .. n
    OBVIOUS
  <2>5. Len(q) = n
    BY DEF n
  <2>6. \A i \in 1 .. Len(t) : \E k \in 1 .. n : k \in 1 .. n /\ t[i] = q[k]
    BY <2>2
  <2>7. \A i, j \in 1 .. Len(t) : i # j =>
          \E k, l \in 1 .. n : k \in 1 .. n /\ l \in 1 .. n /\ k # l /\ t[i] = q[k] /\ t[j] = q[l]
    BY <2>3
  <2> QED  BY <2>1, <2>4, <2>5, <2>6, <2>7, Zenon DEF Picked
<1> QED  BY <1>3, <1>4, <1>7 DEF t, n

\* A result that is new to the cache, for an image nobody fetches, is kept.
LEMMA KeptKeeps ==
    ASSUME NEW u, NEW W, Pool(u, W), NEW e \in EntryOf, ~Cached(u, e.key),
           \A i \in Jobs(u) : u.active[i].key # e.key
    PROVE  Pool(Trimmed([u EXCEPT !.cache = Append(u.cache, e)]), W)
<1> DEFINE c == u.cache
           d == Append(c, e)
           v == [u EXCEPT !.cache = d]
           m == Len(d) - Entries + 1
           f == IF Len(d) > Entries THEN SubSeq(d, m, Len(d)) ELSE d
           t == [u EXCEPT !.cache = f]
           r == Trimmed(v)
<1>1. /\ u \in Stores /\ Sized(u) /\ Alone(u) /\ OneEntry(u) /\ Fresh(u) /\ Spared(u)
      /\ Placed(u, W)
  BY DEF Pool
<1>2. c \in Seq(EntryOf) /\ Len(c) \in Nat /\ DOMAIN c = 1 .. Len(c)
  BY <1>1, StoreFields
<1>3. /\ d \in Seq(EntryOf) /\ Len(d) = Len(c) + 1 /\ d[Len(c) + 1] = e
      /\ \A i \in 1 .. Len(c) : d[i] = c[i]
  <2> HIDE DEF c
  <2> QED  BY <1>2, AppendIs
<1>4. r = t
  <2>1. v.cache = d /\ v \in Stores
    BY <1>1, <1>3 DEF Stores
  <2>2. r = IF Len(d) > Entries THEN [v EXCEPT !.cache = SubSeq(d, m, Len(d))] ELSE v
    <3> HIDE DEF v, d
    <3> QED  BY <2>1 DEF Trimmed
  <2> HIDE DEF d, m
  <2> QED  BY <2>2
<1> HIDE DEF d, c, r, v
<1>5. f \in Seq(EntryOf) /\ Len(f) <= Entries /\ Picked(f, d, 1 .. Len(d))
  <2>1. CASE Len(d) > Entries
    <3>1. m \in 1 .. Len(d) /\ Len(d) - m + 1 = Entries
      BY <1>2, <1>3, <2>1, PoolSize
    <3> DEFINE g == SubSeq(d, m, Len(d))
    <3>2. f = g
      BY <2>1
    <3> HIDE DEF m, f
    <3>3. g \in Seq(EntryOf) /\ Len(g) = Len(d) - m + 1 /\ Picked(g, d, 1 .. Len(d))
      BY <1>3, <3>1, EndIs
    <3> HIDE DEF g
    <3> QED  BY <3>1, <3>2, <3>3, PoolSize
  <2>2. CASE ~(Len(d) > Entries)
    BY <1>2, <1>3, <2>2, PickedAll, PoolSize
  <2> QED  BY <2>1, <2>2
<1> HIDE DEF f
<1>6. /\ t \in Stores /\ t.cache = f /\ t.queue = u.queue /\ t.active = u.active
      /\ t.channel = u.channel /\ t.answers = u.answers
  BY <1>1, <1>5 DEF Stores
<1> HIDE DEF t
<1>7. DOMAIN f = 1 .. Len(f) /\ \A i : i \in 1 .. Len(d) <=> i \in 1 .. Len(c) \/ i = Len(c) + 1
  BY <1>2, <1>3, <1>5, LenProperties
<1>8. \A i \in 1 .. Len(c) : c[i].key # e.key
  BY <1>2 DEF Cached, Entry, c
<1>9. \A i, j \in 1 .. Len(d) : i # j => d[i].key # d[j].key
  <2>1. \A i, j \in 1 .. Len(c) : i # j => c[i].key # c[j].key
    BY <1>1, <1>2 DEF OneEntry, c
  <2> QED  BY <1>3, <1>7, <1>8, <2>1
<1>10. OneEntry(t)
  <2>1. ASSUME NEW i \in 1 .. Len(f), NEW j \in 1 .. Len(f), i # j PROVE f[i].key # f[j].key
    <3>1. PICK k, l \in 1 .. Len(d) : k # l /\ f[i] = d[k] /\ f[j] = d[l]
      BY <1>5, <2>1 DEF Picked
    <3> QED  BY <1>9, <3>1
  <2> QED  BY <1>6, <1>7, <2>1 DEF OneEntry
<1>11. \A key : Cached(t, key) => Cached(u, key) \/ key = e.key
  <2>1. SUFFICES ASSUME NEW i \in 1 .. Len(f) PROVE Cached(u, f[i].key) \/ f[i].key = e.key
    BY <1>6, <1>7 DEF Cached, Entry
  <2>2. PICK k \in 1 .. Len(d) : f[i] = d[k]
    BY <1>5 DEF Picked
  <2>3. CASE k \in 1 .. Len(c)
    BY <1>2, <1>3, <2>2, <2>3 DEF Cached, Entry, c
  <2> QED  BY <1>3, <1>7, <2>2, <2>3
<1>12. SameSlots(u, t)
  BY <1>1, <1>6, SameChannel DEF SameSlots, Jobs
<1>13. Alone(t) /\ Spared(t) /\ Placed(t, W)
  BY <1>1, <1>12, SlotsStay
<1>14. Fresh(t)
  BY <1>1, <1>6, <1>11 DEF Fresh, Jobs
<1>15. Sized(t)
  BY <1>1, <1>5, <1>6 DEF Sized
<1>16. Pool(t, W)
  BY <1>6, <1>10, <1>13, <1>14, <1>15 DEF Pool
<1>17. Pool(r, W)
  BY <1>4, <1>16
<1> QED  BY <1>17 DEF r, v, d, c

LEMMA CompletedKeeps ==
    ASSUME NEW s, NEW W, Pool(s, W), NEW a \in s.answers
    PROVE  Pool(Completed(s, a), W)
<1> DEFINE job == s.active[a.slot]
           u == Freed(s, a)
           e == [key |-> job.key, result |-> a.result]
<1>1. Pool(u, W) /\ Vacated(s, u, a) /\ a \in AnswerOf /\ a.slot \in Jobs(s)
  BY FreedKeeps
<1>2. s \in Stores /\ Fresh(s)
  BY DEF Pool
<1>3. job \in RunningJob
  BY <1>1, <1>2, StoreFields
<1>4. CASE job.old
  BY <1>1, <1>4 DEF Completed
<1>5. CASE ~job.old
  <2>1. Completed(s, a) = Trimmed([u EXCEPT !.cache = Append(u.cache, e)])
    BY <1>5 DEF Completed
  <2>2. e \in EntryOf /\ e.key = job.key
    BY <1>1, <1>3 DEF EntryOf, RunningJob, AnswerOf
  <2>3. ~Cached(s, job.key)
    BY <1>1, <1>2, <1>5 DEF Fresh
  <2> HIDE DEF u, e, job
  <2>4. u.cache = s.cache /\ \A i \in Jobs(u) : u.active[i].key.source # job.key.source
    BY <1>1 DEF Vacated, job
  <2>5. ~Cached(u, e.key)
    BY <2>2, <2>3, <2>4 DEF Cached, Entry
  <2>6. \A i \in Jobs(u) : u.active[i].key # e.key
    BY <2>2, <2>4
  <2>7. Pool(Trimmed([u EXCEPT !.cache = Append(u.cache, e)]), W)
    BY <1>1, <2>2, <2>5, <2>6, KeptKeeps
  <2> QED  BY <2>1, <2>7
<1> QED  BY <1>4, <1>5

\* A refresh tells the threads, if the channel has room.
LEMMA MissesClearedKeeps ==
    ASSUME NEW s, NEW W, Pool(s, W), s.requested # None, refreshes \in Nat
    PROVE  Pool(MissesCleared(s), W) /\ (Settled(s) => Settled(MissesCleared(s)))
<1> DEFINE t == MissesCleared(s)
           c == [op |-> "clear", id |-> refreshes, addresses |-> s.requested]
           channel == IF Len(s.channel) <= Active THEN Append(s.channel, c) ELSE s.channel
           n == Len(s.channel)
           r == s.requested
<1>1. s \in Stores /\ Sized(s) /\ Placed(s, W)
  BY DEF Pool
<1>2. t = [s EXCEPT !.retry = r, !.channel = channel]
  BY DEF MissesCleared
<1>3. r \in SUBSET Addresses
  BY <1>1, StoreFields
<1>4. c \in CommandOf /\ c.op = "clear"
  BY <1>3 DEF CommandOf
<1>5. /\ s.channel \in Seq(CommandOf) /\ n \in Nat /\ DOMAIN s.channel = 1 .. n
      /\ n <= Active + 1
  BY <1>1, StoreFields DEF Sized
<1> HIDE DEF c, r
<1>6. /\ channel \in Seq(CommandOf) /\ Len(channel) <= Active + 1
      /\ {k \in DOMAIN channel : channel[k].op = "image"} = Images(s)
      /\ \A k \in Images(s) : channel[k] = s.channel[k]
  <2>1. CASE n <= Active
    <3> DEFINE q == Append(s.channel, c)
    <3>1. channel = q
      BY <2>1
    <3>2. /\ q \in Seq(CommandOf) /\ Len(q) = n + 1 /\ DOMAIN q = 1 .. n + 1 /\ q[n + 1] = c
          /\ \A k \in 1 .. n : q[k] = s.channel[k]
      BY <1>4, <1>5, AppendIs
    <3> HIDE DEF q, channel, n
    <3>3. \A k : k \in 1 .. n + 1 <=> k \in 1 .. n \/ k = n + 1
      BY <1>5
    <3>4. {k \in DOMAIN q : q[k].op = "image"} = Images(s)
      BY <1>4, <1>5, <3>2, <3>3 DEF Images
    <3>5. \A k \in Images(s) : q[k] = s.channel[k]
      BY <1>5, <3>2 DEF Images
    <3>6. Len(q) <= Active + 1
      BY <1>5, <2>1, <3>2, PoolSize
    <3> QED  BY <3>1, <3>2, <3>4, <3>5, <3>6
  <2>2. CASE ~(n <= Active)
    BY <1>5, <2>2 DEF Images
  <2> QED  BY <2>1, <2>2
<1> HIDE DEF t, channel, n
<1>7. /\ t \in Stores /\ t.queue = s.queue /\ t.active = s.active /\ t.cache = s.cache
      /\ t.channel = channel /\ t.answers = s.answers
  BY <1>1, <1>2, <1>3, <1>6 DEF Stores
<1>8. SameSlots(s, t)
  <2>1. Images(t) = Images(s) /\ \A k \in Images(s) : t.channel[k] = s.channel[k]
    BY <1>6, <1>7 DEF Images
  <2>2. /\ \A i \in Slots : Sent(t, i) <=> Sent(s, i)
        /\ \A j, k \in Images(t) : t.channel[j].slot = t.channel[k].slot => j = k
    BY <1>1, <2>1 DEF Sent, Placed
  <2> QED  BY <1>7, <2>2 DEF SameSlots, Jobs
<1>9. /\ Picked(t.cache, s.cache, 1 .. Len(s.cache)) /\ Picked(t.queue, s.queue, 1 .. Len(s.queue))
  BY <1>1, <1>7, StoreFields, PickedAll
<1>10. Pool(t, W)
  <2>1. Len(t.queue) <= Queued /\ Len(t.channel) <= Active + 1
    BY <1>1, <1>6, <1>7 DEF Sized
  <2> QED  BY <1>7, <1>8, <1>9, <2>1, PoolStays
<1>11. Settled(s) => Settled(t)
  BY <1>1, <1>7, <1>8, <1>9, StillSettled
<1> QED  BY <1>10, <1>11 DEF t

-----------------------------------------------------------------------------
(* What the threads work on                                                  *)

FetchOf ==
    [pc : Pcs, slot : Slots, address : Addresses, scoped : BOOLEAN,
     result : Outcomes \cup {None}, seen : Nat, revoked : BOOLEAN]
ScopeOf == [pc : {"scope", "urls"}, id : Nat, addresses : SUBSET Addresses]
Learned(w) == w.pc \in {"derive", "write", "mark"} => w.result \in Outcomes
WorkOf == {w \in FetchOf : Learned(w)} \cup ScopeOf

LEMMA WorkIs ==
    ASSUME NEW w \in WorkOf
    PROVE  /\ w.pc \in Pcs => w \in FetchOf /\ Learned(w)
           /\ w.pc \in {"scope", "urls"} => w \in ScopeOf
           /\ w.pc \in Pcs \cup {"scope", "urls"}
           /\ w.pc \notin {"scope", "urls"} <=> w.pc \in Pcs
           /\ w.pc \in Pcs => w.slot \in Slots /\ w.address \in Addresses
<1> QED  BY DEF WorkOf, FetchOf, ScopeOf, Pcs

\* The same slots are worked for.
LEMMA WorkersStay ==
    ASSUME NEW s, NEW W, NEW V, Pool(s, W), \A i \in Slots : Worked(V, i) <=> Worked(W, i),
           \A v, w \in Fetching(V) : v.slot = w.slot => v = w
    PROVE  Pool(s, V)
<1>1. Placed(s, V)
  BY DEF Pool, Placed
<1> QED  BY <1>1 DEF Pool

LEMMA OneStep ==
    ASSUME NEW s, NEW W, Pool(s, W), NEW w \in Fetching(W), NEW next,
           next.pc \notin {"scope", "urls"}, next.slot = w.slot
    PROVE  Pool(s, (W \ {w}) \cup {next})
<1> DEFINE V == (W \ {w}) \cup {next}
<1>1. \A v : v \in Fetching(V) <=> (v \in Fetching(W) /\ v # w) \/ v = next
  BY DEF Fetching
<1>2. \A x, y \in Fetching(W) : x.slot = y.slot => x = y
  BY DEF Pool, Placed
<1>3. \A i \in Slots : Worked(V, i) <=> Worked(W, i)
  BY <1>1 DEF Worked
<1>4. \A x, y \in Fetching(V) : x.slot = y.slot => x = y
  BY <1>1, <1>2
<1> HIDE DEF V
<1>5. Pool(s, V)
  BY <1>3, <1>4, WorkersStay
<1> QED  BY <1>5 DEF V

\* Clearings have no slot.
LEMMA OtherWorks ==
    ASSUME NEW s, NEW W, Pool(s, W), NEW V, Fetching(V) = Fetching(W)
    PROVE  Pool(s, V)
<1>1. \A i \in Slots : Worked(V, i) <=> Worked(W, i)
  BY DEF Worked
<1>2. \A x, y \in Fetching(V) : x.slot = y.slot => x = y
  BY DEF Pool, Placed
<1> QED  BY <1>1, <1>2, WorkersStay

LEMMA RevokedKeeps ==
    ASSUME NEW s, NEW W, Pool(s, W), W \subseteq WorkOf, NEW address
    PROVE  Pool(s, Revoked(W, address)) /\ Revoked(W, address) \subseteq WorkOf
<1> DEFINE R(w) == IF w.pc \in {"find", "fetch", "write"} /\ w.address = address
                   THEN [w EXCEPT !.revoked = TRUE] ELSE w
           V == Revoked(W, address)
<1>1. V = {R(w) : w \in W}
  BY DEF Revoked
<1>2. ASSUME NEW w \in W
      PROVE  R(w) \in WorkOf /\ R(w).pc = w.pc /\ (w.pc \in Pcs => R(w).slot = w.slot)
  <2>1. CASE w.pc \in {"find", "fetch", "write"} /\ w.address = address
    <3> DEFINE x == [w EXCEPT !.revoked = TRUE]
    <3>1. w \in FetchOf /\ Learned(w)
      BY <2>1, WorkIs DEF Pcs
    <3>2. x \in FetchOf /\ x.pc = w.pc /\ x.slot = w.slot /\ x.result = w.result
      BY <3>1 DEF FetchOf
    <3>3. R(w) = x
      BY <2>1
    <3> HIDE DEF x, R
    <3> QED  BY <3>1, <3>2, <3>3 DEF WorkOf, Learned
  <2>2. CASE ~(w.pc \in {"find", "fetch", "write"} /\ w.address = address)
    BY <2>2
  <2> QED  BY <2>1, <2>2
<1> HIDE DEF R, V
<1>3. \A v : v \in Fetching(V) <=> \E w \in Fetching(W) : v = R(w)
  BY <1>1, <1>2 DEF Fetching
<1>4. \A w \in Fetching(W) : w.pc \in Pcs /\ w \in W
  BY WorkIs DEF Fetching
<1>5. \A i \in Slots : Worked(V, i) <=> Worked(W, i)
  BY <1>2, <1>3, <1>4 DEF Worked
<1>6. \A x, y \in Fetching(V) : x.slot = y.slot => x = y
  <2>1. \A x, y \in Fetching(W) : x.slot = y.slot => x = y
    BY DEF Pool, Placed
  <2> QED  BY <1>2, <1>3, <1>4, <2>1
<1>7. Pool(s, V)
  BY <1>5, <1>6, WorkersStay
<1>8. V \subseteq WorkOf
  BY <1>1, <1>2
<1> QED  BY <1>7, <1>8 DEF V

\* What waits and what runs decide whether something waits in vain.
LEMMA SameWaiting ==
    ASSUME NEW s, NEW t, t.queue = s.queue, t.active = s.active, Settled(s)
    PROVE  Settled(t)
<1>1. Jobs(t) = Jobs(s)
  BY DEF Jobs
<1>2. Prefetching(t) = Prefetching(s) /\ \A key : Untouched(t, key) <=> Untouched(s, key)
  BY <1>1 DEF Prefetching, Untouched
<1> QED  BY <1>1, <1>2 DEF Settled

\* The answer takes the place of the work.
LEMMA ReplyKeeps ==
    ASSUME NEW s, NEW W, Pool(s, W), NEW w \in Fetching(W), w.slot \in Slots,
           NEW result \in Outcomes
    PROVE  LET t == [s EXCEPT !.answers = @ \cup {[slot |-> w.slot, result |-> result]}]
           IN  Pool(t, W \ {w}) /\ (Settled(s) => Settled(t))
<1> DEFINE a == [slot |-> w.slot, result |-> result]
           answers == s.answers \cup {a}
           t == [s EXCEPT !.answers = answers]
           V == W \ {w}
<1>1. s \in Stores /\ Placed(s, W)
  BY DEF Pool
<1>2. a \in AnswerOf /\ a.slot = w.slot
  BY DEF AnswerOf
<1>3. answers \in SUBSET AnswerOf
  BY <1>1, <1>2, StoreFields
<1> HIDE DEF a, answers
<1>4. /\ t \in Stores /\ t.queue = s.queue /\ t.active = s.active /\ t.cache = s.cache
      /\ t.channel = s.channel /\ t.answers = answers
  BY <1>1, <1>3 DEF Stores
<1> HIDE DEF t
<1>5. \A v : v \in Fetching(V) <=> v \in Fetching(W) /\ v # w
  BY DEF Fetching
<1>6. \A x, y \in Fetching(W) : x.slot = y.slot => x = y
  BY <1>1 DEF Placed
<1>7. \A i : Worked(V, i) <=> Worked(W, i) /\ i # w.slot
  BY <1>5, <1>6 DEF Worked
<1>8. \A i : Answered(t, i) <=> Answered(s, i) \/ i = w.slot
  BY <1>2, <1>4 DEF Answered, answers
<1>9. Images(t) = Images(s) /\ \A i : Sent(t, i) <=> Sent(s, i)
  BY <1>4 DEF Images, Sent
<1>10. Worked(W, w.slot) /\ ~Sent(s, w.slot) /\ ~Answered(s, w.slot)
  <2>1. Worked(W, w.slot)
    BY DEF Worked
  <2> QED  BY <1>1, <2>1 DEF Placed
<1>11. Jobs(t) = Jobs(s)
  BY <1>4 DEF Jobs
<1>12. Placed(t, V)
  <2>1. \A i \in Slots : i \in Jobs(t) <=> Sent(t, i) \/ Worked(V, i) \/ Answered(t, i)
    BY <1>1, <1>7, <1>8, <1>9, <1>10, <1>11 DEF Placed
  <2>2. \A i \in Slots : /\ ~(Sent(t, i) /\ Worked(V, i)) /\ ~(Sent(t, i) /\ Answered(t, i))
                         /\ ~(Worked(V, i) /\ Answered(t, i))
    BY <1>1, <1>7, <1>8, <1>9, <1>10 DEF Placed
  <2>3. \A j, k \in Images(t) : t.channel[j].slot = t.channel[k].slot => j = k
    BY <1>1, <1>4, <1>9 DEF Placed
  <2>4. \A x, y \in Fetching(V) : x.slot = y.slot => x = y
    BY <1>5, <1>6
  <2>5. \A b, c \in t.answers : b.slot = c.slot => b = c
    <3>1. \A b \in s.answers : b.slot # w.slot
      BY <1>10 DEF Answered
    <3>2. \A b, c \in s.answers : b.slot = c.slot => b = c
      BY <1>1 DEF Placed
    <3> QED  BY <1>2, <1>4, <3>1, <3>2 DEF answers
  <2> QED  BY <2>1, <2>2, <2>3, <2>4, <2>5 DEF Placed
<1>13. Pool(t, V)
  <2>1. Sized(t) /\ Alone(t) /\ OneEntry(t) /\ Fresh(t) /\ Spared(t)
    <3>1. Prefetching(t) = Prefetching(s)
      BY <1>4, <1>11 DEF Prefetching
    <3> QED  BY <1>4, <1>11, <3>1 DEF Pool, Sized, Alone, OneEntry, Fresh, Spared, Cached, Entry
  <2> QED  BY <1>4, <1>12, <2>1 DEF Pool
<1>14. Settled(s) => Settled(t)
  BY <1>4, SameWaiting
<1> QED  BY <1>13, <1>14 DEF t, answers, a

\* What the channel's first command becomes.
Becomes(c, new) ==
    IF c.op = "image" THEN new.pc \notin {"scope", "urls"} /\ new.slot = c.slot
    ELSE new.pc \in {"scope", "urls"}

LEMMA TakenKeeps ==
    ASSUME NEW s, NEW W, Pool(s, W), s.channel # <<>>, NEW new, Becomes(Head(s.channel), new)
    PROVE  Pool([s EXCEPT !.channel = Tail(s.channel)], W \cup {new})
<1> DEFINE q == s.channel
           n == Len(q)
           c == Head(q)
           rest == Tail(q)
           t == [s EXCEPT !.channel = rest]
           V == W \cup {new}
<1>1. s \in Stores /\ Placed(s, W) /\ Sized(s)
  BY DEF Pool
<1>2. q \in Seq(CommandOf) /\ n \in Nat /\ DOMAIN q = 1 .. n /\ n # 0 /\ n <= Active + 1
  BY <1>1, StoreFields, EmptySeq DEF Sized
<1>3. /\ c = q[1] /\ rest \in Seq(CommandOf) /\ Len(rest) = n - 1
      /\ \A i \in 1 .. n - 1 : rest[i] = q[i + 1]
      /\ DOMAIN rest = 1 .. n - 1
  <2>1. rest \in Seq(CommandOf) /\ Len(rest) = n - 1 /\ \A i \in 1 .. Len(rest) : rest[i] = q[i + 1]
    BY <1>2, HeadTailProperties
  <2>2. c = q[1]
    BY <1>2
  <2>3. DOMAIN rest = 1 .. Len(rest)
    BY <2>1, LenProperties
  <2> QED  BY <2>1, <2>2, <2>3
<1> HIDE DEF rest, c
<1>4. /\ t \in Stores /\ t.queue = s.queue /\ t.active = s.active /\ t.cache = s.cache
      /\ t.channel = rest /\ t.answers = s.answers
  BY <1>1, <1>3 DEF Stores
<1> HIDE DEF t, q, n
<1>5. Jobs(t) = Jobs(s) /\ \A i : Answered(t, i) <=> Answered(s, i)
  BY <1>4 DEF Jobs, Answered
<1>6. Images(s) = {k \in 1 .. n : q[k].op = "image"} /\ Images(t) = {k \in 1 .. n - 1 : rest[k].op = "image"}
  BY <1>2, <1>3, <1>4 DEF Images, q
<1>7. /\ \A k \in Images(t) : k \in 1 .. n - 1 /\ k + 1 \in Images(s) /\ k + 1 # 1 /\ rest[k] = q[k + 1]
      /\ \A k \in Images(s) : k # 1 => k - 1 \in Images(t) /\ rest[k - 1] = q[k]
  <2>1. \A k \in 1 .. n - 1 : k + 1 \in 1 .. n /\ k + 1 # 1
    BY <1>2
  <2>2. \A k \in 1 .. n : k # 1 => k - 1 \in 1 .. n - 1 /\ k - 1 + 1 = k
    BY <1>2
  <2> QED  BY <1>3, <1>6, <2>1, <2>2
<1>8. \A i : Sent(t, i) <=> \E k \in Images(s) : k # 1 /\ q[k].slot = i
  BY <1>4, <1>7 DEF Sent, q
<1>9. \A j, k \in Images(s) : q[j].slot = q[k].slot => j = k
  BY <1>1 DEF Placed, q
<1>10. \A j, k \in Images(t) : t.channel[j].slot = t.channel[k].slot => j = k
  <2>1. SUFFICES ASSUME NEW j \in Images(t), NEW k \in Images(t), rest[j].slot = rest[k].slot
                 PROVE  j = k
    BY <1>4
  <2>2. j + 1 = k + 1 /\ j \in 1 .. n - 1 /\ k \in 1 .. n - 1
    BY <1>7, <1>9, <2>1
  <2> QED  BY <1>2, <2>2
<1>11. Placed(t, V)
  <2>1. CASE c.op = "image"
    <3>1. new.pc \notin {"scope", "urls"} /\ new.slot = c.slot /\ 1 \in Images(s)
      BY <1>2, <1>3, <1>6, <2>1 DEF Becomes, c, q
    <3>2. \A i : Sent(t, i) <=> Sent(s, i) /\ i # c.slot
      <4>1. \A k \in Images(s) : q[k].slot = c.slot <=> k = 1
        BY <1>3, <1>9, <3>1
      <4>2. \A i : Sent(s, i) <=> \E k \in Images(s) : q[k].slot = i
        BY DEF Sent, q
      <4> QED  BY <1>8, <4>1, <4>2
    <3>3. \A v : v \in Fetching(V) <=> v \in Fetching(W) \/ v = new
      BY <3>1 DEF Fetching
    <3>4. \A i : Worked(V, i) <=> Worked(W, i) \/ i = c.slot
      BY <3>1, <3>3 DEF Worked
    <3>5. c.slot \in Slots /\ Sent(s, c.slot)
      <4>1. q[1] \in CommandOf
        BY <1>2, ElementOfSeq
      <4>2. c.slot \in Slots
        BY <1>3, <2>1, <4>1 DEF CommandOf
      <4> QED  BY <1>3, <3>1, <4>2 DEF Sent, q
    <3>6. ~Worked(W, c.slot) /\ ~Answered(s, c.slot)
      BY <1>1, <3>5 DEF Placed
    <3>7. \A i \in Slots : i \in Jobs(t) <=> Sent(t, i) \/ Worked(V, i) \/ Answered(t, i)
      BY <1>1, <1>5, <3>2, <3>4, <3>5 DEF Placed
    <3>8. \A i \in Slots : /\ ~(Sent(t, i) /\ Worked(V, i)) /\ ~(Sent(t, i) /\ Answered(t, i))
                           /\ ~(Worked(V, i) /\ Answered(t, i))
      BY <1>1, <1>5, <3>2, <3>4, <3>6 DEF Placed
    <3>9. \A x, y \in Fetching(V) : x.slot = y.slot => x = y
      <4>1. \A x \in Fetching(W) : x.slot # new.slot
        BY <3>1, <3>6 DEF Worked
      <4>2. \A x, y \in Fetching(W) : x.slot = y.slot => x = y
        BY <1>1 DEF Placed
      <4> QED  BY <3>3, <4>1, <4>2
    <3>10. \A a, b \in t.answers : a.slot = b.slot => a = b
      BY <1>1, <1>4 DEF Placed
    <3> QED  BY <1>10, <3>7, <3>8, <3>9, <3>10 DEF Placed
  <2>2. CASE c.op # "image"
    <3>1. new.pc \in {"scope", "urls"} /\ 1 \notin Images(s)
      BY <1>3, <1>6, <2>2 DEF Becomes, c, q
    <3>2. \A i : Sent(t, i) <=> Sent(s, i)
      BY <1>8, <3>1 DEF Sent, q
    <3>3. Fetching(V) = Fetching(W)
      BY <3>1 DEF Fetching
    <3>4. \A i : Worked(V, i) <=> Worked(W, i)
      BY <3>3 DEF Worked
    <3> QED  BY <1>1, <1>4, <1>5, <1>10, <3>2, <3>3, <3>4 DEF Placed
  <2> QED  BY <2>1, <2>2
<1>12. Sized(t) /\ Alone(t) /\ OneEntry(t) /\ Fresh(t) /\ Spared(t)
  <2>1. Prefetching(t) = Prefetching(s)
    BY <1>4, <1>5 DEF Prefetching
  <2>2. Len(rest) <= Active + 1
    BY <1>2, <1>3, PoolSize
  <2> QED  BY <1>4, <1>5, <2>1, <2>2 DEF Pool, Sized, Alone, OneEntry, Fresh, Spared, Cached, Entry
<1>13. Pool(t, V)
  BY <1>4, <1>11, <1>12 DEF Pool
<1> QED  BY <1>13 DEF t, V, rest, q

-----------------------------------------------------------------------------
(* The invariant                                                             *)

PoolInv ==
    /\ Pool(store, working) /\ Settled(store) /\ working \subseteq WorkOf
    /\ clears \in [Addresses -> Nat] /\ refreshes \in Nat /\ window \in Seq(Keys)

LEMMA InitPoolInv == Init => PoolInv
<1> SUFFICES ASSUME Init PROVE PoolInv
  OBVIOUS
<1> DEFINE active == [i \in Slots |-> None]
           s == [queue |-> <<>>, active |-> active, cache |-> <<>>,
                 newest |-> None, requested |-> None, retry |-> {}, channel |-> <<>>,
                 answers |-> {}]
<1>1. store = s /\ working = {} /\ clears = [x \in Addresses |-> 0] /\ refreshes = 0 /\ window = <<>>
  BY DEF Init
<1>2. active \in [Slots -> RunningJob \cup {None}]
  OBVIOUS
<1>3. \A i \in Slots : active[i] = None
  OBVIOUS
<1> HIDE DEF active
<1>4. /\ <<>> \in Seq(JobOf) /\ <<>> \in Seq(EntryOf) /\ <<>> \in Seq(CommandOf)
      /\ <<>> \in Seq(Keys) /\ Len(<<>>) = 0
  BY EmptySeq
<1>5. /\ s \in Stores /\ s.queue = <<>> /\ s.active = active /\ s.cache = <<>>
      /\ s.channel = <<>> /\ s.answers = {}
  BY <1>2, <1>4 DEF Stores
<1> HIDE DEF s
<1>6. Jobs(s) = {} /\ DOMAIN s.queue = {} /\ DOMAIN s.cache = {} /\ DOMAIN s.channel = {}
  <2>1. DOMAIN <<>> = {}
    <3>1. DOMAIN <<>> = 1 .. 0
      BY <1>4, LenProperties
    <3> QED  BY <3>1
  <2> QED  BY <1>3, <1>5, <2>1 DEF Jobs
<1>7. Spared(s)
  <2>1. Prefetching(s) = {}
    BY <1>6 DEF Prefetching
  <2>2. Cardinality(Prefetching(s)) = 0
    BY <2>1, FS_EmptySet
  <2> QED  BY <2>2, PoolSize DEF Spared
<1>8. Sized(s) /\ Alone(s) /\ OneEntry(s) /\ Fresh(s)
  BY <1>4, <1>5, <1>6, PoolSize DEF Sized, Alone, OneEntry, Fresh
<1>9. Placed(s, {})
  BY <1>5, <1>6 DEF Placed, Sent, Images, Worked, Fetching, Answered
<1>10. Settled(s)
  BY <1>5, <1>6 DEF Settled
<1>11. Pool(s, {})
  BY <1>5, <1>7, <1>8, <1>9 DEF Pool
<1> QED  BY <1>1, <1>4, <1>10, <1>11 DEF PoolInv

LEMMA UserPool == ASSUME PoolInv, User PROVE PoolInv'
<1>1. Pool(store, working) /\ Settled(store)
  BY DEF PoolInv
<1>2. UNCHANGED threads
  BY DEF User, NewSubject, Scroll, Grid, OpenDetail, LeaveDetail, Refresh
<1>3. working' = working /\ clears' = clears
  BY <1>2 DEF threads
<1>4. SUFFICES /\ Pool(store', working) /\ Settled(store')
               /\ refreshes' \in Nat /\ window' \in Seq(Keys)
  BY <1>3 DEF PoolInv
<1>5. ASSUME NEW grid \in Grids, Grid(grid) PROVE refreshes' \in Nat /\ window' \in Seq(Keys)
  BY <1>5, ViewsAssumption DEF Grid, PoolInv
<1>6. "browse" \in Owners /\ "detail" \in Owners
  BY DEF Owners
<1>7. ASSUME NEW grid \in Grids, NewSubject(grid)
      PROVE  Pool(store', working) /\ Settled(store')
  <2>1. store' = Advanced(store, "browse")
    BY <1>7 DEF NewSubject
  <2> QED  BY <1>1, <1>6, <2>1, AdvancedKeeps
<1>8. ASSUME NEW grid \in Grids, Scroll(grid) PROVE store' = store
  BY <1>8 DEF Scroll
<1>9. ASSUME NEW page \in Pages, OpenDetail(page)
      PROVE  Pool(store', working) /\ Settled(store')
  <2>1. store' = Titled(store)
    BY <1>9 DEF OpenDetail
  <2> QED  BY <1>1, <2>1, TitledKeeps
<1>10. ASSUME LeaveDetail PROVE Pool(store', working) /\ Settled(store')
  <2>1. store' = Advanced(store, "detail")
    BY <1>10 DEF LeaveDetail
  <2> QED  BY <1>1, <1>6, <2>1, AdvancedKeeps
<1>11. ASSUME Refresh PROVE Pool(store', working) /\ Settled(store')
  <2> DEFINE s == MissesCleared(store)
  <2>1. store' = Titled(s) /\ store.requested # None
    BY <1>11 DEF Refresh, Open
  <2>2. Pool(s, working) /\ Settled(s)
    BY <1>1, <2>1, MissesClearedKeeps DEF PoolInv
  <2> HIDE DEF s
  <2> QED  BY <2>1, <2>2, TitledKeeps
<1>12. CASE \E grid \in Grids : NewSubject(grid) \/ Scroll(grid)
  <2>1. PICK grid \in Grids : NewSubject(grid) \/ Scroll(grid)
    BY <1>12
  <2>2. Grid(grid)
    BY <2>1 DEF NewSubject, Scroll
  <2> QED  BY <1>1, <1>5, <1>7, <1>8, <2>1, <2>2
<1>13. CASE (\E page \in Pages : OpenDetail(page)) \/ LeaveDetail \/ Refresh
  <2>1. refreshes' \in Nat /\ window' \in Seq(Keys)
    BY <1>13 DEF OpenDetail, LeaveDetail, Refresh, PoolInv
  <2> QED  BY <1>9, <1>10, <1>11, <1>13, <2>1
<1> QED  BY <1>12, <1>13 DEF User

\* What the views draw, and the answers, fill the free slots again.
LEMMA StorePool ==
    ASSUME PoolInv,
           \/ DrawWindow \/ Complete
           \/ \E d \in Drawable : Draw(d[1], d[2])
    PROVE  PoolInv'
<1>1. Pool(store, working) /\ Settled(store) /\ window \in Seq(Keys) /\ store \in Stores
  BY DEF PoolInv, Pool
<1>2. UNCHANGED <<threads, views>>
  BY DEF DrawWindow, Complete, Draw
<1>3. working' = working /\ clears' = clears /\ refreshes' = refreshes /\ window' = window
  BY <1>2 DEF threads, views
<1>4. SUFFICES Pool(store', working) /\ Settled(store')
  BY <1>3 DEF PoolInv
<1>5. CASE DrawWindow
  <2> DEFINE s == Rewindowed(store, window)
  <2>1. store' = Pumped(s)
    BY <1>5 DEF DrawWindow
  <2>2. Pool(s, working)
    BY <1>1, RewindowedKeeps
  <2> HIDE DEF s
  <2> QED  BY <2>1, <2>2, PumpedSettles
<1>6. CASE Complete
  <2>1. PICK a \in store.answers : store' = Pumped(Completed(store, a))
    BY <1>6 DEF Complete
  <2> DEFINE s == Completed(store, a)
  <2>2. Pool(s, working)
    BY <1>1, CompletedKeeps
  <2> HIDE DEF s
  <2> QED  BY <2>1, <2>2, PumpedSettles DEF s
<1>7. CASE \E d \in Drawable : Draw(d[1], d[2])
  <2>1. PICK o \in Owners, key \in Keys : Draw(o, key)
    <3>1. PICK d \in Drawable : Draw(d[1], d[2])
      BY <1>7
    <3>2. d[1] \in Owners /\ d[2] \in Keys
      BY ViewsAssumption DEF Drawable, Owners
    <3> QED  BY <3>1, <3>2
  <2>2. CASE Cached(store, key)
    <3> DEFINE t == Touched(store, key)
    <3>1. store' = t
      BY <2>1, <2>2 DEF Draw
    <3>2. /\ t \in Stores /\ Picked(t.cache, store.cache, 1 .. Len(store.cache))
          /\ t.queue = store.queue /\ t.active = store.active /\ t.channel = store.channel
          /\ t.answers = store.answers
      BY <1>1, TouchedKeeps
    <3> HIDE DEF t
    <3>3. SameSlots(store, t)
      BY <1>1, <3>2, SameChannel DEF SameSlots, Jobs, Pool
    <3>4. Len(t.queue) <= Queued /\ Len(t.channel) <= Active + 1
      BY <1>1, <3>2 DEF Pool, Sized
    <3>5. Pool(t, working)
      BY <1>1, <3>2, <3>3, <3>4, PoolStays
    <3>6. Settled(t)
      BY <1>1, <3>2, SameWaiting
    <3> QED  BY <3>1, <3>5, <3>6
  <2>3. CASE ~Cached(store, key)
    <3> DEFINE s == Enqueued(store, o, key, TRUE)
    <3>1. store' = Only({Pumped(t) : t \in {s}})
      BY <2>1, <2>3 DEF Draw
    <3>2. TRUE \in BOOLEAN
      OBVIOUS
    <3>3. Pool(s, working)
      BY <1>1, <3>2, EnqueuedKeeps
    <3> HIDE DEF s
    <3>4. {Pumped(t) : t \in {s}} = {Pumped(s)}
      OBVIOUS
    <3>5. store' = Pumped(s)
      BY <3>1, <3>4, OnlyOne
    <3> QED  BY <3>3, <3>5, PumpedSettles
  <2> QED  BY <2>2, <2>3
<1> QED  BY <1>5, <1>6, <1>7

-----------------------------------------------------------------------------
(* The threads take, do and answer                                           *)

LEMMA TakePool == ASSUME PoolInv, Take PROVE PoolInv'
<1> DEFINE c == Head(store.channel)
           new == IF c.op = "clear"
                  THEN [pc |-> "scope", id |-> c.id, addresses |-> c.addresses]
                  ELSE [pc |-> IF c.known # None THEN "derive"
                               ELSE IF c.clear THEN "clear" ELSE "lease",
                        slot |-> c.slot, address |-> c.address, scoped |-> c.scoped,
                        result |-> c.known, seen |-> 0, revoked |-> FALSE]
           t == [store EXCEPT !.channel = Tail(store.channel)]
           V == working \cup {new}
<1>1. /\ Pool(store, working) /\ Settled(store) /\ store \in Stores /\ working \subseteq WorkOf
      /\ clears \in [Addresses -> Nat] /\ refreshes \in Nat /\ window \in Seq(Keys)
  BY DEF PoolInv, Pool
<1>2. /\ store.channel # <<>> /\ store' = t /\ working' = V
      /\ clears' = clears /\ refreshes' = refreshes /\ window' = window
  BY DEF Take, views
<1>3. c \in CommandOf
  <2>1. store.channel \in Seq(CommandOf)
    BY <1>1, StoreFields
  <2> QED  BY <1>2, <2>1, HeadTailProperties
<1> HIDE DEF c
<1>4. new \in WorkOf /\ Becomes(c, new)
  <2>1. CASE c.op = "clear"
    <3>1. c.id \in Nat /\ c.addresses \in SUBSET Addresses
      BY <1>3, <2>1 DEF CommandOf
    <3> DEFINE x == [pc |-> "scope", id |-> c.id, addresses |-> c.addresses]
    <3>2. x \in ScopeOf /\ x.pc = "scope"
      BY <3>1 DEF ScopeOf
    <3>3. new = x
      BY <2>1
    <3> HIDE DEF new, x
    <3> QED  BY <2>1, <3>2, <3>3 DEF WorkOf, Becomes
  <2>2. CASE c.op # "clear"
    <3>1. /\ c.op = "image" /\ c.slot \in Slots /\ c.address \in Addresses /\ c.scoped \in BOOLEAN
          /\ c.known \in Outcomes \cup {None}
      BY <1>3, <2>2 DEF CommandOf
    <3> DEFINE pc == IF c.known # None THEN "derive" ELSE IF c.clear THEN "clear" ELSE "lease"
               x == [pc |-> pc, slot |-> c.slot, address |-> c.address, scoped |-> c.scoped,
                     result |-> c.known, seen |-> 0, revoked |-> FALSE]
    <3>2. pc \in Pcs /\ (pc \in {"derive", "write", "mark"} => c.known # None)
          /\ pc \notin {"scope", "urls"}
      BY DEF Pcs
    <3>3. new = x
      BY <2>2
    <3> HIDE DEF pc, new
    <3>4. /\ x \in FetchOf /\ x.pc = pc /\ x.slot = c.slot /\ x.result = c.known
      BY <3>1, <3>2 DEF FetchOf
    <3> HIDE DEF x
    <3>5. Learned(x)
      BY <3>1, <3>2, <3>4 DEF Learned
    <3> QED  BY <3>1, <3>2, <3>3, <3>4, <3>5 DEF WorkOf, Becomes
  <2> QED  BY <2>1, <2>2
<1> HIDE DEF new
<1>5. Pool(t, V)
  BY <1>1, <1>2, <1>4, TakenKeeps DEF c
<1>6. t.queue = store.queue /\ t.active = store.active
  BY <1>1 DEF Stores
<1> HIDE DEF t
<1>7. Settled(t)
  BY <1>1, <1>6, SameWaiting
<1> QED  BY <1>1, <1>2, <1>4, <1>5, <1>7 DEF PoolInv

\* A fetch that goes on keeps its slot.
LEMMA FetchNext ==
    ASSUME NEW w \in FetchOf, NEW pc \in Pcs, NEW result \in Outcomes \cup {None}, NEW seen \in Nat,
           pc \in {"derive", "write", "mark"} => result \in Outcomes
    PROVE  LET next == GoesOn(w, pc, result, seen)
           IN  next \in WorkOf /\ next.pc \notin {"scope", "urls"} /\ next.slot = w.slot
<1> DEFINE next == GoesOn(w, pc, result, seen)
<1>1. next \in FetchOf /\ next.pc = pc /\ next.slot = w.slot /\ next.result = result
  <2> HIDE DEF Pcs
  <2> QED  BY DEF GoesOn, FetchOf
<1> HIDE DEF next
<1>2. Learned(next)
  BY <1>1 DEF Learned
<1>3. next.pc \notin {"scope", "urls"}
  BY <1>1 DEF Pcs
<1> QED  BY <1>1, <1>2, <1>3 DEF WorkOf, next

\* So does the whole of a step whose fetch goes on.
LEMMA StepPool ==
    ASSUME PoolInv, NEW w \in working, w \in FetchOf, w.pc \in Pcs, NEW pc \in Pcs,
           NEW result \in Outcomes \cup {None}, NEW seen \in Nat,
           pc \in {"derive", "write", "mark"} => result \in Outcomes,
           Step(w, GoesOn(w, pc, result, seen)), UNCHANGED <<store, clears, views>>
    PROVE  PoolInv'
<1> DEFINE next == GoesOn(w, pc, result, seen)
<1>1. /\ Pool(store, working) /\ Settled(store) /\ working \subseteq WorkOf
      /\ clears \in [Addresses -> Nat] /\ refreshes \in Nat /\ window \in Seq(Keys)
  BY DEF PoolInv
<1>2. working' = (working \ {w}) \cup {next}
  BY DEF Step
<1>3. next \in WorkOf /\ next.pc \notin {"scope", "urls"} /\ next.slot = w.slot
  BY FetchNext
<1> HIDE DEF next
<1>4. w \in Fetching(working)
  BY DEF Fetching, Pcs
<1>5. Pool(store, (working \ {w}) \cup {next})
  BY <1>1, <1>3, <1>4, OneStep
<1> QED  BY <1>1, <1>2, <1>3, <1>5 DEF PoolInv, views

\* A clearing changes who may write, and no slot.
LEMMA ClearMissPool ==
    ASSUME PoolInv, NEW V, Pool(store, V), V \subseteq WorkOf, NEW address \in Addresses,
           ClearMiss(V, address)
    PROVE  PoolInv'
<1>1. /\ working' = Revoked(V, address) /\ clears' = [clears EXCEPT ![address] = @ + 1]
      /\ store' = store /\ refreshes' = refreshes /\ window' = window
  BY DEF ClearMiss, views
<1>2. Pool(store, Revoked(V, address)) /\ Revoked(V, address) \subseteq WorkOf
  BY RevokedKeeps
<1>3. clears' \in [Addresses -> Nat]
  <2>1. clears \in [Addresses -> Nat] /\ clears[address] + 1 \in Nat
    BY DEF PoolInv
  <2> QED  BY <1>1, <2>1
<1> QED  BY <1>1, <1>2, <1>3 DEF PoolInv

\* A fetch answers, and its thread is free.
LEMMA ReplyPool ==
    ASSUME PoolInv, NEW w \in working, w \in FetchOf, NEW result \in Outcomes,
           Reply(w, result), UNCHANGED <<clears, views>>
    PROVE  PoolInv'
<1> DEFINE t == [store EXCEPT !.answers = @ \cup {[slot |-> w.slot, result |-> result]}]
<1>1. /\ Pool(store, working) /\ Settled(store) /\ working \subseteq WorkOf
      /\ clears \in [Addresses -> Nat] /\ refreshes \in Nat /\ window \in Seq(Keys)
  BY DEF PoolInv
<1>2. w \in Fetching(working) /\ w.slot \in Slots
  BY DEF Fetching, FetchOf, Pcs
<1>3. Pool(t, working \ {w}) /\ Settled(t)
  BY <1>1, <1>2, ReplyKeeps
<1>4. store' = t /\ working' = working \ {w}
  BY DEF Reply
<1> HIDE DEF t
<1> QED  BY <1>1, <1>3, <1>4 DEF PoolInv, views

LEMMA FetchPool ==
    ASSUME PoolInv, ClearInv, NEW w \in working,
           \/ Derive(w) \/ ClearOwn(w) \/ Lease(w) \/ Find(w) \/ Fetch(w) \/ WriteMiss(w) \/ Mark(w)
    PROVE  PoolInv'
<1>1. /\ Pool(store, working) /\ working \subseteq WorkOf /\ clears \in [Addresses -> Nat]
  BY DEF PoolInv
<1>2. w.pc \in Pcs
  BY DEF Derive, ClearOwn, Lease, Find, Fetch, WriteMiss, Mark, Pcs
<1>3. w \in FetchOf /\ Learned(w) /\ w.slot \in Slots /\ w.address \in Addresses
  BY <1>1, <1>2, WorkIs
<1>4. w.result \in Outcomes \cup {None} /\ w.seen \in Nat
  BY <1>3 DEF FetchOf
<1>5. \A pc, result, seen :
        /\ [w EXCEPT !.pc = pc] = GoesOn(w, pc, w.result, w.seen)
        /\ [w EXCEPT !.pc = pc, !.result = result] = GoesOn(w, pc, result, w.seen)
        /\ [w EXCEPT !.pc = pc, !.seen = seen] = GoesOn(w, pc, w.result, seen)
  BY <1>3 DEF FetchOf, GoesOn
<1>6. Ready \in Outcomes /\ Failure \in Outcomes
  BY DEF Outcomes
<1>7. \A n \in Nat : CachedMiss(n) \in Outcomes
  BY DEF Outcomes, CachedMiss
<1>8. CASE Derive(w)
  <2>1. w.result \in Outcomes
    BY <1>3, <1>8 DEF Derive, Learned
  <2>2. PICK result \in Outcomes : Reply(w, result)
    BY <1>6, <1>8, <2>1 DEF Derive
  <2>3. UNCHANGED <<clears, views>>
    BY <1>8 DEF Derive
  <2> QED  BY <1>3, <2>2, <2>3, ReplyPool
<1>9. CASE ClearOwn(w)
  <2> DEFINE next == GoesOn(w, "lease", w.result, w.seen)
             V == (working \ {w}) \cup {next}
  <2>1. "lease" \in Pcs /\ "lease" \notin {"derive", "write", "mark"}
    BY DEF Pcs
  <2>2. next \in WorkOf /\ next.pc \notin {"scope", "urls"} /\ next.slot = w.slot
    BY <1>3, <1>4, <2>1, FetchNext
  <2>3. ClearMiss(V, w.address)
    BY <1>5, <1>9 DEF ClearOwn
  <2> HIDE DEF next
  <2>4. w \in Fetching(working)
    BY <1>2 DEF Fetching, Pcs
  <2>5. Pool(store, V)
    BY <1>1, <2>2, <2>4, OneStep
  <2>6. V \subseteq WorkOf
    BY <1>1, <2>2
  <2> HIDE DEF V
  <2> QED  BY <1>3, <2>3, <2>5, <2>6, ClearMissPool
<1>10. CASE Lease(w)
  <2>1. "find" \in Pcs /\ "find" \notin {"derive", "write", "mark"}
    BY DEF Pcs
  <2>2. Step(w, GoesOn(w, "find", w.result, w.seen)) /\ UNCHANGED <<store, clears, views>>
    <3>1. [w EXCEPT !.pc = "find"] = GoesOn(w, "find", w.result, w.seen)
      BY <1>5
    <3> QED  BY <1>10, <3>1 DEF Lease
  <2> QED  BY <1>2, <1>3, <1>4, <2>1, <2>2, StepPool
<1>11. CASE Find(w)
  <2>1. UNCHANGED <<store, clears, views>>
    BY <1>11 DEF Find
  <2>2. CASE miss[w.address] # None
    <3> DEFINE result == CachedMiss(miss[w.address].seen)
    <3>1. miss[w.address].seen = clears[w.address]
      BY <1>3, <2>2 DEF ClearInv, Misses, Miss
    <3>2. miss[w.address].seen \in Nat
      BY <1>1, <1>3, <3>1
    <3>3. result \in Outcomes /\ "mark" \in Pcs
      BY <1>7, <3>2 DEF Pcs
    <3> HIDE DEF result
    <3>4. [w EXCEPT !.pc = "mark", !.result = result] = GoesOn(w, "mark", result, w.seen)
      BY <1>5
    <3>5. Step(w, GoesOn(w, "mark", result, w.seen))
      BY <1>11, <2>2, <3>4 DEF Find, result
    <3> QED  BY <1>2, <1>3, <1>4, <2>1, <3>3, <3>5, StepPool
  <2>3. CASE miss[w.address] = None
    <3> DEFINE seen == clears[w.address]
    <3>1. seen \in Nat /\ "fetch" \in Pcs /\ "fetch" \notin {"derive", "write", "mark"}
      BY <1>1, <1>3 DEF Pcs
    <3> HIDE DEF seen
    <3>2. [w EXCEPT !.pc = "fetch", !.seen = seen] = GoesOn(w, "fetch", w.result, seen)
      BY <1>5
    <3>3. Step(w, GoesOn(w, "fetch", w.result, seen))
      BY <1>11, <2>3, <3>2 DEF Find, seen
    <3> QED  BY <1>2, <1>3, <1>4, <2>1, <3>1, <3>3, StepPool
  <2> QED  BY <2>2, <2>3
<1>12. CASE Fetch(w)
  <2>1. UNCHANGED <<clears, views>>
    BY <1>12 DEF Fetch
  <2>2. CASE \E result \in {Ready, Failure} : Reply(w, result)
    <3>1. PICK result \in Outcomes : Reply(w, result)
      BY <1>6, <2>2
    <3> QED  BY <1>3, <2>1, <3>1, ReplyPool
  <2>3. CASE Step(w, [w EXCEPT !.pc = "write", !.result = CachedMiss(w.seen)]) /\ UNCHANGED store
    <3> DEFINE result == CachedMiss(w.seen)
    <3>1. result \in Outcomes /\ "write" \in Pcs
      BY <1>4, <1>7 DEF Pcs
    <3> HIDE DEF result
    <3>2. [w EXCEPT !.pc = "write", !.result = result] = GoesOn(w, "write", result, w.seen)
      BY <1>5
    <3>3. Step(w, GoesOn(w, "write", result, w.seen)) /\ UNCHANGED <<store, clears, views>>
      BY <2>1, <2>3, <3>2 DEF result
    <3> QED  BY <1>2, <1>3, <1>4, <3>1, <3>3, StepPool
  <2> QED  BY <1>12, <2>2, <2>3 DEF Fetch
<1>13. CASE WriteMiss(w)
  <2>1. w.result \in Outcomes /\ "mark" \in Pcs
    BY <1>3, <1>13 DEF WriteMiss, Learned, Pcs
  <2>2. Step(w, GoesOn(w, "mark", w.result, w.seen)) /\ UNCHANGED <<store, clears, views>>
    <3>1. [w EXCEPT !.pc = "mark"] = GoesOn(w, "mark", w.result, w.seen)
      BY <1>5
    <3> QED  BY <1>13, <3>1 DEF WriteMiss
  <2> QED  BY <1>2, <1>3, <1>4, <2>1, <2>2, StepPool
<1>14. CASE Mark(w)
  <2>1. w.result \in Outcomes /\ Reply(w, w.result) /\ UNCHANGED <<clears, views>>
    BY <1>3, <1>14 DEF Mark, Learned
  <2> QED  BY <1>3, <2>1, ReplyPool
<1> QED  BY <1>8, <1>9, <1>10, <1>11, <1>12, <1>13, <1>14

LEMMA ScopePool ==
    ASSUME PoolInv, NEW w \in working, ClearScope(w) \/ ClearUrl(w)
    PROVE  PoolInv'
<1>1. /\ Pool(store, working) /\ Settled(store) /\ working \subseteq WorkOf
      /\ clears \in [Addresses -> Nat] /\ refreshes \in Nat /\ window \in Seq(Keys)
  BY DEF PoolInv
<1>2. w.pc \in {"scope", "urls"}
  BY DEF ClearScope, ClearUrl
<1>3. w \in ScopeOf
  BY <1>1, <1>2, WorkIs
<1>4. ASSUME NEW next \in ScopeOf
      PROVE  Pool(store, (working \ {w}) \cup {next}) /\ (working \ {w}) \cup {next} \subseteq WorkOf
  <2> DEFINE V == (working \ {w}) \cup {next}
  <2>1. next.pc \in {"scope", "urls"} /\ next \in WorkOf
    BY DEF ScopeOf, WorkOf
  <2>2. Fetching(V) = Fetching(working)
    BY <1>2, <2>1 DEF Fetching
  <2>3. V \subseteq WorkOf
    BY <1>1, <2>1
  <2> HIDE DEF V
  <2>4. Pool(store, V)
    BY <1>1, <2>2, OtherWorks
  <2> QED  BY <2>3, <2>4 DEF V
<1>5. CASE ClearScope(w)
  <2> DEFINE next == [w EXCEPT !.pc = "urls"]
  <2>1. next \in ScopeOf
    BY <1>3 DEF ScopeOf
  <2>2. /\ working' = (working \ {w}) \cup {next} /\ store' = store /\ clears' = clears
        /\ refreshes' = refreshes /\ window' = window
    BY <1>5 DEF ClearScope, Step, views
  <2> HIDE DEF next
  <2> QED  BY <1>1, <1>4, <2>1, <2>2 DEF PoolInv
<1>6. CASE ClearUrl(w)
  <2>1. CASE \E s \in w.addresses :
               ClearMiss((working \ {w}) \cup {[w EXCEPT !.addresses = @ \ {s}]}, s)
    <3>1. PICK s \in w.addresses : ClearMiss((working \ {w}) \cup {[w EXCEPT !.addresses = @ \ {s}]}, s)
      BY <2>1
    <3> DEFINE next == [w EXCEPT !.addresses = @ \ {s}]
               V == (working \ {w}) \cup {next}
    <3>2. next \in ScopeOf /\ s \in Addresses
      BY <1>3 DEF ScopeOf
    <3>3. ClearMiss(V, s)
      BY <3>1
    <3> HIDE DEF next
    <3>4. Pool(store, V) /\ V \subseteq WorkOf
      BY <1>4, <3>2
    <3> HIDE DEF V
    <3> QED  BY <3>2, <3>3, <3>4, ClearMissPool
  <2>2. CASE working' = working \ {w} /\ UNCHANGED <<store, miss, views, clears>>
    <3>1. Fetching(working \ {w}) = Fetching(working)
      BY <1>2 DEF Fetching
    <3>2. Pool(store, working \ {w})
      BY <1>1, <3>1, OtherWorks
    <3> QED  BY <1>1, <2>2, <3>2 DEF PoolInv, views
  <2> QED  BY <1>6, <2>1, <2>2 DEF ClearUrl
<1> QED  BY <1>5, <1>6

LEMMA NextPoolInv == PoolInv /\ ClearInv /\ [Next]_vars => PoolInv'
<1>1. ASSUME PoolInv, ClearInv, Thread PROVE PoolInv'
  BY <1>1, TakePool, FetchPool, ScopePool DEF Thread
<1>2. ASSUME PoolInv, UNCHANGED vars PROVE PoolInv'
  BY <1>2 DEF PoolInv, vars, views
<1> QED  BY <1>1, <1>2, UserPool, StorePool DEF Next

-----------------------------------------------------------------------------
(* What the invariant means                                                  *)

\* The number of the members of a set that has no two.
LEMMA OneOrNone ==
    ASSUME NEW S, \A x, y \in S : x = y
    PROVE  Cardinality(S) = IF S = {} THEN 0 ELSE 1
<1>1. CASE S = {}
  BY <1>1, FS_EmptySet
<1>2. CASE S # {}
  <2>1. PICK x \in S : TRUE
    BY <1>2
  <2>2. S = {x}
    BY <2>1
  <2> QED  BY <1>2, <2>2, FS_Singleton
<1> QED  BY <1>1, <1>2

LEMMA InvAccounts == PoolInv /\ ClearInv => SlotsAccounted
<1> SUFFICES ASSUME PoolInv, ClearInv PROVE SlotsAccounted
  OBVIOUS
<1>1. /\ store \in Stores /\ Sized(store) /\ Alone(store) /\ OneEntry(store) /\ Spared(store)
      /\ Placed(store, working) /\ Settled(store) /\ clears \in [Addresses -> Nat]
  BY DEF PoolInv, Pool
<1>2. TypeOK
  <2>1. \A i \in DOMAIN store.queue : store.queue[i] \in JobOf
    BY <1>1, StoreFields
  <2>2. \A i \in Jobs(store) : store.active[i].old \in BOOLEAN /\ store.active[i].key \in Keys
    BY <1>1, StoreFields DEF RunningJob
  <2>3. \A i \in DOMAIN store.cache : /\ store.cache[i].key \in Keys
                                      /\ store.cache[i].result \in Outcomes
    BY <1>1, StoreFields DEF EntryOf
  <2>4. /\ store.newest \in Owners \cup {None} /\ store.retry \subseteq Addresses
        /\ store.requested \in (SUBSET Addresses) \cup {None}
    BY <1>1, StoreFields
  <2>5. \A s \in Addresses : miss[s] # None => miss[s].seen \in 0 .. clears[s]
    <3>1. ASSUME NEW s \in Addresses, miss[s] # None PROVE miss[s].seen \in 0 .. clears[s]
      <4>1. miss[s].seen = clears[s]
        BY <3>1 DEF ClearInv, Misses, Miss
      <4>2. clears[s] \in Nat
        BY <1>1
      <4> QED  BY <4>1, <4>2
    <3> QED  BY <3>1
  <2> QED  BY <1>1, <2>1, <2>2, <2>3, <2>4, <2>5 DEF TypeOK, Sized
<1>3. ASSUME NEW i \in Slots PROVE Places(i) = IF i \in Jobs(store) THEN 1 ELSE 0
  <2> DEFINE A == {k \in DOMAIN store.channel :
                     store.channel[k].op = "image" /\ store.channel[k].slot = i}
             B == {w \in working : w.pc \notin {"scope", "urls"} /\ w.slot = i}
             C == {a \in store.answers : a.slot = i}
  <2>1. Places(i) = Cardinality(A) + Cardinality(B) + Cardinality(C)
    BY DEF Places
  <2>2. (\A x, y \in A : x = y) /\ (A # {} <=> Sent(store, i))
    BY <1>1 DEF Placed, Images, Sent
  <2>3. (\A x, y \in B : x = y) /\ (B # {} <=> Worked(working, i))
    BY <1>1 DEF Placed, Fetching, Worked
  <2>4. (\A x, y \in C : x = y) /\ (C # {} <=> Answered(store, i))
    BY <1>1 DEF Placed, Answered
  <2> HIDE DEF A, B, C
  <2>5. Cardinality(A) = IF A = {} THEN 0 ELSE 1
    BY <2>2, OneOrNone
  <2>6. Cardinality(B) = IF B = {} THEN 0 ELSE 1
    BY <2>3, OneOrNone
  <2>7. Cardinality(C) = IF C = {} THEN 0 ELSE 1
    BY <2>4, OneOrNone
  <2>8. /\ i \in Jobs(store) <=> A # {} \/ B # {} \/ C # {}
        /\ ~(A # {} /\ B # {}) /\ ~(A # {} /\ C # {}) /\ ~(B # {} /\ C # {})
    BY <1>1, <2>2, <2>3, <2>4 DEF Placed
  <2> QED  BY <2>1, <2>5, <2>6, <2>7, <2>8
<1> QED  BY <1>1, <1>2, <1>3 DEF SlotsAccounted, Alone, OneEntry, Spared, Settled

\* The threads' slots are accounted for: a slot is taken exactly while one answer is
\* on its way, prefetch leaves the reserved ones free, no image is fetched or kept
\* twice, and nothing that could run waits.
THEOREM SlotsAlwaysAccounted == Spec => []SlotsAccounted
<1>1. Init => PoolInv /\ ClearInv
  BY InitPoolInv, InitClearInv
<1>2. (PoolInv /\ ClearInv) /\ [Next]_vars => (PoolInv /\ ClearInv)'
  BY NextPoolInv, NextClearInv
<1>3. PoolInv /\ ClearInv => SlotsAccounted
  BY InvAccounts
<1> QED  BY <1>1, <1>2, <1>3, PTL DEF Spec
=============================================================================
