------------------------------ MODULE Artwork ------------------------------
(* Artwork (crates/kinema-desktop/src/artwork.rs): the store on the UI thread *)
(* that views ask for images, the threads that fetch and decode them, and the *)
(* misses remembered on disk.                                                *)
(*                                                                           *)
(* A generation is only ever compared with its owner's current one, so a job  *)
(* carries whether its generation is over ("old"); a view always asks under   *)
(* the current one. A source is an address with its kind; misses, their       *)
(* leases and retries are per address, which two kinds share. Whether the     *)
(* disk, a download or a decode decides a fetch is left out: it brings back   *)
(* "ready", "gone" (definitively missing) or "failed" (transient).            *)
EXTENDS Integers, Sequences, FiniteSets

CONSTANTS
    Addresses,      \* of images
    Sources,        \* images views ask for
    Keys,           \* the variants of them that are asked for
    Grids,          \* what the grid may show: what is drawn, and its prefetch window
    Pages,          \* what a title page may draw
    Active,         \* 8 in the code: slots, and threads
    Reserved,       \* 2 in the code: slots kept for interactive work
    Queued,         \* 128 in the code
    Entries,        \* 256 in the code: results kept
    Remembered,     \* misses that an earlier process left on disk
    MaxMoves,       \* bound: openings, leavings, scrolls and refreshes
    MaxRefreshes,   \* bound: refreshes among them
    None

Owners == {"browse", "detail"}
Slots == 1 .. Active

\* Stills are left out.
Kinds == {"poster", "backdrop"}

ASSUME PoolAssumption ==
    /\ Active \in Nat \ {0} /\ Reserved \in 0 .. Active - 1
    /\ Queued \in Nat \ {0} /\ Entries \in Nat \ {0}
ASSUME ViewsAssumption ==
    /\ Keys \subseteq [source : Sources, blurred : BOOLEAN]
    /\ Sources \subseteq [address : Addresses, kind : Kinds]
    /\ Remembered \subseteq Addresses /\ Pages \subseteq SUBSET Keys
    /\ Grids \subseteq [drawn : SUBSET Keys, window : Seq(Keys)]
\* What a taken slot holds; None is none of it.
RunningJob == [owner : Owners, key : Keys, interactive : BOOLEAN, old : BOOLEAN]
ASSUME FreeAssumption == None \notin RunningJob
ASSUME BoundsAssumption == MaxMoves \in Nat /\ MaxRefreshes \in Nat

VARIABLES
    store,      \* ArtworkStore, with its channel to the threads and their replies
    working,    \* what each busy thread does
    miss,       \* the misses on disk: when they were seen, and the title's mark
    shown,      \* the keys each view draws when it is the route
    window,     \* the prefetch window of the grid
    moves,
    \* history
    refreshes,  \* refreshes so far
    clears      \* how often each address was cleared

views == <<shown, window, moves, refreshes>>
vars == <<store, working, miss, views, clears>>

-----------------------------------------------------------------------------
(* ArtworkStore                                                              *)

\* The element of a set of one. TLC evaluates Op(u) for u \in {t} on a value, and
\* Op(t) on the expression t wherever Op mentions it.
Only(S) == CHOOSE x \in S : TRUE

\* What is left of a sequence at some of its places, in order.
Keeping(seq, places) ==
    LET kept[i \in 0 .. Len(seq)] ==
            IF i = 0 THEN <<>>
            ELSE IF i \in places THEN Append(kept[i - 1], seq[i]) ELSE kept[i - 1]
    IN  kept[Len(seq)]

Without(seq, i) == Keeping(seq, DOMAIN seq \ {i})

Ready == [is |-> "ready", seen |-> 0]
Failure == [is |-> "failed", seen |-> 0]
CachedMiss(seen) == [is |-> "missed", seen |-> seen]

Entry(s, key) == {i \in DOMAIN s.cache : s.cache[i].key = key}
Cached(s, key) == Entry(s, key) # {}

\* A lookup makes the entry the most recently used.
Touched(s, key) ==
    IF ~Cached(s, key) THEN s
    ELSE LET i == CHOOSE i \in Entry(s, key) : TRUE
         IN  [s EXCEPT !.cache = Append(Without(@, i), @[i])]

\* advance_generation: queued work goes, running work keeps its slot, failures may
\* be tried again.
Advanced(s, owner) ==
    [s EXCEPT !.queue = Keeping(@, {i \in DOMAIN @ : @[i].owner # owner}),
              !.active = [i \in Slots |-> IF @[i] # None /\ @[i].owner = owner
                                          THEN [@[i] EXCEPT !.old = TRUE] ELSE @[i]],
              !.requested = IF owner = "detail" THEN None ELSE @,
              !.cache = Keeping(@, {i \in DOMAIN @ : @[i].result = Ready}),
              !.newest = owner]

\* begin_title_generation
Titled(s) == [Advanced(s, "detail") EXCEPT !.requested = {}]

Jobs(s) == {i \in Slots : s.active[i] # None}
Running(s, owner, key) ==
    \E i \in Jobs(s) : /\ s.active[i].key = key /\ s.active[i].owner = owner
                       /\ ~s.active[i].old
Waiting(s, owner, key) ==
    {i \in DOMAIN s.queue : s.queue[i].key = key /\ s.queue[i].owner = owner}

\* Jobs that give way to a new one when the queue is full.
Victims(s, owner, interactive) ==
    {i \in DOMAIN s.queue :
        /\ ~s.queue[i].interactive
        /\ interactive \/ (s.newest = owner /\ s.queue[i].owner # owner)}

Least(S) == CHOOSE i \in S : \A j \in S : i <= j

\* The queue with room for one more, if it can be had.
MadeRoom(s, owner, interactive) ==
    LET victims == Victims(s, owner, interactive)
    IN  IF Len(s.queue) < Queued THEN s.queue
        ELSE IF victims # {} THEN Without(s.queue, Least(victims))
        ELSE IF interactive THEN Tail(s.queue)
        ELSE s.queue

\* enqueue_with_priority
Enqueued(s, owner, key, interactive) ==
    LET room == MadeRoom(s, owner, interactive)
    IN  IF Cached(s, key) \/ Running(s, owner, key) THEN s
        ELSE IF Waiting(s, owner, key) # {}
        THEN [s EXCEPT !.queue[Least(Waiting(s, owner, key))].interactive = @ \/ interactive]
        ELSE IF Len(room) >= Queued THEN s
        ELSE [s EXCEPT !.queue = Append(room, [owner |-> owner, key |-> key,
                                               interactive |-> interactive]),
                       !.requested = IF owner = "detail" /\ @ # None
                                     THEN @ \cup {key.source.address} ELSE @]

\* replace_window: what the grid asked for in passing is replaced.
Emptied(s) ==
    [s EXCEPT !.queue = Keeping(@, {i \in DOMAIN @ : @[i].owner # "browse" \/ @[i].interactive})]

Rewindowed(s, keys) ==
    LET last == IF Len(keys) < Queued THEN Len(keys) ELSE Queued
        filled[i \in 0 .. last] ==
            IF i = 0 THEN Emptied(s)
            ELSE Only({Enqueued(t, "browse", keys[i], FALSE) : t \in {filled[i - 1]}})
    IN  filled[last]

Prefetching(s) == {i \in Jobs(s) : ~s.active[i].interactive}

\* Its source is not being fetched already.
Untouched(s, key) == \A i \in Jobs(s) : s.active[i].key.source # key.source

\* Mutant: prefetch may take every slot.
StartableUnreserved(s) ==
    {i \in DOMAIN s.queue : Untouched(s, s.queue[i].key)}

Startable(s) ==
    {i \in DOMAIN s.queue :
        /\ s.queue[i].interactive \/ Cardinality(Prefetching(s)) < Active - Reserved
        /\ Untouched(s, s.queue[i].key)}

Rank(s, i) ==
    LET job == s.queue[i]
    IN  (IF job.interactive THEN 4 ELSE 0) + (IF job.owner = s.newest THEN 2 ELSE 0)
        + (IF job.key.blurred \/ job.key.source.kind = "backdrop" THEN 1 ELSE 0)

\* Interactive work first, then the newest owner's, then heroes, then the oldest.
Precedes(s, i, j) == Rank(s, i) > Rank(s, j) \/ (Rank(s, i) = Rank(s, j) /\ i <= j)
Best(s) == UNION {{i \in S : \A j \in S : Precedes(s, i, j)} : S \in {Startable(s)}}

\* What becomes of a job that has its slot: a cached source is passed on, a retry
\* is spent, and a full channel is a transient failure.
Submitted(s, slot, job) ==
    LET source == [job.key EXCEPT !.blurred = FALSE]
        address == job.key.source.address
        known == job.key.blurred /\ Cached(s, source)
        t == IF known THEN Touched(s, source) ELSE s
        command ==
            [op |-> "image", slot |-> slot, address |-> address,
             clear |-> address \in s.retry,
             scoped |-> job.owner = "detail" /\ s.requested # None,
             known |-> IF known THEN s.cache[CHOOSE i \in Entry(s, source) : TRUE].result
                       ELSE None]
    IN  IF Len(s.channel) <= Active
        THEN [t EXCEPT !.retry = @ \ {address}, !.channel = Append(@, command)]
        ELSE [t EXCEPT !.retry = @ \ {address},
                       !.answers = @ \cup {[slot |-> slot, result |-> Failure]}]

\* start_next, and what pump does with the job
Started(s, i) ==
    LET slot == Least(Slots \ Jobs(s))
        job == s.queue[i]
    IN  Only({Submitted(t, slot, job) :
                t \in {[s EXCEPT !.queue = Without(@, i),
                                 !.active[slot] = [owner |-> job.owner, key |-> job.key,
                                                   interactive |-> job.interactive,
                                                   old |-> FALSE]]}})

\* What is cached need not be fetched any more.
Wanted(s) == [s EXCEPT !.queue = Keeping(@, {i \in DOMAIN @ : ~Cached(s, @[i].key)})]

\* pump: until no slot or no job is left
Refilled(s) ==
    IF Jobs(s) = Slots THEN s
    ELSE Only({t \in {Wanted(s)} : Best(t) = {}}
              \cup UNION {{Started(t, i) : i \in Best(t)} : t \in {Wanted(s)}})
Pumped(s) ==
    LET filled[i \in 0 .. Active] ==
            IF i = 0 THEN s ELSE Only({Refilled(t) : t \in {filled[i - 1]}})
    IN  filled[Active]

\* trim_images, for the number of entries
Trimmed(s) ==
    IF Len(s.cache) > Entries
    THEN [s EXCEPT !.cache = SubSeq(@, Len(@) - Entries + 1, Len(@))] ELSE s

-----------------------------------------------------------------------------
Init ==
    /\ store = [queue |-> <<>>, active |-> [i \in Slots |-> None], cache |-> <<>>,
                newest |-> None, requested |-> None, retry |-> {}, channel |-> <<>>,
                answers |-> {}]
    /\ working = {}
    /\ miss = [u \in Addresses |-> IF u \in Remembered THEN [seen |-> 0, marked |-> TRUE] ELSE None]
    /\ shown = [o \in Owners |-> {}] /\ window = <<>> /\ moves = 0
    /\ refreshes = 0 /\ clears = [u \in Addresses |-> 0]

-----------------------------------------------------------------------------
(* Views                                                                     *)

threads == <<working, miss, clears>>

Move == moves < MaxMoves /\ moves' = moves + 1

\* A title page is the route, and only the route is rendered.
Open == store.requested # None
Shows(o, key) == key \in shown[o] /\ (o = "detail") = Open

Grid(grid) ==
    /\ ~Open /\ Move
    /\ shown' = [shown EXCEPT !["browse"] = grid.drawn] /\ window' = grid.window
    /\ UNCHANGED <<threads, refreshes>>

\* The grid shows another subject, or another part of the same.
NewSubject(grid) == Grid(grid) /\ store' = Advanced(store, "browse")
Scroll(grid) == window # <<>> /\ Grid(grid) /\ UNCHANGED store

\* A title page opens, from the grid or in the place of another.
OpenDetail(page) ==
    /\ Move /\ shown' = [shown EXCEPT !["detail"] = page]
    /\ store' = Titled(store)
    /\ UNCHANGED <<threads, window, refreshes>>

LeaveDetail ==
    /\ Open /\ Move
    /\ shown' = [shown EXCEPT !["detail"] = {}]
    /\ store' = Advanced(store, "detail")
    /\ UNCHANGED <<threads, window, refreshes>>

\* refresh_misses
MissesCleared(s) ==
    [s EXCEPT !.retry = s.requested,
              !.channel = IF Len(@) <= Active
                          THEN Append(@, [op |-> "clear", id |-> refreshes, addresses |-> s.requested])
                          ELSE @]

\* The user refreshes the title page.
Refresh ==
    /\ Open /\ Move /\ refreshes < MaxRefreshes
    /\ refreshes' = refreshes + 1
    /\ store' = Titled(MissesCleared(store))
    /\ UNCHANGED <<threads, shown, window>>

\* lookup_or_request, backdrop_or_request: a view draws one of its images.
Draw(o, key) ==
    /\ Shows(o, key) /\ UNCHANGED <<threads, views>>
    /\ store' = IF Cached(store, key) THEN Touched(store, key)
                ELSE Only({Pumped(s) : s \in {Enqueued(store, o, key, TRUE)}})

\* request_window, from the render of the grid
DrawWindow ==
    /\ ~Open
    /\ \E s \in {Rewindowed(store, window)} : store' = Pumped(s)
    /\ UNCHANGED <<threads, views>>

\* Mutant: an answer of an old generation is dropped before its slot is freed.
FreedCurrent(s, a) ==
    IF s.active[a.slot].old THEN [s EXCEPT !.answers = @ \ {a}]
    ELSE [s EXCEPT !.active[a.slot] = None, !.answers = @ \ {a}]

Freed(s, a) == [s EXCEPT !.active[a.slot] = None, !.answers = @ \ {a}]

\* complete: the slot is free, a result of the current generation is kept.
Completed(s, a) ==
    LET job == s.active[a.slot]
    IN  IF job.old THEN Freed(s, a)
        ELSE Trimmed([Freed(s, a) EXCEPT !.cache =
                        Append(@, [key |-> job.key, result |-> a.result])])

\* A reply is taken.
Complete ==
    /\ UNCHANGED <<threads, views>>
    /\ \E a \in store.answers : \E s \in {Completed(store, a)} : store' = Pumped(s)

-----------------------------------------------------------------------------
(* The threads                                                               *)

\* A clear revokes the leases of the fetches under way.
Revoked(works, address) ==
    {IF w.pc \in {"find", "fetch", "write"} /\ w.address = address
     THEN [w EXCEPT !.revoked = TRUE] ELSE w : w \in works}

\* Mutant: only the file is removed.
ClearMissFile(works, address) ==
    /\ working' = works
    /\ miss' = [miss EXCEPT ![address] = None]
    /\ clears' = [clears EXCEPT ![address] = @ + 1]
    /\ UNCHANGED <<store, views>>

\* clear_miss, one holding of the disk lock
ClearMiss(works, address) ==
    /\ working' = Revoked(works, address)
    /\ miss' = [miss EXCEPT ![address] = None]
    /\ clears' = [clears EXCEPT ![address] = @ + 1]
    /\ UNCHANGED <<store, views>>

Step(w, next) == working' = (working \ {w}) \cup {next}

\* The reply is sent and the thread is free.
Reply(w, result) ==
    /\ working' = working \ {w}
    /\ store' = [store EXCEPT !.answers = @ \cup {[slot |-> w.slot, result |-> result]}]

Take ==
    /\ store.channel # <<>> /\ Cardinality(working) < Active
    /\ LET c == Head(store.channel)
       IN  /\ store' = [store EXCEPT !.channel = Tail(@)]
           /\ working' = working \cup
                {IF c.op = "clear"
                 THEN [pc |-> "scope", id |-> c.id, addresses |-> c.addresses]
                 ELSE [pc |-> IF c.known # None THEN "derive"
                              ELSE IF c.clear THEN "clear" ELSE "lease",
                       slot |-> c.slot, address |-> c.address, scoped |-> c.scoped,
                       result |-> c.known, seen |-> 0, revoked |-> FALSE]}
    /\ UNCHANGED <<miss, views, clears>>

\* The variant of a source that is known, or its failure.
Derive(w) ==
    /\ w.pc = "derive"
    /\ \E result \in {w.result} \cup (IF w.result = Ready THEN {Failure} ELSE {}) : Reply(w, result)
    /\ UNCHANGED <<miss, views, clears>>

\* clear_scope: every miss that carries the title's mark.
ClearScope(w) ==
    /\ w.pc = "scope" /\ Step(w, [w EXCEPT !.pc = "urls"])
    /\ miss' = [u \in Addresses |-> IF miss[u] # None /\ miss[u].marked THEN None ELSE miss[u]]
    /\ UNCHANGED <<store, views, clears>>

ClearUrl(w) ==
    /\ w.pc = "urls"
    /\ \/ \E u \in w.addresses :
            ClearMiss((working \ {w}) \cup {[w EXCEPT !.addresses = @ \ {u}]}, u)
       \/ /\ w.addresses = {} /\ working' = working \ {w}
          /\ UNCHANGED <<store, miss, views, clears>>

\* fetch_cached begins with the clearing it was told to do.
ClearOwn(w) ==
    /\ w.pc = "clear"
    /\ ClearMiss((working \ {w}) \cup {[w EXCEPT !.pc = "lease"]}, w.address)

\* miss_lease. The fetches of one address may share a lease: a clear takes it out
\* of the leases when it revokes it, so one that is found there is not revoked.
Lease(w) ==
    /\ w.pc = "lease" /\ Step(w, [w EXCEPT !.pc = "find"])
    /\ UNCHANGED <<store, miss, views, clears>>

\* miss_expiry: a remembered miss answers the fetch.
Find(w) ==
    /\ w.pc = "find"
    /\ IF miss[w.address] # None
       THEN Step(w, [w EXCEPT !.pc = "mark", !.result = CachedMiss(miss[w.address].seen)])
       ELSE Step(w, [w EXCEPT !.pc = "fetch", !.seen = clears[w.address]])
    /\ UNCHANGED <<store, miss, views, clears>>

Fetch(w) ==
    /\ w.pc = "fetch"
    /\ \/ \E result \in {Ready, Failure} : Reply(w, result)
       \/ Step(w, [w EXCEPT !.pc = "write", !.result = CachedMiss(w.seen)]) /\ UNCHANGED store
    /\ UNCHANGED <<miss, views, clears>>

\* write_miss, unless the lease was revoked.
WriteMiss(w) ==
    /\ w.pc = "write" /\ Step(w, [w EXCEPT !.pc = "mark"])
    /\ miss' = IF w.revoked THEN miss
               ELSE [miss EXCEPT ![w.address] = [seen |-> w.seen, marked |-> FALSE]]
    /\ UNCHANGED <<store, views, clears>>

\* associate_scope
Mark(w) ==
    /\ w.pc = "mark" /\ Reply(w, w.result)
    /\ miss' = IF w.scoped /\ miss[w.address] # None
               THEN [miss EXCEPT ![w.address].marked = TRUE] ELSE miss
    /\ UNCHANGED <<views, clears>>

-----------------------------------------------------------------------------
Thread ==
    \/ Take
    \/ \E w \in working :
         Derive(w) \/ ClearScope(w) \/ ClearUrl(w) \/ ClearOwn(w) \/ Lease(w)
           \/ Find(w) \/ Fetch(w) \/ WriteMiss(w) \/ Mark(w)

User ==
    \/ \E grid \in Grids : NewSubject(grid) \/ Scroll(grid)
    \/ (\E page \in Pages : OpenDetail(page)) \/ LeaveDetail \/ Refresh

\* What some view may draw.
Drawable == ({"browse"} \X UNION {grid.drawn : grid \in Grids}) \cup ({"detail"} \X UNION Pages)

Next ==
    \/ User \/ DrawWindow \/ Complete \/ Thread
    \/ \E d \in Drawable : Draw(d[1], d[2])

Spec == Init /\ [][Next]_vars

\* Threads run and downloads end by their timeouts, replies are taken, and what is
\* shown is drawn again; users need not act.
Fairness ==
    /\ WF_vars(Thread) /\ WF_vars(Complete)
    /\ \A d \in Drawable : WF_vars(~Cached(store, d[2]) /\ Draw(d[1], d[2]))

FairSpec == Spec /\ Fairness

-----------------------------------------------------------------------------
(* Properties                                                                *)

Outcomes == {Ready, Failure} \cup [is : {"missed"}, seen : Nat]
JobOf == [owner : Owners, key : Keys, interactive : BOOLEAN]

\* Every variable ranges over the values its Rust counterpart can hold.
TypeOK ==
    /\ \A i \in DOMAIN store.queue : store.queue[i] \in JobOf
    /\ Len(store.queue) <= Queued
    /\ \A i \in Jobs(store) : /\ store.active[i].old \in BOOLEAN
                              /\ store.active[i].key \in Keys
    /\ \A i \in DOMAIN store.cache : /\ store.cache[i].key \in Keys
                                     /\ store.cache[i].result \in Outcomes
    /\ Len(store.cache) <= Entries /\ Len(store.channel) <= Active + 1
    /\ store.newest \in Owners \cup {None} /\ store.retry \subseteq Addresses
    /\ store.requested \in (SUBSET Addresses) \cup {None}
    /\ \A u \in Addresses : miss[u] # None => miss[u].seen \in 0 .. clears[u]

Places(slot) ==
    Cardinality({i \in DOMAIN store.channel :
                    store.channel[i].op = "image" /\ store.channel[i].slot = slot})
    + Cardinality({w \in working : w.pc \notin {"scope", "urls"} /\ w.slot = slot})
    + Cardinality({a \in store.answers : a.slot = slot})

\* A slot is taken exactly while one answer is on its way, and no image is fetched
\* or kept twice. Prefetch leaves the reserved slots free whatever generations
\* ended meanwhile; an interactive request waits only for its own source or for
\* slots of which the reserved number does interactive work; and nothing waits
\* while nothing runs, since only an answer starts what waits.
SlotsAccounted ==
    /\ TypeOK
    /\ \A i \in Slots : Places(i) = (IF i \in Jobs(store) THEN 1 ELSE 0)
    /\ \A i, j \in Jobs(store) : i # j => store.active[i].key.source # store.active[j].key.source
    /\ \A i, j \in DOMAIN store.cache : i # j => store.cache[i].key # store.cache[j].key
    /\ Cardinality(Prefetching(store)) <= Active - Reserved
    /\ \A i \in DOMAIN store.queue :
         store.queue[i].interactive /\ Untouched(store, store.queue[i].key)
            => /\ Jobs(store) = Slots
               /\ Cardinality(Jobs(store) \ Prefetching(store)) >= Reserved
    /\ store.queue # <<>> => Jobs(store) # {}

\* An address that clear_miss cleared stays cleared: a fetch that began before and
\* learns only afterwards that the image is missing does not bring the miss back,
\* however it was queued, of whichever kind it is and whichever page it was for.
\* What clear_scope removes by the title's mark is not counted as cleared: it
\* revokes no lease, and a fetch under way may write that miss again.
ClearedStaysCleared == \A u \in Addresses : miss[u] # None => miss[u].seen = clears[u]

\* What a view goes on showing is answered, with pixels or a failure, through full
\* queues, other views' work and generations that ended.
ImagesSettle ==
    \A d \in Drawable :
        Shows(d[1], d[2]) ~> (Cached(store, d[2]) \/ ~Shows(d[1], d[2]))
=============================================================================
