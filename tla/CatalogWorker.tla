---------------------------- MODULE CatalogWorker ----------------------------
(* The catalog worker (crates/kinema-desktop/src/catalog_worker.rs): the one *)
(* owner of the database, its fetch threads, and the mailboxes through which *)
(* the UI thread asks and is answered.                                       *)
(*                                                                           *)
(* Every submission carries a fresh generation, so a generation names the    *)
(* request, the work it becomes and the cancellation flag that work shares   *)
(* (the Arc<AtomicBool> that finish_work compares by pointer). Queries are   *)
(* left out: whether a submission asks what the pending one asks is free. So *)
(* are values: a result is what the worker says next, "more" (a cache hit or *)
(* miss, the remote answer follows) or "final".                              *)
EXTENDS Integers, Sequences, FiniteSets

CONSTANTS
    Searches,       \* search slots: one per media kind
    Slots,          \* all slots, searches first: 22 in the code
    FetchThreads,   \* 4 in the code
    LocalCapacity,  \* 64 in the code
    LocalBurst,     \* 4 in the code
    EventsPerKind,  \* 2 in the code
    MaxGeneration,  \* bound: submissions of each slot
    MaxLocal,       \* bound: local submissions
    MaxPanics       \* bound: panics of the owner or of a fetch

ASSUME SlotsAssumption ==
    /\ Slots \in Nat \ {0} /\ Searches \in 0..Slots
    /\ FetchThreads \in Nat \ {0} /\ LocalCapacity \in Nat \ {0}
    /\ LocalBurst \in Nat \ {0} /\ EventsPerKind \in Nat \ {0}
ASSUME BoundsAssumption ==
    MaxGeneration \in [1..Slots -> Nat] /\ MaxLocal \in Nat /\ MaxPanics \in Nat

VARIABLES
    pending,        \* MailState.slots and .metadata: the queued request of each slot
    active,         \* .active_search and .active: the generation at work, 0 for none
    cancelled,      \* generations of each slot whose flag is set
    next,           \* .next: the slot served first
    local,          \* .local: accepted local requests
    localEvents,    \* .local_events: the requests answered and not yet read
    outstanding,    \* .local_outstanding
    burst,          \* .local_burst
    completed,      \* .completed: fetched, not persisted
    closed,         \* .closed
    events,         \* EventBox and MetadataEventBox: the queue of each slot
    pc,             \* what the owner's thread does next
    work,           \* the work it holds
    request,        \* the local request it holds, 0 for none
    opened,         \* backend.is_some()
    inFlight,       \* in_flight
    jobs,           \* the channel to the fetch threads
    running,        \* jobs the fetch threads run
    idle,           \* fetch threads waiting for a job
    started,        \* started_threads
    purging,        \* the slot whose cancellation the UI thread is in, 0 for none
    dropped,        \* the UI dropped the worker
    asked,          \* the coordinator's last request of each slot
    panics,
    accepted,       \* history: local requests accepted so far; each is its number
    acknowledged,   \* history: local answers read so far
    bypassed,       \* history: works of other slots taken while a slot was pending
    yielded         \* history: local requests taken in a row while others waited

mail == <<pending, active, cancelled, next>>
locals == <<local, localEvents, outstanding, request, accepted, acknowledged>>
fetches == <<inFlight, jobs, running, idle, started, completed>>
owner == <<pc, work, opened>>
screen == <<purging, dropped, asked>>
turns == <<burst, bypassed, yielded>>
vars == <<mail, locals, fetches, owner, screen, turns, events, closed, panics>>

-----------------------------------------------------------------------------
Slot == 1..Slots
IsSearch(s) == s <= Searches

NoRequest == [gen |-> 0, refresh |-> FALSE]
NoWork == [slot |-> 1, gen |-> 0, refresh |-> FALSE]
Pending(s) == pending[s] # NoRequest

Discards == closed \/ work.gen \in cancelled[work.slot]

\* The UI thread is between two calls.
Responsive == purging = 0 /\ ~dropped

\* Only the owner waits on the condition variable.
Notified == IF pc = "parked" THEN "next" ELSE pc

\* Whatever is at work in the slot is told to stop.
Superseded(s) == cancelled[s] \cup ({active[s]} \ {0})

\* Mutant: a coalesced request is answered to the one it joins.
JoinedAsBefore(s, g, refresh) == [gen |-> pending[s].gen, refresh |-> pending[s].refresh \/ refresh]

\* A request for what is already queued takes its place and the stronger mode.
Joined(s, g, refresh) == [gen |-> g, refresh |-> pending[s].refresh \/ refresh]

\* EventBox::push: another generation clears the queue, a full one loses its oldest.
Pushed(s, g, outcome) ==
    LET kept == IF events[s] # <<>> /\ events[s][Len(events[s])].gen # g
                THEN <<>> ELSE events[s]
    IN  Append(IF Len(kept) = EventsPerKind THEN Tail(kept) ELSE kept,
               [gen |-> g, outcome |-> outcome])

Init ==
    /\ pending = [s \in Slot |-> NoRequest] /\ active = [s \in Slot |-> 0]
    /\ cancelled = [s \in Slot |-> {}] /\ next = 1
    /\ local = <<>> /\ localEvents = <<>> /\ outstanding = 0 /\ request = 0
    /\ accepted = 0 /\ acknowledged = 0
    /\ completed = <<>> /\ jobs = <<>> /\ running = {} /\ inFlight = 0
    /\ started \in 0..FetchThreads /\ idle = started
    /\ pc = "next" /\ work = NoWork /\ opened = FALSE
    /\ purging = 0 /\ dropped = FALSE
    /\ asked = [s \in Slot |-> [gen |-> 0, waiting |-> FALSE]]
    /\ burst = 0 /\ bypassed = [s \in Slot |-> 0] /\ yielded = 0
    /\ events = [s \in Slot |-> <<>>] /\ closed = FALSE /\ panics = 0

-----------------------------------------------------------------------------
(* The UI thread: the coordinator and the public methods it calls             *)

\* Mailbox::submit and submit_metadata.
Submit(s, joins, refresh) ==
    LET g == asked[s].gen + 1 IN
    /\ Responsive /\ ~closed /\ g <= MaxGeneration[s]
    /\ joins => Pending(s)
    /\ cancelled' = [cancelled EXCEPT ![s] = Superseded(s)]
    /\ pending' = [pending EXCEPT ![s] =
                     IF joins THEN Joined(s, g, refresh) ELSE [gen |-> g, refresh |-> refresh]]
    /\ asked' = [asked EXCEPT ![s] = [gen |-> g, waiting |-> TRUE]]
    /\ pc' = Notified
    /\ UNCHANGED <<active, next, locals, fetches, work, opened, purging, dropped, turns,
                   events, closed, panics>>

\* Mailbox::cancel_search and cancel_metadata: the first half of a cancellation.
\* Cancelling what was finally answered changes nothing that is read again.
CancelAsked(s) ==
    LET g == asked[s].gen IN
    /\ Responsive /\ asked[s].waiting
    /\ pending' = [pending EXCEPT ![s] = IF @.gen = g THEN NoRequest ELSE @]
    /\ bypassed' = [bypassed EXCEPT ![s] = IF pending[s].gen = g THEN 0 ELSE @]
    /\ cancelled' = [cancelled EXCEPT ![s] = IF active[s] = g THEN @ \cup {g} ELSE @]
    /\ asked' = [asked EXCEPT ![s].waiting = FALSE]
    /\ purging' = s
    /\ UNCHANGED <<active, next, locals, fetches, owner, dropped, burst, yielded, events,
                   closed, panics>>

\* The events of other generations than g, in their order.
Retained(queue, g) ==
    LET kept == {k \in DOMAIN queue : queue[k].gen # g}
        rank(k) == Cardinality({j \in kept : j <= k})
    IN  [n \in 1..Cardinality(kept) |-> queue[CHOOSE k \in kept : rank(k) = n]]

\* The second half, in CatalogWorker: the answers already queued go.
PurgeAsked ==
    /\ purging # 0
    /\ events' = [events EXCEPT ![purging] = Retained(@, asked[purging].gen)]
    /\ purging' = 0
    /\ UNCHANGED <<mail, locals, fetches, owner, dropped, asked, turns, closed, panics>>

\* poll and poll_metadata; the coordinator ignores answers of other generations.
PollEvent(s) ==
    /\ Responsive /\ events[s] # <<>>
    /\ \A t \in Slot : t < s /\ IsSearch(t) = IsSearch(s) => events[t] = <<>>
    /\ LET e == Head(events[s]) IN
       asked' = [asked EXCEPT ![s].waiting =
                   @ /\ ~(e.gen = asked[s].gen /\ e.outcome = "final")]
    /\ events' = [events EXCEPT ![s] = Tail(@)]
    /\ UNCHANGED <<mail, locals, fetches, owner, purging, dropped, turns, closed, panics>>

\* Mailbox::submit_local: unread answers count as well.
SubmitLocal ==
    /\ Responsive /\ ~closed /\ outstanding < LocalCapacity /\ accepted < MaxLocal
    /\ accepted' = accepted + 1
    /\ outstanding' = outstanding + 1
    /\ local' = Append(local, accepted')
    /\ pc' = Notified
    /\ UNCHANGED <<mail, localEvents, request, acknowledged, fetches, work, opened, screen,
                   turns, events, closed, panics>>

PollLocal ==
    /\ Responsive /\ localEvents # <<>>
    /\ localEvents' = Tail(localEvents)
    /\ outstanding' = outstanding - 1
    /\ acknowledged' = acknowledged + 1
    /\ UNCHANGED <<mail, local, request, accepted, fetches, owner, screen, turns, events,
                   closed, panics>>

\* Mutant: closing clears this queue like the others.
LocalsCleared == <<>>

LocalsKept == local

\* Mailbox::close. Accepted local requests stay.
Close ==
    /\ closed' = TRUE
    /\ pending' = [s \in Slot |-> NoRequest]
    /\ completed' = <<>>
    /\ cancelled' = [s \in Slot |-> Superseded(s)]
    /\ local' = LocalsKept
    /\ bypassed' = [s \in Slot |-> 0]
    /\ UNCHANGED <<active, next, localEvents, outstanding, request, accepted, acknowledged,
                   work, opened, jobs, inFlight, started, asked, burst, yielded, events>>

\* Drop for CatalogWorker. What it purges nobody can read any more.
Drop ==
    /\ Responsive /\ dropped' = TRUE
    /\ Close /\ pc' = Notified
    /\ UNCHANGED <<purging, running, idle, panics>>

-----------------------------------------------------------------------------
(* Mailbox::next: the owner takes its next step, in this order of preference *)

Admits == inFlight < FetchThreads

LocalFirst == local # <<>> /\ burst < LocalBurst

Distance(s) == ((s - next) + Slots) % Slots
Turn(s) == Pending(s) /\ \A t \in Slot : Pending(t) => Distance(s) <= Distance(t)

Waiting == completed # <<>> \/ (Admits /\ \E s \in Slot : Pending(s))

\* Mutant: the turn does not move on.
SameTurn(s) == next

NextTurn(s) == (s % Slots) + 1

TakeLocal ==
    /\ pc = "next" /\ local # <<>>
    /\ closed \/ LocalFirst \/ ~Waiting
    /\ request' = Head(local) /\ local' = Tail(local)
    /\ burst' = IF closed THEN burst ELSE IF LocalFirst THEN burst + 1 ELSE 1
    /\ yielded' = IF Waiting THEN yielded + 1 ELSE 0
    /\ pc' = "local"
    /\ UNCHANGED <<mail, localEvents, outstanding, accepted, acknowledged, fetches, work,
                   opened, screen, bypassed, events, closed, panics>>

TakeCompleted ==
    /\ pc = "next" /\ ~closed /\ ~LocalFirst /\ completed # <<>>
    /\ work' = Head(completed) /\ completed' = Tail(completed)
    /\ inFlight' = inFlight - 1
    /\ burst' = 0 /\ yielded' = 0
    /\ pc' = "check"
    /\ UNCHANGED <<mail, locals, jobs, running, idle, started, opened, screen, bypassed,
                   events, closed, panics>>

\* The request becomes active before the lock is released.
TakeWork(s) ==
    /\ pc = "next" /\ ~closed /\ ~LocalFirst /\ completed = <<>> /\ Admits /\ Turn(s)
    /\ work' = [slot |-> s, gen |-> pending[s].gen, refresh |-> pending[s].refresh]
    /\ pending' = [pending EXCEPT ![s] = NoRequest]
    /\ active' = [active EXCEPT ![s] = pending[s].gen]
    /\ next' = NextTurn(s)
    /\ burst' = 0 /\ yielded' = 0
    /\ bypassed' = [t \in Slot |-> IF t # s /\ Pending(t) THEN bypassed[t] + 1 ELSE 0]
    /\ pc' = "read"
    /\ UNCHANGED <<cancelled, locals, fetches, opened, screen, events, closed, panics>>

Park ==
    /\ pc = "next" /\ ~closed /\ local = <<>> /\ ~Waiting
    /\ pc' = "parked"
    /\ UNCHANGED <<mail, locals, fetches, work, opened, screen, turns, events, closed, panics>>

\* Once closed, local requests are drained before the thread ends.
Exit ==
    /\ pc = "next" /\ closed /\ local = <<>>
    /\ pc' = "exited"
    /\ UNCHANGED <<mail, locals, fetches, work, opened, screen, turns, events, closed, panics>>

-----------------------------------------------------------------------------
(* run: local work                                                           *)

\* The backend is opened on demand; a refusal is an answer as well.
ExecuteLocal ==
    /\ pc = "local" /\ pc' = "next"
    /\ opened' \in {opened, TRUE}
    /\ localEvents' = Append(localEvents, request)
    /\ request' = 0
    /\ UNCHANGED <<mail, local, outstanding, accepted, acknowledged, fetches, work, screen,
                   turns, events, closed, panics>>

-----------------------------------------------------------------------------
(* run: a request, from the cache to the fetch threads                       *)

Goes(from, to) == pc = from /\ pc' = to

OpenBackend ==
    /\ ~opened /\ \/ Goes("read", "read") /\ opened' = TRUE
                  \/ Goes("read", "answer") /\ opened' = FALSE
    /\ UNCHANGED <<mail, locals, fetches, work, screen, turns, events, closed, panics>>

\* read_before_fetch: found is a saved snapshot, none, or an error; saved metadata
\* may ask for a refresh of its own. Only a search is told of a miss.
ReadCache(found, refreshing) ==
    /\ pc = "read" /\ opened
    /\ work.refresh => refreshing
    /\ refreshing => work.refresh \/ (found = "hit" /\ ~IsSearch(work.slot))
    /\ pc' = IF Discards THEN "finish"
             ELSE IF found = "hit" /\ ~refreshing THEN "finish"
             ELSE IF found = "error" /\ ~refreshing THEN "answer"
             ELSE "prepare"
    /\ events' =
         IF Discards \/ pc' = "answer" \/ (found # "hit" /\ ~IsSearch(work.slot)) THEN events
         ELSE [events EXCEPT ![work.slot] =
                 Pushed(work.slot, work.gen, IF pc' = "finish" THEN "final" ELSE "more")]
    /\ UNCHANGED <<mail, locals, fetches, work, opened, screen, turns, closed, panics>>

\* No fetch thread started, or the request cannot be prepared.
CannotFetch ==
    /\ Goes("prepare", "answer")
    /\ UNCHANGED <<mail, locals, fetches, work, opened, screen, turns, events, closed, panics>>

\* The send blocks the owner while the channel is full. The mode has served.
Dispatch ==
    /\ Goes("prepare", "next") /\ started > 0 /\ Len(jobs) < FetchThreads
    /\ inFlight' = inFlight + 1
    /\ jobs' = Append(jobs, [work EXCEPT !.refresh = FALSE]) /\ work' = NoWork
    /\ UNCHANGED <<mail, locals, running, idle, started, completed, opened, screen, turns,
                   events, closed, panics>>

-----------------------------------------------------------------------------
(* run: a completed fetch, and the end of a request                          *)

CheckCompleted ==
    /\ Goes("check", IF Discards THEN "finish" ELSE "persist")
    /\ UNCHANGED <<mail, locals, fetches, work, opened, screen, turns, events, closed, panics>>

\* The fetch or the write may have failed; every result is an answer.
Persist ==
    /\ Goes("persist", "answer")
    /\ UNCHANGED <<mail, locals, fetches, work, opened, screen, turns, events, closed, panics>>

\* Mutant: only a closed mailbox silences the worker.
SilentWhenClosed == closed

Silent == Discards

\* send_terminal: the flag is read and the event pushed under the mailbox lock.
SendTerminal ==
    /\ Goes("answer", "finish")
    /\ events' = IF Silent THEN events
                 ELSE [events EXCEPT ![work.slot] = Pushed(work.slot, work.gen, "final")]
    /\ UNCHANGED <<mail, locals, fetches, work, opened, screen, turns, closed, panics>>

\* Mutant: whatever is active in the slot ends with this work.
FinishedBlindly(s) == 0

\* The active entry goes only if it is this work's own.
Finished(s) == IF active[s] = work.gen THEN 0 ELSE active[s]

\* finish_work; the flag is forgotten with the work that shared it.
FinishWork ==
    /\ Goes("finish", "next")
    /\ active' = [active EXCEPT ![work.slot] = Finished(work.slot)]
    /\ cancelled' = [cancelled EXCEPT ![work.slot] = @ \ {work.gen}]
    /\ work' = NoWork
    /\ UNCHANGED <<pending, next, locals, fetches, opened, screen, turns, events, closed, panics>>

-----------------------------------------------------------------------------
(* Fetch threads, and panics                                                 *)

FetchTakes ==
    /\ idle > 0 /\ jobs # <<>>
    /\ idle' = idle - 1
    /\ running' = running \cup {Head(jobs)} /\ jobs' = Tail(jobs)
    /\ UNCHANGED <<mail, locals, inFlight, started, completed, owner, screen, turns, events,
                   closed, panics>>

Told == Notified

FetchEnds(w) ==
    /\ w \in running /\ running' = running \ {w}
    /\ idle' = idle + 1
    /\ completed' = IF closed THEN completed ELSE Append(completed, w)
    /\ pc' = IF closed THEN pc ELSE Told
    /\ UNCHANGED <<mail, locals, jobs, inFlight, started, work, opened, screen, turns, events,
                   closed, panics>>

\* The thread ends and the mailbox is closed; the owner goes on.
FetchPanics(w) ==
    /\ w \in running /\ running' = running \ {w}
    /\ panics < MaxPanics /\ panics' = panics + 1
    /\ Close /\ pc' = Notified
    /\ UNCHANGED <<idle, purging, dropped>>

\* A panic of the backend unwinds the owner's thread through CloseOnExit.
OwnerPanics ==
    /\ pc \in {"local", "read", "prepare", "persist"}
    /\ panics < MaxPanics /\ panics' = panics + 1
    /\ Close /\ pc' = "panicked"
    /\ UNCHANGED <<running, idle, purging, dropped>>

-----------------------------------------------------------------------------
UserNext ==
    \/ \E s \in Slot, joins, refresh \in BOOLEAN : Submit(s, joins, refresh)
    \/ \E s \in Slot : CancelAsked(s)
    \/ SubmitLocal
    \/ Drop

ScreenNext == PurgeAsked \/ PollLocal \/ \E s \in Slot : PollEvent(s)

OwnerNext ==
    \/ TakeLocal \/ TakeCompleted \/ (\E s \in Slot : TakeWork(s)) \/ Park \/ Exit
    \/ ExecuteLocal \/ OpenBackend
    \/ \E found \in {"hit", "miss", "error"}, refreshing \in BOOLEAN : ReadCache(found, refreshing)
    \/ CannotFetch \/ Dispatch
    \/ CheckCompleted \/ Persist \/ SendTerminal \/ FinishWork

FetchNext == FetchTakes \/ \E w \in running : FetchEnds(w)

Panic == OwnerPanics \/ \E w \in running : FetchPanics(w)

Next == UserNext \/ ScreenNext \/ OwnerNext \/ FetchNext \/ Panic

Spec == Init /\ [][Next]_vars

-----------------------------------------------------------------------------
(* Properties                                                                *)

Generation(s) == 0..MaxGeneration[s]
Work == {w \in [slot : Slot, gen : Nat, refresh : BOOLEAN] : w.gen \in Generation(w.slot)}

\* Every variable keeps its type, and what the code bounds keeps its bound: unread
\* local work, queued events, and "at most four jobs (including unpersisted
\* completions)", so that the owner never waits for the channel.
TypeOK ==
    /\ \A s \in Slot :
         /\ pending[s] \in [gen : Generation(s), refresh : BOOLEAN]
         /\ active[s] \in Generation(s) /\ cancelled[s] \subseteq Generation(s) \ {0}
         /\ asked[s] \in [gen : Generation(s), waiting : BOOLEAN]
         /\ events[s] \in Seq([gen : Generation(s) \ {0}, outcome : {"more", "final"}])
         /\ Len(events[s]) <= EventsPerKind
    /\ next \in Slot /\ bypassed \in [Slot -> Nat] /\ yielded \in Nat /\ burst \in 0..LocalBurst
    /\ local \in Seq(1..MaxLocal) /\ request \in 0..MaxLocal /\ localEvents \in Seq(1..MaxLocal)
    /\ outstanding \in 0..LocalCapacity /\ accepted \in 0..MaxLocal /\ acknowledged \in 0..MaxLocal
    /\ Len(completed) + Len(jobs) + Cardinality(running) <= FetchThreads
    /\ pc = "prepare" => Len(jobs) < FetchThreads
    /\ \A k \in 1..Len(completed) : completed[k] \in Work
    /\ \A k \in 1..Len(jobs) : jobs[k] \in Work
    /\ running \subseteq Work /\ work \in Work
    /\ inFlight \in 0..FetchThreads /\ started \in 0..FetchThreads /\ idle \in 0..FetchThreads
    /\ pc \in {"next", "parked", "local", "read", "prepare", "check", "persist", "answer",
               "finish", "exited", "panicked"}
    /\ {closed, opened, dropped} \subseteq BOOLEAN
    /\ purging \in 0..Slots /\ panics \in 0..MaxPanics

\* Accepted local requests are executed and answered once, in the order of their
\* acceptance, across closing and panics of fetch threads, and local_outstanding
\* counts exactly those whose answer was not read.
LocalInOrder ==
    LET held == IF request = 0 THEN <<>> ELSE <<request>>
    IN  /\ localEvents \o held \o local
             = [k \in 1..(accepted - acknowledged) |-> acknowledged + k]
        /\ outstanding = accepted - acknowledged

\* The coordinator still waits for this work.
Wanted(w) == asked[w.slot].gen = w.gen /\ asked[w.slot].waiting

\* A request that was overtaken or taken back is not written to the database, nor
\* are its events queued where they could displace those of a newer one: the
\* decision is made only for what the UI still waits for, although by then the
\* slot's active entry may belong to a later work.
ActsOnlyForWanted ==
    [][pc' # pc /\ (pc' = "persist" \/ (pc \in {"read", "answer"} /\ events' # events))
       => Wanted(work)]_vars

\* Once a cancellation has returned to the UI, and after a final answer, no event
\* of that request is queued any more or later, whatever the owner was about to
\* send while the flag was set and the queue purged.
SilentAfterEnd ==
    \A s \in Slot : ~asked[s].waiting /\ purging # s =>
        \A k \in 1..Len(events[s]) : events[s][k].gen # asked[s].gen

\* The queues keep their bounds, and nobody is starved by a full one: while a slot has
\* a request queued every other slot is served at most once, and "at most four local
\* jobs" run "before giving completed persistence and remote preparation a turn".
TurnsAreFair ==
    /\ TypeOK
    /\ \A s \in Slot : bypassed[s] < Slots
    /\ yielded <= LocalBurst

\* The work is with a fetch thread, on the way there or back, or with the owner,
\* and its flag is not set.
InProgress(s, g) ==
    LET mine(w) == w.slot = s /\ w.gen = g
    IN  /\ g \notin cancelled[s]
        /\ \/ mine(work) /\ pc # "finish"
           \/ \E w \in running : mine(w)
           \/ \E k \in 1..Len(jobs) : mine(jobs[k])
           \/ \E k \in 1..Len(completed) : mine(completed[k])

\* While the worker is open, what the UI waits for is queued for its newest
\* generation, in progress with its flag clear, or finally answered in the queue:
\* joining, overtaking, a full or cleared queue and late completions lose nothing.
NothingForgotten ==
    \A s \in Slot : asked[s].waiting /\ ~closed =>
        \/ pending[s].gen = asked[s].gen
        \/ InProgress(s, asked[s].gen)
        \/ \E k \in 1..Len(events[s]) :
             events[s][k] = [gen |-> asked[s].gen, outcome |-> "final"]

\* The owner sleeps only while it has nothing to do, so no wake-up is lost, and
\* ends, unless it panics, only when every accepted local request was executed:
\* closing views or a fetch thread that panics cannot drop durable work.
NeverRestsWithWork ==
    /\ pc = "parked" => ~closed /\ local = <<>> /\ ~Waiting
    /\ pc = "exited" => local = <<>> /\ request = 0

\* Neither an answer the UI waits for nor a wake-up of the owner is ever lost.
NothingLost == NothingForgotten /\ NeverRestsWithWork
=============================================================================
