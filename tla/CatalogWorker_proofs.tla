------------------------ MODULE CatalogWorker_proofs ------------------------
(* For every number of slots, fetch threads, submissions and panics: accepted *)
(* local requests keep their order, an ended request is silent, turns are     *)
(* fair, and no request or wake-up is lost.                                   *)
EXTENDS CatalogWorker, SequenceTheorems, FiniteSetTheorems, TLAPS

-----------------------------------------------------------------------------
(* Queues: taking the first element, adding a last one                      *)

\* Removing the first element keeps every other one, each once.
LEMMA TailIndices ==
    ASSUME NEW S, NEW s \in Seq(S), s # <<>>
    PROVE  /\ Tail(s) \in Seq(S)
           /\ \A i \in DOMAIN Tail(s) : i + 1 \in DOMAIN s /\ Tail(s)[i] = s[i + 1]
           /\ Head(s) = s[1] /\ 1 \in DOMAIN s
<1>1. Len(s) \in Nat \ {0} /\ DOMAIN s = 1 .. Len(s)
    BY EmptySeq, LenProperties
<1>2. Tail(s) \in Seq(S) /\ Len(Tail(s)) = Len(s) - 1
    BY HeadTailProperties
<1>3. DOMAIN Tail(s) = 1 .. Len(s) - 1
    BY <1>2, LenProperties
<1>4. \A i \in 1 .. Len(s) - 1 : Tail(s)[i] = s[i + 1]
    BY <1>1
<1> QED
    BY <1>1, <1>2, <1>3, <1>4

\* Adding an element at the end keeps the others where they were.
LEMMA AppendIndices ==
    ASSUME NEW S, NEW s \in Seq(S), NEW e \in S
    PROVE  \A i \in DOMAIN Append(s, e) :
              \/ i \in DOMAIN s /\ Append(s, e)[i] = s[i]
              \/ i = Len(s) + 1 /\ Append(s, e)[i] = e
<1>1. Len(s) \in Nat /\ DOMAIN s = 1 .. Len(s) /\ DOMAIN Append(s, e) = 1 .. Len(s) + 1
    BY AppendProperties, LenProperties
<1> QED
    BY <1>1, AppendProperties

\* The place of the new element was not one of the old ones.
LEMMA AppendPlace ==
    ASSUME NEW S, NEW s \in Seq(S), NEW e \in S
    PROVE  /\ Append(s, e) \in Seq(S)
           /\ Len(s) + 1 \notin DOMAIN s
           /\ \A i \in DOMAIN Append(s, e) : i \in DOMAIN s \/ i = Len(s) + 1
           /\ \A i \in DOMAIN s : Append(s, e)[i] = s[i]
           /\ Append(s, e)[Len(s) + 1] = e
<1>1. Len(s) \in Nat /\ DOMAIN s = 1 .. Len(s) /\ DOMAIN Append(s, e) = 1 .. Len(s) + 1
    BY AppendProperties, LenProperties
<1> QED
    BY <1>1, AppendProperties

-----------------------------------------------------------------------------
Requests == [gen : Nat, refresh : BOOLEAN]
Askings == [gen : Nat, waiting : BOOLEAN]
Events == [gen : Nat \ {0}, outcome : {"more", "final"}]
Jobs == [slot : Slot, gen : Nat, refresh : BOOLEAN]
Steps == {"next", "parked", "local", "read", "prepare", "check", "persist", "answer",
          "finish", "exited", "panicked"}

\* The shape of every variable, without its bounds.
MailShapes ==
    /\ pending \in [Slot -> Requests] /\ active \in [Slot -> Nat]
    /\ cancelled \in [Slot -> SUBSET Nat] /\ next \in Slot
LocalShapes ==
    /\ local \in Seq(Nat) /\ localEvents \in Seq(Nat) /\ request \in Nat
    /\ outstanding \in Nat /\ accepted \in Nat /\ acknowledged \in Nat
FetchShapes ==
    /\ completed \in Seq(Jobs) /\ jobs \in Seq(Jobs) /\ running \in SUBSET Jobs
    /\ inFlight \in Nat /\ started \in Nat /\ idle \in Nat
OwnerShapes == pc \in Steps /\ work \in Jobs /\ opened \in BOOLEAN
ScreenShapes ==
    /\ asked \in [Slot -> Askings] /\ purging \in 0..Slots /\ dropped \in BOOLEAN
    /\ events \in [Slot -> Seq(Events)]
TurnShapes == bypassed \in [Slot -> Nat] /\ yielded \in Nat /\ burst \in Nat
Shapes ==
    /\ MailShapes /\ LocalShapes /\ FetchShapes /\ OwnerShapes /\ ScreenShapes /\ TurnShapes
    /\ closed \in BOOLEAN /\ panics \in Nat

\* Where the work of a request may be, and whether it may still say something.
Busy == {"read", "prepare", "check", "persist", "answer", "finish"}
Is(w, s, g) == w.slot = s /\ w.gen = g
Has(queue, s, g) == \E k \in DOMAIN queue : Is(queue[k], s, g)
OwnerHas(s, g) == pc \in Busy /\ Is(work, s, g)
RunHas(s, g) == \E w \in running : Is(w, s, g)
AtWork(s, g) == OwnerHas(s, g) \/ RunHas(s, g) \/ Has(jobs, s, g) \/ Has(completed, s, g)
Live(s, g) == AtWork(s, g) /\ ~(pc = "finish" /\ OwnerHas(s, g))

Alike(v, w) == v.slot = w.slot /\ v.gen = w.gen
Distinct(queue) == \A j, k \in DOMAIN queue : Alike(queue[j], queue[k]) => j = k

\* A request is worked on in one place, and once.
Apart(s, g) ==
    /\ OwnerHas(s, g) => ~RunHas(s, g) /\ ~Has(jobs, s, g) /\ ~Has(completed, s, g)
    /\ RunHas(s, g) => ~Has(jobs, s, g) /\ ~Has(completed, s, g)
    /\ Has(jobs, s, g) => ~Has(completed, s, g)
Single ==
    /\ \A s \in Slot, g \in Nat : Apart(s, g)
    /\ \A v, w \in running : Alike(v, w) => v = w
    /\ Distinct(jobs) /\ Distinct(completed)

\* The coordinator's newest generation bounds every other.
Bounded(s, g) == g \in Nat /\ g <= asked[s].gen
Generations(s) ==
    /\ asked[s].gen <= MaxGeneration[s] /\ (asked[s].waiting => asked[s].gen # 0)
    /\ Bounded(s, pending[s].gen) /\ Bounded(s, active[s])
    /\ Pending(s) => pending[s].gen # 0
    /\ \A g \in cancelled[s] : Bounded(s, g) /\ g # 0
    /\ \A k \in DOMAIN events[s] : Bounded(s, events[s][k].gen)
    /\ \A g \in Nat : AtWork(s, g) => Bounded(s, g) /\ g # 0

\* What is queued in a slot is newer than all work and all answers of it.
QueuedIsNewest(s) ==
    Pending(s) =>
        /\ pending[s].gen = asked[s].gen /\ asked[s].waiting
        /\ \A g \in Nat : AtWork(s, g) => g < pending[s].gen
        /\ \A k \in DOMAIN events[s] : events[s][k].gen < pending[s].gen

\* What is worked on unflagged is what the coordinator waits for.
LiveIsWanted(s) ==
    \A g \in Nat : Live(s, g) /\ g \notin cancelled[s] =>
        active[s] = g /\ asked[s].gen = g /\ asked[s].waiting /\ ~Pending(s)

\* After its final answer nothing more is said about a request.
FinalIsLast(s) ==
    \A k \in DOMAIN events[s] : events[s][k].outcome = "final" => ~Live(s, events[s][k].gen)

\* What the coordinator waits for is queued, worked on unflagged, or answered.
Answer(s) == [gen |-> asked[s].gen, outcome |-> "final"]
Remembered(s) ==
    asked[s].waiting =>
        \/ pending[s].gen = asked[s].gen
        \/ Live(s, asked[s].gen)
        \/ \E k \in DOMAIN events[s] : events[s][k] = Answer(s)

Current(s) ==
    /\ asked[s].waiting => asked[s].gen \notin cancelled[s]
    /\ QueuedIsNewest(s) /\ LiveIsWanted(s) /\ FinalIsLast(s) /\ Remembered(s)

\* A queue holds the answers of one generation; the final one is the last. What
\* ended is silent.
Queues(s) ==
    /\ \A j, k \in DOMAIN events[s] : events[s][j].gen = events[s][k].gen
    /\ \A k \in DOMAIN events[s] : events[s][k].outcome = "final" => k = Len(events[s])
    /\ Len(events[s]) <= EventsPerKind
    /\ purging = s => ~asked[s].waiting
    /\ ~asked[s].waiting /\ purging # s =>
          \A k \in DOMAIN events[s] : events[s][k].gen # asked[s].gen

SlotInv(s) == Generations(s) /\ Queues(s) /\ (~closed => Current(s))

\* Local requests are numbered without a gap from the oldest unread answer on.
Held == IF request = 0 THEN 0 ELSE 1
Answered == \A k \in DOMAIN localEvents : localEvents[k] = acknowledged + k
InHand == request # 0 => request = acknowledged + Len(localEvents) + 1
Queued == \A k \in DOMAIN local : local[k] = acknowledged + Len(localEvents) + Held + k
Counted ==
    /\ accepted = acknowledged + Len(localEvents) + Held + Len(local)
    /\ outstanding = accepted - acknowledged
    /\ outstanding <= LocalCapacity /\ accepted <= MaxLocal
Locals == Answered /\ InHand /\ Queued /\ Counted

\* The owner counts every fetch it started and has not taken back.
Flights ==
    /\ IsFiniteSet(running)
    /\ Len(completed) + Len(jobs) + Cardinality(running) <= inFlight
    /\ inFlight <= FetchThreads
    /\ pc \in {"read", "prepare"} => inFlight < FetchThreads
    /\ idle + Cardinality(running) <= started /\ started <= FetchThreads

\* Whoever was passed over is nearer to its turn.
Turns ==
    /\ \A s \in Slot : IF Pending(s) THEN bypassed[s] + Distance(s) < Slots ELSE bypassed[s] = 0
    /\ yielded <= burst /\ burst <= LocalBurst

\* What the owner holds goes with what it does next.
Owner ==
    /\ pc \in {"next", "parked", "local", "exited"} => work = NoWork
    /\ pc = "local" => request # 0
    /\ request # 0 => pc \in {"local", "panicked"}
    /\ pc \in {"panicked", "exited"} => closed
    /\ closed => completed = <<>> /\ \A s \in Slot : ~Pending(s)
    /\ panics <= MaxPanics

PerSlot == \A s \in Slot : SlotInv(s)

\* Also a thread that panicked holds work that was asked for.
HeldIsAsked == Bounded(work.slot, work.gen)

CatalogInv ==
    /\ Shapes /\ Single /\ Flights /\ PerSlot /\ Locals /\ Turns /\ Owner
    /\ HeldIsAsked /\ NeverRestsWithWork

-----------------------------------------------------------------------------
(* Queues                                                                    *)

LEMMA SlotFacts ==
    /\ Slots \in Nat \ {0} /\ Slot \subseteq Nat /\ 0 \notin Slot /\ 1 \in Slot
    /\ FetchThreads \in Nat \ {0} /\ LocalCapacity \in Nat \ {0}
    /\ LocalBurst \in Nat \ {0} /\ EventsPerKind \in Nat \ {0}
    /\ MaxLocal \in Nat /\ MaxPanics \in Nat /\ MaxGeneration \in [Slot -> Nat]
BY SlotsAssumption, BoundsAssumption DEF Slot

\* A queue of answers about g that were there before, but for the last.
Newest(q, s, g, o) ==
    /\ q \in Seq(Events) /\ Len(q) \in 1..EventsPerKind
    /\ q[Len(q)] = [gen |-> g, outcome |-> o]
    /\ \A k \in DOMAIN q : /\ q[k].gen = g
                           /\ k # Len(q) => \E j \in DOMAIN events[s] : q[k] = events[s][j]

\* Whatever was queued, a new event is the last of its own generation.
LEMMA PushedShape ==
    ASSUME Shapes, NEW s \in Slot, Len(events[s]) <= EventsPerKind,
           \A j, k \in DOMAIN events[s] : events[s][j].gen = events[s][k].gen,
           NEW g \in Nat \ {0}, NEW o \in {"more", "final"},
           NEW q, q = Pushed(s, g, o)
    PROVE  Newest(q, s, g, o)
<1> DEFINE old == events[s]
<1> DEFINE e == [gen |-> g, outcome |-> o]
<1> DEFINE kept == IF old # <<>> /\ old[Len(old)].gen # g THEN <<>> ELSE old
<1> DEFINE room == IF Len(kept) = EventsPerKind THEN Tail(kept) ELSE kept
<1>1. old \in Seq(Events) /\ e \in Events /\ q = Append(room, e)
  BY DEF Shapes, ScreenShapes, Events, Pushed
<1>2. Len(old) \in Nat /\ DOMAIN old = 1..Len(old)
  BY <1>1, LenProperties
<1>7. \A t \in Seq(Events) : t = <<>> => Len(t) = 0 /\ DOMAIN t = {}
  <2> SUFFICES ASSUME NEW t \in Seq(Events), t = <<>> PROVE Len(t) = 0 /\ DOMAIN t = {}
    OBVIOUS
  <2>1. Len(t) = 0
    BY EmptySeq
  <2> QED  BY <2>1, LenProperties
<1>3. /\ kept \in Seq(Events) /\ Len(kept) \in Nat /\ Len(kept) <= EventsPerKind
      /\ DOMAIN kept = 1..Len(kept)
      /\ \A k \in DOMAIN kept : k \in DOMAIN old /\ kept[k] = old[k] /\ kept[k].gen = g
  <2>1. CASE old # <<>> /\ old[Len(old)].gen # g
    <3>1. kept = <<>>
      BY <2>1
    <3>2. kept \in Seq(Events)
      BY <3>1, EmptySeq
    <3> HIDE DEF kept
    <3>3. Len(kept) = 0 /\ DOMAIN kept = {}
      BY <1>7, <3>1, <3>2
    <3> QED  BY <3>2, <3>3, SlotFacts
  <2>2. CASE old = <<>>
    BY <1>1, <1>2, <2>2, EmptySeq
  <2>3. CASE old # <<>> /\ old[Len(old)].gen = g
    <3>1. Len(old) \in DOMAIN old
      BY <1>1, <1>2, <2>3, EmptySeq
    <3> QED  BY <1>1, <1>2, <2>3, <3>1
  <2> QED  BY <2>1, <2>2, <2>3
<1> HIDE DEF kept
<1>4. /\ room \in Seq(Events) /\ Len(room) \in Nat /\ Len(room) < EventsPerKind
      /\ DOMAIN room = 1..Len(room)
      /\ \A k \in DOMAIN room : \E j \in DOMAIN kept : room[k] = kept[j]
  <2>1. CASE Len(kept) = EventsPerKind
    <3>1. kept # <<>>
      BY <2>1, SlotFacts, EmptySeq
    <3>2. Tail(kept) \in Seq(Events) /\ Len(Tail(kept)) = Len(kept) - 1
      BY <1>3, <3>1, HeadTailProperties
    <3>3. \A i \in DOMAIN Tail(kept) : i + 1 \in DOMAIN kept /\ Tail(kept)[i] = kept[i + 1]
      BY <1>3, <3>1, TailIndices
    <3>4. DOMAIN Tail(kept) = 1..Len(Tail(kept))
      BY <3>2, LenProperties
    <3> QED  BY <1>3, <2>1, <3>2, <3>3, <3>4, SlotFacts
  <2>2. CASE Len(kept) # EventsPerKind
    <3>1. room = kept
      BY <2>2
    <3> HIDE DEF room
    <3>5. Len(kept) \in Nat /\ EventsPerKind \in Nat /\ Len(kept) <= EventsPerKind
      BY <1>3, SlotFacts
    <3>6. Len(kept) < EventsPerKind
      BY <2>2, <3>5
    <3>2. Len(room) < EventsPerKind
      BY <3>1, <3>6
    <3>3. \A k \in DOMAIN room : k \in DOMAIN kept /\ room[k] = kept[k]
      BY <3>1
    <3>4. room \in Seq(Events) /\ Len(room) \in Nat /\ DOMAIN room = 1..Len(room)
      BY <1>3, <3>1
    <3> QED  BY <3>2, <3>3, <3>4
  <2> QED  BY <2>1, <2>2
<1> HIDE DEF room, e
<1>5. /\ Append(room, e) \in Seq(Events) /\ Len(Append(room, e)) = Len(room) + 1
      /\ Append(room, e)[Len(room) + 1] = e
      /\ \A k \in DOMAIN Append(room, e) :
            (k \in DOMAIN room /\ Append(room, e)[k] = room[k]) \/ (k = Len(room) + 1 /\ Append(room, e)[k] = e)
  BY <1>1, <1>4, AppendIndices, AppendPlace, AppendProperties
<1>6. e.gen = g
  BY DEF e
<1> QED  BY <1>1, <1>3, <1>4, <1>5, <1>6, SlotFacts DEF e, Newest

\* A queue of one generation is retained or purged as a whole.
LEMMA RetainedShape ==
    ASSUME NEW q \in Seq(Events), \A j, k \in DOMAIN q : q[j].gen = q[k].gen, NEW g \in Nat
    PROVE  \/ Retained(q, g) = q /\ \A k \in DOMAIN q : q[k].gen # g
           \/ Retained(q, g) = <<>>
<1> DEFINE kept == {k \in DOMAIN q : q[k].gen # g}
<1> DEFINE rank(k) == Cardinality({j \in kept : j <= k})
<1>1. Len(q) \in Nat /\ DOMAIN q = 1..Len(q)
  BY LenProperties
<1>2. Retained(q, g) = [n \in 1..Cardinality(kept) |-> q[CHOOSE k \in kept : rank(k) = n]]
  BY DEF Retained
<1>3. CASE kept = {}
  <2>1. Cardinality(kept) = 0
    BY <1>3, FS_EmptySet
  <2>2. Retained(q, g) = [n \in 1..0 |-> q[CHOOSE k \in kept : rank(k) = n]]
    BY <1>2, <2>1
  <2> HIDE DEF kept, rank
  <2>3. DOMAIN Retained(q, g) = {} /\ Retained(q, g) = [n \in DOMAIN Retained(q, g) |-> Retained(q, g)[n]]
    BY <2>2
  <2> HIDE DEF Retained
  <2>7. Retained(q, g) \in [1..0 -> Events]
    BY <2>3
  <2>4. Retained(q, g) \in Seq(Events) /\ DOMAIN Retained(q, g) = {}
    BY <2>3, <2>7, SeqDef
  <2>5. DOMAIN Retained(q, g) = 1..Len(Retained(q, g)) /\ Len(Retained(q, g)) \in Nat
    BY <2>4, LenProperties
  <2>6. Len(Retained(q, g)) = 0
    BY <2>4, <2>5
  <2> QED  BY <2>4, <2>6, EmptySeq
<1>4. CASE kept # {}
  <2>1. kept = 1..Len(q) /\ \A k \in DOMAIN q : q[k].gen # g
    BY <1>1, <1>4
  <2>2. Cardinality(kept) = Len(q)
    <3> HIDE DEF kept
    <3>1. Cardinality(1..Len(q)) = IF 1 > Len(q) THEN 0 ELSE Len(q) - 1 + 1
      BY <1>1, FS_Interval
    <3> QED  BY <1>1, <2>1, <3>1
  <2>3. ASSUME NEW n \in 1..Len(q) PROVE rank(n) = n
    <3>1. {j \in kept : j <= n} = 1..n
      BY <1>1, <2>1
    <3>2. Cardinality(1..n) = IF 1 > n THEN 0 ELSE n - 1 + 1
      BY FS_Interval
    <3> HIDE DEF kept
    <3>3. n \in Nat /\ 1 <= n
      BY <1>1
    <3>4. Cardinality(1..n) = n
      BY <3>2, <3>3
    <3>5. rank(n) = Cardinality(1..n)
      BY <3>1, Zenon
    <3> QED  BY <3>4, <3>5
  <2> HIDE DEF rank, kept
  <2>4. ASSUME NEW n \in 1..Len(q) PROVE (CHOOSE k \in kept : rank(k) = n) = n
    BY <2>1, <2>3
  <2>5. Retained(q, g) = [n \in 1..Len(q) |-> q[n]]
    BY <1>2, <2>2, <2>4
  <2>6. q = [n \in 1..Len(q) |-> q[n]]
    BY <1>1
  <2> QED  BY <2>1, <2>5, <2>6
<1> QED  BY <1>3, <1>4

-----------------------------------------------------------------------------
(* Shapes                                                                    *)

\* The work between the cache and the answer is a job.
LEMMA JobShape ==
    ASSUME NEW w \in Jobs
    PROVE  /\ [w EXCEPT !.refresh = FALSE] \in Jobs
           /\ [w EXCEPT !.refresh = FALSE].slot = w.slot /\ [w EXCEPT !.refresh = FALSE].gen = w.gen
BY DEF Jobs

\* The next step is a step, whoever notifies the owner.
LEMMA NotifiedShape == ASSUME Shapes PROVE Notified \in Steps
BY DEF Shapes, OwnerShapes, Notified, Steps

\* Closing keeps every shape, whoever closes.
LEMMA CloseShapes ==
    ASSUME Shapes, Close, panics' \in Nat, running' \subseteq running, idle' = idle,
           pc' \in Steps, purging' = purging, dropped' \in BOOLEAN
    PROVE  Shapes'
<1>1. NoRequest \in Requests /\ <<>> \in Seq(Jobs)
  BY EmptySeq DEF NoRequest, Requests
<1>2. \A s \in Slot : Superseded(s) \in SUBSET Nat
  BY DEF Superseded, Shapes, MailShapes
<1>3. MailShapes'
  BY <1>1, <1>2 DEF Close, Shapes, MailShapes
<1>4. LocalShapes' /\ OwnerShapes' /\ ScreenShapes'
  BY DEF Close, LocalsKept, Shapes, LocalShapes, OwnerShapes, ScreenShapes
<1>5. FetchShapes'
  BY <1>1 DEF Close, Shapes, FetchShapes
<1>6. TurnShapes' /\ closed' \in BOOLEAN
  BY DEF Close, Shapes, TurnShapes
<1> QED  BY <1>3, <1>4, <1>5, <1>6 DEF Shapes

LEMMA SubmitShapes ==
    ASSUME Shapes, NEW s \in Slot, NEW joins \in BOOLEAN, NEW refresh \in BOOLEAN,
           Submit(s, joins, refresh)
    PROVE  Shapes'
<1> DEFINE g == asked[s].gen + 1
<1>1. g \in Nat /\ pending[s] \in Requests /\ asked[s] \in Askings
  BY DEF Shapes, MailShapes, ScreenShapes, Askings
<1>2. Joined(s, g, refresh) \in Requests /\ [gen |-> g, refresh |-> refresh] \in Requests
      /\ [gen |-> g, waiting |-> TRUE] \in Askings
  BY <1>1 DEF Joined, Requests, Askings
<1>3. Superseded(s) \in SUBSET Nat
  BY DEF Superseded, Shapes, MailShapes
<1> HIDE DEF g
<1>4. /\ cancelled' = [cancelled EXCEPT ![s] = Superseded(s)]
      /\ pending' = [pending EXCEPT ![s] =
                       IF joins THEN Joined(s, g, refresh) ELSE [gen |-> g, refresh |-> refresh]]
      /\ asked' = [asked EXCEPT ![s] = [gen |-> g, waiting |-> TRUE]]
      /\ pc' = Notified
  BY DEF Submit, g
<1>5. MailShapes'
  BY <1>2, <1>3, <1>4 DEF Submit, Shapes, MailShapes
<1>6. ScreenShapes'
  BY <1>2, <1>4 DEF Submit, Shapes, ScreenShapes
<1>7. OwnerShapes'
  BY <1>4, NotifiedShape DEF Submit, Shapes, OwnerShapes
<1> QED  BY <1>5, <1>6, <1>7 DEF Submit, Shapes, LocalShapes, FetchShapes, TurnShapes,
                                 locals, fetches, turns

LEMMA CancelAskedShapes ==
    ASSUME Shapes, NEW s \in Slot, CancelAsked(s) PROVE Shapes'
<1>1. asked[s] \in Askings /\ [asked[s] EXCEPT !.waiting = FALSE] \in Askings /\ asked[s].gen \in Nat
  BY DEF Shapes, ScreenShapes, Askings
<1>2. NoRequest \in Requests
  BY DEF NoRequest, Requests
<1>3. asked' = [asked EXCEPT ![s] = [asked[s] EXCEPT !.waiting = FALSE]]
  BY DEF CancelAsked, Shapes, ScreenShapes
<1>4. ScreenShapes'
  BY <1>1, <1>3 DEF Shapes, ScreenShapes, Slot, CancelAsked
<1>5. MailShapes'
  BY <1>1, <1>2 DEF Shapes, MailShapes, CancelAsked
<1>6. TurnShapes'
  BY DEF CancelAsked, Shapes, TurnShapes
<1> QED  BY <1>4, <1>5, <1>6 DEF CancelAsked, Shapes, LocalShapes, FetchShapes, OwnerShapes,
                                 locals, fetches, owner

LEMMA SubmitLocalShapes == ASSUME Shapes, SubmitLocal PROVE Shapes'
<1>1. accepted' \in Nat
  BY DEF SubmitLocal, Shapes, LocalShapes
<1>2. Append(local, accepted') \in Seq(Nat)
  BY <1>1, AppendProperties DEF Shapes, LocalShapes
<1>3. LocalShapes'
  BY <1>1, <1>2 DEF SubmitLocal, Shapes, LocalShapes
<1>4. OwnerShapes'
  BY NotifiedShape DEF SubmitLocal, Shapes, OwnerShapes
<1> QED  BY <1>3, <1>4 DEF SubmitLocal, Shapes, MailShapes, FetchShapes, ScreenShapes, TurnShapes,
                           mail, fetches, screen, turns

LEMMA PurgeAskedShapes == ASSUME Shapes, PerSlot, PurgeAsked PROVE Shapes'
<1>1. purging \in Slot /\ events[purging] \in Seq(Events) /\ asked[purging] \in Askings
  BY SlotFacts DEF PurgeAsked, Shapes, ScreenShapes, Slot
<1>2. asked[purging].gen \in Nat
  BY <1>1 DEF Askings
<1>3. \A j, k \in DOMAIN events[purging] : events[purging][j].gen = events[purging][k].gen
  BY <1>1 DEF PerSlot, SlotInv, Queues
<1>4. Retained(events[purging], asked[purging].gen) \in Seq(Events)
  BY <1>1, <1>2, <1>3, RetainedShape, EmptySeq
<1>5. ScreenShapes'
  BY <1>1, <1>4, SlotFacts DEF PurgeAsked, Shapes, ScreenShapes
<1> QED  BY <1>5 DEF PurgeAsked, Shapes, MailShapes, LocalShapes, FetchShapes, OwnerShapes,
                     TurnShapes, mail, locals, fetches, owner, turns

LEMMA PollLocalShapes == ASSUME Shapes, Locals, PollLocal PROVE Shapes'
<1>1. Tail(localEvents) \in Seq(Nat) /\ Len(localEvents) \in Nat \ {0} /\ Len(local) \in Nat
  BY HeadTailProperties, EmptySeq, LenProperties DEF PollLocal, Shapes, LocalShapes
<1>2. outstanding - 1 \in Nat
  <2>1. outstanding \in Nat /\ outstanding # 0
    BY <1>1 DEF Shapes, LocalShapes, Locals, Counted, Held
  <2> QED  BY <2>1
<1>3. LocalShapes'
  BY <1>1, <1>2 DEF PollLocal, Shapes, LocalShapes
<1> QED  BY <1>3 DEF PollLocal, Shapes, MailShapes, FetchShapes, OwnerShapes, ScreenShapes,
                     TurnShapes, mail, fetches, owner, screen, turns

LEMMA PollEventShapes == ASSUME Shapes, NEW s \in Slot, PollEvent(s) PROVE Shapes'
<1> DEFINE heard == Head(events[s]).gen = asked[s].gen /\ Head(events[s]).outcome = "final"
<1>1. Tail(events[s]) \in Seq(Events)
  BY HeadTailProperties DEF PollEvent, Shapes, ScreenShapes
<1>2. asked[s] \in Askings
  BY DEF Shapes, ScreenShapes
<1>3. asked' = [asked EXCEPT ![s] = [asked[s] EXCEPT !.waiting = asked[s].waiting /\ ~heard]]
  BY <1>2 DEF PollEvent, Shapes, ScreenShapes, Askings
<1> HIDE DEF heard
<1>4. [asked[s] EXCEPT !.waiting = asked[s].waiting /\ ~heard] \in Askings
  BY <1>2 DEF Askings
<1>5. ScreenShapes'
  BY <1>1, <1>3, <1>4 DEF PollEvent, Shapes, ScreenShapes
<1> QED  BY <1>5 DEF PollEvent, Shapes, MailShapes, LocalShapes, FetchShapes, OwnerShapes,
                     TurnShapes, mail, locals, fetches, owner, turns

LEMMA TakeLocalShapes == ASSUME Shapes, TakeLocal PROVE Shapes'
<1>1. Head(local) \in Nat /\ Tail(local) \in Seq(Nat)
  BY HeadTailProperties DEF TakeLocal, Shapes, LocalShapes
<1>2. LocalShapes'
  BY <1>1 DEF TakeLocal, Shapes, LocalShapes
<1>3. OwnerShapes' /\ TurnShapes'
  BY DEF TakeLocal, Shapes, OwnerShapes, TurnShapes, Steps
<1> QED  BY <1>2, <1>3 DEF TakeLocal, Shapes, MailShapes, FetchShapes, ScreenShapes,
                           mail, fetches, screen

LEMMA TakeCompletedShapes == ASSUME Shapes, Flights, TakeCompleted PROVE Shapes'
<1>1. /\ Head(completed) \in Jobs /\ Tail(completed) \in Seq(Jobs)
      /\ Len(completed) \in Nat \ {0} /\ Len(jobs) \in Nat
  BY HeadTailProperties, EmptySeq, LenProperties DEF TakeCompleted, Shapes, FetchShapes
<1>2. Cardinality(running) \in Nat
  BY FS_CardinalityType DEF Flights
<1>3. inFlight - 1 \in Nat
  <2>1. inFlight \in Nat /\ Len(completed) + Len(jobs) + Cardinality(running) <= inFlight
    BY DEF Flights, Shapes, FetchShapes
  <2> QED  BY <1>1, <1>2, <2>1
<1>4. FetchShapes'
  BY <1>1, <1>3 DEF TakeCompleted, Shapes, FetchShapes
<1>5. OwnerShapes' /\ TurnShapes'
  BY <1>1 DEF TakeCompleted, Shapes, OwnerShapes, TurnShapes, Steps
<1> QED  BY <1>4, <1>5 DEF TakeCompleted, Shapes, MailShapes, LocalShapes, ScreenShapes,
                           mail, locals, screen

\* The next turn is a slot's.
LEMMA NextTurnShape == ASSUME NEW s \in Slot PROVE NextTurn(s) \in Slot
<1>1. s \in 1..Slots /\ Slots \in Nat
  BY SlotFacts DEF Slot
<1>2. s % Slots \in 0..(Slots - 1)
  BY <1>1
<1> QED  BY <1>1, <1>2 DEF NextTurn, Slot

LEMMA TakeWorkShapes == ASSUME Shapes, NEW s \in Slot, TakeWork(s) PROVE Shapes'
<1>1. pending[s] \in Requests
  BY DEF Shapes, MailShapes
<1>2. pending[s].gen \in Nat /\ pending[s].refresh \in BOOLEAN
  BY <1>1 DEF Requests
<1>3. [slot |-> s, gen |-> pending[s].gen, refresh |-> pending[s].refresh] \in Jobs
  BY <1>2 DEF Jobs
<1>4. NoRequest \in Requests
  BY DEF NoRequest, Requests
<1>5. MailShapes'
  BY <1>2, <1>4, NextTurnShape DEF TakeWork, Shapes, MailShapes
<1>6. OwnerShapes'
  BY <1>3 DEF TakeWork, Shapes, OwnerShapes, Steps
<1>7. TurnShapes'
  BY DEF TakeWork, Shapes, TurnShapes
<1> QED  BY <1>5, <1>6, <1>7 DEF TakeWork, Shapes, LocalShapes, FetchShapes, ScreenShapes,
                                 locals, fetches, screen

LEMMA ExecuteLocalShapes == ASSUME Shapes, ExecuteLocal PROVE Shapes'
<1>1. Append(localEvents, request) \in Seq(Nat)
  BY AppendProperties DEF Shapes, LocalShapes
<1>2. LocalShapes'
  BY <1>1 DEF ExecuteLocal, Shapes, LocalShapes
<1>3. OwnerShapes'
  BY DEF ExecuteLocal, Shapes, OwnerShapes, Steps
<1> QED  BY <1>2, <1>3 DEF ExecuteLocal, Shapes, MailShapes, FetchShapes, ScreenShapes, TurnShapes,
                           mail, fetches, screen, turns

\* Steps that change nothing but what the owner does next, or the backend.
LEMMA IdleShapes ==
    ASSUME Shapes,
           Park \/ Exit \/ OpenBackend \/ CannotFetch \/ CheckCompleted \/ Persist
    PROVE  Shapes'
<1>1. pc' \in Steps /\ opened' \in BOOLEAN
  BY DEF Park, Exit, OpenBackend, CannotFetch, CheckCompleted, Persist, Goes, Steps,
         Shapes, OwnerShapes
<1>2. UNCHANGED <<mail, locals, fetches, work, screen, turns, events, closed, panics>>
  BY DEF Park, Exit, OpenBackend, CannotFetch, CheckCompleted, Persist
<1> QED  BY <1>1, <1>2 DEF Shapes, MailShapes, LocalShapes, FetchShapes, OwnerShapes, ScreenShapes,
                           TurnShapes, mail, locals, fetches, screen, turns

\* What the owner adds to a queue about the work it holds keeps the queue's shape.
LEMMA SaidShapes ==
    ASSUME Shapes, PerSlot, NEW o \in {"more", "final"}, work.gen # 0,
           events' = [events EXCEPT ![work.slot] = Pushed(work.slot, work.gen, o)]
    PROVE  events' \in [Slot -> Seq(Events)]
<1>1. work.slot \in Slot /\ work.gen \in Nat \ {0}
  BY DEF Shapes, OwnerShapes, Jobs
<1>2. /\ Len(events[work.slot]) <= EventsPerKind
      /\ \A j, k \in DOMAIN events[work.slot] : events[work.slot][j].gen = events[work.slot][k].gen
  BY <1>1 DEF PerSlot, SlotInv, Queues
<1>3. Pushed(work.slot, work.gen, o) \in Seq(Events)
  BY <1>1, <1>2, PushedShape DEF Newest
<1> QED  BY <1>1, <1>3 DEF Shapes, ScreenShapes

\* The work in hand has a generation.
LEMMA WorkIsAsked ==
    ASSUME Shapes, PerSlot, pc \in Busy
    PROVE  /\ work.slot \in Slot /\ work.gen \in Nat \ {0}
           /\ OwnerHas(work.slot, work.gen) /\ AtWork(work.slot, work.gen)
<1>1. work.slot \in Slot /\ work.gen \in Nat
  BY DEF Shapes, OwnerShapes, Jobs
<1>2. OwnerHas(work.slot, work.gen)
  BY DEF OwnerHas, Is
<1>3. AtWork(work.slot, work.gen)
  BY <1>2 DEF AtWork
<1>4. Generations(work.slot)
  BY <1>1 DEF PerSlot, SlotInv
<1> QED  BY <1>1, <1>2, <1>3, <1>4 DEF Generations

LEMMA ReadCacheShapes ==
    ASSUME Shapes, PerSlot, NEW found \in {"hit", "miss", "error"}, NEW refreshing \in BOOLEAN,
           ReadCache(found, refreshing)
    PROVE  Shapes'
<1>1. work.gen # 0
  BY WorkIsAsked DEF ReadCache, Busy
<1>2. events' \in [Slot -> Seq(Events)]
  <2>1. \/ events' = events
        \/ events' = [events EXCEPT ![work.slot] = Pushed(work.slot, work.gen, "final")]
        \/ events' = [events EXCEPT ![work.slot] = Pushed(work.slot, work.gen, "more")]
    BY DEF ReadCache
  <2> QED  BY <1>1, <2>1, SaidShapes DEF Shapes, ScreenShapes
<1>3. pc' \in Steps
  BY DEF ReadCache, Steps
<1> QED  BY <1>2, <1>3 DEF ReadCache, Shapes, MailShapes, LocalShapes, FetchShapes, OwnerShapes,
                           ScreenShapes, TurnShapes, mail, locals, fetches, screen, turns

LEMMA SendTerminalShapes == ASSUME Shapes, PerSlot, SendTerminal PROVE Shapes'
<1>1. work.gen # 0
  BY WorkIsAsked DEF SendTerminal, Goes, Busy
<1>2. events' \in [Slot -> Seq(Events)]
  <2>1. \/ events' = events
        \/ events' = [events EXCEPT ![work.slot] = Pushed(work.slot, work.gen, "final")]
    BY DEF SendTerminal
  <2> QED  BY <1>1, <2>1, SaidShapes DEF Shapes, ScreenShapes
<1>3. pc' \in Steps
  BY DEF SendTerminal, Goes, Steps
<1> QED  BY <1>2, <1>3 DEF SendTerminal, Shapes, MailShapes, LocalShapes, FetchShapes, OwnerShapes,
                           ScreenShapes, TurnShapes, mail, locals, fetches, screen, turns

LEMMA NoWorkShape == NoWork \in Jobs
BY SlotFacts DEF NoWork, Jobs

LEMMA DispatchShapes == ASSUME Shapes, Dispatch PROVE Shapes'
<1>1. [work EXCEPT !.refresh = FALSE] \in Jobs
  BY JobShape DEF Shapes, OwnerShapes
<1>2. Append(jobs, [work EXCEPT !.refresh = FALSE]) \in Seq(Jobs)
  BY <1>1, AppendProperties DEF Shapes, FetchShapes
<1>3. FetchShapes'
  BY <1>2 DEF Dispatch, Shapes, FetchShapes
<1>4. OwnerShapes'
  BY NoWorkShape DEF Dispatch, Goes, Shapes, OwnerShapes, Steps
<1> QED  BY <1>3, <1>4 DEF Dispatch, Shapes, MailShapes, LocalShapes, ScreenShapes, TurnShapes,
                           mail, locals, screen, turns

LEMMA FinishWorkShapes == ASSUME Shapes, FinishWork PROVE Shapes'
<1>1. work.slot \in Slot
  BY DEF Shapes, OwnerShapes, Jobs
<1>2. Finished(work.slot) \in Nat
  BY <1>1 DEF Finished, Shapes, MailShapes
<1>3. MailShapes'
  BY <1>1, <1>2 DEF FinishWork, Shapes, MailShapes
<1>4. OwnerShapes'
  BY NoWorkShape DEF FinishWork, Goes, Shapes, OwnerShapes, Steps
<1> QED  BY <1>3, <1>4 DEF FinishWork, Shapes, LocalShapes, FetchShapes, ScreenShapes, TurnShapes,
                           locals, fetches, screen, turns

LEMMA FetchTakesShapes == ASSUME Shapes, FetchTakes PROVE Shapes'
<1>1. Head(jobs) \in Jobs /\ Tail(jobs) \in Seq(Jobs)
  BY HeadTailProperties DEF FetchTakes, Shapes, FetchShapes
<1>2. idle - 1 \in Nat
  BY DEF FetchTakes, Shapes, FetchShapes
<1>3. FetchShapes'
  BY <1>1, <1>2 DEF FetchTakes, Shapes, FetchShapes
<1> QED  BY <1>3 DEF FetchTakes, Shapes, MailShapes, LocalShapes, OwnerShapes, ScreenShapes, TurnShapes,
                     mail, locals, owner, screen, turns

LEMMA FetchEndsShapes == ASSUME Shapes, NEW w \in running, FetchEnds(w) PROVE Shapes'
<1>1. w \in Jobs
  BY DEF Shapes, FetchShapes
<1>2. Append(completed, w) \in Seq(Jobs)
  BY <1>1, AppendProperties DEF Shapes, FetchShapes
<1>3. FetchShapes'
  BY <1>2 DEF FetchEnds, Shapes, FetchShapes
<1>4. OwnerShapes'
  BY NotifiedShape DEF FetchEnds, Told, Shapes, OwnerShapes
<1> QED  BY <1>3, <1>4 DEF FetchEnds, Shapes, MailShapes, LocalShapes, ScreenShapes, TurnShapes,
                           mail, locals, screen, turns

\* Every step keeps every shape.
LEMMA NextShapes ==
    ASSUME Shapes, PerSlot, Locals, Flights, Next PROVE Shapes'
<1>1. ASSUME UserNext PROVE Shapes'
  <2>1. CASE Drop
    BY <2>1, CloseShapes, NotifiedShape DEF Drop, Shapes, ScreenShapes
  <2> QED  BY <1>1, <2>1, SubmitShapes, CancelAskedShapes, SubmitLocalShapes DEF UserNext
<1>2. ASSUME ScreenNext PROVE Shapes'
  BY <1>2, PurgeAskedShapes, PollLocalShapes, PollEventShapes DEF ScreenNext
<1>3. ASSUME OwnerNext PROVE Shapes'
  BY <1>3, TakeLocalShapes, TakeCompletedShapes, TakeWorkShapes, ExecuteLocalShapes, IdleShapes,
     ReadCacheShapes, SendTerminalShapes, DispatchShapes, FinishWorkShapes DEF OwnerNext
<1>4. ASSUME FetchNext PROVE Shapes'
  BY <1>4, FetchTakesShapes, FetchEndsShapes DEF FetchNext
<1>5. ASSUME Panic PROVE Shapes'
  <2>1. panics' \in Nat /\ Close /\ running' \subseteq running /\ UNCHANGED <<idle, purging, dropped>>
        /\ pc' \in {Notified, "panicked"}
    BY <1>5 DEF Panic, OwnerPanics, FetchPanics, Shapes
  <2> QED  BY <2>1, CloseShapes, NotifiedShape DEF Shapes, ScreenShapes, Steps
<1> QED  BY <1>1, <1>2, <1>3, <1>4, <1>5 DEF Next
-----------------------------------------------------------------------------
(* Local requests                                                            *)

LEMMA SubmitLocalKeeps == ASSUME Shapes, Locals, SubmitLocal PROVE Locals'
<1> DEFINE n == Len(localEvents)
           h == Held
<1>1. local \in Seq(Nat) /\ accepted + 1 \in Nat /\ n \in Nat /\ h \in Nat
      /\ outstanding \in Nat /\ accepted \in Nat /\ acknowledged \in Nat
  BY LenProperties DEF Shapes, LocalShapes, Held
<1>2. /\ local' = Append(local, accepted + 1) /\ accepted' = accepted + 1
      /\ outstanding' = outstanding + 1 /\ outstanding < LocalCapacity /\ accepted < MaxLocal
      /\ UNCHANGED <<localEvents, request, acknowledged>>
  BY DEF SubmitLocal
<1>3. /\ Len(local') = Len(local) + 1 /\ Len(local) \in Nat
      /\ \A k \in DOMAIN local' : \/ k \in DOMAIN local /\ local'[k] = local[k]
                                  \/ k = Len(local) + 1 /\ local'[k] = accepted + 1
  BY <1>1, <1>2, AppendIndices, AppendProperties, LenProperties
<1>4. /\ \A k \in DOMAIN local : local[k] = acknowledged + n + h + k
      /\ accepted = acknowledged + n + h + Len(local)
      /\ outstanding = accepted - acknowledged
  BY DEF Locals, Answered, InHand, Queued, Counted
<1>5. \A k \in DOMAIN local' : local'[k] = acknowledged + n + h + k
  <2>1. accepted + 1 = acknowledged + n + h + (Len(local) + 1)
    <3> HIDE DEF n, h
    <3> QED  BY <1>1, <1>3, <1>4
  <2> QED  BY <1>3, <1>4, <2>1
<1>6. accepted' = acknowledged + n + h + Len(local') /\ outstanding' = accepted' - acknowledged
  BY <1>1, <1>2, <1>3, <1>4
<1>7. outstanding' <= LocalCapacity /\ accepted' <= MaxLocal
  BY <1>1, <1>2, SlotFacts
<1>8. Held' = h
  BY <1>2 DEF Held
<1>9. Answered' /\ InHand'
  BY <1>2 DEF Locals, Answered, InHand
<1>10. Counted'
  BY <1>2, <1>6, <1>7, <1>8 DEF Counted
<1>11. Queued'
  BY <1>2, <1>5, <1>8 DEF Queued
<1> QED  BY <1>9, <1>10, <1>11 DEF Locals

LEMMA PollLocalKeeps == ASSUME Shapes, Locals, PollLocal PROVE Locals'
<1> DEFINE n == Len(localEvents)
           h == Held
<1>1. /\ localEvents \in Seq(Nat) /\ localEvents # <<>> /\ n \in Nat \ {0} /\ h \in Nat
      /\ outstanding \in Nat /\ accepted \in Nat /\ acknowledged \in Nat /\ Len(local) \in Nat
      /\ DOMAIN local = 1..Len(local)
  BY EmptySeq, LenProperties DEF Shapes, LocalShapes, PollLocal, Held
<1>2. /\ localEvents' = Tail(localEvents) /\ outstanding' = outstanding - 1
      /\ acknowledged' = acknowledged + 1 /\ UNCHANGED <<local, request, accepted>>
  BY DEF PollLocal
<1>3. /\ Len(localEvents') = n - 1
      /\ \A k \in DOMAIN localEvents' : /\ k \in Nat /\ k + 1 \in DOMAIN localEvents
                                        /\ localEvents'[k] = localEvents[k + 1]
  <2>1. Tail(localEvents) \in Seq(Nat) /\ Len(Tail(localEvents)) = n - 1
    BY <1>1, HeadTailProperties
  <2>2. DOMAIN Tail(localEvents) = 1..(n - 1)
    BY <2>1, LenProperties
  <2>3. \A k \in DOMAIN Tail(localEvents) : k + 1 \in DOMAIN localEvents
                                            /\ Tail(localEvents)[k] = localEvents[k + 1]
    BY <1>1, TailIndices
  <2> QED  BY <1>1, <1>2, <2>1, <2>2, <2>3
<1>4. /\ \A k \in DOMAIN localEvents : localEvents[k] = acknowledged + k
      /\ request # 0 => request = acknowledged + n + 1
      /\ \A k \in DOMAIN local : local[k] = acknowledged + n + h + k
      /\ accepted = acknowledged + n + h + Len(local)
      /\ outstanding = accepted - acknowledged
      /\ outstanding <= LocalCapacity /\ accepted <= MaxLocal
  BY DEF Locals, Answered, InHand, Queued, Counted
<1>5. \A k \in DOMAIN localEvents' : localEvents'[k] = acknowledged' + k
  BY <1>1, <1>2, <1>3, <1>4
<1>6. request # 0 => request = acknowledged' + Len(localEvents') + 1
  BY <1>1, <1>2, <1>3, <1>4
<1>7. \A k \in DOMAIN local : local[k] = acknowledged' + Len(localEvents') + h + k
  BY <1>1, <1>2, <1>3, <1>4
<1>8. /\ accepted = acknowledged' + Len(localEvents') + h + Len(local)
      /\ outstanding' = accepted - acknowledged' /\ outstanding' <= LocalCapacity
  BY <1>1, <1>2, <1>3, <1>4, SlotFacts
<1>9. Held' = h /\ local' = local /\ accepted' = accepted /\ request' = request
  BY <1>2 DEF Held
<1> QED  BY <1>4, <1>5, <1>6, <1>7, <1>8, <1>9 DEF Locals, Answered, InHand, Queued, Counted

LEMMA TakeLocalKeeps == ASSUME Shapes, Locals, Owner, TakeLocal PROVE Locals'
<1> DEFINE n == Len(localEvents)
<1>1. /\ local \in Seq(Nat) /\ local # <<>> /\ n \in Nat /\ Len(local) \in Nat \ {0}
      /\ outstanding \in Nat /\ accepted \in Nat /\ acknowledged \in Nat /\ request = 0
  BY EmptySeq, LenProperties DEF Shapes, LocalShapes, TakeLocal, Owner
<1>2. /\ request' = Head(local) /\ local' = Tail(local)
      /\ UNCHANGED <<localEvents, outstanding, accepted, acknowledged>>
  BY DEF TakeLocal
<1>3. /\ Len(local') = Len(local) - 1 /\ Head(local) = local[1] /\ 1 \in DOMAIN local
      /\ \A k \in DOMAIN local' : /\ k \in Nat /\ k + 1 \in DOMAIN local
                                  /\ local'[k] = local[k + 1]
  <2>1. Tail(local) \in Seq(Nat) /\ Len(Tail(local)) = Len(local) - 1
    BY <1>1, HeadTailProperties
  <2>2. DOMAIN Tail(local) = 1..(Len(local) - 1)
    BY <2>1, LenProperties
  <2>3. /\ Head(local) = local[1] /\ 1 \in DOMAIN local
        /\ \A k \in DOMAIN Tail(local) : k + 1 \in DOMAIN local /\ Tail(local)[k] = local[k + 1]
    BY <1>1, TailIndices
  <2> QED  BY <1>1, <1>2, <2>1, <2>2, <2>3
<1>9a. Held = 0 /\ DOMAIN local = 1..Len(local)
  BY <1>1, LenProperties DEF Held
<1>4a. /\ \A k \in DOMAIN local : local[k] = acknowledged + n + Held + k
       /\ accepted = acknowledged + n + Held + Len(local)
  BY DEF Locals, Queued, Counted
<1>4. /\ \A k \in DOMAIN local : local[k] = acknowledged + n + k
      /\ accepted = acknowledged + n + Len(local)
  BY <1>1, <1>4a, <1>9a
<1>5. request' = acknowledged + n + 1 /\ request' # 0
  <2>1. request' = acknowledged + n + 1
    BY <1>2, <1>3, <1>4
  <2> HIDE DEF n
  <2> QED  BY <1>1, <2>1
<1>6. \A k \in DOMAIN local' : local'[k] = acknowledged + n + 1 + k
  BY <1>1, <1>3, <1>4
<1>7. accepted = acknowledged + n + 1 + Len(local')
  BY <1>1, <1>3, <1>4
<1>8. Held' = 1
  BY <1>5 DEF Held
<1>9. Answered' /\ InHand'
  BY <1>2, <1>5 DEF Locals, Answered, InHand
<1>10. Counted'
  BY <1>2, <1>7, <1>8 DEF Locals, Counted
<1>11. Queued'
  BY <1>2, <1>6, <1>8 DEF Queued
<1> QED  BY <1>9, <1>10, <1>11 DEF Locals

LEMMA ExecuteLocalKeeps == ASSUME Shapes, Locals, Owner, ExecuteLocal PROVE Locals'
<1> DEFINE n == Len(localEvents)
<1>1. /\ localEvents \in Seq(Nat) /\ n \in Nat /\ Len(local) \in Nat /\ DOMAIN local = 1..Len(local)
      /\ outstanding \in Nat /\ accepted \in Nat /\ acknowledged \in Nat
      /\ request \in Nat /\ request # 0
  BY LenProperties DEF Shapes, LocalShapes, ExecuteLocal, Owner
<1>2. /\ localEvents' = Append(localEvents, request) /\ request' = 0
      /\ UNCHANGED <<local, outstanding, accepted, acknowledged>>
  BY DEF ExecuteLocal
<1>3. /\ Len(localEvents') = n + 1
      /\ \A k \in DOMAIN localEvents' : \/ k \in DOMAIN localEvents /\ localEvents'[k] = localEvents[k]
                                        \/ k = n + 1 /\ localEvents'[k] = request
  BY <1>1, <1>2, AppendIndices, AppendProperties
<1>4a. Held = 1
  BY <1>1 DEF Held
<1>4. /\ \A k \in DOMAIN localEvents : localEvents[k] = acknowledged + k
      /\ request = acknowledged + n + 1
      /\ \A k \in DOMAIN local : local[k] = acknowledged + n + 1 + k
      /\ accepted = acknowledged + n + 1 + Len(local)
  BY <1>1, <1>4a DEF Locals, Answered, InHand, Queued, Counted
<1>5. \A k \in DOMAIN localEvents' : localEvents'[k] = acknowledged + k
  <2>1. request = acknowledged + (n + 1)
    <3> HIDE DEF n
    <3> QED  BY <1>1, <1>4
  <2> QED  BY <1>3, <1>4, <2>1
<1>6. \A k \in DOMAIN local : local[k] = acknowledged + (n + 1) + 0 + k
  BY <1>1, <1>4
<1>7. accepted = acknowledged + (n + 1) + 0 + Len(local)
  BY <1>1, <1>4
<1>8. Held' = 0
  BY <1>2 DEF Held
<1>9. Answered' /\ InHand'
  BY <1>2, <1>5 DEF Answered, InHand
<1>10. Counted'
  BY <1>2, <1>3, <1>7, <1>8 DEF Locals, Counted
<1>11. Queued'
  BY <1>2, <1>3, <1>6, <1>8 DEF Queued
<1> QED  BY <1>9, <1>10, <1>11 DEF Locals

\* Every other step, closing included, leaves the local requests alone.
LEMMA NextLocals == ASSUME Shapes, Locals, Owner, Next PROVE Locals'
<1>1. ASSUME UNCHANGED locals PROVE Locals'
  BY <1>1 DEF Locals, Answered, InHand, Queued, Counted, Held, locals
<1>2. ASSUME Close PROVE Locals'
  BY <1>2 DEF Close, LocalsKept, Locals, Answered, InHand, Queued, Counted, Held
<1>3. ASSUME UserNext PROVE Locals'
  BY <1>1, <1>2, <1>3, SubmitLocalKeeps DEF UserNext, Submit, CancelAsked, Drop
<1>4. ASSUME ScreenNext PROVE Locals'
  BY <1>1, <1>4, PollLocalKeeps DEF ScreenNext, PurgeAsked, PollEvent
<1>5. ASSUME OwnerNext PROVE Locals'
  BY <1>1, <1>5, TakeLocalKeeps, ExecuteLocalKeeps
     DEF OwnerNext, TakeCompleted, TakeWork, Park, Exit, OpenBackend, ReadCache, CannotFetch,
         Dispatch, CheckCompleted, Persist, SendTerminal, FinishWork
<1>6. ASSUME FetchNext PROVE Locals'
  BY <1>1, <1>6 DEF FetchNext, FetchTakes, FetchEnds
<1>7. ASSUME Panic PROVE Locals'
  BY <1>2, <1>7 DEF Panic, OwnerPanics, FetchPanics
<1> QED  BY <1>3, <1>4, <1>5, <1>6, <1>7 DEF Next
-----------------------------------------------------------------------------
(* Fetches                                                                   *)

Queueing == Len(completed) + Len(jobs) + Cardinality(running)

LEMMA FlightFacts ==
    ASSUME Shapes, Flights
    PROVE  /\ Len(completed) \in Nat /\ Len(jobs) \in Nat /\ Cardinality(running) \in Nat
           /\ inFlight \in Nat /\ started \in Nat /\ idle \in Nat
           /\ Queueing \in Nat /\ Queueing <= inFlight
BY LenProperties, FS_CardinalityType DEF Shapes, FetchShapes, Flights, Queueing

\* A step of the owner that neither takes nor starts a fetch.
LEMMA QuietFlights ==
    ASSUME Flights, UNCHANGED fetches, pc' \in {"read", "prepare"} => inFlight < FetchThreads
    PROVE  Flights'
BY DEF Flights, fetches

LEMMA CloseFlights ==
    ASSUME Shapes, Flights, Close, idle' = idle,
           running' = running \/ (\E w \in running : running' = running \ {w}),
           pc' \in {pc, "next", "panicked"}
    PROVE  Flights'
<1>1. Len(completed') = 0
  BY EmptySeq DEF Close
<1>2. IsFiniteSet(running') /\ Cardinality(running') \in Nat /\ Cardinality(running') <= Cardinality(running)
  <2>1. running' \subseteq running /\ IsFiniteSet(running)
    BY DEF Flights
  <2>2. IsFiniteSet(running') /\ Cardinality(running') <= Cardinality(running)
    BY <2>1, FS_Subset
  <2> QED  BY <2>2, FS_CardinalityType
<1>3. UNCHANGED <<jobs, inFlight, started>>
  BY DEF Close
<1>4. Len(completed') + Len(jobs') + Cardinality(running') <= inFlight'
  BY <1>1, <1>2, <1>3, FlightFacts DEF Queueing
<1>5. idle' + Cardinality(running') <= started'
  BY <1>2, <1>3, FlightFacts DEF Flights
<1> QED  BY <1>2, <1>3, <1>4, <1>5 DEF Flights

LEMMA TakeCompletedFlights == ASSUME Shapes, Flights, TakeCompleted PROVE Flights'
<1>1. Len(completed') = Len(completed) - 1
  BY HeadTailProperties DEF TakeCompleted, Shapes, FetchShapes
<1>2. UNCHANGED <<jobs, running, idle, started>> /\ inFlight' = inFlight - 1 /\ pc' = "check"
  BY DEF TakeCompleted
<1>3. Len(completed') + Len(jobs') + Cardinality(running') <= inFlight' /\ inFlight' <= FetchThreads
  <2>1. inFlight <= FetchThreads
    BY DEF Flights
  <2> QED  BY <1>1, <1>2, <2>1, FlightFacts, SlotFacts DEF Queueing
<1> QED  BY <1>2, <1>3 DEF Flights

LEMMA DispatchFlights == ASSUME Shapes, Flights, Dispatch PROVE Flights'
<1>1. Len(jobs') = Len(jobs) + 1
  <2>1. [work EXCEPT !.refresh = FALSE] \in Jobs
    BY JobShape DEF Shapes, OwnerShapes
  <2> QED  BY <2>1, AppendProperties DEF Dispatch, Shapes, FetchShapes
<1>2. UNCHANGED <<completed, running, idle, started>> /\ inFlight' = inFlight + 1 /\ pc' = "next"
      /\ inFlight < FetchThreads
  BY DEF Dispatch, Goes, Flights
<1>3. Len(completed') + Len(jobs') + Cardinality(running') <= inFlight' /\ inFlight' <= FetchThreads
  BY <1>1, <1>2, FlightFacts, SlotFacts DEF Queueing
<1> QED  BY <1>2, <1>3 DEF Flights

LEMMA FetchTakesFlights == ASSUME Shapes, Flights, FetchTakes PROVE Flights'
<1>1. Len(jobs') = Len(jobs) - 1
  BY HeadTailProperties DEF FetchTakes, Shapes, FetchShapes
<1>2. UNCHANGED <<completed, inFlight, started, pc>> /\ idle' = idle - 1
      /\ running' = running \cup {Head(jobs)}
  BY DEF FetchTakes, owner
<1>3. IsFiniteSet(running') /\ Cardinality(running') <= Cardinality(running) + 1
      /\ Cardinality(running') \in Nat
  <2>1. IsFiniteSet(running)
    BY DEF Flights
  <2>2. IsFiniteSet(running') /\ (\/ Cardinality(running') = Cardinality(running)
                                  \/ Cardinality(running') = Cardinality(running) + 1)
    BY <1>2, <2>1, FS_AddElement
  <2> QED  BY <2>2, FlightFacts, FS_CardinalityType
<1>4. Len(completed') + Len(jobs') + Cardinality(running') <= inFlight'
  BY <1>1, <1>2, <1>3, FlightFacts DEF Queueing
<1>5. idle' + Cardinality(running') <= started'
  <2>1. idle + Cardinality(running) <= started
    BY DEF Flights
  <2> QED  BY <1>2, <1>3, <2>1, FlightFacts
<1> QED  BY <1>2, <1>3, <1>4, <1>5 DEF Flights

LEMMA FetchEndsFlights == ASSUME Shapes, Flights, NEW w \in running, FetchEnds(w) PROVE Flights'
<1>1. UNCHANGED <<jobs, inFlight, started>> /\ idle' = idle + 1 /\ running' = running \ {w}
      /\ completed' \in {completed, Append(completed, w)} /\ pc' \in {pc, "next"}
  BY DEF FetchEnds, Told, Notified
<1>2. Len(completed') <= Len(completed) + 1 /\ Len(completed') \in Nat
  <2>1. w \in Jobs
    BY DEF Shapes, FetchShapes
  <2>2. Len(Append(completed, w)) = Len(completed) + 1
    BY <2>1, AppendProperties DEF Shapes, FetchShapes
  <2> QED  BY <1>1, <2>2, FlightFacts
<1>3. IsFiniteSet(running') /\ Cardinality(running') = Cardinality(running) - 1
  BY <1>1, FS_RemoveElement DEF Flights
<1>4. Len(completed') + Len(jobs') + Cardinality(running') <= inFlight'
  BY <1>1, <1>2, <1>3, FlightFacts DEF Queueing
<1>5. idle' + Cardinality(running') <= started'
  <2>1. idle + Cardinality(running) <= started
    BY DEF Flights
  <2> QED  BY <1>1, <1>3, <2>1, FlightFacts
<1> QED  BY <1>1, <1>3, <1>4, <1>5 DEF Flights

LEMMA NextFlights == ASSUME Shapes, Flights, Next PROVE Flights'
<1>1. ASSUME UserNext PROVE Flights'
  <2>1. CASE Drop
    BY <2>1, CloseFlights DEF Drop, Notified
  <2> QED  BY <1>1, <2>1, QuietFlights DEF UserNext, Submit, CancelAsked, SubmitLocal, Notified,
                                           owner, Flights
<1>2. ASSUME ScreenNext PROVE Flights'
  BY <1>2, QuietFlights DEF ScreenNext, PurgeAsked, PollLocal, PollEvent, owner, Flights
<1>3. ASSUME OwnerNext PROVE Flights'
  BY <1>3, QuietFlights, TakeCompletedFlights, DispatchFlights
     DEF OwnerNext, TakeLocal, TakeWork, Admits, Park, Exit, ExecuteLocal, OpenBackend, ReadCache,
         CannotFetch, CheckCompleted, Persist, SendTerminal, FinishWork, Goes, Flights
<1>4. ASSUME FetchNext PROVE Flights'
  BY <1>4, FetchTakesFlights, FetchEndsFlights DEF FetchNext
<1>5. ASSUME Panic PROVE Flights'
  BY <1>5, CloseFlights DEF Panic, OwnerPanics, FetchPanics, Notified
<1> QED  BY <1>1, <1>2, <1>3, <1>4, <1>5 DEF Next

-----------------------------------------------------------------------------
(* Turns                                                                     *)

LEMMA DistanceIs ==
    ASSUME NEW s \in Slot, next \in Slot
    PROVE  Distance(s) = IF s >= next THEN s - next ELSE (s - next) + Slots
<1> DEFINE d == s - next
<1>1. Slots \in Nat \ {0} /\ d \in Int /\ -Slots < d /\ d < Slots /\ (s >= next <=> d >= 0)
  BY SlotFacts DEF Slot
<1>2. Distance(s) = (d + Slots) % Slots
  BY DEF Distance
<1> HIDE DEF d
<1>3. CASE d >= 0
  <2>1. (d + Slots) % Slots = d
    BY <1>1, <1>3
  <2> QED  BY <1>1, <1>2, <1>3, <2>1 DEF d
<1>4. CASE ~(d >= 0)
  <2>1. (d + Slots) % Slots = d + Slots
    BY <1>1, <1>4
  <2> QED  BY <1>1, <1>2, <1>4, <2>1 DEF d
<1> QED  BY <1>3, <1>4

LEMMA NextTurnIs ==
    ASSUME NEW s \in Slot PROVE NextTurn(s) = IF s = Slots THEN 1 ELSE s + 1
<1>1. Slots \in Nat \ {0} /\ s \in 1..Slots
  BY SlotFacts DEF Slot
<1>2. CASE s = Slots
  <2>1. Slots % Slots = 0
    BY <1>1
  <2> QED  BY <1>2, <2>1 DEF NextTurn
<1>3. CASE s # Slots
  <2>1. s % Slots = s
    BY <1>1, <1>3
  <2> QED  BY <1>3, <2>1 DEF NextTurn
<1> QED  BY <1>2, <1>3

\* How often a slot was passed over, and how far it is from its turn.
Patient(s) == IF Pending(s) THEN bypassed[s] + Distance(s) < Slots ELSE bypassed[s] = 0

\* Serving another slot brings a waiting one nearer by at least one.
LEMMA ServedNearer ==
    ASSUME Shapes, NEW s \in Slot, NEW t \in Slot, s # t, Distance(s) <= Distance(t),
           next' = NextTurn(s)
    PROVE  Distance(t)' <= Distance(t) - 1 /\ Distance(t) \in Nat /\ Distance(t)' \in Nat
<1>1. Slots \in Nat \ {0} /\ s \in 1..Slots /\ t \in 1..Slots /\ next \in 1..Slots
  BY SlotFacts DEF Slot, Shapes, MailShapes
<1>2. next' = IF s = Slots THEN 1 ELSE s + 1
  BY NextTurnIs
<1>3. next' \in 1..Slots
  BY <1>1, <1>2
<1>4. /\ Distance(s) = IF s >= next THEN s - next ELSE (s - next) + Slots
      /\ Distance(t) = IF t >= next THEN t - next ELSE (t - next) + Slots
  BY <1>1, DistanceIs DEF Slot
<1>5. Distance(t)' = IF t >= next' THEN t - next' ELSE (t - next') + Slots
  <2> DEFINE D(n) == ((t - n) + Slots) % Slots
  <2>1. ASSUME NEW n \in Slot PROVE D(n) = IF t >= n THEN t - n ELSE (t - n) + Slots
    <3>1. n \in 1..Slots
      BY DEF Slot
    <3>2. CASE t >= n
      <4>1. t - n >= 0 /\ t - n < Slots /\ t - n \in Int
        BY <1>1, <3>1, <3>2
      <4> DEFINE d == t - n
      <4>3. Slots \in Nat \ {0} /\ d >= 0 /\ d < Slots /\ d \in Int
        BY <1>1, <4>1
      <4> HIDE DEF d
      <4>2. (d + Slots) % Slots = d
        BY <4>3
      <4> QED  BY <3>2, <4>2 DEF d
    <3>3. CASE ~(t >= n)
      <4>1. t - n < 0 /\ -Slots < t - n /\ t - n \in Int
        BY <1>1, <3>1, <3>3
      <4> DEFINE d == t - n
      <4>3. Slots \in Nat \ {0} /\ d < 0 /\ -Slots < d /\ d \in Int
        BY <1>1, <4>1
      <4> HIDE DEF d
      <4>2. (d + Slots) % Slots = d + Slots
        BY <4>3
      <4> QED  BY <3>3, <4>2 DEF d
    <3> QED  BY <3>2, <3>3
  <2>2. Distance(t)' = D(next')
    BY DEF Distance
  <2> HIDE DEF D
  <2>3. next' \in Slot
    BY <1>3 DEF Slot
  <2> QED  BY <2>1, <2>2, <2>3
<1> QED  BY <1>1, <1>2, <1>3, <1>4, <1>5

\* A distance is a number of slots.
LEMMA DistanceShape == ASSUME Shapes, NEW s \in Slot PROVE Distance(s) \in 0..(Slots - 1)
<1>1. Slots \in Nat \ {0} /\ s \in 1..Slots /\ next \in 1..Slots
  BY SlotFacts DEF Slot, Shapes, MailShapes
<1>2. Distance(s) = IF s >= next THEN s - next ELSE (s - next) + Slots
  BY <1>1, DistanceIs DEF Slot
<1> QED  BY <1>1, <1>2

LEMMA TakeWorkTurns == ASSUME Shapes, Turns, NEW s \in Slot, TakeWork(s) PROVE Turns'
<1>1. ASSUME NEW t \in Slot PROVE Patient(t)'
  <2>1. CASE t # s /\ Pending(t)
    <3>1. bypassed'[t] = bypassed[t] + 1 /\ pending'[t] = pending[t] /\ next' = NextTurn(s)
      BY <2>1 DEF TakeWork, Shapes, MailShapes
    <3>2. Distance(s) <= Distance(t)
      BY <2>1 DEF TakeWork, Turn
    <3>3. Distance(t)' <= Distance(t) - 1 /\ Distance(t)' \in Nat
      BY <2>1, <3>1, <3>2, ServedNearer
    <3>4. bypassed[t] + Distance(t) < Slots
      BY <2>1 DEF Turns
    <3>5. bypassed[t] \in Nat /\ Distance(t) \in Nat /\ Distance(t)' \in Int /\ Slots \in Nat
      BY <3>3, DistanceShape, SlotFacts DEF Shapes, TurnShapes
    <3>6. bypassed'[t] + Distance(t)' < Slots
      BY <3>1, <3>3, <3>4, <3>5
    <3> QED  BY <2>1, <3>1, <3>6 DEF Patient, Pending
  <2>2. CASE ~(t # s /\ Pending(t))
    <3>1. bypassed'[t] = 0 /\ ~Pending(t)'
      BY <2>2 DEF TakeWork, Pending, Shapes, MailShapes
    <3> QED  BY <3>1 DEF Patient
  <2> QED  BY <2>1, <2>2
<1>2. yielded' = 0 /\ burst' = 0
  BY DEF TakeWork
<1> QED  BY <1>1, <1>2, SlotFacts DEF Turns, Patient

LEMMA SubmitTurns ==
    ASSUME Shapes, Turns, NEW s \in Slot, NEW joins \in BOOLEAN, NEW refresh \in BOOLEAN,
           Submit(s, joins, refresh)
    PROVE  Turns'
<1>1. UNCHANGED <<next, turns>>
  BY DEF Submit
<1>2. ASSUME NEW t \in Slot PROVE Patient(t)'
  <2>1. Distance(t)' = Distance(t) /\ bypassed'[t] = bypassed[t]
    BY <1>1 DEF Distance, turns
  <2>2. Distance(t) \in 0..(Slots - 1) /\ Slots \in Nat
    BY DistanceShape, SlotFacts
  <2>3. CASE t = s
    <3>1. bypassed[s] + Distance(s) < Slots
      BY <2>2, <2>3 DEF Turns
    <3>2. Pending(s)'
      <4>1. asked[s].gen \in Nat
        BY DEF Shapes, ScreenShapes, Askings
      <4>2. asked[s].gen + 1 # 0
        BY <4>1
      <4>3. pending'[s].gen = asked[s].gen + 1
        BY DEF Submit, Joined, Shapes, MailShapes
      <4> QED  BY <4>2, <4>3 DEF Pending, NoRequest
    <3> QED  BY <2>1, <2>3, <3>1, <3>2 DEF Patient
  <2>4. CASE t # s
    <3>1. Pending(t)' <=> Pending(t)
      BY <2>4 DEF Submit, Pending, Shapes, MailShapes
    <3> QED  BY <2>1, <3>1 DEF Patient, Turns
  <2> QED  BY <2>3, <2>4
<1> QED  BY <1>1, <1>2 DEF Turns, Patient, turns

LEMMA CancelAskedTurns == ASSUME Shapes, Turns, NEW s \in Slot, CancelAsked(s) PROVE Turns'
<1>1. UNCHANGED <<next, burst, yielded>>
  BY DEF CancelAsked
<1>2. ASSUME NEW t \in Slot PROVE Patient(t)'
  <2>1. Distance(t)' = Distance(t)
    BY <1>1 DEF Distance
  <2>2. \/ bypassed'[t] = bypassed[t] /\ pending'[t] = pending[t]
        \/ bypassed'[t] = 0 /\ pending'[t] = NoRequest
    BY DEF CancelAsked, Shapes, MailShapes, TurnShapes
  <2> QED  BY <2>1, <2>2 DEF Patient, Turns, Pending
<1> QED  BY <1>1, <1>2 DEF Turns, Patient

LEMMA TakeLocalTurns == ASSUME Shapes, Turns, Owner, TakeLocal PROVE Turns'
<1>1. yielded \in Nat /\ burst \in Nat /\ LocalBurst \in Nat \ {0} /\ yielded <= burst /\ burst <= LocalBurst
  BY SlotFacts DEF Shapes, TurnShapes, Turns
<1>2. closed => ~Waiting
  BY DEF Owner, Waiting
<1>3. yielded' <= burst' /\ burst' <= LocalBurst
  <2>1. CASE Waiting
    <3>1. burst' = burst + 1 /\ yielded' = yielded + 1 /\ burst < LocalBurst
      BY <1>2, <2>1 DEF TakeLocal, LocalFirst
    <3> QED  BY <1>1, <3>1
  <2>2. CASE ~Waiting
    <3>1. yielded' = 0
      BY <2>2 DEF TakeLocal
    <3>2. \/ burst' = burst
          \/ burst' = burst + 1 /\ burst < LocalBurst
          \/ burst' = 1
      BY DEF TakeLocal, LocalFirst
    <3> QED  BY <1>1, <3>1, <3>2
  <2> QED  BY <2>1, <2>2
<1>4. UNCHANGED <<pending, next, bypassed>>
  BY DEF TakeLocal, mail
<1> QED  BY <1>3, <1>4 DEF Turns, Pending, Distance

LEMMA QuietTurns == ASSUME Turns, UNCHANGED <<pending, next, turns>> PROVE Turns'
BY DEF Turns, Pending, Distance, turns

LEMMA CloseTurns == ASSUME Turns, Close PROVE Turns'
BY DEF Turns, Pending, Close

LEMMA NextTurns == ASSUME Shapes, Turns, Owner, Next PROVE Turns'
<1>1. ASSUME UserNext PROVE Turns'
  <2>1. ASSUME SubmitLocal PROVE Turns'
    BY <2>1, QuietTurns DEF SubmitLocal, mail
  <2>2. ASSUME Drop PROVE Turns'
    BY <2>2, CloseTurns DEF Drop
  <2> QED  BY <1>1, <2>1, <2>2, SubmitTurns, CancelAskedTurns DEF UserNext
<1>2. ASSUME ScreenNext PROVE Turns'
  BY <1>2, QuietTurns DEF ScreenNext, PurgeAsked, PollLocal, PollEvent, mail
<1>3. ASSUME OwnerNext PROVE Turns'
  <2>1. ASSUME TakeCompleted PROVE Turns'
    BY <2>1, SlotFacts DEF TakeCompleted, Turns, Pending, Distance, mail
  <2> QED
    BY <1>3, <2>1, QuietTurns, TakeLocalTurns, TakeWorkTurns
       DEF OwnerNext, Park, Exit, ExecuteLocal, OpenBackend, ReadCache,
           CannotFetch, Dispatch, CheckCompleted, Persist, SendTerminal, FinishWork, mail
<1>4. ASSUME FetchNext PROVE Turns'
  BY <1>4, QuietTurns DEF FetchNext, FetchTakes, FetchEnds, mail
<1>5. ASSUME Panic PROVE Turns'
  BY <1>5, CloseTurns DEF Panic, OwnerPanics, FetchPanics
<1> QED  BY <1>1, <1>2, <1>3, <1>4, <1>5 DEF Next
-----------------------------------------------------------------------------
(* The owner                                                                 *)

\* Closing leaves the owner what it holds.
LEMMA CloseOwner ==
    ASSUME Owner, Close, UNCHANGED <<work, request>>, panics' <= MaxPanics,
           pc' \in {Notified, "panicked"}
    PROVE  Owner'
BY DEF Owner, Close, Notified, Pending

LEMMA TakeLocalOwner == ASSUME Shapes, Locals, Owner, TakeLocal PROVE Owner'
<1>1. local \in Seq(Nat) /\ local # <<>> /\ request = 0 /\ Len(localEvents) \in Nat
      /\ acknowledged \in Nat
  BY LenProperties DEF Shapes, LocalShapes, Owner, TakeLocal
<1>2. Head(local) = local[1] /\ 1 \in DOMAIN local
  BY <1>1, TailIndices
<1>3. Held = 0
  BY <1>1 DEF Held
<1>4. local[1] = acknowledged + Len(localEvents) + 0 + 1
  BY <1>2, <1>3 DEF Locals, Queued
<1>5. request' # 0 /\ pc' = "local" /\ work' = work /\ pc = "next"
  BY <1>1, <1>2, <1>4 DEF TakeLocal
<1>6. UNCHANGED <<closed, completed, pending, panics>>
  BY DEF TakeLocal, mail, fetches
<1> QED  BY <1>5, <1>6 DEF Owner, Pending

LEMMA NextOwner == ASSUME Shapes, Locals, Owner, Next PROVE Owner'
<1>1. ASSUME UserNext PROVE Owner'
  <2>1. ASSUME NEW s \in Slot, NEW joins \in BOOLEAN, NEW refresh \in BOOLEAN, Submit(s, joins, refresh)
        PROVE Owner'
    BY <2>1 DEF Submit, Notified, Owner, locals, fetches
  <2>2. ASSUME NEW s \in Slot, CancelAsked(s) PROVE Owner'
    <3>1. \A t \in Slot : Pending(t)' => Pending(t)
      BY <2>2 DEF CancelAsked, Pending, Shapes, MailShapes
    <3> QED  BY <2>2, <3>1 DEF CancelAsked, Owner, owner, locals, fetches
  <2>3. ASSUME SubmitLocal PROVE Owner'
    BY <2>3 DEF SubmitLocal, Notified, Owner, Pending, mail, fetches
  <2>4. ASSUME Drop PROVE Owner'
    <3>1. panics' <= MaxPanics
      BY <2>4 DEF Drop, Owner
    <3> QED  BY <2>4, <3>1, CloseOwner DEF Drop, Close
  <2> QED  BY <1>1, <2>1, <2>2, <2>3, <2>4 DEF UserNext
<1>2. ASSUME ScreenNext PROVE Owner'
  BY <1>2 DEF ScreenNext, PurgeAsked, PollLocal, PollEvent, Owner, Pending, mail, locals, fetches,
              owner
<1>3. ASSUME OwnerNext PROVE Owner'
  <2>1. ASSUME TakeCompleted PROVE Owner'
    BY <2>1 DEF TakeCompleted, Owner, Pending, mail, locals
  <2>2. ASSUME NEW s \in Slot, TakeWork(s) PROVE Owner'
    BY <2>2 DEF TakeWork, Owner, locals, fetches
  <2>3. ASSUME Park \/ Exit PROVE Owner'
    BY <2>3 DEF Park, Exit, Owner, Pending, mail, locals, fetches
  <2>6. ASSUME ExecuteLocal PROVE Owner'
    BY <2>6 DEF ExecuteLocal, Owner, Pending, mail, fetches
  <2>7. ASSUME Dispatch PROVE Owner'
    BY <2>7 DEF Dispatch, Goes, Owner, Pending, mail, locals
  <2>8. ASSUME OpenBackend \/ CannotFetch \/ CheckCompleted \/ Persist \/ SendTerminal
        PROVE  Owner'
    BY <2>8 DEF OpenBackend, CannotFetch, CheckCompleted, Persist, SendTerminal, Goes,
                Owner, Pending, mail, locals, fetches
  <2>4. ASSUME NEW found \in {"hit", "miss", "error"}, NEW refreshing \in BOOLEAN,
               ReadCache(found, refreshing)
        PROVE  Owner'
    BY <2>4 DEF ReadCache, Owner, Pending, mail, locals, fetches
  <2>5. ASSUME FinishWork PROVE Owner'
    BY <2>5 DEF FinishWork, Goes, Owner, Pending, locals, fetches
  <2> QED  BY <1>3, <2>1, <2>2, <2>3, <2>4, <2>5, <2>6, <2>7, <2>8, TakeLocalOwner
           DEF OwnerNext
<1>4. ASSUME FetchNext PROVE Owner'
  <2>1. ASSUME FetchTakes PROVE Owner'
    BY <2>1 DEF FetchTakes, Owner, Pending, mail, locals, owner
  <2>2. ASSUME NEW w \in running, FetchEnds(w) PROVE Owner'
    BY <2>2 DEF FetchEnds, Told, Notified, Owner, Pending, mail, locals
  <2> QED  BY <1>4, <2>1, <2>2 DEF FetchNext
<1>5. ASSUME Panic PROVE Owner'
  <2>1. panics' <= MaxPanics
    BY <1>5, SlotFacts DEF Panic, OwnerPanics, FetchPanics, Shapes
  <2> QED  BY <1>5, <2>1, CloseOwner DEF Panic, OwnerPanics, FetchPanics, Close
<1> QED  BY <1>1, <1>2, <1>3, <1>4, <1>5 DEF Next

\* A request that is neither submitted nor completed wakes nobody.
LEMMA NextRests == ASSUME Shapes, Owner, NeverRestsWithWork, Next PROVE NeverRestsWithWork'
<1>1. ASSUME UNCHANGED <<closed, local, request, completed, inFlight>>, pc' = pc,
             \A s \in Slot : Pending(s)' => Pending(s)
      PROVE  NeverRestsWithWork'
  BY <1>1 DEF NeverRestsWithWork, Waiting, Admits
<1>2. ASSUME pc' \notin {"parked", "exited"} PROVE NeverRestsWithWork'
  BY <1>2 DEF NeverRestsWithWork
<1>3. ASSUME Close, UNCHANGED request, pc' \in {Notified, "panicked"} PROVE NeverRestsWithWork'
  BY <1>3 DEF Close, LocalsKept, Notified, NeverRestsWithWork
<1>4. ASSUME UserNext PROVE NeverRestsWithWork'
  <2>1. ASSUME NEW s \in Slot, NEW joins \in BOOLEAN, NEW refresh \in BOOLEAN, Submit(s, joins, refresh)
        PROVE NeverRestsWithWork'
    BY <2>1, <1>2 DEF Submit, Notified, Owner
  <2>2. ASSUME NEW s \in Slot, CancelAsked(s) PROVE NeverRestsWithWork'
    <3>1. \A t \in Slot : Pending(t)' => Pending(t)
      BY <2>2 DEF CancelAsked, Pending, Shapes, MailShapes
    <3> QED  BY <1>1, <2>2, <3>1 DEF CancelAsked, owner, locals, fetches
  <2>3. ASSUME SubmitLocal PROVE NeverRestsWithWork'
    BY <2>3, <1>2 DEF SubmitLocal, Notified, Owner
  <2>4. ASSUME Drop PROVE NeverRestsWithWork'
    BY <1>3, <2>4 DEF Drop, Close
  <2> QED  BY <1>4, <2>1, <2>2, <2>3, <2>4 DEF UserNext
<1>5. ASSUME ScreenNext PROVE NeverRestsWithWork'
  BY <1>1, <1>5 DEF ScreenNext, PurgeAsked, PollLocal, PollEvent, Pending, mail, locals, fetches, owner
<1>6. ASSUME OwnerNext PROVE NeverRestsWithWork'
  <2>1. ASSUME Park PROVE NeverRestsWithWork'
    BY <2>1 DEF Park, NeverRestsWithWork, Waiting, Admits, Pending, mail, locals, fetches
  <2>2. ASSUME Exit PROVE NeverRestsWithWork'
    BY <2>2 DEF Exit, NeverRestsWithWork, Owner, mail, locals, fetches
  <2> QED
    BY <1>2, <1>6, <2>1, <2>2
       DEF OwnerNext, TakeLocal, TakeCompleted, TakeWork, ExecuteLocal, OpenBackend, ReadCache,
           CannotFetch, Dispatch, CheckCompleted, Persist, SendTerminal, FinishWork, Goes
<1>7. ASSUME FetchNext PROVE NeverRestsWithWork'
  <2>1. ASSUME FetchTakes PROVE NeverRestsWithWork'
    BY <1>1, <2>1 DEF FetchTakes, Pending, mail, locals, owner
  <2>2. ASSUME NEW w \in running, FetchEnds(w) PROVE NeverRestsWithWork'
    BY <2>2 DEF FetchEnds, Told, Notified, NeverRestsWithWork, locals
  <2> QED  BY <1>7, <2>1, <2>2 DEF FetchNext
<1>8. ASSUME Panic PROVE NeverRestsWithWork'
  BY <1>3, <1>8 DEF Panic, OwnerPanics, FetchPanics, Close
<1> QED  BY <1>4, <1>5, <1>6, <1>7, <1>8 DEF Next
-----------------------------------------------------------------------------
(* Work                                                                      *)

\* Taking the first of a queue takes that work and no other.
LEMMA TakeFirst ==
    ASSUME NEW q \in Seq(Jobs), q # <<>>, Distinct(q)
    PROVE  /\ Head(q) \in Jobs /\ Has(q, Head(q).slot, Head(q).gen)
           /\ Distinct(Tail(q))
           /\ \A s \in Slot, g \in Nat :
                 Has(Tail(q), s, g) <=> Has(q, s, g) /\ ~Is(Head(q), s, g)
<1>1. Len(q) \in Nat \ {0} /\ DOMAIN q = 1..Len(q) /\ Head(q) \in Jobs /\ Len(Tail(q)) = Len(q) - 1
  BY EmptySeq, LenProperties, HeadTailProperties
<1>2. DOMAIN Tail(q) = 1..(Len(q) - 1)
  BY <1>1, HeadTailProperties, LenProperties
<1>3. /\ \A i \in DOMAIN Tail(q) : i + 1 \in DOMAIN q /\ Tail(q)[i] = q[i + 1]
      /\ Head(q) = q[1] /\ 1 \in DOMAIN q
  BY TailIndices
<1>4. \A k \in DOMAIN q : k = 1 \/ (k - 1 \in DOMAIN Tail(q) /\ (k - 1) + 1 = k)
  BY <1>1, <1>2
<1>5. Has(q, Head(q).slot, Head(q).gen)
  BY <1>3 DEF Has, Is
<1>6. Distinct(Tail(q))
  <2> SUFFICES ASSUME NEW j \in DOMAIN Tail(q), NEW k \in DOMAIN Tail(q), Alike(Tail(q)[j], Tail(q)[k])
               PROVE j = k
    BY DEF Distinct
  <2>1. j + 1 = k + 1
    BY <1>3 DEF Distinct
  <2> QED  BY <1>1, <1>2, <2>1
<1>7. ASSUME NEW s \in Slot, NEW g \in Nat, Has(Tail(q), s, g)
      PROVE Has(q, s, g) /\ ~Is(Head(q), s, g)
  <2>1. PICK i \in DOMAIN Tail(q) : Is(Tail(q)[i], s, g)
    BY <1>7 DEF Has
  <2>2. i + 1 \in DOMAIN q /\ Is(q[i + 1], s, g) /\ i + 1 # 1
    BY <1>1, <1>2, <1>3, <2>1
  <2>3. ~Is(q[1], s, g)
    BY <1>3, <2>2 DEF Is, Distinct, Alike
  <2> QED  BY <1>3, <2>2, <2>3 DEF Has
<1>8. ASSUME NEW s \in Slot, NEW g \in Nat, Has(q, s, g), ~Is(Head(q), s, g)
      PROVE Has(Tail(q), s, g)
  <2>1. PICK k \in DOMAIN q : Is(q[k], s, g)
    BY <1>8 DEF Has
  <2>2. k - 1 \in DOMAIN Tail(q) /\ (k - 1) + 1 = k
    BY <1>3, <1>4, <1>8, <2>1
  <2>3. Tail(q)[k - 1] = q[k]
    BY <1>3, <2>2
  <2> QED  BY <2>1, <2>2, <2>3 DEF Has
<1> QED  BY <1>1, <1>5, <1>6, <1>7, <1>8

\* Adding a work that is not queued adds it once.
LEMMA AddLast ==
    ASSUME NEW q \in Seq(Jobs), NEW w \in Jobs, Distinct(q), ~Has(q, w.slot, w.gen)
    PROVE  /\ Distinct(Append(q, w))
           /\ \A s \in Slot, g \in Nat :
                 Has(Append(q, w), s, g) <=> Has(q, s, g) \/ Is(w, s, g)
<1> DEFINE a == Append(q, w)
           n == Len(q) + 1
<1>1. /\ n \notin DOMAIN q /\ a[n] = w
      /\ \A i \in DOMAIN a : i \in DOMAIN q \/ i = n
      /\ \A i \in DOMAIN q : a[i] = q[i]
  BY AppendPlace
<1>2. n \in DOMAIN a /\ \A i \in DOMAIN q : i \in DOMAIN a
  <2>1. DOMAIN q = 1..Len(q) /\ Len(q) \in Nat /\ DOMAIN a = 1..Len(a) /\ Len(a) = Len(q) + 1
    BY LenProperties, AppendProperties
  <2> QED  BY <2>1
<1> HIDE DEF a, n
<1>3. \A i \in DOMAIN q : ~Alike(q[i], w) /\ ~Alike(w, q[i])
  BY DEF Has, Is, Alike
<1>4. Distinct(a)
  BY <1>1, <1>3 DEF Distinct
<1>5. \A s \in Slot, g \in Nat : Has(a, s, g) <=> Has(q, s, g) \/ Is(w, s, g)
  BY <1>1, <1>2 DEF Has
<1> QED  BY <1>4, <1>5 DEF a

\* A step brings no work, revives none, and silences none but by its end.
WorkKept ==
    /\ Single'
    /\ \A s \in Slot, g \in Nat :
          /\ AtWork(s, g)' => AtWork(s, g)
          /\ Live(s, g)' => Live(s, g)
          /\ ~closed' /\ Live(s, g) => Live(s, g)' \/ (pc' = "finish" /\ OwnerHas(s, g)')

LEMMA QuietWork ==
    ASSUME Single, UNCHANGED <<completed, jobs, running, work>>,
           \/ pc' = pc
           \/ pc \notin Busy /\ pc' \notin Busy
           \/ pc \in Busy \ {"finish"} /\ pc' \in Busy
    PROVE  WorkKept
<1>1. ASSUME NEW s \in Slot, NEW g \in Nat
      PROVE  /\ RunHas(s, g)' <=> RunHas(s, g)
             /\ Has(jobs, s, g)' <=> Has(jobs, s, g)
             /\ Has(completed, s, g)' <=> Has(completed, s, g)
             /\ OwnerHas(s, g)' <=> OwnerHas(s, g)
  BY DEF RunHas, Has, OwnerHas
<1>2. Single'
  BY <1>1 DEF Single, Apart
<1>3. "finish" \in Busy
  BY DEF Busy
<1> QED  BY <1>1, <1>2, <1>3 DEF WorkKept, AtWork, Live

LEMMA CloseWork ==
    ASSUME Single, Close, running' \subseteq running, pc' \in {Notified, "panicked"}
    PROVE  WorkKept
<1>1. completed' = <<>> /\ jobs' = jobs /\ work' = work /\ closed'
  BY DEF Close
<1>2. DOMAIN completed' = {}
  BY <1>1
<1>3. ASSUME NEW s \in Slot, NEW g \in Nat
      PROVE  /\ RunHas(s, g)' => RunHas(s, g)
             /\ Has(jobs, s, g)' <=> Has(jobs, s, g)
             /\ ~Has(completed, s, g)'
             /\ OwnerHas(s, g)' => OwnerHas(s, g) /\ pc' = pc
  BY <1>1, <1>2 DEF RunHas, Has, OwnerHas, Notified, Busy
<1>4. Distinct(completed)' /\ Distinct(jobs)'
  BY <1>1, <1>2 DEF Distinct, Single
<1>5. Single'
  BY <1>3, <1>4 DEF Single, Apart
<1>6. ASSUME NEW s \in Slot, NEW g \in Nat, Live(s, g)' PROVE Live(s, g)
  <2>1. AtWork(s, g)
    BY <1>3, <1>6 DEF Live, AtWork
  <2>2. CASE OwnerHas(s, g)'
    BY <1>3, <1>6, <2>1, <2>2 DEF Live
  <2>3. CASE ~OwnerHas(s, g)'
    <3>1. RunHas(s, g) \/ Has(jobs, s, g)
      BY <1>3, <1>6, <2>3 DEF Live, AtWork
    <3> QED  BY <2>1, <3>1 DEF Live, Single, Apart
  <2> QED  BY <2>2, <2>3
<1> QED  BY <1>1, <1>3, <1>5, <1>6 DEF WorkKept, AtWork

LEMMA TakeCompletedWork == ASSUME Shapes, Single, TakeCompleted PROVE WorkKept
<1> DEFINE w == Head(completed)
<1>1. /\ completed \in Seq(Jobs) /\ completed # <<>> /\ completed' = Tail(completed) /\ work' = w
      /\ UNCHANGED <<jobs, running>> /\ pc = "next" /\ pc' = "check"
  BY DEF TakeCompleted, Shapes, FetchShapes
<1>2. /\ Has(completed, w.slot, w.gen) /\ Distinct(Tail(completed))
      /\ \A s \in Slot, g \in Nat : Has(Tail(completed), s, g) <=> Has(completed, s, g) /\ ~Is(w, s, g)
  BY <1>1, TakeFirst DEF Single
<1>3. ASSUME NEW s \in Slot, NEW g \in Nat
      PROVE  /\ RunHas(s, g)' <=> RunHas(s, g)
             /\ Has(jobs, s, g)' <=> Has(jobs, s, g)
             /\ Has(completed, s, g)' <=> Has(completed, s, g) /\ ~Is(w, s, g)
             /\ OwnerHas(s, g)' <=> Is(w, s, g)
             /\ ~OwnerHas(s, g)
             /\ Is(w, s, g) => Has(completed, s, g)
  <2>1. Has(completed, s, g)' <=> Has(completed, s, g) /\ ~Is(w, s, g)
    BY <1>1, <1>2
  <2>2. Is(w, s, g) => Has(completed, s, g)
    BY <1>2 DEF Is
  <2> HIDE DEF w
  <2> QED  BY <1>1, <2>1, <2>2 DEF RunHas, Has, OwnerHas, Busy
<1>4. Distinct(completed)' /\ Distinct(jobs)'
  BY <1>1, <1>2 DEF Distinct, Single
<1> HIDE DEF w
<1>5. Single'
  BY <1>1, <1>3, <1>4 DEF Single, Apart
<1> QED  BY <1>1, <1>3, <1>5 DEF WorkKept, AtWork, Live

LEMMA DispatchWork == ASSUME Shapes, Single, Dispatch PROVE WorkKept
<1> DEFINE w == [work EXCEPT !.refresh = FALSE]
<1>1. /\ jobs \in Seq(Jobs) /\ w \in Jobs /\ w.slot = work.slot /\ w.gen = work.gen
      /\ jobs' = Append(jobs, w) /\ UNCHANGED <<completed, running>> /\ pc = "prepare" /\ pc' = "next"
  BY JobShape DEF Dispatch, Goes, Shapes, FetchShapes, OwnerShapes
<1>2. OwnerHas(work.slot, work.gen) /\ work.slot \in Slot /\ work.gen \in Nat
  BY <1>1 DEF OwnerHas, Is, Busy, Shapes, OwnerShapes, Jobs
<1> HIDE DEF w
<1>3. /\ Distinct(Append(jobs, w))
      /\ \A s \in Slot, g \in Nat : Has(Append(jobs, w), s, g) <=> Has(jobs, s, g) \/ Is(w, s, g)
  <2>1. ~Has(jobs, w.slot, w.gen)
    BY <1>1, <1>2 DEF Single, Apart
  <2> QED  BY <1>1, <2>1, AddLast DEF Single
<1>4. ASSUME NEW s \in Slot, NEW g \in Nat
      PROVE  /\ RunHas(s, g)' <=> RunHas(s, g)
             /\ Has(jobs, s, g)' <=> Has(jobs, s, g) \/ OwnerHas(s, g)
             /\ Has(completed, s, g)' <=> Has(completed, s, g)
             /\ ~OwnerHas(s, g)'
  <2>1. Has(jobs, s, g)' <=> Has(jobs, s, g) \/ Is(w, s, g)
    BY <1>1, <1>3
  <2>2. Is(w, s, g) <=> OwnerHas(s, g)
    BY <1>1 DEF Is, OwnerHas, Busy
  <2> QED  BY <1>1, <2>1, <2>2 DEF RunHas, Has, OwnerHas, Busy
<1>5. Distinct(completed)' /\ Distinct(jobs)'
  BY <1>1, <1>3 DEF Distinct, Single
<1>6. Single'
  BY <1>1, <1>4, <1>5 DEF Single, Apart
<1> QED  BY <1>1, <1>4, <1>6 DEF WorkKept, AtWork, Live

LEMMA FinishWorkWork == ASSUME Shapes, Single, FinishWork PROVE WorkKept
<1>1. UNCHANGED <<completed, jobs, running>> /\ pc = "finish" /\ pc' = "next"
  BY DEF FinishWork, Goes, fetches
<1>2. ASSUME NEW s \in Slot, NEW g \in Nat
      PROVE  /\ RunHas(s, g)' <=> RunHas(s, g)
             /\ Has(jobs, s, g)' <=> Has(jobs, s, g)
             /\ Has(completed, s, g)' <=> Has(completed, s, g)
             /\ ~OwnerHas(s, g)'
  BY <1>1 DEF RunHas, Has, OwnerHas, Busy
<1>3. Single'
  BY <1>1, <1>2 DEF Single, Apart
<1> QED  BY <1>1, <1>2, <1>3 DEF WorkKept, AtWork, Live, Single, Apart

LEMMA FetchTakesWork == ASSUME Shapes, Single, FetchTakes PROVE WorkKept
<1> DEFINE w == Head(jobs)
<1>1. /\ jobs \in Seq(Jobs) /\ jobs # <<>> /\ jobs' = Tail(jobs) /\ running' = running \cup {w}
      /\ UNCHANGED <<completed, pc, work>>
  BY DEF FetchTakes, owner, Shapes, FetchShapes
<1>2. /\ w \in Jobs /\ Has(jobs, w.slot, w.gen) /\ Distinct(Tail(jobs))
      /\ \A s \in Slot, g \in Nat : Has(Tail(jobs), s, g) <=> Has(jobs, s, g) /\ ~Is(w, s, g)
  BY <1>1, TakeFirst DEF Single
<1> HIDE DEF w
<1>3. ASSUME NEW s \in Slot, NEW g \in Nat
      PROVE  /\ RunHas(s, g)' <=> RunHas(s, g) \/ Is(w, s, g)
             /\ Has(jobs, s, g)' <=> Has(jobs, s, g) /\ ~Is(w, s, g)
             /\ Has(completed, s, g)' <=> Has(completed, s, g)
             /\ OwnerHas(s, g)' <=> OwnerHas(s, g)
             /\ Is(w, s, g) => Has(jobs, s, g)
  <2>1. Has(jobs, s, g)' <=> Has(jobs, s, g) /\ ~Is(w, s, g)
    BY <1>1, <1>2
  <2>2. Is(w, s, g) => Has(jobs, s, g)
    BY <1>2 DEF Is
  <2> QED  BY <1>1, <2>1, <2>2 DEF RunHas, Has, OwnerHas
<1>4. Distinct(completed)' /\ Distinct(jobs)'
  BY <1>1, <1>2 DEF Distinct, Single
<1>5. (\A u, v \in running : Alike(u, v) => u = v)'
  <2>1. w.slot \in Slot /\ w.gen \in Nat /\ ~RunHas(w.slot, w.gen)
    BY <1>2 DEF Jobs, Single, Apart
  <2>2. \A v \in running : ~Alike(v, w) /\ ~Alike(w, v)
    BY <2>1 DEF RunHas, Is, Alike
  <2> QED  BY <1>1, <2>2 DEF Single
<1>6. Single'
  BY <1>3, <1>4, <1>5 DEF Single, Apart
<1> QED  BY <1>1, <1>3, <1>6 DEF WorkKept, AtWork, Live

LEMMA FetchEndsWork ==
    ASSUME Shapes, Single, Owner, NEW w \in running, FetchEnds(w) PROVE WorkKept
<1>1. /\ completed \in Seq(Jobs) /\ w \in Jobs /\ running' = running \ {w}
      /\ completed' = IF closed THEN completed ELSE Append(completed, w)
      /\ pc' \in {pc, Notified} /\ UNCHANGED <<jobs, work, closed>>
  BY DEF FetchEnds, Told, Shapes, FetchShapes
<1>2. w.slot \in Slot /\ w.gen \in Nat /\ RunHas(w.slot, w.gen)
  BY <1>1 DEF Jobs, RunHas, Is
<1>3. /\ Distinct(Append(completed, w))
      /\ \A s \in Slot, g \in Nat : Has(Append(completed, w), s, g) <=> Has(completed, s, g) \/ Is(w, s, g)
  <2>1. ~Has(completed, w.slot, w.gen)
    BY <1>2 DEF Single, Apart
  <2> QED  BY <1>1, <2>1, AddLast DEF Single
<1>4. ASSUME NEW s \in Slot, NEW g \in Nat
      PROVE  /\ RunHas(s, g)' <=> RunHas(s, g) /\ ~Is(w, s, g)
             /\ Has(jobs, s, g)' <=> Has(jobs, s, g)
             /\ Has(completed, s, g)' <=> Has(completed, s, g) \/ (~closed /\ Is(w, s, g))
             /\ OwnerHas(s, g)' <=> OwnerHas(s, g)
             /\ Is(w, s, g) => RunHas(s, g)
             /\ pc' = "finish" <=> pc = "finish"
  <2>1. Has(completed, s, g)' <=> Has(completed, s, g) \/ (~closed /\ Is(w, s, g))
    BY <1>1, <1>3
  <2>2. RunHas(s, g)' <=> RunHas(s, g) /\ ~Is(w, s, g)
    <3>1. \A v \in running : Is(v, s, g) /\ Is(w, s, g) => v = w
      BY DEF Single, Is, Alike
    <3> QED  BY <1>1, <3>1 DEF RunHas
  <2> QED  BY <1>1, <2>1, <2>2 DEF RunHas, Has, OwnerHas, Notified, Busy
<1>5. Distinct(completed)' /\ Distinct(jobs)'
  <2>1. CASE closed
    BY <1>1, <2>1 DEF Single, Distinct
  <2>2. CASE ~closed
    BY <1>1, <1>3, <2>2 DEF Single, Distinct
  <2> QED  BY <2>1, <2>2
<1>6. (\A u, v \in running : Alike(u, v) => u = v)'
  BY <1>1 DEF Single
<1>7. Single'
  BY <1>4, <1>5, <1>6 DEF Single, Apart
<1> QED  BY <1>1, <1>4, <1>7 DEF WorkKept, AtWork, Live

\* Requests become work one at a time.
LEMMA TakeWorkWork ==
    ASSUME Shapes, Single, NEW s \in Slot, ~AtWork(s, pending[s].gen), TakeWork(s)
    PROVE  /\ Single'
           /\ \A t \in Slot, g \in Nat :
                 /\ AtWork(t, g)' <=> AtWork(t, g) \/ (t = s /\ g = pending[s].gen)
                 /\ Live(t, g)' <=> Live(t, g) \/ (t = s /\ g = pending[s].gen)
<1>1. /\ UNCHANGED <<completed, jobs, running>> /\ pc = "next" /\ pc' = "read"
      /\ work'.slot = s /\ work'.gen = pending[s].gen /\ pending[s].gen \in Nat
  BY DEF TakeWork, fetches, Shapes, MailShapes, Requests
<1>2. ASSUME NEW t \in Slot, NEW g \in Nat
      PROVE  /\ RunHas(t, g)' <=> RunHas(t, g)
             /\ Has(jobs, t, g)' <=> Has(jobs, t, g)
             /\ Has(completed, t, g)' <=> Has(completed, t, g)
             /\ ~OwnerHas(t, g)
             /\ OwnerHas(t, g)' <=> (t = s /\ g = pending[s].gen)
  BY <1>1 DEF RunHas, Has, OwnerHas, Busy, Is
<1>3. Single'
  BY <1>1, <1>2 DEF Single, Apart, AtWork
<1> QED  BY <1>1, <1>2, <1>3 DEF AtWork, Live

-----------------------------------------------------------------------------
(* Slots                                                                     *)

\* A step that leaves the requests, flags and answers of a slot alone.
SlotAlone(s) ==
    /\ pending'[s] = pending[s] /\ asked'[s] = asked[s] /\ active'[s] = active[s]
    /\ cancelled'[s] = cancelled[s] /\ events'[s] = events[s]
    /\ purging' = s <=> purging = s

\* A step that neither ends nor brings work of a slot.
WorkAlone(s) ==
    \A g \in Nat : /\ AtWork(s, g)' => AtWork(s, g)
                   /\ ~closed => (Live(s, g)' <=> Live(s, g))

LEMMA AloneKeeps ==
    ASSUME NEW s \in Slot, Shapes, SlotInv(s), SlotAlone(s), WorkAlone(s), closed' = closed
    PROVE  SlotInv(s)'
<1>1. Pending(s)' <=> Pending(s)
  BY DEF Pending, SlotAlone
<1>2. Generations(s)'
  BY <1>1 DEF SlotInv, Generations, Bounded, SlotAlone, WorkAlone
<1>3. Queues(s)'
  BY DEF SlotInv, Queues, SlotAlone
<1>4. ASSUME ~closed PROVE Current(s)'
  <2>1. QueuedIsNewest(s)'
    BY <1>1, <1>4 DEF SlotInv, Current, QueuedIsNewest, SlotAlone, WorkAlone
  <2>2. LiveIsWanted(s)'
    BY <1>1, <1>4 DEF SlotInv, Current, LiveIsWanted, SlotAlone, WorkAlone
  <2>3. FinalIsLast(s)'
    BY <1>4 DEF SlotInv, Current, FinalIsLast, SlotAlone, WorkAlone, Generations, Bounded
  <2>4. Remembered(s)'
    <3>1. asked[s].gen \in Nat
      BY DEF Shapes, ScreenShapes, Askings
    <3> QED  BY <1>4, <3>1 DEF SlotInv, Current, Remembered, Answer, SlotAlone, WorkAlone
  <2> QED  BY <1>4, <2>1, <2>2, <2>3, <2>4 DEF SlotInv, Current, SlotAlone
<1> QED  BY <1>2, <1>3, <1>4 DEF SlotInv

\* Work that is only handed on is neither ended nor brought.
LEMMA KeptIsAlone ==
    ASSUME NEW s \in Slot, WorkKept, closed' = closed,
           \A g \in Nat : pc' = "finish" /\ OwnerHas(s, g)' => ~Live(s, g)
    PROVE  WorkAlone(s)
BY DEF WorkKept, WorkAlone

LEMMA SubmitSlot ==
    ASSUME Shapes, NEW s \in Slot, NEW joins \in BOOLEAN, NEW refresh \in BOOLEAN,
           Submit(s, joins, refresh), SlotInv(s), WorkAlone(s)
    PROVE  SlotInv(s)'
<1> DEFINE g == asked[s].gen + 1
<1>1. asked[s].gen \in Nat /\ g \in Nat /\ g # 0 /\ asked[s].gen < g /\ active[s] \in Nat
  BY DEF Shapes, ScreenShapes, Askings, MailShapes
<1>2. /\ asked'[s].gen = g /\ asked'[s].waiting /\ pending'[s].gen = g /\ g <= MaxGeneration[s]
      /\ active' = active /\ cancelled'[s] = Superseded(s)
      /\ events' = events /\ closed' = closed /\ ~closed /\ purging = 0 /\ purging' = 0
  BY DEF Submit, Responsive, Joined, Shapes, MailShapes, ScreenShapes
<1> HIDE DEF g
<1>3. Pending(s)'
  BY <1>1, <1>2 DEF Pending, NoRequest
<1>4. \A h : Bounded(s, h) => h \in Nat /\ h <= g /\ h < g /\ h # g
  BY <1>1 DEF Bounded
<1>5. \A h : Bounded(s, h) => Bounded(s, h)'
  BY <1>2, <1>4 DEF Bounded
<1>6. Bounded(s, pending[s].gen)'
  BY <1>1, <1>2 DEF Bounded
<1>7. \A h \in cancelled'[s] : Bounded(s, h) /\ h # 0
  BY <1>2 DEF Superseded, SlotInv, Generations
<1>8. Generations(s)'
  BY <1>1, <1>2, <1>3, <1>5, <1>6, <1>7 DEF SlotInv, Generations, WorkAlone
<1>9. Queues(s)'
  <2>1. s # 0
    BY SlotFacts
  <2> QED  BY <1>2, <2>1 DEF SlotInv, Queues
<1>10. QueuedIsNewest(s)'
  BY <1>2, <1>4 DEF SlotInv, Generations, QueuedIsNewest, WorkAlone
<1>11. LiveIsWanted(s)'
  <2> SUFFICES ASSUME NEW h \in Nat, Live(s, h)', h \notin cancelled'[s] PROVE FALSE
    BY DEF LiveIsWanted
  <2>1. Live(s, h) /\ h \notin cancelled[s] /\ ~(h = active[s] /\ h # 0)
    BY <1>2 DEF WorkAlone, Superseded
  <2>2. active[s] = h
    BY <1>2, <2>1 DEF SlotInv, Current, LiveIsWanted
  <2>3. h # 0
    BY <2>1 DEF Live, SlotInv, Generations
  <2> QED  BY <2>1, <2>2, <2>3
<1>12. FinalIsLast(s)'
  BY <1>2 DEF SlotInv, Current, FinalIsLast, WorkAlone, Generations, Bounded
<1>13. Remembered(s)' /\ g \notin cancelled'[s]
  BY <1>2, <1>4, <1>7 DEF Remembered
<1> QED  BY <1>2, <1>8, <1>9, <1>10, <1>11, <1>12, <1>13 DEF SlotInv, Current

LEMMA CancelAskedSlot ==
    ASSUME Shapes, NEW s \in Slot, CancelAsked(s), SlotInv(s), WorkAlone(s)
    PROVE  SlotInv(s)'
<1> DEFINE g == asked[s].gen
<1>1. g \in Nat /\ asked[s].waiting /\ g # 0
  BY DEF Shapes, ScreenShapes, Askings, CancelAsked, SlotInv, Generations
<1>2. /\ asked'[s].gen = g /\ ~asked'[s].waiting /\ active' = active
      /\ pending'[s] = IF pending[s].gen = g THEN NoRequest ELSE pending[s]
      /\ cancelled'[s] = IF active[s] = g THEN cancelled[s] \cup {g} ELSE cancelled[s]
      /\ events' = events /\ closed' = closed /\ purging' = s
  BY DEF CancelAsked, Responsive, Shapes, MailShapes, ScreenShapes, Askings
<1> HIDE DEF g
<1>3. \A h : Bounded(s, h)' <=> Bounded(s, h)
  BY <1>2 DEF Bounded, g
<1>4. Bounded(s, 0) /\ Bounded(s, g) /\ NoRequest.gen = 0
  BY <1>1 DEF Bounded, g, NoRequest
<1>5. Pending(s)' => Pending(s) /\ pending'[s] = pending[s] /\ pending[s].gen # g
  BY <1>2 DEF Pending
<1>6. Bounded(s, pending'[s].gen) /\ (Pending(s)' => pending'[s].gen # 0)
  BY <1>2, <1>4, <1>5 DEF SlotInv, Generations
<1>7. \A h \in cancelled'[s] : Bounded(s, h) /\ h # 0
  BY <1>1, <1>2, <1>4 DEF SlotInv, Generations
<1>8. Generations(s)'
  <2>1. Bounded(s, pending[s].gen)' /\ \A h \in cancelled'[s] : Bounded(s, h)' /\ h # 0
    BY <1>2, <1>3, <1>6, <1>7 DEF Bounded, g
  <2> QED  BY <1>2, <1>3, <1>6, <2>1 DEF SlotInv, Generations, WorkAlone, Bounded, g
<1>9. Queues(s)'
  BY <1>2 DEF SlotInv, Queues
<1>10. ASSUME ~closed PROVE ~Pending(s)' /\ LiveIsWanted(s)'
  <2>1. ~Pending(s)'
    BY <1>5, <1>10 DEF SlotInv, Current, QueuedIsNewest, g
  <2> SUFFICES ASSUME NEW h \in Nat, Live(s, h)', h \notin cancelled'[s] PROVE FALSE
    BY <2>1 DEF LiveIsWanted
  <2>2. Live(s, h) /\ h \notin cancelled[s]
    BY <1>2, <1>10 DEF WorkAlone
  <2>3. active[s] = h /\ g = h
    BY <1>10, <2>2 DEF SlotInv, Current, LiveIsWanted, g
  <2> QED  BY <1>2, <2>3
<1>11. ASSUME ~closed PROVE FinalIsLast(s)'
  BY <1>2, <1>11 DEF SlotInv, Current, FinalIsLast, WorkAlone, Generations, Bounded
<1>12. ASSUME ~closed PROVE Current(s)'
  BY <1>2, <1>10, <1>11, <1>12 DEF Current, QueuedIsNewest, Remembered
<1> QED  BY <1>2, <1>8, <1>9, <1>12 DEF SlotInv

LEMMA PurgeAskedSlot ==
    ASSUME Shapes, NEW s \in Slot, PurgeAsked, purging = s, SlotInv(s), WorkAlone(s)
    PROVE  SlotInv(s)'
<1> DEFINE g == asked[s].gen
<1>1. events[s] \in Seq(Events) /\ g \in Nat
  BY DEF Shapes, ScreenShapes, Askings
<1>2. /\ events'[s] = Retained(events[s], g) /\ ~asked[s].waiting /\ purging' # s
      /\ UNCHANGED <<pending, active, cancelled, asked, closed>>
  <2>1. purging' # s
    BY SlotFacts DEF PurgeAsked
  <2> QED  BY <2>1 DEF PurgeAsked, mail, Shapes, ScreenShapes, SlotInv, Queues
<1> HIDE DEF g
<1>3. \A j, k \in DOMAIN events[s] : events[s][j].gen = events[s][k].gen
  BY DEF SlotInv, Queues
<1>4. \/ events'[s] = events[s] /\ \A k \in DOMAIN events[s] : events[s][k].gen # g
      \/ events'[s] = <<>>
  BY <1>1, <1>2, <1>3, RetainedShape
<1>5. \A k \in DOMAIN events'[s] : k \in DOMAIN events[s] /\ events'[s][k] = events[s][k]
                                   /\ events[s][k].gen # g
  BY <1>4
<1>6. Len(events'[s]) <= EventsPerKind /\ (events'[s] = events[s] \/ DOMAIN events'[s] = {})
  <2>1. CASE events'[s] = <<>>
    <3>1. Len(events'[s]) = 0
      BY <2>1, EmptySeq
    <3> QED  BY <2>1, <3>1, SlotFacts
  <2> QED  BY <1>4, <2>1 DEF SlotInv, Queues
<1>7. Generations(s)'
  BY <1>2, <1>5 DEF SlotInv, Generations, WorkAlone, Bounded, Pending
<1>8. Queues(s)'
  BY <1>2, <1>5, <1>6 DEF SlotInv, Queues, g
<1>9. ASSUME ~closed PROVE Current(s)'
  <2>1. ~Pending(s) /\ ~Pending(s)'
    BY <1>2, <1>9 DEF SlotInv, Current, QueuedIsNewest, Pending
  <2>2. LiveIsWanted(s)'
    BY <1>2, <1>9, <2>1 DEF SlotInv, Current, LiveIsWanted, WorkAlone
  <2>3. FinalIsLast(s)'
    BY <1>5, <1>9 DEF SlotInv, Current, FinalIsLast, WorkAlone, Generations, Bounded
  <2> QED  BY <1>2, <2>1, <2>2, <2>3 DEF Current, QueuedIsNewest, Remembered
<1> QED  BY <1>2, <1>7, <1>8, <1>9 DEF SlotInv

LEMMA PollEventSlot ==
    ASSUME Shapes, NEW s \in Slot, PollEvent(s), SlotInv(s), WorkAlone(s)
    PROVE  SlotInv(s)'
<1> DEFINE g == asked[s].gen
           e == Head(events[s])
           q == events'[s]
<1>1. /\ events[s] \in Seq(Events) /\ events[s] # <<>> /\ g \in Nat /\ q = Tail(events[s])
      /\ asked'[s].gen = g /\ asked'[s].waiting = (asked[s].waiting /\ ~(e.gen = g /\ e.outcome = "final"))
      /\ UNCHANGED <<pending, active, cancelled, closed, purging>> /\ purging # s
  BY SlotFacts DEF PollEvent, Responsive, mail, Shapes, ScreenShapes, Askings
<1>2. /\ \A i \in DOMAIN q : i + 1 \in DOMAIN events[s] /\ q[i] = events[s][i + 1]
      /\ e = events[s][1] /\ 1 \in DOMAIN events[s]
  BY <1>1, TailIndices
<1>3. /\ Len(events[s]) \in Nat \ {0} /\ Len(q) = Len(events[s]) - 1
      /\ DOMAIN events[s] = 1..Len(events[s]) /\ DOMAIN q = 1..Len(q)
  <2>1. Tail(events[s]) \in Seq(Events) /\ Len(Tail(events[s])) = Len(events[s]) - 1
    BY <1>1, HeadTailProperties
  <2> QED  BY <1>1, <2>1, EmptySeq, LenProperties
<1> HIDE DEF q, e, g
<1>4. e.outcome = "final" => Len(q) = 0 /\ DOMAIN q = {}
  <2> SUFFICES ASSUME e.outcome = "final" PROVE Len(q) = 0 /\ DOMAIN q = {}
    OBVIOUS
  <2>1. 1 = Len(events[s])
    BY <1>2 DEF SlotInv, Queues
  <2>2. Len(q) = 0
    BY <1>3, <2>1
  <2> QED  BY <1>3, <2>2
<1>5. \A h : Bounded(s, h)' <=> Bounded(s, h)
  BY <1>1 DEF Bounded, g
<1>6. asked'[s].waiting => asked[s].waiting
  BY <1>1
<1>7. Generations(s)'
  <2>1. \A k \in DOMAIN q : Bounded(s, q[k].gen)
    BY <1>2 DEF SlotInv, Generations
  <2>2. \A k \in DOMAIN events'[s] :
            events'[s][k].gen \in Nat /\ events'[s][k].gen <= asked'[s].gen
    BY <2>1, <1>1 DEF Bounded, g, q
  <2> QED  BY <1>1, <1>5, <1>6, <2>2 DEF SlotInv, Generations, WorkAlone, Pending, Bounded, g
<1>8. Queues(s)'
  <2>1. \A j, k \in DOMAIN q : q[j].gen = q[k].gen
    BY <1>2 DEF SlotInv, Queues
  <2>2. \A k \in DOMAIN q : q[k].outcome = "final" => k = Len(q)
    <3> SUFFICES ASSUME NEW k \in DOMAIN q, q[k].outcome = "final" PROVE k = Len(q)
      OBVIOUS
    <3>1. k + 1 = Len(events[s])
      BY <1>2 DEF SlotInv, Queues
    <3> QED  BY <1>3, <3>1
  <2>3. Len(q) <= EventsPerKind
    <3>1. Len(events[s]) <= EventsPerKind
      BY DEF SlotInv, Queues
    <3> QED  BY <1>3, <3>1, SlotFacts
  <2>4. ~asked'[s].waiting => \A k \in DOMAIN q : q[k].gen # g
    <3>1. ~asked[s].waiting => \A k \in DOMAIN q : q[k].gen # g
      BY <1>1, <1>2 DEF SlotInv, Queues, g
    <3> QED  BY <1>1, <1>4, <3>1
  <2> QED  BY <1>1, <2>1, <2>2, <2>3, <2>4 DEF Queues, q
<1>9. ASSUME ~closed PROVE Current(s)'
  <2>1. e.gen = g => ~Pending(s)
    BY <1>1, <1>2, <1>9 DEF SlotInv, Current, QueuedIsNewest, g
  <2>2. QueuedIsNewest(s)'
    <3>1. Pending(s)' <=> Pending(s)
      BY <1>1 DEF Pending
    <3>2. Pending(s) => \A k \in DOMAIN q : q[k].gen < pending[s].gen
      BY <1>2, <1>9 DEF SlotInv, Current, QueuedIsNewest
    <3> QED  BY <1>1, <1>9, <2>1, <3>1, <3>2 DEF SlotInv, Current, QueuedIsNewest, WorkAlone, g, q
  <2>3. LiveIsWanted(s)'
    <3> SUFFICES ASSUME NEW h \in Nat, Live(s, h), h \notin cancelled[s]
                 PROVE active[s] = h /\ g = h /\ asked'[s].waiting /\ ~Pending(s)
      BY <1>1, <1>9 DEF LiveIsWanted, WorkAlone, Pending
    <3>1. active[s] = h /\ g = h /\ asked[s].waiting /\ ~Pending(s)
      BY <1>9 DEF SlotInv, Current, LiveIsWanted, g
    <3>2. e.outcome = "final" => e.gen # h
      BY <1>2, <1>9 DEF SlotInv, Current, FinalIsLast
    <3> QED  BY <1>1, <3>1, <3>2
  <2>4. FinalIsLast(s)'
    <3>1. \A k \in DOMAIN q : q[k].outcome = "final" => ~Live(s, q[k].gen)
      BY <1>2, <1>9 DEF SlotInv, Current, FinalIsLast
    <3>2. \A k \in DOMAIN q : q[k].gen \in Nat
      BY <1>2 DEF SlotInv, Generations, Bounded
    <3> QED  BY <1>9, <3>1, <3>2 DEF FinalIsLast, WorkAlone, q
  <2>5. Remembered(s)'
    <3> SUFFICES ASSUME asked'[s].waiting
                 PROVE  \/ pending[s].gen = g
                        \/ Live(s, g)
                        \/ \E k \in DOMAIN q : q[k] = Answer(s)
      BY <1>1, <1>9 DEF Remembered, Answer, WorkAlone, g, q
    <3>1. CASE \E k \in DOMAIN events[s] : events[s][k] = Answer(s)
      <4>1. PICK k \in DOMAIN events[s] : events[s][k] = Answer(s)
        BY <3>1
      <4>2. k # 1
        <5>1. Answer(s).gen = g /\ Answer(s).outcome = "final"
          BY DEF Answer, g
        <5>2. ~(e.gen = g /\ e.outcome = "final")
          BY <1>1
        <5> QED  BY <1>2, <4>1, <5>1, <5>2
      <4>3. k - 1 \in DOMAIN q /\ (k - 1) + 1 = k
        BY <1>3, <4>1, <4>2
      <4> QED  BY <1>2, <4>1, <4>3
    <3> QED  BY <1>6, <1>9, <3>1 DEF SlotInv, Current, Remembered, g
  <2> QED  BY <1>1, <1>6, <1>9, <2>2, <2>3, <2>4, <2>5 DEF SlotInv, Current, g
<1> QED  BY <1>1, <1>7, <1>8, <1>9 DEF SlotInv

LEMMA TakeWorkSlot ==
    ASSUME Shapes, NEW s \in Slot, TakeWork(s), SlotInv(s),
           \A g \in Nat : /\ AtWork(s, g)' <=> AtWork(s, g) \/ g = pending[s].gen
                          /\ Live(s, g)' <=> Live(s, g) \/ g = pending[s].gen
    PROVE  SlotInv(s)'
<1> DEFINE g == pending[s].gen
<1>1. /\ g \in Nat /\ ~closed /\ closed' = closed /\ Pending(s) /\ ~Pending(s)' /\ pending'[s].gen = 0
      /\ active'[s] = g /\ UNCHANGED <<cancelled, asked, events, purging>>
  BY DEF TakeWork, Turn, Pending, NoRequest, screen, Shapes, MailShapes, Requests
<1>2. /\ g = asked[s].gen /\ g # 0 /\ asked[s].waiting /\ g \notin cancelled[s]
      /\ \A h \in Nat : AtWork(s, h) => h < g
      /\ \A k \in DOMAIN events[s] : events[s][k].gen < g
  BY <1>1 DEF SlotInv, Generations, Current, QueuedIsNewest
<1> HIDE DEF g
<1>3. \A h : Bounded(s, h)' <=> Bounded(s, h)
  BY <1>1 DEF Bounded
<1>4. Bounded(s, 0) /\ Bounded(s, g)
  BY <1>1, <1>2 DEF Bounded
<1>5. Generations(s)'
  BY <1>1, <1>2, <1>3, <1>4 DEF SlotInv, Generations, Bounded, g
<1>6. Queues(s)'
  BY <1>1 DEF SlotInv, Queues
<1>7. LiveIsWanted(s)'
  <2> SUFFICES ASSUME NEW h \in Nat, Live(s, h)', h \notin cancelled[s] PROVE h = g
    BY <1>1, <1>2 DEF LiveIsWanted
  <2>1. ~Live(s, h)
    BY <1>1 DEF SlotInv, Current, LiveIsWanted
  <2> QED  BY <2>1 DEF g
<1>8. FinalIsLast(s)'
  <2>1. ASSUME NEW k \in DOMAIN events[s], NEW h \in Nat, events[s][k].outcome = "final",
               h = events[s][k].gen
        PROVE  ~Live(s, h)'
    <3>1. ~Live(s, h) /\ h < g
      BY <1>1, <1>2, <2>1 DEF SlotInv, Current, FinalIsLast
    <3>2. h # g
      BY <1>1, <3>1
    <3> QED  BY <3>1, <3>2 DEF g
  <2>2. \A k \in DOMAIN events[s] : events[s][k].gen \in Nat
    BY DEF SlotInv, Generations, Bounded
  <2> QED  BY <1>1, <2>1, <2>2 DEF FinalIsLast
<1>9. Remembered(s)'
  BY <1>1, <1>2 DEF Remembered, g
<1> QED  BY <1>1, <1>2, <1>5, <1>6, <1>7, <1>8, <1>9 DEF SlotInv, Current, QueuedIsNewest

LEMMA FinishWorkSlot ==
    ASSUME Shapes, NEW s \in Slot, FinishWork, work.slot = s, SlotInv(s), WorkKept,
           OwnerHas(s, work.gen), Apart(s, work.gen), work.gen \in Nat
    PROVE  SlotInv(s)'
<1> DEFINE g == work.gen
<1>1. /\ UNCHANGED <<pending, asked, events, purging, closed>> /\ pc' = "next" /\ pc = "finish"
      /\ active'[s] = (IF active[s] = g THEN 0 ELSE active[s])
      /\ cancelled'[s] = cancelled[s] \ {g}
  BY DEF FinishWork, Finished, Goes, screen, Shapes, MailShapes
<1>2. \A h \in Nat : AtWork(s, h)' => AtWork(s, h)
  BY DEF WorkKept
<1>3. \A h \in Nat : ~closed => (Live(s, h)' <=> Live(s, h))
  BY <1>1 DEF WorkKept
<1>4. ~Live(s, g)
  BY <1>1 DEF Live
<1> HIDE DEF g
<1>5. \A h : Bounded(s, h)' <=> Bounded(s, h)
  BY <1>1 DEF Bounded
<1>6. Bounded(s, 0)
  BY DEF Bounded, Shapes, ScreenShapes, Askings
<1>7. Generations(s)'
  BY <1>1, <1>2, <1>5, <1>6 DEF SlotInv, Generations, Pending, Bounded
<1>8. Queues(s)'
  BY <1>1 DEF SlotInv, Queues
<1>9. ASSUME ~closed PROVE Current(s)'
  <2>1. Pending(s)' <=> Pending(s)
    BY <1>1 DEF Pending
  <2>2. QueuedIsNewest(s)'
    BY <1>1, <1>2, <1>9, <2>1 DEF SlotInv, Current, QueuedIsNewest
  <2>3. LiveIsWanted(s)'
    <3> SUFFICES ASSUME NEW h \in Nat, Live(s, h)', h \notin cancelled'[s]
                 PROVE active'[s] = h /\ asked[s].gen = h /\ asked[s].waiting /\ ~Pending(s)
      BY <1>1, <2>1 DEF LiveIsWanted
    <3>1. Live(s, h) /\ h # g /\ h \notin cancelled[s]
      BY <1>1, <1>3, <1>4, <1>9
    <3> QED  BY <1>1, <1>9, <3>1 DEF SlotInv, Current, LiveIsWanted
  <2>4. FinalIsLast(s)'
    BY <1>1, <1>3, <1>9 DEF SlotInv, Current, FinalIsLast, Generations, Bounded
  <2>5. Remembered(s)'
    <3>1. asked[s].gen \in Nat
      BY DEF Shapes, ScreenShapes, Askings
    <3> QED  BY <1>1, <1>3, <1>9, <3>1 DEF SlotInv, Current, Remembered, Answer
  <2> QED  BY <1>1, <1>9, <2>2, <2>3, <2>4, <2>5 DEF SlotInv, Current
<1> QED  BY <1>1, <1>7, <1>8, <1>9 DEF SlotInv

\* What the owner says about unflagged work is its newest answer.
LEMMA SaysSlot ==
    ASSUME Shapes, NEW s \in Slot, NEW g \in Nat \ {0}, NEW o \in {"more", "final"},
           SlotInv(s), ~closed, closed' = closed,
           UNCHANGED <<pending, asked, active, cancelled, purging>>,
           Live(s, g), g \notin cancelled[s], events'[s] = Pushed(s, g, o),
           \A h \in Nat : /\ AtWork(s, h)' => AtWork(s, h)
                          /\ Live(s, h)' <=> Live(s, h) /\ ~(h = g /\ o = "final")
    PROVE  SlotInv(s)'
<1> DEFINE q == events'[s]
<1>1. /\ q \in Seq(Events) /\ Len(q) \in 1..EventsPerKind
      /\ q[Len(q)] = [gen |-> g, outcome |-> o]
      /\ \A k \in DOMAIN q : /\ q[k].gen = g
                             /\ k # Len(q) => \E j \in DOMAIN events[s] : q[k] = events[s][j]
  <2>1. Len(events[s]) <= EventsPerKind
        /\ \A j, k \in DOMAIN events[s] : events[s][j].gen = events[s][k].gen
    BY DEF SlotInv, Queues
  <2>2. Newest(q, s, g, o)
    BY <2>1, PushedShape
  <2> QED  BY <2>2 DEF Newest
<1>2. Len(q) \in DOMAIN q
  BY <1>1, LenProperties
<1> HIDE DEF q
<1>3. active[s] = g /\ asked[s].gen = g /\ asked[s].waiting /\ ~Pending(s)
  BY DEF SlotInv, Current, LiveIsWanted
<1>4. \A k \in DOMAIN q : q[k].outcome = "final" => k = Len(q) /\ o = "final"
  <2> SUFFICES ASSUME NEW k \in DOMAIN q, q[k].outcome = "final" PROVE k = Len(q) /\ o = "final"
    OBVIOUS
  <2>1. CASE k = Len(q)
    BY <1>1, <2>1
  <2>2. CASE k # Len(q)
    <3>1. PICK j \in DOMAIN events[s] : q[k] = events[s][j]
      BY <1>1, <2>2
    <3>2. events[s][j].gen = g /\ events[s][j].outcome = "final"
      BY <1>1, <3>1
    <3> QED  BY <3>2 DEF SlotInv, Current, FinalIsLast
  <2> QED  BY <2>1, <2>2
<1>5. Generations(s)'
  <2>1. \A k \in DOMAIN events'[s] : events'[s][k].gen \in Nat /\ events'[s][k].gen <= asked'[s].gen
    BY <1>1, <1>3 DEF q
  <2> QED  BY <2>1 DEF SlotInv, Generations, Bounded, Pending
<1>6. Queues(s)'
  <2>1. Len(q) <= EventsPerKind /\ \A j, k \in DOMAIN q : q[j].gen = q[k].gen
    BY <1>1
  <2> QED  BY <1>3, <1>4, <2>1 DEF SlotInv, Queues, q
<1>7. QueuedIsNewest(s)'
  BY <1>3 DEF QueuedIsNewest, Pending
<1>8. LiveIsWanted(s)'
  BY DEF SlotInv, Current, LiveIsWanted, Pending
<1>9. FinalIsLast(s)'
  <2>1. ASSUME NEW k \in DOMAIN q, q[k].outcome = "final" PROVE q[k].gen = g /\ ~Live(s, g)'
    BY <1>1, <1>4, <2>1
  <2> QED  BY <2>1 DEF FinalIsLast, q
<1>10. Remembered(s)'
  <2>1. CASE o = "final"
    <3>1. q[Len(q)] = Answer(s)
      BY <1>1, <1>3, <2>1 DEF Answer
    <3> QED  BY <1>2, <3>1 DEF Remembered, Answer, q
  <2>2. CASE o # "final"
    BY <1>3, <2>2 DEF Remembered
  <2> QED  BY <2>1, <2>2
<1> QED  BY <1>3, <1>5, <1>6, <1>7, <1>8, <1>9, <1>10 DEF SlotInv, Current

\* Flagged work ends without a word.
LEMMA EndsSlot ==
    ASSUME Shapes, NEW s \in Slot, NEW g \in Nat, SlotInv(s), closed' = closed,
           UNCHANGED <<pending, asked, active, cancelled, purging, events>>,
           ~closed => g \in cancelled[s],
           \A h \in Nat : /\ AtWork(s, h)' => AtWork(s, h)
                          /\ ~closed => (Live(s, h)' <=> Live(s, h) /\ h # g)
    PROVE  SlotInv(s)'
<1>1. Pending(s)' <=> Pending(s)
  BY DEF Pending
<1>2. Generations(s)'
  BY <1>1 DEF SlotInv, Generations, Bounded
<1>3. Queues(s)'
  BY DEF SlotInv, Queues
<1>4. ASSUME ~closed PROVE Current(s)'
  <2>1. QueuedIsNewest(s)' /\ LiveIsWanted(s)'
    BY <1>1, <1>4 DEF SlotInv, Current, QueuedIsNewest, LiveIsWanted
  <2>2. FinalIsLast(s)'
    BY <1>4 DEF SlotInv, Current, FinalIsLast, Generations, Bounded
  <2>3. Remembered(s)'
    <3>1. asked[s].gen \in Nat
      BY DEF Shapes, ScreenShapes, Askings
    <3> QED  BY <1>4, <3>1 DEF SlotInv, Current, Remembered, Answer
  <2> QED  BY <1>4, <2>1, <2>2, <2>3 DEF SlotInv, Current
<1> QED  BY <1>2, <1>3, <1>4 DEF SlotInv

\* Once closed, no request is queued and none is promised.
LEMMA CloseSlot ==
    ASSUME Shapes, NEW s \in Slot, SlotInv(s), WorkKept, Close, purging' = purging
    PROVE  SlotInv(s)'
<1>1. /\ pending'[s] = NoRequest /\ cancelled'[s] = Superseded(s) /\ closed'
      /\ UNCHANGED <<active, asked, events>>
  BY DEF Close
<1>2. ~Pending(s)' /\ pending'[s].gen = 0
  BY <1>1 DEF Pending, NoRequest
<1>3. Generations(s)'
  <2>1. \A g \in cancelled'[s] : Bounded(s, g) /\ g # 0
    BY <1>1 DEF Superseded, SlotInv, Generations
  <2>2. asked[s].gen \in Nat
    BY DEF Shapes, ScreenShapes, Askings
  <2> QED  BY <1>1, <1>2, <2>1, <2>2 DEF SlotInv, Generations, Bounded, WorkKept
<1>4. Queues(s)'
  BY <1>1 DEF SlotInv, Queues
<1> QED  BY <1>1, <1>3, <1>4 DEF SlotInv

\* The owner's word: nothing yet, nothing any more, or an answer.
Speaks ==
    /\ UNCHANGED <<mail, locals, fetches, work, screen, closed>>
    /\ pc \in Busy \ {"finish"} /\ pc' \in Busy
    /\ \/ pc' # "finish" /\ events' = events
       \/ pc' = "finish" /\ events' = events /\ Discards
       \/ \E o \in {"more", "final"} :
             /\ ~Discards /\ (o = "final" <=> pc' = "finish")
             /\ events' = [events EXCEPT ![work.slot] = Pushed(work.slot, work.gen, o)]

LEMMA OwnerSpeaks ==
    /\ CheckCompleted => Speaks
    /\ SendTerminal => Speaks
    /\ \A found \in {"hit", "miss", "error"}, refreshing \in BOOLEAN :
          ReadCache(found, refreshing) => Speaks
<1>1. CheckCompleted => Speaks
  BY DEF CheckCompleted, Goes, Speaks, Busy
<1>2. SendTerminal => Speaks
  BY DEF SendTerminal, Goes, Silent, Speaks, Busy
<1>3. ASSUME NEW found \in {"hit", "miss", "error"}, NEW refreshing \in BOOLEAN,
             ReadCache(found, refreshing)
      PROVE  Speaks
  <2>1. UNCHANGED <<mail, locals, fetches, work, screen, closed>> /\ pc = "read"
    BY <1>3 DEF ReadCache
  <2>2. CASE Discards
    <3>1. pc' = "finish" /\ events' = events
      BY <1>3, <2>2 DEF ReadCache
    <3> QED  BY <2>1, <2>2, <3>1 DEF Speaks, Busy
  <2>3. CASE ~Discards /\ found = "hit" /\ ~refreshing
    <3>1. pc' = "finish" /\ events' = [events EXCEPT ![work.slot] = Pushed(work.slot, work.gen, "final")]
      BY <1>3, <2>3 DEF ReadCache
    <3> QED  BY <2>1, <2>3, <3>1 DEF Speaks, Busy
  <2>4. CASE ~Discards /\ found = "error" /\ ~refreshing
    <3>1. pc' = "answer" /\ events' = events
      BY <1>3, <2>4 DEF ReadCache
    <3> QED  BY <2>1, <2>4, <3>1 DEF Speaks, Busy
  <2>5. CASE ~Discards /\ ~(found = "hit" /\ ~refreshing) /\ ~(found = "error" /\ ~refreshing)
    <3>1. /\ pc' = "prepare"
          /\ \/ events' = events
             \/ events' = [events EXCEPT ![work.slot] = Pushed(work.slot, work.gen, "more")]
      BY <1>3, <2>5 DEF ReadCache
    <3> QED  BY <2>1, <2>5, <3>1 DEF Speaks, Busy
  <2> QED  BY <2>2, <2>3, <2>4, <2>5
<1> QED  BY <1>1, <1>2, <1>3

LEMMA SpeaksSlots == ASSUME Shapes, Single, PerSlot, Speaks PROVE PerSlot' /\ WorkKept
<1> DEFINE g == work.gen
<1>1. /\ work.slot \in Slot /\ g \in Nat \ {0} /\ OwnerHas(work.slot, g) /\ AtWork(work.slot, g)
      /\ pc # "finish"
  BY WorkIsAsked DEF Speaks
<1>2. Live(work.slot, g)
  BY <1>1 DEF Live
<1>3. WorkKept
  BY QuietWork DEF Speaks, fetches
<1>4. UNCHANGED <<pending, asked, active, cancelled, purging, closed, work>>
  BY DEF Speaks, mail, screen
<1>5. ASSUME NEW s \in Slot, s # work.slot PROVE SlotInv(s)'
  <2>1. events'[s] = events[s]
    BY <1>5 DEF Speaks, Shapes, ScreenShapes
  <2>2. SlotAlone(s)
    BY <1>4, <2>1 DEF SlotAlone
  <2>3. \A h \in Nat : ~OwnerHas(s, h)'
    BY <1>4, <1>5 DEF OwnerHas, Is
  <2>4. WorkAlone(s)
    BY <1>3, <1>4, <2>3, KeptIsAlone
  <2> QED  BY <1>4, <2>2, <2>4, AloneKeeps DEF PerSlot
<1>6. ASSUME NEW s \in Slot, s = work.slot PROVE SlotInv(s)'
  <2>1. SlotInv(s) /\ OwnerHas(s, g) /\ Live(s, g)
    BY <1>1, <1>2, <1>6 DEF PerSlot
  <2>2. CASE pc' # "finish" /\ events' = events
    <3>1. SlotAlone(s)
      BY <1>4, <2>2 DEF SlotAlone
    <3>2. WorkAlone(s)
      BY <1>3, <1>4, <2>2, KeptIsAlone
    <3> QED  BY <1>4, <2>1, <3>1, <3>2, AloneKeeps
  <2>3. ASSUME pc' = "finish", NEW h \in Nat
        PROVE  ~closed => (Live(s, h)' <=> Live(s, h) /\ h # g)
    <3>1. OwnerHas(s, h)' <=> h = g
      BY <1>4, <1>6, <2>3 DEF OwnerHas, Is, Busy
    <3> QED  BY <1>3, <1>4, <2>3, <3>1 DEF WorkKept, Live
  <2>4. CASE pc' = "finish" /\ events' = events /\ Discards
    <3>1. ~closed => g \in cancelled[s]
      BY <1>6, <2>4 DEF Discards
    <3>2. \A h \in Nat : /\ AtWork(s, h)' => AtWork(s, h)
                         /\ ~closed => (Live(s, h)' <=> Live(s, h) /\ h # g)
      BY <1>3, <2>3, <2>4 DEF WorkKept
    <3> HIDE DEF g
    <3> QED  BY <1>1, <1>4, <2>1, <2>4, <3>1, <3>2, EndsSlot
  <2>5. ASSUME NEW o \in {"more", "final"}, ~Discards, o = "final" <=> pc' = "finish",
               events' = [events EXCEPT ![work.slot] = Pushed(work.slot, work.gen, o)]
        PROVE  SlotInv(s)'
    <3>1. ~closed /\ g \notin cancelled[s] /\ events'[s] = Pushed(s, g, o)
      BY <1>6, <2>5 DEF Discards, Shapes, ScreenShapes
    <3>2. \A h \in Nat : /\ AtWork(s, h)' => AtWork(s, h)
                         /\ Live(s, h)' <=> Live(s, h) /\ ~(h = g /\ o = "final")
      <4>1. CASE pc' = "finish"
        BY <1>3, <2>3, <2>5, <3>1, <4>1 DEF WorkKept
      <4>2. CASE pc' # "finish"
        BY <1>3, <1>4, <2>5, <3>1, <4>2 DEF WorkKept
      <4> QED  BY <4>1, <4>2
    <3> HIDE DEF g
    <3> QED  BY <1>1, <1>4, <2>1, <3>1, <3>2, SaysSlot
  <2> QED  BY <2>2, <2>4, <2>5 DEF Speaks
<1> QED  BY <1>3, <1>5, <1>6 DEF PerSlot

\* A step that touches no slot and hands work on, if anything.
QuietStep ==
    /\ UNCHANGED <<mail, screen, events, closed>>
    /\ pc' = "finish" => pc = "finish" /\ work' = work

LEMMA QuietSlots == ASSUME Shapes, PerSlot, WorkKept, QuietStep PROVE PerSlot'
<1> SUFFICES ASSUME NEW s \in Slot PROVE SlotInv(s)'
  BY DEF PerSlot
<1>1. SlotAlone(s) /\ closed' = closed
  BY DEF QuietStep, SlotAlone, mail, screen
<1>2. ASSUME NEW g \in Nat, pc' = "finish", OwnerHas(s, g)' PROVE ~Live(s, g)
  BY <1>2 DEF QuietStep, OwnerHas, Live, Busy
<1>3. WorkAlone(s)
  BY <1>1, <1>2, KeptIsAlone
<1> QED  BY <1>1, <1>3, AloneKeeps DEF PerSlot

LEMMA CloseSlots ==
    ASSUME Shapes, Single, PerSlot, Close, running' \subseteq running, purging' = purging,
           pc' \in {Notified, "panicked"}
    PROVE  PerSlot' /\ Single'
BY CloseWork, CloseSlot DEF PerSlot, WorkKept

\* The UI thread leaves the work alone.
LEMMA UserWork ==
    ASSUME Shapes, Single, UNCHANGED <<fetches, work, closed>>, pc' \in {pc, Notified}, NEW s \in Slot
    PROVE  WorkKept /\ WorkAlone(s)
<1>1. pc' = pc \/ (pc \notin Busy /\ pc' \notin Busy)
  BY DEF Notified, Busy
<1>2. WorkKept
  BY <1>1, QuietWork DEF fetches
<1>3. ASSUME NEW g \in Nat, pc' = "finish", OwnerHas(s, g)' PROVE ~Live(s, g)
  BY <1>1, <1>3 DEF OwnerHas, Live, Busy
<1> QED  BY <1>2, <1>3, KeptIsAlone

LEMMA UserSlots == ASSUME Shapes, Single, PerSlot, UserNext PROVE PerSlot' /\ Single'
<1>1. ASSUME NEW s \in Slot, NEW joins \in BOOLEAN, NEW refresh \in BOOLEAN, Submit(s, joins, refresh)
      PROVE  PerSlot' /\ Single'
  <2>1. UNCHANGED <<fetches, work, closed>> /\ pc' \in {pc, Notified}
    BY <1>1 DEF Submit
  <2>2. ASSUME NEW t \in Slot, t # s PROVE SlotInv(t)'
    <3>1. SlotAlone(t) /\ closed' = closed
      BY <1>1, <2>2 DEF Submit, SlotAlone, Shapes, MailShapes, ScreenShapes
    <3>2. WorkAlone(t)
      BY <2>1, UserWork
    <3> QED  BY <3>1, <3>2, AloneKeeps DEF PerSlot
  <2>3. SlotInv(s)'
    BY <1>1, <2>1, UserWork, SubmitSlot DEF PerSlot
  <2> QED  BY <2>1, <2>2, <2>3, UserWork DEF PerSlot, WorkKept
<1>2. ASSUME NEW s \in Slot, CancelAsked(s) PROVE PerSlot' /\ Single'
  <2>1. UNCHANGED <<fetches, work, closed>> /\ pc' \in {pc, Notified}
    BY <1>2 DEF CancelAsked, owner
  <2>2. ASSUME NEW t \in Slot, t # s PROVE SlotInv(t)'
    <3>1. SlotAlone(t) /\ closed' = closed
      BY <1>2, <2>2, SlotFacts DEF CancelAsked, Responsive, SlotAlone, Shapes, MailShapes, ScreenShapes
    <3>2. WorkAlone(t)
      BY <2>1, UserWork
    <3> QED  BY <3>1, <3>2, AloneKeeps DEF PerSlot
  <2>3. SlotInv(s)'
    BY <1>2, <2>1, UserWork, CancelAskedSlot DEF PerSlot
  <2> QED  BY <2>1, <2>2, <2>3, UserWork DEF PerSlot, WorkKept
<1>3. ASSUME SubmitLocal PROVE PerSlot' /\ Single'
  <2>1. WorkKept
    BY <1>3, UserWork, SlotFacts DEF SubmitLocal
  <2>2. QuietStep
    BY <1>3 DEF SubmitLocal, QuietStep, Notified
  <2> QED  BY <2>1, <2>2, QuietSlots DEF WorkKept
<1>4. ASSUME Drop PROVE PerSlot' /\ Single'
  BY <1>4, CloseSlots DEF Drop
<1> QED  BY <1>1, <1>2, <1>3, <1>4 DEF UserNext

LEMMA ScreenSlots == ASSUME Shapes, Single, PerSlot, ScreenNext PROVE PerSlot' /\ Single'
<1>1. UNCHANGED <<fetches, work, closed>> /\ pc' \in {pc, Notified}
  BY DEF ScreenNext, PurgeAsked, PollLocal, PollEvent, owner
<1>2. Single' /\ \A s \in Slot : WorkAlone(s)
  BY <1>1, UserWork, SlotFacts DEF WorkKept
<1>3. ASSUME PurgeAsked, NEW s \in Slot PROVE SlotInv(s)'
  <2>1. CASE purging = s
    BY <1>2, <1>3, <2>1, PurgeAskedSlot DEF PerSlot
  <2>2. CASE purging # s
    <3>1. SlotAlone(s) /\ closed' = closed
      BY <1>3, <2>2, SlotFacts DEF PurgeAsked, SlotAlone, mail, Shapes, ScreenShapes
    <3> QED  BY <1>2, <3>1, AloneKeeps DEF PerSlot
  <2> QED  BY <2>1, <2>2
<1>4. ASSUME PollLocal, NEW s \in Slot PROVE SlotInv(s)'
  <2>1. SlotAlone(s) /\ closed' = closed
    BY <1>4 DEF PollLocal, SlotAlone, mail, screen
  <2> QED  BY <1>2, <2>1, AloneKeeps DEF PerSlot
<1>5. ASSUME NEW t \in Slot, PollEvent(t), NEW s \in Slot PROVE SlotInv(s)'
  <2>1. CASE s = t
    BY <1>2, <1>5, <2>1, PollEventSlot DEF PerSlot
  <2>2. CASE s # t
    <3>1. SlotAlone(s) /\ closed' = closed
      BY <1>5, <2>2 DEF PollEvent, SlotAlone, mail, Shapes, ScreenShapes
    <3> QED  BY <1>2, <3>1, AloneKeeps DEF PerSlot
  <2> QED  BY <2>1, <2>2
<1> QED  BY <1>2, <1>3, <1>4, <1>5 DEF ScreenNext, PerSlot

LEMMA TakeWorkSlots ==
    ASSUME Shapes, Single, PerSlot, NEW s \in Slot, TakeWork(s) PROVE PerSlot' /\ Single'
<1>1. pending[s].gen \in Nat /\ closed' = closed /\ ~closed /\ Pending(s)
  BY DEF TakeWork, Turn, Shapes, MailShapes, Requests
<1>2. ~AtWork(s, pending[s].gen)
  BY <1>1 DEF PerSlot, SlotInv, Current, QueuedIsNewest
<1>3. /\ Single'
      /\ \A t \in Slot, g \in Nat :
            /\ AtWork(t, g)' <=> AtWork(t, g) \/ (t = s /\ g = pending[s].gen)
            /\ Live(t, g)' <=> Live(t, g) \/ (t = s /\ g = pending[s].gen)
  BY <1>2, TakeWorkWork
<1>4. SlotInv(s)'
  BY <1>3, TakeWorkSlot DEF PerSlot
<1>5. ASSUME NEW t \in Slot, t # s PROVE SlotInv(t)'
  <2>1. SlotAlone(t)
    BY <1>5 DEF TakeWork, SlotAlone, screen, Shapes, MailShapes
  <2>2. WorkAlone(t)
    BY <1>3, <1>5 DEF WorkAlone
  <2> QED  BY <1>1, <2>1, <2>2, AloneKeeps DEF PerSlot
<1> QED  BY <1>3, <1>4, <1>5 DEF PerSlot

LEMMA FinishWorkSlots == ASSUME Shapes, Single, PerSlot, FinishWork PROVE PerSlot' /\ Single'
<1>1. WorkKept
  BY FinishWorkWork
<1>2. /\ work.slot \in Slot /\ work.gen \in Nat /\ OwnerHas(work.slot, work.gen)
      /\ Apart(work.slot, work.gen)
  <2>1. pc \in Busy
    BY DEF FinishWork, Goes, Busy
  <2> QED  BY <2>1, WorkIsAsked DEF Single
<1>3. ASSUME NEW s \in Slot, work.slot = s PROVE SlotInv(s)'
  BY <1>1, <1>2, <1>3, FinishWorkSlot DEF PerSlot
<1>4. ASSUME NEW s \in Slot, s # work.slot PROVE SlotInv(s)'
  <2>1. SlotAlone(s) /\ closed' = closed /\ pc' # "finish"
    BY <1>4 DEF FinishWork, Goes, SlotAlone, screen, Shapes, MailShapes
  <2>2. WorkAlone(s)
    BY <1>1, <2>1, KeptIsAlone
  <2> QED  BY <2>1, <2>2, AloneKeeps DEF PerSlot
<1> QED  BY <1>1, <1>3, <1>4 DEF PerSlot, WorkKept

LEMMA OwnerSlots == ASSUME Shapes, Single, PerSlot, OwnerNext PROVE PerSlot' /\ Single'
<1>1. ASSUME TakeLocal \/ Park \/ Exit \/ ExecuteLocal \/ OpenBackend \/ CannotFetch \/ Persist
      PROVE  PerSlot' /\ Single'
  <2>1. UNCHANGED <<mail, screen, events, closed, fetches, work>> /\ pc' # "finish"
    BY <1>1 DEF TakeLocal, Park, Exit, ExecuteLocal, OpenBackend, CannotFetch, Persist, Goes
  <2>2. \/ pc \notin Busy /\ pc' \notin Busy
        \/ pc \in Busy \ {"finish"} /\ pc' \in Busy
    BY <1>1 DEF TakeLocal, Park, Exit, ExecuteLocal, OpenBackend, CannotFetch, Persist, Goes, Busy
  <2>3. WorkKept
    BY <2>1, <2>2, QuietWork DEF fetches
  <2> QED  BY <2>1, <2>3, QuietSlots DEF QuietStep, WorkKept
<1>2. ASSUME TakeCompleted PROVE PerSlot' /\ Single'
  BY <1>2, TakeCompletedWork, QuietSlots DEF TakeCompleted, QuietStep, WorkKept
<1>3. ASSUME Dispatch PROVE PerSlot' /\ Single'
  BY <1>3, DispatchWork, QuietSlots DEF Dispatch, Goes, QuietStep, WorkKept
<1>4. ASSUME Speaks PROVE PerSlot' /\ Single'
  BY <1>4, SpeaksSlots DEF WorkKept
<1> QED  BY <1>1, <1>2, <1>3, <1>4, OwnerSpeaks, TakeWorkSlots, FinishWorkSlots DEF OwnerNext

LEMMA NextSlots == ASSUME Shapes, Single, PerSlot, Owner, Next PROVE PerSlot' /\ Single'
<1>1. ASSUME FetchTakes PROVE PerSlot' /\ Single'
  BY <1>1, FetchTakesWork, QuietSlots DEF FetchTakes, owner, QuietStep, WorkKept
<1>2. ASSUME NEW w \in running, FetchEnds(w) PROVE PerSlot' /\ Single'
  BY <1>2, FetchEndsWork, QuietSlots DEF FetchEnds, Told, Notified, QuietStep, WorkKept
<1>3. ASSUME Panic PROVE PerSlot' /\ Single'
  BY <1>3, CloseSlots DEF Panic, OwnerPanics, FetchPanics
<1> QED  BY <1>1, <1>2, <1>3, UserSlots, ScreenSlots, OwnerSlots DEF Next, FetchNext

\* Generations only grow, and what the owner takes up was asked for.
LEMMA NextHeld == ASSUME Shapes, PerSlot, HeldIsAsked, Next PROVE HeldIsAsked'
<1>1. work \in Jobs /\ \A s \in Slot : asked[s] \in Askings
  BY DEF Shapes, OwnerShapes, ScreenShapes
<1>2. work.slot \in Slot /\ \A s \in Slot : asked[s].gen \in Nat
  BY <1>1 DEF Jobs, Askings
<1>3. ASSUME UNCHANGED <<work, asked>> PROVE HeldIsAsked'
  BY <1>3 DEF HeldIsAsked, Bounded
<1>4. ASSUME UNCHANGED asked, work' = NoWork PROVE HeldIsAsked'
  <2>1. 1 \in Slot /\ NoWork.slot = 1 /\ NoWork.gen = 0
    BY SlotFacts DEF NoWork
  <2>2. work'.slot = 1 /\ work'.gen = 0 /\ asked'[1].gen \in Nat
    BY <1>2, <1>4, <2>1
  <2> QED  BY <2>2 DEF HeldIsAsked, Bounded
<1>5. ASSUME UserNext PROVE HeldIsAsked'
  <2>1. ASSUME NEW s \in Slot, NEW joins \in BOOLEAN, NEW refresh \in BOOLEAN, Submit(s, joins, refresh)
        PROVE HeldIsAsked'
    <3>1. work' = work /\ asked' = [asked EXCEPT ![s] = [gen |-> asked[s].gen + 1, waiting |-> TRUE]]
      BY <2>1 DEF Submit
    <3>2. asked'[work.slot].gen = asked[work.slot].gen
          \/ asked'[work.slot].gen = asked[work.slot].gen + 1
      BY <1>2, <3>1 DEF Shapes, ScreenShapes
    <3>3. asked'[work.slot].gen \in Nat /\ asked[work.slot].gen <= asked'[work.slot].gen
      BY <1>2, <3>2
    <3>4. work.gen \in Nat /\ work.gen <= asked[work.slot].gen
      BY DEF HeldIsAsked, Bounded
    <3>5. work.gen <= asked'[work.slot].gen
      BY <1>2, <3>3, <3>4
    <3> QED  BY <3>1, <3>4, <3>5 DEF HeldIsAsked, Bounded
  <2>2. ASSUME NEW s \in Slot, CancelAsked(s) PROVE HeldIsAsked'
    <3>1. work' = work /\ \A t \in Slot : asked'[t].gen = asked[t].gen
      BY <1>1, <2>2 DEF CancelAsked, owner, Shapes, ScreenShapes, Askings
    <3> QED  BY <1>2, <3>1 DEF HeldIsAsked, Bounded
  <2>3. ASSUME SubmitLocal \/ Drop PROVE HeldIsAsked'
    BY <1>3, <2>3 DEF SubmitLocal, Drop, Close, screen
  <2> QED  BY <1>5, <2>1, <2>2, <2>3 DEF UserNext
<1>6. ASSUME ScreenNext PROVE HeldIsAsked'
  <2>1. ASSUME NEW s \in Slot, PollEvent(s) PROVE HeldIsAsked'
    <3>1. work' = work /\ \A t \in Slot : asked'[t].gen = asked[t].gen
      BY <1>1, <2>1 DEF PollEvent, owner, Shapes, ScreenShapes, Askings
    <3> QED  BY <1>2, <3>1 DEF HeldIsAsked, Bounded
  <2>2. ASSUME PurgeAsked \/ PollLocal PROVE HeldIsAsked'
    BY <1>3, <2>2 DEF PurgeAsked, PollLocal, owner, screen
  <2> QED  BY <1>6, <2>1, <2>2 DEF ScreenNext
<1>7. ASSUME OwnerNext PROVE HeldIsAsked'
  <2>1. ASSUME TakeCompleted PROVE HeldIsAsked'
    <3>1. completed \in Seq(Jobs) /\ completed # <<>> /\ work' = Head(completed) /\ asked' = asked
      BY <2>1 DEF TakeCompleted, screen, Shapes, FetchShapes
    <3>2. Head(completed) = completed[1] /\ 1 \in DOMAIN completed /\ Head(completed) \in Jobs
      BY <3>1, TailIndices, HeadTailProperties
    <3>3. work'.slot \in Slot /\ work'.gen \in Nat /\ Has(completed, work'.slot, work'.gen)
      BY <3>1, <3>2 DEF Jobs, Has, Is
    <3>4. AtWork(work'.slot, work'.gen)
      BY <3>3 DEF AtWork
    <3>5. Bounded(work'.slot, work'.gen)
      BY <3>3, <3>4 DEF PerSlot, SlotInv, Generations
    <3> QED  BY <3>1, <3>5 DEF HeldIsAsked, Bounded
  <2>2. ASSUME NEW s \in Slot, TakeWork(s) PROVE HeldIsAsked'
    <3>1. work'.slot = s /\ work'.gen = pending[s].gen /\ asked' = asked
      BY <2>2 DEF TakeWork, screen
    <3>2. Bounded(s, pending[s].gen)
      BY DEF PerSlot, SlotInv, Generations
    <3> QED  BY <3>1, <3>2 DEF HeldIsAsked, Bounded
  <2>3. ASSUME Dispatch \/ FinishWork PROVE HeldIsAsked'
    BY <1>4, <2>3 DEF Dispatch, FinishWork, screen
  <2> QED
    BY <1>3, <1>7, <2>1, <2>2, <2>3
       DEF OwnerNext, TakeLocal, Park, Exit, ExecuteLocal, OpenBackend, ReadCache, CannotFetch,
           CheckCompleted, Persist, SendTerminal, screen
<1>8. ASSUME FetchNext \/ Panic PROVE HeldIsAsked'
  BY <1>3, <1>8 DEF FetchNext, FetchTakes, FetchEnds, Panic, OwnerPanics, FetchPanics, Close,
                    owner, screen
<1> QED  BY <1>5, <1>6, <1>7, <1>8 DEF Next

-----------------------------------------------------------------------------
(* The invariant                                                             *)

LEMMA InitCatalogInv == Init => CatalogInv
<1> SUFFICES ASSUME Init PROVE CatalogInv
  OBVIOUS
<1>1. NoRequest \in Requests /\ NoWork \in Jobs
  BY NoWorkShape DEF NoRequest, Requests
<1>2. \A S : <<>> \in Seq(S) /\ Len(<<>>) = 0
  BY EmptySeq
<1>3. Shapes
  <2>1. MailShapes /\ TurnShapes /\ OwnerShapes
    BY <1>1, SlotFacts DEF Init, MailShapes, TurnShapes, OwnerShapes, Steps
  <2>2. ScreenShapes
    <3>1. [gen |-> 0, waiting |-> FALSE] \in Askings
      BY DEF Askings
    <3>2. <<>> \in Seq(Events)
      BY <1>2
    <3>3. purging \in 0..Slots
      BY SlotFacts DEF Init
    <3> QED  BY <3>1, <3>2, <3>3 DEF Init, ScreenShapes
  <2>3. LocalShapes
    BY <1>2 DEF Init, LocalShapes
  <2>4. FetchShapes
    BY <1>2, SlotFacts DEF Init, FetchShapes
  <2> QED  BY <2>1, <2>2, <2>3, <2>4 DEF Init, Shapes
<1>4. ASSUME NEW s \in Slot, NEW g \in Nat
      PROVE ~OwnerHas(s, g) /\ ~RunHas(s, g) /\ ~Has(jobs, s, g) /\ ~Has(completed, s, g)
  BY DEF Init, OwnerHas, RunHas, Has, Busy
<1>5. Single
  BY <1>4 DEF Single, Apart, Distinct, Init
<1>6. Flights
  <2>1. IsFiniteSet({}) /\ Cardinality({}) = 0
    BY FS_EmptySet
  <2> QED  BY <1>2, <2>1, SlotFacts DEF Init, Flights
<1>7. PerSlot
  <2> SUFFICES ASSUME NEW s \in Slot PROVE SlotInv(s)
    BY DEF PerSlot
  <2>1. /\ asked[s].gen = 0 /\ ~asked[s].waiting /\ pending[s] = NoRequest /\ active[s] = 0
        /\ cancelled[s] = {} /\ events[s] = <<>> /\ purging = 0 /\ s # 0
    BY SlotFacts DEF Init
  <2>2. MaxGeneration[s] \in Nat /\ ~Pending(s) /\ pending[s].gen = 0 /\ DOMAIN events[s] = {}
    BY <2>1, SlotFacts DEF Pending, NoRequest
  <2>3. \A g \in Nat : ~AtWork(s, g)
    BY <1>4 DEF AtWork
  <2>4. Generations(s)
    BY <2>1, <2>2, <2>3 DEF Generations, Bounded
  <2>5. Queues(s)
    <3>1. Len(events[s]) <= EventsPerKind
      BY <1>2, <2>1, SlotFacts
    <3> QED  BY <2>1, <2>2, <3>1 DEF Queues
  <2>6. Current(s)
    BY <2>1, <2>2, <2>3 DEF Current, QueuedIsNewest, LiveIsWanted, FinalIsLast, Remembered, Live
  <2> QED  BY <2>4, <2>5, <2>6 DEF SlotInv
<1>8. Locals
  <2>1. Held = 0 /\ Len(local) = 0 /\ Len(localEvents) = 0 /\ DOMAIN local = {} /\ DOMAIN localEvents = {}
    BY <1>2 DEF Init, Held
  <2> QED  BY <2>1, SlotFacts DEF Init, Locals, Answered, InHand, Queued, Counted
<1>9. Turns
  BY SlotFacts DEF Init, Turns, Pending
<1>10. Owner /\ HeldIsAsked /\ NeverRestsWithWork
  <2>1. work.slot = 1 /\ work.gen = 0 /\ asked[1].gen = 0
    BY SlotFacts DEF Init, NoWork
  <2> QED  BY <2>1, SlotFacts DEF Init, Owner, HeldIsAsked, Bounded, NeverRestsWithWork, Pending
<1> QED  BY <1>3, <1>5, <1>6, <1>7, <1>8, <1>9, <1>10 DEF CatalogInv

LEMMA StutterCatalogInv == ASSUME CatalogInv, UNCHANGED vars PROVE CatalogInv'
<1> USE DEF vars, mail, locals, fetches, owner, screen, turns
<1>1. Shapes'
  BY DEF CatalogInv, Shapes, MailShapes, LocalShapes, FetchShapes, OwnerShapes, ScreenShapes, TurnShapes
<1>2. WorkKept
  BY QuietWork DEF CatalogInv
<1>3. PerSlot'
  BY <1>2, QuietSlots DEF CatalogInv, QuietStep
<1>4. Flights' /\ Turns' /\ Locals'
  BY DEF CatalogInv, Flights, Turns, Pending, Distance, Locals, Answered, InHand, Queued, Counted, Held
<1>5. Owner' /\ HeldIsAsked' /\ NeverRestsWithWork'
  BY DEF CatalogInv, Owner, HeldIsAsked, Bounded, NeverRestsWithWork, Waiting, Admits, Pending
<1> QED  BY <1>1, <1>2, <1>3, <1>4, <1>5 DEF CatalogInv, WorkKept

LEMMA NextCatalogInv == CatalogInv /\ [Next]_vars => CatalogInv'
<1>1. ASSUME CatalogInv, Next PROVE CatalogInv'
  BY <1>1, NextShapes, NextFlights, NextSlots, NextLocals, NextTurns, NextOwner, NextHeld, NextRests
     DEF CatalogInv
<1> QED  BY <1>1, StutterCatalogInv

LEMMA CatalogInvariant == Spec => []CatalogInv
<1> QED  BY InitCatalogInv, NextCatalogInv, PTL DEF Spec

\* The invariant gives every variable its type and every queue its bound.
LEMMA SlotTypes ==
    ASSUME CatalogInv, NEW s \in Slot
    PROVE  /\ pending[s] \in [gen : Generation(s), refresh : BOOLEAN]
           /\ active[s] \in Generation(s) /\ cancelled[s] \subseteq Generation(s) \ {0}
           /\ asked[s] \in [gen : Generation(s), waiting : BOOLEAN]
           /\ events[s] \in Seq([gen : Generation(s) \ {0}, outcome : {"more", "final"}])
           /\ Len(events[s]) <= EventsPerKind
           /\ \A g \in Nat : AtWork(s, g) => g \in Generation(s)
<1>1. Generations(s) /\ Queues(s)
  BY DEF CatalogInv, PerSlot, SlotInv
<1>2. MaxGeneration[s] \in Nat
  BY SlotFacts
<1>3. /\ pending[s] \in Requests /\ active[s] \in Nat /\ cancelled[s] \subseteq Nat
      /\ asked[s] \in Askings /\ events[s] \in Seq(Events)
  BY DEF CatalogInv, Shapes, MailShapes, ScreenShapes
<1>4. asked[s].gen \in Nat /\ asked[s].gen <= MaxGeneration[s]
  BY <1>1, <1>3 DEF Generations, Askings
<1>5. \A g \in Nat : g <= asked[s].gen => g \in Generation(s)
  BY <1>2, <1>4 DEF Generation
<1>6. /\ pending[s].gen \in Generation(s) /\ active[s] \in Generation(s)
      /\ asked[s].gen \in Generation(s)
  BY <1>1, <1>4, <1>5 DEF Generations, Bounded
<1>7. \A g \in cancelled[s] : g \in Generation(s) /\ g # 0
  BY <1>1, <1>5 DEF Generations, Bounded
<1>8. \A g \in Nat : AtWork(s, g) => g \in Generation(s)
  BY <1>1, <1>5 DEF Generations, Bounded
<1>9. events[s] \in Seq([gen : Generation(s) \ {0}, outcome : {"more", "final"}])
  <2> DEFINE S == [gen : Generation(s) \ {0}, outcome : {"more", "final"}]
             n == Len(events[s])
  <2>1. n \in Nat /\ events[s] \in [1..n -> Events] /\ DOMAIN events[s] = 1..n
    BY <1>3, LenProperties
  <2>2. ASSUME NEW k \in 1..n PROVE events[s][k] \in S
    <3>1. events[s][k] \in Events
      BY <2>1
    <3>2. events[s][k].gen \in Generation(s)
      BY <1>1, <1>5, <2>1 DEF Generations, Bounded
    <3> QED  BY <3>1, <3>2 DEF Events
  <2> HIDE DEF S
  <2>3. events[s] \in [1..n -> S]
    BY <2>1, <2>2
  <2>4. events[s] \in Seq(S)
    BY <2>1, <2>3, SeqDef
  <2> QED  BY <2>4 DEF S
<1>10. pending[s] \in [gen : Generation(s), refresh : BOOLEAN]
  BY <1>3, <1>6 DEF Requests
<1>11. asked[s] \in [gen : Generation(s), waiting : BOOLEAN]
  BY <1>3, <1>6 DEF Askings
<1>12. Len(events[s]) <= EventsPerKind
  BY <1>1 DEF Queues
<1>13. cancelled[s] \subseteq Generation(s) \ {0}
  BY <1>7
<1> QED  BY <1>6, <1>8, <1>9, <1>10, <1>11, <1>12, <1>13

LEMMA LocalTypes ==
    ASSUME CatalogInv
    PROVE  /\ local \in Seq(1..MaxLocal) /\ request \in 0..MaxLocal
           /\ localEvents \in Seq(1..MaxLocal) /\ outstanding \in 0..LocalCapacity
           /\ accepted \in 0..MaxLocal /\ acknowledged \in 0..MaxLocal
<1> DEFINE n == Len(local)
           m == Len(localEvents)
<1>1. /\ n \in Nat /\ m \in Nat /\ DOMAIN local = 1..n /\ DOMAIN localEvents = 1..m
      /\ local \in [1..n -> Nat] /\ localEvents \in [1..m -> Nat]
  BY LenProperties DEF CatalogInv, Shapes, LocalShapes
<1>2. /\ request \in Nat /\ outstanding \in Nat /\ accepted \in Nat /\ acknowledged \in Nat
  BY DEF CatalogInv, Shapes, LocalShapes
<1>3. Answered /\ InHand /\ Queued
  BY DEF CatalogInv, Locals
<1>4. /\ accepted = acknowledged + m + Held + n /\ outstanding <= LocalCapacity
      /\ accepted <= MaxLocal /\ Held \in {0, 1} /\ (request # 0 => Held = 1)
  BY DEF CatalogInv, Locals, Counted, Held
<1>5. MaxLocal \in Nat /\ LocalCapacity \in Nat
  BY SlotFacts, BoundsAssumption
<1>6. ASSUME NEW k \in DOMAIN local PROVE local[k] \in 1..MaxLocal
  <2>1. local[k] = acknowledged + m + Held + k
    BY <1>3, <1>6 DEF Queued
  <2> HIDE DEF n, m
  <2> QED  BY <1>1, <1>2, <1>4, <1>5, <2>1
<1>7. ASSUME NEW k \in DOMAIN localEvents PROVE localEvents[k] \in 1..MaxLocal
  <2>1. localEvents[k] = acknowledged + k
    BY <1>3, <1>7 DEF Answered
  <2> HIDE DEF n, m
  <2> QED  BY <1>1, <1>2, <1>4, <1>5, <2>1
<1>8. local \in [1..n -> 1..MaxLocal] /\ localEvents \in [1..m -> 1..MaxLocal]
  BY <1>1, <1>6, <1>7
<1>9. local \in Seq(1..MaxLocal) /\ localEvents \in Seq(1..MaxLocal)
  <2> DEFINE S == 1..MaxLocal
  <2>1. local \in [1..n -> S] /\ localEvents \in [1..m -> S] /\ n \in Nat /\ m \in Nat
    BY <1>1, <1>8
  <2> HIDE DEF S, n, m
  <2>2. local \in Seq(S) /\ localEvents \in Seq(S)
    BY <2>1, SeqDef
  <2> QED  BY <2>2 DEF S
<1>10. request \in 0..MaxLocal
  <2>1. request # 0 => request = acknowledged + m + 1
    BY <1>3 DEF InHand
  <2> HIDE DEF n, m
  <2> QED  BY <1>1, <1>2, <1>4, <1>5, <2>1
<1>11. acknowledged \in 0..MaxLocal
  <2> HIDE DEF n, m
  <2> QED  BY <1>1, <1>2, <1>4, <1>5
<1> QED  BY <1>2, <1>4, <1>5, <1>9, <1>10, <1>11

LEMMA FetchTypes ==
    ASSUME CatalogInv
    PROVE  /\ Len(completed) + Len(jobs) + Cardinality(running) <= FetchThreads
           /\ (pc = "prepare" => Len(jobs) < FetchThreads)
           /\ \A k \in 1..Len(completed) : completed[k] \in Work
           /\ \A k \in 1..Len(jobs) : jobs[k] \in Work
           /\ running \subseteq Work /\ work \in Work
           /\ inFlight \in 0..FetchThreads /\ started \in 0..FetchThreads
           /\ idle \in 0..FetchThreads
<1>1. /\ Flights /\ FetchThreads \in Nat /\ inFlight \in Nat /\ started \in Nat /\ idle \in Nat
  BY SlotFacts DEF CatalogInv, Shapes, FetchShapes
<1>2. /\ Len(completed) \in Nat /\ Len(jobs) \in Nat
      /\ DOMAIN completed = 1..Len(completed) /\ DOMAIN jobs = 1..Len(jobs)
      /\ \A k \in 1..Len(completed) : completed[k] \in Jobs
      /\ \A k \in 1..Len(jobs) : jobs[k] \in Jobs
  BY LenProperties, ElementOfSeq DEF CatalogInv, Shapes, FetchShapes
<1>3. Cardinality(running) \in Nat
  BY <1>1, FS_CardinalityType DEF Flights
<1>4. /\ running \subseteq Jobs /\ work \in Jobs
  BY DEF CatalogInv, Shapes, FetchShapes, OwnerShapes
<1>5. ASSUME NEW w \in Jobs, AtWork(w.slot, w.gen) PROVE w \in Work
  <2>1. w.slot \in Slot /\ w.gen \in Nat
    BY DEF Jobs
  <2>2. w.gen \in Generation(w.slot)
    BY <1>5, <2>1, SlotTypes
  <2> QED  BY <2>2 DEF Work, Jobs
<1>6. \A k \in 1..Len(completed) : completed[k] \in Work
  BY <1>2, <1>5 DEF AtWork, Has, Is
<1>7. \A k \in 1..Len(jobs) : jobs[k] \in Work
  BY <1>2, <1>5 DEF AtWork, Has, Is
<1>8. running \subseteq Work
  BY <1>4, <1>5 DEF AtWork, RunHas, Is
<1>9. work \in Work
  <2>1. work.slot \in Slot /\ work.gen \in Nat /\ work.gen <= asked[work.slot].gen
    BY <1>4 DEF Jobs, CatalogInv, HeldIsAsked, Bounded
  <2>2. /\ asked[work.slot].gen \in Nat /\ MaxGeneration[work.slot] \in Nat
        /\ asked[work.slot].gen <= MaxGeneration[work.slot]
    BY <2>1, SlotFacts DEF CatalogInv, PerSlot, SlotInv, Generations, Shapes, ScreenShapes, Askings
  <2>3. work.gen \in Generation(work.slot)
    BY <2>1, <2>2 DEF Generation
  <2> QED  BY <1>4, <2>3 DEF Work, Jobs
<1>10. /\ Len(completed) + Len(jobs) + Cardinality(running) <= FetchThreads
       /\ inFlight \in 0..FetchThreads /\ started \in 0..FetchThreads /\ idle \in 0..FetchThreads
  BY <1>1, <1>2, <1>3 DEF Flights
<1>11. pc = "prepare" => Len(jobs) < FetchThreads
  BY <1>1, <1>2, <1>3 DEF Flights
<1> QED  BY <1>6, <1>7, <1>8, <1>9, <1>10, <1>11

-----------------------------------------------------------------------------
(* Theorems                                                                  *)

\* Accepted local requests are answered once and in order, and counted exactly.
THEOREM LocalsInOrder == Spec => []LocalInOrder
<1>1. CatalogInv => LocalInOrder
  <2> SUFFICES ASSUME CatalogInv PROVE LocalInOrder
    OBVIOUS
  <2> DEFINE held == IF request = 0 THEN <<>> ELSE <<request>>
             front == localEvents \o held
             all == front \o local
             n == Len(localEvents)
             m == accepted - acknowledged
             numbers == [k \in 1..m |-> acknowledged + k]
  <2>1. /\ localEvents \in Seq(Nat) /\ local \in Seq(Nat) /\ n \in Nat /\ Len(local) \in Nat
        /\ DOMAIN localEvents = 1..n /\ DOMAIN local = 1..Len(local)
        /\ acknowledged \in Nat /\ accepted \in Nat /\ request \in Nat
    BY LenProperties DEF CatalogInv, Shapes, LocalShapes
  <2>2. /\ held \in Seq(Nat) /\ Len(held) = Held /\ Held \in Nat
        /\ \A i \in 1..Len(held) : held[i] = request /\ i = 1 /\ request # 0
    <3>1. CASE request = 0
      BY <3>1, EmptySeq DEF Held
    <3>2. CASE request # 0
      BY <2>1, <3>2 DEF Held
    <3> QED  BY <3>1, <3>2
  <2>3. Answered /\ InHand /\ Queued /\ Counted
    BY DEF CatalogInv, Locals
  <2> HIDE DEF held
  <2>4. /\ front \in Seq(Nat) /\ Len(front) = n + Held
        /\ \A i \in 1..(n + Held) : front[i] = acknowledged + i
    <3>1. /\ front \in Seq(Nat) /\ Len(front) = n + Len(held)
          /\ \A i \in 1..(n + Len(held)) :
                front[i] = IF i <= n THEN localEvents[i] ELSE held[i - n]
      <4>1. localEvents \in Seq(Nat) /\ held \in Seq(Nat)
        BY <2>1, <2>2
      <4> QED  BY <4>1, ConcatProperties
    <3>2. ASSUME NEW i \in 1..(n + Held) PROVE front[i] = acknowledged + i
      <4>1. CASE i <= n
        <5>1. i \in DOMAIN localEvents /\ i \in 1..(n + Len(held))
          <6> HIDE DEF n
          <6> QED  BY <2>1, <2>2, <4>1
        <5>2. localEvents[i] = acknowledged + i
          BY <2>3, <5>1 DEF Answered
        <5> HIDE DEF n, front
        <5> QED  BY <3>1, <4>1, <5>1, <5>2
      <4>2. CASE ~(i <= n)
        <5>1. i - n \in 1..Len(held)
          BY <2>1, <2>2, <4>2
        <5>2. i - n = 1 /\ held[i - n] = request /\ request = acknowledged + n + 1
          BY <2>2, <2>3, <5>1 DEF InHand
        <5>3. i = n + 1
          BY <2>1, <5>2
        <5>4. front[i] = request
          BY <2>2, <3>1, <4>2, <5>2
        <5> HIDE DEF n
        <5> QED  BY <2>1, <5>2, <5>3, <5>4
      <4> QED  BY <4>1, <4>2
    <3> QED  BY <2>2, <3>1, <3>2
  <2> HIDE DEF front
  <2>5. /\ all \in Seq(Nat) /\ Len(all) = m /\ m \in Nat
        /\ \A i \in 1..m : all[i] = acknowledged + i
    <3>1. /\ all \in Seq(Nat) /\ Len(all) = Len(front) + Len(local)
          /\ \A i \in 1..(Len(front) + Len(local)) :
                all[i] = IF i <= Len(front) THEN front[i] ELSE local[i - Len(front)]
      BY <2>1, <2>4, ConcatProperties
    <3>2. accepted = acknowledged + n + Held + Len(local)
      BY <2>3 DEF Counted
    <3>3. m = Len(front) + Len(local) /\ m \in Nat
      <4> HIDE DEF n
      <4> QED  BY <2>1, <2>2, <2>4, <3>2
    <3> HIDE DEF m
    <3>4. ASSUME NEW i \in 1..m PROVE all[i] = acknowledged + i
      <4>1. CASE i <= Len(front)
        BY <2>1, <2>2, <2>4, <3>1, <3>3, <4>1
      <4>2. CASE ~(i <= Len(front))
        <5> DEFINE k == i - Len(front)
        <5>1. k \in 1..Len(local) /\ i = k + (n + Held)
          <6> HIDE DEF n
          <6> QED  BY <2>1, <2>2, <2>4, <3>3, <4>2
        <5>2. all[i] = local[k]
          BY <3>1, <3>3, <4>2
        <5> HIDE DEF k
        <5>3. local[k] = acknowledged + n + Held + k
          BY <2>1, <2>3, <5>1 DEF Queued
        <5> HIDE DEF n
        <5> QED  BY <2>1, <2>2, <5>1, <5>2, <5>3
      <4> QED  BY <4>1, <4>2
    <3> QED  BY <3>1, <3>3, <3>4
  <2> HIDE DEF all, m
  <2>6. numbers \in Seq(Nat) /\ Len(numbers) = m /\ \A i \in 1..m : numbers[i] = acknowledged + i
    <3>1. numbers \in [1..m -> Nat]
      BY <2>1, <2>5
    <3>2. numbers \in Seq(Nat)
      BY <2>5, <3>1, SeqDef
    <3>3. DOMAIN numbers = 1..Len(numbers) /\ Len(numbers) \in Nat
      BY <3>2, LenProperties
    <3>4. Len(numbers) = m
      BY <2>5, <3>1, <3>3
    <3> QED  BY <3>2, <3>4
  <2> HIDE DEF numbers
  <2>7. all = numbers
    BY <2>5, <2>6, SeqEqual
  <2>8. outstanding = m
    BY <2>3 DEF Counted, m
  <2> QED  BY <2>7, <2>8 DEF LocalInOrder, held, front, all, m, numbers
<1> QED  BY <1>1, CatalogInvariant, PTL

\* Nothing is heard of a request that was cancelled or finally answered.
THEOREM EndedIsSilent == Spec => []SilentAfterEnd
<1>1. CatalogInv => SilentAfterEnd
  <2> SUFFICES ASSUME CatalogInv, NEW s \in Slot, ~asked[s].waiting, purging # s,
                      NEW k \in 1..Len(events[s])
               PROVE  events[s][k].gen # asked[s].gen
    BY DEF SilentAfterEnd
  <2>1. DOMAIN events[s] = 1..Len(events[s])
    BY LenProperties DEF CatalogInv, Shapes, ScreenShapes
  <2> QED  BY <2>1 DEF CatalogInv, PerSlot, SlotInv, Queues
<1> QED  BY <1>1, CatalogInvariant, PTL

\* No awaited answer and no wake-up is lost.
THEOREM NothingIsLost == Spec => []NothingLost
<1>1. CatalogInv => NothingLost
  <2> SUFFICES ASSUME CatalogInv PROVE NothingForgotten
    BY DEF NothingLost, CatalogInv
  <2> SUFFICES ASSUME NEW s \in Slot, asked[s].waiting, ~closed
               PROVE  \/ pending[s].gen = asked[s].gen
                      \/ InProgress(s, asked[s].gen)
                      \/ \E k \in 1..Len(events[s]) :
                           events[s][k] = [gen |-> asked[s].gen, outcome |-> "final"]
    BY DEF NothingForgotten
  <2>1. Current(s)
    BY DEF CatalogInv, PerSlot, SlotInv
  <2>2. /\ DOMAIN events[s] = 1..Len(events[s]) /\ DOMAIN jobs = 1..Len(jobs)
        /\ DOMAIN completed = 1..Len(completed)
    BY LenProperties DEF CatalogInv, Shapes, ScreenShapes, FetchShapes
  <2>3. ASSUME Live(s, asked[s].gen) PROVE InProgress(s, asked[s].gen)
    <3>1. asked[s].gen \notin cancelled[s]
      BY <2>1 DEF Current
    <3>2. \/ OwnerHas(s, asked[s].gen) /\ pc # "finish"
          \/ RunHas(s, asked[s].gen) \/ Has(jobs, s, asked[s].gen) \/ Has(completed, s, asked[s].gen)
      BY <2>3 DEF Live, AtWork
    <3> QED  BY <2>2, <3>1, <3>2 DEF InProgress, OwnerHas, RunHas, Has, Is
  <2> QED  BY <2>1, <2>2, <2>3 DEF Current, Remembered, Answer
<1> QED  BY <1>1, CatalogInvariant, PTL

\* The owner writes and says only what the coordinator still waits for.
THEOREM OnlyWantedIsActedOn == Spec => ActsOnlyForWanted
<1>1. ASSUME CatalogInv, Speaks, ~Discards PROVE Wanted(work)
  <2>1. /\ work.slot \in Slot /\ work.gen \in Nat \ {0} /\ AtWork(work.slot, work.gen)
        /\ pc # "finish"
    BY <1>1, WorkIsAsked DEF CatalogInv, Speaks
  <2>2. Live(work.slot, work.gen) /\ work.gen \notin cancelled[work.slot] /\ ~closed
    BY <1>1, <2>1 DEF Live, Discards
  <2> QED  BY <1>1, <2>1, <2>2 DEF CatalogInv, PerSlot, SlotInv, Current, LiveIsWanted, Wanted
<1>2. ASSUME CatalogInv, Next, pc' # pc,
             pc' = "persist" \/ (pc \in {"read", "answer"} /\ events' # events)
      PROVE  Wanted(work)
  <2>1. ASSUME CheckCompleted PROVE Wanted(work)
    <3>1. ~Discards
      BY <1>2, <2>1 DEF CheckCompleted, Goes
    <3> QED  BY <1>1, <1>2, <2>1, <3>1, OwnerSpeaks
  <2>2. ASSUME SendTerminal PROVE Wanted(work)
    <3>1. ~Discards
      BY <1>2, <2>2 DEF SendTerminal, Goes, Silent
    <3> QED  BY <1>1, <1>2, <2>2, <3>1, OwnerSpeaks
  <2>3. ASSUME NEW found \in {"hit", "miss", "error"}, NEW refreshing \in BOOLEAN,
               ReadCache(found, refreshing)
        PROVE  Wanted(work)
    <3>1. ~Discards
      BY <1>2, <2>3 DEF ReadCache
    <3> QED  BY <1>1, <1>2, <2>3, <3>1, OwnerSpeaks
  <2>4. ASSUME UserNext \/ ScreenNext \/ FetchNext \/ Panic PROVE Wanted(work)
    <3>1. pc' \in {pc, Notified, "panicked"} /\ (pc' # pc => events' = events)
      BY <2>4 DEF UserNext, ScreenNext, FetchNext, Panic, Submit, CancelAsked, SubmitLocal, Drop,
                  Close, PurgeAsked, PollLocal, PollEvent, FetchTakes, FetchEnds, Told, FetchPanics,
                  OwnerPanics, owner
    <3> QED  BY <1>2, <3>1 DEF Notified
  <2> QED
    BY <1>2, <2>1, <2>2, <2>3, <2>4
       DEF Next, OwnerNext, TakeLocal, TakeCompleted, TakeWork, Park, Exit, ExecuteLocal,
           OpenBackend, CannotFetch, Dispatch, Persist, FinishWork, Goes
<1>3. CatalogInv /\ [Next]_vars =>
        [pc' # pc /\ (pc' = "persist" \/ (pc \in {"read", "answer"} /\ events' # events))
           => Wanted(work)]_vars
  BY <1>2
<1> QED  BY <1>3, CatalogInvariant, PTL DEF Spec, ActsOnlyForWanted

\* Every variable keeps its type and every queue its bound; no slot is passed over more
\* often than there are other slots, nor other work by more than a burst of local work.
THEOREM TurnsComeRound == Spec => []TurnsAreFair
<1>1. CatalogInv => TurnsAreFair
  <2> SUFFICES ASSUME CatalogInv PROVE TurnsAreFair
    OBVIOUS
  <2>1. /\ next \in Slot /\ bypassed \in [Slot -> Nat] /\ yielded \in Nat
        /\ burst \in Nat /\ burst <= LocalBurst /\ yielded <= burst /\ LocalBurst \in Nat
    BY SlotFacts DEF CatalogInv, Shapes, MailShapes, TurnShapes, Turns
  <2>2. burst \in 0..LocalBurst /\ yielded <= LocalBurst
    BY <2>1
  <2>3. /\ pc \in {"next", "parked", "local", "read", "prepare", "check", "persist", "answer",
                   "finish", "exited", "panicked"}
        /\ {closed, opened, dropped} \subseteq BOOLEAN /\ purging \in 0..Slots
    BY DEF CatalogInv, Shapes, OwnerShapes, ScreenShapes, Steps
  <2>4. panics \in 0..MaxPanics
    BY BoundsAssumption DEF CatalogInv, Shapes, Owner
  <2>5. TypeOK
    BY <2>1, <2>2, <2>3, <2>4, SlotTypes, LocalTypes, FetchTypes DEF TypeOK
  <2>6. ASSUME NEW s \in Slot PROVE bypassed[s] < Slots
    <3>1. bypassed[s] \in Nat /\ Slots \in Nat \ {0} /\ Distance(s) \in Nat
      BY <2>1, SlotFacts, DistanceShape DEF CatalogInv
    <3>2. IF Pending(s) THEN bypassed[s] + Distance(s) < Slots ELSE bypassed[s] = 0
      BY DEF CatalogInv, Turns
    <3> QED  BY <3>1, <3>2
  <2> QED  BY <2>2, <2>5, <2>6 DEF TurnsAreFair
<1> QED  BY <1>1, CatalogInvariant, PTL
=============================================================================
