# Kinema in TLA+

TLA+ models of Kinema, the runs that model-check them with TLC, and theorems
about them checked by TLAPS. Source paths below are relative to
`crates/kinema-desktop/src/` unless they start with `kinema-core` or
`kinema-mpv`.

## The system

Kinema is a single-process desktop application. Its main thread owns the views
and coordinators and never waits; everything that blocks runs on threads that
answer through bounded mailboxes, shared state under a lock, or files.

| Component | State it keeps | Operations and partners | What makes it hard, and what is correct |
| --- | --- | --- | --- |
| Acquisition coordinator (`media/adaptive.rs`) | locals of one thread per asset: wave, pinned validator, budgets | plans a wave of up to 4 range fetches, receives results in completion order, writes, syncs, checkpoints, publishes; is steered by readers through `priority`/`generation` and stopped through `cancel` | seeks and releases at any moment, results out of order, power loss between any two file operations; nothing served may be lost, nothing stale published, every acquisition ends |
| Media service (`media/mod.rs`) and storage (`media/storage.rs`) | assets by key, leases by token, the cache limit; directories and manifests on disk | register, release, set the limit, clean up, recover at start | reservations across partial failures, cleanup by reference count beside threads that clone and drop references |
| Loopback server (`media/server.rs`) | one thread per HTTP body | looks up a lease, waits for ranges, reads the payload file without the lock | a lease that goes away, a file that is being written |
| Byte ranges (`kinema-core/src/media.rs`) | sorted intervals | insert, queries, HTTP Range headers | boundaries, the ends of `u64` |
| Durable progress (`catalog_playback_progress.rs`, identity merges in `catalog_normalized_merge.rs`) | per item: epoch, active run, suppression, checkpoint | begin a run, save, clear, mark, merge; one transaction each | writers that were superseded, observations older than a reset |
| Playback coordinator (`controllers/coordinator/playback.rs`) | a `Run` per session: what is in flight, what is kept, retry budget, deferred Ready | submits to the catalog worker's FIFO, applies its answers, authorizes and revokes windows | failures, refusals, stale answers, windows that close meanwhile |
| Player windows (`controllers/playback_progress.rs`, `ui/views/player/`) | phase, epoch and run, last observation | prepare, sample, flush, replay, play without saving | callbacks that arrive after the user decided otherwise |
| Catalog worker (`catalog_worker.rs`) | request slots, durable local FIFO, event boxes | sole owner of SQLite, four fetch threads | supersession, cancellation, fairness between queues, panics |
| Personal and application coordinators (`controllers/coordinator*.rs`) | generations, revisions, pages | submit to the worker, drop late answers | answers to questions nobody asks any more |
| Play session and app worker (`controllers/play_session*`, `app*.rs`) | command mailbox, prepared provider link | resolve, renew, cancel | a cancellation in each phase of a request |
| Lifecycle and quit (`controllers/lifecycle*`, `ui/views/quit.rs`) | hide gate, flush, shutdown | ordered quit with deadlines, tray health | final samples, a tray that disappears |
| Artwork (`artwork.rs`) | pool of 8 slots, queue of 128, decoded cache, misses on disk | views draw and prefetch; threads fetch, decode and remember what is missing; a refresh clears that | generations that end under running jobs, a fetch that a refresh overtakes |
| `kinema-mpv` | control and render workers | libmpv commands, events, frames | native callbacks; GPU interop |

PROJECT.json lists every component with what is modelled of it, and every
hazard with its line and the properties that watch it.

## Modules

| Module | What it is |
| --- | --- |
| `MediaAcquire` | one asset: its coordinator thread, fetch threads, readers, lease, disk, other assets' permits, power loss |
| `DurableAsset` | the promise to readers that `MediaAcquire` implements: availability never shrinks, not even across a power loss |
| `MediaAcquire_proofs` | theorems: types, durability, the refinement, what readers get, nothing stale is published, no version is mixed, retries end |
| `MediaService` | all assets: leases, quota, creation, cleanup, recovery; an acquisition is reduced to its owner's end |
| `MediaService_proofs` | theorems: space is accounted, cleanup spares holders, leases are served; intervals act as the set of their bytes, headers resolve |
| `PlaybackProgress` | one item: durable record, coordinator, player windows, the flush of a quit |
| `PlaybackProgress_proofs` | theorems: types, superseded writers and observations older than a reset are refused, a user's mark holds, no accepted checkpoint is lost or overtaken, window and coordinator agree |
| `CatalogWorker` | the UI thread's mailboxes, the one owner of the database, its fetch threads |
| `CatalogWorker_proofs` | theorems: durable work in order and once, the ended are silent, nothing is lost, only what is wanted is acted on, turns are fair |
| `AppWorker` | the application worker and its mailbox, the coordinator that applies its answers, the inline play session |
| `AppWorkerBooks` | what the invariants of `AppWorker` say: `AppInv`, the books of the commands and of the account, and `AccountInv`, the books of leases and windows |
| `AppWorker_proofs` | theorems: nothing outlives its account, every command is answered once, leases and windows are accounted for, a window opens only for the play session that waits for it |
| `Lifecycle` | Main's visibility, the tray and its worker, the inhibition worker, the ways the application ends |
| `Lifecycle_proofs` | theorems: the application ends in good order, and a quit only ends things |
| `MpvPlayer` | one embedded player: the caller, the control worker, the render worker, libmpv |
| `MpvPlayer_proofs` | theorems: the published state is true of what libmpv does, a frame is qualified by current evidence |
| `Artwork` | the image store of the UI thread, its fetch threads, the misses on disk |
| `Artwork_proofs` | theorems: a cleared miss stays cleared; the slots are accounted for |
| `RangeSet` | interval sets and Range headers against sets of bytes |
| `MC*` | model values and symmetry for TLC |

Every definition that stands for code is tied to its lines in PROJECT.json
("map"). Operators whose comment begins with "Mutant" are deliberate defects
used to show that a property can fail; the specifications do not use them.

### MediaAcquire and the code

A block stands for one fetch range; a `RangeSet` is a set of blocks (what the
intervals compute is checked in `RangeSet`). `payload` is what a read of the
file returns, `synced` what a power loss leaves of it, `saved` the manifests a
power loss may leave: two between the rename and the directory sync, else one.
`live`, `priority`, `generation`, `error` are `AssetState`; `cancel` and
`running` the atomics of `Asset`; `leased` says that a session holds the asset.

The coordinator's thread is `pc`: `open` (the payload file), `top` (loop head),
`renew` (an expired link), `plan` (one permit and range at a time), `wave`
(receiving), `write`, `sync`, `persist`, `dirsync`, `publish` (one commit),
`settle`, `reauth`, `cooldown`, `backoff` (after the wave), `join` (the thread
scope joins what is in flight) and `exit` (the error is recorded, `running` not
yet cleared). A step ends where the code takes or drops the asset lock, reads an
atomic others write, or makes something durable. `Stopped` and `Superseded` are
`stopped()` and `canceled()`, tested at the places the code tests them; a
release that falls between two of those tests is an interleaving of the model.

The flag of the account is set by the interface when a command that changes the
account is submitted, before the worker releases any session (`app.rs`). Only the
renewal callback reads it (`app.rs:966`), so it needs no variable: each renewal
finds it set or not, and fails with `canceled` if it does. `revoked` is history
and says that a renewal of this lease has found it set.

Delays, rates, range sizes and telemetry are left out. What they decide is
nondeterministic: whether a link is renewed, which width of 1..4 the adaptive
controller chooses after a healthy wave, what a fetch brings back.

### MediaService and the code

An `Arc<Asset>` is an element of `Arcs`, so two allocations of one key can
exist if the code lets them; cleanup's `Arc::strong_count(asset) == 1` is
`Unpinned`: no session, no HTTP reader and no acquisition thread refers to it.
The acquisition thread is three steps, because a new owner may start between
`running.store(false)` and the drop of the thread's `Arc`. `disk[k]` is the set
of directories of a key: `staged`, `final`, `tombstone`. `Created`, `Removed`
and `Discarded` list what each operation of storage may leave behind when one of
its steps fails. Cleanup holds the state lock from choosing its keys to the last
removal (`LockFree`), but readers and owners, which drop references without the
lock, run in between. A crash may fall inside the creation or the removal. The
code adds sizes up; `Reserved` counts the bytes of all assets as a set of pairs of
key and position, which is the same number and can be reasoned about without a
sum. `ArcsAssumption` says that there are enough names to give every key an
allocation, as recovery does.

### PlaybackProgress and the code

`db` is the item's row and its transaction rules; `queue` the catalog worker's
FIFO and `acks` its unread answers; `run[s]` the coordinator's `Run`; `player[s]`
the window's `Progress`. Deferred closures of the main thread (`cx.defer`) run
before its next event, so each belongs to the action that schedules it. A
refused submission (queue full or closed) and a failed transaction are faults of
one budget. The phases of the window that wait for the same decision are one
phase: `start` stands for loading and seeking, `prompt` for every panel shown
after preparation failed. `accepted`, `owner` and `unmarked` are history.

A quit is `BeginFlush` (the windows whose last sample `checkpoint_all` takes, in
one update of the main thread), a `FinalSample` of each, the coordinator's
ordinary draining and retrying, and `EndFlush`: `saved` when no request is
pending and no run keeps a sample, `late` when the 1.8 seconds pass first, which
they may do at any moment. Samples taken after the flush ended are not modelled,
as nobody waits for them. A flush may also end as `saved` although a closed
window whose retries were exhausted was forgotten with its sample; the property
speaks of the runs the coordinator still knows.

A merge (`merge_personal`) may replace what is remembered of the item by the newer
row of the identity merged into it. That row was written by no window of the
model, so the checkpoint it brings is `None`; `watched` and the suppression are
free. The windows here play the identity that stays.

### CatalogWorker and the code

A slot is an entry of `MailState.slots` or `.metadata`, searches first. The UI
gives every submission of a slot a fresh generation (`Resource::begin` and the
enrichment counters), so a generation stands for the request, its work and the
`Arc` of its cancellation flag; `asked[s]` is what the coordinator holds of a
slot. Whether a submission asks what the pending one asks is free, which covers
every choice of queries. Values are left out: an answer is "more" (`CacheHit`
with `remote_follows`, `CacheMiss`) or "final". `pc` is the owner's thread:
`next` and `parked` in `Mailbox::next`, `local`, `read` and `prepare` for a
request, `check` and `persist` for a completion, `answer` for `send_terminal` and
`finish` for `finish_work`; a step ends where the mailbox lock is taken or
dropped, or where the backend works without it. The lookup of the work's own flag
after `next` is part of `TakeWork`: only this thread replaces the entry. A
cancellation is two steps of the UI thread, the flag and the purge, with nothing
of the UI in between. A panic of a fetch closes the mailbox; one of the backend
ends the owner as well. The wrapper `Drop` purges events nobody can read any
more, so it is one step with `close`.

### AppWorker and the code

A request, a preparation, a launch and a session are named by the generation of
the command that made them, as in the code. A cancellation flag, an `Arc` shared
by both threads, is the membership of its generation in `mail.cancelled`; the
account flag is the number of its rotation (`mail.epoch`), set when it is no
longer the newest or `mail.dead`. `job.pc` is where `run_application` is; a step
ends where the mailbox lock is taken or dropped, or where a flag that the UI
thread sets is tested. The settings file is written only by this process, so
`app.disk` changes only in `ExecuteSave`. A command the mailbox refuses still
supersedes older ones of its family in the interface (`Latest`), as the code
does, but the model gives it no number. `ui` is what `AppCoordinator` and
`Tracker` know: `inbox` is the batch `drain` took, `emitted` what views have yet
to hear of it, `closed` and `acknowledged` the tombstones of closed windows.
`ps` is the one inline play session of the open detail page. Usage,
SessionUpdates, Reveal, Cleanup and the TMDB credential commands are left out:
they hold neither a session nor an account. A play session that was superseded
because the user opened a local file goes on showing that it starts: the view is
told only of current answers; `AtRestTheyAgree` allows it.

### Lifecycle and the code

What the UI thread does in one callback is one step, except the 100 ms tick of
the desktop task (`TickCommand` until `TickEnd` or `TickStops`), which takes
commands that workers go on sending. The five-second health lease, the status's
own deadline and the probe's are steps (`HealthExpires`, `LeaseExpires`). The
fallback to close, text of the confirmation and wording of the menu are left
out; the menu is whether it offers Show. A host that was replaced knows nothing
of the icon (`orphan`) until a probe finds that out. The grace period is taken
to be longer than anything that returns, so `QuitGrace` needs something that
hangs. An exit drops the commands nobody will take any more.

### MpvPlayer and the code

The path modelled is the one the desktop configures: GPU surfaces,
`ResolutionPolicy::Source`. A step is what runs under one holding of the locks
of `Shared`, or between two of them; three pairs of neighbouring steps are
merged where nothing that comes between could tell them apart, and say so. A
pipeline generation is only ever compared with the current one, so
`pipeline.current` is the set of those who hold the current number. The two
property resets before a `loadfile` go with it (a failure of one of them is
told in a reply). libmpv is external: it takes commands in order, opens one file
at a time and tells what it did in one stream of events; what it does after the
player stopped reaches nobody and is left out. The ring of three retained frames
is never full, as the mailbox and the interface hold at most two, so it has no
state. `heard` and `overtaken` are history and name the two situations in which
the published state may differ from libmpv's.

### Artwork and the code

Two owners draw: `browse`, whose grid asks for its visible rows and prefetches
the window around them, and `detail`, whose title page asks for a hero. Only the
route is rendered (`Shows`), but work of the other goes on. A generation is only
compared with its owner's current one, so a queued job needs none
(`advance_generation` drops those of the owner) and a running job carries whether
its generation is over. What `pump` submits in one turn of the main thread is one
step with the call that caused it (`Pumped`). A thread's step ends where it takes
the disk lock or replies; `revoked` is the lease of a fetch, which `clear_miss`
sets for every fetch of that address. Slots and the cache tell apart what is
asked for, an address with its kind; misses, leases, retries and what a title page
has asked for are per address, so a poster and a backdrop of one address may be
fetched at once under one lease. A blurred key derives from its source when
that is cached, also from its failure. `clears` and the `seen` of a miss are
history: the clears of an address there had been when its fetch looked. Which of
disk, download and decode settles a fetch is left out. The day after which a miss
expires, the sizes in bytes and the image files are left out as well.

### RangeSet and the code

`ranges` is the list, `bytes` the set of what was ever inserted, `request` the
header resolved last. `ActsAsSet` says that the list stays canonical, whatever is
inserted in whatever order, and that every query agrees with the set. In
`service_safety`, whose assets each keep such a list, the intervals are explored
while the service is at its beginning.

## Runs

`tlc -config X.cfg M` inside this directory; each ends within a few minutes.

| Run | Question | Bounds |
| --- | --- | --- |
| `acquire_safety` | Does any interleaving of a wave with seeks, releases, re-registration, storage failures, a changing origin and a power loss lose what was served, publish what is stale, mix versions, retry for ever, fetch a range twice or let a reader read a hole? Does the coordinator implement `DurableAsset`? | 2 blocks, waves of 2, 2 versions with and without validators, 1 reader, 2 seeks (any move of the hint is a seek), 1 retry and 1 renewal of budget, 1 power loss, no permits held by others |
| `acquire_live` | Do a release, an acquisition and a waiting reader come to an end, also while other assets starve this one? | 2 blocks, 1 permit that another asset may hold instead, 1 reader, 1 seek, budgets of 1, fair threads |
| `service_safety` | Do quota, reservation, leases and cleanup agree with disk and threads, and does a released asset become free? Are the intervals exactly the set of inserted bytes; does a header name exactly its bytes? | 2 keys of sizes 1 and 2, limits 2 and 3, 2 leases, 1 reader, 1 running acquisition, 1 crash; endpoints 0..8, where 8 plays the largest `u64` |
| `progress_windows` | Can a superseded writer, or an observation older than a reset, reach the record? Do a window and its coordinator agree on the run and epoch? | 2 windows, 1 retry, 1 fault, user actions up to epoch 2, 2 samples, none past the completion threshold, no quit |
| `progress_delivery` | Is the newest accepted sample kept, once, in order, through failures, and saved by a quit that meets its deadline? Does "mark unwatched" hold for the run? Is a waiting window answered? | 1 window, 1 retry, 2 faults, epoch 2, 2 samples, a quit at any moment |
| `catalog_worker` | Is anything stale persisted or shown, anything asked forgotten, anybody starved, durable work lost or reordered? | 1 search and 1 metadata slot asked 2 and 1 times, 2 fetch threads, local capacity 2 and burst 1 with 3 requests, 1 panic |
| `app_sessions` | Is each command answered once, does nothing outlive its account, do worker and interface agree on what is served, and does a window open only for the session that asked? | 2 accounts, capacity 3, 2 user commands of any kind, 1 failed release or death of the worker |
| `app_shown_account` | (violated) Does a play session prepare with the account it shows? | as above, without faults |
| `lifecycle` | Can Main end up hidden with no way back? Does every quit end, and in order? | queue and batch of 1, 1 failed restore, 1 hang; the user, the host, hides and deaths are unbounded |
| `mpv_player` | Do readiness and frames tell the truth about libmpv, does anything hang, is every current picture drawn? | 2 loads, 1 queued operation, 1 fault, 2 changes (stops, resizes, decoder changes, the drop), 3 of all these together |
| `mpv_evidence` | (violated) Does every change of what libmpv decodes reach the pipeline? | as above |
| `artwork` | Are slots and the interactive reservation exact whatever generations end meanwhile, does a refresh stay in effect, is every image a view goes on showing answered? | 2 addresses, one of them as poster, backdrop and blurred poster, 2 slots of which 1 is reserved, a queue of 1, 2 entries, 4 moves of the user with 2 refreshes, 1 miss left by an earlier process |

Why the bounds suffice to be interesting: two blocks make a wave of two, so
results arrive in both orders, one is committed while the other is in flight,
and one can be served while the other is written; two seeks supersede a wave and
the wave that replaced it. One power loss is enough because recovery reduces the
state to one of the initial shapes with a nonempty manifest. Two versions, each
with or without a validator, give a pinned chunk that precedes a conflicting
one. Two keys that do not fit the smaller limit together exercise
refusal and lowering; two leases share or follow each other on one asset. In `catalog_worker` one slot is overtaken while its old work is at a
fetch thread, the other competes for turns and threads, a third local request
meets a full queue, and a burst of one already has to yield. In `artwork` one slot
is all that prefetch may take and one queued job fills the queue, so each request
beside it displaces another or is refused; four moves open a page over work of the
grid and refresh it twice; the poster that the grid draws and the backdrop that a
page draws have one address. Two
windows are one writer and its successor, and revocation treats every other run
alike; a second sample is the observation of before a reset that is sent once more
under the authority given after it; the completion threshold decides only
`watched`, which no property of `progress_windows` reads; a third epoch adds no new relation between a sample and the record, as
comparisons are for equality. In `app_sessions` two commands beside the first
load are enough for one to supersede, cancel or outlive the other, and a third
fills the mailbox. In `mpv_player` three disturbances cover a load that replaces
a load with a fault, a resize or a drop in between. Each property is also run against a defect of the code it watches
(PROJECT.json "mutants") within the same bounds, and fails.

`CHECK_DEADLOCK FALSE` is set for the progress runs, where a user may close every
window and a closed window is never opened again; for `catalog_worker`, which
rests when nobody asks and ends when dropped; for `app_sessions`, whose user
issues a bounded number of commands; for `lifecycle`, which ends with the
process; for `artwork`, whose user makes a bounded number of moves; and for the
player's runs, which end when it is dropped.

### Fairness

`MediaAcquire`: the coordinator's and the fetch threads' steps are weakly fair,
as the operating system runs threads; a fetch ends by its 20 s deadline and a
renewal callback by its own. A reader's loop is fair; opening, leaving,
releasing and registering are not. Other assets free their permits, but nothing
makes *this* asset get one: the code polls without a queue. Another asset that
takes every permit again and again (`Starved`) is therefore an excuse for not
ending and for not answering a reader, but not for surviving a release:
`ReleaseStopsOwner` holds under starvation too.

`MediaService`: an owner that was told to stop ends (shown in `MediaAcquire` as
`OwnerEnds`), a reader whose lease is gone notices at its next segment,
file operations return. An acquisition nobody stops need not end.

`PlaybackProgress`: the worker executes, the coordinator drains and retries on
its timer, the flush takes its final samples; users need not act, and neither
does a window. The deadline of the flush may pass at any moment.

`Lifecycle`: due timers and tasks of the UI thread run, the workers' loops run,
and a native restore that is tried again and again meets one that does not fail
(`SF` on `Watch`: its failures are bounded). A call that hangs need not return;
then only the passing of its deadline is certain.

`MpvPlayer`: both workers run, are joined, and libmpv works off its commands and
opens or refuses its file. The control worker's loop takes bounded batches of
operations and of events in turn, which is why each of the two is strongly
fair. The caller, a playing decoder and every fault owe nothing.

`Artwork`: some thread or other runs, downloads end by their timeouts, replies are
taken, and an image on view that is not there yet is asked for again, because
every reply and the skeleton's timer refresh the windows. Nothing makes the grid
prefetch, and users need not act.

`AppWorker` states no fairness: `AnsweredOnce` says that every command is at a
place from which an answer comes, `AtRestTheyAgree` what holds when none is
left.

`CatalogWorker` states no fairness. What liveness would say is cut into
invariants, of which `NothingLost` is two: `NothingForgotten` (a request somebody waits for is always at a place
from which an answer comes), `NeverRestsWithWork` (the owner sleeps or ends only
without work) and `TurnsAreFair` (a bound on how often a turn is passed over).
Together with threads that run and fetches that end by their HTTP timeout they
mean that every request is answered.

## What is proved

`MediaAcquire_proofs`, for any number of blocks, readers, versions, permits,
failures, seeks and crashes that satisfies the named assumptions on the
constants of `MediaAcquire`:

- `TypeCorrect`, `AlwaysDurable`: the type invariant, and that no power loss
  takes away what readers were offered or leaves a manifest that names lost
  bytes.
- `Refinement`, `AvailabilityNeverShrinks`: `MediaAcquire` implements
  `DurableAsset`, whose availability never shrinks.
- `AlwaysClaimedOnce`, `AlwaysSafeReads`: a block is fetched, queued, committed
  or available and never two of these; hence a reader that saw its block
  available, dropped the lock and reads the file never reads a hole or a block
  that is being written; an acquisition is recorded as canceled only after its
  release or a renewal that found its account revoked, so never for a seek; and a
  lease that will get no more bytes has an error to show.
- `AlwaysCurrent`, `AlwaysOriginTrusted`: nothing of a superseded wave or a
  released lease is made available; one acquisition never mixes versions, and
  retries and renewals end it after a bounded number of waves.

The argument has four layers. `DurableInv` is the types, `LiveIsDurable`,
`ManifestNeverLies` and `CommitOrder`. The first two are not inductive alone:
`PersistManifest` and `Publish` are safe only because of what the earlier steps
of the same commit made durable, which is `CommitOrder`. Only six actions touch
disk or availability; `QuietStep` disposes of all the others at once.
`ServeInv` adds `OneOwner`, `ClaimedOnce` and `ReadersHold` (a reader past its
check holds an available block, or its bytes). `ClaimedOnce` needs `OneOwner`:
a registration must not reset a coordinator whose fetches are in flight. The
step for `NeverServeHoles` needs both: the block is available, so some manifest
names it and it has bytes, and because it is claimed once the commit in progress
is of another block.

`EndReasons` adds why an owner may end: the error is recorded before ownership is
given up, and `canceled` only under a cancellation or after a renewal that found
the account revoked. `IdentityInv` and
`BudgetInv` are about one acquisition: what it published is its own and whole,
the chunk in hand agrees with the pinned validator, and nothing is published
before the first accepted response settled that validator; and every wave
without progress was paid for by a failure or a renewal, each of which is
bounded.

`PlaybackProgress_proofs`, for any number of windows, faults, epochs, samples and
retries, from `AbsenceAssumption` (the value for "nothing" is no run) and the
assumptions on the bounds:

- `TypeCorrect`: the type invariant, including the queue and the unread answers.
- `AlwaysFenced`, `AlwaysFreshWriter`: a superseded writer and an observation that
  is older than a reset never reach the record (`NoStaleWriter`).
- `AlwaysSuppressed`: after "mark unwatched" the same run does not complete the
  item (`SuppressionHolds`).
- `AlwaysAccounted`: a busy run has exactly one request under way, and while the
  record's epoch and run stand, the newest accepted checkpoint is in the record,
  waits in its run or is under way (`DeliveryAccounted`).
- `AlwaysFlushed`: a quit whose flush ended before the deadline has every accepted
  position that is still current in the record (`FlushSaves`).
- `AlwaysInOrder`: within a run no checkpoint replaces a later one
  (`CheckpointsInOrder`, an action property).
- `AlwaysAgrees`: while no request has failed, a window that saves holds the epoch
  and the run its coordinator accepts (`AuthorityAgrees`).

The argument: an epoch that a sample carries is no later than the durable epoch
when it was taken, and while its run is the record's active one it is that of its
window. `FenceInv` says this of every place a sample or an authority can be: the
window, the coordinator's run, the worker's queue, the unread answers. One
request per session is under way, so an answer is about the request it is matched
with; and an answer that may authorize a window moves the window's epoch forward
only. `NoStaleWriter` then follows from the transaction's own comparison. For
suppression, a mark made during a run is in the record until another run begins
or the user decides again, and every save of that run is judged against it.

Delivery needs a second invariant, `DeliverInv` (`AlwaysDelivered`), which follows
an accepted checkpoint over queue and unread answers (`Ways`). What is under way is
of the run and epoch its session holds, is earlier than what waits behind it, and
its answer tells what became of it (`Travels`); while it is queued or failed, the
record holds nothing later of that session (`Unsaved`), so a retry cannot
overtake. Retry and revocation are where a checkpoint could vanish. A failed one
goes back to its run unless a newer one waits there. A revocation discards what
the other runs hold, and discards nothing current because the answer to a Begin
names a later run than any that a coordinator knows (`BeginsAreLater`); an
applied save leaves its authority as it was (`SavesAgree`). A flush that ended has
emptied queue, answers and runs (`FlushIsDone`), so what was accepted can only be
in the record.

`AuthorityAgrees` is not inductive: it says nothing of a window between its Begin
and the answer, when the two do differ. `AgreeInv` adds that a coordinator that
asks, or holds a Ready it has not sent, has a paused window (`Asking`, `Paused`);
that it asks once; and that no failure is on its way to either. A step that
changes the authority of the coordinator then either tells the window in the same
step (`AuthorizedTells`, `InvalidatedTells`) or finds it paused.

`MediaService_proofs`, for any number of keys, sizes, limits, leases, readers,
acquisitions and crashes:

- `SpaceIsAccounted`: assets reserve no more than the limit allows them, and
  everything on disk is reserved or on its way out (`SpaceAccounted`).
- `CleanupSparesHolders`: a lease, a reader and an acquisition hold the current
  allocation of its key, and its directory is published (`HoldersAreCurrent`).
- `LeasesAreServed`: a leased asset is not cancelled, and is complete, has a
  running owner or shows an error (`LeasesServed`).

The argument: two keys never share an allocation and an allocation names its
key's directory (`Homes`), so what an operation does to one asset leaves the
others alone. What cleanup chose under the lock stays unpinned until it is
removed (`SweptUnpinned`), although readers and owners run in between: they only
drop references, and whoever gains one needs the lock. An acquisition keeps its
running flag for all of its life and leaves a result before it lowers it
(`OwnersRun`), so a lease that finds no owner finds the result.

In the same module, about `RangeSet`, for every `Top` and any list of insertions:

- `IntervalsActAsSet`: the intervals stay canonical and cover exactly the bytes
  inserted, and containment, gaps, intersection and total are those of the set
  (`ActsAsSet`).
- `HeadersResolve`: a Range header resolves to the bytes it names, or is refused for
  the right reason (`HeaderResolves`).

A loop over the list is a recursive function in the model, so that it can be
reasoned about. The library's induction theorems cannot be instantiated here, but
the well-foundedness of the naturals gives a least member of any set of them
(`LeastOf`), that gives induction of a set of places (`Stepwise`), and that the
existence of every recursion the loops use (`Recursion`). With it each loop has an
invariant in the textbook sense: an insertion has absorbed the first intervals it
met and nothing beyond (`Grown`), a pass for gaps has found all that is missing
below its cursor, and the intervals it met have nothing left above it (`Passed`).
`partition_point` counts a prefix because the intervals are sorted (`EndsBefore`).

`CatalogWorker_proofs`, for any number of slots, submissions, fetch threads and
panics and any capacity and burst:

- `LocalsInOrder`: accepted durable requests are executed and answered once, in
  order, and counted exactly (`LocalInOrder`).
- `EndedIsSilent`: after the cancellation or the final answer of a request the
  coordinator hears nothing of it (`SilentAfterEnd`).
- `NothingIsLost`: what is waited for is queued, worked on or answered, and the
  owner never sleeps with work (`NothingLost`).
- `OnlyWantedIsActedOn`: what is persisted or sent belongs to what is still asked
  (`ActsOnlyForWanted`, an action property).
- `TurnsComeRound`: the bounds on being passed over, with the types
  (`TurnsAreFair`).

`CatalogInv` is a conjunction per concern. Per slot: generations never exceed
the coordinator's newest (`Generations`); what is queued is newer than all work
and all answers, and what is worked on without a flag is what the coordinator
waits for (`Current`). These need that a request is worked on in one place only
(`Single`), or finishing it here would leave it live there. The local FIFO is
arithmetic on the number of the oldest unread answer (`Locals`). For turns, the
count of times a slot was passed over plus its distance from the next turn stays
below the number of slots (`Turns`). Of `Current` nothing is claimed once the
mailbox closed.

`AppWorker_proofs`, for any set of providers, any capacity and any number of
commands and faults:

- `AccountIsFenced`: between requests everything remote that the worker holds
  belongs to the account in effect, and while the account flag is set a queued
  command is about to replace it (`AccountFenced`).
- `CommandsAnsweredOnce`: an admitted command is in exactly one of queue, worker,
  unread answers and the batch being applied until its answer is applied, and the
  admission budget counts just those (`AnsweredOnce`, with the types).
- `SessionsAreAccounted`: every lease is a session the interface tracks or a launch
  still to be answered, which is what a quit asks about; and when nothing is on its
  way, the interface tracks exactly what the worker serves, shows no window of
  anything else, and has no tombstone, replay or playback left to wait for
  (`SessionsAccounted`).
- `WindowsOpenOwned`: a step opens a window for a remote launch only while the play
  session that asked for it waits for it (`OpensOnlyOwned`, an action property).

`Books` is a predicate on any mailbox and interface, because one step of the
interface may issue several commands: a stream that is chosen saves its account,
prepares, and abandons the session before it. `IssueBooks` and `AbandonedBooks`
say that each part keeps it, and `Follows` what a part leaves to the worker;
`InterfaceKeeps` then needs nothing else of those steps. `Fence` follows the
worker through a request: the epoch it works under is the mailbox's until it
settles, what it holds is of that epoch except in the step that lets go of it,
and the settings it works with are of the account in effect (`SettingsFollow`), or
a preparation begun after a failed load would be named after another account.
`Records` gives every session its lease and a name no command has any more, so
that a launch cannot replace the session of another. `Fence` is claimed only
while the worker lives, as a dead one holds nothing.

The last two theorems speak of what both threads believe, and `AppInv` does not say
what the answers between them mean. `AccountInv`, on top of it, does:

- `Told` and `JobTold`: every request, operation and answer belongs to a command the
  tracker knows, of a kind that suits it, and names a session or a preparation that
  an earlier command made. So the coordinator never applies an answer to the wrong
  command.
- `Leased`: a lease is tracked or its launch is under way (`LeaseKnown`); what is
  tracked has its lease or an answer on its way that ends it (`Tracked`); a launch
  told as successful has its lease or such an answer *behind* it (`Serving`), so the
  order of answers counts; an end on its way is the end of something without lease
  or command (`GoneForGood`); and a closed window is remembered while its release
  or a replay is out (`Tombs`).
- `Voided`: once the account was given up, and the worker's word of it is unread or
  not told to the views, a playback asked for before it can only fail (`Void`), and
  a preparation told before it is not the one retained. `Disk` is what makes that
  so: the provider in memory is the one saved, and the account in effect is its,
  or nothing remote is held.
- `Sought` and `Waiting`: the newest playback that can still succeed is the one the
  play session waits for, and what it waits for is asked for or still to be told.
  `WindowsOpenOwned` is `Sought` at the step that applies the answer.

At rest there is no answer on its way, so `LeaseKnown`, `Tracked`, `Windowing` and
`Tombs` become the equalities of `AtRestTheyAgree`. `AccountInv` was checked by TLC
on the instance of `app_sessions` before it was proved.

`Artwork_proofs`, for any set of addresses, slots, reserved slots, pages and refreshes,
any queue and any cache:

- `ClearedForGood`: a fetch that looked before an address was cleared never writes
  its miss back (`ClearedStaysCleared`).
- `SlotsAlwaysAccounted`: a slot is taken exactly while one answer is on its way, no
  image is fetched or kept twice, prefetch leaves the reserved slots free, and
  nothing that could run waits (`SlotsAccounted`, with the types).

The argument for the first: a miss on disk was seen after the last clearing (`Misses`), because
a fetch that found none and is about to write one has its lease revoked or still
means that clearing (`Works`); the lease is tested and the miss written under one
lock.

For the second, what the store keeps under every one of its functions is a predicate
of a record and a set of works (`Pool`), so each function has a lemma of its own and
the loops of `pump` and `replace_window` are inductions over their turns (`Loop`,
`Stepwise`). `Placed` puts a taken slot in exactly one of channel, threads and
answers. `Fresh` is what the invariant adds: what is fetched for a current generation
is not cached, without which an answer could be kept a second time; it holds because
`start_next` drops what is cached and the answer of a current job is the only
way into the cache. That nothing waits (`Settled`) is not kept by the functions but
restored: a turn of `pump` takes one slot more unless the pool is full or nothing may
start (`Turn`), so as many turns as there are slots end with one of the two
(`PumpedSettles`). The reservation enters there: with all slots taken and prefetch
at its bound, the reserved number is interactive. The only assumption beside the
sizes is that `None` is no job (`FreeAssumption`).

`Lifecycle_proofs`, for any queue, batch and number of failed restores and hung
workers:

- `EndsInOrder`: the application knows whether Main is on the screen, an orderly
  exit has flushed and joined both workers, and every end has told them to go
  (`Accounted`, with the types).
- `OnlyEndsFollow`: after the decision to quit nothing hides Main and the tray's
  worker is not started (`QuittingOnlyEnds`, an action property).

The user interface's functions call one another inside one step, so what each of
them keeps is a lemma about a record of its state (`Sane`, `Onward`): hidden is
not mapped, and who quits holds no tray lease. Beside them the invariant says
that a worker runs only under a task that was started and has ended once that
task is complete (`Joined`), and that a tick under way belongs to the running
task and is cut off by the decision to quit (`TicksEnd`). Without `TicksEnd` the
rest of a batch could hide Main again, or start a worker, after the quit.

`MpvPlayer_proofs`, for any number of loads, any queue and any number of failures
and changes:

- `AlwaysTellsTruth`: a load that waits is shown as loading, and at rest "ready" and
  "loading" are what libmpv does (`TellsTruth`, with the types).
- `AlwaysQualified`: a frame that can be taken was qualified by the evidence the
  pipeline holds, and at rest that evidence is true (`FramesQualified`).

Rest says nothing of how it is reached, so the invariant has to speak of events
that are still unread. `Order` is the grammar of libmpv's stream read backwards from
what it does now: a file that is announced without a later start or end is the
one that plays, an end is followed by a start unless libmpv is idle. `Answer`
puts the refusal of a load before the start of its file, which is why a refused
resets command cannot drop a file that opened after all. `Naming` and `Single` put
the latest load in one place: queue, control worker, libmpv's queue, or its file.
With them `SteadyInv` is inductive: once the latest load has left the queues and no
event that clears the state is unread, the state is what the rest of the stream
makes of it, and the evidence is libmpv's unless an event that asks again is
unread. `Frames` holds without any of this: whoever still holds the pipeline's
number was given it after the last change of what frames are judged by.

Every safety property the passing runs check is stated by a theorem. Only model-checked: the
liveness properties (liveness under fairness and ENABLED are out of the prover's
reach).

## What the runs found

- **Another account than the one shown** (`app_shown_account`). `activate_debrid`
  (`ui/views/detail/streams.rs:240`) takes the settings on the screen for the
  worker's. When the save that set them has failed and the failure was not taken
  yet, picking a stream again starts a session that waits for no switch: it
  prepares with the old account while it shows the new one.
- **Evidence lost to a resize** (`mpv_evidence`). `refresh_decode_evidence`
  (`mpv/player.rs:1320`) drops its answer when the pipeline's generation moved on
  since it was sampled. A resize that makes the viewport empty or visible moves it
  without any event after which the worker asks again, so a change of what libmpv
  decodes may never reach the pipeline.

Seen while modelling and judged by no run, because no document says what is
meant:

- When the parent sync at the end of `remove_owned` fails (`media/storage.rs:70`)
  the tombstone is gone but the asset stays reserved; every later `discard` fails
  on the missing tombstone and ends the sweep, until a restart.
- A Ready deferred behind a Begin is not handled when the Begin is applied
  (`controllers/coordinator/playback.rs:222`). It is sent with a later answer and
  starts a run the window does not learn of. `AuthorityAgrees` and
  `ReadyIsAnswered` therefore speak of executions in which no request failed.
- `send_pending_ready` claims to have sent a Ready that was dropped; a kept sample
  then has no retry time, and a quit waits for its deadline.
- `authorize_progress` also authorizes a window whose user chose "Play without
  saving" while a Begin was in flight.
- A strong validator binds one acquisition only, so a file that changed at the
  origin between two acquisitions of the same asset is mixed (`media/README.md`
  says that validators are not persisted).
- `CatalogWorker::poll` looks for an event and for `closed` under two locks, so it
  can report `Disconnected` with an event left unread; the coordinator then fails
  every request, so nobody waits.
- A FILE_LOADED of the outgoing file that is handled after `Player::load` sets
  `file_loaded` again although the replacement is only queued, and the evidence
  then queried is that of the outgoing file. The desktop loads once per player,
  so it cannot happen there; `TellsTruth` speaks of loads before any event was
  handled, and of rest.
- A fetch of an image that is still current when its title is refreshed may bring
  its remembered miss into the decoded cache after the refresh. The blurred hero
  then takes its failure from there, and `pump` spends the retry without a fetch
  (`artwork.rs:424`). Two refreshes before the page is drawn again empty the list
  of addresses to retry. Both cost a retry until the next refresh.
- `clear_scope` revokes no lease, so a fetch in flight for an address the page did
  not ask for since it was opened may write its miss back; `ClearedStaysCleared`
  speaks of the addresses that were cleared one by one (`clear_miss`).

## Not modelled

Listed with reasons in PROJECT.json. In short: parsing, formatting, SQL beyond
the progress record, remote services, views and native GPU interop. Within the
modelled parts: range sizing and delays, the validation of unexpected directory
contents (only whether it fails), HTTP connection limits, disk space below the
quota, `CompleteRun` (nothing calls it), external players, the revision that the
worker's local answers carry, the app worker's commands that hold no session,
media keys and what is inhibited when, the CPU and read-back renderers of
`kinema-mpv` and its decoder fallback, the artwork threads that could not be
started, a play window whose own target is the identity that is merged away. The
personal coordinator and the rules of `kinema-core/src/watch_progress.rs` are
planned. Most of the repository's lines are views, layout, SQL text, parsing and tests beside the
code: they have no state that a step of another actor can upset, and the share
of lines covered stays small for that reason.

## Plan

1. Done: `MediaAcquire`, `DurableAsset`, `MediaService`, `PlaybackProgress` with the
   quit flush, `RangeSet`, `CatalogWorker`, `AppWorker`, `Lifecycle`, `MpvPlayer`,
   `Artwork`; every safety property of `MediaAcquire`, `MediaService`,
   `RangeSet`, `CatalogWorker`, `PlaybackProgress`, `AppWorker`, `Lifecycle`, `MpvPlayer`
   and `Artwork` proved.
2. The personal coordinator's generations over `CatalogWorker`'s mailboxes, then
   the rules of `kinema-core/src/watch_progress.rs` beside `RangeSet`.
3. An abstract mailbox (each request answered for its newest generation or
   superseded) that `CatalogWorker` and `AppWorker` implement.
