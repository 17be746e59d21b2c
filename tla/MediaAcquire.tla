---------------------------- MODULE MediaAcquire ----------------------------
(* The acquisition coordinator of one managed media asset                    *)
(* (crates/kinema-desktop/src/media/adaptive.rs), with the three parties it  *)
(* shares the asset with: the HTTP readers that wait for bytes and steer it  *)
(* (media/server.rs), the service that leases and releases the asset         *)
(* (media/mod.rs), and the disk that survives a crash (media/storage.rs).    *)
(*                                                                           *)
(* Byte ranges are sets of blocks: a block stands for one fetch range, so a  *)
(* RangeSet is a subset of Blocks and a chunk covers one block.              *)
EXTENDS Integers, FiniteSets, Sequences

CONSTANTS
    NBlocks,        \* blocks of the asset
    Versions,       \* contents the origin may serve for a block
    Tags,           \* whether a response may carry a strong ETag
    Readers,        \* HTTP body readers
    FarSeek,        \* distance beyond which a new hint is a seek (CHUNK * 4)
    MaxWidth,       \* 4 in the code: fetches of a wave
    GlobalSlots,    \* 16 in the code: process-wide fetch permits
    MaxOther,       \* bound: permits other assets may hold
    MaxFailures,    \* 3 in the code: consecutive failed waves retried
    MaxRenewals,    \* 2 in the code: renewals without durable progress
    MaxGen,         \* bound: seeks that advance the generation
    MaxCrashes,     \* bound: power losses
    None, Hole, Mixed

Blocks == 0 .. NBlocks - 1
Content == Versions \cup {Hole, Mixed}

ASSUME SizesAssumption == NBlocks \in Nat \ {0} /\ MaxWidth \in Nat \ {0}
ASSUME BudgetAssumption ==
    /\ FarSeek \in Nat /\ MaxFailures \in Nat /\ MaxRenewals \in Nat
    /\ GlobalSlots \in Nat /\ MaxOther \in Nat
ASSUME TagsAssumption == Tags \subseteq BOOLEAN
ASSUME NoneAssumption == None \notin Versions \cup Blocks
ASSUME ContentAssumption == Hole \notin Versions /\ Mixed \notin Versions /\ Hole # Mixed

VARIABLES
    \* the asset directory
    payload,    \* what a read of the payload file returns
    synced,     \* what a power loss leaves of it
    saved,      \* the manifests a power loss may leave, each a set of blocks
    \* the shared Asset and AssetState
    live, priority, generation, error, cancel, running, leased,
    \* the coordinator's locals
    pc, wave, preferred, jobs, queue, chunk, validator, initialized,
    failures, renewals, width, outcome,
    \* readers, and permits of other assets
    reader, slots,
    \* history and bound counters
    mine,       \* blocks published by the current acquisition
    idle,       \* waves started since the last publication or seek
    revoked,    \* a renewal of this lease found its account's flag set
    crashes

diskVars  == <<payload, synced, saved>>
shareVars == <<live, priority, generation, error, cancel, running, leased>>
budgetVars == <<failures, renewals, width>>
pinVars   == <<validator, initialized>>
fetchVars == <<jobs, queue>>
coordVars == <<pc, wave, preferred, fetchVars, chunk, pinVars, budgetVars, outcome>>
histVars  == <<mine, idle, revoked, crashes>>
vars == <<diskVars, shareVars, coordVars, reader, slots, histVars>>

-----------------------------------------------------------------------------
(* Vocabulary                                                                *)

Failures == {"none", "transient", "terminal", "budget", "canceled"}
Errors   == Failures \cup {"storage", "exhausted"}
Outcomes == Errors \cup {"ok"}

NoWave == [gen |-> 0, pin |-> None, failure |-> "none",
           auth |-> FALSE, throttle |-> FALSE, stale |-> FALSE]
NoRead == [pc |-> "idle", want |-> None, got |-> None, active |-> FALSE]
NoChunk == [block |-> None, kind |-> "none", ver |-> None, etag |-> None]

Missing(have) == Blocks \ have
Complete(have) == Missing(have) = {}
Least(S) == CHOOSE b \in S : \A c \in S : b <= c
Distance(a, b) == IF a < b THEN b - a ELSE a - b

\* Mutant: the next range is the hinted one, even one that is already there.
NextBlockUnchecked(have, hint) ==
    IF hint \in Blocks THEN hint ELSE Least(Missing(have))

\* Begin at reader demand, continue ahead of it, then fill old holes.
NextBlock(have, hint) ==
    LET ahead == IF hint = None THEN {} ELSE {b \in Missing(have) : b >= hint}
    IN  Least(IF ahead # {} THEN ahead ELSE Missing(have))

\* Permits follow a body from the request to the end of its commit.
Bodies == {i \in DOMAIN queue : queue[i].kind = "chunk"}
Permits == Cardinality(jobs) + Cardinality(Bodies) + (IF chunk = NoChunk THEN 0 ELSE 1)

\* Mutant: a cancellation is never seen.
StoppedNever == FALSE

Stopped == cancel
\* Mutant: a seek does not supersede the wave.
SupersededByCancel == cancel

Superseded == cancel \/ generation # wave.gen

\* A terminal failure of a wave is never replaced by a later transient one.
Remember(old, new) == IF old \in {"none", "transient"} THEN new ELSE old

\* Bytes of one block being overwritten by version v.
Overwritten(old, v) == IF old = v THEN v ELSE IF old = Hole THEN Hole ELSE Mixed

\* The coordinator's thread is gone and every local with it.
LocalsDropped ==
    /\ pc' = "off" /\ wave' = NoWave /\ preferred' = None
    /\ jobs' = {} /\ queue' = <<>> /\ chunk' = NoChunk
    /\ validator' = None /\ initialized' = FALSE
    /\ failures' = 0 /\ renewals' = 0 /\ width' = 1 /\ outcome' = "ok"
    /\ mine' = {} /\ idle' = 0

Init ==
    /\ payload = [b \in Blocks |-> Hole] /\ synced = payload /\ saved = {{}}
    /\ live = {} /\ priority = None /\ generation = 0 /\ error = "none"
    /\ cancel = FALSE /\ running = FALSE /\ leased = FALSE
    /\ pc = "off" /\ wave = NoWave /\ preferred = None
    /\ jobs = {} /\ queue = <<>> /\ chunk = NoChunk
    /\ validator = None /\ initialized = FALSE
    /\ failures = 0 /\ renewals = 0 /\ width = 1 /\ outcome = "ok"
    /\ reader = [r \in Readers |-> NoRead]
    /\ slots = 0 /\ mine = {} /\ idle = 0 /\ revoked = FALSE /\ crashes = 0

-----------------------------------------------------------------------------
(* The service: register_remote and release for this asset                   *)

\* First lease on the asset: the single acquisition owner starts. While the
\* previous owner still runs the registration is refused (Busy).
Register ==
    /\ ~leased /\ ~running
    /\ leased' = TRUE /\ running' = TRUE /\ cancel' = FALSE /\ error' = "none"
    /\ pc' = "open" /\ revoked' = FALSE
    /\ UNCHANGED <<diskVars, live, priority, generation, wave, preferred, fetchVars,
                   chunk, pinVars, budgetVars, outcome, reader, slots, mine, idle, crashes>>

\* The last lease goes: its readers lose it at once, the owner is told to stop.
\* Dropping the whole service makes the same two tests true.
Release ==
    /\ leased
    /\ leased' = FALSE /\ cancel' = TRUE
    /\ reader' = [r \in Readers |-> [reader[r] EXCEPT !.active = FALSE]]
    /\ UNCHANGED <<diskVars, live, priority, generation, error, running,
                   coordVars, slots, histVars>>

-----------------------------------------------------------------------------
(* Readers                                                                   *)

onlyReader == <<diskVars, shareVars, coordVars, slots, histVars>>

\* A body request reaches the next segment, at any offset.
ReaderOpen(r, b) ==
    /\ reader[r].pc = "idle" /\ leased
    /\ reader' = [reader EXCEPT ![r] =
                     [pc |-> "wait", want |-> b, got |-> None, active |-> TRUE]]
    /\ UNCHANGED onlyReader

\* One turn of the wait loop under the asset lock: publish the hint unless an
\* unsatisfied one is outstanding; a distant hint supersedes the wave.
ReaderHint(r) ==
    LET want == reader[r].want
        outstanding == priority # None /\ priority \notin live
        seek == Distance(want, IF priority = None THEN 0 ELSE priority) > FarSeek
    IN  /\ reader[r].pc = "wait" /\ want \notin live
        /\ error = "none" /\ reader[r].active /\ ~cancel
        /\ ~outstanding
        /\ seek => generation < MaxGen
        /\ priority' = want
        /\ generation' = IF seek THEN generation + 1 ELSE generation
        /\ UNCHANGED <<diskVars, live, error, cancel, running, leased,
                       coordVars, reader, slots, histVars>>

\* Mutant: a range being fetched counts as available.
ReaderReadyEarly(r) ==
    /\ reader[r].pc = "wait" /\ reader[r].want \in live \cup jobs
    /\ reader' = [reader EXCEPT ![r].pc = "read"]
    /\ UNCHANGED onlyReader

\* The segment is durable; the lock is dropped before the file is read.
ReaderReady(r) ==
    /\ reader[r].pc = "wait" /\ reader[r].want \in live
    /\ reader' = [reader EXCEPT ![r].pc = "read"]
    /\ UNCHANGED onlyReader

ReaderRead(r) ==
    /\ reader[r].pc = "read"
    /\ reader' = [reader EXCEPT ![r].pc = "send", ![r].got = payload[reader[r].want]]
    /\ UNCHANGED onlyReader

\* Handed to the two-slot body queue; the next segment may follow.
ReaderSent(r) ==
    /\ reader[r].pc = "send" /\ reader[r].active
    /\ reader' = [reader EXCEPT ![r] = NoRead]
    /\ UNCHANGED onlyReader

\* Mutant: the wait loop does not look at the recorded error.
ReaderAbortBlind(r) ==
    /\ \/ /\ reader[r].pc = "wait" /\ reader[r].want \notin live
          /\ ~reader[r].active \/ cancel
       \/ reader[r].pc = "send" /\ ~reader[r].active
    /\ reader' = [reader EXCEPT ![r] = NoRead]
    /\ UNCHANGED onlyReader

\* What a reader meets by itself: a recorded error or a lease that is gone.
ReaderAbort(r) ==
    /\ \/ /\ reader[r].pc = "wait" /\ reader[r].want \notin live
          /\ error # "none" \/ ~reader[r].active \/ cancel
       \/ reader[r].pc = "send" /\ ~reader[r].active
    /\ reader' = [reader EXCEPT ![r] = NoRead]
    /\ UNCHANGED onlyReader

\* The body is closed, a deadline passes, or the file cannot be read.
ReaderLeave(r) ==
    /\ reader[r].pc # "idle"
    /\ reader' = [reader EXCEPT ![r] = NoRead]
    /\ UNCHANGED onlyReader

-----------------------------------------------------------------------------
(* Permits held by the coordinators of other assets                          *)

OthersTake ==
    /\ slots < MaxOther /\ slots + Permits < GlobalSlots
    /\ slots' = slots + 1
    /\ UNCHANGED <<diskVars, shareVars, coordVars, reader, histVars>>

OthersFree ==
    /\ slots > 0
    /\ slots' = slots - 1
    /\ UNCHANGED <<diskVars, shareVars, coordVars, reader, histVars>>

-----------------------------------------------------------------------------
(* The coordinator: between waves                                            *)

\* What every step of the coordinator leaves alone, besides the disk.
outside == <<priority, generation, cancel, leased, reader, slots, revoked, crashes>>

\* Leave the loop with a result; fetches still in flight are joined first.
End(result) == pc' = "join" /\ outcome' = result

\* check_payload and the open of the payload file.
OpenPayload ==
    /\ pc = "open"
    /\ \/ pc' = "top" /\ UNCHANGED outcome
       \/ End("storage")
    /\ UNCHANGED <<diskVars, live, error, running, outside, wave, preferred, fetchVars,
                   chunk, pinVars, budgetVars, mine, idle>>

\* Loop head: stop, finish, renew an expired link, or snapshot for a wave.
LoopHead ==
    /\ pc = "top"
    /\ IF Stopped THEN End("canceled") /\ UNCHANGED <<wave, preferred>>
       ELSE IF Complete(live) THEN End("ok") /\ UNCHANGED <<wave, preferred>>
       ELSE /\ wave' = [NoWave EXCEPT !.gen = generation, !.pin = validator]
            /\ preferred' = priority
            /\ pc' \in {"plan", "renew"}
            /\ UNCHANGED outcome
    /\ UNCHANGED <<diskVars, live, error, running, outside, fetchVars,
                   chunk, pinVars, budgetVars, mine, idle>>

\* The synchronous renewal callback, at the loop head ("renew") or after a
\* wave that met 401/403 ("reauth"). A changed identity ends the acquisition. So
\* does an account flag that is set: a command or a worker that ends sets it at
\* any moment, before the leases go, and only the callback looks at it.
Renew ==
    /\ pc \in {"renew", "reauth"}
    /\ IF renewals >= MaxRenewals
       THEN End("exhausted") /\ UNCHANGED <<wave, renewals, revoked>>
       ELSE /\ renewals' = renewals + 1
            /\ \/ End("canceled") /\ revoked' = TRUE /\ UNCHANGED wave
               \/ End("terminal") /\ UNCHANGED <<wave, revoked>>
               \/ /\ pc' = IF pc = "renew" THEN "plan"
                           ELSE IF wave.failure = "none" THEN "top" ELSE "settle"
                  /\ wave' = [wave EXCEPT !.auth = FALSE]
                  /\ UNCHANGED <<outcome, revoked>>
    /\ UNCHANGED <<diskVars, live, error, running, priority, generation, cancel, leased,
                   reader, slots, crashes, preferred, fetchVars, chunk, pinVars,
                   failures, width, mine, idle>>

\* Reserve one more range and its permit for the coming wave.
AddJob ==
    /\ pc = "plan"
    /\ Cardinality(jobs) < width /\ ~Complete(live \cup jobs)
    /\ slots + Permits < GlobalSlots
    /\ LET b == NextBlock(live \cup jobs, preferred)
       IN  jobs' = jobs \cup {b} /\ preferred' = b + 1
    /\ UNCHANGED <<diskVars, live, error, running, outside, pc, wave, queue,
                   chunk, pinVars, budgetVars, outcome, mine, idle>>

\* No further job: start one scoped fetch thread per job. A spawn may fail, and
\* then only the jobs already started are in flight.
Launch ==
    /\ pc = "plan" /\ jobs # {}
    /\ \/ Cardinality(jobs) = width
       \/ Complete(live \cup jobs)
       \/ slots + Permits >= GlobalSlots
    /\ idle' = idle + 1
    /\ \/ pc' = "wave" /\ UNCHANGED <<jobs, outcome>>
       \/ \E started \in SUBSET jobs :
             started # jobs /\ jobs' = started /\ End("storage")
    /\ UNCHANGED <<diskVars, live, error, running, outside, wave, preferred, queue,
                   chunk, pinVars, budgetVars, mine>>

\* Every permit is taken by other assets: wait 25 ms and start over.
NoPermit ==
    /\ pc = "plan" /\ jobs = {} /\ slots + Permits >= GlobalSlots
    /\ IF Stopped THEN End("canceled") ELSE pc' = "top" /\ UNCHANGED outcome
    /\ UNCHANGED <<diskVars, live, error, running, outside, wave, preferred, fetchVars,
                   chunk, pinVars, budgetVars, mine, idle>>

-----------------------------------------------------------------------------
(* Fetch threads                                                             *)

\* What a fetch of one block may bring back. With a pinned validator the
\* request carries If-Range and another validator is an identity failure.
Results(b) ==
    {[block |-> b, kind |-> k, ver |-> None, etag |-> None] :
        k \in {"transient", "terminal", "budget", "throttle", "renew"}
              \cup (IF Superseded THEN {"canceled"} ELSE {})}
    \cup {r \in {[block |-> b, kind |-> "chunk", ver |-> v,
                  etag |-> IF tagged THEN v ELSE None] :
                    v \in Versions, tagged \in Tags} :
             wave.pin = None \/ r.etag = wave.pin}

\* Bodies complete in any order. After the coordinator has left the wave the
\* scope joins the thread and its result is dropped.
FetchDone(b) ==
    /\ pc \notin {"plan"} /\ b \in jobs
    /\ jobs' = jobs \ {b}
    /\ IF pc = "join" THEN UNCHANGED queue
       ELSE \E r \in Results(b) : queue' = Append(queue, r)
    /\ UNCHANGED <<diskVars, live, error, running, outside, pc, wave, preferred,
                   chunk, pinVars, budgetVars, outcome, mine, idle>>

-----------------------------------------------------------------------------
(* The coordinator: one result at a time, in completion order                *)

\* Mutant: a later response may still bind the acquisition.
PinnedLate(r) == IF validator # None THEN validator ELSE r.etag

\* The first accepted response binds the acquisition, or leaves it unbound.
Pinned(r) == IF initialized THEN validator ELSE r.etag
Conflicts(r) == validator # None /\ r.etag # validator

\* Rate-limit instructions count even from a superseded wave; everything else
\* of a superseded wave is dropped. An accepted chunk may set the validator.
Receive ==
    /\ pc = "wave" /\ queue # <<>>
    /\ queue' = Tail(queue)
    /\ LET r == Head(queue)
           fail(kind) == wave' = [wave EXCEPT !.failure = Remember(@, kind)]
       IN  IF Stopped
           THEN End("canceled") /\ UNCHANGED <<wave, chunk, pinVars>>
           ELSE /\ UNCHANGED outcome
                /\ \/ /\ r.kind \in {"throttle", "budget"}
                      /\ IF r.kind = "throttle"
                         THEN wave' = [wave EXCEPT !.throttle = TRUE]
                         ELSE fail("budget")
                      /\ UNCHANGED <<pc, chunk, pinVars>>
                   \/ /\ r.kind \notin {"throttle", "budget"} /\ Superseded
                      /\ wave' = [wave EXCEPT !.stale = TRUE]
                      /\ UNCHANGED <<pc, chunk, pinVars>>
                   \/ /\ r.kind = "renew" /\ ~Superseded
                      /\ wave' = [wave EXCEPT !.auth = TRUE]
                      /\ UNCHANGED <<pc, chunk, pinVars>>
                   \/ /\ r.kind \in {"transient", "terminal", "canceled"} /\ ~Superseded
                      /\ fail(r.kind)
                      /\ UNCHANGED <<pc, chunk, pinVars>>
                   \/ /\ r.kind = "chunk" /\ ~Superseded
                      /\ IF Conflicts(r)
                         THEN fail("terminal") /\ UNCHANGED <<pc, chunk, pinVars>>
                         ELSE /\ validator' = Pinned(r)
                              /\ initialized' = TRUE
                              /\ chunk' = r /\ pc' = "write"
                              /\ UNCHANGED wave
    /\ UNCHANGED <<diskVars, live, error, running, outside, preferred, jobs,
                   budgetVars, mine, idle>>

\* Back to the wave for the next result; the chunk and its permit are dropped.
NextResult(stale) ==
    pc' = "wave" /\ chunk' = NoChunk /\ wave' = [wave EXCEPT !.stale = @ \/ stale]

commitRest == <<error, running, outside, preferred, fetchVars, pinVars,
                failures, width, outcome>>

\* write_all has begun: the block holds neither its old nor its new bytes.
WritePayload ==
    /\ pc = "write"
    /\ payload' = [payload EXCEPT ![chunk.block] = Overwritten(@, chunk.ver)]
    /\ pc' = "sync"
    /\ UNCHANGED <<synced, saved, live, wave, chunk, renewals, mine, idle, commitRest>>

\* sync_data
DataSynced == [synced EXCEPT ![chunk.block] = chunk.ver]

\* write_all and sync_data return; a superseded wave stops here.
SyncPayload ==
    /\ pc = "sync"
    /\ payload' = [payload EXCEPT ![chunk.block] = chunk.ver]
    /\ synced' = DataSynced
    /\ IF Superseded THEN NextResult(TRUE)
       ELSE pc' = "persist" /\ UNCHANGED <<wave, chunk>>
    /\ UNCHANGED <<saved, live, renewals, mine, idle, commitRest>>

\* Mutant: the checkpoint lists what this acquisition fetched.
NextManifestOfRun == mine \cup {chunk.block}

\* The checkpoint: what is available and the chunk just synced.
NextManifest == live \cup {chunk.block}

\* manifest.next is written, synced and renamed over manifest.json: until the
\* directory is synced a power loss may leave either manifest.
PersistManifest ==
    /\ pc = "persist"
    /\ saved' = saved \cup {NextManifest}
    /\ pc' = "dirsync"
    /\ UNCHANGED <<payload, synced, live, wave, chunk, renewals, mine, idle, commitRest>>

\* Mutant: the directory is not synced after the rename.
SyncDirectorySkipped ==
    /\ pc = "dirsync" /\ pc' = "publish"
    /\ UNCHANGED <<diskVars, live, wave, chunk, renewals, mine, idle, commitRest>>

SyncDirectory ==
    /\ pc = "dirsync"
    /\ saved' = {NextManifest}
    /\ pc' = "publish"
    /\ UNCHANGED <<payload, synced, live, wave, chunk, renewals, mine, idle, commitRest>>

\* Under the asset lock: a seek or cancel during the checkpoint wins.
Publish ==
    /\ pc = "publish"
    /\ IF Superseded
       THEN NextResult(TRUE) /\ UNCHANGED <<live, renewals, mine, idle>>
       ELSE /\ NextResult(FALSE)
            /\ live' = live \cup {chunk.block}
            /\ mine' = mine \cup {chunk.block}
            /\ renewals' = 0 /\ idle' = 0
    /\ UNCHANGED <<diskVars, commitRest>>

\* A file operation fails before it takes effect.
StorageFails ==
    /\ pc \in {"write", "sync", "persist", "dirsync"}
    /\ End("storage") /\ chunk' = NoChunk
    /\ UNCHANGED <<diskVars, live, error, running, outside, wave, preferred,
                   fetchVars, pinVars, budgetVars, mine, idle>>

-----------------------------------------------------------------------------
(* The coordinator: after a wave                                             *)

waveRest == <<diskVars, live, error, running, outside, preferred, fetchVars,
              chunk, pinVars, mine>>

\* One more consecutive failed wave, within the retry budget or not.
Retry(then, result) ==
    /\ failures' = failures + 1
    /\ IF failures + 1 > MaxFailures THEN End(result) ELSE pc' = then /\ UNCHANGED outcome

\* Every result is in: cancellation first, then a terminal failure, then the
\* cooldown that throttling asks for.
EndWave ==
    /\ pc = "wave" /\ jobs = {} /\ queue = <<>>
    /\ IF Stopped THEN End("canceled") /\ UNCHANGED budgetVars
       ELSE IF wave.failure \notin {"none", "transient"}
            THEN End(wave.failure) /\ UNCHANGED budgetVars
       ELSE IF wave.throttle
            THEN /\ Retry("cooldown", "transient")
                 /\ width' = IF width \div 2 > 1 THEN width \div 2 ELSE 1
                 /\ UNCHANGED renewals
       ELSE pc' = "settle" /\ UNCHANGED <<outcome, budgetVars>>
    /\ UNCHANGED <<waveRest, wave, idle>>

\* Mutant: nothing but a cancellation ends the wait.
WaitForCancel ==
    /\ pc \in {"cooldown", "backoff"} /\ Stopped /\ End("canceled")
    /\ UNCHANGED <<waveRest, wave, budgetVars, idle>>

\* wait() ignores seeks but leaves on a real cancellation.
Wait ==
    /\ pc \in {"cooldown", "backoff"}
    /\ IF Stopped THEN End("canceled")
       ELSE pc' = (IF pc = "cooldown" THEN "settle" ELSE "top") /\ UNCHANGED outcome
    /\ UNCHANGED <<waveRest, wave, budgetVars, idle>>

\* Widths the adaptive controller may choose after a healthy wave.
Adjusted(w) == {n \in 1 .. MaxWidth : (n - w) \in -1 .. 1 \/ n = 2}

Settle ==
    /\ pc = "settle"
    /\ \/ /\ wave.stale
          /\ pc' = "top" /\ idle' = 0 /\ UNCHANGED <<outcome, budgetVars>>
       \/ /\ ~wave.stale /\ wave.auth
          /\ pc' = "reauth" /\ UNCHANGED <<outcome, budgetVars, idle>>
       \/ /\ ~wave.stale /\ ~wave.auth /\ wave.throttle
          /\ pc' = "top" /\ UNCHANGED <<outcome, budgetVars, idle>>
       \/ /\ ~wave.stale /\ ~wave.auth /\ ~wave.throttle /\ wave.failure # "none"
          /\ Retry("backoff", wave.failure) /\ UNCHANGED <<renewals, width, idle>>
       \/ /\ ~wave.stale /\ ~wave.auth /\ ~wave.throttle /\ wave.failure = "none"
          /\ failures' = 0 /\ renewals' = 0 /\ width' \in Adjusted(width)
          /\ pc' = "top" /\ UNCHANGED <<outcome, idle>>
    /\ UNCHANGED <<waveRest, wave>>

\* The scope has joined every fetch: the owner records why it ended, and only
\* then gives up ownership.
RecordEnd ==
    /\ pc = "join" /\ jobs = {}
    /\ error' = IF outcome = "ok" THEN error ELSE outcome
    /\ queue' = <<>> /\ pc' = "exit"
    /\ UNCHANGED <<diskVars, live, running, outside, wave, preferred, jobs, chunk,
                   pinVars, budgetVars, outcome, mine, idle>>

StopRunning ==
    /\ pc = "exit"
    /\ running' = FALSE
    /\ LocalsDropped
    /\ UNCHANGED <<diskVars, live, error, outside>>

-----------------------------------------------------------------------------
(* Power loss, and storage::open on the next start: each block keeps what a  *)
(* sync made safe or what had reached the disk, and one manifest is trusted. *)

Crash ==
    /\ crashes < MaxCrashes
    /\ crashes' = crashes + 1
    /\ \E keep \in [Blocks -> Content] :
          /\ \A b \in Blocks : keep[b] \in {payload[b], synced[b]}
          /\ payload' = keep /\ synced' = keep
    /\ \E manifest \in saved : saved' = {manifest} /\ live' = manifest
    /\ priority' = None /\ generation' = 0 /\ error' = "none"
    /\ cancel' = TRUE /\ running' = FALSE /\ leased' = FALSE
    /\ LocalsDropped
    /\ reader' = [r \in Readers |-> NoRead] /\ slots' = 0 /\ revoked' = FALSE

-----------------------------------------------------------------------------
Coordinator ==
    \/ OpenPayload \/ LoopHead \/ Renew \/ AddJob \/ Launch \/ NoPermit
    \/ Receive \/ WritePayload \/ SyncPayload \/ PersistManifest
    \/ SyncDirectory \/ Publish \/ StorageFails
    \/ EndWave \/ Wait \/ Settle \/ RecordEnd \/ StopRunning

Fetching == \E b \in Blocks : FetchDone(b)

Reading(r) ==
    ReaderHint(r) \/ ReaderReady(r) \/ ReaderRead(r) \/ ReaderSent(r) \/ ReaderAbort(r)

Next ==
    \/ Register \/ Release \/ Crash
    \/ Coordinator \/ Fetching
    \/ \E r \in Readers :
         Reading(r) \/ ReaderLeave(r) \/ \E b \in Blocks : ReaderOpen(r, b)
    \/ OthersTake \/ OthersFree

Spec == Init /\ [][Next]_vars

\* The threads run; a fetch ends by its 20 s deadline, a renewal callback by
\* its own bound, other assets commit and free their permits.
Fairness ==
    /\ WF_vars(Coordinator) /\ WF_vars(Fetching) /\ WF_vars(OthersFree)
    /\ \A r \in Readers : WF_vars(Reading(r))

FairSpec == Spec /\ Fairness

-----------------------------------------------------------------------------
(* Properties                                                                *)

Steps == {"off", "open", "top", "renew", "plan", "wave", "write", "sync", "persist",
          "dirsync", "publish", "settle", "reauth", "cooldown", "backoff", "join", "exit"}
Committing == {"write", "sync", "persist", "dirsync", "publish"}
Chunk == [block : Blocks, kind : {"chunk"}, ver : Versions, etag : Versions \cup {None}]
Verdict == [block : Blocks, ver : {None}, etag : {None},
            kind : {"transient", "terminal", "budget", "throttle", "renew", "canceled"}]

Wave == [gen : Nat, pin : Versions \cup {None}, failure : Failures,
         auth : BOOLEAN, throttle : BOOLEAN, stale : BOOLEAN]
Read == [pc : {"wait", "read", "send"}, want : Blocks,
         got : Content \cup {None}, active : BOOLEAN]

DiskTypes ==
    /\ payload \in [Blocks -> Content] /\ synced \in [Blocks -> Content]
    /\ saved \in SUBSET SUBSET Blocks /\ saved # {}

SharedTypes ==
    /\ live \in SUBSET Blocks /\ priority \in Blocks \cup {None}
    /\ generation \in Nat /\ error \in Errors
    /\ cancel \in BOOLEAN /\ running \in BOOLEAN /\ leased \in BOOLEAN

LoopTypes ==
    /\ pc \in Steps /\ outcome \in Outcomes
    /\ wave \in Wave
    /\ preferred \in 0 .. NBlocks \cup {None}

FetchTypes ==
    /\ jobs \in SUBSET Blocks /\ queue \in Seq(Chunk \cup Verdict)
    /\ chunk \in Chunk \cup {NoChunk}
    /\ validator \in Versions \cup {None} /\ initialized \in BOOLEAN

ReaderTypes == reader \in [Readers -> Read \cup {NoRead}]

CounterTypes ==
    /\ failures \in Nat /\ renewals \in Nat /\ width \in Nat
    /\ slots \in Nat /\ mine \in SUBSET Blocks /\ idle \in Nat
    /\ revoked \in BOOLEAN /\ crashes \in Nat

\* Every variable ranges over the values its Rust counterpart can hold.
TypeOK ==
    /\ DiskTypes /\ SharedTypes /\ LoopTypes
    /\ FetchTypes /\ ReaderTypes /\ CounterTypes

\* Whatever manifest a power loss leaves, it covers every byte that readers may
\* already have been served ("live availability remains a subset of the durable
\* manifest", adaptive.rs:736-738).
LiveIsDurable == \A manifest \in saved : live \subseteq manifest

\* A manifest never claims a block whose bytes a power loss could leave as a hole
\* of the sparse file: payload sync precedes every checkpoint that names it.
ManifestNeverLies == \A manifest \in saved : \A b \in manifest : synced[b] # Hole

\* What a power loss may leave is enough for what was served, and has its bytes.
Durability == LiveIsDurable /\ ManifestNeverLies

\* Each step of a commit has what the previous one made durable: a manifest never
\* names a block before its bytes are synced, whatever failed or was superseded.
CommitOrder ==
    /\ \A b \in Blocks : payload[b] = Hole => synced[b] = Hole
    /\ pc \in Committing => chunk # NoChunk
    /\ pc \in {"persist", "dirsync", "publish"} => synced[chunk.block] = chunk.ver
    /\ pc = "publish" => \A manifest \in saved : chunk.block \in manifest

\* A block is fetched, queued, committed or available, never two of these: no two
\* fetches share a range and nothing available is ever fetched or written again.
ClaimedOnce ==
    /\ jobs \cap live = {}
    /\ \A i \in DOMAIN queue :
         /\ queue[i].block \notin live \cup jobs
         /\ \A j \in DOMAIN queue : i # j => queue[i].block # queue[j].block
         /\ chunk # NoChunk => queue[i].block # chunk.block
    /\ chunk # NoChunk => chunk.block \notin live \cup jobs
    /\ chunk # NoChunk <=> pc \in Committing
    /\ jobs # {} => pc \in {"plan", "wave", "join"} \cup Committing
    /\ queue # <<>> => pc \in {"wave", "join"} \cup Committing

\* The lock is dropped between the availability check and the file read, yet the
\* read finds the whole block and never one the coordinator is writing.
NeverServeHoles ==
    \A r \in Readers :
        /\ reader[r].pc = "read" => /\ payload[reader[r].want] # Hole
                                   /\ ~(pc = "sync" /\ chunk.block = reader[r].want)
        /\ reader[r].pc = "send" => reader[r].got # Hole

\* Once a strong ETag is pinned, everything this acquisition made available is
\* that version, however results were reordered and links renewed.
PinnedIdentity == validator # None => \A b \in mine : payload[b] = validator

\* A seek supersedes a wave but never ends the acquisition: "canceled" is recorded
\* only for an asset nobody leases any more or, while it is still leased, after a
\* renewal that found its account revoked (app.rs:965-968).
SeekNeverFails == error = "canceled" => cancel \/ revoked

\* A lease with missing bytes always has an owner at work or an error to show:
\* the owner records its error before it gives up ownership.
NoSilentStall == leased /\ ~Complete(live) => running \/ error # "none"

\* A reader is served real bytes, and a lease that cannot be served is told so.
SafeReads == NeverServeHoles /\ SeekNeverFails /\ NoSilentStall

\* Without a publication or a seek, retries and renewals end the acquisition
\* after a fixed number of waves, whatever mix of failures they meet.
BoundedRetries == idle <= MaxFailures + MaxRenewals + 1

\* What the origin can do to an acquisition: no mixture of versions, no endless retry.
OriginTrusted == PinnedIdentity /\ BoundedRetries

\* A result of a superseded wave, or of a released lease, is never made live.
OnlyCurrentPublished ==
    [][live' # live /\ crashes' = crashes => ~cancel /\ generation = wave.gen]_vars

\* A released asset's owner stops, so the asset can be leased or cleaned again.
ReleaseStopsOwner == cancel ~> ~running

\* Other assets take every permit again and again: nothing queues for one.
Starved == []<>(slots >= GlobalSlots)

\* Every acquisition that gets permits ends, complete or with an error.
AcquisitionEnds == Starved \/ (running ~> ~running)

\* An owner always ends, and on a release without its last bytes or a permit.
OwnerEnds == ReleaseStopsOwner /\ AcquisitionEnds

\* A waiting reader is served or told why not, without its 45 s deadline, unless
\* other assets starve the one it reads.
WaitingReaderAnswered ==
    Starved \/ \A r \in Readers : reader[r].pc = "wait" ~> reader[r].pc # "wait"

\* What the asset promises to readers across crashes.
Asset == INSTANCE DurableAsset WITH avail <- live, kept <- saved
RefinesAsset == Asset!Spec
=============================================================================
