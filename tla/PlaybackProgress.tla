-------------------------- MODULE PlaybackProgress --------------------------
(* Durable playback progress of one catalog item: the transactional record   *)
(* (catalog_playback_progress.rs), the coordinator that owns delivery and    *)
(* retries (controllers/coordinator/playback.rs), and the player windows that *)
(* sample positions (controllers/playback_progress.rs, ui/views/player).     *)
(*                                                                           *)
(* A session is one embedded player window on the item. Its window generation *)
(* never changes: a closed session is never opened again. Deferred calls of   *)
(* the main thread run before its next event and are part of their action.    *)
EXTENDS Integers, Sequences, FiniteSets

CONSTANTS
    Sessions,       \* embedded playback sessions of the item
    MaxRetries,     \* 3 in the code: automatic retries of a failed save
    MaxFaults,      \* bound: failed transactions and refused submissions
    MaxEpoch,       \* bound: users act while the durable epoch is below it
    MaxSeq,         \* bound: checkpoints one window samples
    MayQuit,        \* bound: whether the user quits
    Completions,    \* bound: whether a position may be past the completion threshold
    None

ASSUME RetriesAssumption == MaxRetries \in Nat /\ MaxFaults \in Nat
ASSUME BoundsAssumption == MaxEpoch \in Nat /\ MaxSeq \in Nat /\ MayQuit \in BOOLEAN
ASSUME CompletionsAssumption == Completions \subseteq BOOLEAN
ASSUME NoneAssumption == None \notin Sessions

VARIABLES
    db,         \* the durable record of the item
    queue,      \* the catalog worker's FIFO
    acks,       \* its unread events
    run,        \* PlaybackStore.runs
    player,     \* Progress of each window
    faults,
    quit,       \* the final flush: "no", "saving", "saved" or "late"
    leaving,    \* windows it has yet to take a final sample of
    \* history
    owner,      \* session whose BeginRun was applied last
    accepted,   \* newest checkpoint the coordinator accepted of each session
    unmarked    \* run during which the user last marked the item unwatched

history == <<owner, accepted, unmarked>>
flushVars == <<quit, leaving>>
vars == <<db, queue, acks, run, player, faults, flushVars, history>>

-----------------------------------------------------------------------------
NoWindow == [phase |-> "none", epoch |-> 0, run |-> 0, auth |-> FALSE, last |-> None,
             seq |-> 0, over |-> FALSE, notice |-> FALSE]

Init ==
    /\ db = [epoch |-> 0, run |-> 0, watched |-> FALSE, suppressed |-> FALSE,
             checkpoint |-> None]
    /\ queue = <<>> /\ acks = <<>>
    /\ run = [s \in Sessions |-> None] /\ player = [s \in Sessions |-> NoWindow]
    /\ faults = 0 /\ quit = "no" /\ leaving = {}
    /\ owner = None /\ accepted = [s \in Sessions |-> None] /\ unmarked = 0

-----------------------------------------------------------------------------
(* The durable record: one IMMEDIATE transaction per operation               *)

Begun(over) ==
    [db EXCEPT !.epoch = @ + 1, !.run = db.epoch + 1, !.suppressed = FALSE,
               !.checkpoint = IF over THEN None ELSE @]

\* Mutant: the epoch is not compared.
IsStaleByRun(sample) == sample.run = 0 \/ sample.run # db.run

IsStale(sample) == sample.run = 0 \/ sample.run # db.run \/ sample.epoch # db.epoch

\* Mutant: the completion threshold marks a suppressed item too.
SavedUnsuppressed(sample) ==
    [db EXCEPT !.checkpoint = sample, !.watched = @ \/ sample.done]

Saved(sample) ==
    [db EXCEPT !.checkpoint = sample, !.watched = @ \/ (sample.done /\ ~db.suppressed)]

Answer(request, result, record) ==
    acks' = Append(acks, [request |-> request, result |-> result,
                          epoch |-> record.epoch, run |-> record.run])

\* The worker takes the oldest request: it fails and leaves nothing, or commits.
Execute ==
    /\ queue # <<>> /\ queue' = Tail(queue)
    /\ LET q == Head(queue)
       IN  \/ /\ faults < MaxFaults /\ faults' = faults + 1
              /\ Answer(q, "error", db) /\ UNCHANGED <<db, owner>>
           \/ /\ q.op = "read" /\ Answer(q, "applied", db)
              /\ UNCHANGED <<db, owner, faults>>
           \/ /\ q.op = "begin" /\ db' = Begun(q.over) /\ owner' = q.session
              /\ Answer(q, "applied", db') /\ UNCHANGED faults
           \/ /\ q.op = "save" /\ IsStale(q.sample) /\ Answer(q, "stale", db)
              /\ UNCHANGED <<db, owner, faults>>
           \/ /\ q.op = "save" /\ ~IsStale(q.sample) /\ db' = Saved(q.sample)
              /\ Answer(q, "applied", db') /\ UNCHANGED <<owner, faults>>
    /\ UNCHANGED <<run, player, accepted, unmarked>>

onlyRecord == <<queue, acks, run, player, faults, owner, accepted>>

\* The user marks the item (or its season) watched or unwatched.
MarkWatched(watched) ==
    /\ db.epoch < MaxEpoch
    /\ db' = [db EXCEPT !.epoch = @ + 1, !.watched = watched,
                        !.suppressed = @ \/ ~watched]
    /\ unmarked' = IF watched THEN unmarked ELSE db.run
    /\ UNCHANGED onlyRecord

Clear ==
    /\ db.epoch < MaxEpoch
    /\ db' = [db EXCEPT !.epoch = @ + 1, !.checkpoint = None]
    /\ UNCHANGED <<onlyRecord, unmarked>>

\* Another identity of the item is merged into it: both runs are revoked, and the
\* newer mark and the newer checkpoint stay. What the other identity's windows left
\* is no checkpoint of a session here: None stands for it too.
Merge ==
    /\ db.epoch < MaxEpoch
    /\ \E suppressed, watched \in BOOLEAN : \E newer \in {db.checkpoint, None} :
         db' = [db EXCEPT !.epoch = @ + 1, !.run = 0, !.watched = watched,
                          !.suppressed = @ \/ suppressed, !.checkpoint = newer]
    /\ UNCHANGED <<onlyRecord, unmarked>>

-----------------------------------------------------------------------------
(* The coordinator's submissions. An outcome is the Run that results, the    *)
(* requests it sent, and whether the worker refused one.                     *)

Kept(r) == [run |-> r, sent |-> <<>>, refused |-> FALSE]
Sent(r, request) == [run |-> [r EXCEPT !.busy = TRUE], sent |-> <<request>>, refused |-> FALSE]
Refused(r) == [run |-> r, sent |-> <<>>, refused |-> TRUE]

MayFail == faults < MaxFaults

\* The registry knows a window from its opening to its closing.
Shown(p) == p.phase \notin {"none", "opening", "closed"}
Open(s) == Shown(player[s])
Noticed(p, failed) == IF Shown(p) THEN [p EXCEPT !.notice = failed] ELSE p

\* One more failure: an automatic retry is armed while the budget lasts.
Failed(r) ==
    [r EXCEPT !.retries = IF @ > MaxRetries THEN @ ELSE @ + 1,
              !.retry = IF r.retries + 1 <= MaxRetries THEN "armed" ELSE "none"]

\* Mutant: a save is sent beside the one in flight.
SendLatestBesides(s, r) ==
    IF r.retry = "armed" \/ r.latest = None THEN {Kept(r)}
    ELSE {Sent([r EXCEPT !.latest = None],
               [op |-> "save", session |-> s, sample |-> r.latest])}

\* send_latest_checkpoint
SendLatest(s, r) ==
    IF r.busy \/ r.retry = "armed" \/ r.latest = None THEN {Kept(r)}
    ELSE {Sent([r EXCEPT !.latest = None],
               [op |-> "save", session |-> s, sample |-> r.latest])}
         \cup (IF MayFail THEN {Refused(Failed(r))} ELSE {})

\* Mutant: a new run asked for during a request is forgotten.
ProgressReadyLost(s, r, ready) ==
    IF player[s].phase = "closed" \/ ready.epoch > r.epoch \/ r.busy THEN {Kept(r)}
    ELSE {Sent(r, [op |-> "begin", session |-> s, epoch |-> ready.epoch,
                   over |-> ready.over])}

\* player_progress_ready: an explicit new run, behind the request in flight.
ProgressReady(s, r, ready) ==
    IF player[s].phase = "closed" \/ ready.epoch > r.epoch THEN {Kept(r)}
    ELSE IF r.busy THEN {Kept([r EXCEPT !.ready = ready])}
    ELSE {Sent(r, [op |-> "begin", session |-> s, epoch |-> ready.epoch,
                   over |-> ready.over])}
         \cup (IF MayFail THEN {Refused(r)} ELSE {})

\* send_pending_ready, and what follows when nothing was pending.
PendingReadyElse(s, r, otherwise) ==
    IF r.ready = None THEN otherwise
    ELSE ProgressReady(s, [r EXCEPT !.ready = None], r.ready)

\* Store an outcome; a refusal raises the window's notice.
Settled(s, outcome, windows) ==
    /\ run' = [run EXCEPT ![s] = outcome.run]
    /\ queue' = queue \o outcome.sent
    /\ faults' = IF outcome.refused THEN faults + 1 ELSE faults
    /\ player' = IF outcome.refused THEN [windows EXCEPT ![s] = Noticed(@, TRUE)] ELSE windows

\* submit_player_checkpoint: only of the authorized run and its current epoch.
Submitted(s, sample, force) ==
    LET r == run[s]
    IN  IF r = None THEN {}
        ELSE IF sample.run # r.run \/ sample.epoch # r.epoch \/ sample.seq <= r.seq
        THEN {Kept(r)}
        ELSE SendLatest(s,
               [r EXCEPT !.seq = sample.seq, !.latest = sample,
                         !.retries = IF @ > MaxRetries THEN 0 ELSE @,
                         !.retry = IF force \/ r.retries > MaxRetries THEN "none" ELSE @])

Accepts(s, sample) ==
    /\ run[s] # None /\ sample.run = run[s].run /\ sample.epoch = run[s].epoch
    /\ sample.seq > run[s].seq

-----------------------------------------------------------------------------
(* Player windows                                                            *)

OpenWithProgress(s) ==
    /\ player[s].phase = "none"
    /\ player' = [player EXCEPT ![s].phase = "opening"]
    /\ queue' = Append(queue, [op |-> "read", session |-> s])
    /\ UNCHANGED <<db, acks, run, faults, history>>

\* Preparation ends: the saved position is confirmed, or the start is reset.
BecomesReady(s, over) ==
    /\ player[s].phase = "start" /\ (player[s].over => over)
    /\ LET windows == [player EXCEPT ![s].phase = IF over THEN "reset" ELSE "ready",
                                     ![s].over = over]
       IN  \E outcome \in ProgressReady(s, run[s], [epoch |-> player[s].epoch, over |-> over]) :
             Settled(s, outcome, windows)
    /\ UNCHANGED <<db, acks, history>>

\* A deadline passes or a seek is refused; the user decides what follows.
StartFails(s) ==
    /\ player[s].phase = "start"
    /\ player' = [player EXCEPT ![s].phase = "prompt", ![s].auth = FALSE]
    /\ UNCHANGED <<db, queue, acks, run, faults, history>>

RetryStartup(s) ==
    /\ player[s].phase = "prompt"
    /\ player' = [player EXCEPT ![s].phase = "start", ![s].auth = FALSE, ![s].last = None]
    /\ UNCHANGED <<db, queue, acks, run, faults, history>>

NotSaving(s) == player[s].notice /\ player[s].phase \in {"ready", "reset"}

PlayWithoutSaving(s) ==
    /\ player[s].phase = "prompt" \/ NotSaving(s)
    /\ player' = [player EXCEPT ![s].phase = "active", ![s].auth = FALSE]
    /\ UNCHANGED <<db, queue, acks, run, faults, history>>

\* "Retry saving"
RetryProgressReady(s) ==
    /\ NotSaving(s)
    /\ \E outcome \in ProgressReady(s, run[s], [epoch |-> player[s].epoch,
                                               over |-> player[s].phase = "reset"]) :
         Settled(s, outcome, [player EXCEPT ![s].notice = FALSE])
    /\ UNCHANGED <<db, acks, history>>

Sampling(s) == player[s].phase = "active" /\ player[s].auth

\* A position is observed, before or after 90% of the duration.
Observe(s) ==
    /\ Sampling(s)
    /\ \E done \in Completions :
         player' = [player EXCEPT ![s].last = [at |-> db.epoch, done |-> done]]
    /\ UNCHANGED <<db, queue, acks, run, faults, history>>

HasSample(s) == Sampling(s) /\ player[s].last # None /\ player[s].seq < MaxSeq

NextSample(s) ==
    [by |-> s, epoch |-> player[s].epoch, run |-> player[s].run,
     seq |-> player[s].seq + 1, at |-> player[s].last.at, done |-> player[s].last.done]

\* Deliver the last observed position and let the window become w.
Deliver(s, force, w) ==
    LET sample == NextSample(s)
    IN  /\ \E outcome \in Submitted(s, sample, force) :
             Settled(s, outcome, [player EXCEPT ![s] = w])
        /\ accepted' = IF Accepts(s, sample) THEN [accepted EXCEPT ![s] = sample] ELSE accepted
        /\ UNCHANGED <<db, acks, owner, unmarked>>

Sample(s, force) ==
    HasSample(s) /\ Deliver(s, force, [player[s] EXCEPT !.seq = @ + 1])

\* flush_progress, then the window becomes w.
Flush(s, w) ==
    \/ /\ HasSample(s)
       /\ Deliver(s, TRUE, [w EXCEPT !.seq = @ + 1])
    \/ /\ ~HasSample(s)
       /\ player' = [player EXCEPT ![s] = w]
       /\ UNCHANGED <<db, queue, acks, run, faults, history>>

\* The user plays again after the end: flushed, and started over.
Replay(s) ==
    /\ player[s].phase = "active" /\ db.epoch < MaxEpoch
    /\ Flush(s, [player[s] EXCEPT !.phase = "start", !.auth = FALSE, !.last = None,
                                  !.over = TRUE])

Close(s) == Open(s) /\ Flush(s, [player[s] EXCEPT !.phase = "closed"])

-----------------------------------------------------------------------------
(* The coordinator's timer                                                   *)

\* retry_playback_progress for one due run.
RetryDue(s) ==
    /\ run[s] # None /\ run[s].retry # "none"
    /\ run[s].latest # None /\ ~run[s].busy
    /\ \E outcome \in SendLatest(s, [run[s] EXCEPT !.retry = "due"]) :
         Settled(s, outcome, player)
    /\ UNCHANGED <<db, acks, history>>

\* Its session is gone and nothing is left to deliver.
Forget(s) ==
    /\ run[s] # None /\ player[s].phase = "closed" /\ ~run[s].busy
    /\ run[s].latest = None \/ run[s].retries > MaxRetries
    /\ run' = [run EXCEPT ![s] = None]
    /\ UNCHANGED <<db, queue, acks, player, faults, history>>

-----------------------------------------------------------------------------
(* apply_playback_event                                                      *)

Acknowledged == acks # <<>> /\ acks' = Tail(acks) /\ UNCHANGED <<db, history>>

\* Mutant: the window keeps its old epoch when it is authorized again.
AuthorizedStale(p, old, epoch, r) ==
    IF ~Shown(p) \/ p.epoch # old THEN p
    ELSE [p EXCEPT !.run = r, !.auth = TRUE, !.notice = FALSE,
                   !.phase = IF @ \in {"ready", "reset"} THEN "active" ELSE @]

\* authorize_progress and invalidate_progress of a window
Authorized(p, old, epoch, r) ==
    IF ~Shown(p) \/ p.epoch # old \/ epoch < old \/ r <= 0 THEN p
    ELSE IF p.phase \in {"ready", "reset"}
    THEN [p EXCEPT !.epoch = epoch, !.run = r, !.auth = TRUE, !.notice = FALSE,
                   !.phase = "active", !.last = None]
    ELSE [p EXCEPT !.epoch = epoch, !.run = r, !.auth = TRUE, !.notice = FALSE]

Invalidated(p, epoch) ==
    IF Shown(p) /\ p.epoch = epoch THEN [p EXCEPT !.auth = FALSE, !.last = None] ELSE p

OpenAnswered ==
    /\ Acknowledged
    /\ LET a == Head(acks) IN LET s == a.request.session
       IN  /\ a.request.op = "read"
           /\ IF a.result = "error"
              THEN /\ player' = [player EXCEPT ![s] = NoWindow] /\ UNCHANGED run
              ELSE /\ player' = [player EXCEPT ![s].phase = "start", ![s].epoch = a.epoch]
                   /\ run' = [run EXCEPT ![s] =
                         [epoch |-> a.epoch, run |-> a.run, seq |-> 0, busy |-> FALSE,
                          latest |-> None, retries |-> 0, retry |-> "none", ready |-> None]]
    /\ UNCHANGED <<queue, faults>>

\* revoke_other_writers: every other run of the item that has begun.
Revoked(s, a) ==
    {o \in Sessions \ {s} : run[o] # None /\ run[o].run \notin {0, a.run}}

BeginAnswered ==
    /\ Acknowledged
    /\ LET a == Head(acks) IN LET s == a.request.session
       IN  /\ a.request.op = "begin"
           /\ IF a.result = "error"
              THEN /\ run' = [run EXCEPT ![s].busy = FALSE]
                   /\ player' = [player EXCEPT ![s] = Noticed(@, TRUE)]
              ELSE /\ run' = [o \in Sessions |->
                        IF o = s
                        THEN [run[s] EXCEPT !.epoch = a.epoch, !.run = a.run, !.busy = FALSE,
                                            !.seq = 0, !.latest = None, !.retry = "none",
                                            !.retries = 0]
                        ELSE IF o \in Revoked(s, a)
                        THEN [run[o] EXCEPT !.latest = None, !.retry = "none"]
                        ELSE run[o]]
                   /\ player' = [o \in Sessions |->
                        IF o = s THEN Authorized(player[s], a.request.epoch, a.epoch, a.run)
                        ELSE IF o \in Revoked(s, a) THEN Invalidated(player[o], run[o].epoch)
                        ELSE player[o]]
    /\ UNCHANGED <<queue, faults>>

\* Applied or stale: the answer carries the durable authorization. A stale save
\* discards every queued sample, and a run that is still the owner is told its
\* new epoch.
SaveAnswered ==
    /\ Acknowledged
    /\ LET a == Head(acks) IN
       LET s == a.request.session
           sample == a.request.sample
           stale == a.result = "stale"
           r == [run[s] EXCEPT !.epoch = a.epoch, !.run = a.run, !.busy = FALSE,
                               !.retries = 0, !.retry = "none",
                               !.latest = IF stale THEN None ELSE @]
           p == player[s]
           window == IF ~stale THEN Noticed(p, FALSE)
                     ELSE IF a.run = sample.run /\ r.ready = None
                     THEN Authorized(Invalidated(p, sample.epoch), sample.epoch, a.epoch, a.run)
                     ELSE Invalidated(p, sample.epoch)
       IN  /\ a.request.op = "save" /\ a.result # "error"
           /\ \E outcome \in PendingReadyElse(s, r, SendLatest(s, r)) :
                Settled(s, outcome, [player EXCEPT ![s] = window])

\* Mutant: a failed save replaces the newer sample that waits.
RequeuedOver(r, sample) == [r EXCEPT !.latest = sample]

\* A failed save is kept for a retry unless a newer sample replaced it.
Requeued(r, sample) == [r EXCEPT !.latest = IF @ = None THEN sample ELSE @]

SaveFailed ==
    /\ Acknowledged
    /\ LET a == Head(acks) IN
       LET s == a.request.session
           r == Failed(Requeued([run[s] EXCEPT !.busy = FALSE], a.request.sample))
       IN  /\ a.request.op = "save" /\ a.result = "error"
           /\ \E outcome \in PendingReadyElse(s, r, {Kept(r)}) :
                Settled(s, outcome, [player EXCEPT ![s] = Noticed(@, TRUE)])

-----------------------------------------------------------------------------
(* flush_playback_on_quit                                                    *)

\* checkpoint_all takes a last sample of every open window, in one update of the
\* main thread: nothing but the worker runs before the last of them.
BeginFlush ==
    /\ MayQuit /\ quit = "no"
    /\ quit' = "saving" /\ leaving' = {s \in Sessions : Open(s)}
    /\ UNCHANGED <<db, queue, acks, run, player, faults, history>>

FinalSample(s) ==
    /\ s \in leaving /\ leaving' = leaving \ {s}
    /\ Flush(s, player[s])
    /\ UNCHANGED quit

\* Mutant: the flush looks only at what is in flight.
FlushedUnsent == queue = <<>> /\ acks = <<>>

\* No request is pending, and no run keeps a sample.
Flushed ==
    /\ queue = <<>> /\ acks = <<>>
    /\ \A s \in Sessions : run[s] # None => ~run[s].busy /\ run[s].latest = None

\* The loop has drained and retried: everything is saved, or 1.8 s have passed.
EndFlush ==
    /\ quit = "saving" /\ leaving = {}
    /\ \/ Flushed /\ quit' = "saved"
       \/ quit' = "late"
    /\ UNCHANGED <<db, queue, acks, run, player, faults, leaving, history>>

-----------------------------------------------------------------------------
Answered == OpenAnswered \/ BeginAnswered \/ SaveAnswered \/ SaveFailed

User(s) ==
    \/ OpenWithProgress(s) \/ RetryStartup(s) \/ PlayWithoutSaving(s)
    \/ RetryProgressReady(s) \/ Replay(s) \/ Close(s)

Window(s) ==
    \/ \E over \in BOOLEAN : BecomesReady(s, over)
    \/ StartFails(s) \/ Observe(s) \/ \E force \in BOOLEAN : Sample(s, force)

\* The main thread, while the application runs and takes no final samples.
MainThread ==
    /\ quit \in {"no", "saving"} /\ leaving = {}
    /\ Answered \/ \E s \in Sessions : User(s) \/ Window(s) \/ RetryDue(s) \/ Forget(s)
    /\ UNCHANGED flushVars

\* The thread that owns the database.
Worker ==
    /\ \/ Execute \/ Clear \/ Merge
       \/ \E watched \in BOOLEAN : MarkWatched(watched)
    /\ UNCHANGED flushVars

Next ==
    \/ Worker \/ MainThread
    \/ BeginFlush \/ (\E s \in Sessions : FinalSample(s)) \/ EndFlush

Spec == Init /\ [][Next]_vars

\* The worker and the coordinator's event loop and timer run; users need not act.
Fairness ==
    /\ WF_vars(Execute /\ UNCHANGED flushVars) /\ WF_vars(MainThread /\ Answered)
    /\ WF_vars(\E s \in Sessions : FinalSample(s))
    /\ \A s \in Sessions : WF_vars(MainThread /\ RetryDue(s)) /\ WF_vars(MainThread /\ Forget(s))

FairSpec == Spec /\ Fairness

-----------------------------------------------------------------------------
(* Properties                                                                *)

Phases == {"none", "opening", "start", "prompt", "ready", "reset", "active", "closed"}
SampleOf == [by : Sessions, epoch : Nat, run : Nat, seq : Nat, at : Nat, done : BOOLEAN]
ReadyOf == [epoch : Nat, over : BOOLEAN]
RunOf == [epoch : Nat, run : Nat, seq : Nat, busy : BOOLEAN, latest : SampleOf \cup {None},
          retries : Nat, retry : {"none", "armed", "due"}, ready : ReadyOf \cup {None}]
RequestOf ==
    [op : {"read"}, session : Sessions]
    \cup [op : {"begin"}, session : Sessions, epoch : Nat, over : BOOLEAN]
    \cup [op : {"save"}, session : Sessions, sample : SampleOf]
AnswerOf == [request : RequestOf, result : {"applied", "stale", "error"}, epoch : Nat, run : Nat]

\* A session without a Run is told from one that has it.
ASSUME AbsenceAssumption == None \notin RunOf

\* Every variable ranges over the values its Rust or SQL counterpart can hold.
TypeOK ==
    /\ db \in [epoch : Nat, run : Nat, watched : BOOLEAN, suppressed : BOOLEAN,
              checkpoint : SampleOf \cup {None}]
    /\ queue \in Seq(RequestOf) /\ acks \in Seq(AnswerOf)
    /\ run \in [Sessions -> RunOf \cup {None}]
    /\ player \in [Sessions -> [phase : Phases, epoch : Nat, run : Nat, auth : BOOLEAN,
                               last : [at : Nat, done : BOOLEAN] \cup {None}, seq : Nat,
                               over : BOOLEAN, notice : BOOLEAN]]
    /\ faults \in Nat
    /\ quit \in {"no", "saving", "saved", "late"} /\ leaving \in SUBSET Sessions
    /\ owner \in Sessions \cup {None} /\ accepted \in [Sessions -> SampleOf \cup {None}]
    /\ unmarked \in Nat

Writes == db'.checkpoint # db.checkpoint /\ db'.epoch = db.epoch

\* Only the player that began a run last writes progress: a window it superseded
\* may still sample, retry and replay its queue, and none of that lands.
OnlyNewestRunWrites == [][Writes => db'.checkpoint.by = owner]_vars

\* A position observed before a manual mark, a clear or a merge never lands after
\* it, not even as the cached observation of a later forced sample.
NoPreResetSample == [][Writes => db'.checkpoint.at = db.epoch]_vars

\* A superseded window and a superseded observation are both refused.
NoStaleWriter == OnlyNewestRunWrites /\ NoPreResetSample

\* After "Mark unwatched" no checkpoint of the same run marks the item watched
\* again, through every stale answer and re-authorization of that run.
SuppressionHolds ==
    [][Writes /\ ~db.watched /\ db'.watched => db.run # unmarked]_vars

\* Within a run later checkpoints replace earlier ones, whatever was retried.
CheckpointsInOrder ==
    [][Writes /\ db.checkpoint # None =>
        \/ db'.checkpoint.run # db.checkpoint.run
        \/ db'.checkpoint.seq > db.checkpoint.seq]_vars

Outstanding(s) ==
    {i \in DOMAIN queue : queue[i].session = s /\ queue[i].op # "read"}
    \cup {-i : i \in {j \in DOMAIN acks : /\ acks[j].request.session = s
                                         /\ acks[j].request.op # "read"}}

\* A run has exactly the one request in flight that its flag says: no answer frees
\* another request's slot, and none leaves the run busy for ever.
OneInFlight ==
    \A s \in Sessions :
        Cardinality(Outstanding(s)) = (IF run[s] # None /\ run[s].busy THEN 1 ELSE 0)

\* While no request has failed, a window that believes it may save holds the epoch
\* and the run that its coordinator accepts, so its checkpoints get through. (A
\* failed request can leave the two apart.)
AuthorityAgrees ==
    TypeOK /\ \A s \in Sessions :
        Sampling(s) /\ run[s] # None /\ faults = 0
            => player[s].epoch = run[s].epoch /\ player[s].run = run[s].run

InFlightSamples ==
    {queue[i].sample : i \in {j \in DOMAIN queue : queue[j].op = "save"}}
    \cup {acks[i].request.sample : i \in {j \in DOMAIN acks : acks[j].request.op = "save"}}

\* The newest checkpoint accepted from a run is durable, queued or kept for a
\* retry while it is still current: no failure or reordering drops it.
NewestSampleKept ==
    \A s \in Sessions :
        LET a == accepted[s]
        IN  /\ run[s] # None /\ a # None
            /\ a.epoch = db.epoch /\ a.run = db.run
            => a = db.checkpoint \/ a = run[s].latest \/ a \in InFlightSamples

\* Nothing of a run is lost or doubled between its window and the catalog.
DeliveryAccounted == OneInFlight /\ NewestSampleKept

\* A quit that ends its flush before the deadline has every position that was
\* accepted and is still current in the catalog, the last of each window included.
FlushSaves ==
    quit = "saved" => \A s \in Sessions :
        LET a == accepted[s]
        IN  run[s] # None /\ a # None /\ a.epoch = db.epoch /\ a.run = db.run
                => a = db.checkpoint

\* A window paused for its new run is authorized or told that saving failed, as
\* long as no request fails and the application runs. (A failed request can leave
\* the epochs apart.)
ReadyIsAnswered ==
    \A s \in Sessions :
        (player[s].phase \in {"ready", "reset"} /\ ~player[s].notice /\ faults = 0)
            ~> \/ player[s].phase \notin {"ready", "reset"} \/ player[s].notice
               \/ faults > 0 \/ quit = "late"
=============================================================================
