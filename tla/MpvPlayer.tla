------------------------------- MODULE MpvPlayer -------------------------------
(***************************************************************************)
(* One embedded player of kinema-mpv (mpv/player.rs and mpv/render.rs): the *)
(* user interface's calls, the control worker between them and libmpv, and  *)
(* the render worker that draws into GPU surfaces.  The two workers and the *)
(* caller share a flag, `stopped`, and two locked records, the published    *)
(* playback state and the render pipeline.  A step is what runs under one   *)
(* holding of the locks, or between two of them.                            *)
(*                                                                         *)
(* libmpv itself is external: it takes commands in order, opens one file at *)
(* a time and tells what it did in one stream of events.  A file is named by *)
(* the number of the load that asked for it.  The two resets before a       *)
(* loadfile go with it; a picture's size is a flag, "not empty".  A          *)
(* pipeline generation is only ever compared with the current one, so the    *)
(* model keeps who holds the current number and not the number.             *)
(***************************************************************************)
EXTENDS Naturals, Sequences

CONSTANTS
    MaxLoads,    \* loads the caller asks for
    QueueLimit,  \* sync_channel(64) of operations
    MaxFaults,   \* failures of libmpv, the renderer or a worker
    MaxChanges,  \* stops, resizes, decoder changes, and the drop
    MaxSteps,    \* loads, failures and changes together
    None

ASSUME MpvAssumption ==
    /\ MaxLoads \in Nat \ {0} /\ QueueLimit \in Nat \ {0}
    /\ MaxFaults \in Nat /\ MaxChanges \in Nat /\ MaxSteps \in Nat
    /\ None \notin Nat

VARIABLES
    player,      \* "starting", "up", "dropping" or "gone"
    generation,  \* Player.command_generation: the latest load
    commands,    \* operations the control worker has not taken
    stopped,     \* Shared.stopped
    state,       \* Shared.state, the fields readiness is made of
    pipeline,    \* Shared.pipeline
    control,     \* the control worker: where it is and what it holds
    render,      \* the render worker: where it is, its snapshot, schedule and answer
    core,        \* libmpv: its file, what it decodes and its commands
    events,      \* libmpv's events
    heard,       \* ghost: an event on a file was handled since the last load
    overtaken,   \* ghost: the last answer of refresh_decode_evidence was dropped
    faults, changes  \* how much of the bounds is used

ui == <<player, generation, commands>>
shared == <<stopped, state, pipeline>>
mpv == <<core, events>>
ghosts == <<heard, overtaken>>
bounds == <<faults, changes>>
vars == <<ui, shared, control, render, mpv, ghosts, bounds>>

Looks == {"pending", "good", "bad"}   \* how a decoder's evidence qualifies
Loads == 1..MaxLoads
Operations == [kind : {"load", "control"}, generation : Loads \cup {None}]
Events ==
    [id : {"start", "loaded", "end", "video", "look", "reply_error", "shutdown"},
     kind : {"load", "control"}, generation : Loads \cup {None}]
Snapshots == [sized : BOOLEAN, ready : BOOLEAN, evidence : Looks \cup {"none"}]
\* Who may hold the pipeline's generation: the frame in the mailbox, the render
\* worker's snapshot, GpuSchedule.consumed_generation, the control worker's sample,
\* and (a ghost) the last frame that was put in the mailbox.
Holders == {"frame", "snapshot", "consumed", "sampled", "drawn"}

TypeOK ==
    /\ player \in {"starting", "up", "dropping", "gone"}
    /\ generation \in 0..MaxLoads
    /\ commands \in Seq(Operations) /\ Len(commands) <= QueueLimit
    /\ stopped \in BOOLEAN
    /\ state \in [loading : BOOLEAN, file_loaded : BOOLEAN,
                  media_stopped : BOOLEAN, fatal : BOOLEAN]
    /\ pipeline \in [current : SUBSET Holders, viewport : BOOLEAN, absent : BOOLEAN,
                     ready : BOOLEAN, evidence : Looks \cup {"none"}, frame : BOOLEAN]
    /\ control \in [at : {"loop", "enqueue", "op_error", "sample", "publish",
                          "failing", "ended"},
                    op : Operations \cup {None}, look : Looks \cup {None}]
    /\ render \in [at : {"starting", "loop", "qualify", "deliver", "failing", "ended"},
                   snap : Snapshots \cup {None}, requested : BOOLEAN,
                   answer : BOOLEAN \cup {None}]
    /\ core \in [file : Loads \cup {None}, phase : {"idle", "opening", "playing"},
                 look : Looks, queue : Seq(Operations)]
    /\ events \in Seq(Events)
    /\ heard \in BOOLEAN /\ overtaken \in BOOLEAN
    /\ faults \in 0..MaxFaults /\ changes \in 0..MaxChanges

Resting == [at |-> "loop", op |-> None, look |-> None]

Init ==
    /\ player = "starting" /\ generation = 0 /\ commands = << >>
    /\ stopped = FALSE
    /\ state = [loading |-> FALSE, file_loaded |-> FALSE,
                media_stopped |-> TRUE, fatal |-> FALSE]
    /\ pipeline = [current |-> {}, viewport |-> FALSE, absent |-> FALSE,
                   ready |-> FALSE, evidence |-> "none", frame |-> FALSE]
    /\ control = Resting
    /\ render = [at |-> "starting", snap |-> None, requested |-> FALSE, answer |-> None]
    /\ core = [file |-> None, phase |-> "idle", look |-> "pending", queue |-> << >>]
    /\ events = << >>
    /\ heard = FALSE /\ overtaken = FALSE
    /\ faults = 0 /\ changes = 0

\* The bounds are not used up.
Affordable == generation + faults + changes < MaxSteps

-----------------------------------------------------------------------------
(* The pipeline and the state, as their methods change them.               *)

Sized(p) == p.viewport /\ ~p.absent

\* Pipeline::invalidate: a new generation, and nothing of the old one to take.
Invalidate(p) == [p EXCEPT !.current = {}, !.frame = FALSE]

\* A holder takes the current generation, gives it up, or takes over another's.
Hold(p, holder) == [p EXCEPT !.current = @ \cup {holder}]
Release(p, holder) == [p EXCEPT !.current = @ \ {holder}]
Pass(p, from, to) == IF from \in p.current THEN Hold(p, to) ELSE Release(p, to)

\* Pipeline::clear: the metadata and the decode evidence of the file go too.
Clear(p) ==
    [Invalidate(p) EXCEPT !.absent = TRUE, !.ready = FALSE, !.evidence = "none"]

\* Fault: new evidence keeps the mailbox and its generation.
EvidenceKeepsFrames(p, look) ==
    IF "sampled" \notin p.current THEN p ELSE [p EXCEPT !.evidence = look]

\* Pipeline::update_decode_evidence: a changed observation is a new generation.
UpdateEvidence(p, look) ==
    IF "sampled" \notin p.current \/ p.evidence = look THEN p
    ELSE [Invalidate(p) EXCEPT !.evidence = look]

\* Pipeline::take_gpu gives out a frame of its own generation only.
Takeable(p) == p.frame /\ "frame" \in p.current /\ Sized(p)

\* What the callers take as readiness (validate_frame_step).
Ready == state.file_loaded /\ ~state.loading /\ ~state.media_stopped

\* publish_render_failure; the first fatal error stays.
Failed(s) == [s EXCEPT !.loading = FALSE, !.fatal = TRUE]

\* Fault: no work is ever obsolete.
NeverStale(of) == of \notin Loads \cup {None}

\* Is work submitted for this load obsolete?
Stale(of) == of # None /\ of # generation

\* Fault: a failed load is reported and its start-up goes on.
ReportOnly(kind) == kind \in {"load", "control"} /\ UNCHANGED <<state, pipeline>>

\* apply_operation_error, under the state lock.
ApplyOperationError(kind) ==
    IF kind = "load"
    THEN /\ state' = [state EXCEPT !.loading = FALSE, !.file_loaded = FALSE,
                                   !.media_stopped = TRUE]
         /\ pipeline' = Clear(pipeline)
    ELSE UNCHANGED <<state, pipeline>>

-----------------------------------------------------------------------------
(* The caller.                                                             *)

\* Player::load; a full queue or a stopped player refuses and changes nothing.
Load ==
    /\ player = "up" /\ ~stopped
    /\ generation < MaxLoads /\ Affordable /\ Len(commands) < QueueLimit
    /\ generation' = generation + 1
    /\ commands' = Append(commands, [kind |-> "load", generation |-> generation + 1])
    /\ state' = [state EXCEPT !.file_loaded = FALSE, !.loading = TRUE]
    /\ pipeline' = Clear(pipeline)
    /\ heard' = FALSE
    /\ UNCHANGED <<player, stopped, control, render, mpv, overtaken, bounds>>

\* Player::stop, for every command without a generation of its own.
StopMedia ==
    /\ player = "up" /\ ~stopped
    /\ changes < MaxChanges /\ Affordable /\ Len(commands) < QueueLimit
    /\ commands' = Append(commands, [kind |-> "control", generation |-> None])
    /\ changes' = changes + 1
    /\ UNCHANGED <<player, generation, shared, control, render, mpv, ghosts, faults>>

\* Player::resize, under ResolutionPolicy::Source: the picture keeps the source's
\* size, so only a viewport that becomes empty or visible changes it (recompute).
Resize ==
    /\ player = "up" /\ ~stopped /\ changes < MaxChanges /\ Affordable
    /\ LET resized == [pipeline EXCEPT !.viewport = ~@]
       IN pipeline' = IF Sized(resized) = Sized(pipeline) THEN resized ELSE Invalidate(resized)
    /\ changes' = changes + 1
    /\ UNCHANGED <<ui, stopped, state, control, render, mpv, ghosts, faults>>

\* Player::take_gpu_frame empties the mailbox, whatever it holds.
TakeGpuFrame ==
    /\ player = "up" /\ ~stopped
    /\ pipeline.frame
    /\ pipeline' = [Release(pipeline, "frame") EXCEPT !.frame = FALSE]
    /\ UNCHANGED <<ui, stopped, state, control, render, mpv, ghosts, bounds>>

\* Player::initialize gets the renderer's answer; a failure stops and joins.
Started ==
    /\ player = "starting" /\ render.answer # None
    /\ IF render.answer
       THEN player' = "up" /\ UNCHANGED stopped
       ELSE player' = "dropping" /\ stopped' = TRUE
    /\ UNCHANGED <<generation, commands, state, pipeline, control, render, mpv, ghosts, bounds>>

\* Drop for Player.
Drop ==
    /\ player = "up" /\ changes < MaxChanges /\ Affordable
    /\ player' = "dropping" /\ stopped' = TRUE
    /\ pipeline' = Invalidate(pipeline)
    /\ changes' = changes + 1
    /\ UNCHANGED <<generation, commands, state, control, render, mpv, ghosts, faults>>

\* Both workers were joined, the renderer first.
Joined ==
    /\ player = "dropping"
    /\ render.at = "ended" /\ control.at = "ended"
    /\ player' = "gone"
    /\ UNCHANGED <<generation, commands, shared, control, render, mpv, ghosts, bounds>>

-----------------------------------------------------------------------------
(* The control worker.  Its batches of operations and of events are bounded, *)
(* so at "loop" it may go on with either.                                   *)

\* control_worker takes an operation and reads the generation under the lock.
TakeOperation ==
    /\ control.at = "loop" /\ ~stopped /\ commands # << >>
    /\ LET op == Head(commands)
       IN control' = IF Stale(op.generation) THEN control
                     ELSE [control EXCEPT !.at = "enqueue", !.op = op]
    /\ commands' = Tail(commands)
    /\ UNCHANGED <<player, generation, shared, render, mpv, ghosts, bounds>>

\* execute_operation hands libmpv its commands; a refusal drops the rest of them,
\* the loadfile in any case.
Enqueue ==
    /\ control.at = "enqueue"
    /\ \/ /\ core' = [core EXCEPT !.queue = Append(@, control.op)]
          /\ control' = Resting
          /\ UNCHANGED faults
       \/ /\ faults < MaxFaults /\ Affordable /\ faults' = faults + 1
          /\ control' = [control EXCEPT !.at = "op_error"]
          /\ UNCHANGED core
    /\ UNCHANGED <<ui, shared, render, events, ghosts, changes>>

\* operation_error: obsolete work may not end a replacement's start-up.
OperationError ==
    /\ control.at = "op_error"
    /\ IF stopped \/ Stale(control.op.generation)
       THEN UNCHANGED <<state, pipeline>>
       ELSE ApplyOperationError(control.op.kind)
    /\ control' = Resting
    /\ UNCHANGED <<ui, stopped, render, mpv, ghosts, bounds>>

\* What an event does to the state and the pipeline.
Applied(event) ==
    CASE event.id = "start" ->
           /\ state' = [state EXCEPT !.loading = TRUE, !.file_loaded = FALSE,
                                     !.media_stopped = FALSE]
           /\ pipeline' = Clear(pipeline)
           /\ UNCHANGED stopped
      [] event.id = "end" ->
           /\ state' = [state EXCEPT !.loading = FALSE, !.media_stopped = TRUE]
           /\ pipeline' = Clear(pipeline)
           /\ UNCHANGED stopped
      [] event.id = "loaded" ->
           /\ state' = [state EXCEPT !.file_loaded = TRUE, !.loading = FALSE]
           /\ UNCHANGED <<stopped, pipeline>>
      [] event.id = "video" ->
           /\ pipeline' = [Invalidate(pipeline) EXCEPT !.ready = TRUE, !.absent = FALSE]
           /\ UNCHANGED <<stopped, state>>
      [] event.id = "reply_error" ->
           /\ IF Stale(event.generation) THEN UNCHANGED <<state, pipeline>>
              ELSE ApplyOperationError(event.kind)
           /\ UNCHANGED stopped
      [] event.id = "shutdown" ->
           /\ stopped' = TRUE
           /\ state' = [state EXCEPT !.loading = FALSE]
           /\ UNCHANGED pipeline
      [] OTHER -> UNCHANGED shared

\* Which events make the worker ask libmpv what it decodes.
Refreshes(event) ==
    /\ event.id \in {"loaded", "video", "look"}
    /\ ~state'.loading /\ ~state'.media_stopped

\* control_worker waits for an event and handles it under the state lock, unless
\* the player stopped.  What comes between the two can only be a load, which
\* might as well have come before, or a stop, after which no event matters.
HandleEvent ==
    /\ control.at = "loop" /\ ~stopped /\ events # << >>
    /\ LET event == Head(events)
       IN /\ Applied(event)
          /\ control' = IF Refreshes(event) THEN [control EXCEPT !.at = "sample"] ELSE control
          /\ heard' = (heard \/ event.id \in {"start", "loaded", "end"})
    /\ events' = Tail(events)
    /\ UNCHANGED <<ui, render, core, overtaken, bounds>>

\* refresh_decode_evidence reads the generation and then queries libmpv, under no
\* lock.  An invalidation between the two makes the generation a stale one, as it
\* does after them, and libmpv announces what changes meanwhile.
SampleEvidence ==
    /\ control.at = "sample"
    /\ pipeline' = Hold(pipeline, "sampled")
    /\ control' = [control EXCEPT !.at = "publish", !.look = core.look]
    /\ UNCHANGED <<ui, stopped, state, render, mpv, ghosts, bounds>>

\* Its answer, published for the generation it was asked for.
PublishEvidence ==
    /\ control.at = "publish"
    /\ pipeline' = Release(IF stopped THEN pipeline
                           ELSE UpdateEvidence(pipeline, control.look), "sampled")
    /\ overtaken' = ("sampled" \notin pipeline.current)
    /\ control' = Resting
    /\ UNCHANGED <<ui, stopped, state, render, mpv, heard, bounds>>

\* control_worker returns once the flag is up.
ControlEnds ==
    /\ control.at = "loop" /\ stopped
    /\ control' = [control EXCEPT !.at = "ended"]
    /\ UNCHANGED <<ui, shared, render, mpv, ghosts, bounds>>

-----------------------------------------------------------------------------
(* The render worker.                                                      *)

\* render::run makes the renderer, or fails and publishes why.
RenderStarts ==
    /\ render.at = "starting"
    /\ \/ /\ render' = [render EXCEPT !.at = "loop", !.answer = TRUE]
          /\ UNCHANGED <<stopped, faults>>
       \/ /\ faults < MaxFaults /\ Affordable /\ faults' = faults + 1
          /\ render' = [render EXCEPT !.at = "failing"] /\ stopped' = TRUE
    /\ UNCHANGED <<ui, state, pipeline, control, mpv, ghosts, changes>>

\* One holding of the pipeline lock samples all a frame is judged by.
Snapshot ==
    /\ render.at = "loop" /\ ~stopped
    /\ render' = [render EXCEPT !.at = "qualify",
                    !.snap = [sized |-> Sized(pipeline), ready |-> pipeline.ready,
                              evidence |-> pipeline.evidence]]
    /\ pipeline' = Hold(pipeline, "snapshot")
    /\ UNCHANGED <<ui, stopped, state, control, mpv, ghosts, bounds>>

\* The worker is done with its snapshot, or goes on to draw.
Looked(requested, at) ==
    render' = [render EXCEPT !.at = at, !.requested = requested,
                             !.snap = IF at = "loop" THEN None ELSE @]

\* fail_qualification_if_current: evidence of a replaced source stops nothing.
FailQualification ==
    IF ~stopped /\ "snapshot" \in pipeline.current
    THEN /\ stopped' = TRUE
         /\ state' = Failed(state)
         /\ pipeline' = Invalidate(pipeline)
    ELSE /\ pipeline' = Release(pipeline, "snapshot")
         /\ UNCHANGED <<stopped, state>>

\* Fault: only libmpv asks for frames.
ReadyOnRequest(requested) == requested

\* GpuSchedule::ready: a frame was asked for, or this generation has none yet.
ScheduleReady(requested) == requested \/ "consumed" \notin pipeline.current

\* renderer.update() may tell of a frame while libmpv plays.
Told == IF core.phase = "playing" THEN BOOLEAN ELSE {FALSE}

\* The sampled evidence is judged; a snapshot that is still current is drawn if the
\* schedule asks for it.
Qualify(told) ==
    LET requested == render.requested \/ told
        draws == "snapshot" \in pipeline.current /\ ScheduleReady(requested)
    IN
    /\ render.at = "qualify"
    /\ \/ /\ render.snap.evidence = "bad"
          /\ Looked(requested, "loop")
          /\ FailQualification
       \/ /\ render.snap.evidence # "bad"
          /\ Looked(requested, IF draws THEN "deliver" ELSE "loop")
          /\ pipeline' = IF draws THEN pipeline ELSE Release(pipeline, "snapshot")
          /\ UNCHANGED <<stopped, state>>
    /\ UNCHANGED <<ui, control, mpv, ghosts, bounds>>

\* Evidence still pending five seconds after its first check is a failure too.
EvidenceTimesOut ==
    /\ render.at = "qualify" /\ render.snap.evidence = "pending"
    /\ faults < MaxFaults /\ Affordable /\ faults' = faults + 1
    /\ Looked(render.requested, "loop")
    /\ FailQualification
    /\ UNCHANGED <<ui, control, mpv, ghosts, changes>>

\* gpu.render or gpu.skip, under no lock, fails: that stops the player.
DrawFails ==
    /\ render.at = "deliver"
    /\ faults < MaxFaults /\ Affordable /\ faults' = faults + 1
    /\ render' = [render EXCEPT !.at = "failing"] /\ stopped' = TRUE
    /\ UNCHANGED <<ui, state, pipeline, control, mpv, ghosts, changes>>

\* The frame goes to the mailbox if it is qualified and still of the current
\* generation; either way the request is consumed for the sampled generation.
Deliver ==
    LET s == render.snap
        fits == /\ s.sized /\ s.ready /\ s.evidence = "good"
                /\ "snapshot" \in pipeline.current /\ Sized(pipeline)
        consumed == Pass(pipeline, "snapshot", "consumed")
        filled == IF fits THEN [Hold(Hold(consumed, "frame"), "drawn") EXCEPT !.frame = TRUE]
                  ELSE consumed
    IN
    /\ render.at = "deliver"
    /\ pipeline' = Release(filled, "snapshot")
    /\ render' = [render EXCEPT !.at = "loop", !.snap = None, !.requested = FALSE]
    /\ UNCHANGED <<ui, stopped, state, control, mpv, ghosts, bounds>>

\* fail_render_details: the flag went up first, now the state and the mailbox.
\* A worker that unwinds takes the same way (WorkerExit).  A renderer that failed
\* to start answers initialize after that.
Fail ==
    \/ /\ render.at = "failing"
       /\ render' = [render EXCEPT !.at = "ended",
                                   !.answer = IF @ = None THEN FALSE ELSE @]
       /\ state' = Failed(state) /\ pipeline' = Invalidate(pipeline)
       /\ UNCHANGED <<ui, stopped, control, mpv, ghosts, bounds>>
    \/ /\ control.at = "failing" /\ control' = [control EXCEPT !.at = "ended"]
       /\ state' = Failed(state) /\ pipeline' = Invalidate(pipeline)
       /\ UNCHANGED <<ui, stopped, render, mpv, ghosts, bounds>>

\* The control worker panics; only where it holds no lock.
ControlPanics ==
    /\ control.at \notin {"failing", "ended"} /\ ~stopped
    /\ faults < MaxFaults /\ Affordable /\ faults' = faults + 1
    /\ control' = [Resting EXCEPT !.at = "failing"] /\ stopped' = TRUE
    /\ UNCHANGED <<ui, state, pipeline, render, mpv, ghosts, changes>>

RenderEnds ==
    /\ render.at = "loop" /\ stopped
    /\ render' = [render EXCEPT !.at = "ended"]
    /\ UNCHANGED <<ui, shared, control, mpv, ghosts, bounds>>

-----------------------------------------------------------------------------
(* libmpv.  What it does once the player stopped reaches nobody.            *)

Event(id) == [id |-> id, kind |-> "control", generation |-> None]
ReplyError(op) == [id |-> "reply_error", kind |-> op.kind, generation |-> op.generation]

\* The file in hand is put down.
EndsFile == IF core.phase = "idle" THEN << >> ELSE <<Event("end")>>
Idle == [core EXCEPT !.file = None, !.phase = "idle", !.look = "pending"]

\* The next operation is carried out: all of it, all but one of the resets before a
\* loadfile, or nothing; what is not done is told in a reply.
CoreCommand ==
    /\ ~stopped /\ core.queue # << >>
    /\ LET op == Head(core.queue)
           rest == Tail(core.queue)
           done == IF op.kind = "load" THEN EndsFile \o <<Event("start")>> ELSE EndsFile
           after == IF op.kind = "load"
                    THEN [Idle EXCEPT !.file = op.generation, !.phase = "opening", !.queue = rest]
                    ELSE [Idle EXCEPT !.queue = rest]
       IN \/ /\ core' = after /\ events' = events \o done /\ UNCHANGED faults
          \/ /\ faults < MaxFaults /\ Affordable /\ faults' = faults + 1
             /\ \/ core' = [core EXCEPT !.queue = rest]
                   /\ events' = Append(events, ReplyError(op))
                \/ op.kind = "load" /\ core' = after
                   /\ events' = Append(events, ReplyError(op)) \o done
    /\ UNCHANGED <<ui, shared, control, render, ghosts, changes>>

\* The file opens, with a picture and a decoder, or fails to.
CoreOpens ==
    /\ ~stopped /\ core.phase = "opening"
    /\ \/ \E look \in Looks :
            /\ core' = [core EXCEPT !.phase = "playing", !.look = look]
            /\ events' = events \o <<Event("loaded"), Event("video")>>
            /\ UNCHANGED faults
       \/ /\ faults < MaxFaults /\ Affordable /\ faults' = faults + 1
          /\ core' = Idle /\ events' = events \o EndsFile
    /\ UNCHANGED <<ui, shared, control, render, ghosts, changes>>

\* The decoder's properties change, or the file ends.
CorePlays ==
    /\ ~stopped /\ core.phase = "playing"
    /\ \/ \E look \in Looks \ {core.look} :
            /\ changes < MaxChanges /\ Affordable /\ changes' = changes + 1
            /\ core' = [core EXCEPT !.look = look]
            /\ events' = Append(events, Event("look"))
       \/ core' = Idle /\ events' = events \o EndsFile /\ UNCHANGED changes
    /\ UNCHANGED <<ui, shared, control, render, ghosts, faults>>

\* libmpv shuts down by itself.
CoreShutsDown ==
    /\ ~stopped /\ faults < MaxFaults /\ Affordable /\ faults' = faults + 1
    /\ events' = Append(events, Event("shutdown"))
    /\ UNCHANGED <<ui, shared, control, render, core, ghosts, changes>>

-----------------------------------------------------------------------------
Caller == Load \/ StopMedia \/ Resize \/ TakeGpuFrame \/ Drop
Startup == Started \/ Joined
ControlWorker ==
    \/ Enqueue \/ OperationError \/ SampleEvidence \/ PublishEvidence \/ ControlEnds
RenderWorker ==
    \/ RenderStarts \/ Snapshot \/ (\E told \in Told : Qualify(told)) \/ Deliver \/ RenderEnds
CoreWorks == CoreCommand \/ CoreOpens

Next ==
    \/ Caller \/ Startup
    \/ ControlWorker \/ TakeOperation \/ HandleEvent \/ ControlPanics
    \/ RenderWorker \/ EvidenceTimesOut \/ DrawFails \/ Fail
    \/ CoreWorks \/ CorePlays \/ CoreShutsDown

Spec == Init /\ [][Next]_vars

\* The workers run and are joined, and libmpv works off its commands and opens
\* its file.  The loop takes bounded batches, so neither operations nor events
\* wait for ever.  The caller, the decoder and every fault owe nothing.
FairSpec ==
    /\ Spec
    /\ WF_vars(Startup) /\ WF_vars(ControlWorker) /\ WF_vars(RenderWorker)
    /\ WF_vars(Fail) /\ WF_vars(CoreWorks)
    /\ SF_vars(TakeOperation) /\ SF_vars(HandleEvent)

-----------------------------------------------------------------------------
\* The latest load was not yet handed to libmpv, and no event on any file came.
Pending ==
    /\ ~stopped /\ ~heard /\ generation > 0
    /\ \/ \E i \in DOMAIN commands : commands[i].generation = generation
       \/ control.at = "enqueue" /\ control.op.generation = generation

\* Nothing is on its way between the caller, the worker and libmpv.
Settled ==
    /\ ~stopped /\ control.at = "loop"
    /\ commands = << >> /\ core.queue = << >> /\ events = << >>

(* What the published state says of files: a load that waits is shown as     *)
(* loading, whatever became of the loads before it (load, operation_error,   *)
(* command_reply_error); and once nothing is on its way, "ready" means that  *)
(* libmpv plays, the latest load is ready if it plays, and nothing is shown  *)
(* as loading that libmpv is not opening.                                    *)
TellsTruth ==
    /\ TypeOK
    /\ Pending => state.loading /\ ~state.file_loaded
    /\ Settled =>
        /\ Ready => core.phase = "playing"
        /\ core.phase = "playing" /\ core.file = generation => Ready
        /\ state.loading => core.phase = "opening"

(* A frame a caller can take was qualified by the evidence the pipeline holds *)
(* for its generation, and no player that failed has one; once nothing is on  *)
(* its way and the last answer arrived, that evidence is true of what libmpv  *)
(* decodes (Snapshot to Deliver against load, the events and                  *)
(* refresh_decode_evidence).                                                 *)
FramesQualified ==
    Takeable(pipeline) =>
        /\ pipeline.evidence = "good" /\ pipeline.ready
        /\ ~state.fatal
        /\ Settled /\ ~overtaken => core.phase = "playing" /\ core.look = "good"

(* Every change of what libmpv decodes reaches the pipeline: once nothing is   *)
(* on its way, a ready file's evidence is libmpv's.  (update_decode_evidence   *)
(* and refresh_decode_evidence: "a changed snapshot invalidates the mailbox    *)
(* and forces a render".)                                                     *)
EvidenceFollows == Settled /\ Ready => pipeline.evidence = core.look

(* No load stays "loading" for ever, whichever step of it fails, and a player  *)
(* that stops, for whatever reason, ends both its workers.                     *)
NothingHangs ==
    /\ (state.loading /\ ~stopped) ~> (~state.loading \/ stopped)
    /\ stopped ~> (control.at = "ended" /\ render.at = "ended")

(* A picture that may be shown is drawn in its latest generation, also when    *)
(* libmpv, paused, never announces another frame: no resize, no new evidence   *)
(* and no overtaken frame loses the redraw (GpuSchedule).                      *)
Redrawn ==
    []<>( (~stopped /\ Sized(pipeline) /\ pipeline.ready /\ pipeline.evidence = "good")
            => "drawn" \in pipeline.current )
=============================================================================
