-------------------------- MODULE MpvPlayer_proofs --------------------------
(* For every number of loads, every queue and any number of faults and        *)
(* changes: what the published state says of files is true once nothing is on *)
(* its way and of a load that waits, and a frame that can be taken was        *)
(* qualified by the evidence the pipeline holds.                              *)
EXTENDS MpvPlayer, SequenceTheorems, TLAPS

\* Removing the first element keeps every other one, each once.
LEMMA TailIndices ==
    ASSUME NEW S, NEW s \in Seq(S), s # <<>>
    PROVE  /\ Tail(s) \in Seq(S)
           /\ \A i \in DOMAIN Tail(s) : i + 1 \in DOMAIN s /\ Tail(s)[i] = s[i + 1]
           /\ Head(s) = s[1] /\ 1 \in DOMAIN s
<1>1. Len(s) \in Nat \ {0} /\ DOMAIN s = 1 .. Len(s)
    BY EmptySeq, LenProperties
<1>2. Tail(s) \in Seq(S) /\ Len(Tail(s)) = Len(s) - 1
    BY HeadTailProperties
<1>3. DOMAIN Tail(s) = 1 .. Len(s) - 1
    BY <1>2, LenProperties
<1>4. \A i \in 1 .. Len(s) - 1 : Tail(s)[i] = s[i + 1]
    BY <1>1
<1> QED
    BY <1>1, <1>2, <1>3, <1>4

\* The place of the new element was not one of the old ones.
LEMMA AppendPlace ==
    ASSUME NEW S, NEW s \in Seq(S), NEW e \in S
    PROVE  /\ Append(s, e) \in Seq(S)
           /\ Len(s) + 1 \notin DOMAIN s
           /\ \A i \in DOMAIN Append(s, e) : i \in DOMAIN s \/ i = Len(s) + 1
           /\ \A i \in DOMAIN s : Append(s, e)[i] = s[i]
           /\ Append(s, e)[Len(s) + 1] = e
<1>1. Len(s) \in Nat /\ DOMAIN s = 1 .. Len(s) /\ DOMAIN Append(s, e) = 1 .. Len(s) + 1
    BY AppendProperties, LenProperties
<1> QED
    BY <1>1, AppendProperties

-----------------------------------------------------------------------------
(* Types                                                                    *)

\* The shape of every variable, without its bounds, and what a holder leaves alone.
Pipelines == [current : SUBSET Holders, viewport : BOOLEAN, absent : BOOLEAN,
              ready : BOOLEAN, evidence : Looks \cup {"none"}, frame : BOOLEAN]
Same(p, q) == p.ready = q.ready /\ p.evidence = q.evidence

\* What the pipeline's operators do, field by field.
LEMMA InvalidateIs ==
    ASSUME NEW p \in Pipelines
    PROVE  /\ Invalidate(p) \in Pipelines /\ Invalidate(p).current = {}
                /\ ~Invalidate(p).frame
           /\ Same(Invalidate(p), p)
           /\ Invalidate(p).viewport = p.viewport /\ Invalidate(p).absent = p.absent
BY DEF Pipelines, Invalidate, Same

LEMMA ClearIs ==
    ASSUME NEW p \in Pipelines
    PROVE  /\ Clear(p) \in Pipelines /\ Clear(p).current = {} /\ ~Clear(p).frame
           /\ ~Clear(p).ready /\ Clear(p).evidence = "none"
BY DEF Pipelines, Clear, Invalidate

LEMMA HoldIs ==
    ASSUME NEW p \in Pipelines, NEW h \in Holders
    PROVE  /\ Hold(p, h) \in Pipelines /\ Hold(p, h).current = p.current \cup {h}
           /\ Same(Hold(p, h), p)
BY DEF Pipelines, Hold, Same

LEMMA ReleaseIs ==
    ASSUME NEW p \in Pipelines, NEW h \in Holders
    PROVE  /\ Release(p, h) \in Pipelines /\ Release(p, h).current = p.current \ {h}
           /\ Same(Release(p, h), p)
BY DEF Pipelines, Release, Same

LEMMA UpdateIs ==
    ASSUME NEW p \in Pipelines, NEW look \in Looks
    PROVE  /\ UpdateEvidence(p, look) \in Pipelines
           /\ UpdateEvidence(p, look).ready = p.ready
           /\ "sampled" \notin p.current => UpdateEvidence(p, look) = p
           /\ "sampled" \in p.current => UpdateEvidence(p, look).evidence = look
           /\ \/ UpdateEvidence(p, look) = p
              \/ UpdateEvidence(p, look).current = {} /\ "sampled" \in p.current
<1>1. CASE "sampled" \notin p.current \/ p.evidence = look
    BY <1>1 DEF UpdateEvidence
<1>2. CASE ~("sampled" \notin p.current \/ p.evidence = look)
    <2>1. UpdateEvidence(p, look) = [Invalidate(p) EXCEPT !.evidence = look]
        BY <1>2 DEF UpdateEvidence
    <2>2. Invalidate(p) \in Pipelines /\ Invalidate(p).current = {}
            /\ Same(Invalidate(p), p)
        BY InvalidateIs
    <2> QED
        BY <1>2, <2>1, <2>2 DEF Pipelines, Same
<1> QED
    BY <1>1, <1>2

States == [loading : BOOLEAN, file_loaded : BOOLEAN, media_stopped : BOOLEAN, fatal : BOOLEAN]
Controls == [at : {"loop", "enqueue", "op_error", "sample", "publish", "failing", "ended"},
             op : Operations \cup {None}, look : Looks \cup {None}]
Renders == [at : {"starting", "loop", "qualify", "deliver", "failing", "ended"},
            snap : Snapshots \cup {None}, requested : BOOLEAN, answer : BOOLEAN \cup {None}]
Cores == [file : Loads \cup {None}, phase : {"idle", "opening", "playing"},
          look : Looks, queue : Seq(Operations)]
Counted == player \in {"starting", "up", "dropping", "gone"} /\ generation \in 0..MaxLoads
           /\ faults \in 0..MaxFaults /\ changes \in 0..MaxChanges
Flags == stopped \in BOOLEAN /\ heard \in BOOLEAN /\ overtaken \in BOOLEAN
Queued == commands \in Seq(Operations) /\ Len(commands) <= QueueLimit
TypeInv == Counted /\ Flags /\ Queued /\ state \in States /\ pipeline \in Pipelines
  /\ control \in Controls
            /\ render \in Renders /\ core \in Cores /\ events \in Seq(Events)

\* The parts together are the model's type.
LEMMA TypeInvIs == TypeInv <=> TypeOK
BY DEF TypeInv, TypeOK, Counted, Flags, Queued, States, Pipelines, Controls, Renders, Cores

-----------------------------------------------------------------------------
(* Who changes what                                                         *)

\* Which steps change which variable.
LEMMA PlayerMoves ==
    ASSUME Next
    PROVE  Drop \/ Started \/ Joined \/ UNCHANGED player
BY DEF Next, Caller, Load, StopMedia, Resize, TakeGpuFrame, Startup, ControlWorker, Enqueue,
           OperationError, SampleEvidence, PublishEvidence, ControlEnds, TakeOperation,
           HandleEvent, ControlPanics, RenderWorker, RenderStarts, Snapshot, Qualify,
             Deliver,
           RenderEnds, EvidenceTimesOut, DrawFails, Fail, CoreWorks, CoreCommand, CoreOpens,
           CorePlays, CoreShutsDown, ui, shared, mpv, ghosts, bounds

LEMMA GenerationMoves ==
    ASSUME Next
    PROVE  Load \/ UNCHANGED generation
BY DEF Next, Caller, StopMedia, Resize, TakeGpuFrame, Drop, Startup, Started, Joined,
           ControlWorker, Enqueue, OperationError, SampleEvidence, PublishEvidence,
             ControlEnds,
           TakeOperation, HandleEvent, ControlPanics, RenderWorker, RenderStarts, Snapshot,
           Qualify, Deliver, RenderEnds, EvidenceTimesOut, DrawFails, Fail, CoreWorks,
             CoreCommand,
           CoreOpens, CorePlays, CoreShutsDown, ui, shared, mpv, ghosts, bounds

LEMMA CommandsMove ==
    ASSUME Next
    PROVE  Load \/ StopMedia \/ TakeOperation \/ UNCHANGED commands
BY DEF Next, Caller, Resize, TakeGpuFrame, Drop, Startup, Started, Joined, ControlWorker,
           Enqueue, OperationError, SampleEvidence, PublishEvidence, ControlEnds,
             HandleEvent,
           ControlPanics, RenderWorker, RenderStarts, Snapshot, Qualify, Deliver,
             RenderEnds,
           EvidenceTimesOut, DrawFails, Fail, CoreWorks, CoreCommand, CoreOpens, CorePlays,
           CoreShutsDown, ui, shared, mpv, ghosts, bounds

LEMMA StoppedMoves ==
    ASSUME Next
    PROVE  Started \/ Drop \/ HandleEvent \/ RenderStarts
             \/ (\E told \in Told : Qualify(told)) \/ EvidenceTimesOut \/ DrawFails
             \/ ControlPanics \/ UNCHANGED stopped
BY DEF Next, Caller, Load, StopMedia, Resize, TakeGpuFrame, Startup, Joined, ControlWorker,
           Enqueue, OperationError, SampleEvidence, PublishEvidence, ControlEnds,
             TakeOperation,
           RenderWorker, Snapshot, Deliver, RenderEnds, Fail, CoreWorks, CoreCommand,
           CoreOpens, CorePlays, CoreShutsDown, ui, shared, mpv, ghosts, bounds

LEMMA HeardMoves ==
    ASSUME Next
    PROVE  Load \/ HandleEvent \/ UNCHANGED heard
BY DEF Next, Caller, StopMedia, Resize, TakeGpuFrame, Drop, Startup, Started, Joined,
           ControlWorker, Enqueue, OperationError, SampleEvidence, PublishEvidence,
             ControlEnds,
           TakeOperation, ControlPanics, RenderWorker, RenderStarts, Snapshot, Qualify,
             Deliver,
           RenderEnds, EvidenceTimesOut, DrawFails, Fail, CoreWorks, CoreCommand, CoreOpens,
           CorePlays, CoreShutsDown, ui, shared, mpv, ghosts, bounds

LEMMA OvertakenMoves ==
    ASSUME Next
    PROVE  PublishEvidence \/ UNCHANGED overtaken
BY DEF Next, Caller, Load, StopMedia, Resize, TakeGpuFrame, Drop, Startup, Started, Joined,
           ControlWorker, Enqueue, OperationError, SampleEvidence, ControlEnds,
             TakeOperation,
           HandleEvent, ControlPanics, RenderWorker, RenderStarts, Snapshot, Qualify,
             Deliver,
           RenderEnds, EvidenceTimesOut, DrawFails, Fail, CoreWorks, CoreCommand, CoreOpens,
           CorePlays, CoreShutsDown, ui, shared, mpv, ghosts, bounds

LEMMA CoreMoves ==
    ASSUME Next
    PROVE  Enqueue \/ CoreCommand \/ CoreOpens \/ CorePlays \/ UNCHANGED core
BY DEF Next, Caller, Load, StopMedia, Resize, TakeGpuFrame, Drop, Startup, Started, Joined,
           ControlWorker, OperationError, SampleEvidence, PublishEvidence, ControlEnds,
           TakeOperation, HandleEvent, ControlPanics, RenderWorker, RenderStarts, Snapshot,
           Qualify, Deliver, RenderEnds, EvidenceTimesOut, DrawFails, Fail, CoreWorks,
           CoreShutsDown, ui, shared, mpv, ghosts, bounds

LEMMA EventsMove ==
    ASSUME Next
    PROVE  HandleEvent \/ CoreCommand \/ CoreOpens \/ CorePlays \/ CoreShutsDown
             \/ UNCHANGED events
BY DEF Next, Caller, Load, StopMedia, Resize, TakeGpuFrame, Drop, Startup, Started, Joined,
           ControlWorker, Enqueue, OperationError, SampleEvidence, PublishEvidence,
             ControlEnds,
           TakeOperation, ControlPanics, RenderWorker, RenderStarts, Snapshot, Qualify,
             Deliver,
           RenderEnds, EvidenceTimesOut, DrawFails, Fail, CoreWorks, ui, shared, mpv,
             ghosts, bounds

LEMMA ControlMoves ==
    ASSUME Next
    PROVE  TakeOperation \/ Enqueue \/ OperationError \/ HandleEvent \/ SampleEvidence
             \/ PublishEvidence \/ ControlEnds \/ Fail \/ ControlPanics \/ UNCHANGED control
BY DEF Next, Caller, Load, StopMedia, Resize, TakeGpuFrame, Drop, Startup, Started, Joined,
           ControlWorker, RenderWorker, RenderStarts, Snapshot, Qualify, Deliver,
             RenderEnds,
           EvidenceTimesOut, DrawFails, CoreWorks, CoreCommand, CoreOpens, CorePlays,
           CoreShutsDown, ui, shared, mpv, ghosts, bounds

LEMMA RenderMoves ==
    ASSUME Next
    PROVE  RenderStarts \/ Snapshot \/ (\E told \in Told : Qualify(told))
             \/ EvidenceTimesOut \/ DrawFails \/ Deliver \/ Fail \/ RenderEnds
             \/ UNCHANGED render
BY DEF Next, Caller, Load, StopMedia, Resize, TakeGpuFrame, Drop, Startup, Started, Joined,
           ControlWorker, Enqueue, OperationError, SampleEvidence, PublishEvidence,
             ControlEnds,
           TakeOperation, HandleEvent, ControlPanics, RenderWorker, CoreWorks,
           CoreCommand, CoreOpens, CorePlays, CoreShutsDown, ui, shared, mpv, ghosts, bounds

LEMMA StateMoves ==
    ASSUME Next
    PROVE  Load \/ OperationError \/ HandleEvent \/ (\E told \in Told : Qualify(told))
             \/ EvidenceTimesOut \/ Fail \/ UNCHANGED state
BY DEF Next, Caller, StopMedia, Resize, TakeGpuFrame, Drop, Startup, Started, Joined,
           ControlWorker, Enqueue, SampleEvidence, PublishEvidence, ControlEnds,
             TakeOperation,
           ControlPanics, RenderWorker, RenderStarts, Snapshot, Deliver, RenderEnds,
           DrawFails, CoreWorks, CoreCommand, CoreOpens, CorePlays, CoreShutsDown, ui,
             shared, mpv,
           ghosts, bounds

LEMMA PipelineMoves ==
    ASSUME Next
    PROVE  Load \/ Resize \/ TakeGpuFrame \/ Drop \/ OperationError \/ HandleEvent
             \/ SampleEvidence \/ PublishEvidence \/ Snapshot
             \/ (\E told \in Told : Qualify(told)) \/ EvidenceTimesOut \/ Deliver
             \/ Fail \/ UNCHANGED pipeline
BY DEF Next, Caller, StopMedia, Startup, Started, Joined, ControlWorker, Enqueue,
         ControlEnds,
           TakeOperation, ControlPanics, RenderWorker, RenderStarts, RenderEnds,
           DrawFails, CoreWorks, CoreCommand, CoreOpens, CorePlays, CoreShutsDown, ui,
             shared, mpv,
           ghosts, bounds

LEMMA FaultsMove ==
    ASSUME Next
    PROVE  (faults' = faults + 1 /\ faults < MaxFaults) \/ UNCHANGED faults
BY DEF Next, Caller, Load, StopMedia, Resize, TakeGpuFrame, Drop, Startup, Started, Joined,
           ControlWorker, Enqueue, OperationError, SampleEvidence, PublishEvidence,
             ControlEnds,
           TakeOperation, HandleEvent, ControlPanics, RenderWorker, RenderStarts, Snapshot,
           Qualify, Deliver, RenderEnds, EvidenceTimesOut, DrawFails, Fail, CoreWorks,
             CoreCommand,
           CoreOpens, CorePlays, CoreShutsDown, ui, shared, mpv, ghosts, bounds

LEMMA ChangesMove ==
    ASSUME Next
    PROVE  (changes' = changes + 1 /\ changes < MaxChanges) \/ UNCHANGED changes
BY DEF Next, Caller, Load, StopMedia, Resize, TakeGpuFrame, Drop, Startup, Started, Joined,
           ControlWorker, Enqueue, OperationError, SampleEvidence, PublishEvidence,
             ControlEnds,
           TakeOperation, HandleEvent, ControlPanics, RenderWorker, RenderStarts, Snapshot,
           Qualify, Deliver, RenderEnds, EvidenceTimesOut, DrawFails, Fail, CoreWorks,
             CoreCommand,
           CoreOpens, CorePlays, CoreShutsDown, ui, shared, mpv, ghosts, bounds

-----------------------------------------------------------------------------
(* libmpv and its stream                                                    *)

\* What libmpv puts at the end of its stream, event by event.
LEMMA Glue ==
    ASSUME NEW S, NEW s \in Seq(S), NEW a \in S, NEW b \in S
    PROVE  /\ s \o << >> = s
           /\ s \o <<a>> = Append(s, a)
           /\ s \o <<a, b>> = Append(Append(s, a), b)
           /\ << >> \o <<a>> = <<a>>
           /\ s \o (<<a>> \o <<b>>) = Append(Append(s, a), b)
<1>1. s \o << >> = s /\ << >> \o <<a>> = <<a>>
    BY ConcatEmptySeq
<1>2. s \o <<a>> = Append(s, a)
    OBVIOUS
<1>3. s \o <<a, b>> = Append(Append(s, a), b)
    OBVIOUS
<1>4. s \o (<<a>> \o <<b>>) = Append(Append(s, a), b)
    <2>1. <<a>> \in Seq(S) /\ <<b>> \in Seq(S) /\ Append(s, a) \in Seq(S)
        BY AppendProperties
    <2>2. s \o (<<a>> \o <<b>>) = (s \o <<a>>) \o <<b>>
        BY <2>1, ConcatAssociative
    <2> QED
        BY <1>2, <2>1, <2>2, AppendIsConcat
<1> QED
    BY <1>1, <1>2, <1>3, <1>4

\* The stream after a file is put down, and the outcomes of a command.
EndedBy(ev) == IF core.phase = "idle" THEN ev ELSE Append(ev, Event("end"))
Opening(op) == [Idle EXCEPT !.file = op.generation, !.phase = "opening", !.queue = Tail(core.queue)]
CommandIs(op) ==
    \/ op.kind = "load" /\ core' = Opening(op)
         /\ events' = Append(EndedBy(events), Event("start"))
    \/ op.kind # "load" /\ core' = [Idle EXCEPT !.queue = Tail(core.queue)]
         /\ events' = EndedBy(events)
    \/ core' = [core EXCEPT !.queue = Tail(core.queue)]
         /\ events' = Append(events, ReplyError(op))
    \/ op.kind = "load" /\ core' = Opening(op)
       /\ events' = Append(EndedBy(Append(events, ReplyError(op))), Event("start"))

\* An event of a file names no load.
LEMMA EventIs ==
    ASSUME NEW id \in {"start", "loaded", "end", "video", "look", "shutdown"}
    PROVE  Event(id) \in Events /\ Event(id).id = id /\ Event(id).generation = None
             /\ Event(id).kind = "control"
BY DEF Event, Events

\* A reply names the load it is about.
LEMMA ReplyIs ==
    ASSUME NEW op \in Operations
    PROVE  ReplyError(op) \in Events /\ ReplyError(op).id = "reply_error"
           /\ ReplyError(op).generation = op.generation /\ ReplyError(op).kind = op.kind
BY DEF ReplyError, Operations, Events

\* Putting the file down adds at most one event.
LEMMA EndedIs ==
    ASSUME NEW ev \in Seq(Events)
    PROVE  EndedBy(ev) \in Seq(Events) /\ ev \o EndsFile = EndedBy(ev)
           /\ ev \o (EndsFile \o <<Event("start")>>) = Append(EndedBy(ev), Event("start"))
<1>1. Event("end") \in Events /\ Event("start") \in Events
    BY EventIs
<1>2. CASE core.phase = "idle"
    BY <1>1, <1>2, Glue DEF EndedBy, EndsFile
<1>3. CASE core.phase # "idle"
    BY <1>1, <1>3, Glue, AppendProperties DEF EndedBy, EndsFile
<1> QED
    BY <1>2, <1>3

\* The four outcomes of carrying out a command.
LEMMA CoreCommandIs ==
    ASSUME TypeInv, CoreCommand
    PROVE  /\ core.queue \in Seq(Operations) /\ core.queue # << >>
           /\ Head(core.queue) \in Operations /\ Tail(core.queue) \in Seq(Operations)
           /\ CommandIs(Head(core.queue))
<1>1. core.queue \in Seq(Operations) /\ core.queue # << >>
    BY DEF TypeInv, Cores, CoreCommand
<1>2. Head(core.queue) \in Operations /\ Tail(core.queue) \in Seq(Operations)
    BY <1>1, TailIndices, HeadTailProperties
<1>3. events \in Seq(Events) /\ Append(events, ReplyError(Head(core.queue))) \in Seq(Events)
    BY <1>2, ReplyIs, AppendProperties DEF TypeInv
<1>4. /\ events \o EndsFile = EndedBy(events)
      /\ events \o (EndsFile \o <<Event("start")>>) = Append(EndedBy(events), Event("start"))
      /\ Append(events, ReplyError(Head(core.queue))) \o (EndsFile \o <<Event("start")>>)
            = Append(EndedBy(Append(events, ReplyError(Head(core.queue)))), Event("start"))
    BY <1>3, EndedIs
<1> QED
    BY <1>1, <1>2, <1>4 DEF CoreCommand, CommandIs, Opening

\* A file opens with its picture, or is put down.
LEMMA CoreOpensIs ==
    ASSUME TypeInv, CoreOpens
    PROVE  \/ /\ \E look \in Looks : core' = [core EXCEPT !.phase = "playing", !.look = look]
              /\ events' = Append(Append(events, Event("loaded")), Event("video"))
           \/ core' = Idle /\ events' = EndedBy(events)
<1>1. events \in Seq(Events) /\ Event("loaded") \in Events /\ Event("video") \in Events
    BY EventIs DEF TypeInv
<1>2. events \o <<Event("loaded"), Event("video")>>
        = Append(Append(events, Event("loaded")), Event("video"))
    BY <1>1, Glue
<1>3. events \o EndsFile = EndedBy(events)
    BY <1>1, EndedIs
<1> QED
    BY <1>2, <1>3 DEF CoreOpens

\* What a playing file does.
LEMMA CorePlaysIs ==
    ASSUME TypeInv, CorePlays
    PROVE  \/ /\ \E look \in Looks : core' = [core EXCEPT !.look = look]
              /\ events' = Append(events, Event("look"))
           \/ core' = Idle /\ events' = EndedBy(events)
BY EndedIs DEF CorePlays, TypeInv

-----------------------------------------------------------------------------
(* What the workers hold, and types                                         *)

\* What the workers hold where they stand.
Holding ==
    /\ control.at \in {"enqueue", "op_error"} => control.op \in Operations
    /\ control.at = "publish" => control.look \in Looks
Judging == render.at \in {"qualify", "deliver"} => render.snap \in Snapshots
Failing == control.at = "failing" \/ render.at = "failing" => stopped
Opened == core.phase = "idle" <=> core.file = None
Carried == control.at \in {"enqueue", "op_error"}

\* Work named after a load asks for a load, one that was made; only a reply names one.
Proper(x, g) ==
    /\ x.generation # None <=> x.kind = "load"
    /\ x.generation # None => x.generation <= g
AllProper(seq, g) == \A i \in DOMAIN seq : Proper(seq[i], g)
Replies(ev) == \A i \in DOMAIN ev : ev[i].kind = "load" => ev[i].id = "reply_error"
Naming ==
    /\ AllProper(commands, generation) /\ AllProper(core.queue, generation)
    /\ AllProper(events, generation) /\ Replies(events)
    /\ Carried => Proper(control.op, generation)
    /\ core.file # None => core.file <= generation

\* The control worker keeps its type and what it holds.
LEMMA ControlType ==
    ASSUME MpvAssumption, TypeInv, Holding, Next
    PROVE  control' \in Controls /\ Holding'
<1> USE DEF TypeInv, Controls, Holding, Resting
<1>1. CASE TakeOperation
    <2>1. Head(commands) \in Operations
        BY <1>1, TailIndices, HeadTailProperties DEF TakeOperation, Queued
    <2> QED
        BY <1>1, <2>1 DEF TakeOperation
<1>2. CASE SampleEvidence
    BY <1>2 DEF SampleEvidence, Cores
<1>3. CASE Enqueue \/ OperationError \/ PublishEvidence \/ ControlEnds \/ Fail
             \/ ControlPanics
    BY <1>3 DEF Enqueue, OperationError, PublishEvidence, ControlEnds, Fail, ControlPanics
<1>4. CASE HandleEvent
    BY <1>4 DEF HandleEvent
<1>5. CASE UNCHANGED control
    BY <1>5
<1> QED
    BY <1>1, <1>2, <1>3, <1>4, <1>5, ControlMoves

\* The render worker keeps its type and its snapshot.
LEMMA RenderType ==
    ASSUME MpvAssumption, TypeInv, Judging, Next
    PROVE  render' \in Renders /\ Judging'
<1> USE DEF TypeInv, Renders, Judging, Looked
<1>1. CASE Snapshot
    <2>1. [sized |-> Sized(pipeline), ready |-> pipeline.ready, evidence |-> pipeline.evidence]
            \in Snapshots
        BY DEF Snapshots, Pipelines, Sized
    <2> QED
        BY <1>1, <2>1 DEF Snapshot
<1>2. CASE \E told \in Told : Qualify(told)
    <2>1. PICK told \in BOOLEAN : Qualify(told)
        BY <1>2 DEF Told
    <2>2. (render.requested \/ told) \in BOOLEAN
        OBVIOUS
    <2>3. \E requested \in BOOLEAN, at \in {"loop", "deliver"} :
            render.at = "qualify" /\ Looked(requested, at)
        BY <2>1, <2>2 DEF Qualify
    <2> QED
        BY <2>3
<1>3. CASE EvidenceTimesOut
    BY <1>3 DEF EvidenceTimesOut
<1>4. CASE RenderStarts \/ DrawFails \/ Deliver \/ Fail \/ RenderEnds
    BY <1>4 DEF RenderStarts, DrawFails, Deliver, Fail, RenderEnds
<1>5. CASE UNCHANGED render
    BY <1>5
<1> QED
    BY <1>1, <1>2, <1>3, <1>4, <1>5, RenderMoves

\* libmpv keeps its type, and has a file unless it is idle.
LEMMA CoreType ==
    ASSUME MpvAssumption, TypeInv, Holding, Naming, Opened, Next
    PROVE  core' \in Cores /\ Opened'
<1> USE DEF TypeInv, Cores, Opened, Idle, Looks
<1>1. CASE Enqueue
    <2>1. control.op \in Operations
        BY <1>1 DEF Enqueue, Holding
    <2>2. Append(core.queue, control.op) \in Seq(Operations)
        BY <2>1, AppendProperties
    <2> QED
        BY <1>1, <2>2 DEF Enqueue
<1>2. CASE CoreCommand
    <2> DEFINE op == Head(core.queue)
    <2>1. op \in Operations /\ Tail(core.queue) \in Seq(Operations) /\ CommandIs(op)
        BY <1>2, CoreCommandIs
    <2>2. op.generation \in Loads \cup {None}
        BY <2>1 DEF Operations
    <2>3. op.kind = "load" => op.generation # None
        BY <1>2, <2>1, TailIndices DEF CoreCommand, Naming, AllProper, Proper
    <2> HIDE DEF op
    <2>4. CASE op.kind = "load" /\ core' = Opening(op)
        BY <2>1, <2>2, <2>3, <2>4 DEF Opening
    <2>5. CASE core' = [Idle EXCEPT !.queue = Tail(core.queue)]
                 \/ core' = [core EXCEPT !.queue = Tail(core.queue)]
        BY <2>1, <2>5 DEF Looks
    <2> QED
        BY <2>1, <2>4, <2>5 DEF CommandIs
<1>3. CASE CoreOpens \/ CorePlays
    BY <1>3 DEF CoreOpens, CorePlays
<1>4. CASE UNCHANGED core
    BY <1>4
<1> QED
    BY <1>1, <1>2, <1>3, <1>4, CoreMoves

\* The published state keeps its type.
LEMMA StateType ==
    ASSUME TypeInv, Next
    PROVE  state' \in States
<1> USE DEF TypeInv, States
<1>1. CASE Load \/ OperationError \/ EvidenceTimesOut \/ Fail
             \/ \E told \in Told : Qualify(told)
    BY <1>1 DEF Load, OperationError, ApplyOperationError, EvidenceTimesOut, Qualify,
                FailQualification, Failed, Fail
<1>2. CASE HandleEvent
    BY <1>2 DEF HandleEvent, Applied, ApplyOperationError, shared
<1>3. CASE UNCHANGED state
    BY <1>3
<1> QED
    BY <1>1, <1>2, <1>3, StateMoves

\* The pipeline keeps its type.
LEMMA PipelineType ==
    ASSUME TypeInv, Holding, Next
    PROVE  pipeline' \in Pipelines
<1> USE DEF TypeInv, Holders
<1>1. CASE Load \/ Drop \/ Fail
    BY <1>1, ClearIs, InvalidateIs DEF Load, Drop, Fail, shared
<1>2. CASE Resize
    <2>1. [pipeline EXCEPT !.viewport = ~@] \in Pipelines
        BY DEF Pipelines
    <2> QED
        BY <1>2, <2>1, InvalidateIs DEF Resize
<1>3. CASE TakeGpuFrame
    <2>1. Release(pipeline, "frame") \in Pipelines
        BY ReleaseIs
    <2> QED
        BY <1>3, <2>1 DEF TakeGpuFrame, Pipelines
<1>4. CASE OperationError
    BY <1>4, ClearIs DEF OperationError, ApplyOperationError
<1>5. CASE HandleEvent
    <2>1. Invalidate(pipeline) \in Pipelines /\ Clear(pipeline) \in Pipelines
        BY InvalidateIs, ClearIs
    <2>2. [Invalidate(pipeline) EXCEPT !.ready = TRUE, !.absent = FALSE] \in Pipelines
        BY <2>1 DEF Pipelines
    <2> QED
        BY <1>5, <2>1, <2>2 DEF HandleEvent, Applied, ApplyOperationError, shared
<1>6. CASE SampleEvidence \/ Snapshot
    BY <1>6, HoldIs DEF SampleEvidence, Snapshot
<1>7. CASE PublishEvidence
    <2>1. UpdateEvidence(pipeline, control.look) \in Pipelines
        BY <1>7, UpdateIs DEF PublishEvidence, Holding
    <2> QED
        BY <1>7, <2>1, ReleaseIs DEF PublishEvidence
<1>8. CASE EvidenceTimesOut \/ \E told \in Told : Qualify(told)
    BY <1>8, ReleaseIs, InvalidateIs DEF EvidenceTimesOut, Qualify, FailQualification
<1>9. CASE Deliver
    <2>1. Pass(pipeline, "snapshot", "consumed") \in Pipelines
        BY HoldIs, ReleaseIs DEF Pass
    <2>2. ASSUME NEW p \in Pipelines
          PROVE  [Hold(Hold(p, "frame"), "drawn") EXCEPT !.frame = TRUE] \in Pipelines
        <3>1. Hold(Hold(p, "frame"), "drawn") \in Pipelines
            BY HoldIs
        <3> QED
            BY <3>1 DEF Pipelines
    <2> QED
        BY <1>9, <2>1, <2>2, ReleaseIs DEF Deliver
<1>10. CASE UNCHANGED pipeline
    BY <1>10
<1> QED
    BY <1>1, <1>2, <1>3, <1>4, <1>5, <1>6, <1>7, <1>8, <1>9, <1>10, PipelineMoves

\* The counters keep their bounds.
LEMMA CountedType ==
    ASSUME MpvAssumption, TypeInv, Next
    PROVE  Counted'
<1> USE DEF TypeInv, Counted, MpvAssumption
<1>1. generation' \in 0..MaxLoads
    <2>1. CASE Load
        BY <2>1 DEF Load
    <2>2. CASE UNCHANGED generation
        BY <2>2
    <2> QED
        BY <2>1, <2>2, GenerationMoves
<1>2. player' \in {"starting", "up", "dropping", "gone"}
    BY PlayerMoves DEF Drop, Started, Joined
<1>3. faults' \in 0..MaxFaults
    BY FaultsMove
<1>4. changes' \in 0..MaxChanges
    BY ChangesMove
<1> QED
    BY <1>1, <1>2, <1>3, <1>4

\* A player that stopped stays stopped.
LEMMA FlagsType ==
    ASSUME TypeInv, Next
    PROVE  Flags' /\ (stopped => stopped')
<1> USE DEF TypeInv, Flags
<1>1. stopped' \in BOOLEAN /\ (stopped => stopped')
    <2>1. CASE HandleEvent
        BY <2>1 DEF HandleEvent, Applied, shared
    <2>2. CASE Started \/ Drop \/ RenderStarts \/ EvidenceTimesOut \/ DrawFails
                 \/ ControlPanics
               \/ \E told \in Told : Qualify(told)
        BY <2>2 DEF Started, Drop, RenderStarts, EvidenceTimesOut, DrawFails, ControlPanics,
                    Qualify, FailQualification
    <2> QED
        BY <2>1, <2>2, StoppedMoves
<1>2. heard' \in BOOLEAN
    BY HeardMoves DEF Load, HandleEvent
<1>3. overtaken' \in BOOLEAN
    BY OvertakenMoves DEF PublishEvidence
<1> QED
    BY <1>1, <1>2, <1>3

\* The queue of operations keeps its bound.
LEMMA CommandsType ==
    ASSUME MpvAssumption, TypeInv, Next
    PROVE  Queued'
<1> USE DEF TypeInv, Counted, Queued, MpvAssumption
<1>1. CASE Load \/ StopMedia
    <2>1. PICK op \in Operations : commands' = Append(commands, op)
            /\ Len(commands) < QueueLimit
        BY <1>1 DEF Load, StopMedia, Operations, Loads
    <2> QED
        BY <2>1, AppendProperties
<1>2. CASE TakeOperation
    BY <1>2, TailIndices, HeadTailProperties DEF TakeOperation
<1>3. CASE UNCHANGED commands
    BY <1>3
<1> QED
    BY <1>1, <1>2, <1>3, CommandsMove

\* Events are appended one by one.
LEMMA EventsType ==
    ASSUME MpvAssumption, TypeInv, Naming, Next
    PROVE  events' \in Seq(Events)
<1> USE DEF TypeInv
<1>1. CASE HandleEvent
    BY <1>1, TailIndices DEF HandleEvent
<1>2. \A ev \in Seq(Events) : EndedBy(ev) \in Seq(Events)
    BY EndedIs
<1>6. \A ev \in Seq(Events) : \A e \in Events : Append(ev, e) \in Seq(Events)
    BY AppendProperties
<1>7. \A id \in {"start", "loaded", "video", "look", "shutdown"} : Event(id) \in Events
    BY EventIs
<1>3. CASE CoreCommand
    <2>1. Head(core.queue) \in Operations /\ CommandIs(Head(core.queue))
        BY <1>3, CoreCommandIs
    <2>2. ReplyError(Head(core.queue)) \in Events /\ Event("start") \in Events
        BY <2>1, ReplyIs, EventIs
    <2> QED
        BY <1>2, <1>6, <2>1, <2>2 DEF CommandIs
<1>4. CASE CoreOpens \/ CorePlays
    <2>1. \/ events' = Append(Append(events, Event("loaded")), Event("video"))
          \/ events' = EndedBy(events)
          \/ events' = Append(events, Event("look"))
        BY <1>4, CoreOpensIs, CorePlaysIs
    <2> QED
        BY <1>2, <1>6, <1>7, <2>1
<1>8. CASE CoreShutsDown
    BY <1>6, <1>7, <1>8 DEF CoreShutsDown
<1>5. CASE UNCHANGED events
    BY <1>5
<1> QED
    BY <1>1, <1>3, <1>4, <1>5, <1>8, EventsMove

-----------------------------------------------------------------------------
(* Where the latest load is                                                 *)

\* A queue has work of a load, and has it once; the worker holds it; the latest load
\* is in one place, and once it is with libmpv it is not also its file.
Has(seq, g) == \E i \in DOMAIN seq : seq[i].generation = g
Once(seq, g) == \A i, j \in DOMAIN seq : seq[i].generation = g /\ seq[j].generation = g
  => i = j
Held == Carried /\ control.op.generation = generation
Single ==
    /\ Once(commands, generation) /\ Once(core.queue, generation)
    /\ Has(commands, generation) => ~Held
    /\ Has(commands, generation) \/ Held =>
         ~Has(core.queue, generation) /\ ~Has(events, generation)
    /\ Has(commands, generation) \/ Held \/ Has(core.queue, generation)
         => core.file # generation

\* Taking the first element takes its load away, if that was there once.
LEMMA HasTail ==
    ASSUME NEW S, NEW s \in Seq(S), s # << >>, NEW g
    PROVE  /\ Has(s, g) <=> Head(s).generation = g \/ Has(Tail(s), g)
           /\ Once(s, g) => Once(Tail(s), g) /\ (Head(s).generation = g => ~Has(Tail(s), g))
<1>1. Len(s) \in Nat /\ DOMAIN s = 1 .. Len(s) /\ DOMAIN Tail(s) = 1 .. Len(s) - 1
    BY HeadTailProperties, LenProperties
<1>2. /\ \A i \in DOMAIN Tail(s) : i + 1 \in DOMAIN s /\ Tail(s)[i] = s[i + 1]
      /\ Head(s) = s[1] /\ 1 \in DOMAIN s
    BY TailIndices, Zenon
<1>3. ASSUME NEW i \in DOMAIN s, i # 1
      PROVE  i - 1 \in DOMAIN Tail(s) /\ s[i] = Tail(s)[i - 1]
    <2>1. i \in 1 .. Len(s)
        BY <1>1, Zenon
    <2>2. i - 1 \in 1 .. Len(s) - 1 /\ i - 1 + 1 = i
        BY <1>1, <1>3, <2>1
    <2>3. i - 1 \in DOMAIN Tail(s)
        BY <1>1, <2>2, Zenon
    <2>4. Tail(s)[i - 1] = s[i - 1 + 1]
        BY <1>2, <2>3
    <2> QED
        BY <2>2, <2>3, <2>4
<1>4. Has(s, g) <=> Head(s).generation = g \/ Has(Tail(s), g)
    BY <1>2, <1>3 DEF Has
<1>5. \A i, j \in DOMAIN Tail(s) : i \in Nat /\ j \in Nat /\ (i + 1 = j + 1 => i = j)
        /\ i + 1 # 1
    BY <1>1
<1>6. ASSUME Once(s, g) PROVE Once(Tail(s), g)
               /\ (Head(s).generation = g => ~Has(Tail(s), g))
    BY <1>2, <1>5, <1>6 DEF Once, Has
<1> QED
    BY <1>4, <1>6

\* Adding an element adds its load.
LEMMA HasAppend ==
    ASSUME NEW S, NEW s \in Seq(S), NEW e \in S, NEW g
    PROVE  /\ Has(Append(s, e), g) <=> Has(s, g) \/ e.generation = g
           /\ Once(s, g) /\ (e.generation = g => ~Has(s, g)) => Once(Append(s, e), g)
<1>1. Len(s) \in Nat /\ DOMAIN s = 1 .. Len(s) /\ DOMAIN Append(s, e) = 1 .. Len(s) + 1
    BY AppendProperties, LenProperties
<1>2. (\A i \in DOMAIN s : Append(s, e)[i] = s[i]) /\ Append(s, e)[Len(s) + 1] = e
      /\ \A i \in DOMAIN Append(s, e) : i \in DOMAIN s \/ i = Len(s) + 1
    BY AppendPlace
<1>3. DOMAIN s \subseteq DOMAIN Append(s, e) /\ Len(s) + 1 \in DOMAIN Append(s, e)
    BY <1>1
<1>4. Has(Append(s, e), g) <=> Has(s, g) \/ e.generation = g
    BY <1>2, <1>3 DEF Has
<1>5. Once(s, g) /\ (e.generation = g => ~Has(s, g)) => Once(Append(s, e), g)
    BY <1>2, <1>3 DEF Has, Once
<1> QED
    BY <1>4, <1>5

\* Queues of proper work stay so.
LEMMA ProperAppend ==
    ASSUME NEW S, NEW s \in Seq(S), NEW e \in S, NEW g, AllProper(s, g), Proper(e, g)
    PROVE  AllProper(Append(s, e), g)
BY AppendPlace DEF AllProper

\* Taking the first element leaves the others proper.
LEMMA ProperTail ==
    ASSUME NEW S, NEW s \in Seq(S), s # << >>, NEW g, AllProper(s, g)
    PROVE  AllProper(Tail(s), g) /\ Proper(Head(s), g)
BY TailIndices DEF AllProper

\* A new load is in no queue of what was asked before.
LEMMA ProperFresh ==
    ASSUME NEW S, NEW s \in Seq(S), NEW g \in Nat, NEW h \in Nat, g < h, AllProper(s, g),
           \A x \in S : x.generation \in Nat \cup {None}, None \notin Nat
    PROVE  ~Has(s, h) /\ Once(s, h) /\ AllProper(s, h)
<1>1. \A i \in DOMAIN s : s[i] \in S
    BY ElementOfSeq
<1>2. \A i \in DOMAIN s : s[i].generation # h
    BY <1>1 DEF AllProper, Proper
<1>3. AllProper(s, h)
    BY <1>1 DEF AllProper, Proper
<1> QED
    BY <1>2, <1>3 DEF Has, Once

\* Which steps move work.
LEMMA WorkMoves ==
    ASSUME TypeInv, Next
    PROVE  \/ Load \/ StopMedia \/ TakeOperation \/ Enqueue \/ OperationError \/ HandleEvent
           \/ CoreCommand \/ CoreOpens \/ CorePlays \/ CoreShutsDown
           \/ UNCHANGED <<generation, commands, core, events>>
                /\ (Carried' => UNCHANGED control)
<1>1. CASE SampleEvidence \/ PublishEvidence \/ ControlEnds \/ Fail \/ ControlPanics
    <2>1. UNCHANGED <<generation, commands, core, events>>
        BY <1>1 DEF SampleEvidence, PublishEvidence, ControlEnds, Fail, ControlPanics,
                    ui, shared, mpv, ghosts, bounds
    <2>2. UNCHANGED control \/ control'.at \notin {"enqueue", "op_error"}
        <3>1. CASE SampleEvidence \/ ControlEnds
            BY <3>1 DEF SampleEvidence, ControlEnds, TypeInv, Controls
        <3>2. CASE PublishEvidence \/ ControlPanics
            BY <3>2 DEF PublishEvidence, ControlPanics, Resting
        <3>3. CASE Fail
            BY <3>3 DEF Fail, TypeInv, Controls
        <3> QED
            BY <1>1, <3>1, <3>2, <3>3
    <2> QED
        BY <2>1, <2>2 DEF Carried
<1>2. \/ Load \/ StopMedia \/ TakeOperation \/ Enqueue \/ OperationError \/ HandleEvent
      \/ CoreCommand \/ CoreOpens \/ CorePlays \/ CoreShutsDown
      \/ SampleEvidence \/ PublishEvidence \/ ControlEnds \/ Fail \/ ControlPanics
      \/ UNCHANGED <<generation, commands, core, events, control>>
    BY DEF Next, Caller, Resize, TakeGpuFrame, Drop, Startup, Started, Joined,
             ControlWorker,
           RenderWorker, RenderStarts, Snapshot, Qualify, Deliver, RenderEnds,
             EvidenceTimesOut,
           DrawFails, CoreWorks, ui, shared, mpv, ghosts, bounds
<1> QED
    BY <1>1, <1>2

\* A worker that fails has raised the flag first.
LEMMA NextFailing ==
    ASSUME TypeInv, Failing, Next
    PROVE  Failing'
<1>1. stopped => stopped'
    BY FlagsType
<1>2. render'.at = "failing" => render.at = "failing" \/ stopped'
    <2>1. CASE \E told \in Told : Qualify(told)
        BY <2>1 DEF Qualify, Looked, TypeInv, Renders
    <2> QED
        BY <2>1, RenderMoves DEF RenderStarts, Snapshot, Looked, EvidenceTimesOut,
             DrawFails,
           Deliver, Fail, RenderEnds, TypeInv, Renders
<1>3. control'.at = "failing" => control.at = "failing" \/ stopped'
    <2>1. CASE HandleEvent \/ TakeOperation
        BY <2>1 DEF HandleEvent, TakeOperation, TypeInv, Controls
    <2>2. CASE OperationError
        BY <2>2 DEF OperationError, Resting
    <2>8. CASE Enqueue
        <3>1. control' = Resting \/ control' = [control EXCEPT !.at = "op_error"]
            BY <2>8 DEF Enqueue
        <3> QED
            BY <3>1 DEF TypeInv, Controls, Resting
    <2>9. CASE SampleEvidence
        BY <2>9 DEF SampleEvidence, TypeInv, Controls
    <2>3. CASE PublishEvidence
        BY <2>3 DEF PublishEvidence, Resting
    <2>4. CASE ControlPanics
        BY <2>4 DEF ControlPanics
    <2>5. CASE ControlEnds
        BY <2>5 DEF ControlEnds, TypeInv, Controls
    <2>6. CASE Fail
        <3>1. UNCHANGED control \/ control.at = "failing"
            BY <2>6 DEF Fail
        <3> QED
            BY <3>1
    <2>7. CASE UNCHANGED control
        BY <2>7
    <2> QED
        BY <2>1, <2>2, <2>3, <2>4, <2>5, <2>6, <2>7, <2>8, <2>9, ControlMoves
<1> QED
    BY <1>1, <1>2, <1>3 DEF Failing

\* Loads are numbers, and None is not.
LEMMA NaturalLoads ==
    ASSUME MpvAssumption, TypeInv
    PROVE  /\ generation \in Nat
           /\ \A x \in Operations \cup Events : x.generation \in Nat \cup {None}
           /\ core.file \in Nat \cup {None}
BY DEF MpvAssumption, TypeInv, Counted, Cores, Operations, Events, Loads

\* Putting the file down names no load.
LEMMA EndedNaming ==
    ASSUME NEW ev \in Seq(Events), NEW g, AllProper(ev, g), Replies(ev)
    PROVE  /\ AllProper(EndedBy(ev), g) /\ Replies(EndedBy(ev))
           /\ None \notin Nat /\ g \in Nat => (Has(EndedBy(ev), g) <=> Has(ev, g))
<1>1. Event("end") \in Events /\ Event("end").generation = None
        /\ Event("end").kind = "control"
    BY EventIs
<1>2. Proper(Event("end"), g)
    BY <1>1 DEF Proper
<1>3. AllProper(Append(ev, Event("end")), g)
    BY <1>1, <1>2, ProperAppend
<1>4. Replies(Append(ev, Event("end")))
    BY <1>1, AppendPlace DEF Replies
<1>5. Has(Append(ev, Event("end")), g) <=> Has(ev, g) \/ None = g
    BY <1>1, HasAppend
<1> QED
    BY <1>3, <1>4, <1>5 DEF EndedBy

\* Nor does any other event of a file.
LEMMA EventAdds ==
    ASSUME NEW ev \in Seq(Events),
             NEW id \in {"start", "loaded", "video", "look", "shutdown"}, NEW g \in Nat,
           None \notin Nat, AllProper(ev, g), Replies(ev)
    PROVE  /\ Append(ev, Event(id)) \in Seq(Events)
           /\ AllProper(Append(ev, Event(id)), g) /\ Replies(Append(ev, Event(id)))
           /\ Has(Append(ev, Event(id)), g) <=> Has(ev, g)
<1>1. Event(id) \in Events /\ Event(id).generation = None /\ Event(id).kind = "control"
    BY EventIs
<1>2. Proper(Event(id), g)
    BY <1>1 DEF Proper
<1>3. AllProper(Append(ev, Event(id)), g)
    BY <1>1, <1>2, ProperAppend
<1>4. Replies(Append(ev, Event(id)))
    BY <1>1, AppendPlace DEF Replies
<1>5. Has(Append(ev, Event(id)), g) <=> Has(ev, g) \/ None = g
    BY <1>1, HasAppend
<1> QED
    BY <1>1, <1>3, <1>4, <1>5, AppendProperties

\* A reply names the load of its command.
LEMMA ReplyAdds ==
    ASSUME NEW ev \in Seq(Events), NEW op \in Operations, NEW g \in Nat,
           AllProper(ev, g), Replies(ev), Proper(op, g)
    PROVE  /\ Append(ev, ReplyError(op)) \in Seq(Events)
           /\ AllProper(Append(ev, ReplyError(op)), g)
                /\ Replies(Append(ev, ReplyError(op)))
           /\ Has(Append(ev, ReplyError(op)), g) <=> Has(ev, g) \/ op.generation = g
<1>1. /\ ReplyError(op) \in Events /\ ReplyError(op).id = "reply_error"
      /\ ReplyError(op).generation = op.generation /\ ReplyError(op).kind = op.kind
    BY ReplyIs
<1>2. Proper(ReplyError(op), g)
    BY <1>1 DEF Proper
<1>3. AllProper(Append(ev, ReplyError(op)), g)
    BY <1>1, <1>2, ProperAppend
<1>4. Replies(Append(ev, ReplyError(op)))
    BY <1>1, AppendPlace DEF Replies
<1>5. Has(Append(ev, ReplyError(op)), g) <=> Has(ev, g) \/ op.generation = g
    BY <1>1, HasAppend
<1> QED
    BY <1>1, <1>3, <1>4, <1>5, AppendProperties

\* What a command leaves of the names in libmpv's hands.
LEMMA CommandLeaves ==
    ASSUME MpvAssumption, TypeInv, Naming, CoreCommand
    PROVE  LET op == Head(core.queue) IN
           /\ core'.queue = Tail(core.queue) /\ Proper(op, generation)
           /\ AllProper(events', generation) /\ Replies(events')
           /\ Has(events', generation) => Has(events, generation)
                \/ op.generation = generation
           /\ core'.file = None \/ core'.file = core.file \/ core'.file = op.generation
<1> DEFINE op == Head(core.queue)
<1>1. /\ core.queue \in Seq(Operations) /\ core.queue # << >> /\ op \in Operations
           /\ CommandIs(op)
    BY CoreCommandIs
<1>2. Proper(op, generation)
    BY <1>1, ProperTail DEF Naming
<1>3. generation \in Nat /\ None \notin Nat /\ events \in Seq(Events)
      /\ AllProper(events, generation) /\ Replies(events)
    BY NaturalLoads DEF TypeInv, Counted, Naming, MpvAssumption
<1> HIDE DEF op
<1>4. core'.queue = Tail(core.queue)
        /\ (core'.file = None \/ core'.file = core.file \/ core'.file = op.generation)
    BY <1>1 DEF CommandIs, Opening, Idle, TypeInv, Cores
<1> DEFINE Good(ev) == ev \in Seq(Events) /\ AllProper(ev, generation) /\ Replies(ev)
                       /\ (Has(ev, generation) => Has(events, generation) \/ op.generation = generation)
<1>5. Good(events) /\ Good(Append(events, ReplyError(op)))
    BY <1>1, <1>2, <1>3, ReplyAdds
<1>6. ASSUME NEW ev, Good(ev) PROVE Good(EndedBy(ev))
    BY <1>3, <1>6, EndedNaming, EndedIs
<1>7. ASSUME NEW ev, Good(ev) PROVE Good(Append(ev, Event("start")))
    BY <1>3, <1>7, EventAdds
<1>8. Good(events')
    <2> HIDE DEF Good
    <2> QED
        BY <1>1, <1>5, <1>6, <1>7 DEF CommandIs
<1> QED
    BY <1>2, <1>4, <1>8 DEF op

-----------------------------------------------------------------------------
(* Steps that move work                                                     *)

\* What the caller and the control worker do to what libmpv is to carry out.
LoadOp(g) == [kind |-> "load", generation |-> g]
StopOp == [kind |-> "control", generation |-> None]

\* A load is new, and nothing else is.
LEMMA LoadLeaves ==
    ASSUME MpvAssumption, TypeInv, Holding, Naming, Load
    PROVE  Naming' /\ Single'
<1> DEFINE g == generation
<1>1. g \in Nat /\ g + 1 \in Loads /\ g < g + 1 /\ g <= g + 1 /\ g + 1 \in Nat
        /\ generation' = g + 1
    BY DEF Load, TypeInv, Counted, MpvAssumption, Loads
<1>2. commands' = Append(commands, LoadOp(g + 1)) /\ LoadOp(g + 1) \in Operations
      /\ UNCHANGED <<control, core, events>>
    BY <1>1 DEF Load, LoadOp, Operations, mpv
<1>3. LoadOp(g + 1).generation = g + 1 /\ LoadOp(g + 1).kind = "load"
    BY DEF LoadOp
<1>4. None \notin Nat /\ \A x \in Operations \cup Events : x.generation \in Nat \cup {None}
    BY NaturalLoads DEF MpvAssumption
<1>5. Proper(LoadOp(g + 1), g + 1)
    BY <1>1, <1>3, <1>4 DEF Proper
<1>6. ~Has(commands, g + 1) /\ Once(commands, g + 1) /\ AllProper(commands, g + 1)
    BY <1>1, <1>4, ProperFresh DEF TypeInv, Queued, Naming
<1>7. ~Has(core.queue, g + 1) /\ Once(core.queue, g + 1) /\ AllProper(core.queue, g + 1)
    BY <1>1, <1>4, ProperFresh DEF TypeInv, Cores, Naming
<1>8. ~Has(events, g + 1) /\ AllProper(events, g + 1)
    BY <1>1, <1>4, ProperFresh DEF TypeInv, Naming
<1>9. Carried => Proper(control.op, g + 1) /\ control.op.generation # g + 1
    <2> HAVE Carried
    <2>1. control.op.generation \in Nat \cup {None} /\ Proper(control.op, g)
        BY <1>4 DEF Carried, Holding, Naming
    <2> QED
        BY <1>1, <2>1, <1>4 DEF Proper
<1>10. core.file # g + 1 /\ (core.file # None => core.file <= g + 1)
    BY <1>1, <1>4, NaturalLoads DEF Naming
<1>11. AllProper(commands', g + 1) /\ Once(commands', g + 1)
    BY <1>2, <1>3, <1>5, <1>6, ProperAppend, HasAppend DEF TypeInv, Queued
<1>12. Naming'
    BY <1>1, <1>2, <1>7, <1>8, <1>9, <1>10, <1>11 DEF Naming, Carried
<1>13. Single'
    BY <1>1, <1>2, <1>7, <1>8, <1>9, <1>10, <1>11 DEF Single, Held, Carried
<1> QED
    BY <1>12, <1>13

\* A stop names no load.
LEMMA StopLeaves ==
    ASSUME MpvAssumption, TypeInv, Naming, Single, StopMedia
    PROVE  Naming' /\ Single' /\ (Has(commands', generation) <=> Has(commands, generation))
<1>1. commands' = Append(commands, StopOp) /\ StopOp \in Operations
      /\ UNCHANGED <<control, core, events, generation>>
    BY DEF StopMedia, StopOp, Operations, mpv
<1>2. StopOp.generation = None /\ StopOp.kind = "control" /\ None # generation
    BY NaturalLoads DEF StopOp, MpvAssumption
<1>3. Proper(StopOp, generation)
    BY <1>2 DEF Proper
<1>4. /\ AllProper(commands', generation)
           /\ (Has(commands', generation) <=> Has(commands, generation))
      /\ Once(commands, generation) => Once(commands', generation)
    BY <1>1, <1>2, <1>3, ProperAppend, HasAppend DEF TypeInv, Queued, Naming
<1>5. Naming'
    BY <1>1, <1>4 DEF Naming, Carried
<1>6. Single'
    BY <1>1, <1>4 DEF Single, Held, Carried
<1> QED
    BY <1>4, <1>5, <1>6

\* The latest load is never skipped by the worker.
LEMMA TakeLeaves ==
    ASSUME MpvAssumption, TypeInv, Naming, Single, TakeOperation
    PROVE  Naming' /\ Single'
           /\ (Has(commands', generation) \/ Held' <=> Has(commands, generation) \/ Held)
           /\ control'.at \in {"loop", "enqueue"}
<1> DEFINE op == Head(commands)
<1>1. /\ commands \in Seq(Operations) /\ commands # << >> /\ commands' = Tail(commands)
      /\ control.at = "loop" /\ op \in Operations
      /\ UNCHANGED <<core, events, generation>>
    BY TailIndices, HeadTailProperties DEF TakeOperation, TypeInv, Queued, mpv
<1>2. control' = IF Stale(op.generation)
        THEN control ELSE [control EXCEPT !.at = "enqueue", !.op = op]
    BY DEF TakeOperation
<1>3. AllProper(commands', generation) /\ Proper(op, generation)
    BY <1>1, ProperTail DEF Naming
<1>4. /\ Has(commands, generation) <=> op.generation = generation
           \/ Has(commands', generation)
      /\ Once(commands', generation)
           /\ (op.generation = generation => ~Has(commands', generation))
    BY <1>1, HasTail DEF Single
<1> HIDE DEF op
<1>5. CASE Stale(op.generation)
    <2>1. control' = control /\ op.generation # generation /\ ~Carried /\ ~Carried'
        BY <1>1, <1>2, <1>5 DEF Stale, Carried
    <2> QED
        BY <1>1, <1>3, <1>4, <2>1 DEF Naming, Single, Held
<1>6. CASE ~Stale(op.generation)
    <2>1. control'.op = op /\ control'.at = "enqueue" /\ ~Carried /\ Carried'
        BY <1>1, <1>2, <1>6 DEF Carried, TypeInv, Controls
    <2>2. Held' <=> op.generation = generation
        BY <1>1, <2>1 DEF Held
    <2> QED
        BY <1>1, <1>3, <1>4, <2>1, <2>2 DEF Naming, Single, Held
<1> QED
    BY <1>5, <1>6

\* What the worker hands over is with libmpv, or still with the worker.
LEMMA EnqueueLeaves ==
    ASSUME MpvAssumption, TypeInv, Holding, Naming, Single, Enqueue
    PROVE  Naming' /\ Single'
           /\ (Held' \/ Has(core'.queue, generation) <=> Held \/ Has(core.queue, generation))
           /\ core'.file = core.file /\ core'.phase = core.phase /\ core'.look = core.look
<1>1. Carried /\ control.op \in Operations /\ core.queue \in Seq(Operations)
      /\ UNCHANGED <<commands, events, generation>>
    BY DEF Enqueue, Carried, Holding, TypeInv, Cores, ui
<1>2. CASE control' = Resting /\ core' = [core EXCEPT !.queue = Append(@, control.op)]
    <2>1. core'.queue = Append(core.queue, control.op) /\ core'.file = core.file
            /\ ~Carried'
          /\ core'.phase = core.phase /\ core'.look = core.look
        BY <1>2 DEF Resting, Carried, TypeInv, Cores
    <2>2. AllProper(core'.queue, generation)
        BY <1>1, <2>1, ProperAppend DEF Naming
    <2>3. /\ Has(core'.queue, generation) <=> Has(core.queue, generation) \/ Held
          /\ Once(core'.queue, generation)
        BY <1>1, <2>1, HasAppend DEF Single, Held
    <2> QED
        BY <1>1, <2>1, <2>2, <2>3 DEF Naming, Single, Held
<1>3. CASE control' = [control EXCEPT !.at = "op_error"] /\ UNCHANGED core
    <2>1. control'.op = control.op /\ Carried'
        BY <1>3 DEF Carried, TypeInv, Controls
    <2> QED
        BY <1>1, <1>3, <2>1 DEF Naming, Single, Held
<1> QED
    BY <1>2, <1>3 DEF Enqueue

\* A command that is carried out names its file, its reply, or nothing.
LEMMA CommandCarried ==
    ASSUME MpvAssumption, TypeInv, Naming, Single, CoreCommand
    PROVE  Naming' /\ Single'
<1> DEFINE op == Head(core.queue)
<1>1. /\ core'.queue = Tail(core.queue) /\ Proper(op, generation)
      /\ AllProper(events', generation) /\ Replies(events')
      /\ Has(events', generation) => Has(events, generation) \/ op.generation = generation
      /\ core'.file = None \/ core'.file = core.file \/ core'.file = op.generation
    BY CommandLeaves
<1>2. core.queue \in Seq(Operations) /\ core.queue # << >> /\ UNCHANGED <<commands,
        control, generation>>
    BY CoreCommandIs DEF CoreCommand, ui
<1>3. /\ AllProper(core'.queue, generation)
      /\ Has(core.queue, generation) <=> op.generation = generation
           \/ Has(core'.queue, generation)
      /\ Once(core'.queue, generation)
           /\ (op.generation = generation => ~Has(core'.queue, generation))
    BY <1>1, <1>2, ProperTail, HasTail DEF Naming, Single
<1>4. None # generation
    BY NaturalLoads DEF MpvAssumption
<1> HIDE DEF op
<1>5. core'.file # None => core'.file <= generation
    BY <1>1 DEF Naming, Proper
<1>6. Naming'
    BY <1>1, <1>2, <1>3, <1>5 DEF Naming, Carried
<1>7. Single'
    BY <1>1, <1>2, <1>3, <1>4 DEF Single, Held, Carried
<1> QED
    BY <1>6, <1>7

\* What a file does by itself names no load.
LEMMA PlayingLeaves ==
    ASSUME MpvAssumption, TypeInv, Naming, Single, CoreOpens \/ CorePlays \/ CoreShutsDown
    PROVE  Naming' /\ Single' /\ (Has(events', generation) <=> Has(events, generation))
<1>1. UNCHANGED <<commands, control, generation>>
    BY DEF CoreOpens, CorePlays, CoreShutsDown, ui
<1>2. core'.queue = core.queue /\ (core'.file = None \/ core'.file = core.file)
    BY CoreOpensIs, CorePlaysIs DEF CoreShutsDown, Idle, TypeInv, Cores
<1>3. generation \in Nat /\ None \notin Nat /\ events \in Seq(Events)
      /\ AllProper(events, generation) /\ Replies(events)
    BY NaturalLoads DEF TypeInv, Naming, MpvAssumption
<1> DEFINE Good(ev) == ev \in Seq(Events) /\ AllProper(ev, generation) /\ Replies(ev)
                       /\ (Has(ev, generation) <=> Has(events, generation))
<1>4. Good(events)
    BY <1>3
<1>5. ASSUME NEW ev, Good(ev) PROVE Good(EndedBy(ev))
    BY <1>3, <1>5, EndedNaming, EndedIs
<1>6. ASSUME NEW ev, Good(ev), NEW id \in {"loaded", "video", "look", "shutdown"}
      PROVE  Good(Append(ev, Event(id)))
    BY <1>3, <1>6, EventAdds
<1>7. Good(events')
    <2> HIDE DEF Good
    <2>1. \/ events' = Append(Append(events, Event("loaded")), Event("video"))
          \/ events' = EndedBy(events)
          \/ events' = Append(events, Event("look"))
               \/ events' = Append(events, Event("shutdown"))
        BY CoreOpensIs, CorePlaysIs DEF CoreShutsDown
    <2> QED
        BY <1>4, <1>5, <1>6, <2>1
<1>8. Naming'
    BY <1>1, <1>2, <1>7 DEF Naming, Carried
<1>9. Single'
    BY <1>1, <1>2, <1>3, <1>7 DEF Single, Held, Carried
<1> QED
    BY <1>7, <1>8, <1>9

\* An event that is handled is gone.
LEMMA HandleLeaves ==
    ASSUME TypeInv, Naming, Single, HandleEvent
    PROVE  Naming' /\ Single'
             /\ (Has(events, generation) <=> Head(events).generation = generation \/ Has(events', generation))
<1>1. /\ events \in Seq(Events) /\ events # << >> /\ events' = Tail(events)
      /\ UNCHANGED <<commands, core, generation>>
    BY DEF HandleEvent, TypeInv, ui
<1>2. ~Carried /\ ~Carried'
    BY DEF HandleEvent, TypeInv, Controls, Carried
<1>3. AllProper(events', generation) /\ Replies(events')
    BY <1>1, ProperTail, TailIndices DEF Naming, Replies
<1>4. Has(events, generation) <=> Head(events).generation = generation
        \/ Has(events', generation)
    BY <1>1, HasTail
<1> QED
    BY <1>1, <1>2, <1>3, <1>4 DEF Naming, Single, Held

\* Every step keeps names and places.
LEMMA NextWork ==
    ASSUME MpvAssumption, TypeInv, Holding, Naming, Single, Next
    PROVE  Naming' /\ Single'
<1>1. CASE Load \/ StopMedia \/ TakeOperation \/ Enqueue \/ CoreCommand \/ CoreOpens
             \/ CorePlays
           \/ CoreShutsDown \/ HandleEvent
    BY <1>1, LoadLeaves, StopLeaves, TakeLeaves, EnqueueLeaves, CommandCarried,
         PlayingLeaves, HandleLeaves
<1>2. CASE OperationError
    <2>1. ~Carried' /\ UNCHANGED <<generation, commands, core, events>>
        BY <1>2 DEF OperationError, Resting, Carried, ui, mpv
    <2> QED
        BY <2>1 DEF Naming, Single, Held
<1>3. CASE UNCHANGED <<generation, commands, core, events>>
             /\ (Carried' => UNCHANGED control)
    BY <1>3 DEF Naming, Single, Held, Carried
<1> QED
    BY <1>1, <1>2, <1>3, WorkMoves

-----------------------------------------------------------------------------
(* Frames                                                                   *)

\* A frame is of the evidence the pipeline holds; a snapshot that is current is of what
\* the pipeline holds; no player that failed has either.
Fatal(s) == s.fatal
Frames ==
    /\ "frame" \in pipeline.current => pipeline.evidence = "good" /\ pipeline.ready
    /\ "snapshot" \in pipeline.current /\ render.at \in {"qualify", "deliver"} =>
         render.snap.evidence = pipeline.evidence /\ render.snap.ready = pipeline.ready
    /\ "snapshot" \in pipeline.current => render.at \notin {"starting", "loop"}
    /\ Fatal(state) => stopped /\ pipeline.current \cap {"frame", "snapshot"} = {}

\* Nothing new to take, and nothing else to be judged by.
Keeps(p, q) ==
    \/ q.current = {}
    \/ Same(q, p) /\ q.current \cap {"frame", "snapshot"} \subseteq p.current

\* Judging evidence bad fails the player or forgets the snapshot.
LEMMA FailQualificationIs ==
    ASSUME TypeInv, FailQualification
    PROVE  /\ Keeps(pipeline, pipeline') /\ "snapshot" \notin pipeline'.current
           /\ state' = state \/ (stopped' /\ pipeline'.current = {})
<1>1. CASE ~stopped /\ "snapshot" \in pipeline.current
    BY <1>1, InvalidateIs DEF FailQualification, Keeps, TypeInv
<1>2. CASE ~(~stopped /\ "snapshot" \in pipeline.current)
    <2>1. pipeline' = Release(pipeline, "snapshot") /\ state' = state
        BY <1>2 DEF FailQualification
    <2>2. /\ Same(pipeline', pipeline)
          /\ pipeline'.current = pipeline.current \ {"snapshot"}
        BY <2>1, ReleaseIs DEF TypeInv, Holders
    <2>3. Keeps(pipeline, pipeline') /\ "snapshot" \notin pipeline'.current
        BY <2>2 DEF Keeps
    <2> QED
        BY <2>1, <2>3
<1> QED
    BY <1>1, <1>2

\* Only Snapshot and Deliver add to what is judged and taken.
LEMMA PipelineKeeps ==
    ASSUME TypeInv, Holding, Next
    PROVE  Keeps(pipeline, pipeline') \/ Snapshot \/ Deliver
<1>0. pipeline \in Pipelines /\ Keeps(pipeline, pipeline)
    BY DEF TypeInv, Keeps, Same
<1>1. CASE Load \/ Drop \/ Fail
    BY <1>0, <1>1, ClearIs, InvalidateIs DEF Load, Drop, Fail, Keeps
<1>2. CASE Resize
    <2> DEFINE resized == [pipeline EXCEPT !.viewport = ~@]
    <2>1. resized \in Pipelines /\ Same(resized, pipeline)
            /\ resized.current = pipeline.current
        BY <1>0 DEF Pipelines, Same
    <2>2. Invalidate(resized).current = {}
        BY <2>1, InvalidateIs
    <2>3. pipeline' = resized \/ pipeline' = Invalidate(resized)
        BY <1>2 DEF Resize
    <2> HIDE DEF resized
    <2> QED
        BY <2>1, <2>2, <2>3 DEF Keeps
<1>3. CASE TakeGpuFrame
    <2>1. /\ Release(pipeline, "frame") \in Pipelines
               /\ Same(Release(pipeline, "frame"), pipeline)
          /\ Release(pipeline, "frame").current \subseteq pipeline.current
        BY <1>0, ReleaseIs DEF Holders
    <2>2. pipeline' = [Release(pipeline, "frame") EXCEPT !.frame = FALSE]
        BY <1>3 DEF TakeGpuFrame
    <2> QED
        BY <2>1, <2>2 DEF Keeps, Same, Pipelines
<1>4. CASE OperationError
    BY <1>0, <1>4, ClearIs DEF OperationError, ApplyOperationError, Keeps, Same
<1>5. CASE HandleEvent
    <2>1. Invalidate(pipeline) \in Pipelines /\ Invalidate(pipeline).current = {}
            /\ Clear(pipeline).current = {}
        BY <1>0, InvalidateIs, ClearIs
    <2>2. [Invalidate(pipeline) EXCEPT !.ready = TRUE, !.absent = FALSE].current = {}
        BY <2>1 DEF Pipelines
    <2> QED
        BY <1>0, <1>5, <2>1, <2>2 DEF HandleEvent, Applied, ApplyOperationError, Keeps,
             shared
<1>6. CASE SampleEvidence
    BY <1>0, <1>6, HoldIs DEF SampleEvidence, Keeps, Holders
<1>7. CASE PublishEvidence
    <2> DEFINE updated == IF stopped
          THEN pipeline ELSE UpdateEvidence(pipeline, control.look)
    <2>1. updated \in Pipelines /\ (updated = pipeline \/ updated.current = {})
        BY <1>0, <1>7, UpdateIs DEF PublishEvidence, Holding
    <2>2. pipeline' = Release(updated, "sampled")
        BY <1>7 DEF PublishEvidence
    <2> HIDE DEF updated
    <2> QED
        BY <2>1, <2>2, ReleaseIs DEF Keeps, Holders
<1>8. CASE EvidenceTimesOut \/ \E told \in Told : Qualify(told)
    <2>1. FailQualification \/ pipeline' = pipeline
            \/ pipeline' = Release(pipeline, "snapshot")
        BY <1>8 DEF EvidenceTimesOut, Qualify
    <2> QED
        BY <1>0, <2>1, FailQualificationIs, ReleaseIs DEF Keeps, Holders
<1>9. CASE UNCHANGED pipeline
    BY <1>0, <1>9
<1> QED
    BY <1>1, <1>2, <1>3, <1>4, <1>5, <1>6, <1>7, <1>8, <1>9, PipelineMoves

\* Loads, errors of operations and events leave a fatal error.
LEMMA FatalKept ==
    ASSUME TypeInv, Load \/ OperationError \/ HandleEvent
    PROVE  Fatal(state') <=> Fatal(state)
<1> DEFINE same == Fatal(state') <=> Fatal(state)
<1>1. CASE Load
    BY <1>1 DEF Load, TypeInv, States, Fatal
<1>2. CASE OperationError
    <2>1. state' = state \/ state' = [state EXCEPT !.loading = FALSE, !.file_loaded = FALSE,
                                                  !.media_stopped = TRUE]
        BY <1>2 DEF OperationError, ApplyOperationError
    <2> QED
        BY <2>1 DEF TypeInv, States, Fatal
<1>3. CASE HandleEvent
    <2>1. \/ state' = state
          \/ state' = [state EXCEPT !.loading = FALSE, !.file_loaded = FALSE, !.media_stopped = TRUE]
          \/ state' = [state EXCEPT !.loading = TRUE, !.file_loaded = FALSE, !.media_stopped = FALSE]
          \/ state' = [state EXCEPT !.loading = FALSE, !.media_stopped = TRUE]
          \/ state' = [state EXCEPT !.file_loaded = TRUE, !.loading = FALSE]
          \/ state' = [state EXCEPT !.loading = FALSE]
        BY <1>3 DEF HandleEvent, Applied, ApplyOperationError, shared
    <2> QED
        BY <2>1 DEF TypeInv, States, Fatal
<1> QED
    BY <1>1, <1>2, <1>3

\* A fatal error comes with the flag and an empty mailbox.
LEMMA FatalComes ==
    ASSUME TypeInv, Failing, Next
    PROVE  Fatal(state') => Fatal(state) \/ (stopped' /\ pipeline'.current = {})
<1>1. CASE EvidenceTimesOut \/ \E told \in Told : Qualify(told)
    <2>1. FailQualification \/ state' = state
        BY <1>1 DEF EvidenceTimesOut, Qualify
    <2>2. state' = state \/ (stopped' /\ pipeline'.current = {})
        BY <2>1, FailQualificationIs
    <2> QED
        BY <2>2
<1>2. CASE Fail
    <2>1. stopped /\ stopped' = stopped /\ pipeline' = Invalidate(pipeline)
        BY <1>2 DEF Fail, Failing
    <2>2. pipeline'.current = {}
        BY <2>1, InvalidateIs DEF TypeInv
    <2> QED
        BY <2>1, <2>2
<1>3. CASE UNCHANGED state
    BY <1>3
<1> QED
    BY <1>1, <1>2, <1>3, FatalKept, StateMoves

\* A snapshot that is still current is still in the render worker's hands.
LEMMA RenderJudges ==
    ASSUME TypeInv, Failing, Next
    PROVE  \/ Snapshot \/ Deliver
           \/ "snapshot" \notin pipeline'.current
           \/ /\ render'.at \in {"qualify", "deliver"}
                   => render.at \in {"qualify", "deliver"} /\ render'.snap = render.snap
              /\ render'.at \in {"starting", "loop"} => render.at \in {"starting", "loop"}
<1> USE DEF TypeInv, Renders
<1>1. CASE \E told \in Told : Qualify(told)
    <2>1. PICK told : Qualify(told)
        BY <1>1
    <2>2. CASE render.snap.evidence = "bad"
        <3>1. FailQualification
            BY <2>1, <2>2 DEF Qualify
        <3> QED
            BY <3>1, FailQualificationIs
    <2>3. CASE render.snap.evidence # "bad"
        <3>1. \/ \E requested : Looked(requested, "deliver")
              \/ pipeline' = Release(pipeline, "snapshot")
            BY <2>1, <2>3 DEF Qualify
        <3>2. ASSUME NEW requested, Looked(requested, "deliver")
              PROVE  render'.snap = render.snap /\ render'.at = "deliver"
            BY <3>2 DEF Looked
        <3>3. render.at = "qualify"
            BY <2>1 DEF Qualify
        <3> QED
            BY <3>1, <3>2, <3>3, ReleaseIs DEF Holders
    <2> QED
        BY <2>2, <2>3
<1>2. CASE EvidenceTimesOut
    BY <1>2, FailQualificationIs DEF EvidenceTimesOut
<1>3. CASE RenderStarts
    BY <1>3 DEF RenderStarts
<1>4. CASE DrawFails \/ RenderEnds
    BY <1>4 DEF DrawFails, RenderEnds
<1>5. CASE Fail
    <2>1. pipeline' = Invalidate(pipeline)
        BY <1>5 DEF Fail
    <2> QED
        BY <2>1, InvalidateIs
<1>6. CASE UNCHANGED render
    BY <1>6
<1> QED
    BY <1>1, <1>2, <1>3, <1>4, <1>5, <1>6, RenderMoves

\* Every step keeps what a frame was qualified by.
LEMMA NextFrames ==
    ASSUME TypeInv, Holding, Failing, Frames, Next
    PROVE  Frames'
<1>1. CASE Snapshot
    <2>1. /\ pipeline' = Hold(pipeline, "snapshot") /\ ~stopped /\ state' = state
          /\ render'.snap = [sized |-> Sized(pipeline), ready |-> pipeline.ready, evidence |-> pipeline.evidence]
          /\ render'.at = "qualify"
        BY <1>1 DEF Snapshot, TypeInv, Renders
    <2>2. pipeline'.current = pipeline.current \cup {"snapshot"}
            /\ Same(pipeline', pipeline)
        BY <2>1, HoldIs DEF TypeInv, Holders
    <2> QED
        BY <2>1, <2>2 DEF Frames, Same
<1>2. CASE Deliver
    <2> DEFINE s == render.snap
               fits == /\ s.sized /\ s.ready /\ s.evidence = "good"
                       /\ "snapshot" \in pipeline.current /\ Sized(pipeline)
               consumed == Pass(pipeline, "snapshot", "consumed")
               filled == IF fits
                 THEN [Hold(Hold(consumed, "frame"), "drawn") EXCEPT !.frame = TRUE]
                         ELSE consumed
    <2>1. /\ pipeline' = Release(filled, "snapshot") /\ state' = state /\ stopped' = stopped
          /\ render.at = "deliver" /\ render'.at = "loop"
        BY <1>2 DEF Deliver, TypeInv, Renders
    <2>2. /\ consumed \in Pipelines /\ Same(consumed, pipeline)
          /\ consumed.current \subseteq pipeline.current \cup {"consumed"}
        BY HoldIs, ReleaseIs DEF Pass, TypeInv, Holders
    <2>3. fits => s.evidence = pipeline.evidence /\ s.ready = pipeline.ready
            /\ ~Fatal(state)
        BY <2>1 DEF Frames
    <2> HIDE DEF consumed
    <2>4. CASE fits
        <3>1. Hold(consumed, "frame") \in Pipelines
                /\ Same(Hold(consumed, "frame"), consumed)
            BY <2>2, HoldIs DEF Holders
        <3>2. Hold(Hold(consumed, "frame"), "drawn") \in Pipelines
              /\ Same(Hold(Hold(consumed, "frame"), "drawn"), Hold(consumed, "frame"))
            BY <3>1, HoldIs DEF Holders
        <3>3. filled \in Pipelines /\ Same(filled, pipeline)
            BY <2>2, <2>4, <3>1, <3>2 DEF Same, Pipelines
        <3> HIDE DEF filled
        <3>4. Same(pipeline', filled) /\ "snapshot" \notin pipeline'.current
            BY <2>1, <3>3, ReleaseIs DEF Holders
        <3>5. pipeline.evidence = "good" /\ pipeline.ready
            BY <2>3, <2>4
        <3> QED
            BY <2>1, <2>3, <2>4, <3>3, <3>4, <3>5 DEF Frames, Same
    <2>5. CASE ~fits
        <3>1. pipeline' = Release(consumed, "snapshot")
            BY <2>1, <2>5
        <3>2. Same(pipeline', consumed)
                /\ pipeline'.current = consumed.current \ {"snapshot"}
            BY <2>2, <3>1, ReleaseIs DEF Holders
        <3> QED
            BY <2>1, <2>2, <3>2 DEF Frames, Same
    <2> QED
        BY <2>4, <2>5
<1>3. CASE ~Snapshot /\ ~Deliver
    <2>1. Keeps(pipeline, pipeline')
        BY <1>3, PipelineKeeps
    <2>2. stopped => stopped'
        BY FlagsType
    <2>3. CASE pipeline'.current = {}
        <3>1. Fatal(state') => stopped'
            BY <2>2, FatalComes DEF Frames
        <3> QED
            BY <2>3, <3>1 DEF Frames
    <2>4. CASE pipeline'.current # {}
        <3>1. Same(pipeline', pipeline)
                /\ pipeline'.current \cap {"frame", "snapshot"} \subseteq pipeline.current
            BY <2>1, <2>4 DEF Keeps
        <3>2. Fatal(state') => Fatal(state)
            BY <2>4, FatalComes
        <3>3. \/ "snapshot" \notin pipeline'.current
              \/ /\ render'.at \in {"qualify", "deliver"}
                      => render.at \in {"qualify", "deliver"} /\ render'.snap = render.snap
                 /\ render'.at \in {"starting", "loop"}
                      => render.at \in {"starting", "loop"}
            BY <1>3, RenderJudges
        <3> QED
            BY <2>2, <3>1, <3>2, <3>3 DEF Frames, Same
    <2> QED
        BY <2>3, <2>4
<1> QED
    BY <1>1, <1>2, <1>3

-----------------------------------------------------------------------------
(* The order of the stream                                                  *)

\* What a later event says of an earlier one: the stream's order, given what libmpv does
\* now, and the place of a refusal before the file that replaced it.
OfFile(e) == e.id \in {"loaded", "video", "look"}
After(ev, j, id) == \E k \in DOMAIN ev : k > j /\ ev[k].id = id
ClearAfter(ev, j) == After(ev, j, "start") \/ After(ev, j, "end")
Order(ev, phase) ==
    /\ phase \in {"idle", "opening"} => \A j \in DOMAIN ev : OfFile(ev[j])
         => ClearAfter(ev, j)
    /\ phase = "idle" => \A j \in DOMAIN ev : ev[j].id = "start" => After(ev, j, "end")
    /\ phase # "idle" => \A j \in DOMAIN ev : ev[j].id = "end" => After(ev, j, "start")
    /\ phase = "playing" => \A j \in DOMAIN ev : ev[j].id = "start"
         => After(ev, j, "loaded")
    /\ \A j \in DOMAIN ev : ev[j].id = "loaded" /\ After(ev, j, "loaded")
         => ClearAfter(ev, j)
Answer(ev, file, g) ==
    file = g => \A j \in DOMAIN ev : ev[j].generation = g => After(ev, j, "start")

\* What comes after an element when one more is added.
LEMMA AfterAppend ==
    ASSUME NEW S, NEW ev \in Seq(S), NEW e \in S, NEW id
    PROVE  /\ \A j \in DOMAIN Append(ev, e) :
                \/ j \in DOMAIN ev /\ Append(ev, e)[j] = ev[j]
                \/ Append(ev, e)[j] = e /\ ~After(Append(ev, e), j, id)
           /\ \A j \in DOMAIN ev \cup {0} : After(Append(ev, e), j, id) <=> After(ev, j, id) \/ e.id = id
<1>1. Len(ev) \in Nat /\ DOMAIN ev = 1 .. Len(ev) /\ DOMAIN Append(ev, e) = 1 .. Len(ev) + 1
    BY AppendProperties, LenProperties
<1>2. (\A i \in DOMAIN ev : Append(ev, e)[i] = ev[i]) /\ Append(ev, e)[Len(ev) + 1] = e
      /\ \A i \in DOMAIN Append(ev, e) : i \in DOMAIN ev \/ i = Len(ev) + 1
    BY AppendPlace
<1>3. DOMAIN ev \subseteq DOMAIN Append(ev, e) /\ Len(ev) + 1 \in DOMAIN Append(ev, e)
    BY <1>1
<1>4. \A k \in DOMAIN Append(ev, e) : ~(k > Len(ev) + 1)
    BY <1>1
<1>5. \A j \in DOMAIN ev \cup {0} : Len(ev) + 1 > j
    BY <1>1
<1>6. ~After(Append(ev, e), Len(ev) + 1, id)
    BY <1>4 DEF After
<1>7. ASSUME NEW j \in DOMAIN ev \cup {0}
      PROVE  After(Append(ev, e), j, id) <=> After(ev, j, id) \/ e.id = id
    BY <1>2, <1>3, <1>5 DEF After
<1> QED
    BY <1>2, <1>6, <1>7

\* What comes after an element when the first is taken.
LEMMA AfterTail ==
    ASSUME NEW S, NEW ev \in Seq(S), ev # << >>, NEW id
    PROVE  /\ \A j \in DOMAIN Tail(ev) : j + 1 \in DOMAIN ev /\ Tail(ev)[j] = ev[j + 1]
                /\ (After(Tail(ev), j, id) <=> After(ev, j + 1, id))
           /\ After(ev, 0, id) <=> Head(ev).id = id \/ After(Tail(ev), 0, id)
           /\ After(ev, 1, id) <=> After(Tail(ev), 0, id)
           /\ 1 \in DOMAIN ev /\ ev[1] = Head(ev)
<1>1. Len(ev) \in Nat /\ DOMAIN ev = 1 .. Len(ev) /\ DOMAIN Tail(ev) = 1 .. Len(ev) - 1
    BY HeadTailProperties, LenProperties
<1>2. /\ \A i \in DOMAIN Tail(ev) : i + 1 \in DOMAIN ev /\ Tail(ev)[i] = ev[i + 1]
      /\ Head(ev) = ev[1] /\ 1 \in DOMAIN ev
    BY TailIndices, Zenon
<1>3. ASSUME NEW k \in DOMAIN ev, k # 1
      PROVE  k - 1 \in DOMAIN Tail(ev) /\ ev[k] = Tail(ev)[k - 1] /\ k - 1 + 1 = k
               /\ k - 1 > 0
    <2>1. k \in 1 .. Len(ev)
        BY <1>1, Zenon
    <2>2. k - 1 \in 1 .. Len(ev) - 1 /\ k - 1 + 1 = k /\ k - 1 > 0
        BY <1>1, <1>3, <2>1
    <2>3. k - 1 \in DOMAIN Tail(ev)
        BY <1>1, <2>2, Zenon
    <2>4. Tail(ev)[k - 1] = ev[k - 1 + 1]
        BY <1>2, <2>3
    <2> QED
        BY <2>2, <2>3, <2>4
<1>4. ASSUME NEW j \in Nat
      PROVE  After(Tail(ev), j, id) <=> After(ev, j + 1, id)
    <2>1. ASSUME After(Tail(ev), j, id) PROVE After(ev, j + 1, id)
        <3>1. PICK k \in DOMAIN Tail(ev) : k > j /\ Tail(ev)[k].id = id
            BY <2>1 DEF After
        <3>2. k \in Nat
            BY <1>1
        <3>3. k + 1 \in DOMAIN ev /\ ev[k + 1].id = id /\ k + 1 > j + 1
            BY <1>2, <3>1, <3>2
        <3> QED
            BY <3>3 DEF After
    <2>2. ASSUME After(ev, j + 1, id) PROVE After(Tail(ev), j, id)
        <3>1. PICK k \in DOMAIN ev : k > j + 1 /\ ev[k].id = id
            BY <2>2 DEF After
        <3>2. k \in Nat /\ k # 1
            BY <1>1, <3>1
        <3>3. k - 1 \in DOMAIN Tail(ev) /\ Tail(ev)[k - 1].id = id /\ k - 1 > j
            BY <1>3, <3>1, <3>2
        <3> QED
            BY <3>3 DEF After
    <2> QED
        BY <2>1, <2>2
<1>5. \A j \in DOMAIN Tail(ev) : j \in Nat
    BY <1>1
<1>6. After(ev, 1, id) <=> After(Tail(ev), 0, id)
    BY <1>4
<1>7. After(ev, 0, id) <=> Head(ev).id = id \/ After(ev, 1, id)
    <2>1. \A k \in DOMAIN ev : k > 0 /\ (k # 1 => k > 1) /\ (k > 1 => k > 0)
        BY <1>1
    <2> QED
        BY <1>2, <2>1 DEF After
<1> QED
    BY <1>2, <1>4, <1>5, <1>6, <1>7

\* Taking the first event keeps the order of the others.
LEMMA OrderTail ==
    ASSUME NEW ev \in Seq(Events), ev # << >>, NEW phase, Order(ev, phase)
    PROVE  Order(Tail(ev), phase)
BY AfterTail DEF Order, ClearAfter

\* After an end nothing earlier counts.
LEMMA OrderEnd ==
    ASSUME NEW ev \in Seq(Events), NEW e \in Events, e.id = "end"
    PROVE  Order(Append(ev, e), "idle")
<1> DEFINE s == Append(ev, e)
<1>1. \A j \in DOMAIN s : s[j] = e \/ After(s, j, "end")
    BY AfterAppend
<1>2. \A j \in DOMAIN s : ~After(s, j, "loaded") \/ After(s, j, "end")
    BY AfterAppend
<1> HIDE DEF s
<1>3. \A j \in DOMAIN s : s[j].id # "end" => After(s, j, "end")
    BY <1>1
<1>4. \A j \in DOMAIN s : OfFile(s[j]) => ClearAfter(s, j)
    BY <1>3 DEF OfFile, ClearAfter
<1>5. \A j \in DOMAIN s : s[j].id = "start" => After(s, j, "end")
    BY <1>3
<1>6. \A j \in DOMAIN s : After(s, j, "loaded") => ClearAfter(s, j)
    BY <1>2 DEF ClearAfter
<1>8. Order(s, "idle")
    BY <1>4, <1>5, <1>6 DEF Order
<1> QED
    BY <1>8 DEF s

\* After a start nothing earlier counts.
LEMMA OrderStart ==
    ASSUME NEW ev \in Seq(Events), NEW e \in Events, e.id = "start"
    PROVE  Order(Append(ev, e), "opening")
<1> DEFINE s == Append(ev, e)
<1>1. \A j \in DOMAIN s : s[j] = e \/ After(s, j, "start")
    BY AfterAppend
<1>2. \A j \in DOMAIN s : ~After(s, j, "loaded") \/ After(s, j, "start")
    BY AfterAppend
<1> HIDE DEF s
<1>3. \A j \in DOMAIN s : s[j].id # "start" => After(s, j, "start")
    BY <1>1
<1>4. \A j \in DOMAIN s : OfFile(s[j]) => ClearAfter(s, j)
    BY <1>3 DEF OfFile, ClearAfter
<1>5. \A j \in DOMAIN s : s[j].id = "end" => After(s, j, "start")
    BY <1>3
<1>6. \A j \in DOMAIN s : After(s, j, "loaded") => ClearAfter(s, j)
    BY <1>2 DEF ClearAfter
<1>8. Order(s, "opening")
    BY <1>4, <1>5, <1>6 DEF Order
<1> QED
    BY <1>8 DEF s

\* A file that opened is announced after its start.
LEMMA OrderLoaded ==
    ASSUME NEW ev \in Seq(Events), NEW e \in Events, e.id = "loaded", Order(ev, "opening")
    PROVE  Order(Append(ev, e), "playing")
<1> DEFINE s == Append(ev, e)
<1>1. \A j \in DOMAIN s : (s[j] = e /\ ~After(s, j, "loaded"))
        \/ (j \in DOMAIN ev /\ s[j] = ev[j])
    BY AfterAppend
<1>2. \A j \in DOMAIN ev : After(s, j, "loaded")
    BY AfterAppend
<1>3. \A j \in DOMAIN ev : ClearAfter(ev, j) => ClearAfter(s, j)
    BY AfterAppend DEF ClearAfter
<1>4. \A j \in DOMAIN ev : After(ev, j, "start") => After(s, j, "start")
    BY AfterAppend
<1> HIDE DEF s
<1>5. \A j \in DOMAIN s : s[j].id = "end" => After(s, j, "start")
    BY <1>1, <1>4 DEF Order
<1>6. \A j \in DOMAIN s : s[j].id = "start" => After(s, j, "loaded")
    BY <1>1, <1>2
<1>7. \A j \in DOMAIN s : s[j].id = "loaded" /\ After(s, j, "loaded") => ClearAfter(s, j)
    BY <1>1, <1>3 DEF Order, OfFile
<1>8. Order(s, "playing")
    BY <1>5, <1>6, <1>7 DEF Order
<1> QED
    BY <1>8 DEF s

\* Events of a playing file are in their place.
LEMMA OrderPicture ==
    ASSUME NEW ev \in Seq(Events), NEW e \in Events, e.id \in {"video", "look"},
             Order(ev, "playing")
    PROVE  Order(Append(ev, e), "playing")
BY AfterAppend DEF Order, ClearAfter, OfFile

\* Replies and a shutdown are in place anywhere.
LEMMA OrderOther ==
    ASSUME NEW ev \in Seq(Events), NEW e \in Events, e.id \in {"reply_error", "shutdown"},
             NEW phase, Order(ev, phase)
    PROVE  Order(Append(ev, e), phase)
BY AfterAppend DEF Order, ClearAfter, OfFile

\* Taking the first event keeps a refusal before the start it allowed.
LEMMA AnswerTail ==
    ASSUME NEW ev \in Seq(Events), ev # << >>, NEW file, NEW g, Answer(ev, file, g)
    PROVE  Answer(Tail(ev), file, g)
BY AfterTail DEF Answer

\* So does adding an event that answers something else.
LEMMA AnswerAppend ==
    ASSUME NEW ev \in Seq(Events), NEW e \in Events, NEW file, NEW g, Answer(ev, file, g),
           e.generation # g \/ file # g
    PROVE  Answer(Append(ev, e), file, g)
BY AfterAppend DEF Answer

\* A start comes after every answer.
LEMMA AnswerStart ==
    ASSUME NEW ev \in Seq(Events), NEW e \in Events, e.id = "start", e.generation = None,
             NEW file, NEW g \in Nat,
           None \notin Nat
    PROVE  Answer(Append(ev, e), file, g)
<1>1. \A j \in DOMAIN Append(ev, e) : Append(ev, e)[j] = e
        \/ After(Append(ev, e), j, "start")
    BY AfterAppend
<1> QED
    BY <1>1 DEF Answer

\* The stream is in order when a file was put down.
LEMMA OrderEnded ==
    ASSUME NEW ev \in Seq(Events), Order(ev, core.phase)
    PROVE  EndedBy(ev) \in Seq(Events) /\ Order(EndedBy(ev), "idle")
<1>1. Event("end") \in Events /\ Event("end").id = "end"
    BY EventIs
<1> QED
    BY <1>1, OrderEnd, EndedIs DEF EndedBy

\* The stream is in order when a file starts.
LEMMA OrderStarted ==
    ASSUME NEW ev \in Seq(Events)
    PROVE  Order(Append(ev, Event("start")), "opening")
<1>1. Event("start") \in Events /\ Event("start").id = "start"
    BY EventIs
<1> QED
    BY <1>1, OrderStart

\* Every step keeps the order of libmpv's stream.
LEMMA NextOrder ==
    ASSUME MpvAssumption, TypeInv, Order(events, core.phase), Next
    PROVE  Order(events', core'.phase)
<1>0. events \in Seq(Events) /\ core \in Cores
    BY DEF TypeInv
<1>1. CASE HandleEvent
    BY <1>0, <1>1, OrderTail DEF HandleEvent
<1>2. CASE CoreCommand
    <2> DEFINE op == Head(core.queue)
    <2>1. op \in Operations /\ CommandIs(op)
        BY <1>2, CoreCommandIs
    <2>2. ReplyError(op) \in Events /\ ReplyError(op).id = "reply_error"
        BY <2>1, ReplyIs
    <2> HIDE DEF op
    <2>3. Append(events, ReplyError(op)) \in Seq(Events)
            /\ Order(Append(events, ReplyError(op)), core.phase)
        BY <1>0, <2>2, OrderOther, AppendProperties
    <2>4. EndedBy(Append(events, ReplyError(op))) \in Seq(Events)
            /\ EndedBy(events) \in Seq(Events)
          /\ Order(EndedBy(events), "idle")
        BY <1>0, <2>3, OrderEnded
    <2>5. Opening(op).phase = "opening"
            /\ [Idle EXCEPT !.queue = Tail(core.queue)].phase = "idle"
          /\ [core EXCEPT !.queue = Tail(core.queue)].phase = core.phase
        BY <1>0 DEF Opening, Idle, Cores
    <2> QED
        BY <1>0, <2>1, <2>3, <2>4, <2>5, OrderStarted DEF CommandIs
<1>3. CASE CoreOpens
    <2>1. core.phase = "opening" /\ Order(events, "opening")
        BY <1>3 DEF CoreOpens
    <2>2. Event("loaded") \in Events /\ Event("loaded").id = "loaded"
          /\ Event("video") \in Events /\ Event("video").id = "video"
        BY EventIs
    <2>3. Append(events, Event("loaded")) \in Seq(Events)
            /\ Order(Append(events, Event("loaded")), "playing")
        BY <1>0, <2>1, <2>2, OrderLoaded, AppendProperties
    <2>4. Order(Append(Append(events, Event("loaded")), Event("video")), "playing")
        BY <2>2, <2>3, OrderPicture
    <2>5. Order(EndedBy(events), "idle")
        BY <1>0, OrderEnded
    <2>6. Idle.phase = "idle"
            /\ \A look \in Looks : [core EXCEPT !.phase = "playing", !.look = look].phase = "playing"
        BY <1>0 DEF Idle, Cores
    <2> QED
        BY <1>3, <2>4, <2>5, <2>6, CoreOpensIs
<1>4. CASE CorePlays
    <2>1. core.phase = "playing" /\ Order(events, "playing")
        BY <1>4 DEF CorePlays
    <2>2. Event("look") \in Events /\ Event("look").id = "look"
        BY EventIs
    <2>3. Order(Append(events, Event("look")), "playing") /\ Order(EndedBy(events), "idle")
        BY <1>0, <2>1, <2>2, OrderPicture, OrderEnded
    <2>4. Idle.phase = "idle"
            /\ \A look \in Looks : [core EXCEPT !.look = look].phase = core.phase
        BY <1>0 DEF Idle, Cores
    <2> QED
        BY <1>4, <2>1, <2>3, <2>4, CorePlaysIs
<1>5. CASE CoreShutsDown
    <2>1. Event("shutdown") \in Events /\ Event("shutdown").id = "shutdown"
        BY EventIs
    <2> QED
        BY <1>0, <1>5, <2>1, OrderOther DEF CoreShutsDown
<1>6. CASE Enqueue
    <2>1. core'.phase = core.phase /\ events' = events
        BY <1>0, <1>6 DEF Enqueue, Cores
    <2> QED
        BY <2>1
<1>7. CASE UNCHANGED <<core, events>>
    BY <1>7
<1>8. CASE UNCHANGED core /\ ~HandleEvent /\ ~CoreCommand /\ ~CoreOpens /\ ~CorePlays
             /\ ~CoreShutsDown
    BY <1>8, EventsMove
<1> QED
    BY <1>1, <1>2, <1>3, <1>4, <1>5, <1>6, <1>8, CoreMoves

\* A start comes after every answer of the load that it starts.
LEMMA AnswerStarted ==
    ASSUME NEW ev \in Seq(Events), NEW file, NEW g \in Nat, None \notin Nat
    PROVE  Answer(Append(ev, Event("start")), file, g)
<1>1. Event("start") \in Events /\ Event("start").id = "start"
        /\ Event("start").generation = None
    BY EventIs
<1> QED
    BY <1>1, AnswerStart

\* Every step keeps a refusal before the start.
LEMMA NextAnswer ==
    ASSUME MpvAssumption, TypeInv, Naming, Single, Answer(events, core.file, generation),
             Next
    PROVE  Answer(events', core'.file, generation')
<1>0. events \in Seq(Events) /\ core \in Cores /\ generation \in Nat /\ None \notin Nat
        /\ None # generation
    BY NaturalLoads DEF TypeInv, MpvAssumption
<1>1. CASE Load
    <2>1. core' = core /\ core.file \in Nat \cup {None} /\ generation' = generation + 1
        BY <1>1, NaturalLoads DEF Load, mpv
    <2>2. core'.file # generation'
        BY <1>0, <2>1 DEF Naming
    <2> QED
        BY <2>2 DEF Answer
<1>2. CASE HandleEvent
    BY <1>0, <1>2, AnswerTail DEF HandleEvent, ui
<1>3. CASE CoreCommand
    <2> DEFINE op == Head(core.queue)
    <2>1. op \in Operations /\ CommandIs(op) /\ generation' = generation
        BY <1>3, CoreCommandIs DEF CoreCommand, ui
    <2>2. ReplyError(op) \in Events /\ ReplyError(op).generation = op.generation
        BY <2>1, ReplyIs
    <2>3. op.generation = generation => core.file # generation
        <3>1. core.queue \in Seq(Operations) /\ core.queue # << >>
            BY <1>3, CoreCommandIs
        <3> QED
            BY <3>1, HasTail DEF Single
    <2> HIDE DEF op
    <2>4. Append(events, ReplyError(op)) \in Seq(Events)
            /\ Answer(Append(events, ReplyError(op)), core.file, generation)
        BY <1>0, <2>2, <2>3, AnswerAppend, AppendProperties
    <2>5. EndedBy(Append(events, ReplyError(op))) \in Seq(Events)
            /\ EndedBy(events) \in Seq(Events)
        BY <1>0, <2>4, EndedIs
    <2>6. [Idle EXCEPT !.queue = Tail(core.queue)].file = None
          /\ [core EXCEPT !.queue = Tail(core.queue)].file = core.file
        BY <1>0 DEF Idle, Cores
    <2>7. \A ev : Answer(ev, None, generation)
        BY <1>0 DEF Answer
    <2> QED
        BY <1>0, <2>1, <2>4, <2>5, <2>6, <2>7, AnswerStarted DEF CommandIs
<1>4. CASE CoreOpens \/ CorePlays
    <2>1. generation' = generation
        BY <1>4 DEF CoreOpens, CorePlays, ui
    <2>2. Idle.file = None
            /\ \A look \in Looks : [core EXCEPT !.look = look].file = core.file
                                 /\ [core EXCEPT !.phase = "playing", !.look = look].file = core.file
        BY <1>0 DEF Idle, Cores
    <2>3. \A ev : Answer(ev, None, generation)
        BY <1>0 DEF Answer
    <2>4. \A id \in {"loaded", "video", "look"} : Event(id) \in Events
            /\ Event(id).generation = None
        BY EventIs
    <2>5. Append(events, Event("loaded")) \in Seq(Events)
            /\ Answer(Append(events, Event("loaded")), core.file, generation)
          /\ Answer(Append(events, Event("look")), core.file, generation)
        BY <1>0, <2>4, AnswerAppend, AppendProperties
    <2>6. Answer(Append(Append(events, Event("loaded")), Event("video")), core.file, generation)
        BY <1>0, <2>4, <2>5, AnswerAppend
    <2> QED
        BY <1>4, <2>1, <2>2, <2>3, <2>5, <2>6, CoreOpensIs, CorePlaysIs
<1>5. CASE CoreShutsDown
    <2>1. Event("shutdown") \in Events /\ Event("shutdown").generation = None
        BY EventIs
    <2> QED
        BY <1>0, <1>5, <2>1, AnswerAppend DEF CoreShutsDown, ui
<1>6. CASE Enqueue
    <2>1. core'.file = core.file /\ events' = events /\ generation' = generation
        BY <1>0, <1>6 DEF Enqueue, Cores, ui
    <2> QED
        BY <2>1
<1>7. CASE StopMedia \/ TakeOperation \/ OperationError
    BY <1>7 DEF StopMedia, TakeOperation, OperationError, ui, mpv
<1>8. CASE UNCHANGED <<generation, commands, core, events>>
    BY <1>8
<1> QED
    BY <1>1, <1>2, <1>3, <1>4, <1>5, <1>6, <1>7, <1>8, WorkMoves

-----------------------------------------------------------------------------
(* What the published state says                                            *)

\* What the state shows of the latest load once it is settled which file it opened, and
\* nothing in the stream is about to clear the state: the load was refused, or it is
\* opening, or it plays; and the evidence is libmpv's unless a query will ask again.
Refused(s, c, g) == s.media_stopped /\ ~s.loading /\ c.file # g
Starting(s) == s.loading /\ ~s.media_stopped /\ ~s.file_loaded
Running(s) == ~s.loading /\ ~s.media_stopped /\ s.file_loaded
Shown(s, c, ev, g) ==
    \/ Refused(s, c, g)
    \/ c.phase = "opening" /\ Starting(s)
    \/ c.phase = "playing" /\ After(ev, 0, "loaded") /\ Starting(s)
    \/ c.phase = "playing" /\ ~After(ev, 0, "loaded") /\ Running(s)
Moved(ev) == After(ev, 0, "look") \/ After(ev, 0, "video")
Asking == control.at \in {"sample", "publish"}
Seen ==
    /\ pipeline.evidence # "none" \/ Asking => Running(state)
    /\ control.at = "publish" /\ "sampled" \in pipeline.current
         => control.look = core.look \/ Moved(events)
    /\ pipeline.evidence # "none" => pipeline.evidence = core.look \/ Moved(events)
         \/ overtaken \/ Asking
Steady ==
    /\ ~stopped /\ ~Held
    /\ ~Has(commands, generation) /\ ~Has(core.queue, generation)
         /\ ~Has(events, generation)
    /\ ~ClearAfter(events, 0)
Truthful == Shown(state, core, events, generation) /\ Seen
SteadyInv == Steady => Truthful

\* What is shown as running plays.
LEMMA Apart ==
    ASSUME NEW s, NEW c, NEW ev, NEW g, Shown(s, c, ev, g), Running(s)
    PROVE  c.phase = "playing" /\ ~After(ev, 0, "loaded")
BY DEF Shown, Refused, Starting, Running

\* Nothing of what readiness and evidence are made of moves.
Quiet ==
    /\ UNCHANGED <<generation, commands, core, events, state, overtaken, control>>
    /\ pipeline'.evidence = pipeline.evidence
    /\ "sampled" \in pipeline'.current => "sampled" \in pipeline.current

\* A step that is quiet changes none of it.
LEMMA QuietStays ==
    ASSUME TypeInv, Next, SteadyInv, Quiet
    PROVE  SteadyInv'
<1>1. stopped => stopped'
    BY FlagsType
<1>2. Steady' => Steady
    BY <1>1 DEF Steady, Quiet, Held, Carried
<1>3. Truthful => Truthful'
    BY DEF Truthful, Quiet, Seen, Asking
<1> QED
    BY <1>2, <1>3 DEF SteadyInv

\* Drawing, taking and resizing are quiet.
LEMMA PictureQuiet ==
    ASSUME TypeInv, Next, Resize \/ TakeGpuFrame \/ Snapshot \/ Deliver
    PROVE  Quiet
<1>1. UNCHANGED <<generation, commands, core, events, state, overtaken, control>>
    BY DEF Resize, TakeGpuFrame, Snapshot, Deliver, ui, mpv, ghosts
<1>2. CASE Resize
    <2> DEFINE resized == [pipeline EXCEPT !.viewport = ~@]
    <2>1. resized \in Pipelines /\ Same(resized, pipeline)
            /\ resized.current = pipeline.current
        BY DEF Pipelines, Same, TypeInv
    <2>2. Invalidate(resized).current = {} /\ Same(Invalidate(resized), resized)
        BY <2>1, InvalidateIs
    <2>3. pipeline' = resized \/ pipeline' = Invalidate(resized)
        BY <1>2 DEF Resize
    <2> HIDE DEF resized
    <2> QED
        BY <1>1, <2>1, <2>2, <2>3 DEF Quiet, Same
<1>3. CASE TakeGpuFrame
    <2>1. /\ Release(pipeline, "frame") \in Pipelines
               /\ Same(Release(pipeline, "frame"), pipeline)
          /\ Release(pipeline, "frame").current \subseteq pipeline.current
        BY ReleaseIs DEF Holders, TypeInv
    <2>2. pipeline' = [Release(pipeline, "frame") EXCEPT !.frame = FALSE]
        BY <1>3 DEF TakeGpuFrame
    <2> QED
        BY <1>1, <2>1, <2>2 DEF Quiet, Same, Pipelines
<1>4. CASE Snapshot
    <2>1. pipeline' = Hold(pipeline, "snapshot")
        BY <1>4 DEF Snapshot
    <2> QED
        BY <1>1, <2>1, HoldIs DEF Quiet, Same, TypeInv, Holders
<1>5. CASE Deliver
    <2> DEFINE consumed == Pass(pipeline, "snapshot", "consumed")
               full == Hold(Hold(consumed, "frame"), "drawn")
    <2>1. /\ consumed \in Pipelines /\ Same(consumed, pipeline)
          /\ "sampled" \in consumed.current => "sampled" \in pipeline.current
        BY HoldIs, ReleaseIs DEF Pass, TypeInv, Holders
    <2>2. PICK filled : /\ pipeline' = Release(filled, "snapshot")
                        /\ filled = consumed \/ filled = [full EXCEPT !.frame = TRUE]
        BY <1>5 DEF Deliver
    <2> HIDE DEF consumed
    <2>3. Hold(consumed, "frame") \in Pipelines /\ Same(Hold(consumed, "frame"), consumed)
          /\ Hold(consumed, "frame").current = consumed.current \cup {"frame"}
        BY <2>1, HoldIs DEF Holders
    <2>4. full \in Pipelines /\ Same(full, Hold(consumed, "frame"))
          /\ full.current = Hold(consumed, "frame").current \cup {"drawn"}
        BY <2>3, HoldIs DEF Holders
    <2> HIDE DEF full
    <2>5. [full EXCEPT !.frame = TRUE] \in Pipelines
            /\ Same([full EXCEPT !.frame = TRUE], full)
          /\ [full EXCEPT !.frame = TRUE].current = full.current
        BY <2>4 DEF Pipelines, Same
    <2>6. filled \in Pipelines /\ Same(filled, pipeline)
            /\ ("sampled" \in filled.current => "sampled" \in pipeline.current)
        BY <2>1, <2>2, <2>3, <2>4, <2>5 DEF Same
    <2>7. Same(pipeline', filled) /\ pipeline'.current \subseteq filled.current
        BY <2>2, <2>6, ReleaseIs DEF Holders
    <2> QED
        BY <1>1, <2>6, <2>7 DEF Quiet, Same
<1> QED
    BY <1>2, <1>3, <1>4, <1>5

\* Judging a snapshot is quiet or stops the player.
LEMMA JudgeQuiet ==
    ASSUME TypeInv, Next, EvidenceTimesOut \/ \E told \in Told : Qualify(told)
    PROVE  Quiet \/ stopped'
<1>1. UNCHANGED <<generation, commands, core, events, overtaken, control>>
    BY DEF EvidenceTimesOut, Qualify, ui, mpv, ghosts
<1>2. \/ FailQualification
      \/ state' = state
           /\ (pipeline' = pipeline \/ pipeline' = Release(pipeline, "snapshot"))
    BY DEF EvidenceTimesOut, Qualify
<1>3. \/ stopped'
      \/ state' = state
           /\ (pipeline' = pipeline \/ pipeline' = Release(pipeline, "snapshot"))
    BY <1>2 DEF FailQualification
<1>4. Same(Release(pipeline, "snapshot"), pipeline)
        /\ Release(pipeline, "snapshot").current \subseteq pipeline.current
    BY ReleaseIs DEF TypeInv, Holders
<1> QED
    BY <1>1, <1>3, <1>4 DEF Quiet, Same

\* A refused load: what apply_operation_error leaves.
Dropped == state' = [state EXCEPT !.loading = FALSE, !.file_loaded = FALSE, !.media_stopped = TRUE]
           /\ pipeline' = Clear(pipeline)

\* A refused load is shown as refused.
LEMMA DroppedShows ==
    ASSUME TypeInv, Dropped, core'.file # generation', ~Asking'
    PROVE  Truthful'
<1>1. Refused(state', core', generation')
    BY DEF Dropped, Refused, TypeInv, States
<1>2. pipeline'.evidence = "none"
    BY ClearIs DEF Dropped, TypeInv
<1>3. ~(control'.at = "publish")
    BY DEF Asking
<1> QED
    BY <1>1, <1>2, <1>3 DEF Truthful, Shown, Seen, Asking

\* An operation that failed: only the latest load's failure changes what is shown.
LEMMA ErrorSteady ==
    ASSUME MpvAssumption, TypeInv, Holding, Naming, Single, SteadyInv, OperationError, Next
    PROVE  SteadyInv'
<1> SUFFICES ASSUME Steady' PROVE Truthful'
    BY DEF SteadyInv
<1>1. /\ control.at = "op_error" /\ control' = Resting /\ stopped' = stopped /\ ~stopped
      /\ UNCHANGED <<generation, commands, core, events, overtaken>>
    BY DEF OperationError, Steady, ui, mpv, ghosts
<1>2. Carried /\ Proper(control.op, generation) /\ control'.at = "loop" /\ ~Asking'
        /\ ~Asking
    BY <1>1 DEF Carried, Naming, Resting, Asking
<1>3. None # generation
    BY NaturalLoads DEF MpvAssumption
<1>4. CASE Held
    <2>1. core'.file # generation'
        BY <1>1, <1>4 DEF Single
    <2>2. ~Stale(control.op.generation) /\ control.op.kind = "load"
        BY <1>2, <1>3, <1>4 DEF Held, Stale, Proper
    <2>3. Dropped
        BY <1>1, <2>2 DEF OperationError, ApplyOperationError, Dropped
    <2> QED
        BY <1>2, <2>1, <2>3, DroppedShows
<1>5. CASE ~Held
    <2>1. Stale(control.op.generation) \/ control.op.kind # "load"
        BY <1>2, <1>5 DEF Held, Stale, Proper
    <2>2. UNCHANGED <<state, pipeline>>
        BY <2>1 DEF OperationError, ApplyOperationError
    <2>3. Steady
        BY <1>1, <1>5 DEF Steady
    <2> QED
        BY <1>1, <1>2, <2>2, <2>3 DEF SteadyInv, Truthful, Seen, Asking
<1> QED
    BY <1>4, <1>5

\* Work on its way to libmpv changes nothing that is shown.
LEMMA WorkerSteady ==
    ASSUME MpvAssumption, TypeInv, Holding, Naming, Single, SteadyInv, Next,
           StopMedia \/ TakeOperation \/ Enqueue
    PROVE  SteadyInv'
<1> SUFFICES ASSUME Steady' PROVE Truthful'
    BY DEF SteadyInv
<1>1. stopped' = stopped /\ UNCHANGED <<generation, events, state, pipeline, overtaken>>
    BY DEF StopMedia, TakeOperation, Enqueue, ui, shared, mpv, ghosts
<1>2. /\ core'.file = core.file /\ core'.phase = core.phase /\ core'.look = core.look
      /\ UNCHANGED control \/ (~Asking /\ ~Asking')
    <2>1. CASE StopMedia
        BY <2>1 DEF StopMedia, mpv
    <2>2. CASE TakeOperation
        BY <2>2, TakeLeaves DEF TakeOperation, mpv, Asking
    <2>3. CASE Enqueue
        BY <2>3, EnqueueLeaves DEF Enqueue, Resting, Asking, TypeInv, Controls
    <2> QED
        BY <2>1, <2>2, <2>3
<1>3. Steady
    <2>1. CASE StopMedia
        <3>1. UNCHANGED <<control, core>>
            BY <2>1 DEF StopMedia, mpv
        <3> QED
            BY <1>1, <2>1, <3>1, StopLeaves DEF Steady, Held, Carried
    <2>2. CASE TakeOperation
        <3>1. UNCHANGED core
            BY <2>2 DEF TakeOperation, mpv
        <3> QED
            BY <1>1, <2>2, <3>1, TakeLeaves DEF Steady
    <2>3. CASE Enqueue
        <3>1. UNCHANGED commands
            BY <2>3 DEF Enqueue, ui
        <3> QED
            BY <1>1, <2>3, <3>1, EnqueueLeaves DEF Steady
    <2> QED
        BY <2>1, <2>2, <2>3
<1>4. Shown(state', core', events', generation')
    BY <1>1, <1>2, <1>3 DEF SteadyInv, Truthful, Shown, Refused
<1>5. Seen'
    BY <1>1, <1>2, <1>3 DEF SteadyInv, Truthful, Seen, Asking
<1> QED
    BY <1>4, <1>5 DEF Truthful

\* A query sees what libmpv decodes, and its answer is published for its own file.
LEMMA EvidenceSteady ==
    ASSUME MpvAssumption, TypeInv, Holding, SteadyInv, Next, SampleEvidence
             \/ PublishEvidence
    PROVE  SteadyInv'
<1> SUFFICES ASSUME Steady' PROVE Truthful'
    BY DEF SteadyInv
<1>1. stopped' = stopped /\ UNCHANGED <<generation, commands, core, events, state>>
    BY DEF SampleEvidence, PublishEvidence, ui, mpv
<1>2. Asking /\ ~Carried
    BY DEF SampleEvidence, PublishEvidence, Asking, Carried
<1>3. Steady
    BY <1>1, <1>2 DEF Steady, Held
<1>4. Shown(state', core', events', generation') /\ Running(state')
    BY <1>1, <1>2, <1>3 DEF SteadyInv, Truthful, Seen
<1>5. Seen'
    <2>1. CASE SampleEvidence
        <3>1. control'.at = "publish" /\ control'.look = core.look
            BY <2>1 DEF SampleEvidence, TypeInv, Controls
        <3> QED
            BY <1>1, <1>4, <3>1 DEF Seen, Asking
    <2>2. CASE PublishEvidence
        <3> DEFINE updated == UpdateEvidence(pipeline, control.look)
        <3>5. "sampled" \notin pipeline.current => overtaken'
            BY <2>2 DEF PublishEvidence
        <3>1. control'.at = "loop" /\ pipeline' = Release(updated, "sampled")
                /\ control.at = "publish"
            BY <1>1, <2>2 DEF PublishEvidence, Resting, Steady
        <3>2. updated \in Pipelines
                /\ ("sampled" \in pipeline.current => updated.evidence = control.look)
            BY <3>1, UpdateIs DEF Holding, TypeInv
        <3> HIDE DEF updated
        <3>3. pipeline'.evidence = updated.evidence
            BY <3>1, <3>2, ReleaseIs DEF Same, Holders
        <3>4. "sampled" \in pipeline.current => pipeline'.evidence = core'.look
                \/ Moved(events')
            BY <1>1, <1>3, <3>1, <3>2, <3>3 DEF SteadyInv, Truthful, Seen
        <3> QED
            BY <1>4, <3>1, <3>4, <3>5 DEF Seen, Asking
    <2> QED
        BY <2>1, <2>2
<1> QED
    BY <1>4, <1>5 DEF Truthful

\* An event more in the stream.
LEMMA AfterEvent ==
    ASSUME NEW ev \in Seq(Events), NEW e \in Events, NEW id
    PROVE  After(Append(ev, e), 0, id) <=> After(ev, 0, id) \/ e.id = id
BY AfterAppend

\* A file that is put down will clear the state.
LEMMA EndedClears ==
    ASSUME NEW ev \in Seq(Events), core.phase # "idle"
    PROVE  ClearAfter(EndedBy(ev), 0)
<1>1. Event("end") \in Events /\ Event("end").id = "end"
    BY EventIs
<1> QED
    BY <1>1, AfterEvent DEF EndedBy, ClearAfter

\* A file that starts will clear the state.
LEMMA StartClears ==
    ASSUME NEW ev \in Seq(Events)
    PROVE  ClearAfter(Append(ev, Event("start")), 0)
<1>1. Event("start") \in Events /\ Event("start").id = "start"
    BY EventIs
<1> QED
    BY <1>1, AfterEvent DEF ClearAfter

\* A command that libmpv carries out will clear the state, or was refused.
LEMMA CommandSteady ==
    ASSUME MpvAssumption, TypeInv, Naming, Opened, SteadyInv, Next, CoreCommand
    PROVE  SteadyInv'
<1> SUFFICES ASSUME Steady' PROVE Truthful'
    BY DEF SteadyInv
<1> DEFINE op == Head(core.queue)
<1>1. /\ stopped' = stopped /\ UNCHANGED <<generation, commands, control, state, pipeline,
           overtaken>>
    BY DEF CoreCommand, ui, shared, ghosts
<1>2. /\ op \in Operations /\ CommandIs(op) /\ core.queue \in Seq(Operations)
           /\ core.queue # << >>
      /\ Proper(op, generation) /\ core'.queue = Tail(core.queue)
    BY CoreCommandIs, CommandLeaves
<1>3. Has(core.queue, generation) <=> op.generation = generation
        \/ Has(core'.queue, generation)
    BY <1>2, HasTail
<1>4. /\ ReplyError(op) \in Events /\ ReplyError(op).id = "reply_error"
      /\ ReplyError(op).generation = op.generation
    BY <1>2, ReplyIs
<1>5. events \in Seq(Events) /\ core \in Cores /\ None # generation
    BY NaturalLoads DEF TypeInv, MpvAssumption
<1> HIDE DEF op
<1>6. Append(events, ReplyError(op)) \in Seq(Events)
        /\ EndedBy(Append(events, ReplyError(op))) \in Seq(Events)
      /\ EndedBy(events) \in Seq(Events)
    BY <1>4, <1>5, EndedIs, AppendProperties
<1>7. ~(events' = Append(EndedBy(events), Event("start")))
      /\ ~(events' = Append(EndedBy(Append(events, ReplyError(op))), Event("start")))
    BY <1>6, StartClears DEF Steady
<1>8. CASE op.kind # "load" /\ core' = [Idle EXCEPT !.queue = Tail(core.queue)]
             /\ events' = EndedBy(events)
    <2>1. core.phase = "idle" /\ events' = events
        BY <1>5, <1>8, EndedClears DEF Steady, EndedBy
    <2>2. core'.file = None /\ core.file = None
        BY <1>5, <1>8, <2>1 DEF Idle, Cores, Opened
    <2>3. op.generation # generation
        BY <1>2, <1>5, <1>8 DEF Proper
    <2>4. Steady
        BY <1>1, <1>3, <2>1, <2>3 DEF Steady, Held, Carried
    <2>5. Refused(state, core, generation)
        BY <2>1, <2>4 DEF SteadyInv, Truthful, Shown
    <2>6. Refused(state', core', generation')
        BY <1>1, <1>5, <2>2, <2>5 DEF Refused
    <2>7. pipeline.evidence = "none" /\ ~Asking
        BY <2>4, <2>5 DEF SteadyInv, Truthful, Seen, Refused, Running
    <2> QED
        BY <1>1, <2>6, <2>7 DEF Truthful, Shown, Seen, Asking
<1>9. CASE core' = [core EXCEPT !.queue = Tail(core.queue)]
             /\ events' = Append(events, ReplyError(op))
    <2>1. core'.file = core.file /\ core'.phase = core.phase /\ core'.look = core.look
        BY <1>5, <1>9 DEF Cores
    <2>2. op.generation # generation /\ ~Has(events, generation)
        BY <1>1, <1>4, <1>5, <1>9, HasAppend DEF Steady
    <2>3. /\ After(events', 0, "start") <=> After(events, 0, "start")
          /\ After(events', 0, "end") <=> After(events, 0, "end")
          /\ After(events', 0, "loaded") <=> After(events, 0, "loaded")
          /\ After(events', 0, "look") <=> After(events, 0, "look")
          /\ After(events', 0, "video") <=> After(events, 0, "video")
        BY <1>4, <1>5, <1>9, AfterEvent
    <2>4. Steady
        BY <1>1, <1>3, <2>2, <2>3 DEF Steady, Held, Carried, ClearAfter
    <2>5. Shown(state', core', events', generation')
        BY <1>1, <2>1, <2>3, <2>4 DEF SteadyInv, Truthful, Shown, Refused
    <2>6. Seen'
        BY <1>1, <2>1, <2>3, <2>4 DEF SteadyInv, Truthful, Seen, Asking, Moved
    <2> QED
        BY <2>5, <2>6 DEF Truthful
<1> QED
    BY <1>2, <1>7, <1>8, <1>9 DEF CommandIs

\* A file that opens will be shown as loaded.
LEMMA OpensSteady ==
    ASSUME MpvAssumption, TypeInv, SteadyInv, Next, CoreOpens
    PROVE  SteadyInv'
<1> SUFFICES ASSUME Steady' PROVE Truthful'
    BY DEF SteadyInv
<1>1. /\ stopped' = stopped /\ UNCHANGED <<generation, commands, control, state, pipeline,
           overtaken>>
      /\ core.phase = "opening"
    BY DEF CoreOpens, ui, shared, ghosts
<1>2. events \in Seq(Events) /\ core \in Cores
    BY DEF TypeInv
<1>3. ~(events' = EndedBy(events))
    BY <1>1, <1>2, EndedClears DEF Steady
<1>4. PICK look \in Looks : core' = [core EXCEPT !.phase = "playing", !.look = look]
    BY <1>3, CoreOpensIs
<1>5. events' = Append(Append(events, Event("loaded")), Event("video"))
    BY <1>3, CoreOpensIs
<1>6. core'.phase = "playing" /\ core'.file = core.file /\ core'.queue = core.queue
    BY <1>2, <1>4 DEF Cores
<1>7. /\ \A id \in {"loaded", "video"} : Event(id) \in Events /\ Event(id).id = id
      /\ Append(events, Event("loaded")) \in Seq(Events)
    BY <1>2, EventIs, AppendProperties
<1>8. /\ After(events, 0, "start") => After(events', 0, "start")
      /\ After(events, 0, "end") => After(events', 0, "end")
      /\ After(events', 0, "loaded") /\ After(events', 0, "video")
    BY <1>2, <1>5, <1>7, AfterEvent
<1>9. Has(events, generation) => Has(events', generation)
    BY <1>2, <1>5, <1>7, HasAppend
<1>10. Steady
    BY <1>1, <1>6, <1>8, <1>9 DEF Steady, Held, Carried, ClearAfter
<1>11. Refused(state, core, generation) \/ Starting(state)
    BY <1>1, <1>10 DEF SteadyInv, Truthful, Shown
<1>12. pipeline.evidence = "none" /\ ~Asking
    BY <1>10, <1>11 DEF SteadyInv, Truthful, Seen, Refused, Running, Starting
<1>13. Shown(state', core', events', generation')
    BY <1>1, <1>6, <1>8, <1>11 DEF Shown, Refused
<1> QED
    BY <1>1, <1>12, <1>13 DEF Truthful, Seen, Asking

\* A decoder that changes will be asked again.
LEMMA PlaysSteady ==
    ASSUME MpvAssumption, TypeInv, SteadyInv, Next, CorePlays
    PROVE  SteadyInv'
<1> SUFFICES ASSUME Steady' PROVE Truthful'
    BY DEF SteadyInv
<1>1. /\ stopped' = stopped /\ UNCHANGED <<generation, commands, control, state, pipeline,
           overtaken>>
      /\ core.phase = "playing"
    BY DEF CorePlays, ui, shared, ghosts
<1>2. events \in Seq(Events) /\ core \in Cores
    BY DEF TypeInv
<1>3. ~(events' = EndedBy(events))
    BY <1>1, <1>2, EndedClears DEF Steady
<1>4. PICK look \in Looks : core' = [core EXCEPT !.look = look]
    BY <1>3, CorePlaysIs
<1>5. events' = Append(events, Event("look"))
    BY <1>3, CorePlaysIs
<1>6. core'.phase = "playing" /\ core'.file = core.file /\ core'.queue = core.queue
    BY <1>1, <1>2, <1>4 DEF Cores
<1>7. Event("look") \in Events /\ Event("look").id = "look"
    BY EventIs
<1>8. /\ After(events, 0, "start") => After(events', 0, "start")
      /\ After(events, 0, "end") => After(events', 0, "end")
      /\ After(events', 0, "loaded") <=> After(events, 0, "loaded")
      /\ After(events', 0, "look")
    BY <1>2, <1>5, <1>7, AfterEvent
<1>9. Has(events, generation) => Has(events', generation)
    BY <1>2, <1>5, <1>7, HasAppend
<1>10. Steady
    BY <1>1, <1>6, <1>8, <1>9 DEF Steady, Held, Carried, ClearAfter
<1>11. Shown(state', core', events', generation')
    BY <1>1, <1>6, <1>8, <1>10 DEF SteadyInv, Truthful, Shown, Refused
<1>12. Seen'
    BY <1>1, <1>8, <1>10 DEF SteadyInv, Truthful, Seen, Asking, Moved
<1> QED
    BY <1>11, <1>12 DEF Truthful

\* What handling an event does, event by event.
LEMMA HandleIs ==
    ASSUME TypeInv, HandleEvent
    PROVE  /\ events \in Seq(Events) /\ events # << >> /\ events' = Tail(events)
                /\ Head(events) \in Events
           /\ ~stopped /\ control.at = "loop" /\ UNCHANGED <<generation, commands, core,
                overtaken>>
           /\ Head(events).id = "start" =>
                /\ Starting(state') /\ pipeline'.evidence = "none" /\ ~Asking'
           /\ Head(events).id = "end" =>
                /\ state'.media_stopped /\ ~state'.loading
                     /\ pipeline'.evidence = "none" /\ ~Asking'
           /\ Head(events).id = "loaded" =>
                /\ state'.file_loaded /\ ~state'.loading
                     /\ (state'.media_stopped <=> state.media_stopped)
                /\ pipeline'.evidence = pipeline.evidence
           /\ Head(events).id = "video" => state' = state
                /\ pipeline'.evidence = pipeline.evidence
           /\ Head(events).id = "look" => state' = state /\ pipeline' = pipeline
           /\ Head(events).id \in {"loaded", "video", "look"} =>
                control'.at = IF ~state'.loading /\ ~state'.media_stopped
                  THEN "sample" ELSE "loop"
           /\ Head(events).id = "reply_error" =>
                /\ ~Asking'
                /\ IF Stale(Head(events).generation) \/ Head(events).kind # "load"
                   THEN state' = state /\ pipeline' = pipeline ELSE Dropped
           /\ Head(events).id = "shutdown" => stopped'
<1> DEFINE e == Head(events)
<1>1. events \in Seq(Events) /\ events # << >> /\ events' = Tail(events) /\ e \in Events
      /\ ~stopped /\ control.at = "loop" /\ UNCHANGED <<generation, commands, core,
           overtaken>>
    BY TailIndices, HeadTailProperties DEF HandleEvent, TypeInv, ui
<1>2. Applied(e) /\ control' = IF Refreshes(e)
        THEN [control EXCEPT !.at = "sample"] ELSE control
    BY DEF HandleEvent
<1> HIDE DEF e
<1>3. state \in States /\ control \in Controls /\ pipeline \in Pipelines
    BY DEF TypeInv
<1>4. control'.at = IF Refreshes(e) THEN "sample" ELSE "loop"
    BY <1>1, <1>2, <1>3 DEF Controls
<1>5. e.id \notin {"loaded", "video", "look"} => ~Asking'
    BY <1>4 DEF Refreshes, Asking
<1>6. e.id \in {"loaded", "video", "look"} =>
        control'.at = IF ~state'.loading /\ ~state'.media_stopped THEN "sample" ELSE "loop"
    BY <1>4 DEF Refreshes
<1>7. ASSUME e.id = "start" PROVE Starting(state') /\ pipeline'.evidence = "none"
    <2>1. state' = [state EXCEPT !.loading = TRUE, !.file_loaded = FALSE, !.media_stopped = FALSE]
          /\ pipeline' = Clear(pipeline)
        BY <1>2, <1>7 DEF Applied
    <2> QED
        BY <1>3, <2>1, ClearIs DEF States, Starting
<1>8. ASSUME e.id = "end" PROVE state'.media_stopped /\ ~state'.loading
               /\ pipeline'.evidence = "none"
    <2>1. state' = [state EXCEPT !.loading = FALSE, !.media_stopped = TRUE]
          /\ pipeline' = Clear(pipeline)
        BY <1>2, <1>8 DEF Applied
    <2> QED
        BY <1>3, <2>1, ClearIs DEF States
<1>9. ASSUME e.id = "loaded"
      PROVE  /\ state'.file_loaded /\ ~state'.loading
                  /\ (state'.media_stopped <=> state.media_stopped)
             /\ pipeline'.evidence = pipeline.evidence
    <2>1. state' = [state EXCEPT !.file_loaded = TRUE, !.loading = FALSE]
            /\ pipeline' = pipeline
        BY <1>2, <1>9 DEF Applied
    <2> QED
        BY <1>3, <2>1 DEF States
<1>10. ASSUME e.id = "video" PROVE state' = state /\ pipeline'.evidence = pipeline.evidence
    <2>1. state' = state
            /\ pipeline' = [Invalidate(pipeline) EXCEPT !.ready = TRUE, !.absent = FALSE]
        BY <1>2, <1>10 DEF Applied
    <2>2. Invalidate(pipeline) \in Pipelines /\ Same(Invalidate(pipeline), pipeline)
        BY <1>3, InvalidateIs
    <2> QED
        BY <2>1, <2>2 DEF Pipelines, Same
<1>11. ASSUME e.id = "look" PROVE state' = state /\ pipeline' = pipeline
    BY <1>2, <1>11 DEF Applied, shared
<1>12. ASSUME e.id = "reply_error"
       PROVE  IF Stale(e.generation) \/ e.kind # "load" THEN state' = state
                /\ pipeline' = pipeline ELSE Dropped
    BY <1>2, <1>12 DEF Applied, ApplyOperationError, Dropped
<1>13. ASSUME e.id = "shutdown" PROVE stopped'
    BY <1>2, <1>13 DEF Applied
<1> QED
    BY <1>1, <1>5, <1>6, <1>7, <1>8, <1>9, <1>10, <1>11, <1>12, <1>13 DEF e

\* An event that is handled leaves the state true of the rest of the stream.
LEMMA HandleSteady ==
    ASSUME MpvAssumption, TypeInv, Naming, Opened, Order(events, core.phase),
           Answer(events, core.file, generation), SteadyInv, Next, HandleEvent
    PROVE  SteadyInv'
<1> SUFFICES ASSUME Steady' PROVE Truthful'
    BY DEF SteadyInv
<1> DEFINE e == Head(events)
<1>1. events \in Seq(Events) /\ events # << >> /\ events' = Tail(events) /\ e \in Events
      /\ ~stopped /\ control.at = "loop" /\ UNCHANGED <<generation, commands, core,
           overtaken>>
    BY HandleIs
<1>2. /\ 1 \in DOMAIN events /\ events[1] = e
      /\ \A id : After(events, 1, id) <=> After(events', 0, id)
      /\ \A id : After(events, 0, id) <=> e.id = id \/ After(events', 0, id)
    BY <1>1, AfterTail
<1>3. Has(events, generation) <=> e.generation = generation \/ Has(events', generation)
    BY <1>1, HasTail
<1>4. /\ ~stopped' /\ ~Has(commands, generation) /\ ~Has(core.queue, generation)
           /\ ~Has(events', generation)
      /\ ~After(events', 0, "start") /\ ~After(events', 0, "end")
    BY <1>1 DEF Steady, ClearAfter
<1>5. Proper(e, generation) /\ (e.kind = "load" => e.id = "reply_error")
    BY <1>2 DEF Naming, AllProper, Replies
<1>6. None # generation /\ core.phase \in {"idle", "opening", "playing"}
    BY NaturalLoads DEF MpvAssumption, TypeInv, Cores
<1>7. ~Held /\ ~Asking
    BY <1>1 DEF Held, Carried, Asking
<1>8. ~ClearAfter(events, 1)
    BY <1>2, <1>4 DEF ClearAfter
<1> HIDE DEF e
<1>9. CASE e.id = "start"
    <2>1. Starting(state') /\ pipeline'.evidence = "none" /\ ~Asking'
        BY <1>9, HandleIs DEF e
    <2>2. core.phase # "idle"
        BY <1>2, <1>4, <1>9 DEF Order
    <2>3. core.phase = "playing" => After(events', 0, "loaded")
        BY <1>2, <1>9 DEF Order
    <2> QED
        BY <1>1, <1>6, <2>1, <2>2, <2>3 DEF Truthful, Shown, Seen, Asking
<1>10. CASE e.id = "end"
    <2>1. state'.media_stopped /\ ~state'.loading /\ pipeline'.evidence = "none" /\ ~Asking'
        BY <1>10, HandleIs DEF e
    <2>2. core.phase = "idle"
        BY <1>2, <1>4, <1>10 DEF Order
    <2>3. core.file # generation
        BY <1>6, <2>2 DEF Opened
    <2> QED
        BY <1>1, <2>1, <2>3 DEF Truthful, Shown, Refused, Seen, Asking
<1>11. CASE e.id \in {"loaded", "video", "look"}
    <2>1. Steady
        BY <1>1, <1>2, <1>3, <1>4, <1>5, <1>6, <1>7, <1>11 DEF Steady, ClearAfter, Proper
    <2>2. core.phase = "playing"
        BY <1>2, <1>6, <1>8, <1>11 DEF Order, OfFile
    <2>3. Truthful
        BY <2>1 DEF SteadyInv
    <2>4. control'.at = IF ~state'.loading /\ ~state'.media_stopped
            THEN "sample" ELSE "loop"
        BY <1>11, HandleIs DEF e
    <2>5. CASE e.id = "loaded"
        <3>1. ~After(events', 0, "loaded") /\ After(events, 0, "loaded")
            BY <1>2, <1>8, <2>5 DEF Order
        <3>2. Refused(state, core, generation) \/ Starting(state)
            BY <2>2, <2>3, <3>1 DEF Truthful, Shown
        <3>3. /\ state'.file_loaded /\ ~state'.loading
                   /\ (state'.media_stopped <=> state.media_stopped)
              /\ pipeline'.evidence = pipeline.evidence
            BY <2>5, HandleIs DEF e
        <3>4. pipeline.evidence = "none"
            BY <2>3, <3>2 DEF Truthful, Seen, Refused, Starting, Running
        <3>5. Refused(state', core', generation') \/ Running(state')
            BY <1>1, <3>2, <3>3 DEF Refused, Starting, Running
        <3>6. Shown(state', core', events', generation')
            BY <1>1, <2>2, <3>1, <3>5 DEF Shown
        <3>7. Seen'
            BY <2>4, <3>3, <3>4 DEF Seen, Asking, Running
        <3> QED
            BY <3>6, <3>7 DEF Truthful
    <2>6. CASE e.id \in {"video", "look"}
        <3>1. state' = state /\ pipeline'.evidence = pipeline.evidence
            BY <2>6, HandleIs DEF e
        <3>2. After(events', 0, "loaded") <=> After(events, 0, "loaded")
            BY <1>2, <2>6
        <3>3. Shown(state', core', events', generation')
            BY <1>1, <2>3, <3>1, <3>2 DEF Truthful, Shown
        <3>4. ~state.loading /\ ~state.media_stopped => Running(state)
            BY <2>3 DEF Truthful, Shown, Refused, Starting, Running
        <3>5. pipeline.evidence # "none" => Running(state)
            BY <2>3 DEF Truthful, Seen
        <3>6. Seen'
            BY <2>4, <3>1, <3>4, <3>5 DEF Seen, Asking, Running
        <3> QED
            BY <3>3, <3>6 DEF Truthful
    <2> QED
        BY <1>11, <2>5, <2>6
<1>12. CASE e.id = "reply_error"
    <2>1. ~Asking' /\ IF Stale(e.generation) \/ e.kind # "load"
                      THEN state' = state /\ pipeline' = pipeline ELSE Dropped
        BY <1>12, HandleIs DEF e
    <2>2. CASE Stale(e.generation) \/ e.kind # "load"
        <3>1. e.generation # generation
            BY <1>5, <1>6, <2>2 DEF Stale, Proper
        <3>2. Steady
            BY <1>1, <1>2, <1>3, <1>4, <1>7, <1>12, <3>1 DEF Steady, ClearAfter
        <3>3. After(events', 0, "loaded") <=> After(events, 0, "loaded")
            BY <1>2, <1>12
        <3>4. Moved(events') <=> Moved(events)
            BY <1>2, <1>12 DEF Moved
        <3>5. Shown(state', core', events', generation')
            BY <1>1, <2>1, <2>2, <3>2, <3>3 DEF SteadyInv, Truthful, Shown
        <3>6. Seen'
            BY <1>1, <1>7, <2>1, <2>2, <3>2, <3>4 DEF SteadyInv, Truthful, Seen, Asking
        <3> QED
            BY <3>5, <3>6 DEF Truthful
    <2>3. CASE ~(Stale(e.generation) \/ e.kind # "load")
        <3>1. e.generation = generation
            BY <1>5, <2>3 DEF Stale, Proper
        <3>2. core.file # generation
            BY <1>2, <1>4, <3>1 DEF Answer
        <3> QED
            BY <1>1, <2>1, <2>3, <3>2, DroppedShows
    <2> QED
        BY <2>2, <2>3
<1>13. e.id # "shutdown"
    BY <1>4, HandleIs DEF e
<1> QED
    BY <1>1, <1>9, <1>10, <1>11, <1>12, <1>13 DEF Events

\* A shutdown that was not handled changes nothing.
LEMMA ShutsDownSteady ==
    ASSUME MpvAssumption, TypeInv, SteadyInv, Next, CoreShutsDown
    PROVE  SteadyInv'
<1> SUFFICES ASSUME Steady' PROVE Truthful'
    BY DEF SteadyInv
<1>1. /\ stopped' = stopped /\ events' = Append(events, Event("shutdown"))
      /\ UNCHANGED <<generation, commands, control, state, pipeline, overtaken, core>>
    BY DEF CoreShutsDown, ui, shared, ghosts
<1>2. events \in Seq(Events)
    BY DEF TypeInv
<1>3. Event("shutdown") \in Events /\ Event("shutdown").id = "shutdown"
    BY EventIs
<1>4. \A id : id # "shutdown" => (After(events', 0, id) <=> After(events, 0, id))
    BY <1>1, <1>2, <1>3, AfterEvent
<1>5. Has(events, generation) => Has(events', generation)
    BY <1>1, <1>2, <1>3, HasAppend
<1>6. Steady
    BY <1>1, <1>4, <1>5 DEF Steady, Held, Carried, ClearAfter
<1>7. Shown(state', core', events', generation')
    BY <1>1, <1>4, <1>6 DEF SteadyInv, Truthful, Shown
<1>8. Seen'
    BY <1>1, <1>4, <1>6 DEF SteadyInv, Truthful, Seen, Asking, Moved
<1> QED
    BY <1>7, <1>8 DEF Truthful

\* A new load is not settled.
LEMMA LoadUnsteady ==
    ASSUME MpvAssumption, TypeInv, Load
    PROVE  ~Steady'
<1>1. commands' = Append(commands, LoadOp(generation + 1)) /\ generation' = generation + 1
    BY DEF Load, LoadOp
<1>2. LoadOp(generation + 1) \in Operations /\ commands \in Seq(Operations)
    BY DEF Load, LoadOp, Operations, Loads, TypeInv, Queued, Counted, MpvAssumption
<1>3. Has(commands', generation')
    BY <1>1, <1>2, HasAppend DEF LoadOp
<1> QED
    BY <1>3 DEF Steady

\* The other steps are quiet or stop the player.
LEMMA OthersQuiet ==
    ASSUME TypeInv, Failing, Next,
           \/ Drop \/ Started \/ Joined \/ ControlEnds \/ ControlPanics
           \/ RenderStarts \/ DrawFails \/ Fail \/ RenderEnds
    PROVE  Quiet \/ stopped'
<1>1. CASE Drop \/ ControlPanics \/ DrawFails
    BY <1>1 DEF Drop, ControlPanics, DrawFails
<1>2. CASE Fail
    <2>1. stopped /\ stopped' = stopped
        BY <1>2 DEF Fail, Failing
    <2> QED
        BY <2>1
<1>3. CASE ControlEnds \/ RenderEnds
    BY <1>3 DEF ControlEnds, RenderEnds, shared
<1>4. CASE Started \/ RenderStarts
    BY <1>4 DEF Started, RenderStarts, Quiet, ui, mpv, ghosts
<1>5. CASE Joined
    BY <1>5 DEF Joined, Quiet, shared, mpv, ghosts
<1> QED
    BY <1>1, <1>2, <1>3, <1>4, <1>5

\* Every step keeps what the state says of the stream.
LEMMA NextSteady ==
    ASSUME MpvAssumption, TypeInv, Holding, Failing, Opened, Naming, Single,
           Order(events, core.phase), Answer(events, core.file, generation), SteadyInv, Next
    PROVE  SteadyInv'
<1>1. CASE Load
    BY <1>1, LoadUnsteady DEF SteadyInv
<1>2. CASE StopMedia \/ TakeOperation \/ Enqueue
    BY <1>2, WorkerSteady
<1>3. CASE OperationError
    BY <1>3, ErrorSteady
<1>4. CASE SampleEvidence \/ PublishEvidence
    BY <1>4, EvidenceSteady
<1>5. CASE HandleEvent
    BY <1>5, HandleSteady
<1>6. CASE CoreCommand \/ CoreOpens \/ CorePlays \/ CoreShutsDown
    BY <1>6, CommandSteady, OpensSteady, PlaysSteady, ShutsDownSteady
<1>7. ASSUME Quiet \/ stopped' PROVE SteadyInv'
    BY <1>7, QuietStays DEF SteadyInv, Steady
<1>8. CASE Resize \/ TakeGpuFrame \/ Snapshot \/ Deliver
    BY <1>7, <1>8, PictureQuiet
<1>9. CASE EvidenceTimesOut \/ \E told \in Told : Qualify(told)
    BY <1>7, <1>9, JudgeQuiet
<1>10. CASE \/ Drop \/ Started \/ Joined \/ ControlEnds \/ ControlPanics
            \/ RenderStarts \/ DrawFails \/ Fail \/ RenderEnds
    BY <1>7, <1>10, OthersQuiet
<1> QED
    BY <1>1, <1>2, <1>3, <1>4, <1>5, <1>6, <1>8, <1>9, <1>10
       DEF Next, Caller, Startup, ControlWorker, RenderWorker, CoreWorks

-----------------------------------------------------------------------------
(* A load that waits                                                        *)

\* The latest load was not handed to libmpv yet: it is shown as loading.
Given == Has(commands, generation)
  \/ (control.at = "enqueue" /\ control.op.generation = generation)
Waits == Pending => state.loading /\ ~state.file_loaded

\* Where each step of the control worker leaves it.
LEMMA ControlPlace ==
    ASSUME TypeInv, Next, control' # control
    PROVE  /\ control'.at = "enqueue" => TakeOperation
           /\ control'.at = "failing" => stopped'
<1> USE DEF TypeInv, Controls, Resting
<1>1. CASE TakeOperation
    BY <1>1 DEF TakeOperation
<1>2. CASE Enqueue \/ OperationError \/ PublishEvidence
    BY <1>2 DEF Enqueue, OperationError, PublishEvidence
<1>3. CASE HandleEvent
    BY <1>3 DEF HandleEvent
<1>4. CASE SampleEvidence
    BY <1>4 DEF SampleEvidence
<1>5. CASE ControlEnds
    BY <1>5 DEF ControlEnds
<1>6. CASE Fail
    BY <1>6 DEF Fail
<1>7. CASE ControlPanics
    BY <1>7 DEF ControlPanics
<1> QED
    BY <1>1, <1>2, <1>3, <1>4, <1>5, <1>6, <1>7, ControlMoves

\* A load that waits was waiting before, unless it is new.
LEMMA GivenBefore ==
    ASSUME MpvAssumption, TypeInv, Naming, Single, Next, ~Load, Given'
    PROVE  Given
<1>1. generation' = generation
    BY GenerationMoves
<1>2. CASE StopMedia
    BY <1>1, <1>2, StopLeaves DEF StopMedia, Given
<1>3. CASE TakeOperation
    <2>1. Has(commands', generation') \/ Held'
        BY DEF Given, Held, Carried
    <2>2. ~Held
        BY <1>3 DEF TakeOperation, Held, Carried
    <2> QED
        BY <1>1, <1>3, <2>1, <2>2, TakeLeaves DEF Given
<1>4. CASE ~StopMedia /\ ~TakeOperation
    <2>1. commands' = commands
        BY <1>4, CommandsMove
    <2>2. control'.at = "enqueue" => control' = control
        BY <1>4, ControlPlace
    <2> QED
        BY <1>1, <2>1, <2>2 DEF Given
<1> QED
    BY <1>2, <1>3, <1>4

\* Nothing of the loads before it ends the wait of a load.
LEMMA NextWaits ==
    ASSUME MpvAssumption, TypeInv, Holding, Failing, Naming, Single, Waits, Next
    PROVE  Waits'
<1> SUFFICES ASSUME Pending' PROVE state'.loading /\ ~state'.file_loaded
    BY DEF Waits
<1>0. ~stopped' /\ ~heard' /\ generation' > 0 /\ Given'
    BY DEF Pending, Given, Has
<1>1. CASE Load
    BY <1>1 DEF Load, TypeInv, States
<1>2. CASE ~Load
    <2>1. Given /\ ~stopped /\ generation' = generation
        BY <1>0, <1>2, GivenBefore, FlagsType, GenerationMoves
    <2>2. ~heard
        BY <1>0, <1>2, HeardMoves DEF HandleEvent
    <2>3. state.loading /\ ~state.file_loaded
        BY <1>0, <2>1, <2>2 DEF Waits, Pending, Given, Has
    <2>4. None # generation
        BY NaturalLoads DEF MpvAssumption
    <2>5. CASE OperationError
        <3>1. control.at = "op_error" /\ Carried /\ ~Held
            BY <2>1, <2>5 DEF OperationError, Given, Single, Carried
        <3>2. Stale(control.op.generation) \/ control.op.kind # "load"
            BY <2>4, <3>1 DEF Held, Stale, Naming, Proper
        <3>3. state' = state
            BY <2>5, <3>2 DEF OperationError, ApplyOperationError
        <3> QED
            BY <2>3, <3>3
    <2>6. CASE HandleEvent
        <3>1. Has(commands, generation) /\ ~Has(events, generation)
            BY <2>1, <2>6 DEF HandleEvent, Given, Single
        <3>2. Head(events) \in Events /\ Head(events).generation # generation
            BY <2>6, <3>1, HandleIs, HandleLeaves
        <3>3. Head(events).id \notin {"start", "loaded", "end"}
            BY <1>0, <2>6 DEF HandleEvent
        <3>4. Proper(Head(events), generation)
            <4>1. 1 \in DOMAIN events /\ events[1] = Head(events)
                BY <2>6, HandleIs, AfterTail
            <4> QED
                BY <4>1 DEF Naming, AllProper
        <3>5. Stale(Head(events).generation) \/ Head(events).kind # "load"
            BY <2>4, <3>2, <3>4 DEF Stale, Proper
        <3>6. state' = state
            BY <1>0, <2>6, <3>2, <3>3, <3>5, HandleIs DEF Events
        <3> QED
            BY <2>3, <3>6
    <2>7. CASE EvidenceTimesOut \/ \E told \in Told : Qualify(told)
        <3>1. FailQualification \/ state' = state
            BY <2>7 DEF EvidenceTimesOut, Qualify
        <3> QED
            BY <1>0, <2>3, <3>1, FailQualificationIs
    <2>8. CASE Fail
        BY <2>1, <2>8 DEF Fail, Failing
    <2> QED
        BY <1>2, <2>3, <2>5, <2>6, <2>7, <2>8, StateMoves
<1> QED
    BY <1>1, <1>2

-----------------------------------------------------------------------------
(* The invariant                                                            *)

\* The inductive invariant.
IInv ==
    /\ TypeInv /\ Holding /\ Judging /\ Failing /\ Opened /\ Naming /\ Single
    /\ Frames /\ Order(events, core.phase) /\ Answer(events, core.file, generation)
    /\ SteadyInv /\ Waits

\* Initially all of it holds.
LEMMA InitIInv == MpvAssumption /\ Init => IInv
<1> SUFFICES ASSUME MpvAssumption, Init PROVE IInv
    OBVIOUS
<1> USE DEF Init, Resting
<1>1. TypeInv
    <2>1. Counted
        BY DEF Counted, MpvAssumption
    <2>5. Flags
        BY Zenon DEF Flags
    <2>2. Queued /\ events \in Seq(Events) /\ core \in Cores
        BY DEF Queued, Cores, Looks, MpvAssumption
    <2>3. state \in States /\ pipeline \in Pipelines
        BY DEF States, Pipelines
    <2>4. control \in Controls /\ render \in Renders
        BY DEF Controls, Renders
    <2> QED
        BY <2>1, <2>2, <2>3, <2>4, <2>5 DEF TypeInv
<1>2. Holding /\ Judging /\ Failing /\ Opened
    BY DEF Holding, Judging, Failing, Opened
<1>3. Naming /\ Single
    BY DEF Naming, Single, AllProper, Replies, Carried, Once, Has, Held
<1>4. Frames
    BY DEF Frames, Fatal
<1>5. Order(events, core.phase) /\ Answer(events, core.file, generation)
    BY DEF Order, Answer
<1>6. SteadyInv
    <2>1. None # 0
        BY DEF MpvAssumption
    <2>2. Refused(state, core, generation)
        BY <2>1 DEF Refused
    <2>3. Seen
        BY DEF Seen, Asking
    <2> QED
        BY <2>2, <2>3 DEF SteadyInv, Truthful, Shown
<1>7. Waits
    BY DEF Waits, Pending
<1> QED
    BY <1>1, <1>2, <1>3, <1>4, <1>5, <1>6, <1>7 DEF IInv

\* Every step keeps all of it.
LEMMA NextIInv == MpvAssumption /\ IInv /\ [Next]_vars => IInv'
<1> SUFFICES ASSUME MpvAssumption, IInv, [Next]_vars PROVE IInv'
    OBVIOUS
<1>1. CASE Next
    <2> USE <1>1 DEF IInv
    <2>1. TypeInv'
        BY CountedType, FlagsType, CommandsType, StateType, PipelineType, ControlType,
             RenderType,
           CoreType, EventsType DEF TypeInv
    <2>2. Holding' /\ Judging' /\ Opened'
        BY ControlType, RenderType, CoreType
    <2>3. Failing'
        BY NextFailing
    <2>4. Naming' /\ Single' /\ Frames'
        BY NextWork, NextFrames
    <2>5. Order(events', core'.phase) /\ Answer(events', core'.file, generation')
        BY NextOrder, NextAnswer
    <2>6. SteadyInv' /\ Waits'
        BY NextSteady, NextWaits
    <2> QED
        BY <2>1, <2>2, <2>3, <2>4, <2>5, <2>6
<1>2. CASE UNCHANGED vars
    BY <1>2 DEF vars, ui, shared, mpv, ghosts, bounds, IInv, TypeInv, Counted, Flags,
                  Queued,
                Holding, Judging, Failing, Opened, Naming, Carried, Single, Held, Frames,
                SteadyInv, Steady, Truthful, Seen, Asking, Waits, Pending
<1> QED
    BY <1>1, <1>2

\* Once nothing is on its way, the latest load is settled.
LEMMA SettledSteady ==
    ASSUME Settled
    PROVE  Steady /\ ~Asking /\ \A id : ~After(events, 0, id)
BY DEF Settled, Steady, Asking, Held, Carried, Has, ClearAfter, After

\* What is claimed of the published state follows.
LEMMA IInvTells == IInv => TellsTruth
<1> SUFFICES ASSUME IInv PROVE TellsTruth
    OBVIOUS
<1>1. TypeOK
    BY TypeInvIs DEF IInv
<1>2. Pending => state.loading /\ ~state.file_loaded
    BY DEF IInv, Waits
<1>3. ASSUME Settled
      PROVE  /\ Ready => core.phase = "playing"
             /\ core.phase = "playing" /\ core.file = generation => Ready
             /\ state.loading => core.phase = "opening"
    <2>1. Truthful /\ ~After(events, 0, "loaded")
        BY <1>3, SettledSteady DEF IInv, SteadyInv
    <2>2. Shown(state, core, events, generation)
        BY <2>1 DEF Truthful
    <2> QED
        BY <2>1, <2>2 DEF Shown, Refused, Starting, Running, Ready
<1> QED
    BY <1>1, <1>2, <1>3 DEF TellsTruth

\* What is claimed of frames follows.
LEMMA IInvFrames == IInv => FramesQualified
<1> SUFFICES ASSUME IInv, Takeable(pipeline)
             PROVE  /\ pipeline.evidence = "good" /\ pipeline.ready
                    /\ ~state.fatal
                    /\ Settled /\ ~overtaken => core.phase = "playing" /\ core.look = "good"
    BY DEF FramesQualified
<1>1. pipeline.evidence = "good" /\ pipeline.ready /\ ~state.fatal
    BY DEF IInv, Takeable, Frames, Fatal
<1>2. ASSUME Settled, ~overtaken
      PROVE  core.phase = "playing" /\ core.look = "good"
    <2>1. Truthful /\ ~Asking /\ ~Moved(events)
        BY <1>2, SettledSteady DEF IInv, SteadyInv, Moved
    <2>2. Shown(state, core, events, generation) /\ Running(state) /\ core.look = "good"
        BY <1>1, <1>2, <2>1 DEF Truthful, Seen
    <2> QED
        BY <2>2, Apart
<1> QED
    BY <1>1, <1>2

\* The invariant holds in every behaviour of the caller, the workers and libmpv.
THEOREM Invariant == Spec => []IInv
<1>1. Init => IInv
    BY MpvAssumption, InitIInv
<1>2. IInv /\ [Next]_vars => IInv'
    BY MpvAssumption, NextIInv
<1> QED
    BY <1>1, <1>2, PTL DEF Spec

\* A load that waits is shown as loading whatever becomes of the loads before it, and
\* once nothing is on its way ready means that libmpv plays (Player::load,
\* operation_error, command_reply_error and handle_event).
THEOREM AlwaysTellsTruth == Spec => []TellsTruth
<1> QED
    BY Invariant, IInvTells, PTL

\* A frame that can be taken was qualified by the evidence the pipeline holds, never of
\* a failed player, and at rest that evidence is true of what libmpv decodes (take_gpu,
\* Snapshot to Deliver and refresh_decode_evidence).
THEOREM AlwaysQualified == Spec => []FramesQualified
<1> QED
    BY Invariant, IInvFrames, PTL
=============================================================================
