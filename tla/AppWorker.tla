------------------------------- MODULE AppWorker -------------------------------
(***************************************************************************)
(* The application worker and the user interface that commands it: the     *)
(* bounded mailbox with its cancellation flags, account flag and           *)
(* credential revisions, the worker's loop from taking a request to        *)
(* publishing its answer, the coordinator that applies answers (tracker,   *)
(* player windows, tombstones of closed windows, releases to retry), and   *)
(* the inline play session that owns one preparation and launch.           *)
(*                                                                         *)
(* A request, a preparation and a session are named by the generation of   *)
(* the command that made them. A cancellation flag is the membership of    *)
(* its generation in mail.cancelled; an account flag is the number of its  *)
(* rotation (mail.epoch), set when it is not the newest or mail.dead.      *)
(***************************************************************************)
EXTENDS Naturals, Sequences, FiniteSets, SequencesExt

CONSTANTS
    Providers,      \* the debrid services
    Capacity,       \* CAPACITY: commands admitted and not yet answered
    Kinds,          \* the kinds of command the user issues, besides playing a stream
    UserCommands,   \* bound: commands the user issues
    Faults          \* bound: failed releases and deaths of the worker

NoProvider == "none"
ASSUME CapacityAssumption == Capacity \in Nat \ {0}
ASSUME BoundsAssumption == UserCommands \in Nat /\ Faults \in Nat
ASSUME ProviderAssumption == NoProvider \notin Providers

VARIABLES
    mail,       \* Mailbox, shared by both threads under its lock
    app,        \* Application: what the worker owns
    job,        \* where the worker is in run_application
    ui,         \* AppCoordinator and Tracker
    ps,         \* PlaySession of the open detail page
    left        \* what is left of the bounds

vars == <<mail, app, job, ui, ps, left>>

-----------------------------------------------------------------------------
(* The mailbox *)

Command(kind, prov, id) == [kind |-> kind, prov |-> prov, id |-> id]
Outcome(kind, prov, id) == [kind |-> kind, prov |-> prov, id |-> id, released |-> {}]
Failed == Outcome("Failed", NoProvider, 0)
Event(g, outcome) == [kind |-> outcome.kind, prov |-> outcome.prov, id |-> outcome.id,
                      released |-> outcome.released, gen |-> g]
Invalidated(ids) == [kind |-> "Invalidated", prov |-> NoProvider, id |-> 0,
                     released |-> ids, gen |-> 0]

Pipeline(c) == c.kind \in {"Prepare", "Play", "Local", "Test"}

\* Replaceable commands: a newer one of the family removes the queued one.
Family(c) == CASE c.kind \in {"Play", "Local"} -> <<"play", NoProvider>>
               [] c.kind \in {"Load", "Prepare", "Test"} -> <<c.kind, c.prov>>
               [] OTHER -> <<>>

Invalidates(c, scope) == \/ c.kind = "Save" /\ c.prov # scope
                         \/ c.kind = "Cred" /\ c.prov = scope

ConsumesBudget(e) == e.kind # "Invalidated"
Charged(events) == Cardinality({i \in DOMAIN events : ConsumesBudget(events[i])})

Accepts(m) == ~m.stopped /\ m.outstanding < Capacity

\* Mutant: a superseded command is removed without an answer.
SupersededSilently(m, c) == <<>>

\* The queued commands c replaces, and the answers they get at once.
Replaced(m, c) == {i \in DOMAIN m.queue : Family(m.queue[i]) # <<>>
                                           /\ Family(m.queue[i]) = Family(c)}
First(places) == CHOOSE i \in places : \A j \in places : i <= j
SupersededEvents(m, c) ==
    IF Replaced(m, c) = {} THEN <<>>
    ELSE <<Event(m.queue[First(Replaced(m, c))].gen, Failed)>>

\* What submit does to the mailbox under its lock.
Submitted(m, g, c) ==
    LET cut == IF Pipeline(c) \/ Invalidates(c, m.scope) \/ c.kind = "Save"
               THEN m.pipeline ELSE {}
        places == Replaced(m, c)
        revs == IF c.kind = "Cred" THEN [m.revs EXCEPT ![c.prov] = @ + 1] ELSE m.revs
        request == [kind |-> c.kind, prov |-> c.prov, id |-> c.id, gen |-> g, revs |-> revs]
    IN  [m EXCEPT
          !.revs = revs,
          !.dead = @ \/ Invalidates(c, m.scope),
          !.cancelled = (@ \cup cut) \ {m.queue[i].gen : i \in places},
          !.pipeline = (@ \ cut) \cup (IF Pipeline(c) THEN {g} ELSE {}),
          !.events = @ \o SupersededEvents(m, c),
          !.queue = Append(IF places = {} THEN @ ELSE RemoveAt(@, First(places)), request),
          !.outstanding = @ + 1]

\* What cancel_request does: only for a generation the worker still owns.
Owned(m, g) == \/ g \in {m.active, m.preparedGen}
               \/ \E r \in ToSet(m.queue) : r.gen = g
CancelRequest(m, g) ==
    IF m.stopped \/ g = 0 \/ ~Owned(m, g) THEN m
    ELSE [m EXCEPT !.discarded = @ \cup {g},
                   !.cancelled = IF g = m.active \/ \E r \in ToSet(m.queue) : r.gen = g
                                 THEN @ \cup {g} ELSE @]

Rotated(m, provider) ==
    [m EXCEPT !.epoch = @ + 1, !.scope = provider, !.dead = FALSE]

Emit(m, e) == IF m.stopped THEN m ELSE [m EXCEPT !.events = Append(@, e)]

-----------------------------------------------------------------------------
(* The worker *)

NoPrep == [gen |-> 0, prov |-> NoProvider, epoch |-> 0]
NoJob == [pc |-> "idle", req |-> [kind |-> "none", gen |-> 0], epoch |-> 0,
          invalidated |-> FALSE, outcome |-> Failed]

Canceled == job.req.gen \in mail.cancelled
AccountGone == job.epoch # mail.epoch \/ mail.dead
Validated(provider) == job.req.revs[provider] = mail.revs[provider]
RemoteIds == {s.id : s \in {r \in app.sessions : r.remote}}

\* Mutant: the records go without their leases.
ClearedRecords(a) == [a EXCEPT !.prepared = NoPrep, !.sessions = {s \in @ : ~s.remote}]

\* Application::invalidate: the preparation and every remote session go.
Cleared(a) == [a EXCEPT !.prepared = NoPrep,
                        !.sessions = {s \in @ : ~s.remote},
                        !.leases = @ \ RemoteIds]

\* The head of the loop: discarded preparations are dropped, then the next
\* request is taken and, for an account action, the account flag rotated.
Take ==
    /\ job.pc = "idle" /\ ~mail.stopped
    /\ mail.queue # <<>> \/ mail.discarded # {}
    /\ LET prepared == IF app.prepared.gen \in mail.discarded THEN NoPrep ELSE app.prepared
           drained == [mail EXCEPT !.discarded = {}, !.preparedGen = prepared.gen]
       IN  /\ app' = [app EXCEPT !.prepared = prepared]
           /\ IF mail.queue = <<>> THEN mail' = drained /\ job' = job
              ELSE LET r == Head(mail.queue)
                       invalidate == Invalidates(r, mail.scope)
                       taken == [drained EXCEPT !.queue = Tail(@), !.active = r.gen]
                       provider == IF r.kind = "Save" THEN r.prov ELSE mail.scope
                   IN  /\ mail' = IF invalidate THEN Rotated(taken, provider) ELSE taken
                       /\ job' = [NoJob EXCEPT
                                    !.pc = IF invalidate THEN "invalidate"
                                           ELSE IF r.kind = "Prepare" THEN "preflight"
                                           ELSE "execute",
                                    !.req = r, !.epoch = mail'.epoch,
                                    !.invalidated = invalidate]
    /\ UNCHANGED <<ui, ps, left>>

Invalidate ==
    /\ job.pc = "invalidate"
    /\ app' = Cleared(app)
    /\ mail' = Emit(mail, Invalidated(RemoteIds))
    /\ job' = [job EXCEPT !.pc = "execute"]
    /\ UNCHANGED <<ui, ps, left>>

Finish(outcome) == job' = [job EXCEPT !.pc = "reconcile", !.outcome = outcome]

\* Application::settings: loads from disk when nothing is loaded.
Loaded(a) == IF a.settings = NoProvider THEN [a EXCEPT !.settings = a.disk] ELSE a

\* Mutant: the account flag does not follow the settings.
ReconcileNever(m, settings) == m

\* The account flag follows the settings in effect.
Reconcile(m, settings) ==
    IF settings \in {NoProvider, m.scope} THEN m ELSE Rotated(m, settings)
Changed(m, settings) == m.scope # NoProvider /\ settings \notin {NoProvider, m.scope}

\* A preparation with no settings in memory loads them first, so that the
\* account flag it captures is the one of its provider.
Preflight ==
    /\ job.pc = "preflight"
    /\ \/ /\ app.settings # NoProvider \/ Canceled
          /\ job' = [job EXCEPT !.pc = "execute"]
          /\ UNCHANGED <<mail, app>>
       \/ /\ app.settings = NoProvider /\ ~Canceled
          /\ Finish(Failed)
          /\ UNCHANGED <<mail, app>>
       \/ /\ app.settings = NoProvider /\ ~Canceled
          /\ LET changed == Changed(mail, app.disk)
                 fresh == Reconcile(mail, app.disk)
             IN  /\ app' = IF changed THEN Cleared(Loaded(app)) ELSE Loaded(app)
                 /\ mail' = IF changed THEN Emit(fresh, Invalidated(RemoteIds)) ELSE fresh
                 /\ job' = [job EXCEPT !.pc = "execute", !.epoch = mail'.epoch,
                                       !.invalidated = changed]
    /\ UNCHANGED <<ui, ps, left>>

\* Every operation first checks its cancellation flag.
ExecuteCanceled ==
    /\ job.pc = "execute" /\ Canceled
    /\ Finish(Failed)
    /\ UNCHANGED <<mail, app, ui, ps, left>>

Executing(kind) == job.pc = "execute" /\ ~Canceled /\ job.req.kind = kind

\* Settings, credentials and the credential test; each may fail.
ExecuteLoad ==
    /\ Executing("Load")
    /\ \/ /\ app' = [app EXCEPT !.settings = app.disk]
          /\ Finish(Outcome("Settings", app.disk, 0))
       \/ app' = [app EXCEPT !.settings = NoProvider] /\ Finish(Failed)
    /\ UNCHANGED <<mail, ui, ps, left>>

ExecuteSave ==
    /\ Executing("Save")
    /\ \/ /\ app' = [app EXCEPT !.disk = job.req.prov, !.settings = job.req.prov]
          /\ Finish(Outcome("Settings", job.req.prov, 0))
       \/ \* refused by the quota, or not saved: the limit is rolled back
          /\ app' \in {app, Loaded(app)}
          /\ Finish(Failed)
    /\ UNCHANGED <<mail, ui, ps, left>>

ExecuteCredential ==
    /\ Executing("Cred")
    /\ \/ app' = Loaded(app) /\ Finish(Outcome("Settings", Loaded(app).settings, 0))
       \/ UNCHANGED app /\ Finish(Failed)
    /\ UNCHANGED <<mail, ui, ps, left>>

ExecuteTest ==
    /\ Executing("Test")
    /\ \/ Validated(job.req.prov) /\ Finish(Outcome("Checked", job.req.prov, 0))
       \/ Finish(Failed)
    /\ UNCHANGED <<mail, app, ui, ps, left>>

\* Prepare: the retained preparation goes first; the provider then prepares
\* the torrent, and every check is repeated before the result is retained.
BeginPrepare ==
    /\ Executing("Prepare")
    /\ app' = [app EXCEPT !.prepared = NoPrep]
    /\ \/ /\ Validated(app.settings) /\ ~AccountGone
          /\ job' = [job EXCEPT !.pc = "preparing"]
       \/ Finish(Failed)
    /\ UNCHANGED <<mail, ui, ps, left>>

Prepared ==
    /\ job.pc = "preparing"
    /\ \/ /\ ~Canceled /\ ~AccountGone /\ Validated(app.settings)
          /\ \/ /\ app' = [app EXCEPT !.prepared = [gen |-> job.req.gen,
                                                    prov |-> app.settings,
                                                    epoch |-> job.epoch]]
                /\ Finish(Outcome("Prepared", app.settings, 0))
             \/ \* the file could not be told from the others
                UNCHANGED app /\ Finish(Outcome("Unmatched", app.settings, 0))
       \/ UNCHANGED app /\ Finish(Failed)
    /\ UNCHANGED <<mail, ui, ps, left>>

\* PlayFile: only the retained preparation; its link is resolved, then the
\* media service registers the session.
BeginPlay ==
    /\ Executing("Play")
    /\ IF /\ app.prepared.gen = job.req.id
          /\ Validated(app.prepared.prov)
          /\ ~AccountGone
       THEN job' = [job EXCEPT !.pc = "resolving"]
       ELSE Finish(Failed)
    /\ UNCHANGED <<mail, app, ui, ps, left>>

Resolved ==
    /\ job.pc = "resolving"
    /\ \/ /\ ~Canceled /\ ~AccountGone /\ Validated(app.prepared.prov)
          /\ app' = [Loaded(app) EXCEPT !.leases = @ \cup {job.req.gen}]
          /\ job' = [job EXCEPT !.pc = "launching"]
       \/ UNCHANGED app /\ Finish(Failed)
    /\ UNCHANGED <<mail, ui, ps, left>>

PlayLocal ==
    /\ Executing("Local")
    /\ \/ /\ app' = [Loaded(app) EXCEPT !.leases = @ \cup {job.req.gen}]
          /\ job' = [job EXCEPT !.pc = "launching"]
       \/ UNCHANGED app /\ Finish(Failed)
    /\ UNCHANGED <<mail, ui, ps, left>>

\* launch: a cancelled or failed launch gives the lease back.
Launch ==
    /\ job.pc = "launching"
    /\ LET g == job.req.gen
           remote == job.req.kind = "Play"
       IN  \/ /\ ~Canceled
              /\ \E managed \in BOOLEAN :
                   /\ app' = [app EXCEPT !.sessions =
                                @ \cup {[id |-> g, remote |-> remote, managed |-> managed,
                                         epoch |-> job.epoch, reported |-> FALSE]}]
                   /\ Finish(Outcome(IF managed THEN "Embedded" ELSE "Started", NoProvider, g))
           \/ /\ app' = [app EXCEPT !.leases = @ \ {g}]
              /\ Finish(Failed)
    /\ UNCHANGED <<mail, ui, ps, left>>

ReleaseSession ==
    /\ Executing("Release")
    /\ \/ /\ app' = [app EXCEPT !.leases = @ \ {job.req.id},
                                !.sessions = {s \in @ : s.id # job.req.id}]
          /\ Finish(Outcome("Released", NoProvider, job.req.id))
          /\ UNCHANGED left
       \/ /\ left.faults > 0
          /\ left' = [left EXCEPT !.faults = @ - 1]
          /\ Finish(Failed)
          /\ UNCHANGED app
    /\ UNCHANGED <<mail, ui, ps>>

\* ReplaySession: a managed session answers with its address, an external
\* player is launched again.
ReplaySession ==
    /\ Executing("Replay")
    /\ LET id == job.req.id
           records == {s \in app.sessions : s.id = id /\ id \in app.leases}
       IN  \/ \E s \in records :
                Finish(Outcome(IF s.managed THEN "Embedded" ELSE "Relaunched", NoProvider, id))
           \/ (\A s \in records : ~s.managed) /\ Finish(Failed)
    /\ UNCHANGED <<mail, app, ui, ps, left>>

\* After the operation: the account flag follows the settings that are now in
\* effect, and a preparation whose request was cancelled is dropped.
Settle ==
    /\ job.pc = "reconcile"
    /\ LET settings == app.settings
           release == Changed(mail, settings) /\ ~job.invalidated
           fresh == Reconcile(mail, settings)
           superseded == job.outcome.kind \in {"Prepared", "Unmatched"} /\ Canceled
           kept == IF release THEN Cleared(app) ELSE app
       IN  /\ app' = IF superseded THEN [kept EXCEPT !.prepared = NoPrep] ELSE kept
           /\ mail' = IF release THEN Emit(fresh, Invalidated(RemoteIds)) ELSE fresh
           /\ job' = [job EXCEPT !.pc = "publish",
                                 !.outcome = IF superseded THEN Failed ELSE @]
    /\ UNCHANGED <<ui, ps, left>>

Publish ==
    /\ job.pc = "publish"
    /\ mail' = [mail EXCEPT !.active = 0, !.preparedGen = app.prepared.gen,
                            !.pipeline = @ \ {job.req.gen},
                            !.cancelled = @ \ {job.req.gen},
                            !.events = Append(@, Event(job.req.gen, job.outcome))]
    /\ job' = NoJob
    /\ UNCHANGED <<app, ui, ps, left>>

\* The tick reports a session's failure once, if the mailbox has room.
MediaFails ==
    /\ job.pc = "idle" /\ ~mail.stopped /\ mail.outstanding < Capacity
    /\ \E s \in app.sessions :
         /\ ~s.reported
         /\ app' = [app EXCEPT !.sessions = (@ \ {s}) \cup {[s EXCEPT !.reported = TRUE]}]
         /\ mail' = [mail EXCEPT !.outstanding = @ + 1,
                                 !.events = Append(@, Event(0, Outcome("MediaFailed", NoProvider, s.id)))]
    /\ UNCHANGED <<job, ui, ps, left>>

\* CloseOnExit: however the worker ends, what it owned is answered.
Die ==
    /\ left.faults > 0 /\ ~mail.stopped
    /\ left' = [left EXCEPT !.faults = @ - 1]
    /\ mail' = [mail EXCEPT
                  !.stopped = TRUE, !.dead = TRUE, !.active = 0, !.queue = <<>>,
                  !.pipeline = {}, !.cancelled = {},
                  !.events = @ \o (IF mail.active = 0 THEN <<>>
                                   ELSE <<Event(mail.active, Failed)>>)
                               \o [i \in 1..Len(mail.queue) |-> Event(mail.queue[i].gen, Failed)]]
    /\ job' = NoJob
    /\ app' = [app EXCEPT !.prepared = NoPrep, !.sessions = {}, !.leases = {}]
    /\ UNCHANGED <<ui, ps>>

Worker ==
    \/ Take \/ Invalidate \/ Preflight \/ ExecuteCanceled \/ ExecuteLoad \/ ExecuteSave
    \/ ExecuteCredential \/ ExecuteTest \/ BeginPrepare \/ Prepared \/ BeginPlay
    \/ Resolved \/ PlayLocal \/ Launch \/ ReleaseSession \/ ReplaySession
    \/ Settle \/ Publish

-----------------------------------------------------------------------------
(* The coordinator and its tracker *)

Launches == {"Play", "Local"}

CloseEmbedded(u, ids) ==
    LET gone == ids \cap u.windows
    IN  [u EXCEPT !.windows = @ \ gone, !.closed = @ \cup gone, !.acknowledged = @ \ gone]

Acknowledged(u, ids) ==
    [u EXCEPT !.releasing = @ \ ids, !.acknowledged = @ \cup (ids \cap u.closed)]

\* A tombstone stays until its release is acknowledged and no replay is out.
Pruned(u) ==
    LET kept == {id \in u.closed : id \in u.acknowledged =>
                                     \E r \in u.replays : r.id = id}
    IN  [u EXCEPT !.closed = kept, !.acknowledged = @ \cap kept]

QueueRelease(u, id) ==
    [u EXCEPT !.windows = @ \ {id}, !.closed = @ \cup {id},
              !.releasing = @ \cup {id}, !.retry = TRUE]

\* AppCoordinator::command: a refused command still supersedes older ones.
Latest(u, c, g) ==
    [u EXCEPT !.prepare = IF c.kind = "Prepare" THEN g ELSE @,
              !.play = IF c.kind \in Launches THEN g ELSE @]
Issue(m, u, c) ==
    LET g == u.next + 1
        known == [Latest(u, c, g) EXCEPT
                    !.next = g,
                    !.pending = @ \cup {[gen |-> g, kind |-> c.kind, id |-> c.id]},
                    !.replays = IF c.kind = "Replay" THEN @ \cup {[gen |-> g, id |-> c.id]}
                                ELSE @]
    IN  IF Accepts(m)
        THEN [mail |-> Submitted(m, g, c), gen |-> g,
              ui |-> IF c.kind = "Release" THEN CloseEmbedded(known, {c.id}) ELSE known]
        ELSE [mail |-> m, gen |-> 0, ui |-> Latest(u, c, 0)]

Entry(u, e) ==
    IF \E p \in u.pending : p.gen = e.gen THEN CHOOSE p \in u.pending : p.gen = e.gen
    ELSE [gen |-> 0, kind |-> "none", id |-> 0]

\* Mutant: every launch that answers is the one waited for.
CurrentLaunch(u, p) ==
    CASE p.kind = "Prepare" -> p.gen = u.prepare
      [] p.kind = "Load" -> ~\E q \in u.pending : q.kind = "Load" /\ q.gen > p.gen
      [] OTHER -> TRUE

\* Tracker::resolve: is the answer still the one the user waits for?
Current(u, p) ==
    CASE p.kind = "Prepare" -> p.gen = u.prepare
      [] p.kind \in Launches -> p.gen = u.play
      [] p.kind = "Load" -> ~\E q \in u.pending : q.kind = "Load" /\ q.gen > p.gen
      [] OTHER -> TRUE

Idle(u) == ~u.retry /\ u.inbox = <<>> /\ u.emitted = <<>>

\* drain: everything the worker has answered is taken at once.
Drain ==
    /\ Idle(ui)
    /\ mail.events # <<>> \/ (ui.releasing # {} /\ Accepts(mail))
    /\ mail' = [mail EXCEPT
                  !.events = <<>>,
                  !.outstanding = @ - Charged(mail.events)]
    /\ ui' = [ui EXCEPT !.inbox = mail.events, !.retry = (mail.events = <<>>)]
    /\ UNCHANGED <<app, job, ps, left>>

\* apply_app: bookkeeping happens for every answer, the view only learns of
\* those that are still current.
ApplyEvent ==
    /\ ~ui.retry /\ ui.inbox # <<>>
    /\ LET e == Head(ui.inbox)
           p == Entry(ui, e)
           current == Current(ui, p)
           known == [ui EXCEPT !.inbox = Tail(@), !.pending = @ \ {p},
                               !.replays = {r \in @ : r.gen # e.gen}]
           gone == CASE e.kind = "Released" -> {e.id}
                     [] e.kind = "Invalidated" -> e.released
                     [] OTHER -> {}
           started == e.kind \in {"Started", "Embedded"} /\ p.kind # "Replay"
           ended == Acknowledged(CloseEmbedded(known, gone), gone)
           booked == Pruned(
               [ended EXCEPT
                  !.tracked = (@ \ gone) \cup (IF started THEN {e.id} ELSE {}),
                  !.releasing = IF e.kind = "Failed" /\ p.kind = "Release" /\ p.id \in ui.closed
                                THEN @ \cup {p.id} ELSE @])
           opened == CASE e.kind = "Embedded" /\ current ->
                            [booked EXCEPT !.windows = @ \cup {e.id}]
                       [] e.kind = "Embedded" /\ ~current -> QueueRelease(booked, e.id)
                       [] OTHER -> booked
           told == CASE e.kind = "Settings" ->
                          [opened EXCEPT !.settings = e.prov, !.accepted = e.prov]
                     [] e.kind = "Failed" /\ p.kind = "Save" /\ ui.accepted # NoProvider ->
                          [opened EXCEPT !.settings = ui.accepted]
                     [] OTHER -> opened
           last(u) == [u EXCEPT !.retry = @ \/ (u.inbox = <<>>)]
       IN  ui' = IF e.kind = "Embedded" /\ e.id \in ui.closed THEN last(Pruned(known))
                 ELSE IF ~current THEN last(opened)
                 ELSE last([told EXCEPT !.emitted = Append(@, e)])
    /\ UNCHANGED <<mail, app, job, ps, left>>

\* retry_embedded_releases: the release of a closed window is never dropped.
Retry ==
    /\ ui.retry
    /\ IF ui.releasing # {} /\ Accepts(mail)
       THEN \E id \in ui.releasing :
              LET issued == Issue(mail, ui, Command("Release", NoProvider, id))
              IN  /\ mail' = issued.mail
                  /\ ui' = [issued.ui EXCEPT !.releasing = @ \ {id}]
       ELSE ui' = [ui EXCEPT !.retry = FALSE] /\ UNCHANGED mail
    /\ UNCHANGED <<app, job, ps, left>>

-----------------------------------------------------------------------------
(* The inline play session *)

NoSession == [live |-> FALSE, prep |-> 0, pending |-> 0, switch |-> 0, provider |-> NoProvider]

\* cancel_owned_work: the preparation and, once there is one, the launch.
Abandoned(m, u, s) ==
    LET preparation == IF s.prep # 0 THEN s.prep ELSE s.pending
        launch == IF s.prep # 0 THEN s.pending ELSE 0
        owned == {preparation, launch}
    IN  [mail |-> CancelRequest(CancelRequest(m, preparation), launch),
         ui |-> [u EXCEPT !.prepare = IF @ \in owned THEN 0 ELSE @,
                          !.play = IF @ \in owned THEN 0 ELSE @]]

\* A stream is chosen: its account is activated when it is not the saved one,
\* the preparation is submitted, then the session it replaces lets go.
StartPlay ==
    /\ Idle(ui) /\ left.user > 0 /\ ui.settings # NoProvider
    /\ \E kind \in Providers :
         LET save == IF ui.settings = kind THEN [mail |-> mail, ui |-> ui, gen |-> 0]
                     ELSE Issue(mail, ui, Command("Save", kind, 0))
             chosen == IF save.gen = 0 THEN save.ui ELSE [save.ui EXCEPT !.settings = kind]
             prepare == Issue(save.mail, chosen, Command("Prepare", NoProvider, 0))
             end == Abandoned(prepare.mail, prepare.ui, ps)
         IN  /\ mail' = end.mail
             /\ ui' = end.ui
             /\ ps' = [live |-> TRUE, prep |-> 0, pending |-> prepare.gen,
                       switch |-> IF prepare.gen = 0 THEN 0 ELSE save.gen,
                       provider |-> chosen.settings]
    /\ left' = [left EXCEPT !.user = @ - 1]
    /\ UNCHANGED <<app, job>>

Dismiss ==
    /\ Idle(ui) /\ ps.live
    /\ LET end == Abandoned(mail, ui, ps) IN mail' = end.mail /\ ui' = end.ui
    /\ ps' = NoSession
    /\ UNCHANGED <<app, job, left>>

\* PlaySession::apply_event, after the coordinator applied the whole batch.
Notify ==
    /\ ~ui.retry /\ ui.inbox = <<>> /\ ui.emitted # <<>>
    /\ LET e == Head(ui.emitted)
           seen == [ui EXCEPT !.emitted = Tail(@)]
           settled == IF e.gen = ps.switch THEN [ps EXCEPT !.switch = 0] ELSE ps
           shown == IF e.kind = "Settings" THEN [settled EXCEPT !.provider = e.prov] ELSE settled
           quiet == mail' = mail /\ ui' = seen
       IN  \/ /\ ~ps.live \/ (ps.switch # 0 /\ e.kind = "Invalidated")
              /\ quiet /\ ps' = ps
           \/ /\ ps.live /\ ps.switch # 0 /\ e.gen = ps.switch /\ e.kind = "Failed"
              /\ LET end == Abandoned(mail, seen, ps) IN mail' = end.mail /\ ui' = end.ui
              /\ ps' = [settled EXCEPT !.prep = 0, !.pending = 0]
           \/ /\ ps.live /\ ps.switch = 0 /\ e.kind = "Invalidated"
              /\ quiet /\ ps' = [ps EXCEPT !.prep = 0, !.pending = 0]
           \/ /\ ps.live /\ e.kind # "Invalidated"
              /\ ~(ps.switch # 0 /\ e.gen = ps.switch /\ e.kind = "Failed")
              /\ e.gen = 0 \/ e.gen # ps.pending
              /\ quiet /\ ps' = shown
           \/ /\ ps.live /\ e.gen # 0 /\ e.gen = ps.pending
              /\ CASE e.kind = "Prepared" ->
                        LET play == Issue(mail, seen, Command("Play", NoProvider, e.gen))
                        IN  /\ mail' = play.mail /\ ui' = play.ui
                            /\ ps' = [ps EXCEPT !.prep = e.gen, !.pending = play.gen]
                   [] e.kind = "Unmatched" ->
                        quiet /\ ps' = [ps EXCEPT !.prep = e.gen, !.pending = 0]
                   [] e.kind \in {"Started", "Embedded"} ->
                        LET end == Abandoned(mail, seen, [ps EXCEPT !.pending = 0])
                        IN  mail' = end.mail /\ ui' = end.ui /\ ps' = NoSession
                   [] OTHER -> quiet /\ ps' = [ps EXCEPT !.pending = 0]
    /\ UNCHANGED <<app, job, left>>

-----------------------------------------------------------------------------
(* The user *)

UserCommand ==
    /\ Idle(ui) /\ left.user > 0
    /\ \E c \in {Command(k, NoProvider, 0) : k \in Kinds \cap {"Load", "Local"}}
                \cup {Command(k, p, 0) : k \in Kinds \cap {"Save", "Cred", "Test"}, p \in Providers}
                \cup {Command(k, NoProvider, id) : k \in Kinds \cap {"Release", "Replay"}, id \in ui.tracked} :
         LET issued == Issue(mail, ui, c) IN mail' = issued.mail /\ ui' = issued.ui
    /\ left' = [left EXCEPT !.user = @ - 1]
    /\ UNCHANGED <<app, job, ps>>

\* embedded_player_closed and embedded_player_failed.
WindowClosed ==
    /\ Idle(ui)
    /\ \E id \in ui.windows : ui' = QueueRelease(ui, id)
    /\ UNCHANGED <<mail, app, job, ps, left>>

Init ==
    /\ \E disk \in Providers :
         app = [settings |-> NoProvider, disk |-> disk, prepared |-> NoPrep,
                sessions |-> {}, leases |-> {}]
    /\ LET empty == [queue |-> <<>>, events |-> <<>>, outstanding |-> 0, stopped |-> FALSE,
                     cancelled |-> {}, pipeline |-> {}, active |-> 0, discarded |-> {},
                     preparedGen |-> 0, scope |-> NoProvider, epoch |-> 0, dead |-> FALSE,
                     revs |-> [p \in Providers |-> 0]]
           fresh == [next |-> 0, pending |-> {}, prepare |-> 0, play |-> 0, tracked |-> {},
                     windows |-> {}, closed |-> {}, acknowledged |-> {}, releasing |-> {},
                     replays |-> {}, settings |-> NoProvider, accepted |-> NoProvider,
                     retry |-> FALSE, inbox |-> <<>>, emitted |-> <<>>]
           issued == Issue(empty, fresh, Command("Load", NoProvider, 0))
       IN  mail = issued.mail /\ ui = issued.ui
    /\ job = NoJob
    /\ ps = NoSession
    /\ left = [user |-> UserCommands, faults |-> Faults]

Interface == Drain \/ ApplyEvent \/ Retry \/ Notify

Next == \/ Worker \/ MediaFails \/ Die
        \/ Interface \/ StartPlay \/ Dismiss \/ UserCommand \/ WindowClosed

Spec == Init /\ [][Next]_vars

-----------------------------------------------------------------------------
(* Properties *)

Ids(sessions) == {s.id : s \in sessions}

\* Type invariant.
TypeOK ==
    /\ mail.outstanding \in 0..Capacity /\ mail.stopped \in BOOLEAN /\ mail.dead \in BOOLEAN
    /\ mail.cancelled \cup mail.pipeline \subseteq 1..ui.next
    /\ mail.discarded \cup {mail.active, mail.preparedGen} \subseteq 0..ui.next
    /\ mail.scope \in Providers \cup {NoProvider}
    /\ app.settings \in Providers \cup {NoProvider} /\ app.disk \in Providers
    /\ Ids(app.sessions) \subseteq app.leases
    /\ ui.acknowledged \subseteq ui.closed
    /\ ui.windows \cap ui.closed = {}
    /\ ps.live \/ ps = NoSession

\* Where the command of a generation is, or its answer.
At(queue, g) == {i \in DOMAIN queue : queue[i].gen = g}
Places(g) == ({"queue"} \X At(mail.queue, g))
               \cup (IF mail.active = g THEN {<<"worker", 0>>} ELSE {})
               \cup ({"events"} \X At(mail.events, g)) \cup ({"inbox"} \X At(ui.inbox, g))

\* Every admitted command is in exactly one place until the interface has
\* applied its one answer, however commands are coalesced, cancelled or lost
\* with the worker; so the admission budget is exact and never underflows.
AnsweredOnce ==
    /\ TypeOK
    /\ mail.outstanding = Len(mail.queue) + Charged(mail.events)
                            + (IF mail.active = 0 THEN 0 ELSE 1)
    /\ \A g \in 1..ui.next : IF \E p \in ui.pending : p.gen = g
                             THEN \E place \in Places(g) : Places(g) = {place}
                             ELSE Places(g) = {}
    /\ \A p, q \in ui.pending : p.gen \in 1..ui.next /\ (p.gen = q.gen => p = q)

\* A set account flag is always about to be replaced: while the worker lives,
\* some queued command will rotate it, so preparation never stays refused.
NoDeadAccount ==
    mail.dead /\ ~mail.stopped => \E r \in ToSet(mail.queue) : Invalidates(r, mail.scope)

\* Between requests everything remote the worker holds belongs to the account
\* in effect: a switch, a changed credential, a failed save and a reload leave
\* no session and no prepared link of the account they replaced.
OneAccount ==
    job.pc = "idle" /\ ~mail.stopped =>
        /\ \A s \in app.sessions : s.remote => s.epoch = mail.epoch
        /\ app.prepared # NoPrep => /\ app.prepared.epoch = mail.epoch
                                    /\ app.prepared.prov = mail.scope

\* Quitting asks first whenever something is served: a lease is always a
\* tracked session or a launch whose answer is still to come.
KnownLeases ==
    app.leases \subseteq ui.tracked \cup {p.gen : p \in {q \in ui.pending : q.kind \in Launches}}

\* When nothing is on its way, the worker and the interface agree: the tracked
\* sessions are the leases, every window shows one, a closed window is only
\* remembered while the mailbox has no room for its release, no replay is
\* expected, and the play session waits for no answer that is still current.
\* (One superseded by opening a local file does wait: the view never hears of
\* an answer that is no longer current.)
AtRestTheyAgree ==
    (ui.pending = {} /\ Idle(ui) /\ mail.events = <<>> /\ ~mail.stopped) =>
        /\ ui.tracked = app.leases
        /\ Ids(app.sessions) = app.leases
        /\ ui.windows \subseteq app.leases
        /\ ui.closed = ui.releasing
        /\ ui.releasing # {} => ~Accepts(mail)
        /\ ui.replays = {}
        /\ ps.pending = 0 \/ ps.pending \notin {ui.prepare, ui.play}

\* The account rules together, and the session rules together.
AccountFenced == NoDeadAccount /\ OneAccount
SessionsAccounted == KnownLeases /\ AtRestTheyAgree

\* A player window opens for a remote launch only while the play session that
\* asked for it still owns it: never after it was dismissed, replaced, or
\* blocked by a change of account.
OpensOnlyOwned ==
    [][\A id \in ui'.windows \ ui.windows :
         (\E p \in ui.pending : p.gen = id /\ p.kind = "Play") => ps.pending = id]_vars

\* What the play session goes on to play was prepared with the account it shows.
PlaysShownAccount ==
    [][ps'.prep \notin {0, ps.prep} => Head(ui.emitted).prov = ps.provider]_vars

=============================================================================
