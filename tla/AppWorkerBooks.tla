--------------------------- MODULE AppWorkerBooks ---------------------------
(* What the invariants of the application worker say: the books of the         *)
(* commands and of the account in effect (AppInv), and, on top of them, what   *)
(* the leases, the tracker, the windows and the answers under way say of each  *)
(* other (AccountInv). The steps that keep them are told apart here too.       *)
EXTENDS AppWorker, Integers

-----------------------------------------------------------------------------
CommandKinds == {"Prepare", "Play", "Local", "Test", "Load", "Save", "Cred", "Release", "Replay"}
OutcomeKinds == {"Failed", "Settings", "Checked", "Prepared", "Unmatched", "Embedded", "Started",
                 "Released", "Relaunched", "Invalidated", "MediaFailed"}
Provs == Providers \cup {NoProvider}
Commands == [kind : CommandKinds, prov : Provs, id : Nat]
Requests == [kind : CommandKinds, prov : Provs, id : Nat, gen : Nat, revs : [Providers -> Nat]]
Outcomes == [kind : OutcomeKinds, prov : Provs, id : Nat, released : SUBSET Nat]
Events == [kind : OutcomeKinds, prov : Provs, id : Nat, released : SUBSET Nat, gen : Nat]

\* The shape of every variable, without its bounds.
Mails == [queue : Seq(Requests), events : Seq(Events), outstanding : Int, stopped : BOOLEAN,
          cancelled : SUBSET Nat, pipeline : SUBSET Nat, active : Nat, discarded : SUBSET Nat,
          preparedGen : Nat, scope : Provs, epoch : Nat, dead : BOOLEAN,
          revs : [Providers -> Nat]]
Sessions == [id : Nat, remote : BOOLEAN, managed : BOOLEAN, epoch : Nat, reported : BOOLEAN]
Preps == [gen : Nat, prov : Provs, epoch : Nat]
Apps == [settings : Provs, disk : Providers, prepared : Preps, sessions : SUBSET Sessions,
         leases : SUBSET Nat]
Steps == {"idle", "invalidate", "preflight", "execute", "preparing", "resolving", "launching",
          "reconcile", "publish"}
Answers == [kind : OutcomeKinds \ {"Invalidated"}, prov : Provs, id : Nat, released : SUBSET Nat]
Jobs == [pc : Steps, req : Requests \cup {NoJob.req}, epoch : Nat, invalidated : BOOLEAN,
         outcome : Answers]
Pendings == [gen : Nat, kind : CommandKinds, id : Nat]
Uis == [next : Nat, pending : SUBSET Pendings, prepare : Nat, play : Nat, tracked : SUBSET Nat,
        windows : SUBSET Nat, closed : SUBSET Nat, acknowledged : SUBSET Nat,
        releasing : SUBSET Nat, replays : SUBSET [gen : Nat, id : Nat], settings : Provs,
        accepted : Provs, retry : BOOLEAN, inbox : Seq(Events), emitted : Seq(Events)]
PlaySessions == [live : BOOLEAN, prep : Nat, pending : Nat, switch : Nat, provider : Provs]
Shapes ==
    /\ mail \in Mails /\ app \in Apps /\ job \in Jobs /\ ui \in Uis /\ ps \in PlaySessions
    /\ left \in [user : Nat, faults : Nat]

\* What a command names exists: an account action its provider, a playback its
\* preparation.
Fit(c) == /\ c.kind \in {"Save", "Cred"} => c.prov \in Providers
          /\ c.kind = "Play" => c.id # 0

\* The books: where a command is, and that it is nowhere else. They are kept of
\* any mailbox and interface, for a step may take several commands.
Has(queue, g) == \E i \in DOMAIN queue : queue[i].gen = g
Asked(u, g) == \E p \in u.pending : p.gen = g
Distinct(queue) ==
    \A i, j \in DOMAIN queue : queue[i].gen = queue[j].gen /\ queue[i].gen # 0 => i = j
Once(m, u, g) ==
    /\ Has(m.queue, g) => m.active # g /\ ~Has(m.events, g) /\ ~Has(u.inbox, g)
    /\ m.active = g => ~Has(m.events, g) /\ ~Has(u.inbox, g)
    /\ Has(m.events, g) => ~Has(u.inbox, g)
    /\ Asked(u, g) <=> \/ Has(m.queue, g) \/ m.active = g
                       \/ Has(m.events, g) \/ Has(u.inbox, g)
Numbered(u) == \A p, q \in u.pending : p.gen \in 1..u.next /\ (p.gen = q.gen => p = q)
Bounds(m, u) ==
    /\ m.cancelled \cup m.pipeline \subseteq 1..u.next
    /\ m.discarded \cup {m.active, m.preparedGen} \subseteq 0..u.next
Budget(m) ==
    /\ m.outstanding = Len(m.queue) + Charged(m.events) + (IF m.active = 0 THEN 0 ELSE 1)
    /\ m.outstanding <= Capacity
Sound(m) ==
    /\ \A i \in DOMAIN m.queue : Fit(m.queue[i]) /\ m.queue[i].gen # 0
    /\ m.stopped => m.active = 0 /\ m.queue = <<>>
    /\ m.dead /\ ~m.stopped => \E i \in DOMAIN m.queue : Invalidates(m.queue[i], m.scope)
Windowed(u) == u.acknowledged \subseteq u.closed /\ u.windows \cap u.closed = {}
Books(m, u) ==
    /\ m \in Mails /\ u \in Uis /\ Sound(m) /\ Budget(m) /\ Bounds(m, u) /\ Numbered(u)
    /\ Distinct(m.queue) /\ Distinct(m.events) /\ Distinct(u.inbox) /\ Windowed(u)
    /\ \A g \in Nat \ {0} : Once(m, u, g)

\* The worker works on the request that is active.
Working ==
    /\ job.pc = "idle" <=> mail.active = 0
    /\ job.pc # "idle" => /\ job.req \in Requests /\ Fit(job.req) /\ job.req.gen = mail.active

\* The account fence. While the worker lives, what it holds was got under the
\* account in effect, but for the step in which it lets go of it; an account
\* action under way, and a preparation, have settings of that account.
NothingRemote == app.prepared = NoPrep /\ \A s \in app.sessions : ~s.remote
InEffect ==
    /\ \A s \in app.sessions : s.remote => s.epoch = mail.epoch
    /\ app.prepared # NoPrep => /\ app.prepared.epoch = mail.epoch
                                /\ app.prepared.prov = mail.scope
Doing(kinds) == job.req.kind \in kinds
JobKinds ==
    /\ job.pc = "invalidate" => job.invalidated /\ Doing({"Save", "Cred"})
    /\ job.pc \in {"preflight", "preparing"} => Doing({"Prepare"})
    /\ job.pc = "resolving" => Doing({"Play"})
    /\ job.pc = "launching" => Doing({"Play", "Local"})
    /\ job.pc # "idle" /\ job.invalidated => Doing({"Save", "Cred", "Prepare"})
    /\ job.pc = "preflight" => ~job.invalidated
SettingsFollow ==
    /\ job.pc \in {"idle", "preflight", "publish"} => app.settings \in {NoProvider, mail.scope}
    /\ job.pc = "preparing" \/ (job.pc = "execute" /\ Doing({"Prepare"}) /\ ~Canceled)
         => app.settings # NoProvider /\ app.settings = mail.scope
    /\ job.pc \in {"execute", "preparing", "reconcile"} /\ job.invalidated /\ Doing({"Prepare"})
         => app.settings = mail.scope
Fence ==
    /\ JobKinds
    /\ job.pc \notin {"idle", "publish"} => job.epoch = mail.epoch
    /\ job.pc # "invalidate" => InEffect
    /\ job.pc \notin {"idle", "invalidate"} /\ job.invalidated /\ Doing({"Save", "Cred"})
         => NothingRemote
    /\ mail.scope = NoProvider => /\ NothingRemote
                                  /\ ~(job.pc \in {"resolving", "launching"} /\ Doing({"Play"}))
    /\ SettingsFollow

\* A session has its lease, and its name is no longer that of a command the
\* worker has or will get; a preparation has the name of a command that was given.
Records ==
    /\ \A s, t \in app.sessions : s.id = t.id => s = t
    /\ \A s \in app.sessions :
         /\ s.id \in app.leases /\ s.id \in 1..ui.next /\ ~Has(mail.queue, s.id)
         /\ job.pc \notin {"reconcile", "publish"} => s.id # mail.active
    /\ job.pc = "launching" => mail.active \in app.leases
    /\ app.prepared.gen <= ui.next

\* The play session owns what was issued.
Owning == /\ ps.live \/ ps = NoSession
          /\ ps.prep <= ui.next /\ ps.pending <= ui.next

AppInv == Shapes /\ Books(mail, ui) /\ Working /\ Records /\ Owning /\ (~mail.stopped => Fence)

\* The worker starts on the next command, having dropped a preparation it was told
\* to; an account action gives up the account first.
Retained == IF app.prepared.gen \in mail.discarded THEN NoPrep ELSE app.prepared
Begins(invalidate) ==
    LET request == Head(mail.queue)
        taken == [mail EXCEPT !.discarded = {}, !.preparedGen = Retained.gen,
                              !.queue = Tail(@), !.active = request.gen]
    IN  /\ app' = [app EXCEPT !.prepared = Retained]
        /\ mail' = IF invalidate
                   THEN Rotated(taken, IF request.kind = "Save" THEN request.prov ELSE mail.scope)
                   ELSE taken
        /\ job' = [NoJob EXCEPT
                     !.pc = IF invalidate THEN "invalidate"
                            ELSE IF request.kind = "Prepare" THEN "preflight" ELSE "execute",
                     !.req = request, !.epoch = mail'.epoch, !.invalidated = invalidate]

-----------------------------------------------------------------------------
(* The account: leases, the tracker, windows and the answers under way       *)

Held(s) == {s[i] : i \in DOMAIN s}
Before(s, a, b) == \E i, j \in DOMAIN s : i < j /\ s[i] = a /\ s[j] = b

\* The answers that are on their way to the coordinator, and their order.
Flying(m, u) == Held(m.events) \cup Held(u.inbox)
Precedes(m, u, a, b) ==
    \/ Before(u.inbox, a, b) \/ Before(m.events, a, b)
    \/ a \in Held(u.inbox) /\ b \in Held(m.events)

Ended(j) == j.pc \in {"reconcile", "publish"}

\* The answers a command may get: to a launch, the session named after it; to a
\* release or a replay, the session it is about.
Suits(p, e) ==
    \/ e.kind = "Failed"
    \/ p.kind \in {"Load", "Save", "Cred"} /\ e.kind = "Settings"
    \/ p.kind = "Test" /\ e.kind = "Checked"
    \/ p.kind = "Prepare" /\ e.kind \in {"Prepared", "Unmatched"}
    \/ p.kind \in Launches /\ e.kind \in {"Embedded", "Started"} /\ e.id = p.gen
    \/ p.kind = "Release" /\ e.kind = "Released" /\ e.id = p.id
    \/ p.kind = "Replay" /\ e.kind \in {"Embedded", "Relaunched"} /\ e.id = p.id

\* The tracker knows the command behind a request and behind an answer.
Noted(u, r) == \E p \in u.pending : p.gen = r.gen /\ p.kind = r.kind /\ p.id = r.id
Nameless(e) == e.kind \in {"Invalidated", "MediaFailed"}
Expected(u, e) ==
    IF Nameless(e) THEN e.gen = 0 ELSE \E p \in u.pending : p.gen = e.gen /\ Suits(p, e)

\* The name of a command that was answered.
Old(u, x) == x \in 1..u.next /\ ~Asked(u, x)

Matched(m, u) ==
    /\ \A r \in Held(m.queue) : Noted(u, r)
    /\ \A e \in Flying(m, u) : Expected(u, e)
Named(u) ==
    /\ \A p \in u.pending : p.kind \in {"Release", "Replay", "Play"} => Old(u, p.id)
    /\ \A x \in u.tracked \cup u.windows \cup u.closed \cup u.releasing : Old(u, x)
    /\ \A e \in Held(u.emitted) : IF Nameless(e) THEN e.gen = 0 ELSE Old(u, e.gen)
Replayed(u) ==
    u.replays = {[gen |-> p.gen, id |-> p.id] : p \in {q \in u.pending : q.kind = "Replay"}}
Newest(u) ==
    /\ u.prepare <= u.next /\ u.play <= u.next
    /\ \A p \in u.pending : /\ p.gen = u.prepare => p.kind = "Prepare"
                            /\ p.gen = u.play => p.kind \in Launches
Told(m, u) == Matched(m, u) /\ Named(u) /\ Replayed(u) /\ Newest(u)
JobTold(u, j) ==
    j.pc # "idle" => Noted(u, j.req) /\ (Ended(j) => Suits(j.req, j.outcome))

\* The tracker's books stay; a launch or preparation may be waited for no more.
Waived(u, v) ==
    /\ v.next = u.next /\ v.pending = u.pending /\ v.inbox = u.inbox /\ v.emitted = u.emitted
    /\ v.tracked = u.tracked /\ v.windows = u.windows /\ v.closed = u.closed
    /\ v.acknowledged = u.acknowledged /\ v.releasing = u.releasing /\ v.replays = u.replays
    /\ v.retry = u.retry
    /\ v.prepare \in {u.prepare, 0} /\ v.play \in {u.play, 0}
Marked(m, n) ==
    /\ n.queue = m.queue /\ n.events = m.events /\ n.active = m.active
    /\ n.stopped = m.stopped /\ n.outstanding = m.outstanding

\* A command is admitted as g: one may lose its place to it, and is answered.
Posted(m, g, c, n) ==
    /\ n.active = m.active /\ n.stopped = m.stopped
    /\ \A r \in Held(n.queue) : \/ r \in Held(m.queue)
                                \/ r.gen = g /\ r.kind = c.kind /\ r.id = c.id
    /\ Held(m.events) \subseteq Held(n.events)
    /\ \A e \in Held(n.events) : \/ e \in Held(m.events)
                                 \/ e.kind = "Failed" /\ Has(m.queue, e.gen) /\ e.gen # 0
    /\ \A a, b : Before(m.events, a, b) => Before(n.events, a, b)
    /\ \A a, b : Before(n.events, a, b) => Before(m.events, a, b) \/ b.kind = "Failed"
Recorded(u, c, v) ==
    /\ v.next = u.next + 1
    /\ v.pending = u.pending \cup {[gen |-> u.next + 1, kind |-> c.kind, id |-> c.id]}
    /\ v.inbox = u.inbox /\ v.emitted = u.emitted /\ v.tracked = u.tracked
    /\ v.acknowledged = u.acknowledged /\ v.releasing = u.releasing /\ v.retry = u.retry
    /\ v.replays = IF c.kind = "Replay" THEN u.replays \cup {[gen |-> u.next + 1, id |-> c.id]}
                   ELSE u.replays
    /\ v.prepare = (IF c.kind = "Prepare" THEN u.next + 1 ELSE u.prepare)
    /\ v.play = (IF c.kind \in Launches THEN u.next + 1 ELSE u.play)
    /\ \E shut \in SUBSET u.windows :
         /\ v.windows = u.windows \ shut /\ v.closed = u.closed \cup shut
         /\ \A x \in shut : c.kind = "Release" /\ x = c.id

\* What a command names when it names something: a session, or a preparation, that
\* an earlier command was answered with.
Refers(u, c) == c.kind \in {"Release", "Replay", "Play"} => Old(u, c.id)

\* The sessions an answer says are gone.
GoneBy(e) == CASE e.kind = "Released" -> {e.id}
               [] e.kind = "Invalidated" -> e.released
               [] OTHER -> {}
Opens(e) == e.kind \in {"Embedded", "Started"}
Late(u, e) == e.kind = "Embedded" /\ e.id \in u.closed

\* A tombstone stays while its release is not acknowledged, or a replay is out.
Stay(closed, acknowledged, replays) ==
    {x \in closed : x \in acknowledged => \E r \in replays : r.id = x}

CrossedOff(u, e, p, v) ==
    /\ v.next = u.next /\ v.inbox = Tail(u.inbox) /\ v.pending = u.pending \ {p}
    /\ v.replays = {r \in u.replays : r.gen # e.gen}
    /\ v.prepare = u.prepare /\ v.play = u.play
    /\ v.emitted = (IF Current(u, p) /\ ~Late(u, e) THEN Append(u.emitted, e) ELSE u.emitted)
    /\ v.inbox = <<>> => v.retry
Passed(u, v) ==
    /\ v.tracked = u.tracked /\ v.windows = u.windows /\ v.releasing = u.releasing
    /\ v.closed = Stay(u.closed, u.acknowledged, v.replays)
    /\ v.acknowledged = u.acknowledged \cap v.closed
Booked(u, e, p, v) ==
    LET gone == GoneBy(e)
        closed == u.closed \cup (gone \cap u.windows)
        acknowledged == u.acknowledged \cup (gone \cap closed)
        kept == Stay(closed, acknowledged, v.replays)
        refused == e.kind = "Failed" /\ p.kind = "Release" /\ p.id \in u.closed
        dropped == e.kind = "Embedded" /\ ~Current(u, p)
    IN  /\ v.tracked = (u.tracked \ gone)
                         \cup (IF Opens(e) /\ p.kind # "Replay" THEN {e.id} ELSE {})
        /\ v.windows = (IF dropped THEN (u.windows \ gone) \ {e.id}
                        ELSE IF e.kind = "Embedded" THEN (u.windows \ gone) \cup {e.id}
                        ELSE u.windows \ gone)
        /\ v.releasing = (u.releasing \ gone) \cup (IF refused THEN {p.id} ELSE {})
                           \cup (IF dropped THEN {e.id} ELSE {})
        /\ v.closed = kept \cup (IF dropped THEN {e.id} ELSE {})
        /\ v.acknowledged = acknowledged \cap kept
Applied(u, e, p, v) ==
    CrossedOff(u, e, p, v) /\ IF Late(u, e) THEN Passed(u, v) ELSE Booked(u, e, p, v)

Fields(u) == DOMAIN u = {"next", "pending", "prepare", "play", "tracked", "windows", "closed",
                         "acknowledged", "releasing", "replays", "settings", "accepted", "retry",
                         "inbox", "emitted"}

\* Fields that a step of the coordinator's does not touch, in the order it uses them.
Untouched(u, v) ==
    /\ v.next = u.next /\ v.pending = u.pending /\ v.inbox = u.inbox
    /\ v.prepare = u.prepare /\ v.play = u.play /\ v.replays = u.replays
    /\ Fields(v)

\* A launch that succeeded says the session it is named after.
Launched(e) == Opens(e) /\ e.id = e.gen

\* A launch is under way, or its answer is.
Begun(m, u, g) ==
    \/ m.active = g /\ \/ job.pc = "launching"
                       \/ Ended(job) /\ Opens(job.outcome) /\ job.outcome.id = g
    \/ \E e \in Flying(m, u) : e.gen = g /\ Launched(e)
Releases(j) == Ended(j) /\ j.outcome.kind = "Released"

LeaseKnown(m, u) == \A g \in app.leases : g \in u.tracked \/ Begun(m, u, g)
Served(m) ==
    \A g \in app.leases : \/ \E s \in app.sessions : s.id = g
                          \/ job.pc = "launching" /\ m.active = g
GoneForGood(m, u) ==
    /\ \A e \in Flying(m, u) : \A x \in GoneBy(e) :
         x \notin app.leases /\ x \in 1..u.next /\ ~Has(m.queue, x) /\ x # m.active
    /\ Releases(job) => job.outcome.id \notin app.leases
Tracked(m, u) ==
    \A x \in u.tracked : \/ x \in app.leases
                         \/ \E e \in Flying(m, u) : x \in GoneBy(e)
                         \/ Releases(job) /\ job.outcome.id = x
Serving(m, u) ==
    \A a \in Flying(m, u) : Launched(a) =>
        \/ a.id \in app.leases
        \/ \E b \in Flying(m, u) : Precedes(m, u, a, b) /\ a.id \in GoneBy(b)

\* The session of a launch that succeeded is as its answer says.
AsAnswered ==
    Ended(job) /\ Opens(job.outcome) /\ job.outcome.id = job.req.gen =>
        \E s \in app.sessions : /\ s.id = job.req.gen
                                /\ s.remote <=> job.req.kind = "Play"
                                /\ s.managed <=> job.outcome.kind = "Embedded"
Windowing(m, u) ==
    /\ u.windows \subseteq u.tracked
    /\ \A s \in app.sessions : s.managed /\ s.id \in u.tracked => s.id \in u.windows \cup u.closed
    /\ \A s \in app.sessions, a \in Flying(m, u) :
         Launched(a) /\ s.id = a.id => (s.managed <=> a.kind = "Embedded")
    /\ \A a \in Flying(m, u) :
         a.kind = "Embedded" /\ a.id # a.gen => a.id \in u.windows \cup u.closed
    /\ Ended(job) /\ job.outcome.kind = "Embedded" /\ job.outcome.id # job.req.gen =>
         job.outcome.id \in u.windows \cup u.closed

\* Why a window that was closed is still remembered.
Buried(u, x) ==
    \/ x \in u.releasing
    \/ \E p \in u.pending : p.kind = "Release" /\ p.id = x
    \/ x \in u.acknowledged /\ \E r \in u.replays : r.id = x
Tombs(m, u) ==
    /\ u.acknowledged \cap app.leases = {}
    /\ \A x \in u.closed : Buried(u, x)
    /\ u.releasing # {} /\ ~u.retry /\ u.inbox = <<>> => ~Accepts(m)
Leased(m, u) ==
    /\ LeaseKnown(m, u) /\ Served(m) /\ GoneForGood(m, u) /\ Tracked(m, u) /\ Serving(m, u)
    /\ AsAnswered /\ Windowing(m, u) /\ Tombs(m, u)

AllEvents(m, u) == Flying(m, u) \cup Held(u.emitted)
Ahead(m, u, a, b) ==
    \/ Precedes(m, u, a, b) \/ Before(u.emitted, a, b)
    \/ a \in Held(u.emitted) /\ b \in Flying(m, u)

\* The command can only fail: its preparation is gone.
Lost == \/ job.pc = "execute" /\ job.req.id # app.prepared.gen
        \/ Ended(job) /\ job.outcome.kind = "Failed"
Void(m, g) ==
    /\ \A r \in Held(m.queue) : r.gen = g => r.id # app.prepared.gen
    /\ m.active = g => Lost
Doomed(m, u, g) == Void(m, g) /\ \A a \in Flying(m, u) : a.gen = g => a.kind = "Failed"
Plays(u) == {p \in u.pending : p.kind = "Play"}

\* The account was given up: no playback asked for before may succeed after, and
\* no preparation told before is the one retained.
Voided(m, u) ==
    /\ (\E b \in AllEvents(m, u) : b.kind = "Invalidated") => \A p \in Plays(u) : Void(m, p.gen)
    /\ \A p \in Plays(u), a \in AllEvents(m, u), b \in Flying(m, u) :
         a.kind = "Invalidated" /\ b.gen = p.gen /\ Ahead(m, u, a, b) => b.kind = "Failed"
    /\ \A a, b \in AllEvents(m, u) :
         a.kind = "Prepared" /\ b.kind = "Invalidated" /\ Ahead(m, u, a, b) =>
           a.gen # app.prepared.gen

\* The playback that may open a window is the one the play session waits for.
Sought(m, u, q) == \A p \in Plays(u) : p.gen = u.play => q = p.gen \/ Doomed(m, u, p.gen)
Waiting(u, q) == q # 0 /\ q \in {u.prepare, u.play} => Asked(u, q) \/ Has(u.emitted, q)

Kept(m, u) ==
    Told(m, u) /\ JobTold(u, job) /\ (~m.stopped => Leased(m, u)) /\ Voided(m, u)

Lessens(u, v) ==
    /\ v.next = u.next /\ v.pending = u.pending /\ v.inbox = u.inbox /\ v.replays = u.replays
    /\ v.tracked = u.tracked /\ v.acknowledged = u.acknowledged
    /\ v.windows \subseteq u.windows /\ v.windows \cup v.closed = u.windows \cup u.closed
    /\ v.releasing \subseteq u.releasing \cup v.closed
    /\ v.prepare \in {u.prepare, 0} /\ v.play \in {u.play, 0}
    /\ Held(v.emitted) \subseteq Held(u.emitted)
    /\ \A a, b : Before(v.emitted, a, b) => Before(u.emitted, a, b)

\* An answer and the command behind it. Of a command there is one answer.
AnsweredBy(m, u, e, p, v) ==
    /\ Flying(m, u) = Flying(m, v) \cup {e}
    /\ \A b \in Flying(m, v) : Precedes(m, u, e, b) /\ (b.gen = e.gen => b.gen = 0)
    /\ \A a, b : Precedes(m, v, a, b) => Precedes(m, u, a, b)
    /\ \A a, b : Precedes(m, u, a, b) => (a = e /\ b \in Flying(m, v)) \/ Precedes(m, v, a, b)
    /\ IF Nameless(e) THEN e.gen = 0 /\ p = [gen |-> 0, kind |-> "none", id |-> 0]
       ELSE p \in u.pending /\ p.gen = e.gen /\ Suits(p, e) /\ e.gen # 0
    /\ \A q \in v.pending : q \in u.pending /\ q.gen # e.gen
    /\ \A q \in u.pending : q = p \/ q \in v.pending
    /\ e.gen # 0 => ~Has(m.queue, e.gen) /\ m.active # e.gen
    /\ e.gen # 0 => Old(v, e.gen) /\ Asked(u, e.gen)
    /\ \A x : Old(u, x) => Old(v, x) /\ ~Asked(u, x)

\* A provider in memory is the one saved, and the account in effect is its
\* account, or nothing of the account in effect is held.
Disk ==
    /\ app.settings \in {NoProvider, app.disk}
    /\ job.pc \in {"invalidate", "execute"} /\ Doing({"Save"}) => job.req.prov = mail.scope
    /\ job.pc # "invalidate" =>
         \/ app.disk = mail.scope
         \/ NothingRemote /\ ~(job.pc \in {"resolving", "launching"} /\ Doing({"Play"}))

AccountInv ==
    /\ Kept(mail, ui) /\ Sought(mail, ui, ps.pending) /\ Waiting(ui, ps.pending)
    /\ ~mail.stopped => Disk
    /\ mail.stopped => app.leases = {}

\* The preparation stays, goes, or is the one just made.
Exchanged == \/ app'.prepared.gen \in {app.prepared.gen, 0}
             \/ mail.active # 0 /\ app'.prepared.gen = mail.active

\* An operation ends, or goes on, while the mailbox stays as it is.
Operates ==
    /\ job.pc \in {"preflight", "execute", "preparing", "resolving", "launching"}
    /\ \/ job'.pc \in {"preparing", "resolving", "launching", "execute"}
       \/ job'.pc = "reconcile" /\ Suits(job.req, job'.outcome)
    /\ job'.req = job.req

\* A step in which the account follows the settings: it may let go of what is
\* remote, and tell so.
LetGo ==
    /\ mail'.events = Append(mail.events, Invalidated(RemoteIds))
    /\ app'.prepared = NoPrep /\ app'.sessions = {s \in app.sessions : ~s.remote}
    /\ app'.leases = app.leases \ RemoteIds
Following ==
    /\ UNCHANGED <<ui, ps>> /\ job'.req = job.req
    /\ mail'.queue = mail.queue /\ mail'.active = mail.active
    /\ mail'.stopped = mail.stopped /\ mail'.outstanding = mail.outstanding
    /\ \/ job.pc \in {"invalidate", "preflight"} /\ job'.pc = "execute"
       \/ /\ job.pc = "reconcile" /\ job'.pc = "publish"
          /\ \/ job'.outcome = job.outcome
             \/ job.outcome.kind \in {"Prepared", "Unmatched"} /\ job'.outcome = Failed
    /\ \/ /\ mail'.events = mail.events /\ app'.sessions = app.sessions
          /\ app'.leases = app.leases /\ app'.prepared \in {app.prepared, NoPrep}
       \/ LetGo /\ (NothingRemote \/ job.pc = "invalidate")

\* The answer is sent.
Sends(e) ==
    /\ job.pc = "publish" /\ job' = NoJob /\ UNCHANGED <<app, ui, ps>>
    /\ mail'.active = 0 /\ mail'.queue = mail.queue /\ mail'.stopped = mail.stopped
    /\ mail'.outstanding = mail.outstanding /\ mail'.scope = mail.scope
    /\ mail'.events = Append(mail.events, e)
    /\ e \in Events /\ e.gen = mail.active /\ e.kind = job.outcome.kind /\ e.id = job.outcome.id

\* A session is marked as reported, and the report is sent.
Reports(s, r, e) ==
    /\ s \in app.sessions /\ r.id = s.id /\ r.remote = s.remote /\ r.managed = s.managed
    /\ job.pc = "idle" /\ ~mail.stopped /\ Accepts(mail) /\ UNCHANGED <<job, ui, ps>>
    /\ app'.sessions = (app.sessions \ {s}) \cup {r} /\ app'.leases = app.leases
    /\ app'.prepared = app.prepared /\ app'.settings = app.settings /\ app'.disk = app.disk
    /\ mail'.queue = mail.queue /\ mail'.active = mail.active /\ mail'.stopped = mail.stopped
    /\ mail'.scope = mail.scope
    /\ mail'.events = Append(mail.events, e) /\ e \in Events /\ e.kind = "MediaFailed" /\ e.gen = 0
=============================================================================
