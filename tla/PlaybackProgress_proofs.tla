---------------------- MODULE PlaybackProgress_proofs ----------------------
(* For every number of windows, faults, epochs and checkpoints: the record   *)
(* accepts no superseded writer, and no position observed before a reset     *)
(* (FenceInv); no checkpoint that was accepted is lost or overtaken on its    *)
(* way to the record (DeliverInv, from Delivery on); and, while no request    *)
(* fails, a window saves by the authority its coordinator accepts (AgreeInv,  *)
(* from Agreement on).                                                        *)
EXTENDS PlaybackProgress, SequenceTheorems, FiniteSetTheorems, TLAPS

-----------------------------------------------------------------------------
(* Queues: taking the first element, adding a last one                      *)

\* Removing the first element keeps every other one, each once.
LEMMA TailIndices ==
    ASSUME NEW S, NEW s \in Seq(S), s # <<>>
    PROVE  /\ Tail(s) \in Seq(S)
           /\ \A i \in DOMAIN Tail(s) : i + 1 \in DOMAIN s /\ Tail(s)[i] = s[i + 1]
           /\ Head(s) = s[1] /\ 1 \in DOMAIN s
<1>1. Len(s) \in Nat \ {0} /\ DOMAIN s = 1 .. Len(s)
    BY EmptySeq, LenProperties
<1>2. Tail(s) \in Seq(S) /\ Len(Tail(s)) = Len(s) - 1
    BY HeadTailProperties
<1>3. DOMAIN Tail(s) = 1 .. Len(s) - 1
    BY <1>2, LenProperties
<1>4. \A i \in 1 .. Len(s) - 1 : Tail(s)[i] = s[i + 1]
    BY <1>1
<1> QED
    BY <1>1, <1>2, <1>3, <1>4

\* Adding an element at the end keeps the others where they were.
LEMMA AppendIndices ==
    ASSUME NEW S, NEW s \in Seq(S), NEW e \in S
    PROVE  \A i \in DOMAIN Append(s, e) :
              \/ i \in DOMAIN s /\ Append(s, e)[i] = s[i]
              \/ i = Len(s) + 1 /\ Append(s, e)[i] = e
<1>1. Len(s) \in Nat /\ DOMAIN s = 1 .. Len(s) /\ DOMAIN Append(s, e) = 1 .. Len(s) + 1
    BY AppendProperties, LenProperties
<1> QED
    BY <1>1, AppendProperties

\* The place of the new element was not one of the old ones.
LEMMA AppendPlace ==
    ASSUME NEW S, NEW s \in Seq(S), NEW e \in S
    PROVE  /\ Append(s, e) \in Seq(S)
           /\ Len(s) + 1 \notin DOMAIN s
           /\ \A i \in DOMAIN Append(s, e) : i \in DOMAIN s \/ i = Len(s) + 1
           /\ \A i \in DOMAIN s : Append(s, e)[i] = s[i]
           /\ Append(s, e)[Len(s) + 1] = e
<1>1. Len(s) \in Nat /\ DOMAIN s = 1 .. Len(s) /\ DOMAIN Append(s, e) = 1 .. Len(s) + 1
    BY AppendProperties, LenProperties
<1> QED
    BY <1>1, AppendProperties

-----------------------------------------------------------------------------
WindowOf == [phase : Phases, epoch : Nat, run : Nat, auth : BOOLEAN,
             last : [at : Nat, done : BOOLEAN] \cup {None}, seq : Nat,
             over : BOOLEAN, notice : BOOLEAN]

\* A sample of window s was taken in an epoch of the past, and its run is that
\* window's own: while the run is the current one, s is who began it.
Fenced(x, s) ==
    /\ x.by = s /\ x.run <= db.epoch
    /\ x.run # 0 /\ x.run = db.run => owner = s
    /\ x.epoch <= x.at /\ x.at <= db.epoch

\* A window's epoch has passed this one, or nothing it observes is saved yet.
Behind(epoch, p) ==
    /\ epoch <= p.epoch
    /\ p.phase = "active" /\ p.auth => epoch < p.epoch

Early == {"none", "opening"}

\* Nothing is known of a window before its record was read.
NewWindow(p) == p = [NoWindow EXCEPT !.phase = p.phase]

\* A window holds an observation only while it may save, and none that is older
\* than its epoch; its run is its own.
Fits(s, p) ==
    /\ p.epoch <= db.epoch /\ p.run <= db.epoch
    /\ p.run # 0 /\ p.run = db.run => owner = s
    /\ p.auth => p.run # 0
    /\ p.last # None => /\ p.phase \in {"active", "closed"} /\ p.auth
                        /\ p.epoch <= p.last.at /\ p.last.at <= db.epoch

GoodWindow(s) ==
    LET p == player[s]
    IN  /\ p.phase \in Early => NewWindow(p) /\ run[s] = None
        /\ p.phase \notin Early \cup {"closed"} => run[s] # None
        /\ Fits(s, p)

GoodRun(s) ==
    run[s] # None =>
        /\ run[s].latest # None => Fenced(run[s].latest, s)
        /\ run[s].ready # None => Behind(run[s].ready.epoch, player[s])

GoodRequest(q) ==
    LET s == q.session
    IN  /\ q.op = "read" => player[s].phase = "opening"
        /\ q.op # "read" => run[s] # None /\ run[s].busy
        /\ q.op = "begin" => Behind(q.epoch, player[s])
        /\ q.op = "save" => Fenced(q.sample, s)

\* An answer moves a window's epoch on whenever it may authorize it.
GoodAnswer(a) ==
    LET q == a.request
    IN  /\ a.epoch <= db.epoch /\ a.run <= db.epoch
        /\ q.op = "begin" /\ a.result # "error" =>
             /\ a.result = "applied" /\ q.epoch < a.epoch
             /\ a.run # 0 /\ a.run = db.run => owner = q.session
        /\ q.op = "save" /\ a.result = "stale" /\ a.run = q.sample.run /\ a.run # 0 =>
             q.sample.epoch < a.epoch

\* A session has one request under way at most, in the queue or answered.
OneRequest ==
    /\ \A i, j \in DOMAIN queue : queue[i].session = queue[j].session => i = j
    /\ \A i, j \in DOMAIN acks :
          acks[i].request.session = acks[j].request.session => i = j
    /\ \A i \in DOMAIN queue, j \in DOMAIN acks :
          queue[i].session # acks[j].request.session

FenceInv ==
    /\ TypeOK
    /\ db.run <= db.epoch
    /\ OneRequest
    /\ \A i \in DOMAIN queue : GoodRequest(queue[i])
    /\ \A i \in DOMAIN acks : GoodRequest(acks[i].request) /\ GoodAnswer(acks[i])
    /\ \A s \in Sessions : GoodWindow(s) /\ GoodRun(s)

\* The user's mark stays in force during the run it was made in.
MarkInv ==
    /\ unmarked <= db.epoch
    /\ db.run # 0 /\ db.run = unmarked => db.suppressed

-----------------------------------------------------------------------------
(* What the coordinator sends and keeps                                      *)

\* What each kind of request carries.
LEMMA RequestFields ==
    ASSUME NEW q \in RequestOf
    PROVE  /\ q.op \in {"read", "begin", "save"} /\ q.session \in Sessions
           /\ q.op = "begin" => q.epoch \in Nat /\ q.over \in BOOLEAN
           /\ q.op = "save" => q.sample \in SampleOf
    BY DEF RequestOf

\* The requests the coordinator builds are requests.
LEMMA RequestMade ==
    ASSUME NEW s \in Sessions
    PROVE  /\ [op |-> "read", session |-> s] \in RequestOf
           /\ \A e \in Nat, over \in BOOLEAN :
                 [op |-> "begin", session |-> s, epoch |-> e, over |-> over] \in RequestOf
           /\ \A x \in SampleOf : [op |-> "save", session |-> s, sample |-> x] \in RequestOf
    BY DEF RequestOf

\* A request that a submission for session s may send of its run r, where `asked`
\* holds the new run that was asked for, if any.
Sendable(s, r, asked, q) ==
    /\ q \in RequestOf /\ q.session = s
    /\ \/ q.op = "save" /\ r.latest # None /\ q.sample = r.latest
       \/ q.op = "begin" /\ \E ready \in asked : q.epoch = ready.epoch

OutcomeOf == [run : RunOf, sent : Seq(RequestOf), refused : BOOLEAN]

\* What that submission comes to.
Outcome(s, r, asked, o) ==
    /\ o \in OutcomeOf
    /\ o.run.latest \in {r.latest, None} /\ o.run.ready \in {r.ready} \cup asked
    /\ \/ o.sent = <<>> /\ o.run.busy = r.busy
       \/ /\ ~r.busy /\ o.run.busy /\ o.run.ready = r.ready
          /\ \E q \in RequestOf : Sendable(s, r, asked, q) /\ o.sent = <<q>>

\* Keeping, refusing and sending keep to their types.
LEMMA OutcomeTyped ==
    ASSUME NEW r \in RunOf
    PROVE  /\ Kept(r) \in OutcomeOf /\ Refused(r) \in OutcomeOf
           /\ \A q \in RequestOf : Sent(r, q) \in OutcomeOf
<1>1. Kept(r) \in OutcomeOf /\ Refused(r) \in OutcomeOf
    BY EmptySeq DEF Kept, Refused, OutcomeOf
<1>2. \A q \in RequestOf : <<q>> \in Seq(RequestOf)
    OBVIOUS
<1>3. [r EXCEPT !.busy = TRUE] \in RunOf
    BY DEF RunOf
<1> QED
    BY <1>1, <1>2, <1>3 DEF Sent, OutcomeOf

\* One more failure changes only the retry budget of a run.
LEMMA FailedRun ==
    ASSUME NEW r \in RunOf
    PROVE  /\ Failed(r) \in RunOf
           /\ Failed(r).latest = r.latest /\ Failed(r).ready = r.ready
           /\ Failed(r).busy = r.busy
<1> DEFINE n == IF r.retries > MaxRetries THEN r.retries ELSE r.retries + 1
           t == IF r.retries + 1 <= MaxRetries THEN "armed" ELSE "none"
<1>1. n \in Nat /\ t \in {"none", "armed", "due"}
    BY DEF RunOf
<1>2. Failed(r) = [r EXCEPT !.retries = n, !.retry = t]
    BY DEF Failed, RunOf
<1> HIDE DEF n, t
<1> QED
    BY <1>1, <1>2 DEF RunOf

\* send_latest_checkpoint sends the waiting sample of an idle run, or nothing.
LEMMA SendLatestOutcome ==
    ASSUME NEW s \in Sessions, NEW r \in RunOf, NEW o \in SendLatest(s, r)
    PROVE  Outcome(s, r, {}, o)
<1>1. CASE o = Kept(r)
    BY <1>1, OutcomeTyped DEF Outcome, Kept
<1>2. CASE ~r.busy /\ r.latest # None /\ o = Refused(Failed(r))
    BY <1>2, FailedRun, OutcomeTyped DEF Outcome, Refused
<1>3. CASE /\ ~r.busy /\ r.latest # None
           /\ o = Sent([r EXCEPT !.latest = None],
                       [op |-> "save", session |-> s, sample |-> r.latest])
  <2> DEFINE q == [op |-> "save", session |-> s, sample |-> r.latest]
  <2>1. q \in RequestOf
    BY <1>3, RequestMade DEF RunOf
  <2>2. Sendable(s, r, {}, q)
    BY <1>3, <2>1 DEF Sendable
  <2>3. /\ o.sent = <<q>>
        /\ o.run.busy /\ o.run.latest = None /\ o.run.ready = r.ready
    BY <1>3 DEF Sent, RunOf
  <2>5. o \in OutcomeOf
    <3>1. [r EXCEPT !.latest = None] \in RunOf
      BY DEF RunOf
    <3> QED
      BY <1>3, <2>1, <3>1, OutcomeTyped
  <2> HIDE DEF q
  <2>4. \E p \in RequestOf : Sendable(s, r, {}, p) /\ o.sent = <<p>>
    BY <2>1, <2>2, <2>3
  <2> QED
    BY <1>3, <2>3, <2>4, <2>5 DEF Outcome
<1> QED
    BY <1>1, <1>2, <1>3 DEF SendLatest

\* player_progress_ready asks for the new run, or keeps it behind a request.
LEMMA ProgressReadyOutcome ==
    ASSUME NEW s \in Sessions, NEW r \in RunOf, NEW ready \in ReadyOf,
           NEW o \in ProgressReady(s, r, ready)
    PROVE  Outcome(s, r, {ready}, o)
<1>1. CASE o = Kept(r) \/ o = Refused(r)
  <2>1. o \in OutcomeOf
    BY <1>1, OutcomeTyped
  <2> QED
    BY <1>1, <2>1 DEF Outcome, Kept, Refused
<1>2. CASE o = Kept([r EXCEPT !.ready = ready])
  <2>1. [r EXCEPT !.ready = ready] \in RunOf
    BY DEF RunOf
  <2> QED
    BY <1>2, <2>1, OutcomeTyped DEF Outcome, Kept, RunOf
<1>3. CASE ~r.busy /\ o = Sent(r, [op |-> "begin", session |-> s, epoch |-> ready.epoch,
                                   over |-> ready.over])
  <2> DEFINE q == [op |-> "begin", session |-> s, epoch |-> ready.epoch, over |-> ready.over]
  <2>1. q \in RequestOf
    BY RequestMade DEF ReadyOf
  <2>3. Sendable(s, r, {ready}, q)
    BY <2>1 DEF Sendable
  <2>4. /\ o.sent = <<q>>
        /\ o.run.busy /\ o.run.latest = r.latest /\ o.run.ready = r.ready
    BY <1>3 DEF Sent, RunOf
  <2> HIDE DEF q
  <2>5. \E p \in RequestOf : Sendable(s, r, {ready}, p) /\ o.sent = <<p>>
    BY <2>1, <2>3, <2>4
  <2>6. o \in OutcomeOf
    BY <1>3, <2>1, OutcomeTyped DEF q
  <2> QED
    BY <1>3, <2>4, <2>5, <2>6 DEF Outcome
<1> QED
    BY <1>1, <1>2, <1>3 DEF ProgressReady

-----------------------------------------------------------------------------
(* Types                                                                     *)

\* A notice changes nothing else of a window.
LEMMA NoticedTyped ==
    ASSUME NEW p \in WindowOf, NEW failed \in BOOLEAN
    PROVE  /\ Noticed(p, failed) \in WindowOf
           /\ Noticed(p, failed).phase = p.phase /\ Noticed(p, failed).epoch = p.epoch
           /\ Noticed(p, failed).run = p.run /\ Noticed(p, failed).auth = p.auth
           /\ Noticed(p, failed).last = p.last /\ Noticed(p, failed).seq = p.seq
           /\ ~Shown(p) => Noticed(p, failed) = p
    BY DEF Noticed, Shown, WindowOf

\* The types of the queues, the runs and the windows.
LEMMA Typed ==
    ASSUME TypeOK
    PROVE  /\ queue \in Seq(RequestOf) /\ acks \in Seq(AnswerOf)
           /\ run \in [Sessions -> RunOf \cup {None}] /\ player \in [Sessions -> WindowOf]
           /\ db.epoch \in Nat /\ db.run \in Nat
    BY DEF TypeOK, WindowOf

\* What every answer carries.
LEMMA AnswerFields ==
    ASSUME NEW a \in AnswerOf
    PROVE  /\ a.request \in RequestOf /\ a.result \in {"applied", "stale", "error"}
           /\ a.epoch \in Nat /\ a.run \in Nat
    BY DEF AnswerOf

-----------------------------------------------------------------------------
(* A step of one session                                                     *)

\* No request of session s is under way.
Free(s) ==
    /\ \A i \in DOMAIN queue : queue[i].session # s
    /\ \A i \in DOMAIN acks : acks[i].request.session # s

\* The step takes the answer to a request of session s.
Answers(s) == acks # <<>> /\ Head(acks).request.session = s /\ acks' = Tail(acks)

FlushTyped == quit \in {"no", "saving", "saved", "late"} /\ leaving \in SUBSET Sessions

\* The step changes nothing that a fact about session o rests on.
Harmless(o) ==
    /\ player'[o].phase = player[o].phase /\ player'[o].epoch = player[o].epoch
    /\ player'[o].run = player[o].run
    /\ player'[o].auth => player[o].auth
    /\ player'[o].last # None => /\ player'[o].last = player[o].last
                                 /\ player[o].auth => player'[o].auth
    /\ player[o].phase \in Early => player'[o] = player[o]
    /\ run[o] = None => run'[o] = None
    /\ run[o] # None => /\ run'[o] # None /\ run'[o].busy = run[o].busy
                        /\ run'[o].ready = run[o].ready
                        /\ run'[o].latest \in {run[o].latest, None}

\* An idle run has no request under way.
LEMMA IdleIsFree ==
    ASSUME FenceInv, NEW s \in Sessions,
           \/ run[s] # None /\ ~run[s].busy
           \/ run[s] = None /\ player[s].phase # "opening"
    PROVE  Free(s)
<1> USE DEF FenceInv
<1>1. \A q \in RequestOf : GoodRequest(q) => q.session # s
  <2> TAKE q \in RequestOf
  <2> HAVE GoodRequest(q)
  <2>1. CASE q.op = "read"
    BY <2>1 DEF GoodRequest, GoodWindow, Early
  <2>2. CASE q.op # "read"
    BY <2>2 DEF GoodRequest
  <2> QED
    BY <2>1, <2>2
<1>2. \A i \in DOMAIN queue : queue[i] \in RequestOf
    BY Typed, ElementOfSeq, LenProperties
<1>3. \A i \in DOMAIN acks : acks[i].request \in RequestOf
    BY Typed, AnswerFields, ElementOfSeq, LenProperties
<1> QED
    BY <1>1, <1>2, <1>3 DEF Free

\* The answer taken was the only request of its session.
LEMMA AnsweredIsFree ==
    ASSUME FenceInv, NEW s \in Sessions, Answers(s)
    PROVE  /\ \A i \in DOMAIN queue : queue[i].session # s
           /\ acks' \in Seq(AnswerOf)
           /\ \A i \in DOMAIN acks' : /\ i + 1 \in DOMAIN acks /\ acks'[i] = acks[i + 1]
                                      /\ acks'[i].request.session # s
           /\ Head(acks) = acks[1] /\ 1 \in DOMAIN acks /\ Head(acks) \in AnswerOf
<1>1. acks \in Seq(AnswerOf) /\ acks # <<>> /\ acks' = Tail(acks)
    BY Typed DEF FenceInv, Answers
<1>2. /\ acks' \in Seq(AnswerOf)
      /\ \A i \in DOMAIN acks' : i + 1 \in DOMAIN acks /\ acks'[i] = acks[i + 1]
      /\ Head(acks) = acks[1] /\ 1 \in DOMAIN acks
    BY <1>1, TailIndices
<1>3. acks[1].request.session = s /\ acks[1] \in AnswerOf
    BY <1>1, <1>2, ElementOfSeq, LenProperties DEF Answers
<1>4. \A i \in DOMAIN queue : queue[i].session # s
    BY <1>2, <1>3 DEF FenceInv, OneRequest
<1>5. \A i \in DOMAIN acks' : acks'[i].request.session # s
  <2> TAKE i \in DOMAIN acks'
  <2>1. i \in Nat \ {0} /\ i + 1 # 1
    BY <1>2, LenProperties
  <2> QED
    BY <1>2, <1>3, <2>1 DEF FenceInv, OneRequest
<1> QED
    BY <1>2, <1>3, <1>4, <1>5

\* Facts about another session survive a step that is harmless to it.
LEMMA OthersKept ==
    ASSUME FenceInv, NEW o \in Sessions, Harmless(o), UNCHANGED <<db, owner>>,
           player'[o] \in WindowOf
    PROVE  /\ GoodWindow(o)' /\ GoodRun(o)'
           /\ \A q \in RequestOf : q.session = o /\ GoodRequest(q) => GoodRequest(q)'
<1>1. GoodWindow(o) /\ GoodRun(o)
    BY DEF FenceInv
<1>2. player[o] \in WindowOf
    BY Typed DEF FenceInv
<1>3. GoodWindow(o)'
  <2>1. Fits(o, player[o])'
    <3>1. Fits(o, player[o])
      BY <1>1 DEF GoodWindow
    <3>2. player'[o].epoch <= db.epoch /\ player'[o].run <= db.epoch
      BY <3>1 DEF Fits, Harmless
    <3>3. player'[o].run # 0 /\ player'[o].run = db.run => owner = o
      BY <3>1 DEF Fits, Harmless
    <3>4. player'[o].auth => player'[o].run # 0
      BY <3>1 DEF Fits, Harmless
    <3>5. player'[o].last # None =>
             /\ player'[o].phase \in {"active", "closed"} /\ player'[o].auth
             /\ player'[o].epoch <= player'[o].last.at /\ player'[o].last.at <= db.epoch
      BY <3>1 DEF Fits, Harmless
    <3> QED
      BY <3>2, <3>3, <3>4, <3>5 DEF Fits
  <2>2. (player[o].phase \in Early => NewWindow(player[o]) /\ run[o] = None)'
    BY <1>1 DEF GoodWindow, Harmless, NewWindow
  <2>3. (player[o].phase \notin Early \cup {"closed"} => run[o] # None)'
    BY <1>1 DEF GoodWindow, Harmless
  <2> QED
    BY <2>1, <2>2, <2>3 DEF GoodWindow
<1>4. \A e \in Nat : Behind(e, player[o]) => Behind(e, player'[o])
    BY <1>2 DEF Behind, Harmless
<1>5. GoodRun(o)'
    BY <1>1, <1>4 DEF GoodRun, Harmless, Fenced, Behind
<1>6. \A q \in RequestOf : q.session = o /\ GoodRequest(q) => GoodRequest(q)'
    BY <1>4, RequestFields DEF GoodRequest, Harmless, Fenced
<1> QED
    BY <1>3, <1>5, <1>6

\* A step of session s preserves the invariant: what it sends is good, what stays
\* under way stays good, and no other session is touched in a way that matters.
LEMMA SessionStep ==
    ASSUME FenceInv, NEW s \in Sessions, TypeOK', UNCHANGED <<db, owner>>,
           acks' = acks \/ Answers(s),
           \/ queue' = queue
           \/ /\ Free(s) \/ Answers(s)
              /\ \E q \in RequestOf : /\ q.session = s /\ GoodRequest(q)'
                                      /\ queue' = Append(queue, q),
           \/ Free(s) \/ Answers(s)
           \/ \A q \in RequestOf : q.session = s /\ GoodRequest(q) => GoodRequest(q)',
           \A o \in Sessions \ {s} : Harmless(o),
           GoodWindow(s)', GoodRun(s)'
    PROVE  FenceInv'
<1>1. /\ queue \in Seq(RequestOf) /\ acks \in Seq(AnswerOf)
      /\ queue' \in Seq(RequestOf) /\ acks' \in Seq(AnswerOf)
      /\ player' \in [Sessions -> WindowOf]
  <2>1. queue \in Seq(RequestOf) /\ acks \in Seq(AnswerOf)
    BY Typed DEF FenceInv
  <2>2. /\ queue' \in Seq(RequestOf) /\ acks' \in Seq(AnswerOf)
        /\ player' \in [Sessions -> WindowOf]
    BY DEF TypeOK, WindowOf
  <2> QED
    BY <2>1, <2>2
<1>2. /\ \A i \in DOMAIN queue : queue[i] \in RequestOf /\ queue[i].session \in Sessions
      /\ \A i \in DOMAIN acks : /\ acks[i] \in AnswerOf /\ acks[i].request \in RequestOf
                                /\ acks[i].request.session \in Sessions
    BY <1>1, RequestFields, AnswerFields, ElementOfSeq, LenProperties
\* What is left of the unread answers.
<1>3. PICK k \in {0, 1} :
        /\ \A i \in DOMAIN acks' : i + k \in DOMAIN acks /\ acks'[i] = acks[i + k]
        /\ Free(s) \/ Answers(s) =>
             /\ \A i \in DOMAIN acks' : acks'[i].request.session # s
             /\ \A i \in DOMAIN queue : queue[i].session # s
  <2>1. CASE Answers(s)
    BY <2>1, AnsweredIsFree
  <2>2. CASE acks' = acks /\ ~Answers(s)
    <3>1. \A i \in DOMAIN acks : i \in Nat
      BY <1>1, LenProperties
    <3> QED
      BY <2>2, <3>1 DEF Free
  <2> QED
    BY <2>1, <2>2
<1>4. \A i \in DOMAIN acks' : i \in Nat
    BY <1>1, LenProperties
\* A request that stays is still good.
<1>5. \A q \in RequestOf :
        /\ GoodRequest(q) /\ q.session \in Sessions
        /\ q.session = s => ~Free(s) /\ ~Answers(s)
        => GoodRequest(q)'
  <2>1. \A o \in Sessions \ {s} :
          \A q \in RequestOf : q.session = o /\ GoodRequest(q) => GoodRequest(q)'
    BY <1>1, OthersKept
  <2> QED
    BY <2>1
<1>6. \A i \in DOMAIN acks' : (GoodRequest(acks[i].request) /\ GoodAnswer(acks[i]))'
  <2> SUFFICES ASSUME NEW i \in DOMAIN acks'
               PROVE  (GoodRequest(acks[i].request) /\ GoodAnswer(acks[i]))'
    OBVIOUS
  <2>1. /\ i + k \in DOMAIN acks /\ acks'[i] = acks[i + k]
        /\ Free(s) \/ Answers(s) => acks'[i].request.session # s
    BY <1>3
  <2>2. PICK a \in AnswerOf : a = acks[i + k]
    BY <1>2, <2>1
  <2>3. PICK q \in RequestOf : q = a.request
    BY AnswerFields
  <2>4. GoodRequest(q) /\ GoodAnswer(a)
    BY <2>1, <2>2, <2>3 DEF FenceInv
  <2>5. GoodRequest(q)'
    BY <1>2, <1>5, <2>1, <2>2, <2>3, <2>4
  <2>6. GoodAnswer(a)'
    BY <2>4 DEF GoodAnswer
  <2> QED
    BY <2>1, <2>2, <2>3, <2>5, <2>6
<1>7. \A i \in DOMAIN queue : \A q \in RequestOf : q = queue[i] => GoodRequest(q)'
  <2> SUFFICES ASSUME NEW i \in DOMAIN queue, NEW q \in RequestOf, q = queue[i]
               PROVE  GoodRequest(q)'
    OBVIOUS
  <2>1. GoodRequest(q)
    BY DEF FenceInv
  <2> QED
    BY <1>2, <1>3, <1>5, <2>1
<1>8. \A o \in Sessions : GoodWindow(o)' /\ GoodRun(o)'
    BY <1>1, OthersKept
<1>9. (db.run <= db.epoch)'
    BY DEF FenceInv
<1>10. CASE queue' = queue
  <2>1. \A i \in DOMAIN queue' : GoodRequest(queue[i])'
    <3> SUFFICES ASSUME NEW i \in DOMAIN queue' PROVE GoodRequest(queue[i])'
      OBVIOUS
    <3>1. PICK q \in RequestOf : q = queue[i]
      BY <1>2, <1>10
    <3> QED
      BY <1>7, <1>10, <3>1
  <2>2. OneRequest'
    BY <1>3, <1>4, <1>10 DEF FenceInv, OneRequest
  <2> QED
    BY <1>6, <1>8, <1>9, <2>1, <2>2 DEF FenceInv
<1>11. CASE /\ Free(s) \/ Answers(s)
            /\ \E q \in RequestOf : /\ q.session = s /\ GoodRequest(q)'
                                    /\ queue' = Append(queue, q)
  <2>1. PICK q \in RequestOf : /\ q.session = s /\ GoodRequest(q)'
                               /\ queue' = Append(queue, q)
    BY <1>11
  <2>2. \A i \in DOMAIN queue' : \/ i \in DOMAIN queue /\ queue'[i] = queue[i]
                                 \/ i = Len(queue) + 1 /\ queue'[i] = q
    BY <1>1, <2>1, AppendIndices
  <2>3. \A i \in DOMAIN queue' : GoodRequest(queue[i])'
    <3> SUFFICES ASSUME NEW i \in DOMAIN queue' PROVE GoodRequest(queue[i])'
      OBVIOUS
    <3>1. PICK p \in RequestOf : p = queue'[i]
      BY <1>2, <2>2
    <3>2. GoodRequest(p)'
      BY <1>7, <2>1, <2>2, <3>1
    <3> QED
      BY <3>1, <3>2
  <2>4. OneRequest'
    BY <1>3, <1>4, <1>11, <2>1, <2>2 DEF FenceInv, OneRequest
  <2> QED
    BY <1>6, <1>8, <1>9, <2>3, <2>4 DEF FenceInv
<1> QED
    BY <1>10, <1>11

\* The window's epoch grows, or it is no more authorized than it was.
Onward(p, w) ==
    /\ p.epoch <= w.epoch
    /\ w.phase = "active" /\ w.auth => p.epoch < w.epoch \/ (p.phase = "active" /\ p.auth)

\* A window that moves on leaves behind what was behind before.
LEMMA BehindKept ==
    ASSUME NEW e \in Nat, NEW p \in WindowOf, NEW w \in WindowOf, Behind(e, p), Onward(p, w)
    PROVE  Behind(e, w)
    BY DEF Behind, Onward, WindowOf

\* Storing the outcome of a submission of session s.
LEMMA SubmissionStep ==
    ASSUME FenceInv, NEW s \in Sessions, FlushTyped', UNCHANGED <<db, owner, unmarked>>,
           accepted' \in [Sessions -> SampleOf \cup {None}],
           NEW r \in RunOf, NEW asked \in SUBSET ReadyOf,
           NEW o \in OutcomeOf, Outcome(s, r, asked, o),
           NEW windows \in [Sessions -> WindowOf], Settled(s, o, windows),
           \A other \in Sessions \ {s} : windows[other] = player[other],
           run[s] # None, windows[s].phase \notin Early,
           (acks' = acks /\ r.busy = run[s].busy) \/ Answers(s),
           r.latest # None => Fenced(r.latest, s),
           r.ready # None => Behind(r.ready.epoch, windows[s]),
           \A ready \in asked : Behind(ready.epoch, windows[s]),
           Onward(player[s], windows[s]), Fits(s, windows[s])
    PROVE  FenceInv'
<1> DEFINE w == windows[s]
           v == Noticed(windows[s], TRUE)
<1>1. /\ player \in [Sessions -> WindowOf] /\ w \in WindowOf
      /\ run \in [Sessions -> RunOf \cup {None}] /\ o.run \in RunOf
      /\ queue \in Seq(RequestOf) /\ acks \in Seq(AnswerOf)
    BY Typed DEF FenceInv, OutcomeOf
<1>2. /\ run' \in [Sessions -> RunOf \cup {None}] /\ run'[s] = o.run
      /\ queue' \in Seq(RequestOf) /\ faults' \in Nat
      /\ player' \in [Sessions -> WindowOf]
      /\ player'[s] = w \/ player'[s] = v
      /\ \A other \in Sessions \ {s} : /\ run'[other] = run[other]
                                     /\ player'[other] = player[other]
      /\ o.sent = <<>> => queue' = queue
      /\ \A q \in RequestOf : o.sent = <<q>> => queue' = Append(queue, q)
  <2>1. /\ run' \in [Sessions -> RunOf \cup {None}] /\ run'[s] = o.run
        /\ \A other \in Sessions \ {s} : run'[other] = run[other]
    BY <1>1 DEF Settled
  <2>2. /\ o.sent = <<>> => queue' = queue
        /\ \A q \in RequestOf : o.sent = <<q>> => queue' = Append(queue, q)
    BY <1>1, ConcatEmptySeq, AppendIsConcat DEF Settled
  <2>3. queue' \in Seq(RequestOf)
    BY <1>1, ConcatProperties DEF Settled, OutcomeOf
  <2>4. faults' \in Nat
    BY DEF Settled, TypeOK, FenceInv
  <2>5. /\ player' \in [Sessions -> WindowOf]
        /\ player'[s] = windows[s] \/ player'[s] = v
        /\ \A other \in Sessions \ {s} : player'[other] = windows[other]
    BY NoticedTyped DEF Settled
  <2> QED
    BY <2>1, <2>2, <2>3, <2>4, <2>5
<1>3. /\ player'[s].phase = w.phase /\ player'[s].epoch = w.epoch
      /\ player'[s].run = w.run /\ player'[s].auth = w.auth /\ player'[s].last = w.last
  <2>1. /\ v.phase = w.phase /\ v.epoch = w.epoch /\ v.run = w.run
        /\ v.auth = w.auth /\ v.last = w.last
    BY <1>1, NoticedTyped
  <2> HIDE DEF w, v
  <2> QED
    BY <1>2, <2>1
<1>4. acks' \in Seq(AnswerOf)
    BY <1>1, AnsweredIsFree
<1>5. TypeOK'
    BY <1>2, <1>4 DEF TypeOK, FlushTyped, WindowOf, FenceInv
<1>6. o.run # None
    BY <1>1, AbsenceAssumption
<1>7. Fits(s, player[s])'
    BY <1>3 DEF Fits
<1>8. GoodWindow(s)'
    BY <1>2, <1>3, <1>6, <1>7 DEF GoodWindow
<1>9. Onward(player[s], player'[s]) /\ player'[s] \in WindowOf /\ player[s] \in WindowOf
    BY <1>1, <1>2, <1>3 DEF Onward
<1>10. \A e \in Nat : Behind(e, w) => Behind(e, player'[s])
    BY <1>3 DEF Behind
<1>11. GoodRun(s)'
  <2>1. o.run.latest # None => Fenced(o.run.latest, s)'
    BY DEF Outcome, Fenced
  <2>2. o.run.ready # None => Behind(o.run.ready.epoch, player'[s])
    <3>1. CASE o.run.ready = r.ready
      <4>1. r.ready # None => r.ready.epoch \in Nat
        BY DEF RunOf, ReadyOf
      <4> QED
        BY <1>10, <3>1, <4>1
    <3>2. CASE o.run.ready \in asked
      <4>1. o.run.ready.epoch \in Nat
        BY <3>2 DEF ReadyOf
      <4> QED
        BY <1>10, <3>2, <4>1
    <3> QED
      BY <3>1, <3>2 DEF Outcome
  <2> QED
    BY <1>2, <2>1, <2>2 DEF GoodRun
\* What is sent is sent by an idle run.
<1>12. ~r.busy => Free(s) \/ Answers(s)
    BY IdleIsFree
<1>13. \/ queue' = queue
       \/ /\ Free(s) \/ Answers(s)
          /\ \E q \in RequestOf : /\ q.session = s /\ GoodRequest(q)'
                                  /\ queue' = Append(queue, q)
  <2>1. CASE o.sent = <<>>
    BY <1>2, <2>1
  <2>2. CASE /\ ~r.busy /\ o.run.busy
             /\ \E q \in RequestOf : Sendable(s, r, asked, q) /\ o.sent = <<q>>
    <3>1. PICK q \in RequestOf : Sendable(s, r, asked, q) /\ o.sent = <<q>>
      BY <2>2
    <3>2. queue' = Append(queue, q)
      BY <1>2, <3>1
    <3>3. q.session = s /\ GoodRequest(q)'
      <4>1. q.op = "save" => Fenced(q.sample, s)'
        BY <3>1 DEF Sendable, Fenced
      <4>2. q.op = "begin" => Behind(q.epoch, player'[s])
        BY <1>10, <3>1, RequestFields DEF Sendable
      <4> QED
        BY <1>2, <1>6, <2>2, <3>1, <4>1, <4>2 DEF Sendable, GoodRequest
    <3> QED
      BY <1>12, <2>2, <3>2, <3>3
  <2> QED
    BY <2>1, <2>2 DEF Outcome
<1>14. \/ Free(s) \/ Answers(s)
       \/ \A q \in RequestOf : q.session = s /\ GoodRequest(q) => GoodRequest(q)'
  <2>1. CASE acks' = acks /\ r.busy = run[s].busy /\ r.busy
    <3> SUFFICES ASSUME NEW q \in RequestOf, q.session = s, GoodRequest(q)
                 PROVE  GoodRequest(q)'
      OBVIOUS
    <3>1. q.op # "read"
      BY DEF FenceInv, GoodWindow, GoodRequest, Early
    <3>2. o.run.busy
      BY <2>1 DEF Outcome
    <3>3. q.op = "begin" => Behind(q.epoch, player'[s])
      BY <1>9, BehindKept, RequestFields DEF GoodRequest
    <3>4. q.op = "save" => Fenced(q.sample, s)'
      BY DEF GoodRequest, Fenced
    <3> QED
      BY <1>2, <1>6, <3>1, <3>2, <3>3, <3>4 DEF GoodRequest
  <2> QED
    BY <1>12, <2>1
<1>15. \A other \in Sessions \ {s} : Harmless(other)
    BY <1>2 DEF Harmless
<1>16. acks' = acks \/ Answers(s)
    OBVIOUS
<1> QED
    BY <1>5, <1>8, <1>11, <1>13, <1>14, <1>15, <1>16, SessionStep

-----------------------------------------------------------------------------
(* Player windows                                                            *)

\* A session the coordinator knows.
LEMMA KnownRun ==
    ASSUME FenceInv, NEW s \in Sessions,
           run[s] # None \/ player[s].phase \notin Early \cup {"closed"}
    PROVE  /\ run[s] # None /\ run[s] \in RunOf
           /\ player[s] \in WindowOf /\ player[s].phase \notin Early /\ Fits(s, player[s])
           /\ run[s].latest # None => Fenced(run[s].latest, s)
           /\ run[s].ready # None => /\ Behind(run[s].ready.epoch, player[s])
                                     /\ run[s].ready \in ReadyOf
<1>1. GoodWindow(s) /\ GoodRun(s)
    BY DEF FenceInv
<1>2. run[s] # None /\ player[s].phase \notin Early /\ Fits(s, player[s])
    BY <1>1 DEF GoodWindow
<1>3. player[s] \in WindowOf /\ run[s] \in RunOf
    BY <1>2, Typed DEF FenceInv
<1>4. run[s].ready # None => run[s].ready \in ReadyOf
    BY <1>3 DEF RunOf
<1> QED
    BY <1>1, <1>2, <1>3, <1>4 DEF GoodRun

\* A step that changes only what a window holds.
LEMMA WindowStep ==
    ASSUME FenceInv, NEW s \in Sessions, FlushTyped',
           UNCHANGED <<db, queue, acks, run, faults, history>>, NEW w \in WindowOf,
           player' = [player EXCEPT ![s] = w],
           run[s] # None \/ (player[s].phase = "closed" /\ w.phase = "closed"),
           w.phase \notin Early, Onward(player[s], w), Fits(s, w)
    PROVE  FenceInv'
<1>1. /\ player \in [Sessions -> WindowOf] /\ player'[s] = w
      /\ \A other \in Sessions \ {s} : player'[other] = player[other]
    BY Typed DEF FenceInv
<1>2. TypeOK'
    BY <1>1 DEF TypeOK, FlushTyped, WindowOf, FenceInv, history
<1>3. GoodWindow(s)'
    BY <1>1 DEF GoodWindow, Fits, history
<1>4. GoodRun(s)'
  <2>1. GoodRun(s)
    BY DEF FenceInv
  <2>2. run[s] # None /\ run[s].ready # None => run[s].ready.epoch \in Nat
    BY Typed DEF FenceInv, RunOf, ReadyOf
  <2> QED
    BY <1>1, <2>1, <2>2, BehindKept DEF GoodRun, Fenced, history
<1>5. \A q \in RequestOf : q.session = s /\ GoodRequest(q) => GoodRequest(q)'
  <2> SUFFICES ASSUME NEW q \in RequestOf, q.session = s, GoodRequest(q)
               PROVE  GoodRequest(q)'
    OBVIOUS
  <2>1. q.op # "read"
    BY KnownRun DEF FenceInv, GoodRequest, Early
  <2>2. q.op = "begin" => Behind(q.epoch, player'[s])
    BY <1>1, BehindKept, RequestFields DEF GoodRequest
  <2> QED
    BY <2>1, <2>2 DEF GoodRequest, Fenced, history
<1>6. \A other \in Sessions \ {s} : Harmless(other)
    BY <1>1 DEF Harmless
<1> QED
    BY <1>2, <1>3, <1>4, <1>5, <1>6, SessionStep DEF history

\* A window that may not save and holds no observation is no writer.
LEMMA PausedFits ==
    ASSUME NEW s \in Sessions, NEW p \in WindowOf, NEW w \in WindowOf, Fits(s, p),
           w.epoch = p.epoch, w.run = p.run, w.auth = FALSE, w.last = None
    PROVE  Fits(s, w) /\ Onward(p, w)
<1>1. Fits(s, w)
    BY DEF Fits
<1>2. p.epoch <= w.epoch
    BY DEF WindowOf
<1> QED
    BY <1>1, <1>2 DEF Onward

\* StartFails: the window may not save any more.
LEMMA StartFailsStep ==
    ASSUME FenceInv, NEW s \in Sessions, FlushTyped', StartFails(s)
    PROVE  FenceInv'
<1> DEFINE w == [player[s] EXCEPT !.phase = "prompt", !.auth = FALSE]
<1>1. player[s] \in WindowOf /\ player[s].phase = "start"
    BY Typed DEF FenceInv, StartFails
<1>2. run[s] # None /\ Fits(s, player[s])
    BY <1>1, KnownRun DEF Early
<1>3. /\ w \in WindowOf /\ w.phase \notin Early
      /\ w.epoch = player[s].epoch /\ w.run = player[s].run /\ w.auth = FALSE
    BY <1>1 DEF WindowOf, Phases, Early
<1>5. w.last = None
    BY <1>1, <1>2 DEF Fits, WindowOf
<1>6. Onward(player[s], w) /\ Fits(s, w)
    BY <1>1, <1>2, <1>3, <1>5, PausedFits
<1>4. player' = [player EXCEPT ![s] = w]
    BY DEF StartFails, FenceInv, TypeOK
<1> QED
    BY <1>2, <1>3, <1>4, <1>6, WindowStep DEF StartFails

\* RetryStartup: the window starts over without an authorization.
LEMMA RetryStartupStep ==
    ASSUME FenceInv, NEW s \in Sessions, FlushTyped', RetryStartup(s)
    PROVE  FenceInv'
<1> DEFINE w == [player[s] EXCEPT !.phase = "start", !.auth = FALSE, !.last = None]
<1>1. player[s] \in WindowOf /\ player[s].phase = "prompt"
    BY Typed DEF FenceInv, RetryStartup
<1>2. run[s] # None /\ Fits(s, player[s])
    BY <1>1, KnownRun DEF Early
<1>3. /\ w \in WindowOf /\ w.phase \notin Early
      /\ w.epoch = player[s].epoch /\ w.run = player[s].run /\ w.auth = FALSE
    BY <1>1 DEF WindowOf, Phases, Early
<1>5. w.last = None
    BY <1>1, <1>2 DEF Fits, WindowOf
<1>6. Onward(player[s], w) /\ Fits(s, w)
    BY <1>1, <1>2, <1>3, <1>5, PausedFits
<1>4. player' = [player EXCEPT ![s] = w]
    BY DEF RetryStartup, FenceInv, TypeOK
<1> QED
    BY <1>2, <1>3, <1>4, <1>6, WindowStep DEF RetryStartup

\* PlayWithoutSaving: the window plays on without one.
LEMMA PlayWithoutSavingStep ==
    ASSUME FenceInv, NEW s \in Sessions, FlushTyped', PlayWithoutSaving(s)
    PROVE  FenceInv'
<1> DEFINE w == [player[s] EXCEPT !.phase = "active", !.auth = FALSE]
<1>1. player[s] \in WindowOf /\ player[s].phase \in {"prompt", "ready", "reset"}
    BY Typed DEF FenceInv, PlayWithoutSaving, NotSaving
<1>2. run[s] # None /\ Fits(s, player[s])
    BY <1>1, KnownRun DEF Early
<1>3. /\ w \in WindowOf /\ w.phase \notin Early
      /\ w.epoch = player[s].epoch /\ w.run = player[s].run /\ w.auth = FALSE
    BY <1>1 DEF WindowOf, Phases, Early
<1>5. w.last = None
    BY <1>1, <1>2 DEF Fits, WindowOf
<1>6. Onward(player[s], w) /\ Fits(s, w)
    BY <1>1, <1>2, <1>3, <1>5, PausedFits
<1>4. player' = [player EXCEPT ![s] = w]
    BY DEF PlayWithoutSaving, FenceInv, TypeOK
<1> QED
    BY <1>2, <1>3, <1>4, <1>6, WindowStep DEF PlayWithoutSaving

\* Observe: an observation is of the epoch it is made in.
LEMMA ObserveStep ==
    ASSUME FenceInv, NEW s \in Sessions, FlushTyped', Observe(s)
    PROVE  FenceInv'
<1>1. /\ player[s] \in WindowOf /\ player[s].phase = "active" /\ player[s].auth
      /\ db.epoch \in Nat
    BY Typed DEF FenceInv, Observe, Sampling
<1>2. run[s] # None /\ Fits(s, player[s])
    BY <1>1, KnownRun DEF Early
<1>3. PICK done \in BOOLEAN :
        player' = [player EXCEPT ![s].last = [at |-> db.epoch, done |-> done]]
    BY CompletionsAssumption DEF Observe
<1> DEFINE w == [player[s] EXCEPT !.last = [at |-> db.epoch, done |-> done]]
<1>4. w \in WindowOf /\ w.phase \notin Early /\ Onward(player[s], w) /\ Fits(s, w)
    BY <1>1, <1>2 DEF WindowOf, Phases, Early, Onward, Fits
<1>5. player' = [player EXCEPT ![s] = w]
    BY <1>3 DEF FenceInv, TypeOK
<1> QED
    BY <1>2, <1>4, <1>5, WindowStep DEF Observe

\* A window that waits for its new run asks for it, now or behind the request in
\* flight, in the epoch that it holds.
LEMMA ReadyStep ==
    ASSUME FenceInv, NEW s \in Sessions, FlushTyped', NEW w \in WindowOf,
           player[s].phase \in {"start", "ready", "reset"}, w.phase \in {"ready", "reset"},
           w.epoch = player[s].epoch, w.run = player[s].run, w.auth = player[s].auth,
           w.last = player[s].last, NEW ready \in ReadyOf, ready.epoch = w.epoch,
           NEW o \in ProgressReady(s, run[s], ready),
           Settled(s, o, [player EXCEPT ![s] = w]), UNCHANGED <<db, acks, history>>
    PROVE  FenceInv'
<1> DEFINE windows == [player EXCEPT ![s] = w]
<1>1. /\ player \in [Sessions -> WindowOf]
      /\ accepted \in [Sessions -> SampleOf \cup {None}]
    BY Typed DEF FenceInv, TypeOK
<1>2. /\ run[s] # None /\ run[s] \in RunOf /\ Fits(s, player[s])
      /\ run[s].latest # None => Fenced(run[s].latest, s)
      /\ run[s].ready # None => Behind(run[s].ready.epoch, player[s])
                                /\ run[s].ready \in ReadyOf
    BY KnownRun DEF Early
<1>3. /\ windows \in [Sessions -> WindowOf] /\ windows[s] = w
      /\ \A other \in Sessions \ {s} : windows[other] = player[other]
    BY <1>1
<1>4. Settled(s, o, windows)
    OBVIOUS
<1> HIDE DEF windows
<1>5. Outcome(s, run[s], {ready}, o)
    BY <1>2, ProgressReadyOutcome
<1>6. o \in OutcomeOf
    BY <1>5 DEF Outcome
<1>7. w.phase \notin Early /\ Onward(player[s], w) /\ Fits(s, w)
    BY <1>1, <1>2 DEF Early, Onward, Fits, WindowOf
<1>8. run[s].ready # None => Behind(run[s].ready.epoch, w)
    BY <1>1, <1>2, <1>7, BehindKept DEF ReadyOf
<1>9. \A x \in {ready} : Behind(x.epoch, w)
    BY <1>1 DEF Behind, WindowOf
<1>10. UNCHANGED <<db, acks, owner, accepted, unmarked>>
    BY DEF history
<1> QED
    BY <1>1, <1>2, <1>3, <1>4, <1>5, <1>6, <1>7, <1>8, <1>9, <1>10, SubmissionStep

\* BecomesReady: a prepared window asks for its run.
LEMMA BecomesReadyStep ==
    ASSUME FenceInv, NEW s \in Sessions, FlushTyped', NEW over \in BOOLEAN, BecomesReady(s, over)
    PROVE  FenceInv'
<1> DEFINE phase == IF over THEN "reset" ELSE "ready"
           w == [player[s] EXCEPT !.phase = phase, !.over = over]
           ready == [epoch |-> player[s].epoch, over |-> over]
<1>1. player \in [Sessions -> WindowOf] /\ player[s].phase = "start"
    BY Typed DEF FenceInv, BecomesReady
<1>2. phase \in {"ready", "reset"}
    OBVIOUS
<1>3. [player EXCEPT ![s].phase = phase, ![s].over = over] = [player EXCEPT ![s] = w]
    BY <1>1 DEF WindowOf
<1>4. PICK o \in ProgressReady(s, run[s], ready) : Settled(s, o, [player EXCEPT ![s] = w])
    BY <1>3 DEF BecomesReady
<1> HIDE DEF phase
<1>5. /\ w \in WindowOf /\ w.phase = phase /\ w.epoch = player[s].epoch
      /\ w.run = player[s].run /\ w.auth = player[s].auth /\ w.last = player[s].last
    BY <1>1, <1>2 DEF WindowOf, Phases
<1>6. ready \in ReadyOf /\ ready.epoch = player[s].epoch
    BY <1>1 DEF ReadyOf, WindowOf
<1> HIDE DEF w, ready
<1> QED
    BY <1>1, <1>2, <1>4, <1>5, <1>6, ReadyStep DEF BecomesReady

\* RetryProgressReady: it asks again.
LEMMA RetryProgressReadyStep ==
    ASSUME FenceInv, NEW s \in Sessions, FlushTyped', RetryProgressReady(s)
    PROVE  FenceInv'
<1> DEFINE w == [player[s] EXCEPT !.notice = FALSE]
           ready == [epoch |-> player[s].epoch, over |-> player[s].phase = "reset"]
<1>1. player \in [Sessions -> WindowOf] /\ player[s].phase \in {"ready", "reset"}
    BY Typed DEF FenceInv, RetryProgressReady, NotSaving
<1>2. [player EXCEPT ![s].notice = FALSE] = [player EXCEPT ![s] = w]
    BY <1>1 DEF WindowOf
<1>3. PICK o \in ProgressReady(s, run[s], ready) : Settled(s, o, [player EXCEPT ![s] = w])
    BY <1>2 DEF RetryProgressReady
<1>4. /\ w \in WindowOf /\ w.phase = player[s].phase /\ w.epoch = player[s].epoch
      /\ w.run = player[s].run /\ w.auth = player[s].auth /\ w.last = player[s].last
    BY <1>1 DEF WindowOf
<1>5. ready \in ReadyOf /\ ready.epoch = player[s].epoch
    BY <1>1 DEF ReadyOf, WindowOf
<1> HIDE DEF w, ready
<1> QED
    BY <1>1, <1>3, <1>4, <1>5, ReadyStep DEF RetryProgressReady

\* The window's last observation becomes a sample that is fenced.
LEMMA DeliverStep ==
    ASSUME FenceInv, NEW s \in Sessions, FlushTyped', HasSample(s), NEW force \in BOOLEAN,
           NEW w \in WindowOf, w.phase \notin Early, Onward(player[s], w), Fits(s, w),
           Deliver(s, force, w)
    PROVE  FenceInv'
<1> DEFINE sample == NextSample(s)
           windows == [player EXCEPT ![s] = w]
<1>1. /\ player \in [Sessions -> WindowOf] /\ player[s].phase = "active" /\ player[s].auth
      /\ player[s].last # None
      /\ accepted \in [Sessions -> SampleOf \cup {None}]
    BY Typed DEF FenceInv, HasSample, Sampling, TypeOK
<1>2. /\ run[s] # None /\ run[s] \in RunOf /\ Fits(s, player[s])
      /\ run[s].latest # None => Fenced(run[s].latest, s)
      /\ run[s].ready # None => Behind(run[s].ready.epoch, player[s])
                                /\ run[s].ready \in ReadyOf
    BY <1>1, KnownRun DEF Early
<1>3. /\ windows \in [Sessions -> WindowOf] /\ windows[s] = w
      /\ \A other \in Sessions \ {s} : windows[other] = player[other]
    BY <1>1
<1>4. sample \in SampleOf /\ Fenced(sample, s)
  <2>1. player[s] \in WindowOf /\ player[s].last \in [at : Nat, done : BOOLEAN]
    BY <1>1 DEF WindowOf
  <2>2. sample \in SampleOf
    BY <2>1 DEF NextSample, SampleOf, WindowOf
  <2>3. Fenced(sample, s)
    BY <1>1, <1>2 DEF Fenced, Fits, NextSample
  <2> QED
    BY <2>2, <2>3
<1> HIDE DEF sample
<1>5. accepted' \in [Sessions -> SampleOf \cup {None}]
    BY <1>1, <1>4 DEF Deliver, sample
<1>6. PICK o \in Submitted(s, sample, force) : Settled(s, o, windows)
    BY DEF Deliver, sample
<1> HIDE DEF windows
<1>7. UNCHANGED <<db, acks, owner, unmarked>>
    BY DEF Deliver
<1>8. PICK r \in RunOf : /\ Outcome(s, r, {}, o) /\ r.busy = run[s].busy
                         /\ r.ready = run[s].ready
                         /\ r.latest \in {run[s].latest, sample}
  <2>1. CASE o = Kept(run[s])
    <3>1. Outcome(s, run[s], {}, o)
      BY <1>2, <2>1, OutcomeTyped DEF Outcome, Kept
    <3> QED
      BY <1>2, <3>1
  <2>2. ASSUME NEW n \in Nat, NEW t \in {"none", "armed", "due"},
               o \in SendLatest(s, [run[s] EXCEPT !.seq = sample.seq, !.latest = sample,
                                                  !.retries = n, !.retry = t])
        PROVE  \E r \in RunOf : /\ Outcome(s, r, {}, o) /\ r.busy = run[s].busy
                                /\ r.ready = run[s].ready
                                /\ r.latest \in {run[s].latest, sample}
    <3> DEFINE r == [run[s] EXCEPT !.seq = sample.seq, !.latest = sample,
                                   !.retries = n, !.retry = t]
    <3>1. /\ r \in RunOf /\ r.busy = run[s].busy /\ r.ready = run[s].ready
          /\ r.latest = sample
      BY <1>2, <1>4 DEF RunOf, SampleOf
    <3>2. o \in SendLatest(s, r)
      BY <2>2
    <3> HIDE DEF r
    <3> QED
      BY <3>1, <3>2, SendLatestOutcome
  <2> DEFINE n == IF run[s].retries > MaxRetries THEN 0 ELSE run[s].retries
             t == IF force \/ run[s].retries > MaxRetries THEN "none" ELSE run[s].retry
  <2>3. n \in Nat /\ t \in {"none", "armed", "due"}
    BY <1>2 DEF RunOf
  <2>4. \/ o = Kept(run[s])
        \/ o \in SendLatest(s, [run[s] EXCEPT !.seq = sample.seq, !.latest = sample,
                                              !.retries = n, !.retry = t])
    BY <1>2, <1>6 DEF Submitted, RunOf
  <2> HIDE DEF n, t
  <2> QED
    BY <2>1, <2>2, <2>3, <2>4
<1>9. o \in OutcomeOf
    BY <1>8 DEF Outcome
<1>10. run[s].ready # None => Behind(run[s].ready.epoch, windows[s])
    BY <1>1, <1>2, <1>3, BehindKept DEF ReadyOf
<1>11. r.latest # None => Fenced(r.latest, s)
    BY <1>2, <1>4, <1>8
<1> QED
    BY <1>2, <1>3, <1>5, <1>6, <1>7, <1>8, <1>9, <1>10, <1>11, SubmissionStep

\* flush_progress: a last sample, if there is one to take, and a new window.
LEMMA FlushStep ==
    ASSUME FenceInv, NEW s \in Sessions, FlushTyped', NEW w \in WindowOf,
           w.phase \notin Early, Onward(player[s], w), Fits(s, w),
           run[s] # None \/ (player[s].phase = "closed" /\ w.phase = "closed"),
           Flush(s, w)
    PROVE  FenceInv'
<1>1. CASE HasSample(s) /\ Deliver(s, TRUE, [w EXCEPT !.seq = @ + 1])
  <2> DEFINE v == [w EXCEPT !.seq = @ + 1]
  <2>1. /\ v \in WindowOf /\ v.phase = w.phase /\ v.epoch = w.epoch /\ v.run = w.run
        /\ v.auth = w.auth /\ v.last = w.last
    BY DEF WindowOf
  <2>2. HasSample(s) /\ Deliver(s, TRUE, v)
    BY <1>1
  <2> HIDE DEF v
  <2>3. v.phase \notin Early /\ Onward(player[s], v) /\ Fits(s, v)
    BY <2>1 DEF Onward, Fits
  <2> QED
    BY <2>1, <2>2, <2>3, DeliverStep
<1>2. CASE /\ player' = [player EXCEPT ![s] = w]
           /\ UNCHANGED <<db, queue, acks, run, faults, history>>
    BY <1>2, WindowStep
<1> QED
    BY <1>1, <1>2 DEF Flush

\* Sample: a window delivers while it plays.
LEMMA SampleStep ==
    ASSUME FenceInv, NEW s \in Sessions, FlushTyped', NEW force \in BOOLEAN, Sample(s, force)
    PROVE  FenceInv'
<1> DEFINE v == [player[s] EXCEPT !.seq = @ + 1]
<1>1. player[s] \in WindowOf /\ player[s].phase = "active" /\ HasSample(s)
    BY Typed DEF FenceInv, Sample, HasSample, Sampling
<1>2. Fits(s, player[s])
    BY <1>1, KnownRun DEF Early
<1>3. /\ v \in WindowOf /\ v.phase = player[s].phase /\ v.epoch = player[s].epoch
      /\ v.run = player[s].run /\ v.auth = player[s].auth /\ v.last = player[s].last
    BY <1>1 DEF WindowOf
<1>4. Deliver(s, force, v)
    BY DEF Sample
<1> HIDE DEF v
<1>5. v.phase \notin Early /\ Onward(player[s], v) /\ Fits(s, v)
    BY <1>1, <1>2, <1>3 DEF Onward, Fits, Early, WindowOf
<1> QED
    BY <1>1, <1>3, <1>4, <1>5, DeliverStep

\* Replay: a last sample, and a window that starts over.
LEMMA ReplayStep ==
    ASSUME FenceInv, NEW s \in Sessions, FlushTyped', Replay(s)
    PROVE  FenceInv'
<1> DEFINE w == [player[s] EXCEPT !.phase = "start", !.auth = FALSE, !.last = None,
                                  !.over = TRUE]
<1>1. player[s] \in WindowOf /\ player[s].phase = "active"
    BY Typed DEF FenceInv, Replay
<1>2. run[s] # None /\ Fits(s, player[s])
    BY <1>1, KnownRun DEF Early
<1>3. /\ w \in WindowOf /\ w.phase \notin Early
      /\ w.epoch = player[s].epoch /\ w.run = player[s].run /\ w.auth = FALSE
      /\ w.last = None
    BY <1>1 DEF WindowOf, Phases, Early
<1>4. Flush(s, w)
    BY DEF Replay
<1> HIDE DEF w
<1>5. Onward(player[s], w) /\ Fits(s, w)
    BY <1>1, <1>2, <1>3, PausedFits
<1> QED
    BY <1>2, <1>3, <1>4, <1>5, FlushStep

\* Close: a last sample, and a window that is gone.
LEMMA CloseStep ==
    ASSUME FenceInv, NEW s \in Sessions, FlushTyped', Close(s)
    PROVE  FenceInv'
<1> DEFINE w == [player[s] EXCEPT !.phase = "closed"]
<1>1. player[s] \in WindowOf /\ player[s].phase \notin Early \cup {"closed"}
    BY Typed DEF FenceInv, Close, Open, Shown, Early
<1>2. run[s] # None /\ Fits(s, player[s])
    BY <1>1, KnownRun
<1>3. /\ w \in WindowOf /\ w.phase = "closed"
      /\ w.epoch = player[s].epoch /\ w.run = player[s].run /\ w.auth = player[s].auth
      /\ w.last = player[s].last
    BY <1>1 DEF WindowOf, Phases
<1>4. Flush(s, w)
    BY DEF Close
<1> HIDE DEF w
<1>5. w.phase \notin Early /\ Onward(player[s], w) /\ Fits(s, w)
    BY <1>1, <1>2, <1>3 DEF Onward, Fits, Early, WindowOf
<1> QED
    BY <1>2, <1>3, <1>4, <1>5, FlushStep

\* FinalSample: a last sample before the application quits.
LEMMA FinalSampleStep ==
    ASSUME FenceInv, NEW s \in Sessions, FlushTyped', Flush(s, player[s]),
           player[s].phase \notin Early
    PROVE  FenceInv'
<1>1. player[s] \in WindowOf
    BY Typed DEF FenceInv
<1>2. Fits(s, player[s]) /\ (run[s] # None \/ player[s].phase = "closed")
    BY DEF FenceInv, GoodWindow
<1>3. Onward(player[s], player[s])
    BY <1>1 DEF Onward, WindowOf
<1> QED
    BY <1>1, <1>2, <1>3, FlushStep

-----------------------------------------------------------------------------
(* Openings, the timer and what the timer forgets                            *)

\* OpenWithProgress: a new window has its record read.
LEMMA OpenStep ==
    ASSUME FenceInv, NEW s \in Sessions, FlushTyped', OpenWithProgress(s)
    PROVE  FenceInv'
<1> DEFINE q == [op |-> "read", session |-> s]
           w == [player[s] EXCEPT !.phase = "opening"]
<1>1. /\ player \in [Sessions -> WindowOf] /\ player[s].phase = "none"
      /\ queue \in Seq(RequestOf)
    BY Typed DEF FenceInv, OpenWithProgress
<1>2. NewWindow(player[s]) /\ run[s] = None
    BY <1>1 DEF FenceInv, GoodWindow, Early
<1>3. q \in RequestOf /\ q.session = s
    BY RequestMade
<1>4. player' = [player EXCEPT ![s] = w] /\ queue' = Append(queue, q)
    BY <1>1 DEF OpenWithProgress
<1>5. w \in WindowOf /\ w = [NoWindow EXCEPT !.phase = "opening"]
    BY <1>1, <1>2 DEF WindowOf, Phases, NewWindow, NoWindow
<1>6. TypeOK'
  <2>1. queue' \in Seq(RequestOf)
    BY <1>1, <1>3, <1>4, AppendPlace
  <2>2. player' \in [Sessions -> WindowOf]
    BY <1>1, <1>4, <1>5
  <2> QED
    BY <2>1, <2>2 DEF TypeOK, WindowOf, FlushTyped, FenceInv, OpenWithProgress, history
<1>7. Free(s)
    BY <1>1, <1>2, IdleIsFree
<1>8. GoodRequest(q)'
    BY <1>1, <1>4 DEF GoodRequest
<1>9. player'[s] = w /\ \A other \in Sessions \ {s} : player'[other] = player[other]
    BY <1>1, <1>4
<1>10. GoodWindow(s)' /\ GoodRun(s)'
  <2>1. Fits(s, player[s])'
    <3>1. /\ w.phase = "opening" /\ w.epoch = 0 /\ w.run = 0 /\ w.auth = FALSE
          /\ w.last = None
      BY <1>5 DEF NoWindow
    <3>2. db.epoch \in Nat /\ db' = db
      BY Typed DEF FenceInv, OpenWithProgress
    <3> HIDE DEF w
    <3> QED
      BY <1>9, <3>1, <3>2 DEF Fits
  <2>2. NewWindow(player[s])' /\ player'[s].phase = "opening"
    BY <1>5, <1>9 DEF NewWindow, NoWindow
  <2> QED
    BY <1>2, <2>1, <2>2 DEF GoodWindow, GoodRun, Early, OpenWithProgress
<1>11. \A other \in Sessions \ {s} : Harmless(other)
    BY <1>9 DEF Harmless, OpenWithProgress
<1> HIDE DEF q, w
<1> QED
    BY <1>3, <1>4, <1>6, <1>7, <1>8, <1>10, <1>11, SessionStep DEF OpenWithProgress, history

\* RetryDue: the timer sends what waits for a retry.
LEMMA RetryDueStep ==
    ASSUME FenceInv, NEW s \in Sessions, FlushTyped', RetryDue(s)
    PROVE  FenceInv'
<1> DEFINE r == [run[s] EXCEPT !.retry = "due"]
<1>1. /\ player \in [Sessions -> WindowOf]
      /\ accepted \in [Sessions -> SampleOf \cup {None}]
    BY Typed DEF FenceInv, TypeOK
<1>2. /\ run[s] # None /\ run[s] \in RunOf /\ Fits(s, player[s])
      /\ player[s].phase \notin Early
      /\ run[s].latest # None => Fenced(run[s].latest, s)
      /\ run[s].ready # None => Behind(run[s].ready.epoch, player[s])
    BY KnownRun DEF RetryDue
<1>3. /\ r \in RunOf /\ r.busy = run[s].busy /\ r.latest = run[s].latest
      /\ r.ready = run[s].ready
    BY <1>2 DEF RunOf
<1>4. PICK o \in SendLatest(s, r) : Settled(s, o, player)
    BY DEF RetryDue
<1> HIDE DEF r
<1>5. Outcome(s, r, {}, o)
    BY <1>3, SendLatestOutcome
<1>6. o \in OutcomeOf
    BY <1>5 DEF Outcome
<1>7. Onward(player[s], player[s])
    BY <1>1 DEF Onward, WindowOf
<1>8. UNCHANGED <<db, acks, owner, accepted, unmarked>>
    BY DEF RetryDue, history
<1> QED
    BY <1>1, <1>2, <1>3, <1>4, <1>5, <1>6, <1>7, <1>8, SubmissionStep

\* Forget: an idle run of a closed window goes away.
LEMMA ForgetStep ==
    ASSUME FenceInv, NEW s \in Sessions, FlushTyped', Forget(s)
    PROVE  FenceInv'
<1>1. run \in [Sessions -> RunOf \cup {None}] /\ run' = [run EXCEPT ![s] = None]
    BY Typed DEF FenceInv, Forget
<1>2. TypeOK'
    BY <1>1 DEF TypeOK, FlushTyped, FenceInv, Forget, history
<1>3. Free(s)
    BY IdleIsFree DEF Forget
<1>4. GoodWindow(s)' /\ GoodRun(s)'
    BY <1>1 DEF FenceInv, GoodWindow, GoodRun, Fits, Early, Forget, history
<1>5. \A other \in Sessions \ {s} : Harmless(other)
    BY <1>1 DEF Harmless, Forget
<1> QED
    BY <1>2, <1>3, <1>4, <1>5, SessionStep DEF Forget, history

-----------------------------------------------------------------------------
(* Answers                                                                   *)

\* The oldest answer is a good answer to a good request.
LEMMA AnswerTaken ==
    ASSUME FenceInv, Acknowledged
    PROVE  LET a == Head(acks)
           IN  /\ a \in AnswerOf /\ a.request \in RequestOf /\ a.request.session \in Sessions
               /\ Answers(a.request.session) /\ acks' \in Seq(AnswerOf)
               /\ GoodRequest(a.request) /\ GoodAnswer(a)
               /\ UNCHANGED <<db, owner, accepted, unmarked>>
<1> DEFINE a == Head(acks)
<1>1. acks \in Seq(AnswerOf) /\ acks # <<>> /\ acks' = Tail(acks)
    BY Typed DEF FenceInv, Acknowledged
<1>2. a = acks[1] /\ 1 \in DOMAIN acks /\ acks' \in Seq(AnswerOf)
    BY <1>1, TailIndices
<1>3. a \in AnswerOf
    BY <1>1, <1>2, ElementOfSeq, LenProperties
<1>4. GoodRequest(acks[1].request) /\ GoodAnswer(acks[1])
    BY <1>2 DEF FenceInv
<1>5. GoodRequest(a.request) /\ GoodAnswer(a)
    BY <1>2, <1>4
<1>6. Answers(a.request.session)
    BY <1>1 DEF Answers
<1>7. UNCHANGED <<db, owner, accepted, unmarked>>
    BY DEF Acknowledged, history
<1> HIDE DEF a
<1>8. a.request \in RequestOf /\ a.request.session \in Sessions
    BY <1>3, AnswerFields, RequestFields
<1> QED
    BY <1>2, <1>3, <1>5, <1>6, <1>7, <1>8 DEF a

\* OpenAnswered: the window starts from the record that was read.
LEMMA OpenAnsweredStep ==
    ASSUME FenceInv, FlushTyped', OpenAnswered
    PROVE  FenceInv'
<1>1. PICK a \in AnswerOf :
        /\ a = Head(acks) /\ a.request \in RequestOf /\ a.request.session \in Sessions
        /\ Answers(a.request.session) /\ acks' \in Seq(AnswerOf)
        /\ GoodRequest(a.request) /\ GoodAnswer(a)
        /\ UNCHANGED <<db, owner, accepted, unmarked>>
    BY AnswerTaken DEF OpenAnswered
<1>2. PICK s \in Sessions : s = a.request.session
    BY <1>1
<1>3. /\ player \in [Sessions -> WindowOf] /\ run \in [Sessions -> RunOf \cup {None}]
      /\ a.epoch \in Nat /\ a.run \in Nat
    BY Typed, AnswerFields DEF FenceInv
<1>4. /\ player[s].phase = "opening" /\ NewWindow(player[s]) /\ run[s] = None
    BY <1>1, <1>2 DEF OpenAnswered, GoodRequest, FenceInv, GoodWindow, Early
<1>5. CASE player' = [player EXCEPT ![s] = NoWindow] /\ UNCHANGED run
  <2>1. TypeOK'
    <3>1. NoWindow \in WindowOf
      BY DEF NoWindow, WindowOf, Phases
    <3> QED
      BY <1>1, <1>3, <1>5, <3>1 DEF TypeOK, WindowOf, FlushTyped, FenceInv, OpenAnswered
  <2>2. player'[s] = NoWindow /\ \A other \in Sessions \ {s} : player'[other] = player[other]
    BY <1>3, <1>5
  <2>3. db.epoch \in Nat
    BY Typed DEF FenceInv
  <2>4. GoodWindow(s)' /\ GoodRun(s)'
    <3>1. NewWindow(NoWindow)
      BY DEF NewWindow, NoWindow
    <3>2. Fits(s, NoWindow)'
      BY <1>1, <2>3 DEF Fits, NoWindow
    <3>3. NoWindow.phase = "none"
      BY DEF NoWindow
    <3> QED
      BY <1>4, <1>5, <2>2, <3>1, <3>2, <3>3 DEF GoodWindow, GoodRun, Early
  <2>5. \A other \in Sessions \ {s} : Harmless(other)
    BY <1>5, <2>2 DEF Harmless
  <2> QED
    BY <1>1, <1>2, <2>1, <2>4, <2>5, SessionStep DEF OpenAnswered
<1>6. CASE /\ player' = [player EXCEPT ![s].phase = "start", ![s].epoch = a.epoch]
           /\ run' = [run EXCEPT ![s] =
                  [epoch |-> a.epoch, run |-> a.run, seq |-> 0, busy |-> FALSE,
                   latest |-> None, retries |-> 0, retry |-> "none", ready |-> None]]
  <2> DEFINE r == [epoch |-> a.epoch, run |-> a.run, seq |-> 0, busy |-> FALSE,
                   latest |-> None, retries |-> 0, retry |-> "none", ready |-> None]
             w == [player[s] EXCEPT !.phase = "start", !.epoch = a.epoch]
  <2>1. /\ r \in RunOf /\ r.latest = None /\ r.ready = None /\ r.busy = FALSE
        /\ run' = [run EXCEPT ![s] = r]
    BY <1>3, <1>6 DEF RunOf
  <2>2. player' = [player EXCEPT ![s] = w]
    BY <1>3, <1>6 DEF WindowOf
  <2>3. /\ w \in WindowOf /\ w.phase = "start" /\ w.epoch = a.epoch /\ w.run = 0
        /\ w.auth = FALSE /\ w.last = None
    BY <1>3, <1>4 DEF WindowOf, Phases, NewWindow, NoWindow
  <2> HIDE DEF r, w
  <2>4. TypeOK'
    BY <1>1, <1>3, <2>1, <2>2, <2>3 DEF TypeOK, WindowOf, FlushTyped, FenceInv, OpenAnswered
  <2>5. /\ player'[s] = w /\ run'[s] = r
        /\ \A other \in Sessions \ {s} : player'[other] = player[other] /\ run'[other] = run[other]
    BY <1>3, <2>1, <2>2
  <2>6. Fits(s, player[s])'
    <3>1. db.epoch \in Nat /\ a.epoch <= db.epoch
      BY <1>1, Typed DEF FenceInv, GoodAnswer
    <3> QED
      BY <1>1, <2>3, <2>5, <3>1 DEF Fits
  <2>7. GoodWindow(s)' /\ GoodRun(s)'
    <3>1. r # None
      BY <2>1, AbsenceAssumption
    <3> QED
      BY <2>1, <2>3, <2>5, <2>6, <3>1 DEF GoodWindow, GoodRun, Early
  <2>8. \A other \in Sessions \ {s} : Harmless(other)
    BY <2>5 DEF Harmless
  <2> QED
    BY <1>1, <1>2, <2>4, <2>7, <2>8, SessionStep DEF OpenAnswered
<1> QED
    BY <1>1, <1>2, <1>5, <1>6 DEF OpenAnswered

\* A window that is told the outcome of its request stays within its rights: its
\* epoch moves on whenever it may write again.
LEMMA AuthorizedFits ==
    ASSUME NEW s \in Sessions, NEW p \in WindowOf, p.phase \notin Early, Fits(s, p),
           NEW old \in Nat, NEW epoch \in Nat, NEW r \in Nat,
           epoch <= db.epoch, r <= db.epoch, r # 0 /\ r = db.run => owner = s,
           r # 0 => old < epoch,
           p.epoch = old /\ Shown(p) => p.last = None
    PROVE  LET w == Authorized(p, old, epoch, r)
           IN  /\ w \in WindowOf /\ w.phase \notin Early
               /\ p.phase = "closed" <=> w.phase = "closed"
               /\ Onward(p, w) /\ Fits(s, w)
<1> DEFINE w == Authorized(p, old, epoch, r)
<1>1. CASE w = p
  <2>1. Onward(p, p)
    BY DEF Onward, WindowOf
  <2> QED
    BY <1>1, <2>1
<1>2. CASE /\ Shown(p) /\ p.epoch = old /\ r > 0 /\ w \in WindowOf
           /\ w.epoch = epoch /\ w.run = r /\ w.auth = TRUE /\ w.last = None
           /\ w.phase \in {p.phase, "active"}
  <2>1. w.phase \notin Early /\ p.phase # "closed" /\ w.phase # "closed"
    BY <1>2 DEF Shown, Early
  <2>2. Onward(p, w)
    BY <1>2 DEF Onward
  <2>3. Fits(s, w)
    BY <1>2 DEF Fits
  <2> QED
    BY <1>2, <2>1, <2>2, <2>3
<1>3. \/ w = p
      \/ /\ Shown(p) /\ p.epoch = old /\ r > 0
         /\ w = [p EXCEPT !.epoch = epoch, !.run = r, !.auth = TRUE, !.notice = FALSE,
                          !.phase = "active", !.last = None]
      \/ /\ Shown(p) /\ p.epoch = old /\ r > 0
         /\ w = [p EXCEPT !.epoch = epoch, !.run = r, !.auth = TRUE, !.notice = FALSE]
    BY DEF Authorized
<1> HIDE DEF w
<1>4. CASE /\ Shown(p) /\ p.epoch = old /\ r > 0
           /\ w = [p EXCEPT !.epoch = epoch, !.run = r, !.auth = TRUE, !.notice = FALSE,
                            !.phase = "active", !.last = None]
  <2>1. /\ w \in WindowOf /\ w.epoch = epoch /\ w.run = r /\ w.auth = TRUE
        /\ w.last = None /\ w.phase = "active"
    BY <1>4 DEF WindowOf, Phases
  <2> QED
    BY <1>2, <1>4, <2>1 DEF w
<1>5. CASE /\ Shown(p) /\ p.epoch = old /\ r > 0
           /\ w = [p EXCEPT !.epoch = epoch, !.run = r, !.auth = TRUE, !.notice = FALSE]
  <2>1. /\ w \in WindowOf /\ w.epoch = epoch /\ w.run = r /\ w.auth = TRUE
        /\ w.last = None /\ w.phase = p.phase
    BY <1>5 DEF WindowOf
  <2> QED
    BY <1>2, <1>5, <2>1 DEF w
<1> QED
    BY <1>1, <1>3, <1>4, <1>5 DEF w

\* BeginAnswered: the window is authorized, and every other writer is revoked.
LEMMA BeginAnsweredStep ==
    ASSUME FenceInv, FlushTyped', BeginAnswered
    PROVE  FenceInv'
<1>1. PICK a \in AnswerOf :
        /\ a = Head(acks) /\ a.request \in RequestOf /\ a.request.session \in Sessions
        /\ Answers(a.request.session) /\ acks' \in Seq(AnswerOf)
        /\ GoodRequest(a.request) /\ GoodAnswer(a)
        /\ UNCHANGED <<db, owner, accepted, unmarked>>
    BY AnswerTaken DEF BeginAnswered
<1>2. PICK s \in Sessions : s = a.request.session
    BY <1>1
<1>3. /\ player \in [Sessions -> WindowOf] /\ run \in [Sessions -> RunOf \cup {None}]
      /\ a.epoch \in Nat /\ a.run \in Nat /\ db.epoch \in Nat /\ db.run \in Nat
      /\ UNCHANGED <<queue, faults>>
    BY Typed, AnswerFields DEF FenceInv, BeginAnswered
<1>4. /\ a.request.op = "begin" /\ a.request.epoch \in Nat
      /\ run[s] # None /\ Behind(a.request.epoch, player[s])
    BY <1>1, <1>2, RequestFields DEF BeginAnswered, GoodRequest
<1>5. /\ run[s] \in RunOf /\ player[s].phase \notin Early /\ Fits(s, player[s])
      /\ run[s].latest # None => Fenced(run[s].latest, s)
      /\ run[s].ready # None => Behind(run[s].ready.epoch, player[s])
                                /\ run[s].ready \in ReadyOf
    BY <1>4, KnownRun
\* The session of the answer: its run is idle, and its window has moved on.
<1>6. ASSUME NEW r \in RunOf, NEW w \in WindowOf,
             r.latest \in {None, run[s].latest}, r.ready = run[s].ready,
             w.phase \notin Early, Onward(player[s], w), Fits(s, w),
             run'[s] = r, player'[s] = w
      PROVE  GoodWindow(s)' /\ GoodRun(s)'
  <2>1. r # None
    BY AbsenceAssumption
  <2>2. Fits(s, player[s])'
    BY <1>1, <1>6 DEF Fits
  <2>3. r.ready # None => Behind(r.ready.epoch, w)
    BY <1>3, <1>5, <1>6, BehindKept DEF ReadyOf
  <2>4. r.latest # None => Fenced(r.latest, s)'
    BY <1>1, <1>5, <1>6 DEF Fenced
  <2> QED
    BY <1>6, <2>1, <2>2, <2>3, <2>4 DEF GoodWindow, GoodRun
<1>7. CASE /\ a.result = "error"
           /\ run' = [run EXCEPT ![s].busy = FALSE]
           /\ player' = [player EXCEPT ![s] = Noticed(@, TRUE)]
  <2> DEFINE r == [run[s] EXCEPT !.busy = FALSE]
             w == Noticed(player[s], TRUE)
  <2>1. /\ r \in RunOf /\ r.latest = run[s].latest /\ r.ready = run[s].ready
        /\ run' = [run EXCEPT ![s] = r]
    BY <1>3, <1>5, <1>7 DEF RunOf
  <2>2. /\ w \in WindowOf /\ w.phase = player[s].phase /\ w.epoch = player[s].epoch
        /\ w.run = player[s].run /\ w.auth = player[s].auth /\ w.last = player[s].last
        /\ player' = [player EXCEPT ![s] = w]
    BY <1>3, <1>7, NoticedTyped
  <2> HIDE DEF r, w
  <2>3. /\ player'[s] = w /\ run'[s] = r
        /\ \A other \in Sessions \ {s} : player'[other] = player[other] /\ run'[other] = run[other]
    BY <1>3, <2>1, <2>2
  <2>4. TypeOK'
    BY <1>1, <1>3, <2>1, <2>2 DEF TypeOK, WindowOf, FlushTyped, FenceInv
  <2>5. Onward(player[s], w) /\ Fits(s, w)
    BY <1>3, <1>5, <2>2 DEF Onward, Fits, WindowOf
  <2>6. GoodWindow(s)' /\ GoodRun(s)'
    BY <1>5, <1>6, <2>1, <2>2, <2>3, <2>5
  <2>7. \A other \in Sessions \ {s} : Harmless(other)
    BY <2>3 DEF Harmless
  <2> QED
    BY <1>1, <1>2, <1>3, <2>4, <2>6, <2>7, SessionStep
<1>8. CASE /\ a.result # "error"
           /\ run' = [o \in Sessions |->
                IF o = s
                THEN [run[s] EXCEPT !.epoch = a.epoch, !.run = a.run, !.busy = FALSE,
                                    !.seq = 0, !.latest = None, !.retry = "none",
                                    !.retries = 0]
                ELSE IF o \in Revoked(s, a)
                THEN [run[o] EXCEPT !.latest = None, !.retry = "none"]
                ELSE run[o]]
           /\ player' = [o \in Sessions |->
                IF o = s THEN Authorized(player[s], a.request.epoch, a.epoch, a.run)
                ELSE IF o \in Revoked(s, a) THEN Invalidated(player[o], run[o].epoch)
                ELSE player[o]]
  <2> DEFINE r == [run[s] EXCEPT !.epoch = a.epoch, !.run = a.run, !.busy = FALSE,
                                 !.seq = 0, !.latest = None, !.retry = "none",
                                 !.retries = 0]
             w == Authorized(player[s], a.request.epoch, a.epoch, a.run)
  <2>1. /\ r \in RunOf /\ r.latest = None /\ r.ready = run[s].ready /\ run'[s] = r
    BY <1>3, <1>5, <1>8 DEF RunOf
  <2>2. /\ a.request.epoch < a.epoch /\ a.epoch <= db.epoch /\ a.run <= db.epoch
        /\ a.run # 0 /\ a.run = db.run => owner = s
    BY <1>1, <1>2, <1>4, <1>8 DEF GoodAnswer
  <2>3. player[s] \in WindowOf
    BY <1>3
  <2>4. player[s].epoch = a.request.epoch /\ Shown(player[s]) => player[s].last = None
    BY <1>3, <1>4, <1>5 DEF Behind, Fits, Shown
  <2>5. /\ w \in WindowOf /\ w.phase \notin Early /\ Onward(player[s], w) /\ Fits(s, w)
    BY <1>3, <1>4, <1>5, <2>2, <2>3, <2>4, AuthorizedFits
  <2>6. player'[s] = w
    BY <1>8
  <2> HIDE DEF r, w
  <2>7. \A other \in Sessions \ {s} :
           /\ Harmless(other)
           /\ run'[other] \in RunOf \cup {None} /\ player'[other] \in WindowOf
    <3> SUFFICES ASSUME NEW other \in Sessions \ {s}
                 PROVE  /\ Harmless(other)
                        /\ run'[other] \in RunOf \cup {None} /\ player'[other] \in WindowOf
      OBVIOUS
    <3>1. CASE other \in Revoked(s, a)
      <4> DEFINE u == [run[other] EXCEPT !.latest = None, !.retry = "none"]
                 v == Invalidated(player[other], run[other].epoch)
      <4>1. run'[other] = u /\ player'[other] = v
        BY <1>8, <3>1
      <4>2. run[other] # None /\ run[other] \in RunOf
        BY <1>3, <3>1 DEF Revoked
      <4>3. /\ u \in RunOf /\ u.latest = None /\ u.busy = run[other].busy
            /\ u.ready = run[other].ready
        BY <4>2 DEF RunOf
      <4>4. Fits(other, player[other]) /\ player[other].phase \notin Early
        BY <4>2, KnownRun
      <4>5. /\ v \in WindowOf /\ v.phase = player[other].phase
            /\ v.epoch = player[other].epoch /\ v.run = player[other].run
            /\ v.auth => player[other].auth
            /\ v = player[other] \/ v.last = None
        <5>1. run[other].epoch \in Nat /\ player[other] \in WindowOf
          BY <1>3, <4>2 DEF RunOf
        <5>2. \/ v = player[other]
              \/ v = [player[other] EXCEPT !.auth = FALSE, !.last = None]
          BY DEF Invalidated
        <5> HIDE DEF v
        <5> QED
          BY <5>1, <5>2 DEF WindowOf
      <4>6. u # None
        BY <4>3, AbsenceAssumption
      <4> HIDE DEF u, v
      <4> QED
        BY <4>1, <4>2, <4>3, <4>4, <4>5, <4>6 DEF Harmless
    <3>2. CASE other \notin Revoked(s, a)
      <4>1. run'[other] = run[other] /\ player'[other] = player[other]
        BY <1>8, <3>2
      <4> QED
        BY <1>3, <4>1 DEF Harmless
    <3> QED
      BY <3>1, <3>2
  <2>8. TypeOK'
    <3>1. run' \in [Sessions -> RunOf \cup {None}]
      BY <1>8, <2>1, <2>7
    <3>2. player' \in [Sessions -> WindowOf]
      BY <1>8, <2>5, <2>6, <2>7
    <3> QED
      BY <1>1, <1>3, <3>1, <3>2 DEF TypeOK, WindowOf, FlushTyped, FenceInv
  <2>9. GoodWindow(s)' /\ GoodRun(s)'
    BY <1>6, <2>1, <2>5, <2>6
  <2> QED
    BY <1>1, <1>2, <1>3, <2>7, <2>8, <2>9, SessionStep
<1> QED
  <2> USE DEF BeginAnswered
  <2>1. CASE a.result = "error"
    BY <1>1, <1>2, <1>7, <2>1
  <2>2. CASE a.result # "error"
    BY <1>1, <1>2, <1>8, <2>2
  <2> QED
    BY <2>1, <2>2

\* send_pending_ready: what it submits is of the run it was called with.
Pending(s, r, o) ==
    \E asked \in SUBSET ReadyOf, p \in RunOf :
        /\ Outcome(s, p, asked, o)
        /\ p.busy = r.busy /\ p.latest = r.latest /\ p.ready \in {r.ready, None}
        /\ \A x \in asked : r.ready # None /\ x = r.ready /\ p.ready = None

\* Whatever was pending, the outcome is one of the two submissions.
LEMMA PendingOutcome ==
    ASSUME NEW s \in Sessions, NEW r \in RunOf, NEW otherwise,
           NEW o \in PendingReadyElse(s, r, otherwise),
           otherwise = SendLatest(s, r) \/ otherwise = {Kept(r)}
    PROVE  Pending(s, r, o) /\ o \in OutcomeOf
<1> PICK nothing \in SUBSET ReadyOf : nothing = {}
    OBVIOUS
<1>0. ASSUME Outcome(s, r, nothing, o) PROVE Pending(s, r, o) /\ o \in OutcomeOf
  <2>1. o \in OutcomeOf
    BY <1>0 DEF Outcome
  <2>2. /\ r.busy = r.busy /\ r.latest = r.latest /\ r.ready \in {r.ready, None}
        /\ \A x \in nothing : r.ready # None /\ x = r.ready /\ r.ready = None
    OBVIOUS
  <2> QED
    BY <1>0, <2>1, <2>2 DEF Pending
<1>1. CASE r.ready = None /\ o \in SendLatest(s, r)
    BY <1>0, <1>1, SendLatestOutcome
<1>2. CASE r.ready = None /\ o = Kept(r)
  <2>1. Outcome(s, r, nothing, o)
    BY <1>2, OutcomeTyped DEF Outcome, Kept
  <2> QED
    BY <1>0, <2>1
<1>3. CASE r.ready # None /\ o \in ProgressReady(s, [r EXCEPT !.ready = None], r.ready)
  <2> DEFINE p == [r EXCEPT !.ready = None]
             ready == r.ready
  <2>1. /\ p \in RunOf /\ p.busy = r.busy /\ p.latest = r.latest /\ p.ready = None
        /\ ready \in ReadyOf
    BY <1>3 DEF RunOf
  <2>2. o \in ProgressReady(s, p, ready)
    BY <1>3
  <2> HIDE DEF p, ready
  <2>3. Outcome(s, p, {ready}, o)
    BY <2>1, <2>2, ProgressReadyOutcome
  <2>4. o \in OutcomeOf
    BY <2>3 DEF Outcome
  <2>5. {ready} \in SUBSET ReadyOf /\ \A x \in {ready} : r.ready # None /\ x = r.ready
    BY <1>3, <2>1 DEF ready
  <2> QED
    BY <2>1, <2>3, <2>4, <2>5 DEF Pending
<1> QED
  <2>1. CASE r.ready = None
    BY <1>1, <1>2, <2>1 DEF PendingReadyElse
  <2>2. CASE r.ready # None
    BY <1>3, <2>2 DEF PendingReadyElse
  <2> QED
    BY <2>1, <2>2

\* Storing what follows the answer to a save: the window becomes w.
LEMMA AnsweredStep ==
    ASSUME FenceInv, NEW s \in Sessions, FlushTyped', Answers(s),
           UNCHANGED <<db, owner, accepted, unmarked>>, run[s] # None,
           NEW r \in RunOf, NEW o \in OutcomeOf, Pending(s, r, o), r.busy = FALSE,
           r.ready = run[s].ready, r.latest # None => Fenced(r.latest, s),
           NEW w \in WindowOf, w.phase \notin Early, Onward(player[s], w), Fits(s, w),
           Settled(s, o, [player EXCEPT ![s] = w])
    PROVE  FenceInv'
<1> DEFINE windows == [player EXCEPT ![s] = w]
<1>1. /\ player \in [Sessions -> WindowOf]
      /\ accepted \in [Sessions -> SampleOf \cup {None}]
    BY Typed DEF FenceInv, TypeOK
<1>2. /\ windows \in [Sessions -> WindowOf] /\ windows[s] = w
      /\ \A other \in Sessions \ {s} : windows[other] = player[other]
    BY <1>1
<1>3. Settled(s, o, windows)
    OBVIOUS
<1> HIDE DEF windows
<1>4. r.ready # None => Behind(r.ready.epoch, w) /\ r.ready \in ReadyOf
    BY <1>1, KnownRun, BehindKept DEF ReadyOf
<1>5. PICK asked \in SUBSET ReadyOf, p \in RunOf :
        /\ Outcome(s, p, asked, o)
        /\ p.busy = r.busy /\ p.latest = r.latest /\ p.ready \in {r.ready, None}
        /\ \A x \in asked : r.ready # None /\ x = r.ready
    BY DEF Pending
<1>6. /\ p.latest # None => Fenced(p.latest, s)
      /\ p.ready # None => Behind(p.ready.epoch, windows[s])
      /\ \A x \in asked : Behind(x.epoch, windows[s])
    BY <1>2, <1>4, <1>5
<1>7. accepted' \in [Sessions -> SampleOf \cup {None}]
    BY <1>1
<1> QED
    BY <1>2, <1>3, <1>5, <1>6, <1>7, SubmissionStep

\* SaveFailed: the sample waits for its retry.
LEMMA SaveFailedStep ==
    ASSUME FenceInv, FlushTyped', SaveFailed
    PROVE  FenceInv'
<1>1. PICK a \in AnswerOf :
        /\ a = Head(acks) /\ a.request \in RequestOf /\ a.request.session \in Sessions
        /\ Answers(a.request.session) /\ acks' \in Seq(AnswerOf)
        /\ GoodRequest(a.request) /\ GoodAnswer(a)
        /\ UNCHANGED <<db, owner, accepted, unmarked>>
    BY AnswerTaken DEF SaveFailed
<1>2. PICK s \in Sessions : s = a.request.session
    BY <1>1
<1>3. PICK sample \in SampleOf : sample = a.request.sample /\ Fenced(sample, s)
    BY <1>1, <1>2, RequestFields DEF SaveFailed, GoodRequest
<1>4. run[s] # None
    BY <1>1, <1>2 DEF SaveFailed, GoodRequest
<1>5. /\ run[s] \in RunOf /\ player[s] \in WindowOf /\ player[s].phase \notin Early
      /\ Fits(s, player[s])
      /\ run[s].latest # None => Fenced(run[s].latest, s)
    BY <1>4, KnownRun
<1> DEFINE kept == Requeued([run[s] EXCEPT !.busy = FALSE], sample)
           r == Failed(kept)
           w == Noticed(player[s], TRUE)
<1>6. /\ kept \in RunOf /\ kept.busy = FALSE /\ kept.ready = run[s].ready
      /\ kept.latest \in {run[s].latest, sample}
    BY <1>5 DEF Requeued, RunOf
<1> HIDE DEF kept
<1>7. /\ r \in RunOf /\ r.busy = FALSE /\ r.ready = run[s].ready
      /\ r.latest \in {run[s].latest, sample}
    BY <1>6, FailedRun
<1>8. PICK o \in PendingReadyElse(s, r, {Kept(r)}) :
        Settled(s, o, [player EXCEPT ![s] = w])
    BY <1>1, <1>2, <1>3 DEF SaveFailed, kept
<1> HIDE DEF r
<1>9. Pending(s, r, o) /\ o \in OutcomeOf
    BY <1>7, <1>8, PendingOutcome
<1>10. /\ w \in WindowOf /\ w.phase = player[s].phase /\ w.epoch = player[s].epoch
       /\ w.run = player[s].run /\ w.auth = player[s].auth /\ w.last = player[s].last
    BY <1>5, NoticedTyped
<1> HIDE DEF w
<1>11. w.phase \notin Early /\ Onward(player[s], w) /\ Fits(s, w)
    BY <1>5, <1>10 DEF Onward, Fits, WindowOf
<1>12. r.latest # None => Fenced(r.latest, s)
    BY <1>3, <1>5, <1>7
<1> QED
    BY <1>1, <1>2, <1>4, <1>7, <1>8, <1>9, <1>10, <1>11, <1>12, AnsweredStep

\* SaveAnswered: a stale answer discards what waits, and authorizes again only a
\* window whose epoch moves on.
LEMMA SaveAnsweredStep ==
    ASSUME FenceInv, FlushTyped', SaveAnswered
    PROVE  FenceInv'
<1>1. PICK a \in AnswerOf :
        /\ a = Head(acks) /\ a.request \in RequestOf /\ a.request.session \in Sessions
        /\ Answers(a.request.session) /\ acks' \in Seq(AnswerOf)
        /\ GoodRequest(a.request) /\ GoodAnswer(a)
        /\ UNCHANGED <<db, owner, accepted, unmarked>>
    BY AnswerTaken DEF SaveAnswered
<1>2. PICK s \in Sessions : s = a.request.session
    BY <1>1
<1>3. PICK sample \in SampleOf : sample = a.request.sample /\ Fenced(sample, s)
    BY <1>1, <1>2, RequestFields DEF SaveAnswered, GoodRequest
<1>4. run[s] # None /\ a.request.op = "save" /\ a.epoch \in Nat /\ a.run \in Nat
    BY <1>1, <1>2, AnswerFields DEF SaveAnswered, GoodRequest
<1>5. /\ run[s] \in RunOf /\ player[s] \in WindowOf /\ player[s].phase \notin Early
      /\ Fits(s, player[s])
      /\ run[s].latest # None => Fenced(run[s].latest, s)
    BY <1>4, KnownRun
<1> DEFINE stale == a.result = "stale"
           r == [run[s] EXCEPT !.epoch = a.epoch, !.run = a.run, !.busy = FALSE,
                               !.retries = 0, !.retry = "none",
                               !.latest = IF stale THEN None ELSE @]
           p == player[s]
           left == Invalidated(p, sample.epoch)
           w == IF ~stale THEN Noticed(p, FALSE)
                ELSE IF a.run = sample.run /\ r.ready = None
                THEN Authorized(left, sample.epoch, a.epoch, a.run)
                ELSE left
<1>6. /\ r \in RunOf /\ r.busy = FALSE /\ r.ready = run[s].ready
      /\ r.latest \in {run[s].latest, None}
    BY <1>4, <1>5 DEF RunOf
<1>7. PICK o \in PendingReadyElse(s, r, SendLatest(s, r)) :
        Settled(s, o, [player EXCEPT ![s] = w])
    BY <1>1, <1>2, <1>3 DEF SaveAnswered
<1> HIDE DEF r
<1>8. Pending(s, r, o) /\ o \in OutcomeOf
    BY <1>6, <1>7, PendingOutcome
<1>9. w \in WindowOf /\ w.phase \notin Early /\ Onward(p, w) /\ Fits(s, w)
  <2>1. CASE ~stale
    <3>1. /\ w \in WindowOf /\ w.phase = p.phase /\ w.epoch = p.epoch
          /\ w.run = p.run /\ w.auth = p.auth /\ w.last = p.last
      BY <1>5, <2>1, NoticedTyped
    <3> HIDE DEF w
    <3> QED
      BY <1>5, <3>1 DEF Onward, Fits, WindowOf
  <2>2. CASE stale
    <3>1. /\ left \in WindowOf /\ left.phase = p.phase /\ left.epoch = p.epoch
          /\ left.auth => p.auth
          /\ left.epoch = sample.epoch /\ Shown(left) => left.last = None
          /\ Onward(p, left) /\ Fits(s, left)
      <4>1. p \in WindowOf /\ Fits(s, p) /\ Onward(p, p)
        BY <1>5 DEF Onward, WindowOf
      <4>2. CASE Shown(p) /\ p.epoch = sample.epoch
        <5>1. /\ left \in WindowOf /\ left.phase = p.phase /\ left.epoch = p.epoch
              /\ left.run = p.run /\ left.auth = FALSE /\ left.last = None
          BY <4>1, <4>2 DEF Invalidated, WindowOf
        <5> HIDE DEF left, p
        <5> QED
          BY <4>1, <5>1, PausedFits
      <4>3. CASE ~(Shown(p) /\ p.epoch = sample.epoch)
        <5>1. left = p
          BY <4>3 DEF Invalidated
        <5> HIDE DEF left, p
        <5> QED
          BY <4>1, <4>3, <5>1
      <4> QED
        BY <4>2, <4>3
    <3>2. CASE a.run = sample.run /\ r.ready = None
      <4>1. w = Authorized(left, sample.epoch, a.epoch, a.run)
        BY <2>2, <3>2
      <4>2. /\ sample.epoch \in Nat /\ a.epoch <= db.epoch /\ a.run <= db.epoch
            /\ a.run # 0 => sample.epoch < a.epoch
            /\ a.run # 0 /\ a.run = db.run => owner = s
        BY <1>1, <1>3, <1>4, <2>2, <3>2 DEF GoodAnswer, SampleOf, Fenced
      <4>5. left.phase \notin Early
        BY <1>5, <3>1
      <4> HIDE DEF left, w, p
      <4>3. w \in WindowOf /\ w.phase \notin Early /\ Onward(left, w) /\ Fits(s, w)
        BY <1>4, <3>1, <4>1, <4>2, <4>5, AuthorizedFits
      <4>4. Onward(p, w)
        BY <1>5, <3>1, <4>3 DEF Onward, WindowOf, p
      <4> QED
        BY <4>3, <4>4
    <3>3. CASE ~(a.run = sample.run /\ r.ready = None)
      <4>1. w = left
        BY <2>2, <3>3
      <4> QED
        BY <1>5, <3>1, <4>1
    <3> QED
      BY <3>2, <3>3
  <2> QED
    BY <2>1, <2>2
<1> HIDE DEF w
<1>10. r.latest # None => Fenced(r.latest, s)
    BY <1>5, <1>6
<1> QED
    BY <1>1, <1>2, <1>4, <1>6, <1>7, <1>8, <1>9, <1>10, AnsweredStep

-----------------------------------------------------------------------------
(* The durable record                                                        *)

\* A transaction moves the epoch on, and the run it leaves is the old one of the
\* same owner, none, or a new one.
Commit ==
    /\ db.epoch <= db'.epoch /\ db'.run <= db'.epoch
    /\ \/ db'.run = db.run /\ owner' = owner
       \/ db'.run = 0
       \/ db'.run = db'.epoch /\ db.epoch < db'.epoch

\* A transaction leaves every fact about the sessions and their requests true.
LEMMA CommitKeeps ==
    ASSUME FenceInv, UNCHANGED <<run, player>>, db'.epoch \in Nat, db'.run \in Nat, Commit
    PROVE  /\ \A s \in Sessions : GoodWindow(s)' /\ GoodRun(s)'
           /\ \A q \in RequestOf : GoodRequest(q) => GoodRequest(q)'
           /\ \A a \in AnswerOf : GoodAnswer(a) => GoodAnswer(a)'
<1>1. /\ player \in [Sessions -> WindowOf] /\ run \in [Sessions -> RunOf \cup {None}]
      /\ db.epoch \in Nat /\ db.run \in Nat
    BY Typed DEF FenceInv
<1>2. \A x \in SampleOf, s \in Sessions : Fenced(x, s) => Fenced(x, s)'
    BY <1>1 DEF Fenced, SampleOf, Commit
<1>3. \A s \in Sessions : GoodWindow(s)'
  <2> SUFFICES ASSUME NEW s \in Sessions PROVE GoodWindow(s)'
    OBVIOUS
  <2>1. GoodWindow(s) /\ player[s] \in WindowOf
    BY <1>1 DEF FenceInv
  <2>2. Fits(s, player[s])'
    <3> DEFINE p == player[s]
    <3>1. /\ Fits(s, p) /\ p.epoch \in Nat /\ p.run \in Nat /\ player'[s] = p
          /\ p.last \in [at : Nat, done : BOOLEAN] \cup {None}
      BY <2>1 DEF GoodWindow, WindowOf
    <3>2. player'[s].epoch <= db'.epoch /\ player'[s].run <= db'.epoch
      BY <1>1, <3>1 DEF Fits, Commit
    <3>3. player'[s].run # 0 /\ player'[s].run = db'.run => owner' = s
      BY <1>1, <3>1 DEF Fits, Commit
    <3>4. player'[s].auth => player'[s].run # 0
      BY <3>1 DEF Fits
    <3>5. player'[s].last # None =>
             /\ player'[s].phase \in {"active", "closed"} /\ player'[s].auth
             /\ player'[s].epoch <= player'[s].last.at /\ player'[s].last.at <= db'.epoch
      BY <1>1, <3>1 DEF Fits, Commit
    <3> QED
      BY <3>2, <3>3, <3>4, <3>5 DEF Fits
  <2> QED
    BY <2>1, <2>2 DEF GoodWindow
<1>4. \A s \in Sessions : GoodRun(s)'
  <2> SUFFICES ASSUME NEW s \in Sessions PROVE GoodRun(s)'
    OBVIOUS
  <2>1. GoodRun(s)
    BY DEF FenceInv
  <2>2. run[s] # None /\ run[s].latest # None => run[s].latest \in SampleOf
    BY <1>1 DEF RunOf
  <2> QED
    BY <1>2, <2>1, <2>2 DEF GoodRun
<1>5. \A q \in RequestOf : GoodRequest(q) => GoodRequest(q)'
    BY <1>2, RequestFields DEF GoodRequest
<1>6. \A a \in AnswerOf : GoodAnswer(a) => GoodAnswer(a)'
    BY <1>1, AnswerFields DEF GoodAnswer, Commit
<1> QED
    BY <1>3, <1>4, <1>5, <1>6

\* A change of the record that no request asked for.
LEMMA CommitStep ==
    ASSUME FenceInv, FlushTyped', Commit, unmarked' \in Nat,
           db' \in [epoch : Nat, run : Nat, watched : BOOLEAN, suppressed : BOOLEAN,
                    checkpoint : SampleOf \cup {None}],
           UNCHANGED onlyRecord
    PROVE  FenceInv'
<1>1. UNCHANGED <<run, player>> /\ db'.epoch \in Nat /\ db'.run \in Nat
    BY DEF onlyRecord
<1>2. /\ queue \in Seq(RequestOf) /\ acks \in Seq(AnswerOf)
      /\ queue' = queue /\ acks' = acks
    BY Typed DEF FenceInv, onlyRecord
<1>3. TypeOK'
    BY DEF TypeOK, FlushTyped, FenceInv, onlyRecord
<1>4. \A i \in DOMAIN queue' : GoodRequest(queue[i])'
  <2> SUFFICES ASSUME NEW i \in DOMAIN queue' PROVE GoodRequest(queue[i])'
    OBVIOUS
  <2>1. PICK q \in RequestOf : q = queue[i]
    BY <1>2, ElementOfSeq, LenProperties
  <2>2. GoodRequest(q)
    BY <1>2, <2>1 DEF FenceInv
  <2>3. GoodRequest(q)'
    BY <1>1, <2>2, CommitKeeps
  <2> QED
    BY <1>2, <2>1, <2>3
<1>5. \A i \in DOMAIN acks' : (GoodRequest(acks[i].request) /\ GoodAnswer(acks[i]))'
  <2> SUFFICES ASSUME NEW i \in DOMAIN acks'
               PROVE  (GoodRequest(acks[i].request) /\ GoodAnswer(acks[i]))'
    OBVIOUS
  <2>1. PICK a \in AnswerOf : a = acks[i]
    BY <1>2, ElementOfSeq, LenProperties
  <2>2. PICK q \in RequestOf : q = a.request
    BY AnswerFields
  <2>3. GoodRequest(q) /\ GoodAnswer(a)
    BY <1>2, <2>1, <2>2 DEF FenceInv
  <2>4. GoodRequest(q)' /\ GoodAnswer(a)'
    BY <1>1, <2>3, CommitKeeps
  <2> QED
    BY <1>2, <2>1, <2>2, <2>4
<1>6. OneRequest'
    BY <1>2 DEF OneRequest, FenceInv
<1>7. (db.run <= db.epoch)'
    BY DEF Commit
<1> QED
    BY <1>1, <1>3, <1>4, <1>5, <1>6, <1>7, CommitKeeps DEF FenceInv

RecordOf == [epoch : Nat, run : Nat, watched : BOOLEAN, suppressed : BOOLEAN,
             checkpoint : SampleOf \cup {None}]

\* The types of the durable record.
LEMMA RecordTyped ==
    ASSUME FenceInv
    PROVE  /\ db \in RecordOf /\ db.run <= db.epoch /\ unmarked \in Nat
           /\ db.epoch \in Nat /\ db.run \in Nat
    BY DEF FenceInv, TypeOK, RecordOf

\* The epoch moves on and the run stays or is revoked: the user's marks and merges.
LEMMA ResetStep ==
    ASSUME FenceInv, FlushTyped', UNCHANGED onlyRecord, unmarked' \in Nat,
           NEW run0 \in {db.run, 0}, NEW watched \in BOOLEAN, NEW suppressed \in BOOLEAN,
           NEW checkpoint \in SampleOf \cup {None},
           db' = [epoch |-> db.epoch + 1, run |-> run0, watched |-> watched,
                  suppressed |-> suppressed, checkpoint |-> checkpoint]
    PROVE  FenceInv'
<1>1. db.epoch \in Nat /\ db.run \in Nat /\ db.run <= db.epoch
    BY RecordTyped
<1>2. db' \in RecordOf
    BY <1>1 DEF RecordOf
<1>3. Commit
    BY <1>1 DEF Commit, onlyRecord
<1> QED
    BY <1>2, <1>3, CommitStep DEF RecordOf

\* MarkWatched moves the epoch on.
LEMMA MarkWatchedStep ==
    ASSUME FenceInv, FlushTyped', NEW watched \in BOOLEAN, MarkWatched(watched)
    PROVE  FenceInv'
<1>1. db \in RecordOf /\ unmarked' \in Nat /\ UNCHANGED onlyRecord
    BY RecordTyped DEF MarkWatched
<1>2. db' = [epoch |-> db.epoch + 1, run |-> db.run, watched |-> watched,
             suppressed |-> db.suppressed \/ ~watched, checkpoint |-> db.checkpoint]
    BY <1>1 DEF RecordOf, MarkWatched
<1>3. (db.suppressed \/ ~watched) \in BOOLEAN /\ db.checkpoint \in SampleOf \cup {None}
    BY <1>1 DEF RecordOf
<1> QED
    BY <1>1, <1>2, <1>3, ResetStep

\* Clear moves the epoch on.
LEMMA ClearStep ==
    ASSUME FenceInv, FlushTyped', Clear
    PROVE  FenceInv'
<1>1. db \in RecordOf /\ unmarked' \in Nat /\ UNCHANGED onlyRecord
    BY RecordTyped DEF Clear
<1>2. db' = [epoch |-> db.epoch + 1, run |-> db.run, watched |-> db.watched,
             suppressed |-> db.suppressed, checkpoint |-> None]
    BY <1>1 DEF RecordOf, Clear
<1>3. db.suppressed \in BOOLEAN /\ db.watched \in BOOLEAN
    BY <1>1 DEF RecordOf
<1> QED
    BY <1>1, <1>2, <1>3, ResetStep

\* Merge moves the epoch on, revokes the run and may put another row in its place.
LEMMA MergeStep ==
    ASSUME FenceInv, FlushTyped', Merge
    PROVE  FenceInv'
<1>1. db \in RecordOf /\ unmarked' \in Nat /\ UNCHANGED onlyRecord
    BY RecordTyped DEF Merge
<1>2. PICK barred \in BOOLEAN, marked \in BOOLEAN, newer \in {db.checkpoint, None} :
        db' = [db EXCEPT !.epoch = @ + 1, !.run = 0, !.watched = marked,
                         !.suppressed = @ \/ barred, !.checkpoint = newer]
    BY DEF Merge
<1>3. db' = [epoch |-> db.epoch + 1, run |-> 0, watched |-> marked,
             suppressed |-> db.suppressed \/ barred, checkpoint |-> newer]
    BY <1>1, <1>2 DEF RecordOf
<1>4. (db.suppressed \/ barred) \in BOOLEAN /\ newer \in SampleOf \cup {None}
    BY <1>1 DEF RecordOf
<1> QED
    BY <1>1, <1>3, <1>4, ResetStep

\* The worker answers the oldest request, with a transaction of its own or none.
LEMMA AnswerStep ==
    ASSUME FenceInv, FlushTyped', queue # <<>>, queue' = Tail(queue),
           NEW a \in AnswerOf, a.request = Head(queue), acks' = Append(acks, a),
           UNCHANGED <<run, player, accepted, unmarked>>, faults' \in Nat,
           db' \in RecordOf, owner' \in Sessions \cup {None}, Commit, GoodAnswer(a)'
    PROVE  FenceInv'
<1>1. queue \in Seq(RequestOf) /\ acks \in Seq(AnswerOf)
    BY Typed DEF FenceInv
<1>2. /\ queue' \in Seq(RequestOf)
      /\ \A i \in DOMAIN queue' : i + 1 \in DOMAIN queue /\ queue'[i] = queue[i + 1]
      /\ Head(queue) = queue[1] /\ 1 \in DOMAIN queue
    BY <1>1, TailIndices
<1>3. /\ acks' \in Seq(AnswerOf)
      /\ Len(acks) + 1 \notin DOMAIN acks
      /\ \A i \in DOMAIN acks' : i \in DOMAIN acks \/ i = Len(acks) + 1
      /\ \A i \in DOMAIN acks : acks'[i] = acks[i]
      /\ acks'[Len(acks) + 1] = a
    BY <1>1, AppendPlace
<1>4. \A i \in DOMAIN queue' : i \in Nat \ {0}
    BY <1>2, LenProperties
<1>5. TypeOK'
    BY <1>2, <1>3 DEF TypeOK, FlushTyped, FenceInv, RecordOf
<1>6. db'.epoch \in Nat /\ db'.run \in Nat
    BY DEF RecordOf
<1>7. \A i \in DOMAIN queue : \A q \in RequestOf : q = queue[i] => GoodRequest(q)'
  <2> SUFFICES ASSUME NEW i \in DOMAIN queue, NEW q \in RequestOf, q = queue[i]
               PROVE  GoodRequest(q)'
    OBVIOUS
  <2>1. GoodRequest(q)
    BY DEF FenceInv
  <2> QED
    BY <1>6, <2>1, CommitKeeps
<1>8. \A i \in DOMAIN queue : queue[i] \in RequestOf
    BY <1>1, ElementOfSeq, LenProperties
<1>9. \A i \in DOMAIN queue' : GoodRequest(queue[i])'
  <2> SUFFICES ASSUME NEW i \in DOMAIN queue' PROVE GoodRequest(queue[i])'
    OBVIOUS
  <2>1. PICK q \in RequestOf : q = queue'[i]
    BY <1>2, <1>8
  <2>2. GoodRequest(q)'
    BY <1>2, <1>7, <2>1
  <2> QED
    BY <2>1, <2>2
<1>10. \A i \in DOMAIN acks' : (GoodRequest(acks[i].request) /\ GoodAnswer(acks[i]))'
  <2> SUFFICES ASSUME NEW i \in DOMAIN acks'
               PROVE  (GoodRequest(acks[i].request) /\ GoodAnswer(acks[i]))'
    OBVIOUS
  <2>1. CASE i \in DOMAIN acks
    <3>1. PICK b \in AnswerOf : b = acks[i]
      BY <1>1, <2>1, ElementOfSeq, LenProperties
    <3>2. PICK q \in RequestOf : q = b.request
      BY AnswerFields
    <3>3. GoodRequest(q) /\ GoodAnswer(b)
      BY <2>1, <3>1, <3>2 DEF FenceInv
    <3>4. GoodRequest(q)' /\ GoodAnswer(b)'
      BY <1>6, <3>3, CommitKeeps
    <3> QED
      BY <1>3, <2>1, <3>1, <3>2, <3>4
  <2>2. CASE i = Len(acks) + 1
    <3>1. PICK q \in RequestOf : q = a.request
      BY AnswerFields
    <3>2. GoodRequest(q)'
      BY <1>2, <1>7, <3>1
    <3> QED
      BY <1>3, <2>2, <3>1, <3>2
  <2> QED
    BY <1>3, <2>1, <2>2
<1>11. OneRequest'
  <2>1. \A i, j \in DOMAIN queue' : queue'[i].session = queue'[j].session => i = j
    BY <1>2, <1>4 DEF FenceInv, OneRequest
  <2>2. \A i \in DOMAIN queue' : queue'[i].session # a.request.session
    BY <1>2, <1>4 DEF FenceInv, OneRequest
  <2>3. \A j \in DOMAIN acks : acks[j].request.session # a.request.session
    BY <1>2 DEF FenceInv, OneRequest
  <2>4. \A i, j \in DOMAIN acks' :
           acks'[i].request.session = acks'[j].request.session => i = j
    BY <1>3, <2>3 DEF FenceInv, OneRequest
  <2>5. \A i \in DOMAIN queue', j \in DOMAIN acks' :
           queue'[i].session # acks'[j].request.session
    BY <1>2, <1>3, <2>2 DEF FenceInv, OneRequest
  <2> QED
    BY <2>1, <2>4, <2>5 DEF OneRequest
<1>12. (db.run <= db.epoch)'
    BY DEF Commit
<1> QED
    BY <1>5, <1>6, <1>9, <1>10, <1>11, <1>12, CommitKeeps DEF FenceInv

\* Execute: a stale answer to a save of the current run carries a later epoch, and
\* the answer to a begin carries the run it made.
LEMMA ExecuteStep ==
    ASSUME FenceInv, FlushTyped', Execute
    PROVE  FenceInv'
<1> DEFINE q == Head(queue)
<1>1. /\ queue \in Seq(RequestOf) /\ queue # <<>> /\ queue' = Tail(queue)
      /\ UNCHANGED <<run, player, accepted, unmarked>>
    BY Typed DEF FenceInv, Execute
<1>2. /\ db \in RecordOf /\ db.run <= db.epoch /\ db.epoch \in Nat /\ db.run \in Nat
      /\ faults \in Nat /\ owner \in Sessions \cup {None}
    BY RecordTyped DEF FenceInv, TypeOK
<1>3. q \in RequestOf /\ GoodRequest(q)
  <2>1. q = queue[1] /\ 1 \in DOMAIN queue
    BY <1>1, TailIndices
  <2>2. queue[1] \in RequestOf
    BY <1>1, <2>1, ElementOfSeq, LenProperties
  <2>3. GoodRequest(queue[1])
    BY <2>1 DEF FenceInv
  <2> QED
    BY <2>1, <2>2, <2>3
<1>4. /\ q.op \in {"read", "begin", "save"} /\ q.session \in Sessions
      /\ q.op = "begin" => /\ q.epoch \in Nat /\ q.over \in BOOLEAN /\ q.epoch <= db.epoch
      /\ q.op = "save" => /\ q.sample \in SampleOf /\ Fenced(q.sample, q.session)
  <2>1. player[q.session].epoch <= db.epoch /\ player[q.session] \in WindowOf
    BY <1>3, RequestFields, Typed DEF FenceInv, GoodWindow, Fits
  <2> HIDE DEF q
  <2> QED
    BY <1>2, <1>3, <2>1, RequestFields DEF GoodRequest, Behind, WindowOf
<1> HIDE DEF q
\* An answer that leaves the record as it was.
<1>5. ASSUME NEW result \in {"applied", "stale", "error"}, UNCHANGED <<db, owner>>,
             acks' = Append(acks, [request |-> q, result |-> result,
                                   epoch |-> db.epoch, run |-> db.run]),
             faults' \in Nat,
             q.op = "begin" => result = "error",
             q.op = "save" /\ result = "stale" => IsStale(q.sample)
      PROVE  FenceInv'
  <2> DEFINE a == [request |-> q, result |-> result, epoch |-> db.epoch, run |-> db.run]
  <2>1. PICK b \in AnswerOf : b = a
    BY <1>2, <1>3 DEF AnswerOf
  <2>2. /\ b.request = q /\ b.result = result /\ b.epoch = db.epoch /\ b.run = db.run
        /\ acks' = Append(acks, b)
    BY <1>5, <2>1
  <2>3. q.op = "save" /\ result = "stale" /\ db.run = q.sample.run /\ db.run # 0 =>
           q.sample.epoch < db.epoch
    BY <1>2, <1>4, <1>5 DEF IsStale, Fenced, SampleOf
  <2>4. GoodAnswer(b)'
    BY <1>2, <1>5, <2>2, <2>3 DEF GoodAnswer
  <2>5. Commit
    BY <1>2, <1>5 DEF Commit
  <2> QED
    BY <1>1, <1>2, <1>5, <2>2, <2>4, <2>5, AnswerStep DEF q
\* A new run.
<1>6. CASE /\ q.op = "begin" /\ db' = Begun(q.over) /\ owner' = q.session
           /\ acks' = Append(acks, [request |-> q, result |-> "applied",
                                    epoch |-> db'.epoch, run |-> db'.run])
           /\ faults' = faults
  <2>1. db' = [epoch |-> db.epoch + 1, run |-> db.epoch + 1, watched |-> db.watched,
               suppressed |-> FALSE, checkpoint |-> IF q.over THEN None ELSE db.checkpoint]
    BY <1>2, <1>6 DEF Begun, RecordOf
  <2>2. /\ db' \in RecordOf /\ db'.epoch = db.epoch + 1 /\ db'.run = db.epoch + 1
    BY <1>2, <2>1 DEF RecordOf
  <2> PICK e \in Nat : e = db.epoch + 1
    BY <1>2
  <2>3. PICK b \in AnswerOf : b = [request |-> q, result |-> "applied",
                                   epoch |-> e, run |-> e]
    BY <1>3 DEF AnswerOf
  <2>4. /\ b.request = q /\ b.result = "applied" /\ b.epoch = db.epoch + 1
        /\ b.run = db.epoch + 1 /\ acks' = Append(acks, b)
    BY <1>6, <2>2, <2>3
  <2>5. Commit
    BY <1>2, <2>2 DEF Commit
  <2>6. GoodAnswer(b)'
    BY <1>2, <1>4, <1>6, <2>2, <2>4 DEF GoodAnswer
  <2> QED
    BY <1>1, <1>2, <1>4, <1>6, <2>2, <2>4, <2>5, <2>6, AnswerStep DEF q
\* A checkpoint of the current run.
<1>7. CASE /\ q.op = "save" /\ db' = Saved(q.sample)
           /\ acks' = Append(acks, [request |-> q, result |-> "applied",
                                    epoch |-> db'.epoch, run |-> db'.run])
           /\ owner' = owner /\ faults' = faults
  <2>1. db' = [epoch |-> db.epoch, run |-> db.run,
               watched |-> db.watched \/ (q.sample.done /\ ~db.suppressed),
               suppressed |-> db.suppressed, checkpoint |-> q.sample]
    BY <1>2, <1>7 DEF Saved, RecordOf
  <2>2. /\ db' \in RecordOf /\ db'.epoch = db.epoch /\ db'.run = db.run
    BY <1>2, <1>4, <1>7, <2>1 DEF RecordOf, SampleOf
  <2>3. PICK b \in AnswerOf : b = [request |-> q, result |-> "applied",
                                   epoch |-> db.epoch, run |-> db.run]
    BY <1>2, <1>3 DEF AnswerOf
  <2>4. /\ b.request = q /\ b.result = "applied" /\ b.epoch = db.epoch
        /\ b.run = db.run /\ acks' = Append(acks, b)
    BY <1>7, <2>2, <2>3
  <2>5. Commit
    BY <1>2, <1>7, <2>2 DEF Commit
  <2>6. GoodAnswer(b)'
    BY <1>2, <1>7, <2>2, <2>4 DEF GoodAnswer
  <2> QED
    BY <1>1, <1>2, <1>7, <2>2, <2>4, <2>5, <2>6, AnswerStep DEF q
<1>8. faults + 1 \in Nat
    BY <1>2
<1> QED
    BY <1>2, <1>4, <1>5, <1>6, <1>7, <1>8 DEF Execute, Answer, q

-----------------------------------------------------------------------------
(* The theorems                                                              *)

\* Nothing is under way and no window is open.
LEMMA InitFence == Init => FenceInv
<1> SUFFICES ASSUME Init PROVE FenceInv
    OBVIOUS
<1>1. NoWindow \in WindowOf /\ NewWindow(NoWindow) /\ NoWindow.phase = "none"
      /\ NoWindow.epoch = 0 /\ NoWindow.run = 0 /\ NoWindow.auth = FALSE
      /\ NoWindow.last = None
    BY DEF NoWindow, WindowOf, Phases, NewWindow
<1>2. TypeOK
    BY <1>1, EmptySeq DEF Init, TypeOK, WindowOf
<1>3. db.run = 0 /\ db.epoch = 0 /\ DOMAIN queue = {} /\ DOMAIN acks = {}
    BY EmptySeq DEF Init
<1>4. \A s \in Sessions : player[s] = NoWindow /\ run[s] = None
    BY DEF Init
<1>5. \A s \in Sessions : GoodWindow(s) /\ GoodRun(s)
    BY <1>1, <1>3, <1>4 DEF GoodWindow, GoodRun, Fits, Early
<1> QED
    BY <1>2, <1>3, <1>5 DEF FenceInv, OneRequest

\* A step of the flush that takes no sample.
LEMMA StillStep ==
    ASSUME FenceInv, FlushTyped', UNCHANGED <<db, queue, acks, run, player, faults, history>>
    PROVE  FenceInv'
<1> USE DEF history
<1>1. TypeOK'
    BY DEF FenceInv, TypeOK, FlushTyped
<1>2. OneRequest' /\ \A s \in Sessions : GoodWindow(s)' /\ GoodRun(s)'
    BY DEF FenceInv, OneRequest, GoodWindow, GoodRun, Fits, Fenced
<1>3. \A i \in DOMAIN queue' : GoodRequest(queue[i])'
    BY DEF FenceInv, GoodRequest, Fenced
<1>4. \A i \in DOMAIN acks' : (GoodRequest(acks[i].request) /\ GoodAnswer(acks[i]))'
    BY DEF FenceInv, GoodRequest, GoodAnswer, Fenced
<1> QED
    BY <1>1, <1>2, <1>3, <1>4 DEF FenceInv

\* Every action of a user on a window.
LEMMA UserStep ==
    ASSUME FenceInv, FlushTyped', NEW s \in Sessions, User(s) PROVE FenceInv'
    BY OpenStep, RetryStartupStep, PlayWithoutSavingStep, RetryProgressReadyStep,
       ReplayStep, CloseStep DEF User

\* Every action of a window by itself.
LEMMA WindowActs ==
    ASSUME FenceInv, FlushTyped', NEW s \in Sessions, Window(s) PROVE FenceInv'
    BY BecomesReadyStep, StartFailsStep, ObserveStep, SampleStep DEF Window

\* Every step preserves the invariant.
LEMMA FenceStep == FenceInv /\ [Next]_vars => FenceInv'
<1> SUFFICES ASSUME FenceInv, [Next]_vars PROVE FenceInv'
    OBVIOUS
<1>1. FlushTyped
    BY DEF FenceInv, TypeOK, FlushTyped
<1>2. CASE UNCHANGED vars
  <2>1. FlushTyped'
    BY <1>1, <1>2 DEF vars, flushVars, FlushTyped
  <2> QED
    BY <1>2, <2>1, StillStep DEF vars
<1>3. CASE Worker
  <2>1. FlushTyped'
    BY <1>1, <1>3 DEF Worker, flushVars, FlushTyped
  <2> QED
    BY <1>3, <2>1, ExecuteStep, ClearStep, MergeStep, MarkWatchedStep DEF Worker
<1>4. CASE MainThread
  <2>1. FlushTyped'
    BY <1>1, <1>4 DEF MainThread, flushVars, FlushTyped
  <2> QED
    BY <1>4, <2>1, UserStep, WindowActs, RetryDueStep, ForgetStep, OpenAnsweredStep,
       BeginAnsweredStep, SaveAnsweredStep, SaveFailedStep DEF MainThread, Answered
<1>5. CASE BeginFlush \/ EndFlush
  <2>1. FlushTyped'
    BY <1>1, <1>5 DEF BeginFlush, EndFlush, FlushTyped
  <2> QED
    BY <1>5, <2>1, StillStep DEF BeginFlush, EndFlush
<1>6. CASE \E s \in Sessions : FinalSample(s)
  <2> PICK s \in Sessions : FinalSample(s)
    BY <1>6
  <2>1. FlushTyped'
    BY <1>1 DEF FinalSample, FlushTyped
  <2>2. Flush(s, player[s])
    BY DEF FinalSample
  <2>3. CASE player[s].phase \notin Early
    BY <2>1, <2>2, <2>3, FinalSampleStep
  <2>4. CASE player[s].phase \in Early
    <3>1. player \in [Sessions -> WindowOf] /\ ~HasSample(s)
      BY <2>4, Typed DEF FenceInv, HasSample, Sampling, Early
    <3>2. UNCHANGED <<db, queue, acks, run, player, faults, history>>
      BY <2>2, <3>1 DEF Flush
    <3> QED
      BY <2>1, <3>2, StillStep
  <2> QED
    BY <2>3, <2>4
<1> QED
    BY <1>2, <1>3, <1>4, <1>5, <1>6 DEF Next

\* Every sample on its way is fenced: its epoch is not later than its observation,
\* and while its run is the current one its session is the one that began it.
THEOREM AlwaysFenced == Spec => []FenceInv
<1>1. FenceInv /\ [Next]_vars => FenceInv'
    BY FenceStep
<1> QED
    BY <1>1, InitFence, PTL DEF Spec

\* PlaybackProgress.TypeOK: every variable keeps to the values its code has.
THEOREM TypeCorrect == Spec => []TypeOK
<1>1. FenceInv => TypeOK
    BY DEF FenceInv
<1> QED
    BY <1>1, AlwaysFenced, PTL

\* Only a save that is not stale writes a checkpoint in the same epoch.
LEMMA WriteIsFencedSave ==
    ASSUME FenceInv, [Next]_vars, Writes
    PROVE  /\ Execute /\ Head(queue) \in RequestOf /\ Head(queue).op = "save"
           /\ ~IsStale(Head(queue).sample) /\ db' = Saved(Head(queue).sample)
           /\ db'.checkpoint = Head(queue).sample /\ owner' = owner
           /\ Fenced(Head(queue).sample, Head(queue).session)
<1> DEFINE q == Head(queue)
<1>1. db \in RecordOf /\ db.epoch \in Nat
    BY RecordTyped
<1>2. db' # db
    BY DEF Writes
<1>3. Worker
  <2>1. MainThread => db' = db
    BY DEF MainThread, Answered, User, Window, OpenWithProgress, RetryStartup,
       PlayWithoutSaving, RetryProgressReady, Replay, Close, Flush, Deliver, BecomesReady,
       StartFails, Observe, Sample, RetryDue, Forget, OpenAnswered, BeginAnswered,
       SaveAnswered, SaveFailed, Acknowledged
  <2>2. BeginFlush \/ EndFlush \/ (\E s \in Sessions : FinalSample(s)) => db' = db
    BY DEF BeginFlush, EndFlush, FinalSample, Flush, Deliver
  <2>3. UNCHANGED vars => db' = db
    BY DEF vars
  <2> QED
    BY <1>2, <2>1, <2>2, <2>3 DEF Next
<1>4. ~Clear /\ ~Merge /\ \A watched \in BOOLEAN : ~MarkWatched(watched)
  <2>1. Clear => db'.epoch = db.epoch + 1
    BY <1>1 DEF Clear, RecordOf
  <2>2. Merge => db'.epoch = db.epoch + 1
    BY <1>1 DEF Merge, RecordOf
  <2>3. \A watched \in BOOLEAN : MarkWatched(watched) => db'.epoch = db.epoch + 1
    BY <1>1 DEF MarkWatched, RecordOf
  <2> QED
    BY <1>1, <2>1, <2>2, <2>3 DEF Writes
<1>5. Execute
    BY <1>3, <1>4 DEF Worker
<1>6. q \in RequestOf /\ GoodRequest(q)
  <2>1. queue \in Seq(RequestOf) /\ queue # <<>>
    BY <1>5, Typed DEF FenceInv, Execute
  <2>2. q = queue[1] /\ 1 \in DOMAIN queue
    BY <2>1, TailIndices
  <2>3. queue[1] \in RequestOf
    BY <2>1, <2>2, ElementOfSeq, LenProperties
  <2>4. GoodRequest(queue[1])
    BY <2>2 DEF FenceInv
  <2> QED
    BY <2>2, <2>3, <2>4
<1>7. ~(db' = Begun(q.over))
  <2>1. Begun(q.over).epoch = db.epoch + 1
    BY <1>1 DEF Begun, RecordOf
  <2> QED
    BY <1>1, <2>1 DEF Writes
<1>8. /\ q.op = "save" /\ ~IsStale(q.sample) /\ db' = Saved(q.sample) /\ owner' = owner
    BY <1>2, <1>5, <1>7 DEF Execute
<1>9. db'.checkpoint = q.sample
    BY <1>1, <1>8 DEF Saved, RecordOf
<1> QED
    BY <1>5, <1>6, <1>8, <1>9 DEF GoodRequest

\* PlaybackProgress.NoStaleWriter: a checkpoint that the catalog accepts was sent by
\* the session that began the current run, and was observed since the last manual
\* mark, clear or merge.
THEOREM AlwaysFreshWriter == Spec => NoStaleWriter
<1>1. FenceInv /\ [Next]_vars => (Writes => db'.checkpoint.by = owner)
  <2> SUFFICES ASSUME FenceInv, [Next]_vars, Writes PROVE db'.checkpoint.by = owner
    OBVIOUS
  <2> QED
    BY WriteIsFencedSave DEF IsStale, Fenced
<1>2. FenceInv /\ [Next]_vars => (Writes => db'.checkpoint.at = db.epoch)
  <2> SUFFICES ASSUME FenceInv, [Next]_vars, Writes PROVE db'.checkpoint.at = db.epoch
    OBVIOUS
  <2>1. Head(queue).sample \in SampleOf /\ db.epoch \in Nat
    BY WriteIsFencedSave, RequestFields, RecordTyped
  <2> QED
    BY <2>1, WriteIsFencedSave DEF IsStale, Fenced, SampleOf
<1>3. Spec => [][Writes => db'.checkpoint.by = owner]_vars
    BY <1>1, AlwaysFenced, PTL DEF Spec
<1>4. Spec => [][Writes => db'.checkpoint.at = db.epoch]_vars
    BY <1>2, AlwaysFenced, PTL DEF Spec
<1> QED
    BY <1>3, <1>4 DEF NoStaleWriter, OnlyNewestRunWrites, NoPreResetSample

-----------------------------------------------------------------------------
(* The user's mark                                                           *)

\* Every step keeps the mark in force: a new run has a new number, and nothing
\* within a run lifts the suppression.
LEMMA MarkStep == FenceInv /\ MarkInv /\ [Next]_vars => MarkInv'
<1> SUFFICES ASSUME FenceInv, MarkInv, [Next]_vars PROVE MarkInv'
    OBVIOUS
<1>1. /\ db \in RecordOf /\ db.run <= db.epoch /\ db.epoch \in Nat /\ db.run \in Nat
      /\ unmarked \in Nat /\ unmarked <= db.epoch
      /\ db.run # 0 /\ db.run = unmarked => db.suppressed
    BY RecordTyped DEF MarkInv
<1>2. CASE db' = db /\ unmarked' = unmarked
    BY <1>1, <1>2 DEF MarkInv
<1>3. CASE Worker
  <2>1. CASE Execute
    <3>1. unmarked' = unmarked
      BY <2>1 DEF Execute
    <3>2. CASE \E over : db' = Begun(over)
      <4> PICK over : db' = Begun(over)
        BY <3>2
      <4>1. db'.epoch = db.epoch + 1 /\ db'.run = db.epoch + 1
        BY <1>1 DEF Begun, RecordOf
      <4> QED
        BY <1>1, <3>1, <4>1 DEF MarkInv
    <3>3. CASE \E sample : db' = Saved(sample)
      <4> PICK sample : db' = Saved(sample)
        BY <3>3
      <4>1. db'.epoch = db.epoch /\ db'.run = db.run /\ db'.suppressed = db.suppressed
        BY <1>1 DEF Saved, RecordOf
      <4> QED
        BY <1>1, <3>1, <4>1 DEF MarkInv
    <3> QED
      BY <1>2, <2>1, <3>1, <3>2, <3>3 DEF Execute
  <2>2. CASE Clear
    <3>1. /\ db'.epoch = db.epoch + 1 /\ db'.run = db.run
          /\ db'.suppressed = db.suppressed /\ unmarked' = unmarked
      BY <1>1, <2>2 DEF Clear, RecordOf
    <3> QED
      BY <1>1, <3>1 DEF MarkInv
  <2>3. CASE Merge
    <3>1. db'.epoch = db.epoch + 1 /\ db'.run = 0 /\ unmarked' = unmarked
      BY <1>1, <2>3 DEF Merge, RecordOf
    <3> QED
      BY <1>1, <3>1 DEF MarkInv
  <2>4. ASSUME NEW watched \in BOOLEAN, MarkWatched(watched) PROVE MarkInv'
    <3> DEFINE barred == db.suppressed \/ ~watched
    <3>1. /\ db' = [db EXCEPT !.epoch = @ + 1, !.watched = watched, !.suppressed = barred]
          /\ unmarked' = IF watched THEN unmarked ELSE db.run
      BY <2>4 DEF MarkWatched
    <3>2. (db.suppressed => barred) /\ (~watched => barred)
      OBVIOUS
    <3> HIDE DEF barred
    <3>3. db'.epoch = db.epoch + 1 /\ db'.run = db.run /\ db'.suppressed = barred
      BY <1>1, <3>1 DEF RecordOf
    <3>4. CASE watched
      <4>1. unmarked' = unmarked
        BY <3>1, <3>4
      <4> QED
        BY <1>1, <3>2, <3>3, <4>1 DEF MarkInv
    <3>5. CASE ~watched
      <4>1. unmarked' = db.run
        BY <3>1, <3>5
      <4> QED
        BY <1>1, <3>2, <3>3, <3>5, <4>1 DEF MarkInv
    <3> QED
      BY <3>4, <3>5
  <2> QED
    BY <1>3, <2>1, <2>2, <2>3, <2>4 DEF Worker
<1>4. MainThread => db' = db /\ unmarked' = unmarked
    BY DEF MainThread, Answered, User, Window, OpenWithProgress, RetryStartup,
       PlayWithoutSaving, RetryProgressReady, Replay, Close, Flush, Deliver, BecomesReady,
       StartFails, Observe, Sample, RetryDue, Forget, OpenAnswered, BeginAnswered,
       SaveAnswered, SaveFailed, Acknowledged, history
<1>5. BeginFlush \/ EndFlush \/ (\E s \in Sessions : FinalSample(s)) =>
        db' = db /\ unmarked' = unmarked
    BY DEF BeginFlush, EndFlush, FinalSample, Flush, Deliver, history
<1>6. UNCHANGED vars => db' = db /\ unmarked' = unmarked
    BY DEF vars, history
<1> QED
    BY <1>2, <1>3, <1>4, <1>5, <1>6 DEF Next

\* PlaybackProgress.SuppressionHolds: a run in which the user marked the item
\* unwatched never marks it watched again by itself.
THEOREM AlwaysSuppressed == Spec => SuppressionHolds
<1>1. Init => MarkInv
    BY DEF Init, MarkInv
<1>2. FenceInv /\ MarkInv /\ [Next]_vars =>
        (Writes /\ ~db.watched /\ db'.watched => db.run # unmarked)
  <2> SUFFICES ASSUME FenceInv, MarkInv, [Next]_vars, Writes, ~db.watched, db'.watched
               PROVE  db.run # unmarked
    OBVIOUS
  <2> DEFINE x == Head(queue).sample
  <2>1. /\ db \in RecordOf /\ db' = Saved(x) /\ x.run # 0 /\ x.run = db.run
    BY WriteIsFencedSave, RecordTyped DEF IsStale
  <2>2. ~db.suppressed
    BY <2>1 DEF Saved, RecordOf
  <2> QED
    BY <2>1, <2>2 DEF MarkInv
<1> QED
    BY <1>1, <1>2, AlwaysFenced, MarkStep, PTL DEF Spec, SuppressionHolds

-----------------------------------------------------------------------------
(* Delivery: the way of a checkpoint from its window to the record           *)

\* A checkpoint that a transaction would accept.
Current(x) == x.run = db.run /\ x.epoch = db.epoch

\* What is under way for a session: a request that is queued, or its answer.
Way(q, result) == [request |-> q, result |-> result]
Queues(s) == {Way(queue[i], "queued") : i \in {j \in DOMAIN queue : queue[j].session = s}}
Unread(s) == {Way(acks[i].request, acks[i].result) :
                i \in {j \in DOMAIN acks : acks[j].request.session = s}}
Ways(s) == Queues(s) \cup Unread(s)

\* No later checkpoint of the session is in the record already.
Unsaved(s, x) ==
    db.checkpoint # None /\ db.checkpoint.by = s => db.checkpoint.seq < x.seq

\* A checkpoint of run r, from a window that has taken n of them.
Mine(x, r, n) ==
    /\ x \in SampleOf
    /\ x.epoch = r.epoch /\ x.run = r.run /\ x.run # 0 /\ x.seq <= n

\* A checkpoint that is under way is of the run and the epoch its session holds, and
\* is earlier than what waits behind it; its answer says what became of it.
Travels(s, w, r, n, a) ==
    LET x == w.request.sample
    IN  /\ Mine(x, r, n)
        /\ r.latest # None => x.seq < r.latest.seq
        /\ w.result \in {"queued", "error"} => Unsaved(s, x)
        /\ w.result = "applied" /\ Current(x) => db.checkpoint = x
        /\ w.result = "stale" => ~Current(x)
        /\ a # None /\ Current(a) /\ r.latest = None => x = a

Saving(w) == w.request.op = "save"

\* The checkpoint a that was accepted last waits, is under way or is in the record.
Delivers(s, r, n, a, W) ==
    /\ r.run <= db.epoch /\ r.epoch <= db.epoch
    /\ r.busy => W # {}
    /\ r.latest # None => Mine(r.latest, r, n) /\ Unsaved(s, r.latest)
    /\ \A w \in W : Saving(w) => Travels(s, w, r, n, a)
    /\ a # None /\ Current(a) =>
         /\ r.latest # None => r.latest = a
         /\ r.latest = None /\ (\A w \in W : ~Saving(w)) => db.checkpoint = a

Delivery(s) ==
    run[s] # None => Delivers(s, run[s], player[s].seq, accepted[s], Ways(s))

\* What a session's newest checkpoint says is true of it, and of nobody else.
Acceptance(s) ==
    accepted[s] # None =>
        /\ Fenced(accepted[s], s) /\ accepted[s].run # 0
        /\ accepted[s].seq <= player[s].seq /\ player[s].phase \notin Early

Begins(a) == a.request.op = "begin" /\ a.result = "applied"

\* The answer to a Begin is of a run later than every run that is known when it comes.
Later(i) ==
    /\ \A o \in Sessions : run[o] # None => run[o].run < acks[i].run
    /\ \A o \in Sessions : accepted[o] # None => accepted[o].run < acks[i].run
    /\ \A j \in DOMAIN acks : j < i => acks[j].run < acks[i].run
    /\ db.run = 0 \/ acks[i].run <= db.run

BeginsAreLater == \A i \in DOMAIN acks : Begins(acks[i]) => Later(i)

\* An applied save leaves its authorization as it was.
SavesAgree ==
    \A i \in DOMAIN acks :
        acks[i].request.op = "save" /\ acks[i].result = "applied" =>
            /\ acks[i].epoch = acks[i].request.sample.epoch
            /\ acks[i].run = acks[i].request.sample.run

\* The record's checkpoint is of its window.
Recorded ==
    db.checkpoint # None =>
        /\ Fenced(db.checkpoint, db.checkpoint.by)
        /\ db.checkpoint.seq <= player[db.checkpoint.by].seq

FlushIsDone == quit = "saved" => leaving = {} /\ Flushed

DeliverInv ==
    /\ BeginsAreLater /\ SavesAgree /\ Recorded /\ FlushIsDone
    /\ \A s \in Sessions : Delivery(s) /\ Acceptance(s)

-----------------------------------------------------------------------------
(* What is under way                                                         *)

\* What is queued and what is answered, element by element.
LEMMA WaysMember ==
    ASSUME NEW s, NEW w
    PROVE  /\ w \in Queues(s) <=>
                \E i \in DOMAIN queue : queue[i].session = s /\ w = Way(queue[i], "queued")
           /\ w \in Unread(s) <=>
                \E i \in DOMAIN acks : /\ acks[i].request.session = s
                                       /\ w = Way(acks[i].request, acks[i].result)
           /\ w \in Queues(s)' <=>
                \E i \in DOMAIN queue' : queue'[i].session = s /\ w = Way(queue'[i], "queued")
           /\ w \in Unread(s)' <=>
                \E i \in DOMAIN acks' : /\ acks'[i].request.session = s
                                        /\ w = Way(acks'[i].request, acks'[i].result)
BY DEF Queues, Unread

\* The two parts of what is under way.
LEMMA WayFields ==
    ASSUME NEW q, NEW result
    PROVE  Way(q, result).request = q /\ Way(q, result).result = result
    BY DEF Way

\* What is under way for a session is one request at most, and a good one.
LEMMA WaysTyped ==
    ASSUME FenceInv, NEW s \in Sessions, NEW w \in Ways(s)
    PROVE  /\ w.request \in RequestOf /\ w.request.session = s /\ GoodRequest(w.request)
           /\ w.result \in {"queued", "applied", "stale", "error"}
<1>1. queue \in Seq(RequestOf) /\ acks \in Seq(AnswerOf)
    BY Typed DEF FenceInv
<1>2. ASSUME NEW i \in DOMAIN queue, queue[i].session = s, w = Way(queue[i], "queued")
      PROVE  /\ w.request \in RequestOf /\ w.request.session = s /\ GoodRequest(w.request)
             /\ w.result \in {"queued", "applied", "stale", "error"}
  <2>1. PICK q : q = queue[i]
    OBVIOUS
  <2>2. q \in RequestOf
    BY <1>1, <2>1, ElementOfSeq, LenProperties
  <2>3. GoodRequest(q)
    BY <2>1 DEF FenceInv
  <2>4. w.request = q /\ w.result = "queued"
    BY <1>2, <2>1, WayFields
  <2> QED
    BY <1>2, <2>1, <2>2, <2>3, <2>4
<1>3. ASSUME NEW i \in DOMAIN acks, acks[i].request.session = s,
             w = Way(acks[i].request, acks[i].result)
      PROVE  /\ w.request \in RequestOf /\ w.request.session = s /\ GoodRequest(w.request)
             /\ w.result \in {"queued", "applied", "stale", "error"}
  <2>1. PICK a : a = acks[i]
    OBVIOUS
  <2>2. a \in AnswerOf
    BY <1>1, <2>1, ElementOfSeq, LenProperties
  <2>3. GoodRequest(a.request) /\ a.request \in RequestOf
        /\ a.result \in {"applied", "stale", "error"}
    BY <2>1, <2>2, AnswerFields DEF FenceInv
  <2>4. w.request = a.request /\ w.result = a.result
    BY <1>3, <2>1, WayFields
  <2> QED
    BY <1>3, <2>1, <2>2, <2>3, <2>4
<1> QED
    BY <1>2, <1>3, WaysMember DEF Ways

\* A session without a request under way.
LEMMA FreeHasNone ==
    ASSUME NEW s, Free(s)
    PROVE  Ways(s) = {}
<1>1. \A w : w \notin Ways(s)
    BY WaysMember DEF Free, Ways
<1> QED
    BY <1>1

\* A request that is sent is queued.
LEMMA QueuesSent ==
    ASSUME queue \in Seq(RequestOf), NEW q \in RequestOf, queue' = Append(queue, q), NEW s
    PROVE  /\ q.session = s => Queues(s)' = Queues(s) \cup {Way(q, "queued")}
           /\ q.session # s => Queues(s)' = Queues(s)
<1>1. /\ \A i \in DOMAIN queue' : i \in DOMAIN queue \/ i = Len(queue) + 1
      /\ \A i \in DOMAIN queue : queue'[i] = queue[i]
      /\ queue'[Len(queue) + 1] = q
    BY AppendPlace
<1>2. DOMAIN queue \subseteq DOMAIN queue' /\ Len(queue) + 1 \in DOMAIN queue'
    BY AppendProperties, LenProperties
<1>3. \A w : w \in Queues(s)' <=>
         w \in Queues(s) \/ (q.session = s /\ w = Way(q, "queued"))
    BY <1>1, <1>2, WaysMember
<1> QED
    BY <1>3

\* The answer that is taken was all that its session had under way.
LEMMA UnreadTaken ==
    ASSUME FenceInv, NEW s \in Sessions, Answers(s)
    PROVE  /\ Queues(s) = {} /\ Unread(s) = {Way(Head(acks).request, Head(acks).result)}
           /\ Unread(s)' = {}
           /\ \A o \in Sessions \ {s} : Unread(o)' = Unread(o)
<1>1. /\ \A i \in DOMAIN queue : queue[i].session # s
      /\ acks' \in Seq(AnswerOf)
      /\ \A i \in DOMAIN acks' : /\ i + 1 \in DOMAIN acks /\ acks'[i] = acks[i + 1]
                                 /\ acks'[i].request.session # s
      /\ Head(acks) = acks[1] /\ 1 \in DOMAIN acks /\ acks[1].request.session = s
    BY AnsweredIsFree DEF Answers
<1>2. \A i, j \in DOMAIN acks :
          acks[i].request.session = acks[j].request.session => i = j
    BY DEF FenceInv, OneRequest
<1>3. Unread(s) = {Way(Head(acks).request, Head(acks).result)}
  <2>1. \A w : w \in Unread(s) <=> w = Way(acks[1].request, acks[1].result)
    BY <1>1, <1>2, WaysMember
  <2> QED
    BY <1>1, <2>1
<1>4. Unread(s)' = {} /\ Queues(s) = {}
  <2>1. \A w : w \notin Unread(s)' /\ w \notin Queues(s)
    BY <1>1, WaysMember
  <2> QED
    BY <2>1
<1>5. \A i \in DOMAIN acks : i = 1 \/ (\E j \in DOMAIN acks' : i = j + 1)
  <2>1. acks \in Seq(AnswerOf) /\ acks # <<>> /\ acks' = Tail(acks)
    BY Typed DEF FenceInv, Answers
  <2>2. Len(acks) \in Nat \ {0} /\ DOMAIN acks = 1 .. Len(acks)
    BY <2>1, EmptySeq, LenProperties
  <2>3. DOMAIN acks' = 1 .. (Len(acks) - 1)
    BY <2>1, <2>2, <1>1, HeadTailProperties, LenProperties
  <2>4. ASSUME NEW i \in DOMAIN acks, i # 1 PROVE i - 1 \in DOMAIN acks' /\ i = (i - 1) + 1
    BY <2>2, <2>3, <2>4
  <2> QED
    BY <2>4
<1>6. ASSUME NEW o \in Sessions \ {s} PROVE Unread(o)' = Unread(o)
  <2>1. \A w : w \in Unread(o) => w \in Unread(o)'
    <3> TAKE w
    <3> HAVE w \in Unread(o)
    <3>1. PICK i \in DOMAIN acks : /\ acks[i].request.session = o
                                   /\ w = Way(acks[i].request, acks[i].result)
      BY WaysMember
    <3>2. PICK j \in DOMAIN acks' : i = j + 1
      BY <1>1, <1>5, <3>1
    <3> QED
      BY <1>1, <3>1, <3>2, WaysMember
  <2>2. \A w : w \in Unread(o)' => w \in Unread(o)
    BY <1>1, WaysMember
  <2> QED
    BY <2>1, <2>2
<1> QED
    BY <1>3, <1>4, <1>6

-----------------------------------------------------------------------------
(* What a submission moves                                                   *)

\* A submission of session s keeps the run's authority; it sends nothing, or asks
\* for a new run, or sends the checkpoint that waits.
Moves(s, r, o) ==
    /\ o.run \in RunOf /\ o.run.epoch = r.epoch /\ o.run.run = r.run
    /\ \/ o.sent = <<>> /\ o.run.busy = r.busy /\ o.run.latest = r.latest
       \/ /\ ~r.busy /\ o.run.busy /\ o.run.latest = r.latest
          /\ \E q \in RequestOf : q.op = "begin" /\ q.session = s /\ o.sent = <<q>>
       \/ /\ ~r.busy /\ o.run.busy /\ r.latest # None /\ o.run.latest = None
          /\ \E q \in RequestOf : /\ q.op = "save" /\ q.session = s /\ q.sample = r.latest
                                  /\ o.sent = <<q>>

\* A failure leaves a run its authority.
LEMMA FailedAuthority ==
    ASSUME NEW r \in RunOf
    PROVE  Failed(r).epoch = r.epoch /\ Failed(r).run = r.run
BY DEF Failed, RunOf

\* Nothing is sent, or the worker refuses it.
LEMMA KeptMoves ==
    ASSUME NEW s, NEW r \in RunOf
    PROVE  Moves(s, r, Kept(r)) /\ Moves(s, r, Refused(r))
BY DEF Moves, Kept, Refused

\* send_latest_checkpoint sends what waits, or keeps it.
LEMMA SendLatestMoves ==
    ASSUME NEW s \in Sessions, NEW r \in RunOf, NEW o \in SendLatest(s, r)
    PROVE  Moves(s, r, o)
<1>1. CASE o = Kept(r)
    BY <1>1, KeptMoves
<1>2. CASE o = Refused(Failed(r))
    BY <1>2, FailedRun, FailedAuthority DEF Moves, Refused
<1>3. CASE /\ ~r.busy /\ r.latest # None
           /\ o = Sent([r EXCEPT !.latest = None],
                       [op |-> "save", session |-> s, sample |-> r.latest])
  <2> DEFINE q == [op |-> "save", session |-> s, sample |-> r.latest]
  <2>1. q \in RequestOf /\ q.op = "save" /\ q.session = s /\ q.sample = r.latest
    BY <1>3, RequestMade DEF RunOf
  <2>2. /\ o.sent = <<q>> /\ o.run \in RunOf /\ o.run.epoch = r.epoch
        /\ o.run.run = r.run /\ o.run.busy /\ o.run.latest = None
    BY <1>3 DEF Sent, RunOf
  <2> HIDE DEF q
  <2> QED
    BY <1>3, <2>1, <2>2 DEF Moves
<1> QED
    BY <1>1, <1>2, <1>3 DEF SendLatest

\* player_progress_ready asks for the new run and leaves what waits.
LEMMA ProgressReadyMoves ==
    ASSUME NEW s \in Sessions, NEW r \in RunOf, NEW ready \in ReadyOf,
           NEW o \in ProgressReady(s, r, ready)
    PROVE  Moves(s, r, o)
<1>1. CASE o = Kept(r) \/ o = Refused(r)
    BY <1>1, KeptMoves
<1>2. CASE o = Kept([r EXCEPT !.ready = ready])
    BY <1>2 DEF Moves, Kept, RunOf
<1>3. CASE ~r.busy /\ o = Sent(r, [op |-> "begin", session |-> s, epoch |-> ready.epoch,
                                   over |-> ready.over])
  <2> DEFINE q == [op |-> "begin", session |-> s, epoch |-> ready.epoch, over |-> ready.over]
  <2>1. q \in RequestOf /\ q.op = "begin" /\ q.session = s
    BY RequestMade DEF ReadyOf
  <2>2. /\ o.sent = <<q>> /\ o.run \in RunOf /\ o.run.epoch = r.epoch
        /\ o.run.run = r.run /\ o.run.busy /\ o.run.latest = r.latest
    BY <1>3 DEF Sent, RunOf
  <2> HIDE DEF q
  <2> QED
    BY <1>3, <2>1, <2>2 DEF Moves
<1> QED
    BY <1>1, <1>2, <1>3 DEF ProgressReady

\* Whatever was pending, one of the two submissions is made.
LEMMA PendingMoves ==
    ASSUME NEW s \in Sessions, NEW r \in RunOf, NEW otherwise,
           NEW o \in PendingReadyElse(s, r, otherwise),
           otherwise = SendLatest(s, r) \/ otherwise = {Kept(r)}
    PROVE  Moves(s, r, o)
<1>1. CASE r.ready = None
  <2>1. o \in SendLatest(s, r) \/ o = Kept(r)
    BY <1>1 DEF PendingReadyElse
  <2> QED
    BY <2>1, SendLatestMoves, KeptMoves
<1>2. CASE r.ready # None
  <2> DEFINE p == [r EXCEPT !.ready = None]
             ready == r.ready
  <2>1. /\ p \in RunOf /\ p.busy = r.busy /\ p.latest = r.latest
        /\ p.epoch = r.epoch /\ p.run = r.run /\ ready \in ReadyOf
    BY <1>2 DEF RunOf
  <2>2. o \in ProgressReady(s, p, ready)
    BY <1>2 DEF PendingReadyElse
  <2> HIDE DEF p, ready
  <2>3. Moves(s, p, o)
    BY <2>1, <2>2, ProgressReadyMoves
  <2> QED
    BY <2>1, <2>3 DEF Moves
<1> QED
    BY <1>1, <1>2

\* What a submission sends travels, and what it leaves still waits.
LEMMA MovesDeliver ==
    ASSUME NEW s \in Sessions, NEW r \in RunOf, NEW n \in Nat, NEW a, NEW W,
           Delivers(s, r, n, a, W), NEW o, Moves(s, r, o), r.busy \/ W = {}
    PROVE  \/ o.sent = <<>> /\ Delivers(s, o.run, n, a, W)
           \/ /\ ~r.busy
              /\ \E q \in RequestOf : /\ q.session = s /\ o.sent = <<q>>
                                      /\ Delivers(s, o.run, n, a, W \cup {Way(q, "queued")})
<1>1. CASE o.sent = <<>> /\ o.run.busy = r.busy /\ o.run.latest = r.latest
  <2>1. Delivers(s, o.run, n, a, W)
    <3>1. o.run.epoch = r.epoch /\ o.run.run = r.run
      BY DEF Moves
    <3>2. \A w \in W : Saving(w) => Travels(s, w, o.run, n, a)
      BY <1>1, <3>1 DEF Delivers, Travels, Mine
    <3> QED
      BY <1>1, <3>1, <3>2 DEF Delivers, Mine
  <2> QED
    BY <1>1, <2>1
<1>2. CASE /\ ~r.busy /\ o.run.busy /\ o.run.latest = r.latest
           /\ \E q \in RequestOf : q.op = "begin" /\ q.session = s /\ o.sent = <<q>>
  <2> PICK q \in RequestOf : q.op = "begin" /\ q.session = s /\ o.sent = <<q>>
    BY <1>2
  <2> PICK w : w = Way(q, "queued")
    OBVIOUS
  <2>1. ~Saving(w) /\ W = {}
    BY <1>2, WayFields DEF Saving
  <2>2. o.run.epoch = r.epoch /\ o.run.run = r.run
    BY DEF Moves
  <2>3. Delivers(s, o.run, n, a, {w})
    BY <1>2, <2>1, <2>2 DEF Delivers, Mine
  <2> QED
    BY <1>2, <2>1, <2>3
<1>3. CASE /\ ~r.busy /\ o.run.busy /\ r.latest # None /\ o.run.latest = None
           /\ \E q \in RequestOf : /\ q.op = "save" /\ q.session = s /\ q.sample = r.latest
                                   /\ o.sent = <<q>>
  <2> PICK q \in RequestOf : /\ q.op = "save" /\ q.session = s /\ q.sample = r.latest
                             /\ o.sent = <<q>>
    BY <1>3
  <2> PICK w : w = Way(q, "queued")
    OBVIOUS
  <2>1. Saving(w) /\ w.request.sample = r.latest /\ w.result = "queued" /\ W = {}
    BY <1>3, WayFields DEF Saving
  <2>2. o.run.epoch = r.epoch /\ o.run.run = r.run
    BY DEF Moves
  <2>3. Travels(s, w, o.run, n, a)
    BY <1>3, <2>1, <2>2 DEF Delivers, Travels, Mine
  <2>4. Delivers(s, o.run, n, a, {w})
    BY <1>3, <2>1, <2>2, <2>3 DEF Delivers
  <2> QED
    BY <1>3, <2>1, <2>4
<1> QED
    BY <1>1, <1>2, <1>3 DEF Moves

\* What a window takes later does not matter to what it took.
LEMMA DeliversOn ==
    ASSUME NEW s, NEW r, NEW u, NEW n \in Nat, NEW m \in Nat, n <= m, NEW a, NEW W,
           Delivers(s, r, n, a, W),
           u.epoch = r.epoch, u.run = r.run, u.busy = r.busy, u.latest = r.latest
    PROVE  Delivers(s, u, m, a, W)
<1>1. \A x : Mine(x, r, n) => Mine(x, u, m)
    BY DEF Mine, SampleOf
<1>2. \A w \in W : Saving(w) => Travels(s, w, u, m, a)
    BY <1>1 DEF Delivers, Travels
<1> QED
    BY <1>1, <1>2 DEF Delivers

\* A checkpoint that is accepted waits behind everything its window took before.
LEMMA DeliversNew ==
    ASSUME NEW s, NEW r, NEW u, NEW n \in Nat, NEW a, NEW W,
           Delivers(s, r, n, a, W), NEW x \in SampleOf,
           u.epoch = r.epoch, u.run = r.run, u.busy = r.busy, u.latest = x,
           x.epoch = r.epoch, x.run = r.run, x.run # 0, x.seq = n + 1,
           db.checkpoint # None /\ db.checkpoint.by = s =>
              db.checkpoint.seq \in Nat /\ db.checkpoint.seq <= n
    PROVE  Delivers(s, u, n + 1, x, W)
<1>1. Mine(x, u, n + 1) /\ Unsaved(s, x)
    BY DEF Mine, Unsaved
<1>2. \A w \in W : Saving(w) => Travels(s, w, u, n + 1, x)
  <2> TAKE w \in W
  <2> HAVE Saving(w)
  <2>1. Travels(s, w, r, n, a)
    BY DEF Delivers
  <2>2. Mine(w.request.sample, u, n + 1) /\ w.request.sample.seq < x.seq
    BY <2>1 DEF Travels, Mine, SampleOf
  <2> QED
    BY <2>1, <2>2 DEF Travels
<1> QED
    BY <1>1, <1>2 DEF Delivers

-----------------------------------------------------------------------------
(* A step of one session                                                     *)

\* Delivery rests on the record and on the session alone.
LEMMA DeliversStays ==
    ASSUME UNCHANGED db, NEW s, NEW r, NEW n, NEW a, NEW W, Delivers(s, r, n, a, W)
    PROVE  Delivers(s, r, n, a, W)'
<1>1. \A w \in W : Saving(w) => Travels(s, w, r, n, a)'
    BY DEF Delivers, Travels, Mine, Unsaved, Current, Saving
<1> QED
    BY <1>1 DEF Delivers, Mine, Unsaved, Current, Saving

\* Storing a submission of session s, from what is left of its request.
LEMMA SubmissionDelivers ==
    ASSUME FenceInv, NEW s \in Sessions, UNCHANGED db, NEW r \in RunOf, NEW o,
           Moves(s, r, o), NEW windows \in [Sessions -> WindowOf], Settled(s, o, windows),
           NEW W, \/ acks' = acks /\ W = Ways(s) /\ (r.busy \/ Ways(s) = {})
                  \/ Answers(s) /\ W = {},
           Delivers(s, r, windows[s].seq, accepted'[s], W)
    PROVE  /\ Delivery(s)' /\ player'[s].seq = windows[s].seq /\ run'[s].run = r.run
           /\ player'[s].phase = windows[s].phase
           /\ \A z \in Sessions \ {s} : Ways(z)' = Ways(z)
<1>1. /\ player \in [Sessions -> WindowOf] /\ run \in [Sessions -> RunOf \cup {None}]
      /\ queue \in Seq(RequestOf) /\ acks \in Seq(AnswerOf)
    BY Typed DEF FenceInv
<1>2. run'[s] = o.run /\ run'[s].run = r.run
    BY <1>1 DEF Settled, Moves
<1>3. player'[s].seq = windows[s].seq /\ player'[s].phase = windows[s].phase
  <2>1. player'[s] = windows[s] \/ player'[s] = Noticed(windows[s], TRUE)
    BY DEF Settled
  <2> QED
    BY <2>1, NoticedTyped
<1>4. /\ o.sent = <<>> => queue' = queue
      /\ \A q \in RequestOf : o.sent = <<q>> => queue' = Append(queue, q)
    BY <1>1, ConcatEmptySeq, AppendIsConcat DEF Settled
<1>5. /\ Queues(s) \cup Unread(s)' = W /\ (r.busy \/ W = {})
      /\ \A z \in Sessions \ {s} : Unread(z)' = Unread(z)
  <2>1. CASE acks' = acks /\ W = Ways(s) /\ (r.busy \/ Ways(s) = {})
    BY <2>1 DEF Ways, Unread
  <2>2. CASE Answers(s) /\ W = {}
    BY <2>2, UnreadTaken
  <2> QED
    BY <2>1, <2>2
<1> PICK n \in Nat : n = windows[s].seq
    BY DEF WindowOf
<1> PICK a : a = accepted'[s]
    OBVIOUS
<1>6. CASE o.sent = <<>> /\ Delivers(s, o.run, n, a, W)
  <2>1. queue' = queue
    BY <1>4, <1>6
  <2>2. \A z : Queues(z)' = Queues(z)
    BY <2>1 DEF Queues
  <2>3. Ways(s)' = W /\ \A z \in Sessions \ {s} : Ways(z)' = Ways(z)
    BY <1>5, <2>2 DEF Ways
  <2>4. Delivers(s, o.run, n, a, W)'
    BY <1>6, DeliversStays
  <2> QED
    BY <1>2, <1>3, <2>3, <2>4 DEF Delivery
<1>7. CASE \E q \in RequestOf : /\ q.session = s /\ o.sent = <<q>>
                               /\ Delivers(s, o.run, n, a, W \cup {Way(q, "queued")})
  <2> PICK q \in RequestOf : /\ q.session = s /\ o.sent = <<q>>
                             /\ Delivers(s, o.run, n, a, W \cup {Way(q, "queued")})
    BY <1>7
  <2>1. queue' = Append(queue, q)
    BY <1>4
  <2>2. /\ Queues(s)' = Queues(s) \cup {Way(q, "queued")}
        /\ \A z \in Sessions \ {s} : Queues(z)' = Queues(z)
    BY <1>1, <2>1, QueuesSent
  <2> PICK V : V = W \cup {Way(q, "queued")}
    OBVIOUS
  <2>3. Ways(s)' = V /\ \A z \in Sessions \ {s} : Ways(z)' = Ways(z)
    BY <1>5, <2>2 DEF Ways
  <2>4. Delivers(s, o.run, n, a, V)'
    BY DeliversStays
  <2> QED
    BY <1>2, <1>3, <2>3, <2>4 DEF Delivery
<1> QED
    BY <1>5, <1>6, <1>7, MovesDeliver

\* Nothing changes for a session whose part of the state stays.
LEMMA OthersDeliver ==
    ASSUME NEW o \in Sessions, UNCHANGED <<db, owner>>, Delivery(o), Acceptance(o),
           Ways(o)' = Ways(o), run'[o] = run[o], accepted'[o] = accepted[o],
           player'[o].seq = player[o].seq, player'[o].phase = player[o].phase
    PROVE  Delivery(o)' /\ Acceptance(o)'
<1>1. Acceptance(o)'
    BY DEF Acceptance, Fenced
<1>2. Delivery(o)'
  <2> PICK r, n, a, W : r = run[o] /\ n = player[o].seq /\ a = accepted[o] /\ W = Ways(o)
    OBVIOUS
  <2>1. r # None => Delivers(o, r, n, a, W)
    BY DEF Delivery
  <2>2. r # None => Delivers(o, r, n, a, W)'
    BY <2>1, DeliversStays
  <2> QED
    BY <2>2 DEF Delivery
<1> QED
    BY <1>1, <1>2

\* What the session of a step knows of runs, it knew or was told by the oldest answer.
LEMMA LaterStays ==
    ASSUME FenceInv, DeliverInv, UNCHANGED db,
           acks' = acks \/ (acks # <<>> /\ acks' = Tail(acks)),
           \A o \in Sessions : run'[o] # None =>
              \/ run[o] # None /\ run'[o].run = run[o].run
              \/ acks # <<>> /\ acks' = Tail(acks) /\ run'[o].run = Head(acks).run,
           \A o \in Sessions : accepted'[o] # None =>
              \/ accepted[o] # None /\ accepted'[o].run = accepted[o].run
              \/ run[o] # None /\ accepted'[o].run = run[o].run
    PROVE  BeginsAreLater' /\ SavesAgree'
<1>1. acks \in Seq(AnswerOf)
    BY Typed DEF FenceInv
<1>2. CASE acks' = acks /\ ~(acks # <<>> /\ acks' = Tail(acks))
  <2>1. \A i \in DOMAIN acks : Begins(acks[i]) => Later(i)'
    BY <1>2 DEF DeliverInv, BeginsAreLater, Later
  <2> QED
    BY <1>2, <2>1 DEF DeliverInv, BeginsAreLater, SavesAgree, Begins
<1>3. CASE acks # <<>> /\ acks' = Tail(acks)
  <2>1. /\ \A i \in DOMAIN acks' : i + 1 \in DOMAIN acks /\ acks'[i] = acks[i + 1]
        /\ Head(acks) = acks[1] /\ 1 \in DOMAIN acks /\ acks' \in Seq(AnswerOf)
    BY <1>1, <1>3, TailIndices
  <2>2. \A i \in DOMAIN acks' : i \in Nat \ {0}
    <3>1. acks' \in Seq(AnswerOf)
      BY <2>1
    <3> QED
      BY <3>1, LenProperties
  <2>3. ASSUME NEW i \in DOMAIN acks', Begins(acks'[i]) PROVE Later(i)'
    <3>1. Later(i + 1) /\ acks'[i] = acks[i + 1]
      BY <2>1, <2>3 DEF DeliverInv, BeginsAreLater
    <3>2. acks[1].run < acks'[i].run
      BY <2>1, <2>2, <3>1 DEF Later
    <3>3. \A j \in DOMAIN acks' : j < i => acks'[j].run < acks'[i].run
      <4> TAKE j \in DOMAIN acks'
      <4> HAVE j < i
      <4>1. j + 1 < i + 1
        BY <2>2
      <4> QED
        BY <2>1, <3>1, <4>1 DEF Later
    <3>4. \A o \in Sessions : run'[o] # None => run'[o].run < acks'[i].run
      BY <2>1, <3>1, <3>2 DEF Later
    <3>5. \A o \in Sessions : accepted'[o] # None => accepted'[o].run < acks'[i].run
      BY <3>1 DEF Later
    <3>6. db'.run = 0 \/ acks'[i].run <= db'.run
      BY <3>1 DEF Later
    <3> QED
      BY <3>3, <3>4, <3>5, <3>6 DEF Later
  <2>4. BeginsAreLater'
    BY <2>3 DEF BeginsAreLater, Begins
  <2>5. SavesAgree'
    BY <2>1 DEF DeliverInv, SavesAgree
  <2> QED
    BY <2>4, <2>5
<1> QED
    BY <1>2, <1>3

\* A step of session s, the others standing still.
LEMMA OneDelivers ==
    ASSUME FenceInv, DeliverInv, NEW s \in Sessions, UNCHANGED <<db, owner>>,
           player \in [Sessions -> WindowOf], player'[s] \in WindowOf,
           acks' = acks \/ (acks # <<>> /\ acks' = Tail(acks)),
           \A o \in Sessions \ {s} :
              /\ Ways(o)' = Ways(o) /\ run'[o] = run[o] /\ player'[o] = player[o]
              /\ accepted'[o] = accepted[o],
           run'[s] # None =>
              \/ run[s] # None /\ run'[s].run = run[s].run
              \/ acks # <<>> /\ acks' = Tail(acks) /\ run'[s].run = Head(acks).run,
           \/ /\ accepted'[s] = accepted[s]
              /\ player'[s].phase \in Early => player[s].phase \in Early
           \/ run[s] # None /\ accepted'[s].run = run[s].run /\ Acceptance(s)',
           player[s].seq <= player'[s].seq, quit' # "saved", Delivery(s)'
    PROVE  DeliverInv'
<1>1. BeginsAreLater' /\ SavesAgree'
    BY LaterStays
<1>2. \A o \in Sessions \ {s} : Delivery(o)' /\ Acceptance(o)'
    BY OthersDeliver DEF DeliverInv
<1>3. Acceptance(s)'
  <2>1. CASE /\ accepted'[s] = accepted[s]
             /\ player'[s].phase \in Early => player[s].phase \in Early
    <3>1. Acceptance(s) /\ accepted \in [Sessions -> SampleOf \cup {None}]
      BY DEF DeliverInv, FenceInv, TypeOK
    <3>2. accepted[s] # None => accepted[s].seq <= player'[s].seq
      BY <3>1 DEF Acceptance, SampleOf, WindowOf
    <3> QED
      BY <2>1, <3>1, <3>2 DEF Acceptance, Fenced
  <2> QED
    BY <2>1
<1>4. Recorded'
  <2>1. db.checkpoint # None => db.checkpoint \in SampleOf
    BY DEF FenceInv, TypeOK
  <2>2. \A o \in Sessions : /\ player[o].seq \in Nat /\ player'[o].seq \in Nat
                            /\ player[o].seq <= player'[o].seq
    <3> TAKE o \in Sessions
    <3>1. \A n \in Nat : n <= n
      OBVIOUS
    <3>2. player[o].seq \in Nat
      BY DEF WindowOf
    <3>3. CASE o = s
      BY <3>2, <3>3 DEF WindowOf
    <3>4. CASE o # s
      BY <3>1, <3>2, <3>4
    <3> QED
      BY <3>3, <3>4
  <2>3. db.checkpoint # None => db.checkpoint.seq <= player'[db.checkpoint.by].seq
    <3> SUFFICES ASSUME db.checkpoint # None
                 PROVE  db.checkpoint.seq <= player'[db.checkpoint.by].seq
      OBVIOUS
    <3>1. db.checkpoint.by \in Sessions /\ db.checkpoint.seq \in Nat
      BY <2>1 DEF SampleOf
    <3>2. db.checkpoint.seq <= player[db.checkpoint.by].seq
      BY DEF DeliverInv, Recorded
    <3> QED
      BY <2>2, <3>1, <3>2
  <2> QED
    BY <2>3 DEF DeliverInv, Recorded, Fenced
<1>5. FlushIsDone'
    BY DEF FlushIsDone
<1> QED
    BY <1>1, <1>2, <1>3, <1>4, <1>5 DEF DeliverInv

\* The types after a step.
LEMMA TypedNext ==
    ASSUME FenceInv'
    PROVE  /\ queue' \in Seq(RequestOf) /\ acks' \in Seq(AnswerOf)
           /\ run' \in [Sessions -> RunOf \cup {None}] /\ player' \in [Sessions -> WindowOf]
           /\ accepted' \in [Sessions -> SampleOf \cup {None}]
           /\ db'.epoch \in Nat /\ db'.run \in Nat
    BY DEF FenceInv, TypeOK, WindowOf

\* A submission of session s, whose window becomes w and whose newest checkpoint is
\* the one accepted now or the one before.
LEMMA SubmissionKeeps ==
    ASSUME FenceInv, FenceInv', DeliverInv, quit' # "saved", NEW s \in Sessions,
           UNCHANGED <<db, owner>>, run[s] # None,
           NEW r \in RunOf, NEW o, Moves(s, r, o), NEW w \in WindowOf,
           Settled(s, o, [player EXCEPT ![s] = w]), w.phase \notin Early,
           player[s].seq <= w.seq,
           \A z \in Sessions \ {s} : accepted'[z] = accepted[z],
           \/ /\ acks' = acks /\ r.busy = run[s].busy /\ r.run = run[s].run
              /\ Delivers(s, r, w.seq, accepted'[s], Ways(s))
           \/ /\ Answers(s) /\ r.run \in {run[s].run, Head(acks).run}
              /\ Delivers(s, r, w.seq, accepted'[s], {}),
           \/ accepted'[s] = accepted[s]
           \/ /\ accepted'[s].run = run[s].run /\ accepted'[s].run # 0
              /\ Fenced(accepted'[s], s) /\ accepted'[s].seq <= w.seq
    PROVE  DeliverInv'
<1> PICK windows : windows = [player EXCEPT ![s] = w]
    OBVIOUS
<1>1. /\ player \in [Sessions -> WindowOf] /\ player' \in [Sessions -> WindowOf]
      /\ run \in [Sessions -> RunOf \cup {None}] /\ run' \in [Sessions -> RunOf \cup {None}]
    BY Typed, TypedNext DEF FenceInv
<1>2. /\ windows \in [Sessions -> WindowOf] /\ windows[s] = w /\ Settled(s, o, windows)
      /\ \A z \in Sessions \ {s} : windows[z] = player[z]
    BY <1>1
<1>3. ~run[s].busy => Ways(s) = {}
    BY IdleIsFree, FreeHasNone
<1>4. /\ Delivery(s)' /\ player'[s].seq = w.seq /\ run'[s].run = r.run
      /\ player'[s].phase = w.phase
      /\ \A z \in Sessions \ {s} : Ways(z)' = Ways(z)
  <2>1. CASE /\ acks' = acks /\ r.busy = run[s].busy /\ r.run = run[s].run
             /\ Delivers(s, r, w.seq, accepted'[s], Ways(s))
    <3> PICK W : W = Ways(s)
      OBVIOUS
    <3>1. acks' = acks /\ W = Ways(s) /\ (r.busy \/ Ways(s) = {})
      BY <1>3, <2>1
    <3>2. Delivers(s, r, windows[s].seq, accepted'[s], W)
      BY <1>2, <2>1
    <3>3. /\ Delivery(s)' /\ player'[s].seq = windows[s].seq /\ run'[s].run = r.run
          /\ player'[s].phase = windows[s].phase
          /\ \A z \in Sessions \ {s} : Ways(z)' = Ways(z)
      BY ONLY FenceInv, s \in Sessions, UNCHANGED <<db, owner>>, r \in RunOf, Moves(s, r, o),
         <1>2, <3>1, <3>2, SubmissionDelivers
    <3> QED
      BY <1>2, <3>3
  <2>2. CASE Answers(s) /\ Delivers(s, r, w.seq, accepted'[s], {})
    <3>1. Delivers(s, r, windows[s].seq, accepted'[s], {})
      BY <1>2, <2>2
    <3>2. /\ Delivery(s)' /\ player'[s].seq = windows[s].seq /\ run'[s].run = r.run
          /\ player'[s].phase = windows[s].phase
          /\ \A z \in Sessions \ {s} : Ways(z)' = Ways(z)
      BY ONLY FenceInv, s \in Sessions, UNCHANGED <<db, owner>>, r \in RunOf, Moves(s, r, o),
         <1>2, <2>2, <3>1, SubmissionDelivers
    <3> QED
      BY <1>2, <3>2
  <2> QED
    BY <2>1, <2>2
<1>5. \A z \in Sessions \ {s} : run'[z] = run[z] /\ player'[z] = player[z]
    BY <1>1, <1>2 DEF Settled
<1>6. acks' = acks \/ (acks # <<>> /\ acks' = Tail(acks))
    BY DEF Answers
<1>7. \/ run[s] # None /\ run'[s].run = run[s].run
      \/ acks # <<>> /\ acks' = Tail(acks) /\ run'[s].run = Head(acks).run
    BY <1>4 DEF Answers
<1>8. \/ accepted'[s] = accepted[s] /\ (player'[s].phase \in Early => player[s].phase \in Early)
      \/ run[s] # None /\ accepted'[s].run = run[s].run /\ Acceptance(s)'
  <2>1. CASE accepted'[s] = accepted[s]
    BY <1>4, <2>1
  <2>2. CASE /\ accepted'[s].run = run[s].run /\ accepted'[s].run # 0
             /\ Fenced(accepted'[s], s) /\ accepted'[s].seq <= w.seq
    <3>1. Fenced(accepted[s], s)'
      BY <2>2 DEF Fenced
    <3> QED
      BY <1>4, <2>2, <3>1 DEF Acceptance
  <2> QED
    BY <2>1, <2>2
<1>9. player'[s] \in WindowOf /\ player[s].seq <= player'[s].seq
    BY <1>1, <1>4
<1> QED
    BY <1>1, <1>4, <1>5, <1>6, <1>7, <1>8, <1>9, OneDelivers

\* A step that changes only what a window holds besides its count of checkpoints.
LEMMA WindowDelivers ==
    ASSUME FenceInv, FenceInv', DeliverInv, quit' # "saved", NEW s \in Sessions,
           UNCHANGED <<db, queue, acks, run, faults, history>>,
           NEW w, player' = [player EXCEPT ![s] = w], w.seq = player[s].seq,
           w.phase \in Early => player[s].phase \in Early
    PROVE  DeliverInv'
<1>1. player \in [Sessions -> WindowOf] /\ player' \in [Sessions -> WindowOf]
    BY Typed, TypedNext DEF FenceInv
<1>2. player'[s] = w /\ \A z \in Sessions \ {s} : player'[z] = player[z]
    BY <1>1
<1>3. \A z \in Sessions : Ways(z)' = Ways(z)
    BY DEF Ways, Queues, Unread
<1>4. UNCHANGED <<owner, accepted>>
    BY DEF history
<1>5. Delivery(s)'
  <2> PICK r, n, a, W : r = run[s] /\ n = player[s].seq /\ a = accepted[s] /\ W = Ways(s)
    OBVIOUS
  <2>1. r # None => Delivers(s, r, n, a, W)
    BY DEF DeliverInv, Delivery
  <2>2. r # None => Delivers(s, r, n, a, W)'
    BY <2>1, DeliversStays
  <2> QED
    BY <1>2, <1>3, <1>4, <2>2 DEF Delivery
<1>6. player'[s] \in WindowOf /\ player[s].seq <= player'[s].seq
    BY <1>1, <1>2 DEF WindowOf
<1> QED
    BY <1>1, <1>2, <1>3, <1>4, <1>5, <1>6, OneDelivers

\* A window that waits for its run keeps what it delivered.
LEMMA ReadyDelivers ==
    ASSUME FenceInv, FenceInv', DeliverInv, quit' # "saved", NEW s \in Sessions,
           player[s].phase \in {"start", "ready", "reset"}, NEW w \in WindowOf,
           w.phase \notin Early, w.seq = player[s].seq, NEW ready \in ReadyOf,
           NEW o \in ProgressReady(s, run[s], ready),
           Settled(s, o, [player EXCEPT ![s] = w]), UNCHANGED <<db, acks, history>>
    PROVE  DeliverInv'
<1>1. run[s] # None /\ run[s] \in RunOf /\ player[s] \in WindowOf
    BY KnownRun DEF Early
<1>2. Moves(s, run[s], o)
    BY <1>1, ProgressReadyMoves
<1>3. Delivers(s, run[s], w.seq, accepted'[s], Ways(s))
    BY <1>1 DEF DeliverInv, Delivery, history
<1>4. player[s].seq <= w.seq
    BY <1>1 DEF WindowOf
<1>5. UNCHANGED <<owner, accepted>>
    BY DEF history
<1> QED
    BY <1>1, <1>2, <1>3, <1>4, <1>5, SubmissionKeeps

\* Preparation ends.
LEMMA BecomesReadyDelivers ==
    ASSUME FenceInv, FenceInv', DeliverInv, quit' # "saved", NEW s \in Sessions,
           NEW over \in BOOLEAN, BecomesReady(s, over)
    PROVE  DeliverInv'
<1> DEFINE phase == IF over THEN "reset" ELSE "ready"
           w == [player[s] EXCEPT !.phase = phase, !.over = over]
           ready == [epoch |-> player[s].epoch, over |-> over]
<1>1. player \in [Sessions -> WindowOf] /\ player[s].phase = "start"
    BY Typed DEF FenceInv, BecomesReady
<1>2. phase \in {"ready", "reset"}
    OBVIOUS
<1>3. [player EXCEPT ![s].phase = phase, ![s].over = over] = [player EXCEPT ![s] = w]
    BY <1>1 DEF WindowOf
<1>4. PICK o \in ProgressReady(s, run[s], ready) : Settled(s, o, [player EXCEPT ![s] = w])
    BY <1>3 DEF BecomesReady
<1> HIDE DEF phase
<1>5. w \in WindowOf /\ w.phase = phase /\ w.seq = player[s].seq
    BY <1>1, <1>2 DEF WindowOf, Phases
<1>6. ready \in ReadyOf
    BY <1>1 DEF ReadyOf, WindowOf
<1>7. UNCHANGED <<db, acks, history>>
    BY DEF BecomesReady
<1>8. w.phase \notin Early
    BY <1>2, <1>5 DEF Early
<1> HIDE DEF w, ready
<1> QED
    BY <1>1, <1>4, <1>5, <1>6, <1>7, <1>8, ReadyDelivers

\* The user retries saving.
LEMMA RetryProgressReadyDelivers ==
    ASSUME FenceInv, FenceInv', DeliverInv, quit' # "saved", NEW s \in Sessions,
           RetryProgressReady(s)
    PROVE  DeliverInv'
<1> DEFINE w == [player[s] EXCEPT !.notice = FALSE]
           ready == [epoch |-> player[s].epoch, over |-> player[s].phase = "reset"]
<1>1. player \in [Sessions -> WindowOf] /\ player[s].phase \in {"ready", "reset"}
    BY Typed DEF FenceInv, RetryProgressReady, NotSaving
<1>2. [player EXCEPT ![s].notice = FALSE] = [player EXCEPT ![s] = w]
    BY <1>1 DEF WindowOf
<1>3. PICK o \in ProgressReady(s, run[s], ready) : Settled(s, o, [player EXCEPT ![s] = w])
    BY <1>2 DEF RetryProgressReady
<1>4. w \in WindowOf /\ w.phase = player[s].phase /\ w.seq = player[s].seq
    BY <1>1 DEF WindowOf
<1>5. ready \in ReadyOf
    BY <1>1 DEF ReadyOf, WindowOf
<1>6. UNCHANGED <<db, acks, history>>
    BY DEF RetryProgressReady
<1>7. w.phase \notin Early
    BY <1>1, <1>4 DEF Early
<1> HIDE DEF w, ready
<1> QED
    BY <1>1, <1>3, <1>4, <1>5, <1>6, <1>7, ReadyDelivers

\* The timer sends what waits.
LEMMA RetryDueDelivers ==
    ASSUME FenceInv, FenceInv', DeliverInv, quit' # "saved", NEW s \in Sessions, RetryDue(s)
    PROVE  DeliverInv'
<1> DEFINE r == [run[s] EXCEPT !.retry = "due"]
<1>1. /\ run[s] # None /\ run[s] \in RunOf /\ player[s] \in WindowOf
      /\ player[s].phase \notin Early /\ player \in [Sessions -> WindowOf]
    BY KnownRun, Typed DEF RetryDue, FenceInv
<1>2. /\ r \in RunOf /\ r.busy = run[s].busy /\ r.latest = run[s].latest
      /\ r.epoch = run[s].epoch /\ r.run = run[s].run
    BY <1>1 DEF RunOf
<1>3. PICK o \in SendLatest(s, r) : Settled(s, o, player)
    BY DEF RetryDue
<1> HIDE DEF r
<1>4. Moves(s, r, o)
    BY <1>2, <1>3, SendLatestMoves
<1>5. UNCHANGED <<db, acks, owner, accepted>>
    BY DEF RetryDue, history
<1> PICK w : w = player[s]
    OBVIOUS
<1>6. w \in WindowOf /\ w.seq \in Nat /\ w.seq <= w.seq /\ w.phase \notin Early
    BY <1>1 DEF WindowOf
<1>7. Delivers(s, r, w.seq, accepted'[s], Ways(s))
  <2>1. Delivers(s, run[s], w.seq, accepted[s], Ways(s))
    BY <1>1 DEF DeliverInv, Delivery
  <2> QED
    BY <1>2, <1>5, <1>6, <2>1, DeliversOn
<1>8. Settled(s, o, [player EXCEPT ![s] = w])
  <2>1. [player EXCEPT ![s] = w] = player
    BY <1>1
  <2> QED
    BY <1>3, <2>1
<1> QED
    BY <1>1, <1>2, <1>4, <1>5, <1>6, <1>7, <1>8, SubmissionKeeps

\* A run that is forgotten is accounted for no longer.
LEMMA ForgetDelivers ==
    ASSUME FenceInv, FenceInv', DeliverInv, quit' # "saved", NEW s \in Sessions, Forget(s)
    PROVE  DeliverInv'
<1>1. /\ player \in [Sessions -> WindowOf] /\ player'[s] \in WindowOf
      /\ run \in [Sessions -> RunOf \cup {None}]
    BY Typed, TypedNext DEF FenceInv
<1>2. /\ run'[s] = None /\ \A z \in Sessions \ {s} : run'[z] = run[z]
      /\ UNCHANGED <<db, queue, acks, player, owner, accepted>>
    BY <1>1 DEF Forget, history
<1>3. \A z \in Sessions : Ways(z)' = Ways(z)
    BY <1>2 DEF Ways, Queues, Unread
<1>4. Delivery(s)'
    BY <1>2 DEF Delivery
<1>5. player[s].seq <= player'[s].seq
    BY <1>1, <1>2 DEF WindowOf
<1> QED
    BY <1>1, <1>2, <1>3, <1>4, <1>5, OneDelivers

\* A read is no checkpoint, and its session has no run yet.
LEMMA OpenDelivers ==
    ASSUME FenceInv, FenceInv', DeliverInv, quit' # "saved", NEW s \in Sessions,
           OpenWithProgress(s)
    PROVE  DeliverInv'
<1> DEFINE q == [op |-> "read", session |-> s]
<1>1. /\ player \in [Sessions -> WindowOf] /\ player[s].phase = "none"
      /\ queue \in Seq(RequestOf) /\ player'[s] \in WindowOf
    BY Typed, TypedNext DEF FenceInv, OpenWithProgress
<1>2. run[s] = None
    BY <1>1 DEF FenceInv, GoodWindow, Early
<1>3. q \in RequestOf /\ q.session = s
    BY RequestMade
<1>4. /\ player'[s].phase = "opening" /\ player'[s].seq = player[s].seq
      /\ \A z \in Sessions \ {s} : player'[z] = player[z]
      /\ queue' = Append(queue, q) /\ UNCHANGED <<db, acks, run, owner, accepted>>
    BY <1>1 DEF OpenWithProgress, history, WindowOf
<1> HIDE DEF q
<1>5. \A z \in Sessions \ {s} : Ways(z)' = Ways(z)
  <2>1. \A z \in Sessions \ {s} : Queues(z)' = Queues(z)
    BY <1>1, <1>3, <1>4, QueuesSent
  <2> QED
    BY <1>4, <2>1 DEF Ways, Unread
<1>6. Delivery(s)'
    BY <1>2, <1>4 DEF Delivery
<1>7. player[s].seq <= player'[s].seq
    BY <1>1, <1>4 DEF WindowOf
<1>8. accepted'[s] = accepted[s] /\ (player'[s].phase \in Early => player[s].phase \in Early)
    BY <1>1, <1>4 DEF Early
<1> QED
    BY <1>1, <1>2, <1>4, <1>5, <1>6, <1>7, <1>8, OneDelivers

\* A window's last observation is accepted, or is of a run it has lost.
LEMMA DeliverDelivers ==
    ASSUME FenceInv, FenceInv', DeliverInv, quit' # "saved", NEW s \in Sessions,
           HasSample(s), NEW force \in BOOLEAN, NEW w \in WindowOf, w.phase \notin Early,
           w.seq = player[s].seq + 1, Deliver(s, force, w)
    PROVE  DeliverInv'
<1> DEFINE x == NextSample(s)
<1> PICK n : n = player[s].seq
    OBVIOUS
<1>1. /\ player[s].phase = "active" /\ player[s].auth /\ player[s].last # None
      /\ player[s] \in WindowOf /\ n \in Nat
      /\ accepted \in [Sessions -> SampleOf \cup {None}]
    BY Typed DEF FenceInv, HasSample, Sampling, TypeOK, WindowOf
<1>2. run[s] # None /\ run[s] \in RunOf /\ Fits(s, player[s])
    BY <1>1, KnownRun DEF Early
<1>3. x \in SampleOf /\ Fenced(x, s) /\ x.seq = n + 1 /\ x.run # 0
  <2>1. player[s].last \in [at : Nat, done : BOOLEAN]
    BY <1>1 DEF WindowOf
  <2>2. x \in SampleOf
    BY <1>1, <2>1 DEF NextSample, SampleOf, WindowOf
  <2>3. Fenced(x, s)
    BY <1>1, <1>2 DEF Fenced, Fits, NextSample
  <2>4. x.seq = n + 1 /\ x.run # 0
    BY <1>1, <1>2 DEF NextSample, Fits
  <2> QED
    BY <2>2, <2>3, <2>4
<1> HIDE DEF x
<1>4. PICK o \in Submitted(s, x, force) : Settled(s, o, [player EXCEPT ![s] = w])
    BY DEF Deliver, x
<1>5. /\ UNCHANGED <<db, acks, owner>>
      /\ accepted' = IF Accepts(s, x) THEN [accepted EXCEPT ![s] = x] ELSE accepted
    BY DEF Deliver, x
<1>6. Delivers(s, run[s], n, accepted[s], Ways(s))
    BY <1>2 DEF DeliverInv, Delivery
<1>7. n + 1 \in Nat /\ n <= n + 1 /\ w.seq = n + 1
    BY <1>1
<1>8. \A z \in Sessions \ {s} : accepted'[z] = accepted[z]
    BY <1>1, <1>5
<1>9. CASE ~Accepts(s, x)
  <2>1. run[s].seq \in Nat /\ x.seq \in Nat
    BY <1>2, <1>3 DEF RunOf, SampleOf
  <2>5. x.run # run[s].run \/ x.epoch # run[s].epoch \/ x.seq <= run[s].seq
    BY <1>2, <1>9, <2>1 DEF Accepts
  <2>6. Submitted(s, x, force) = {Kept(run[s])}
    BY <1>2, <2>5 DEF Submitted
  <2>7. o = Kept(run[s])
    BY <1>4, <2>6
  <2>2. Moves(s, run[s], o)
    BY <1>2, <2>7, KeptMoves
  <2>3. accepted' = accepted
    BY <1>5, <1>9
  <2>4. Delivers(s, run[s], w.seq, accepted'[s], Ways(s))
    BY <1>1, <1>6, <1>7, <2>3, DeliversOn
  <2> QED
    BY <1>1, <1>2, <1>4, <1>5, <1>7, <1>8, <2>2, <2>3, <2>4, SubmissionKeeps
<1>10. CASE Accepts(s, x)
  <2>1. /\ accepted'[s] = x /\ x.run = run[s].run /\ x.epoch = run[s].epoch
    BY <1>1, <1>5, <1>10 DEF Accepts
  <2>2. PICK r \in RunOf : /\ Moves(s, r, o) /\ r.busy = run[s].busy /\ r.latest = x
                           /\ r.epoch = run[s].epoch /\ r.run = run[s].run
    <3> DEFINE m == IF run[s].retries > MaxRetries THEN 0 ELSE run[s].retries
               t == IF force \/ run[s].retries > MaxRetries THEN "none" ELSE run[s].retry
    <3>1. m \in Nat /\ t \in {"none", "armed", "due"}
      BY <1>2 DEF RunOf
    <3>2. o \in SendLatest(s, [run[s] EXCEPT !.seq = x.seq, !.latest = x,
                                             !.retries = m, !.retry = t])
      BY <1>2, <1>3, <1>4, <1>10 DEF Submitted, Accepts, RunOf, SampleOf
    <3> HIDE DEF m, t
    <3> DEFINE r == [run[s] EXCEPT !.seq = x.seq, !.latest = x, !.retries = m, !.retry = t]
    <3>3. /\ r \in RunOf /\ r.busy = run[s].busy /\ r.latest = x
          /\ r.epoch = run[s].epoch /\ r.run = run[s].run
      BY <1>2, <1>3, <3>1 DEF RunOf, SampleOf
    <3>4. o \in SendLatest(s, r)
      BY <3>2
    <3> HIDE DEF r
    <3> QED
      BY <3>3, <3>4, SendLatestMoves
  <2>3. db.checkpoint # None /\ db.checkpoint.by = s =>
          db.checkpoint.seq \in Nat /\ db.checkpoint.seq <= n
    BY DEF DeliverInv, Recorded, FenceInv, TypeOK, SampleOf
  <2>4. Delivers(s, r, w.seq, accepted'[s], Ways(s))
    BY <1>1, <1>3, <1>6, <1>7, <2>1, <2>2, <2>3, DeliversNew
  <2>5. x.seq <= w.seq
    BY <1>1, <1>3, <1>7
  <2> QED
    BY <1>1, <1>2, <1>3, <1>4, <1>5, <1>7, <1>8, <2>1, <2>2, <2>4, <2>5, SubmissionKeeps
<1> QED
    BY <1>9, <1>10

\* A position is sampled while the window plays.
LEMMA SampleDelivers ==
    ASSUME FenceInv, FenceInv', DeliverInv, quit' # "saved", NEW s \in Sessions,
           NEW force \in BOOLEAN, Sample(s, force)
    PROVE  DeliverInv'
<1> DEFINE w == [player[s] EXCEPT !.seq = @ + 1]
<1>1. player[s] \in WindowOf /\ player[s].phase = "active" /\ HasSample(s)
    BY Typed DEF FenceInv, Sample, HasSample, Sampling
<1>2. w \in WindowOf /\ w.phase \notin Early /\ w.seq = player[s].seq + 1
    BY <1>1 DEF WindowOf, Early
<1>3. Deliver(s, force, w)
    BY DEF Sample
<1> HIDE DEF w
<1> QED
    BY <1>1, <1>2, <1>3, DeliverDelivers

\* flush_progress: a last sample is taken, or there is none.
LEMMA FlushDelivers ==
    ASSUME FenceInv, FenceInv', DeliverInv, quit' # "saved", NEW s \in Sessions,
           NEW w \in WindowOf, w.seq = player[s].seq,
           w.phase \in Early => player[s].phase \in Early, Flush(s, w)
    PROVE  DeliverInv'
<1>1. CASE HasSample(s) /\ Deliver(s, TRUE, [w EXCEPT !.seq = @ + 1])
  <2> DEFINE v == [w EXCEPT !.seq = @ + 1]
  <2>1. v \in WindowOf /\ v.phase = w.phase /\ v.seq = player[s].seq + 1
    BY DEF WindowOf
  <2>2. Deliver(s, TRUE, v) /\ HasSample(s)
    BY <1>1
  <2>3. player[s].phase = "active"
    BY <1>1 DEF HasSample, Sampling
  <2>4. w.phase \notin Early
    BY <2>3 DEF Early
  <2> HIDE DEF v
  <2> QED
    BY <2>1, <2>2, <2>4, DeliverDelivers
<1>2. CASE /\ player' = [player EXCEPT ![s] = w]
           /\ UNCHANGED <<db, queue, acks, run, faults, history>>
    BY <1>2, WindowDelivers
<1> QED
    BY <1>1, <1>2 DEF Flush

\* The remaining actions of a window's user.
LEMMA UserDelivers ==
    ASSUME FenceInv, FenceInv', DeliverInv, quit' # "saved", NEW s \in Sessions, User(s)
    PROVE  DeliverInv'
<1>1. player \in [Sessions -> WindowOf] /\ player[s] \in WindowOf
    BY Typed DEF FenceInv
<1>2. CASE RetryStartup(s)
  <2> DEFINE w == [player[s] EXCEPT !.phase = "start", !.auth = FALSE, !.last = None]
  <2>1. w.seq = player[s].seq /\ w.phase \notin Early
    BY <1>1 DEF WindowOf, Early
  <2>2. player' = [player EXCEPT ![s] = w]
    BY <1>1, <1>2 DEF RetryStartup
  <2> HIDE DEF w
  <2> QED
    BY <1>2, <2>1, <2>2, WindowDelivers DEF RetryStartup
<1>3. CASE PlayWithoutSaving(s)
  <2> DEFINE w == [player[s] EXCEPT !.phase = "active", !.auth = FALSE]
  <2>1. w.seq = player[s].seq /\ w.phase \notin Early
    BY <1>1 DEF WindowOf, Early
  <2>2. player' = [player EXCEPT ![s] = w]
    BY <1>1, <1>3 DEF PlayWithoutSaving
  <2> HIDE DEF w
  <2> QED
    BY <1>3, <2>1, <2>2, WindowDelivers DEF PlayWithoutSaving
<1>4. CASE Replay(s)
  <2> DEFINE w == [player[s] EXCEPT !.phase = "start", !.auth = FALSE, !.last = None,
                                    !.over = TRUE]
  <2>1. w \in WindowOf /\ w.seq = player[s].seq /\ w.phase \notin Early
    BY <1>1 DEF WindowOf, Early, Phases
  <2>2. Flush(s, w)
    BY <1>4 DEF Replay
  <2> HIDE DEF w
  <2> QED
    BY <2>1, <2>2, FlushDelivers
<1>5. CASE Close(s)
  <2> DEFINE w == [player[s] EXCEPT !.phase = "closed"]
  <2>1. w \in WindowOf /\ w.seq = player[s].seq /\ w.phase \notin Early
    BY <1>1 DEF WindowOf, Early, Phases
  <2>2. Flush(s, w)
    BY <1>5 DEF Close
  <2> HIDE DEF w
  <2> QED
    BY <2>1, <2>2, FlushDelivers
<1> QED
    BY <1>2, <1>3, <1>4, <1>5, OpenDelivers, RetryProgressReadyDelivers DEF User

\* The remaining actions of a window by itself.
LEMMA WindowActsDeliver ==
    ASSUME FenceInv, FenceInv', DeliverInv, quit' # "saved", NEW s \in Sessions, Window(s)
    PROVE  DeliverInv'
<1>1. player \in [Sessions -> WindowOf] /\ player[s] \in WindowOf
    BY Typed DEF FenceInv
<1>2. CASE StartFails(s)
  <2> DEFINE w == [player[s] EXCEPT !.phase = "prompt", !.auth = FALSE]
  <2>1. w.seq = player[s].seq /\ w.phase \notin Early
    BY <1>1 DEF WindowOf, Early
  <2>2. player' = [player EXCEPT ![s] = w]
    BY <1>1, <1>2 DEF StartFails
  <2> HIDE DEF w
  <2> QED
    BY <1>2, <2>1, <2>2, WindowDelivers DEF StartFails
<1>3. CASE Observe(s)
  <2>1. PICK done \in BOOLEAN :
          player' = [player EXCEPT ![s].last = [at |-> db.epoch, done |-> done]]
    BY <1>3, CompletionsAssumption DEF Observe
  <2> DEFINE w == [player[s] EXCEPT !.last = [at |-> db.epoch, done |-> done]]
  <2>2. w.seq = player[s].seq /\ w.phase = player[s].phase
    BY <1>1 DEF WindowOf
  <2>3. player' = [player EXCEPT ![s] = w]
    BY <1>1, <2>1
  <2> HIDE DEF w
  <2> QED
    BY <1>3, <2>2, <2>3, WindowDelivers DEF Observe
<1> QED
    BY <1>2, <1>3, BecomesReadyDelivers, SampleDelivers DEF Window

-----------------------------------------------------------------------------
(* Answers deliver                                                           *)

\* What an answer may make of a window keeps its count of checkpoints.
LEMMA InvalidatedWindow ==
    ASSUME NEW p \in WindowOf, NEW epoch
    PROVE  /\ Invalidated(p, epoch) \in WindowOf
           /\ Invalidated(p, epoch).seq = p.seq /\ Invalidated(p, epoch).phase = p.phase
<1> DEFINE v == Invalidated(p, epoch)
<1>1. v = p \/ v = [p EXCEPT !.auth = FALSE, !.last = None]
    BY DEF Invalidated
<1> HIDE DEF v
<1>2. v \in WindowOf /\ v.seq = p.seq /\ v.phase = p.phase
    BY <1>1 DEF WindowOf
<1> QED
    BY <1>2 DEF v

\* So does authorizing it.
LEMMA AuthorizedWindow ==
    ASSUME NEW p \in WindowOf, NEW old, NEW epoch \in Nat, NEW n \in Nat
    PROVE  /\ Authorized(p, old, epoch, n) \in WindowOf
           /\ Authorized(p, old, epoch, n).seq = p.seq
           /\ Authorized(p, old, epoch, n).phase \in {p.phase, "active"}
<1> DEFINE v == Authorized(p, old, epoch, n)
<1>1. \/ v = p
      \/ v = [p EXCEPT !.epoch = epoch, !.run = n, !.auth = TRUE, !.notice = FALSE,
                       !.phase = "active", !.last = None]
      \/ v = [p EXCEPT !.epoch = epoch, !.run = n, !.auth = TRUE, !.notice = FALSE]
    BY DEF Authorized
<1> HIDE DEF v
<1>2. v \in WindowOf /\ v.seq = p.seq /\ v.phase \in {p.phase, "active"}
    BY <1>1 DEF WindowOf, Phases
<1> QED
    BY <1>2 DEF v

\* The answer that is taken is what its session had under way.
LEMMA AnsweredWay ==
    ASSUME FenceInv, DeliverInv, NEW s \in Sessions, Answers(s), run[s] # None
    PROVE  Delivers(s, run[s], player[s].seq, accepted[s],
                    {Way(Head(acks).request, Head(acks).result)})
<1>1. Ways(s) = {Way(Head(acks).request, Head(acks).result)}
    BY UnreadTaken DEF Ways
<1> QED
    BY <1>1 DEF DeliverInv, Delivery

\* Storing what follows the answer to a save: the window becomes w.
LEMMA AnsweredDelivers ==
    ASSUME FenceInv, FenceInv', DeliverInv, quit' # "saved", NEW s \in Sessions, Answers(s),
           UNCHANGED <<db, owner, accepted>>, run[s] # None, NEW r \in RunOf,
           r.run \in {run[s].run, Head(acks).run}, NEW otherwise,
           NEW o \in PendingReadyElse(s, r, otherwise),
           otherwise = SendLatest(s, r) \/ otherwise = {Kept(r)},
           NEW w \in WindowOf, w.phase \notin Early, w.seq = player[s].seq,
           Settled(s, o, [player EXCEPT ![s] = w]),
           Delivers(s, r, player[s].seq, accepted[s], {})
    PROVE  DeliverInv'
<1>1. Moves(s, r, o)
    BY PendingMoves
<1>2. player[s].seq <= w.seq
    BY DEF WindowOf
<1>3. /\ accepted'[s] = accepted[s] /\ \A z \in Sessions \ {s} : accepted'[z] = accepted[z]
    OBVIOUS
<1>4. Delivers(s, r, w.seq, accepted'[s], {})
    BY <1>3
<1> QED
    BY <1>1, <1>2, <1>3, <1>4, SubmissionKeeps

\* A failed save is kept again, behind nothing that is older.
LEMMA SaveFailedDelivers ==
    ASSUME FenceInv, FenceInv', DeliverInv, quit' # "saved", SaveFailed
    PROVE  DeliverInv'
<1>1. PICK a \in AnswerOf :
        /\ a = Head(acks) /\ a.request \in RequestOf /\ a.request.session \in Sessions
        /\ Answers(a.request.session) /\ GoodRequest(a.request) /\ GoodAnswer(a)
        /\ UNCHANGED <<db, owner, accepted, unmarked>>
    BY AnswerTaken DEF SaveFailed
<1>2. PICK s \in Sessions : s = a.request.session
    BY <1>1
<1>3. PICK x \in SampleOf : x = a.request.sample
    BY <1>1, RequestFields DEF SaveFailed
<1>4. a.request.op = "save" /\ a.result = "error" /\ run[s] # None
    BY <1>1, <1>2 DEF SaveFailed, GoodRequest
<1>5. run[s] \in RunOf /\ player[s] \in WindowOf /\ player[s].phase \notin Early
    BY <1>4, KnownRun
<1> DEFINE kept == Requeued([run[s] EXCEPT !.busy = FALSE], x)
           r == Failed(kept)
           w == Noticed(player[s], TRUE)
<1>6. /\ kept \in RunOf /\ kept.busy = FALSE /\ kept.epoch = run[s].epoch
      /\ kept.run = run[s].run
      /\ kept.latest = IF run[s].latest = None THEN x ELSE run[s].latest
    BY <1>5 DEF Requeued, RunOf
<1>7. PICK o \in PendingReadyElse(s, r, {Kept(r)}) :
        Settled(s, o, [player EXCEPT ![s] = w])
    BY <1>1, <1>2, <1>3 DEF SaveFailed
<1> HIDE DEF kept
<1>8. /\ r \in RunOf /\ r.busy = FALSE /\ r.epoch = run[s].epoch /\ r.run = run[s].run
      /\ r.latest = IF run[s].latest = None THEN x ELSE run[s].latest
    BY <1>6, FailedRun, FailedAuthority
<1> HIDE DEF r
<1>9. w \in WindowOf /\ w.phase \notin Early /\ w.seq = player[s].seq
    BY <1>5, NoticedTyped
<1> HIDE DEF w
<1>10. Delivers(s, r, player[s].seq, accepted[s], {})
  <2> PICK y : y = Way(a.request, a.result)
    OBVIOUS
  <2>1. Delivers(s, run[s], player[s].seq, accepted[s], {y})
    BY <1>1, <1>2, <1>4, AnsweredWay
  <2>2. y.request = a.request /\ y.result = "error" /\ Saving(y) /\ y.request.sample = x
    BY <1>3, <1>4, WayFields DEF Saving
  <2>3. Travels(s, y, run[s], player[s].seq, accepted[s])
    BY <2>1, <2>2 DEF Delivers
  <2>4. /\ Mine(x, run[s], player[s].seq) /\ Unsaved(s, x)
        /\ accepted[s] # None /\ Current(accepted[s]) /\ run[s].latest = None =>
             x = accepted[s]
    BY <2>2, <2>3 DEF Travels
  <2>5. r.latest # None => Mine(r.latest, r, player[s].seq) /\ Unsaved(s, r.latest)
    BY <1>8, <2>1, <2>4 DEF Delivers, Mine
  <2>6. accepted[s] # None /\ Current(accepted[s]) => r.latest = accepted[s]
    BY <1>8, <2>1, <2>4 DEF Delivers
  <2> QED
    BY <1>8, <2>1, <2>5, <2>6 DEF Delivers
<1>11. Answers(s)
    BY <1>1, <1>2
<1> QED
    BY <1>1, <1>4, <1>7, <1>8, <1>9, <1>10, <1>11, AnsweredDelivers

\* What was sent is in the record; or it is stale, and so is all that waits.
LEMMA SaveAnsweredDelivers ==
    ASSUME FenceInv, FenceInv', DeliverInv, quit' # "saved", SaveAnswered
    PROVE  DeliverInv'
<1>1. PICK a \in AnswerOf :
        /\ a = Head(acks) /\ a.request \in RequestOf /\ a.request.session \in Sessions
        /\ Answers(a.request.session) /\ GoodRequest(a.request) /\ GoodAnswer(a)
        /\ UNCHANGED <<db, owner, accepted, unmarked>>
    BY AnswerTaken DEF SaveAnswered
<1>2. PICK s \in Sessions : s = a.request.session
    BY <1>1
<1>3. PICK x \in SampleOf : x = a.request.sample
    BY <1>1, RequestFields DEF SaveAnswered
<1>4. /\ a.request.op = "save" /\ a.result \in {"applied", "stale"} /\ run[s] # None
      /\ a.epoch \in Nat /\ a.run \in Nat
    BY <1>1, <1>2, AnswerFields DEF SaveAnswered, GoodRequest
<1>5. run[s] \in RunOf /\ player[s] \in WindowOf /\ player[s].phase \notin Early
    BY <1>4, KnownRun
<1> DEFINE stale == a.result = "stale"
           r == [run[s] EXCEPT !.epoch = a.epoch, !.run = a.run, !.busy = FALSE,
                               !.retries = 0, !.retry = "none",
                               !.latest = IF stale THEN None ELSE @]
           p == player[s]
           left == Invalidated(p, x.epoch)
           w == IF ~stale THEN Noticed(p, FALSE)
                ELSE IF a.run = x.run /\ r.ready = None
                THEN Authorized(left, x.epoch, a.epoch, a.run)
                ELSE left
<1>6. /\ r \in RunOf /\ r.busy = FALSE /\ r.epoch = a.epoch /\ r.run = a.run
      /\ r.latest = IF stale THEN None ELSE run[s].latest
    BY <1>4, <1>5 DEF RunOf
<1>7. PICK o \in PendingReadyElse(s, r, SendLatest(s, r)) :
        Settled(s, o, [player EXCEPT ![s] = w])
    BY <1>1, <1>2, <1>3 DEF SaveAnswered
<1>9. w \in WindowOf /\ w.phase \notin Early /\ w.seq = player[s].seq
  <2>1. /\ Noticed(p, FALSE) \in WindowOf /\ Noticed(p, FALSE).phase \notin Early
        /\ Noticed(p, FALSE).seq = p.seq
    BY <1>5, NoticedTyped
  <2>2. left \in WindowOf /\ left.phase \notin Early /\ left.seq = p.seq
    BY <1>5, InvalidatedWindow
  <2> HIDE DEF left
  <2> PICK v : v = Authorized(left, x.epoch, a.epoch, a.run)
    OBVIOUS
  <2>3. v \in WindowOf /\ v.phase \in {left.phase, "active"} /\ v.seq = left.seq
    BY <1>4, <2>2, AuthorizedWindow
  <2>4. v.phase \notin Early /\ v.seq = p.seq
    BY <2>2, <2>3 DEF Early
  <2> HIDE DEF r, p, stale, left
  <2> QED
    BY <2>1, <2>2, <2>3, <2>4 DEF p
<1> HIDE DEF r, w
<1>10. Delivers(s, r, player[s].seq, accepted[s], {})
  <2> PICK y : y = Way(a.request, a.result)
    OBVIOUS
  <2>1. Delivers(s, run[s], player[s].seq, accepted[s], {y})
    BY <1>1, <1>2, <1>4, AnsweredWay
  <2>2. /\ y.request = a.request /\ y.result = a.result /\ Saving(y)
        /\ y.request.sample = x
    BY <1>3, <1>4, WayFields DEF Saving
  <2>3. Travels(s, y, run[s], player[s].seq, accepted[s])
    BY <2>1, <2>2 DEF Delivers
  <2>4. /\ Mine(x, run[s], player[s].seq)
        /\ a.result = "applied" /\ Current(x) => db.checkpoint = x
        /\ stale => ~Current(x)
        /\ accepted[s] # None /\ Current(accepted[s]) /\ run[s].latest = None =>
             x = accepted[s]
    BY <2>2, <2>3 DEF Travels
  <2>5. a.run <= db.epoch /\ a.epoch <= db.epoch
    BY <1>1 DEF GoodAnswer
  <2>6. CASE a.result = "applied"
    <3>1. a.epoch = run[s].epoch /\ a.run = run[s].run
      <4>1. 1 \in DOMAIN acks /\ a = acks[1]
        BY <1>1, <1>2, AnsweredIsFree
      <4>2. a.epoch = x.epoch /\ a.run = x.run
        BY <1>3, <1>4, <2>6, <4>1 DEF DeliverInv, SavesAgree
      <4> QED
        BY <2>4, <4>2 DEF Mine
    <3>2. r.latest = run[s].latest
      BY <1>6, <2>6
    <3>3. r.latest # None => Mine(r.latest, r, player[s].seq) /\ Unsaved(s, r.latest)
      BY <1>6, <2>1, <3>1, <3>2 DEF Delivers, Mine
    <3>4. accepted[s] # None /\ Current(accepted[s]) =>
            /\ r.latest # None => r.latest = accepted[s]
            /\ r.latest = None => db.checkpoint = accepted[s]
      BY <2>1, <2>4, <2>6, <3>2 DEF Delivers
    <3> QED
      BY <1>6, <2>5, <3>3, <3>4 DEF Delivers
  <2>7. CASE stale
    <3>1. r.latest = None
      BY <1>6, <2>7
    <3>2. accepted[s] # None => ~Current(accepted[s])
      <4> SUFFICES ASSUME accepted[s] # None, Current(accepted[s]) PROVE FALSE
        OBVIOUS
      <4>1. CASE run[s].latest = None
        BY <2>4, <2>7, <4>1
      <4>2. CASE run[s].latest # None
        <5>1. accepted[s].epoch = run[s].epoch /\ accepted[s].run = run[s].run
          BY <2>1, <4>2 DEF Delivers, Mine
        <5> QED
          BY <2>4, <2>7, <5>1 DEF Current, Mine
      <4> QED
        BY <4>1, <4>2
    <3> QED
      BY <1>6, <2>5, <3>1, <3>2 DEF Delivers
  <2> QED
    BY <1>4, <2>6, <2>7
<1>11. Answers(s) /\ r.run = Head(acks).run
    BY <1>1, <1>2, <1>6
<1> QED
    BY <1>1, <1>4, <1>6, <1>7, <1>9, <1>10, <1>11, AnsweredDelivers

\* A window that starts from the record that was read has delivered nothing.
LEMMA OpenAnsweredDelivers ==
    ASSUME FenceInv, FenceInv', DeliverInv, quit' # "saved", OpenAnswered
    PROVE  DeliverInv'
<1>1. PICK a \in AnswerOf :
        /\ a = Head(acks) /\ a.request \in RequestOf /\ a.request.session \in Sessions
        /\ Answers(a.request.session) /\ GoodRequest(a.request) /\ GoodAnswer(a)
        /\ UNCHANGED <<db, owner, accepted, unmarked>>
    BY AnswerTaken DEF OpenAnswered
<1>2. PICK s \in Sessions : s = a.request.session
    BY <1>1
<1>3. /\ player \in [Sessions -> WindowOf] /\ run \in [Sessions -> RunOf \cup {None}]
      /\ player'[s] \in WindowOf /\ UNCHANGED <<queue, faults>> /\ Answers(s)
      /\ acks # <<>> /\ acks' = Tail(acks)
    BY <1>1, <1>2, Typed, TypedNext DEF FenceInv, OpenAnswered, Answers
<1>4. /\ player[s].phase = "opening" /\ player[s].seq = 0 /\ run[s] = None
      /\ accepted[s] = None
    BY <1>1, <1>2
       DEF OpenAnswered, GoodRequest, FenceInv, GoodWindow, Early, NewWindow, NoWindow,
           DeliverInv, Acceptance
<1>5. Ways(s)' = {} /\ \A z \in Sessions \ {s} : Ways(z)' = Ways(z)
  <2>1. \A z : Queues(z)' = Queues(z)
    BY <1>3 DEF Queues
  <2> QED
    BY <1>3, <2>1, UnreadTaken DEF Ways
<1>6. CASE player' = [player EXCEPT ![s] = NoWindow] /\ UNCHANGED run
  <2>1. /\ player'[s].seq = 0 /\ run'[s] = None
        /\ \A z \in Sessions \ {s} : player'[z] = player[z] /\ run'[z] = run[z]
    BY <1>3, <1>4, <1>6 DEF NoWindow
  <2>2. Delivery(s)'
    BY <2>1 DEF Delivery
  <2>3. player[s].seq <= player'[s].seq
    BY <1>4, <2>1
  <2> QED
    BY <1>1, <1>3, <1>4, <1>5, <2>1, <2>2, <2>3, OneDelivers DEF Early
<1>7. CASE /\ player' = [player EXCEPT ![s].phase = "start", ![s].epoch = a.epoch]
           /\ run' = [run EXCEPT ![s] =
                  [epoch |-> a.epoch, run |-> a.run, seq |-> 0, busy |-> FALSE,
                   latest |-> None, retries |-> 0, retry |-> "none", ready |-> None]]
  <2> PICK r : r = [epoch |-> a.epoch, run |-> a.run, seq |-> 0, busy |-> FALSE,
                    latest |-> None, retries |-> 0, retry |-> "none", ready |-> None]
    OBVIOUS
  <2>1. /\ player'[s].seq = 0 /\ run'[s] = r
        /\ \A z \in Sessions \ {s} : player'[z] = player[z] /\ run'[z] = run[z]
    BY <1>3, <1>4, <1>7 DEF WindowOf
  <2>2. r.epoch = a.epoch /\ r.run = a.run /\ r.busy = FALSE /\ r.latest = None
    OBVIOUS
  <2>3. a.epoch <= db.epoch /\ a.run <= db.epoch
    BY <1>1 DEF GoodAnswer
  <2>4. Delivers(s, r, 0, None, {})
    BY <2>2, <2>3 DEF Delivers
  <2>5. Delivers(s, r, 0, None, {})'
    BY <1>1, <2>4, DeliversStays
  <2>6. accepted'[s] = None
    BY <1>1, <1>4
  <2>7. Delivery(s)'
    BY <1>5, <2>1, <2>5, <2>6 DEF Delivery
  <2>8. player[s].seq <= player'[s].seq
    BY <1>4, <2>1
  <2>9. run'[s].run = Head(acks).run
    BY <1>1, <2>1, <2>2
  <2> QED
    BY <1>1, <1>3, <1>4, <1>5, <2>1, <2>7, <2>8, <2>9, OneDelivers DEF Early
<1> QED
    BY <1>1, <1>2, <1>6, <1>7 DEF OpenAnswered

\* No checkpoint of a run before the one whose Begin was answered is still current.
LEMMA EarlierIsPast ==
    ASSUME FenceInv, DeliverInv, NEW a, a = Head(acks), 1 \in DOMAIN acks, a = acks[1],
           Begins(a), NEW z \in Sessions, accepted[z] # None
    PROVE  ~Current(accepted[z])
<1>1. Later(1)
    BY DEF DeliverInv, BeginsAreLater
<1>2. a \in AnswerOf /\ accepted[z] \in SampleOf
  <2>1. acks \in Seq(AnswerOf)
    BY Typed DEF FenceInv
  <2>2. acks[1] \in AnswerOf
    BY <2>1, ElementOfSeq, LenProperties
  <2> QED
    BY <2>2 DEF FenceInv, TypeOK
<1>3. a.run \in Nat /\ accepted[z].run \in Nat /\ db.run \in Nat
    BY <1>2, Typed, AnswerFields DEF FenceInv, SampleOf
<1>4. accepted[z].run < a.run /\ (db.run = 0 \/ a.run <= db.run)
    BY <1>1 DEF Later
<1>5. accepted[z].run # 0
    BY DEF DeliverInv, Acceptance
<1> QED
    BY <1>3, <1>4, <1>5 DEF Current

\* A run that is revoked loses what waits, and it was past already.
LEMMA RevokedDelivers ==
    ASSUME NEW s, NEW r, NEW u, NEW n, NEW a, NEW W, Delivers(s, r, n, a, W),
           u.epoch = r.epoch, u.run = r.run, u.busy = r.busy, u.latest = None,
           a # None => ~Current(a)
    PROVE  Delivers(s, u, n, a, W)
<1>1. \A w \in W : Saving(w) => Travels(s, w, u, n, a)
    BY DEF Delivers, Travels, Mine
<1> QED
    BY <1>1 DEF Delivers

\* BeginAnswered: the runs it revokes had nothing that is current.
LEMMA BeginAnsweredDelivers ==
    ASSUME FenceInv, FenceInv', DeliverInv, quit' # "saved", BeginAnswered
    PROVE  DeliverInv'
<1>1. PICK a \in AnswerOf :
        /\ a = Head(acks) /\ a.request \in RequestOf /\ a.request.session \in Sessions
        /\ Answers(a.request.session) /\ GoodRequest(a.request) /\ GoodAnswer(a)
        /\ UNCHANGED <<db, owner, accepted, unmarked>>
    BY AnswerTaken DEF BeginAnswered
<1>2. PICK s \in Sessions : s = a.request.session
    BY <1>1
<1>3. /\ player \in [Sessions -> WindowOf] /\ run \in [Sessions -> RunOf \cup {None}]
      /\ player' \in [Sessions -> WindowOf] /\ UNCHANGED <<queue, faults>> /\ Answers(s)
      /\ acks # <<>> /\ acks' = Tail(acks) /\ 1 \in DOMAIN acks /\ a = acks[1]
    BY <1>1, <1>2, Typed, TypedNext, AnsweredIsFree DEF FenceInv, BeginAnswered, Answers
<1>4. a.request.op = "begin" /\ run[s] # None /\ a.request.epoch \in Nat
    BY <1>1, <1>2, RequestFields DEF BeginAnswered, GoodRequest
<1>5. /\ run[s] \in RunOf /\ player[s] \in WindowOf /\ player[s].phase \notin Early
      /\ a.epoch \in Nat /\ a.run \in Nat
    BY <1>4, KnownRun, AnswerFields
<1>6. Ways(s)' = {} /\ \A z \in Sessions \ {s} : Ways(z)' = Ways(z)
  <2>1. \A z : Queues(z)' = Queues(z)
    BY <1>3 DEF Queues
  <2> QED
    BY <1>3, <2>1, UnreadTaken DEF Ways
<1> PICK n, c : n = player[s].seq /\ c = accepted[s]
    OBVIOUS
<1> PICK y : y = Way(a.request, a.result)
    OBVIOUS
<1>7. Delivers(s, run[s], n, c, {y}) /\ ~Saving(y)
    BY <1>1, <1>3, <1>4, AnsweredWay, WayFields DEF Saving
<1>8. CASE /\ a.result = "error"
           /\ run' = [run EXCEPT ![s].busy = FALSE]
           /\ player' = [player EXCEPT ![s] = Noticed(@, TRUE)]
  <2> PICK r : r = [run[s] EXCEPT !.busy = FALSE]
    OBVIOUS
  <2>1. /\ r.busy = FALSE /\ r.latest = run[s].latest /\ r.epoch = run[s].epoch
        /\ r.run = run[s].run
    BY <1>5 DEF RunOf
  <2>2. /\ run'[s] = r /\ player'[s].seq = n /\ player'[s].phase = player[s].phase
        /\ \A z \in Sessions \ {s} : player'[z] = player[z] /\ run'[z] = run[z]
    BY <1>3, <1>5, <1>8, NoticedTyped
  <2>3. Delivers(s, r, n, c, {})
    BY <1>7, <2>1 DEF Delivers, Mine
  <2>4. Delivers(s, r, n, c, {})'
    BY <1>1, <2>3, DeliversStays
  <2>5. Delivery(s)'
    BY <1>1, <1>6, <2>2, <2>4 DEF Delivery
  <2>6. player[s].seq <= player'[s].seq
    BY <1>5, <2>2 DEF WindowOf
  <2> QED
    BY <1>1, <1>3, <1>4, <1>6, <2>1, <2>2, <2>5, <2>6, OneDelivers
<1>9. CASE /\ a.result # "error"
           /\ run' = [o \in Sessions |->
                IF o = s
                THEN [run[s] EXCEPT !.epoch = a.epoch, !.run = a.run, !.busy = FALSE,
                                    !.seq = 0, !.latest = None, !.retry = "none",
                                    !.retries = 0]
                ELSE IF o \in Revoked(s, a)
                THEN [run[o] EXCEPT !.latest = None, !.retry = "none"]
                ELSE run[o]]
           /\ player' = [o \in Sessions |->
                IF o = s THEN Authorized(player[s], a.request.epoch, a.epoch, a.run)
                ELSE IF o \in Revoked(s, a) THEN Invalidated(player[o], run[o].epoch)
                ELSE player[o]]
  <2> PICK r : r = [run[s] EXCEPT !.epoch = a.epoch, !.run = a.run, !.busy = FALSE,
                                  !.seq = 0, !.latest = None, !.retry = "none",
                                  !.retries = 0]
    OBVIOUS
  <2>1. /\ r.busy = FALSE /\ r.latest = None /\ r.epoch = a.epoch /\ r.run = a.run
        /\ run'[s] = r
    BY <1>5, <1>9 DEF RunOf
  <2>2. /\ player'[s].seq = n /\ player'[s].phase \notin Early
    <3> PICK v : v = Authorized(player[s], a.request.epoch, a.epoch, a.run)
      OBVIOUS
    <3>1. v.seq = n /\ v.phase \in {player[s].phase, "active"}
      BY <1>5, AuthorizedWindow
    <3> QED
      BY <1>5, <1>9, <3>1 DEF Early
  <2>3. Begins(a)
    BY <1>1, <1>4, <1>9 DEF Begins, GoodAnswer
  <2>4. \A z \in Sessions : accepted[z] # None => ~Current(accepted[z])
    BY <1>1, <1>3, <2>3, EarlierIsPast
  <2>5. a.epoch <= db.epoch /\ a.run <= db.epoch
    BY <1>1 DEF GoodAnswer
  <2>6. Delivery(s)'
    <3>1. Delivers(s, r, n, c, {})
      BY <2>1, <2>4, <2>5 DEF Delivers
    <3>2. Delivers(s, r, n, c, {})'
      BY <1>1, <3>1, DeliversStays
    <3> QED
      BY <1>1, <1>6, <2>1, <2>2, <3>2 DEF Delivery
  <2>7. Acceptance(s)'
    <3>1. Acceptance(s)
      BY DEF DeliverInv
    <3> QED
      BY <1>1, <2>2, <3>1 DEF Acceptance, Fenced
  <2>8. ASSUME NEW z \in Sessions \ {s}
        PROVE  /\ Delivery(z)' /\ Acceptance(z)' /\ player'[z].seq = player[z].seq
               /\ run'[z] # None => run[z] # None /\ run'[z].run = run[z].run
    <3>1. Delivery(z) /\ Acceptance(z)
      BY DEF DeliverInv
    <3>2. CASE z \notin Revoked(s, a)
      <4>1. run'[z] = run[z] /\ player'[z] = player[z]
        BY <1>9, <3>2
      <4> QED
        BY <1>1, <1>6, <3>1, <4>1, OthersDeliver
    <3>3. CASE z \in Revoked(s, a)
      <4> PICK u : u = [run[z] EXCEPT !.latest = None, !.retry = "none"]
        OBVIOUS
      <4>1. run[z] # None /\ run[z] \in RunOf
        BY <1>3, <3>3 DEF Revoked
      <4>2. /\ run'[z] = u /\ u.latest = None /\ u.busy = run[z].busy
            /\ u.epoch = run[z].epoch /\ u.run = run[z].run
        BY <1>9, <3>3, <4>1 DEF RunOf
      <4>3. player'[z].seq = player[z].seq /\ player'[z].phase = player[z].phase
        BY <1>3, <1>9, <3>3, InvalidatedWindow
      <4> PICK m, d, W : m = player[z].seq /\ d = accepted[z] /\ W = Ways(z)
        OBVIOUS
      <4>4. Delivers(z, run[z], m, d, W)
        BY <3>1, <4>1 DEF Delivery
      <4>5. Delivers(z, u, m, d, W)
        BY <2>4, <4>2, <4>4, RevokedDelivers
      <4>6. Delivers(z, u, m, d, W)'
        BY <1>1, <4>5, DeliversStays
      <4>7. Delivery(z)'
        BY <1>1, <1>6, <4>2, <4>3, <4>6 DEF Delivery
      <4>8. Acceptance(z)'
        BY <1>1, <3>1, <4>3 DEF Acceptance, Fenced
      <4> QED
        BY <4>1, <4>2, <4>3, <4>7, <4>8
    <3> QED
      BY <3>2, <3>3
  <2>9. BeginsAreLater' /\ SavesAgree'
    BY <1>1, <1>3, <2>1, <2>8, LaterStays
  <2>10. Recorded'
    <3>1. \A z \in Sessions : player'[z].seq = player[z].seq
      BY <2>2, <2>8
    <3>2. db.checkpoint # None => db.checkpoint.by \in Sessions
      BY DEF FenceInv, TypeOK, SampleOf
    <3> QED
      BY <1>1, <3>1, <3>2 DEF DeliverInv, Recorded, Fenced
  <2>11. FlushIsDone'
    BY DEF FlushIsDone
  <2> QED
    BY <2>6, <2>7, <2>8, <2>9, <2>10, <2>11 DEF DeliverInv
<1> QED
  <2> USE DEF BeginAnswered
  <2>1. CASE a.result = "error"
    BY <1>1, <1>2, <1>8, <2>1
  <2>2. CASE a.result # "error"
    BY <1>1, <1>2, <1>9, <2>2
  <2> QED
    BY <2>1, <2>2

-----------------------------------------------------------------------------
(* The record delivers                                                       *)

\* A transaction leaves a checkpoint fenced.
LEMMA FencedKept ==
    ASSUME FenceInv, db'.epoch \in Nat, db'.run \in Nat, Commit,
           NEW x \in SampleOf, NEW s \in Sessions, Fenced(x, s)
    PROVE  Fenced(x, s)'
<1>1. db.epoch \in Nat /\ db.run \in Nat
    BY Typed DEF FenceInv
<1> QED
    BY <1>1 DEF Fenced, SampleOf, Commit

\* In a new epoch nothing that was sent before is current, and it loses nothing.
LEMMA NewEpochDelivers ==
    ASSUME db.epoch \in Nat, db'.epoch = db.epoch + 1,
           db'.checkpoint \in {db.checkpoint, None},
           NEW s, NEW r \in RunOf, NEW n, NEW a, NEW W, Delivers(s, r, n, a, W),
           a # None => a.epoch \in Nat /\ a.epoch <= db.epoch
    PROVE  Delivers(s, r, n, a, W)'
<1>1. r.epoch \in Nat /\ r.run \in Nat /\ r.epoch <= db.epoch /\ r.run <= db.epoch
    BY DEF Delivers, RunOf
<1>2. r.epoch # db'.epoch /\ r.epoch <= db'.epoch /\ r.run <= db'.epoch
    BY <1>1
<1>3. a # None => a.epoch # db'.epoch
    OBVIOUS
<1>4. \A x : Unsaved(s, x) => Unsaved(s, x)'
    BY DEF Unsaved
<1>5. \A x : Mine(x, r, n) => ~Current(x)'
    BY <1>2 DEF Mine, Current
<1>6. a # None => ~Current(a)'
    BY <1>3 DEF Current
<1>7. \A w \in W : Saving(w) => Travels(s, w, r, n, a)'
  <2> TAKE w \in W
  <2> HAVE Saving(w)
  <2>1. Travels(s, w, r, n, a)
    BY DEF Delivers
  <2> QED
    BY <1>4, <1>5, <1>6, <2>1 DEF Travels, Mine
<1> QED
    BY <1>2, <1>4, <1>6, <1>7 DEF Delivers, Mine, Saving

\* The answer to a request that wrote nothing, or found its checkpoint superseded.
LEMMA AnswerDelivers ==
    ASSUME NEW s, NEW r, NEW n, NEW a, NEW q,
           Delivers(s, r, n, a, {Way(q, "queued")}), NEW result,
           q.op = "save" => \/ result = "error"
                            \/ result = "stale" /\ ~Current(q.sample)
    PROVE  Delivers(s, r, n, a, {Way(q, result)})
<1> PICK w, v : w = Way(q, "queued") /\ v = Way(q, result)
    OBVIOUS
<1>1. /\ w.request = q /\ w.result = "queued" /\ v.request = q /\ v.result = result
    BY WayFields
<1>2. Saving(v) <=> Saving(w)
    BY <1>1 DEF Saving
<1>3. Saving(v) => Travels(s, v, r, n, a)
  <2> SUFFICES ASSUME Saving(v) PROVE Travels(s, v, r, n, a)
    OBVIOUS
  <2>1. Travels(s, w, r, n, a)
    BY <1>2 DEF Delivers
  <2>2. result = "error" \/ (result = "stale" /\ ~Current(q.sample))
    BY <1>1 DEF Saving
  <2> QED
    BY <1>1, <2>1, <2>2 DEF Travels
<1> QED
    BY <1>2, <1>3 DEF Delivers

\* A save that is applied puts the checkpoint of its session into the record.
LEMMA SavedDelivers ==
    ASSUME NEW s, NEW r, NEW n \in Nat, NEW a, NEW q, q.op = "save",
           Delivers(s, r, n, a, {Way(q, "queued")}), Current(q.sample),
           db'.epoch = db.epoch, db'.run = db.run, db'.checkpoint = q.sample
    PROVE  Delivers(s, r, n, a, {Way(q, "applied")})'
<1> PICK w, v, x : w = Way(q, "queued") /\ v = Way(q, "applied") /\ x = q.sample
    OBVIOUS
<1>1. /\ w.request = q /\ w.result = "queued" /\ v.request = q /\ v.result = "applied"
      /\ Saving(v) /\ Saving(w)
    BY WayFields DEF Saving
<1>2. Travels(s, w, r, n, a)
    BY <1>1 DEF Delivers
<1>3. /\ Mine(x, r, n)
      /\ r.latest # None => x.seq < r.latest.seq
      /\ a # None /\ Current(a) /\ r.latest = None => x = a
    BY <1>1, <1>2 DEF Travels
<1>4. Travels(s, v, r, n, a)'
  <2>1. a # None /\ Current(a)' => Current(a)
    BY DEF Current
  <2> QED
    BY <1>1, <1>3, <2>1 DEF Travels, Mine
<1>5. r.latest # None => Mine(r.latest, r, n) /\ Unsaved(s, r.latest)'
    BY <1>3 DEF Unsaved, Delivers
<1>6. a # None /\ Current(a)' => /\ r.latest # None => r.latest = a
                                 /\ Saving(v)
    BY <1>1 DEF Delivers, Current
<1> QED
    BY <1>1, <1>4, <1>5, <1>6 DEF Delivers, Mine, Saving

\* It takes nothing from a session whose checkpoints are not current.
LEMMA OtherSavedDelivers ==
    ASSUME NEW z, NEW r, NEW n, NEW a, NEW W, Delivers(z, r, n, a, W),
           db'.epoch = db.epoch, db'.run = db.run, db'.checkpoint.by # z,
           a # None => ~Current(a), \A w \in W : Saving(w) => ~Current(w.request.sample)
    PROVE  Delivers(z, r, n, a, W)'
<1>1. \A x : Unsaved(z, x)'
    BY DEF Unsaved
<1>2. \A x : Current(x)' <=> Current(x)
    BY DEF Current
<1>3. \A w \in W : Saving(w) => Travels(z, w, r, n, a)'
  <2> TAKE w \in W
  <2> HAVE Saving(w)
  <2>1. Travels(z, w, r, n, a) /\ ~Current(w.request.sample)
    BY DEF Delivers
  <2> QED
    BY <1>1, <1>2, <2>1 DEF Travels, Mine
<1> QED
    BY <1>1, <1>2, <1>3 DEF Delivers, Mine, Saving

\* A session knows of runs up to the durable epoch.
LEMMA RunsArePast ==
    ASSUME FenceInv, DeliverInv
    PROVE  /\ \A o \in Sessions : run[o] # None => run[o].run \in Nat /\ run[o].run <= db.epoch
           /\ \A o \in Sessions : accepted[o] # None =>
                 accepted[o].run \in Nat /\ accepted[o].run <= db.epoch
           /\ \A i \in DOMAIN acks : acks[i].run \in Nat /\ acks[i].run <= db.epoch
<1>1. /\ acks \in Seq(AnswerOf) /\ run \in [Sessions -> RunOf \cup {None}]
      /\ accepted \in [Sessions -> SampleOf \cup {None}]
    BY Typed DEF FenceInv, TypeOK
<1>2. \A o \in Sessions : run[o] # None => run[o].run \in Nat /\ run[o].run <= db.epoch
  <2> TAKE o \in Sessions
  <2>1. run[o] # None => run[o].run <= db.epoch
    BY DEF DeliverInv, Delivery, Delivers
  <2> QED
    BY <1>1, <2>1 DEF RunOf
<1>3. \A o \in Sessions : accepted[o] # None =>
         accepted[o].run \in Nat /\ accepted[o].run <= db.epoch
    BY <1>1 DEF DeliverInv, Acceptance, Fenced, SampleOf
<1>4. \A i \in DOMAIN acks : acks[i].run \in Nat /\ acks[i].run <= db.epoch
  <2> TAKE i \in DOMAIN acks
  <2>1. PICK a \in AnswerOf : a = acks[i]
    BY <1>1, ElementOfSeq, LenProperties
  <2> QED
    BY <2>1, AnswerFields DEF FenceInv, GoodAnswer
<1> QED
    BY <1>2, <1>3, <1>4

\* What the sessions accepted stays theirs.
LEMMA AcceptanceKept ==
    ASSUME FenceInv, DeliverInv, UNCHANGED <<run, player, accepted>>,
           db'.epoch \in Nat, db'.run \in Nat, Commit, NEW s \in Sessions
    PROVE  Acceptance(s)'
<1>1. Acceptance(s) /\ accepted[s] \in SampleOf \cup {None}
    BY DEF DeliverInv, FenceInv, TypeOK
<1>2. accepted[s] # None => Fenced(accepted[s], s)'
  <2> SUFFICES ASSUME accepted[s] # None PROVE Fenced(accepted[s], s)'
    OBVIOUS
  <2> PICK x \in SampleOf : x = accepted[s]
    BY <1>1
  <2>1. Fenced(x, s)'
    BY <1>1, FencedKept DEF Acceptance
  <2> QED
    BY <2>1
<1> QED
    BY <1>1, <1>2 DEF Acceptance

\* What the record held stays of its window.
LEMMA RecordedKept ==
    ASSUME FenceInv, DeliverInv, UNCHANGED <<run, player, accepted>>,
           db'.epoch \in Nat, db'.run \in Nat, Commit,
           db'.checkpoint \in {db.checkpoint, None}
    PROVE  Recorded'
<1>1. db.checkpoint \in SampleOf \cup {None} /\ Recorded
    BY DEF DeliverInv, FenceInv, TypeOK
<1>2. db'.checkpoint # None => Fenced(db.checkpoint, db.checkpoint.by)'
  <2> SUFFICES ASSUME db'.checkpoint # None
               PROVE  Fenced(db.checkpoint, db.checkpoint.by)'
    OBVIOUS
  <2> PICK x \in SampleOf : x = db.checkpoint
    BY <1>1
  <2>1. db'.checkpoint = x /\ x.by \in Sessions
    BY DEF SampleOf
  <2>2. Fenced(x, x.by)'
    BY <1>1, <2>1, FencedKept DEF Recorded
  <2> QED
    BY <2>1, <2>2
<1> QED
    BY <1>1, <1>2 DEF Recorded

\* The user's marks and merges: a new epoch, in which nothing is current yet.
LEMMA ResetDelivers ==
    ASSUME FenceInv, FenceInv', DeliverInv, UNCHANGED onlyRecord, UNCHANGED flushVars, Commit,
           db'.epoch = db.epoch + 1, db'.run \in {db.run, 0},
           db'.checkpoint \in {db.checkpoint, None}
    PROVE  DeliverInv'
<1>1. /\ UNCHANGED <<queue, acks, run, player, owner, accepted, quit, leaving>>
      /\ db.epoch \in Nat /\ db'.epoch \in Nat /\ db'.run \in Nat
      /\ run \in [Sessions -> RunOf \cup {None}]
      /\ accepted \in [Sessions -> SampleOf \cup {None}]
    BY Typed, TypedNext DEF onlyRecord, flushVars, FenceInv, TypeOK
<1>2. \A z \in Sessions : Acceptance(z)'
    BY <1>1, AcceptanceKept
<1>3. \A z \in Sessions : Delivery(z)'
  <2> TAKE z \in Sessions
  <2> PICK r, n, a, W : r = run[z] /\ n = player[z].seq /\ a = accepted[z] /\ W = Ways(z)
    OBVIOUS
  <2>1. r # None => Delivers(z, r, n, a, W) /\ r \in RunOf
    BY <1>1 DEF DeliverInv, Delivery
  <2>2. a # None => a.epoch \in Nat /\ a.epoch <= db.epoch
    BY <1>1 DEF DeliverInv, Acceptance, Fenced, SampleOf
  <2>3. r # None => Delivers(z, r, n, a, W)'
    BY <1>1, <2>1, <2>2, NewEpochDelivers
  <2>4. Ways(z)' = W
    BY <1>1 DEF Ways, Queues, Unread
  <2> QED
    BY <1>1, <2>3, <2>4 DEF Delivery
<1>4. BeginsAreLater'
  <2>1. \A i \in DOMAIN acks : Begins(acks[i]) => Later(i)'
    BY <1>1 DEF DeliverInv, BeginsAreLater, Later
  <2> QED
    BY <1>1, <2>1 DEF BeginsAreLater, Begins
<1>5. SavesAgree' /\ FlushIsDone'
    BY <1>1 DEF DeliverInv, SavesAgree, FlushIsDone, Flushed
<1> QED
    BY <1>1, <1>2, <1>3, <1>4, <1>5, RecordedKept DEF DeliverInv

\* Clearing, merging and marking move the epoch on.
LEMMA RecordActsDeliver ==
    ASSUME FenceInv, FenceInv', DeliverInv, UNCHANGED flushVars,
           Clear \/ Merge \/ (\E watched \in BOOLEAN : MarkWatched(watched))
    PROVE  DeliverInv'
<1>1. db \in RecordOf /\ db.run <= db.epoch /\ db.epoch \in Nat /\ db.run \in Nat
    BY RecordTyped
<1>2. /\ UNCHANGED onlyRecord /\ db'.epoch = db.epoch + 1 /\ db'.run \in {db.run, 0}
      /\ db'.checkpoint \in {db.checkpoint, None}
  <2>1. CASE Clear
    BY <1>1, <2>1 DEF Clear, RecordOf
  <2>2. CASE Merge
    BY <1>1, <2>2 DEF Merge, RecordOf
  <2>3. CASE \E watched \in BOOLEAN : MarkWatched(watched)
    BY <1>1, <2>3 DEF MarkWatched, RecordOf
  <2> QED
    BY <2>1, <2>2, <2>3
<1>3. Commit
    BY <1>1, <1>2 DEF Commit, onlyRecord
<1> QED
    BY <1>2, <1>3, ResetDelivers

\* The request that is answered was all that its session had under way.
LEMMA ExecuteWays ==
    ASSUME FenceInv, queue # <<>>, queue' = Tail(queue), NEW q, q = Head(queue),
           NEW b \in AnswerOf, b.request = q, acks' = Append(acks, b),
           NEW s \in Sessions, s = q.session
    PROVE  /\ Ways(s) = {Way(q, "queued")} /\ Ways(s)' = {Way(q, b.result)}
           /\ \A o \in Sessions \ {s} : Ways(o)' = Ways(o)
<1>1. queue \in Seq(RequestOf) /\ acks \in Seq(AnswerOf)
    BY Typed DEF FenceInv
<1>2. /\ queue' \in Seq(RequestOf)
      /\ \A i \in DOMAIN queue' : i + 1 \in DOMAIN queue /\ queue'[i] = queue[i + 1]
      /\ q = queue[1] /\ 1 \in DOMAIN queue
    BY <1>1, TailIndices
<1>3. /\ \A i \in DOMAIN acks' : i \in DOMAIN acks \/ i = Len(acks) + 1
      /\ \A i \in DOMAIN acks : acks'[i] = acks[i]
      /\ acks'[Len(acks) + 1] = b
    BY <1>1, AppendPlace
<1>4. DOMAIN acks \subseteq DOMAIN acks' /\ Len(acks) + 1 \in DOMAIN acks'
    BY <1>1, AppendProperties, LenProperties
<1>5. \A i \in DOMAIN queue' : i \in Nat \ {0}
    BY <1>2, LenProperties
<1>6. /\ \A i \in DOMAIN queue : queue[i].session = s => i = 1
      /\ \A i \in DOMAIN acks : acks[i].request.session # s
    BY <1>2 DEF FenceInv, OneRequest
<1>7. \A i \in DOMAIN queue' : queue'[i].session # s
    BY <1>2, <1>5, <1>6
<1>8. \A i \in DOMAIN queue : i = 1 \/ (\E j \in DOMAIN queue' : i = j + 1)
  <2>1. Len(queue) \in Nat \ {0} /\ DOMAIN queue = 1 .. Len(queue)
    BY <1>1, EmptySeq, LenProperties
  <2>2. DOMAIN queue' = 1 .. (Len(queue) - 1)
    BY <1>1, <1>2, <2>1, HeadTailProperties, LenProperties
  <2>3. ASSUME NEW i \in DOMAIN queue, i # 1
        PROVE  i - 1 \in DOMAIN queue' /\ i = (i - 1) + 1
    BY <2>1, <2>2, <2>3
  <2> QED
    BY <2>3
<1>9. Ways(s) = {Way(q, "queued")}
  <2>1. \A w : w \in Queues(s) <=> w = Way(q, "queued")
    BY <1>2, <1>6, WaysMember
  <2>2. \A w : w \notin Unread(s)
    BY <1>6, WaysMember
  <2>3. \A w : w \in Ways(s) <=> w = Way(q, "queued")
    BY <2>1, <2>2 DEF Ways
  <2> QED
    BY <2>3
<1>10. Ways(s)' = {Way(q, b.result)}
  <2>1. \A w : w \notin Queues(s)'
    BY <1>7, WaysMember
  <2>2. \A w : w \in Unread(s)' <=> w = Way(q, b.result)
    BY <1>3, <1>4, <1>6, WaysMember
  <2>3. \A w : w \in Ways(s)' <=> w = Way(q, b.result)
    BY <2>1, <2>2 DEF Ways
  <2> QED
    BY <2>3
<1>11. ASSUME NEW o \in Sessions \ {s} PROVE Ways(o)' = Ways(o)
  <2>1. \A w : w \in Queues(o) => w \in Queues(o)'
    <3> TAKE w
    <3> HAVE w \in Queues(o)
    <3>1. PICK i \in DOMAIN queue : queue[i].session = o /\ w = Way(queue[i], "queued")
      BY WaysMember
    <3>2. PICK j \in DOMAIN queue' : i = j + 1
      BY <1>2, <1>8, <3>1
    <3> QED
      BY <1>2, <3>1, <3>2, WaysMember
  <2>2. \A w : w \in Queues(o)' => w \in Queues(o)
    BY <1>2, WaysMember
  <2>3. \A w : w \in Unread(o) => w \in Unread(o)'
    <3> TAKE w
    <3> HAVE w \in Unread(o)
    <3>1. PICK i \in DOMAIN acks : /\ acks[i].request.session = o
                                   /\ w = Way(acks[i].request, acks[i].result)
      BY WaysMember
    <3>2. i \in DOMAIN acks' /\ acks'[i] = acks[i]
      BY <1>3, <1>4
    <3> QED
      BY <3>1, <3>2, WaysMember
  <2>4. \A w : w \in Unread(o)' => w \in Unread(o)
    <3> TAKE w
    <3> HAVE w \in Unread(o)'
    <3>1. PICK i \in DOMAIN acks' : /\ acks'[i].request.session = o
                                    /\ w = Way(acks'[i].request, acks'[i].result)
      BY WaysMember
    <3>2. i \in DOMAIN acks /\ acks'[i] = acks[i]
      BY <1>3, <3>1
    <3> QED
      BY <3>1, <3>2, WaysMember
  <2>5. Queues(o)' = Queues(o) /\ Unread(o)' = Unread(o)
    BY <2>1, <2>2, <2>3, <2>4
  <2> QED
    BY <2>5 DEF Ways
<1> QED
    BY <1>9, <1>10, <1>11

\* The answer of a transaction keeps what is known about the others.
LEMMA AnswerKeeps ==
    ASSUME FenceInv, FenceInv', DeliverInv, UNCHANGED <<run, player, accepted>>,
           NEW b \in AnswerOf, acks' = Append(acks, b), Commit,
           db'.run = db.run \/ db'.run = db.epoch + 1,
           Begins(b) => b.run = db.epoch + 1 /\ db'.run = db.epoch + 1,
           b.request.op = "save" /\ b.result = "applied" =>
              b.epoch = b.request.sample.epoch /\ b.run = b.request.sample.run,
           \A z \in Sessions : Delivery(z)', Recorded', quit' # "saved"
    PROVE  DeliverInv'
<1>1. /\ acks \in Seq(AnswerOf) /\ db.epoch \in Nat /\ db.run \in Nat
      /\ db'.epoch \in Nat /\ db'.run \in Nat
    BY Typed, TypedNext DEF FenceInv
<1>2. /\ Len(acks) + 1 \notin DOMAIN acks
      /\ \A i \in DOMAIN acks' : i \in DOMAIN acks \/ i = Len(acks) + 1
      /\ \A i \in DOMAIN acks : acks'[i] = acks[i]
      /\ acks'[Len(acks) + 1] = b
    BY <1>1, AppendPlace
<1>3. /\ \A o \in Sessions : run[o] # None => run[o].run \in Nat /\ run[o].run <= db.epoch
      /\ \A o \in Sessions : accepted[o] # None =>
            accepted[o].run \in Nat /\ accepted[o].run <= db.epoch
      /\ \A i \in DOMAIN acks : acks[i].run \in Nat /\ acks[i].run <= db.epoch
    BY RunsArePast
<1>4. \A i \in DOMAIN acks : i \in Nat /\ i <= Len(acks) /\ Len(acks) \in Nat
    BY <1>1, LenProperties
<1>5. ASSUME NEW i \in DOMAIN acks', Begins(acks'[i]) PROVE Later(i)'
  <2>1. CASE i \in DOMAIN acks
    <3>1. Later(i)
      BY <1>2, <1>5, <2>1 DEF DeliverInv, BeginsAreLater
    <3>2. acks'[i].run = acks[i].run /\ acks[i].run \in Nat /\ acks[i].run <= db.epoch
      BY <1>2, <1>3, <2>1
    <3>3. db'.run = 0 \/ acks'[i].run <= db'.run
      BY <1>1, <3>1, <3>2 DEF Later
    <3>4. \A j \in DOMAIN acks' : j < i => acks'[j].run < acks'[i].run
      <4> TAKE j \in DOMAIN acks'
      <4> HAVE j < i
      <4>1. j \in DOMAIN acks
        <5>1. ~(Len(acks) + 1 < i)
          BY <1>4, <2>1
        <5> QED
          BY <1>2, <5>1
      <4> QED
        BY <1>2, <3>1, <3>2, <4>1 DEF Later
    <3>5. /\ \A o \in Sessions : run'[o] # None => run'[o].run < acks'[i].run
          /\ \A o \in Sessions : accepted'[o] # None => accepted'[o].run < acks'[i].run
      BY <3>1, <3>2 DEF Later
    <3> QED
      BY <3>3, <3>4, <3>5 DEF Later
  <2>2. CASE i = Len(acks) + 1
    <3>1. acks'[i] = b /\ b.run = db.epoch + 1 /\ db'.run = b.run
      BY <1>2, <1>5, <2>2
    <3>2. \A j \in DOMAIN acks' : j < i => acks'[j].run < acks'[i].run
      <4> TAKE j \in DOMAIN acks'
      <4> HAVE j < i
      <4>1. j \in DOMAIN acks
        <5>1. Len(acks) \in Nat
          BY <1>1, LenProperties
        <5>2. j # Len(acks) + 1
          BY <2>2, <5>1
        <5> QED
          BY <1>2, <5>2
      <4>2. acks'[j].run \in Nat /\ acks'[j].run <= db.epoch
        BY <1>2, <1>3, <4>1
      <4> QED
        BY <1>1, <3>1, <4>2
    <3>3. \A m \in Nat : m <= db.epoch => m < acks'[i].run
      BY <1>1, <3>1
    <3>4. /\ \A o \in Sessions : run'[o] # None => run'[o].run < acks'[i].run
          /\ \A o \in Sessions : accepted'[o] # None => accepted'[o].run < acks'[i].run
      BY <1>3, <3>3
    <3>5. acks'[i].run <= db'.run
      BY <1>1, <3>1
    <3> QED
      BY <3>2, <3>4, <3>5 DEF Later
  <2> QED
    BY <1>2, <2>1, <2>2
<1>6. BeginsAreLater'
    BY <1>5 DEF BeginsAreLater, Begins
<1>7. SavesAgree'
    BY <1>2 DEF DeliverInv, SavesAgree
<1>8. \A z \in Sessions : Acceptance(z)'
    BY <1>1, AcceptanceKept
<1>9. FlushIsDone'
    BY DEF FlushIsDone
<1> QED
    BY <1>6, <1>7, <1>8, <1>9 DEF DeliverInv

\* Every session's part in the answer to a request.
LEMMA ExecuteDelivers ==
    ASSUME FenceInv, FenceInv', DeliverInv, UNCHANGED flushVars, Execute
    PROVE  DeliverInv'
<1> PICK q : q = Head(queue)
    OBVIOUS
<1>1. /\ queue \in Seq(RequestOf) /\ queue # <<>> /\ queue' = Tail(queue)
      /\ UNCHANGED <<run, player, accepted>>
      /\ run \in [Sessions -> RunOf \cup {None}] /\ player \in [Sessions -> WindowOf]
      /\ accepted \in [Sessions -> SampleOf \cup {None}]
    BY Typed DEF FenceInv, Execute, TypeOK
<1>2. /\ db \in RecordOf /\ db.run <= db.epoch /\ db.epoch \in Nat /\ db.run \in Nat
      /\ db'.epoch \in Nat /\ db'.run \in Nat
    BY RecordTyped, TypedNext
<1>3. q \in RequestOf /\ GoodRequest(q)
  <2>1. q = queue[1] /\ 1 \in DOMAIN queue
    BY <1>1, TailIndices
  <2>2. queue[1] \in RequestOf
    BY <1>1, <2>1, ElementOfSeq, LenProperties
  <2>3. GoodRequest(queue[1])
    BY <2>1 DEF FenceInv
  <2> QED
    BY <2>1, <2>2, <2>3
<1> PICK s : s = q.session
    OBVIOUS
<1>4. /\ s \in Sessions
      /\ q.op = "save" => q.sample \in SampleOf /\ Fenced(q.sample, s)
    BY <1>3, RequestFields DEF GoodRequest
<1>5. quit' # "saved"
    BY <1>1 DEF DeliverInv, FlushIsDone, Flushed, flushVars
<1>6. \A b \in AnswerOf : b.request = q /\ acks' = Append(acks, b) =>
         /\ Ways(s) = {Way(q, "queued")} /\ Ways(s)' = {Way(q, b.result)}
         /\ \A o \in Sessions \ {s} : Ways(o)' = Ways(o)
    BY <1>1, <1>4, ExecuteWays
<1>7. \A z \in Sessions : run[z] # None =>
         Delivers(z, run[z], player[z].seq, accepted[z], Ways(z)) /\ run[z] \in RunOf
    BY <1>1 DEF DeliverInv, Delivery
<1>8. \A z \in Sessions : accepted[z] # None =>
         /\ Fenced(accepted[z], z) /\ accepted[z].run # 0
         /\ accepted[z].epoch \in Nat /\ accepted[z].epoch <= db.epoch
    BY <1>1, <1>2 DEF DeliverInv, Acceptance, Fenced, SampleOf
\* An answer that leaves the record as it was.
<1>9. ASSUME NEW result \in {"applied", "stale", "error"}, UNCHANGED <<db, owner>>,
             acks' = Append(acks, [request |-> q, result |-> result,
                                   epoch |-> db.epoch, run |-> db.run]),
             q.op = "begin" => result = "error",
             q.op = "save" => result = "error" \/ (result = "stale" /\ IsStale(q.sample))
      PROVE  DeliverInv'
  <2>1. PICK b \in AnswerOf : b = [request |-> q, result |-> result,
                                   epoch |-> db.epoch, run |-> db.run]
    BY <1>2, <1>3 DEF AnswerOf
  <2>2. /\ b.request = q /\ b.result = result /\ b.epoch = db.epoch /\ b.run = db.run
        /\ acks' = Append(acks, b)
    BY <1>9, <2>1
  <2>3. Commit
    BY <1>2, <1>9 DEF Commit
  <2>4. ASSUME NEW z \in Sessions PROVE Delivery(z)'
    <3> PICK r, n, a, W, V :
          r = run[z] /\ n = player[z].seq /\ a = accepted[z] /\ W = Ways(z) /\ V = Ways(z)'
      OBVIOUS
    <3>1. r # None => Delivers(z, r, n, a, W)
      BY <1>7
    <3>2. r # None => Delivers(z, r, n, a, V)
      <4>1. CASE z = s
        <5> SUFFICES ASSUME r # None PROVE Delivers(z, r, n, a, V)
          OBVIOUS
        <5>1. W = {Way(q, "queued")} /\ V = {Way(q, result)}
          BY <1>6, <2>2, <4>1
        <5>2. q.op = "save" => result = "error" \/ (result = "stale" /\ ~Current(q.sample))
          <6> SUFFICES ASSUME q.op = "save", result # "error"
                       PROVE  result = "stale" /\ ~Current(q.sample)
            OBVIOUS
          <6>1. q.sample.run # 0
            <7> PICK w : w = Way(q, "queued")
              OBVIOUS
            <7>1. Saving(w) /\ w.request = q
              BY WayFields DEF Saving
            <7>2. Travels(z, w, r, n, a)
              BY <3>1, <5>1, <7>1 DEF Delivers
            <7> QED
              BY <7>1, <7>2 DEF Travels, Mine
          <6> QED
            BY <1>9, <6>1 DEF IsStale, Current
        <5> QED
          BY <3>1, <5>1, <5>2, AnswerDelivers
      <4>2. CASE z # s
        BY <1>6, <2>2, <3>1, <4>2
      <4> QED
        BY <4>1, <4>2
    <3>3. r # None => Delivers(z, r, n, a, V)'
      BY <1>9, <3>2, DeliversStays
    <3> QED
      BY <1>1, <3>3 DEF Delivery
  <2>5. Recorded'
    BY <1>1, <1>2, <1>9, <2>3, RecordedKept
  <2>6. Begins(b) => b.run = db.epoch + 1 /\ db'.run = db.epoch + 1
    BY <1>9, <2>2 DEF Begins
  <2>7. ~(b.request.op = "save" /\ b.result = "applied")
    BY <1>9, <2>2
  <2> QED
    BY <1>1, <1>5, <1>9, <2>2, <2>3, <2>4, <2>5, <2>6, <2>7, AnswerKeeps
\* A new run: nothing that was sent before is current.
<1>10. CASE /\ q.op = "begin" /\ db' = Begun(q.over)
            /\ acks' = Append(acks, [request |-> q, result |-> "applied",
                                     epoch |-> db'.epoch, run |-> db'.run])
  <2>1. /\ db'.epoch = db.epoch + 1 /\ db'.run = db.epoch + 1
        /\ db'.checkpoint \in {db.checkpoint, None}
    BY <1>2, <1>10 DEF Begun, RecordOf
  <2>2. PICK b \in AnswerOf : b = [request |-> q, result |-> "applied",
                                   epoch |-> db'.epoch, run |-> db'.run]
    BY <1>2, <1>3 DEF AnswerOf
  <2>3. /\ b.request = q /\ b.result = "applied" /\ b.run = db'.run
        /\ acks' = Append(acks, b)
    BY <1>10, <2>2
  <2>4. Commit
    BY <1>2, <2>1 DEF Commit
  <2>5. ASSUME NEW z \in Sessions PROVE Delivery(z)'
    <3> PICK r, n, a, W, V :
          r = run[z] /\ n = player[z].seq /\ a = accepted[z] /\ W = Ways(z) /\ V = Ways(z)'
      OBVIOUS
    <3>1. r # None => Delivers(z, r, n, a, W) /\ r \in RunOf
      BY <1>7
    <3>2. r # None => Delivers(z, r, n, a, V)
      <4>1. CASE z = s
        BY <1>6, <1>10, <2>3, <3>1, <4>1, AnswerDelivers
      <4>2. CASE z # s
        BY <1>6, <2>3, <3>1, <4>2
      <4> QED
        BY <4>1, <4>2
    <3>3. a # None => a.epoch \in Nat /\ a.epoch <= db.epoch
      BY <1>8
    <3>4. r # None => Delivers(z, r, n, a, V)'
      BY <1>2, <2>1, <3>1, <3>2, <3>3, NewEpochDelivers
    <3> QED
      BY <1>1, <3>4 DEF Delivery
  <2>6. Recorded'
    BY <1>1, <1>2, <2>1, <2>4, RecordedKept
  <2>7. b.request.op # "save"
    BY <1>10, <2>3
  <2>8. Begins(b) => b.run = db.epoch + 1 /\ db'.run = db.epoch + 1
    BY <2>1, <2>3
  <2> QED
    BY <1>1, <1>5, <2>1, <2>3, <2>4, <2>5, <2>6, <2>7, <2>8, AnswerKeeps
\* A checkpoint of the current run: it is its session's newest that was sent, and
\* no other session has one that is current.
<1>11. CASE /\ q.op = "save" /\ ~IsStale(q.sample) /\ db' = Saved(q.sample)
            /\ acks' = Append(acks, [request |-> q, result |-> "applied",
                                     epoch |-> db'.epoch, run |-> db'.run])
            /\ owner' = owner
  <2> PICK x \in SampleOf : x = q.sample
    BY <1>4, <1>11
  <2>1. /\ db'.epoch = db.epoch /\ db'.run = db.run /\ db'.checkpoint = x
    BY <1>2, <1>11 DEF Saved, RecordOf
  <2>2. PICK b \in AnswerOf : b = [request |-> q, result |-> "applied",
                                   epoch |-> db'.epoch, run |-> db'.run]
    BY <1>2, <1>3 DEF AnswerOf
  <2>3. /\ b.request = q /\ b.result = "applied" /\ b.run = db.run /\ b.epoch = db.epoch
        /\ acks' = Append(acks, b)
    BY <1>11, <2>1, <2>2
  <2>4. Commit
    BY <1>2, <1>11, <2>1 DEF Commit
  <2>5. /\ x.run # 0 /\ x.run = db.run /\ x.epoch = db.epoch /\ Current(x)
        /\ Fenced(x, s) /\ x.by = s /\ owner = s
    BY <1>4, <1>11 DEF IsStale, Current, Fenced
  <2>6. ASSUME NEW z \in Sessions PROVE Delivery(z)'
    <3> PICK r, n, a, W, V :
          r = run[z] /\ n = player[z].seq /\ a = accepted[z] /\ W = Ways(z) /\ V = Ways(z)'
      OBVIOUS
    <3>1. r # None => Delivers(z, r, n, a, W)
      BY <1>7
    <3>2. n \in Nat
      BY <1>1 DEF WindowOf
    <3>3. CASE z = s
      <4>1. W = {Way(q, "queued")} /\ V = {Way(q, "applied")}
        BY <1>6, <2>3, <3>3
      <4>2. Current(q.sample) /\ db'.checkpoint = q.sample
        BY <2>1, <2>5
      <4>3. r # None => Delivers(z, r, n, a, V)'
        BY <1>11, <2>1, <3>1, <3>2, <4>1, <4>2, SavedDelivers
      <4> QED
        BY <1>1, <4>3 DEF Delivery
    <3>4. CASE z # s
      <4>1. V = W
        BY <1>6, <2>3, <3>4
      <4>2. a # None => ~Current(a)
        BY <1>8, <2>5, <3>4 DEF Fenced, Current
      <4>3. \A w \in W : Saving(w) => ~Current(w.request.sample)
        <5> SUFFICES ASSUME NEW w \in W, Saving(w), Current(w.request.sample) PROVE FALSE
          OBVIOUS
        <5>1. w.request \in RequestOf /\ w.request.session = z /\ GoodRequest(w.request)
          BY WaysTyped
        <5>2. Fenced(w.request.sample, z)
          BY <5>1 DEF GoodRequest, Saving
        <5> QED
          BY <2>5, <3>4, <5>2 DEF Fenced, Current
      <4>4. db'.checkpoint.by # z
        BY <2>1, <2>5, <3>4
      <4>5. r # None => Delivers(z, r, n, a, W)'
        BY <2>1, <3>1, <4>2, <4>3, <4>4, OtherSavedDelivers
      <4> QED
        BY <1>1, <4>1, <4>5 DEF Delivery
    <3> QED
      BY <3>3, <3>4
  <2>7. Recorded'
    <3>1. Fenced(x, s)'
      BY <1>2, <1>4, <2>4, <2>5, FencedKept
    <3>2. x.seq <= player[s].seq
      <4> PICK w : w = Way(q, "queued")
        OBVIOUS
      <4>1. Saving(w) /\ w.request.sample = x
        BY <1>11, WayFields DEF Saving
      <4>2. run[s] # None
        BY <1>3, <1>11 DEF GoodRequest
      <4>3. w \in Ways(s)
        BY <1>6, <2>3
      <4>4. Travels(s, w, run[s], player[s].seq, accepted[s])
        BY <1>4, <1>7, <4>1, <4>2, <4>3 DEF Delivers
      <4> QED
        BY <4>1, <4>4 DEF Travels, Mine
    <3> QED
      BY <1>1, <2>1, <2>5, <3>1, <3>2 DEF Recorded
  <2>8. b.epoch = b.request.sample.epoch /\ b.run = b.request.sample.run
    BY <2>3, <2>5
  <2>9. ~Begins(b)
    BY <1>11, <2>3 DEF Begins
  <2> QED
    BY <1>1, <1>5, <2>1, <2>3, <2>4, <2>6, <2>7, <2>8, <2>9, AnswerKeeps
<1> QED
    BY <1>2, <1>9, <1>10, <1>11 DEF Execute, Answer

\* Nothing is under way, and no window has taken a checkpoint.
LEMMA InitDelivers == Init => DeliverInv
<1> SUFFICES ASSUME Init PROVE DeliverInv
    OBVIOUS
<1>1. /\ acks = <<>> /\ queue = <<>> /\ quit = "no" /\ db.checkpoint = None
      /\ \A s \in Sessions : run[s] = None /\ accepted[s] = None
    BY DEF Init
<1>2. DOMAIN acks = {}
    BY <1>1, EmptySeq
<1>3. BeginsAreLater /\ SavesAgree /\ Recorded /\ FlushIsDone
    BY <1>1, <1>2 DEF BeginsAreLater, SavesAgree, Recorded, FlushIsDone
<1>4. \A s \in Sessions : Delivery(s) /\ Acceptance(s)
    BY <1>1 DEF Delivery, Acceptance
<1> QED
    BY <1>3, <1>4 DEF DeliverInv

\* A step of the flush that takes no sample.
LEMMA StillDelivers ==
    ASSUME FenceInv, DeliverInv, UNCHANGED <<db, queue, acks, run, player, faults, history>>,
           FlushIsDone'
    PROVE  DeliverInv'
<1>1. UNCHANGED <<owner, accepted>>
    BY DEF history
<1>2. \A z : Ways(z)' = Ways(z)
    BY DEF Ways, Queues, Unread
<1>3. \A z \in Sessions : Delivery(z)' /\ Acceptance(z)'
    BY <1>1, <1>2, OthersDeliver DEF DeliverInv
<1>4. BeginsAreLater' /\ SavesAgree'
    BY <1>1, LaterStays
<1>5. Recorded'
    BY <1>1 DEF DeliverInv, Recorded, Fenced
<1> QED
    BY <1>3, <1>4, <1>5 DEF DeliverInv

\* Every step keeps delivery in order.
LEMMA DeliveryStep == FenceInv /\ FenceInv' /\ DeliverInv /\ [Next]_vars => DeliverInv'
<1> SUFFICES ASSUME FenceInv, FenceInv', DeliverInv, [Next]_vars PROVE DeliverInv'
    OBVIOUS
<1>1. CASE UNCHANGED vars
  <2>1. FlushIsDone'
    BY <1>1 DEF vars, flushVars, DeliverInv, FlushIsDone, Flushed
  <2> QED
    BY <1>1, <2>1, StillDelivers DEF vars
<1>2. CASE Worker
    BY <1>2, ExecuteDelivers, RecordActsDeliver DEF Worker
<1>3. CASE MainThread
  <2>1. quit' # "saved"
    BY <1>3 DEF MainThread, flushVars
  <2> QED
    BY <1>3, <2>1, UserDelivers, WindowActsDeliver, RetryDueDelivers, ForgetDelivers,
       OpenAnsweredDelivers, BeginAnsweredDelivers, SaveAnsweredDelivers,
       SaveFailedDelivers DEF MainThread, Answered
<1>4. CASE BeginFlush \/ EndFlush
  <2>1. FlushIsDone'
    BY <1>4 DEF BeginFlush, EndFlush, FlushIsDone, Flushed
  <2> QED
    BY <1>4, <2>1, StillDelivers DEF BeginFlush, EndFlush
<1>5. CASE \E s \in Sessions : FinalSample(s)
  <2> PICK s \in Sessions : FinalSample(s)
    BY <1>5
  <2>1. quit' # "saved"
    BY DEF FinalSample, DeliverInv, FlushIsDone
  <2> PICK w : w = player[s]
    OBVIOUS
  <2>2. w \in WindowOf /\ Flush(s, w)
    BY Typed DEF FinalSample, FenceInv
  <2> QED
    BY <2>1, <2>2, FlushDelivers
<1> QED
    BY <1>1, <1>2, <1>3, <1>4, <1>5 DEF Next

\* Every checkpoint that a window took is accounted for on its way to the record.
THEOREM AlwaysDelivered == Spec => []DeliverInv
<1>1. FenceInv /\ FenceInv' /\ DeliverInv /\ [Next]_vars => DeliverInv'
    BY DeliveryStep
<1> QED
    BY <1>1, InitDelivers, AlwaysFenced, PTL DEF Spec

-----------------------------------------------------------------------------
(* What the invariant gives                                                  *)

\* One request at most is outstanding, and exactly one of a busy run.
LEMMA OneOutstanding ==
    ASSUME FenceInv, DeliverInv, NEW s \in Sessions
    PROVE  Cardinality(Outstanding(s)) = IF run[s] # None /\ run[s].busy THEN 1 ELSE 0
<1>1. queue \in Seq(RequestOf) /\ acks \in Seq(AnswerOf)
    BY Typed DEF FenceInv
<1>2. /\ \A i \in DOMAIN queue : i \in Nat \ {0}
      /\ \A i \in DOMAIN acks : i \in Nat \ {0}
    BY <1>1, LenProperties
<1>3. \A e : e \in Outstanding(s) <=>
         \/ e \in DOMAIN queue /\ queue[e].session = s /\ queue[e].op # "read"
         \/ \E i \in DOMAIN acks : /\ e = -i /\ acks[i].request.session = s
                                   /\ acks[i].request.op # "read"
    BY DEF Outstanding
<1>4. \A e, f \in Outstanding(s) : e = f
    BY <1>3 DEF FenceInv, OneRequest
<1>5. /\ \A i \in DOMAIN queue : GoodRequest(queue[i])
      /\ \A i \in DOMAIN acks : GoodRequest(acks[i].request)
    BY DEF FenceInv
<1>6. CASE run[s] # None /\ run[s].busy
  <2>1. PICK w : w \in Ways(s)
    BY <1>6 DEF DeliverInv, Delivery, Delivers
  <2>2. player[s].phase \notin Early
    BY <1>6, KnownRun
  <2>3. \E e : e \in Outstanding(s)
    <3>1. CASE \E i \in DOMAIN queue : queue[i].session = s
      <4> PICK i \in DOMAIN queue : queue[i].session = s
        BY <3>1
      <4>1. queue[i].op # "read"
        BY <1>5, <2>2 DEF GoodRequest, Early
      <4> QED
        BY <1>3, <4>1
    <3>2. CASE \E i \in DOMAIN acks : acks[i].request.session = s
      <4> PICK i \in DOMAIN acks : acks[i].request.session = s
        BY <3>2
      <4>1. acks[i].request.op # "read"
        BY <1>5, <2>2 DEF GoodRequest, Early
      <4> QED
        BY <1>3, <4>1
    <3> QED
      BY <2>1, <3>1, <3>2, WaysMember DEF Ways
  <2>4. PICK e : Outstanding(s) = {e}
    BY <1>4, <2>3
  <2> QED
    BY <1>6, <2>4, FS_Singleton
<1>7. CASE ~(run[s] # None /\ run[s].busy)
  <2>1. \A e : e \notin Outstanding(s)
    BY <1>3, <1>5, <1>7 DEF GoodRequest
  <2>2. Outstanding(s) = {}
    BY <2>1
  <2> QED
    BY <1>7, <2>2, FS_EmptySet
<1> QED
    BY <1>6, <1>7

\* PlaybackProgress.DeliveryAccounted: a run has exactly the one request in flight that
\* its flag says, and the newest checkpoint accepted of it is in the record, on its way
\* or waiting while it is current, through failures, refusals and retries.
THEOREM AlwaysAccounted == Spec => []DeliveryAccounted
<1>1. FenceInv /\ DeliverInv => OneInFlight
    BY OneOutstanding DEF OneInFlight
<1>2. FenceInv /\ DeliverInv => NewestSampleKept
  <2> SUFFICES ASSUME FenceInv, DeliverInv, NEW s \in Sessions, run[s] # None,
                      accepted[s] # None, Current(accepted[s])
               PROVE  \/ accepted[s] = db.checkpoint \/ accepted[s] = run[s].latest
                      \/ accepted[s] \in InFlightSamples
    BY DEF NewestSampleKept, Current
  <2>1. Delivers(s, run[s], player[s].seq, accepted[s], Ways(s))
    BY DEF DeliverInv, Delivery
  <2>2. CASE run[s].latest # None
    BY <2>1, <2>2 DEF Delivers
  <2>3. CASE run[s].latest = None /\ \A w \in Ways(s) : ~Saving(w)
    BY <2>1, <2>3 DEF Delivers
  <2>4. CASE run[s].latest = None /\ \E w \in Ways(s) : Saving(w)
    <3> PICK w \in Ways(s) : Saving(w)
      BY <2>4
    <3>1. w.request.sample = accepted[s]
      BY <2>1, <2>4 DEF Delivers, Travels
    <3>2. CASE \E i \in DOMAIN queue : w = Way(queue[i], "queued")
      BY <3>1, <3>2, WayFields DEF Saving, InFlightSamples
    <3>3. CASE \E i \in DOMAIN acks : w = Way(acks[i].request, acks[i].result)
      BY <3>1, <3>3, WayFields DEF Saving, InFlightSamples
    <3> QED
      BY <3>2, <3>3, WaysMember DEF Ways
  <2> QED
    BY <2>2, <2>3, <2>4
<1> QED
    BY <1>1, <1>2, AlwaysFenced, AlwaysDelivered, PTL DEF DeliveryAccounted

\* PlaybackProgress.FlushSaves: once the final flush has ended in time, the newest
\* checkpoint accepted of each run is in the record, if it is still current.
THEOREM AlwaysFlushed == Spec => []FlushSaves
<1>1. FenceInv /\ DeliverInv => FlushSaves
  <2> SUFFICES ASSUME FenceInv, DeliverInv, quit = "saved", NEW s \in Sessions,
                      run[s] # None, accepted[s] # None, Current(accepted[s])
               PROVE  accepted[s] = db.checkpoint
    BY DEF FlushSaves, Current
  <2>1. queue = <<>> /\ acks = <<>> /\ run[s].latest = None
    BY DEF DeliverInv, FlushIsDone, Flushed
  <2>2. Free(s)
    BY <2>1, EmptySeq DEF Free
  <2>3. Ways(s) = {}
    BY <2>2, FreeHasNone
  <2>4. Delivers(s, run[s], player[s].seq, accepted[s], Ways(s))
    BY DEF DeliverInv, Delivery
  <2> QED
    BY <2>1, <2>3, <2>4 DEF Delivers
<1> QED
    BY <1>1, AlwaysFenced, AlwaysDelivered, PTL

\* PlaybackProgress.CheckpointsInOrder: within a run the record only goes on to later
\* checkpoints, whatever failed, was refused or was sent again.
THEOREM AlwaysInOrder == Spec => CheckpointsInOrder
<1>1. FenceInv /\ DeliverInv /\ [Next]_vars =>
        (Writes /\ db.checkpoint # None =>
            \/ db'.checkpoint.run # db.checkpoint.run
            \/ db'.checkpoint.seq > db.checkpoint.seq)
  <2> SUFFICES ASSUME FenceInv, DeliverInv, [Next]_vars, Writes, db.checkpoint # None,
                      db'.checkpoint.run = db.checkpoint.run
               PROVE  db'.checkpoint.seq > db.checkpoint.seq
    OBVIOUS
  <2> PICK q \in RequestOf : q = Head(queue)
    BY WriteIsFencedSave
  <2> PICK x, s : x = q.sample /\ s = q.session
    OBVIOUS
  <2>1. /\ q.op = "save" /\ ~IsStale(x) /\ db'.checkpoint = x /\ Fenced(x, s)
        /\ queue # <<>> /\ s \in Sessions /\ x \in SampleOf
    BY WriteIsFencedSave, RequestFields DEF Execute
  <2>2. /\ db.checkpoint.by = s /\ db.checkpoint \in SampleOf
    <3>1. Fenced(db.checkpoint, db.checkpoint.by)
      BY DEF DeliverInv, Recorded
    <3> QED
      BY <2>1, <3>1 DEF IsStale, Fenced, FenceInv, TypeOK
  <2>3. GoodRequest(q) /\ Way(q, "queued") \in Ways(s)
    <3>1. queue \in Seq(RequestOf)
      BY Typed DEF FenceInv
    <3>2. q = queue[1] /\ 1 \in DOMAIN queue
      BY <2>1, <3>1, TailIndices
    <3>3. Way(q, "queued") \in Queues(s)
      BY <3>2, WaysMember
    <3> QED
      BY <3>2, <3>3 DEF FenceInv, Ways
  <2>4. run[s] # None
    BY <2>1, <2>3 DEF GoodRequest
  <2> PICK w : w = Way(q, "queued")
    OBVIOUS
  <2>5. Saving(w) /\ w.request.sample = x /\ w.result = "queued"
    BY <2>1, WayFields DEF Saving
  <2>6. Travels(s, w, run[s], player[s].seq, accepted[s])
    BY <2>1, <2>3, <2>4, <2>5 DEF DeliverInv, Delivery, Delivers
  <2>7. db.checkpoint.seq < x.seq
    BY <2>2, <2>5, <2>6 DEF Travels, Unsaved
  <2> QED
    BY <2>1, <2>2, <2>7 DEF SampleOf
<1> QED
    BY <1>1, AlwaysFenced, AlwaysDelivered, PTL DEF Spec, CheckpointsInOrder

-----------------------------------------------------------------------------
(* Agreement: while no request fails, windows and coordinator hold the same   *)

Paused == {"ready", "reset", "closed"}

\* What asks for a new run of the session: a request of it, or what waits behind one.
Asking(r, W) ==
    \/ r # None /\ r.ready # None
    \/ \E w \in W : w.request.op = "begin"

\* A window samples by the authority of its run, unless it waits for a new one; then
\* it is paused, it asks for that run once, and the answer moves it on with the run.
Agree(r, p, W) ==
    /\ ~p.notice
    /\ \A w \in W : w.result # "error"
    /\ Asking(r, W) => p.phase \in Paused
    /\ r # None /\ r.ready # None => \A w \in W : w.request.op # "begin"
    /\ r # None /\ p.phase = "active" /\ p.auth => p.epoch = r.epoch /\ p.run = r.run

AgreeInv == faults = 0 => \A s \in Sessions : Agree(run[s], player[s], Ways(s))

\* A step that touches one session and keeps its agreement.
LEMMA OneAgrees ==
    ASSUME AgreeInv, NEW s \in Sessions, faults' = 0 => faults = 0,
           \A o \in Sessions \ {s} :
              Ways(o)' = Ways(o) /\ run'[o] = run[o] /\ player'[o] = player[o],
           NEW r, NEW p, NEW W, run'[s] = r, player'[s] = p, Ways(s)' = W,
           faults' = 0 => Agree(r, p, W)
    PROVE  AgreeInv'
<1> SUFFICES ASSUME faults' = 0, NEW o \in Sessions
             PROVE  Agree(run'[o], player'[o], Ways(o)')
    BY DEF AgreeInv
<1>1. CASE o = s
    BY <1>1
<1>2. CASE o # s
    BY <1>2 DEF AgreeInv
<1> QED
    BY <1>1, <1>2

\* What a submission sends is all that is new under way.
LEMMA SentWays ==
    ASSUME FenceInv, NEW s \in Sessions, NEW W,
           \/ acks' = acks /\ W = Ways(s)
           \/ Answers(s) /\ W = {},
           NEW sent, queue' = queue \o sent,
           sent = <<>> \/ \E q \in RequestOf : q.session = s /\ sent = <<q>>
    PROVE  /\ \A z \in Sessions \ {s} : Ways(z)' = Ways(z)
           /\ \/ sent = <<>> /\ Ways(s)' = W
              \/ \E q \in RequestOf : /\ q.session = s /\ sent = <<q>>
                                      /\ Ways(s)' = W \cup {Way(q, "queued")}
<1>1. queue \in Seq(RequestOf)
    BY Typed DEF FenceInv
<1>2. /\ Queues(s) \cup Unread(s)' = W
      /\ \A z \in Sessions \ {s} : Unread(z)' = Unread(z)
  <2>1. CASE acks' = acks /\ W = Ways(s)
    BY <2>1 DEF Ways, Unread
  <2>2. CASE Answers(s) /\ W = {}
    BY <2>2, UnreadTaken
  <2> QED
    BY <2>1, <2>2
<1>3. CASE sent = <<>>
  <2>1. queue' = queue
    BY <1>1, <1>3, ConcatEmptySeq
  <2>2. \A z : Queues(z)' = Queues(z)
    BY <2>1 DEF Queues
  <2> QED
    BY <1>2, <1>3, <2>2 DEF Ways
<1>4. CASE \E q \in RequestOf : q.session = s /\ sent = <<q>>
  <2> PICK q \in RequestOf : q.session = s /\ sent = <<q>>
    BY <1>4
  <2>1. queue' = Append(queue, q)
    BY <1>1, AppendIsConcat
  <2>2. /\ Queues(s)' = Queues(s) \cup {Way(q, "queued")}
        /\ \A z \in Sessions \ {s} : Queues(z)' = Queues(z)
    BY <1>1, <2>1, QueuesSent
  <2>3. Ways(s)' = W \cup {Way(q, "queued")}
    BY <1>2, <2>2 DEF Ways
  <2>4. \A z \in Sessions \ {s} : Ways(z)' = Ways(z)
    BY <1>2, <2>2 DEF Ways
  <2> QED
    BY <2>3, <2>4
<1> QED
    BY <1>3, <1>4

\* What is under way beside what a submission sends.
Grows(o, W, V) ==
    \/ o.sent = <<>> /\ V = W
    \/ \E q \in RequestOf : o.sent = <<q>> /\ V = W \cup {Way(q, "queued")}

\* The submission asks for a new run only if one was asked for, and only once.
AsksOnce(r, asked, o, W, V) ==
    /\ Asking(o.run, V) => Asking(r, W) \/ asked # {}
    /\ \A w \in V : w \in W \/ w.result = "queued"
    /\ o.run.ready # None => r.ready # None \/ asked # {}
    /\ o.run.ready # None => \A w \in V : w \in W \/ w.request.op # "begin"

\* No submission asks twice.
LEMMA SubmissionAsks ==
    ASSUME NEW s, NEW r \in RunOf, NEW p \in RunOf, NEW asked, NEW o, Outcome(s, p, asked, o),
           p.ready \in {r.ready, None}, asked # {} => p.ready = None, NEW W, NEW V,
           Grows(o, W, V)
    PROVE  AsksOnce(r, asked, o, W, V)
<1>1. o.run.ready # None => r.ready # None \/ asked # {}
    BY DEF Outcome
<1>2. r # None
    BY AbsenceAssumption
<1>3. o.sent = <<>> \/ \E q \in RequestOf : Sendable(s, p, asked, q) /\ o.sent = <<q>>
    BY DEF Outcome
<1>4. CASE o.sent = <<>> /\ V = W
    BY <1>1, <1>2, <1>4 DEF Asking, AsksOnce
<1>5. CASE \E q \in RequestOf : o.sent = <<q>> /\ V = W \cup {Way(q, "queued")}
  <2> PICK q \in RequestOf : o.sent = <<q>> /\ V = W \cup {Way(q, "queued")}
    BY <1>5
  <2>1. Sendable(s, p, asked, q)
    BY <1>3
  <2> PICK w : w = Way(q, "queued")
    OBVIOUS
  <2>2. w.request = q /\ w.result = "queued"
    BY WayFields
  <2>3. q.op = "begin" => asked # {}
    BY <2>1 DEF Sendable
  <2>4. Asking(o.run, V) => Asking(r, W) \/ asked # {}
    BY <1>1, <1>2, <2>2, <2>3 DEF Asking
  <2>6. o.run.ready # None => q.op # "begin"
    BY <1>5, <2>3 DEF Outcome
  <2> QED
    BY <1>1, <1>5, <2>2, <2>4, <2>6 DEF AsksOnce
<1> QED
    BY <1>4, <1>5 DEF Grows

\* Storing a submission of session s, whose window becomes w.
LEMMA SubmissionAgrees ==
    ASSUME FenceInv, AgreeInv, NEW s \in Sessions,
           NEW r \in RunOf, NEW p \in RunOf, NEW asked, NEW o,
           Moves(s, r, o), Outcome(s, p, asked, o), p.ready \in {r.ready, None},
           asked # {} => p.ready = None,
           NEW w \in WindowOf, Settled(s, o, [player EXCEPT ![s] = w]),
           NEW W, \/ acks' = acks /\ W = Ways(s)
                  \/ Answers(s) /\ W = {},
           faults = 0 => Agree(r, w, W),
           faults = 0 /\ asked # {} =>
              w.phase \in Paused /\ \A y \in W : y.request.op # "begin"
    PROVE  AgreeInv'
<1>1. /\ player \in [Sessions -> WindowOf] /\ run \in [Sessions -> RunOf \cup {None}]
      /\ faults \in Nat
    BY Typed DEF FenceInv, TypeOK
<1>2. /\ run'[s] = o.run /\ o.run.epoch = r.epoch /\ o.run.run = r.run
      /\ \A z \in Sessions \ {s} : run'[z] = run[z] /\ player'[z] = player[z]
    BY <1>1 DEF Settled, Moves
<1>3. faults' = 0 => faults = 0 /\ player'[s] = w
  <2>1. CASE o.refused
    BY <1>1, <2>1 DEF Settled
  <2>2. CASE ~o.refused
    BY <1>1, <2>2 DEF Settled
  <2> QED
    BY <2>1, <2>2
<1>4. queue' = queue \o o.sent
    BY DEF Settled
<1>5. o.sent = <<>> \/ \E q \in RequestOf : q.session = s /\ o.sent = <<q>>
    BY DEF Outcome, Sendable
<1>6. PICK sent : sent = o.sent
    OBVIOUS
<1>7. /\ \A z \in Sessions \ {s} : Ways(z)' = Ways(z)
      /\ \/ o.sent = <<>> /\ Ways(s)' = W
         \/ \E q \in RequestOf : o.sent = <<q>> /\ Ways(s)' = W \cup {Way(q, "queued")}
  <2>1. /\ \A z \in Sessions \ {s} : Ways(z)' = Ways(z)
        /\ \/ sent = <<>> /\ Ways(s)' = W
           \/ \E q \in RequestOf : /\ q.session = s /\ sent = <<q>>
                                   /\ Ways(s)' = W \cup {Way(q, "queued")}
    <3>1. \/ acks' = acks /\ W = Ways(s)
          \/ Answers(s) /\ W = {}
      OBVIOUS
    <3>2. /\ queue' = queue \o sent
          /\ sent = <<>> \/ \E q \in RequestOf : q.session = s /\ sent = <<q>>
      BY <1>4, <1>5, <1>6
    <3> QED
      BY ONLY FenceInv, s \in Sessions, <3>1, <3>2, SentWays
  <2> QED
    BY <1>6, <2>1
<1> PICK V : V = Ways(s)'
    OBVIOUS
<1>8. AsksOnce(r, asked, o, W, V)
  <2>1. Grows(o, W, V)
    BY <1>7 DEF Grows
  <2> QED
    BY ONLY s \in Sessions, r \in RunOf, p \in RunOf, Outcome(s, p, asked, o),
       p.ready \in {r.ready, None}, asked # {} => p.ready = None, <2>1, SubmissionAsks
<1>9. ASSUME faults' = 0 PROVE Agree(o.run, w, V)
  <2>1. /\ Agree(r, w, W)
        /\ asked # {} => w.phase \in Paused /\ \A y \in W : y.request.op # "begin"
    BY <1>3, <1>9
  <2>2. r # None
    BY AbsenceAssumption
  <2> QED
    BY <1>2, <1>8, <2>1, <2>2 DEF Agree, AsksOnce
<1> PICK v : v = player'[s]
    OBVIOUS
<1>10. faults' = 0 => Agree(o.run, v, V)
    BY <1>3, <1>9
<1> QED
    BY <1>2, <1>3, <1>7, <1>10, OneAgrees

\* What a step leaves of a run and of a window as far as they must agree.
LEMMA AgreeSame ==
    ASSUME NEW r \in RunOf, NEW u \in RunOf, NEW p, NEW w, NEW W, Agree(r, p, W),
           u.epoch = r.epoch, u.run = r.run, u.ready = r.ready,
           w.phase = p.phase, w.epoch = p.epoch, w.run = p.run, w.auth = p.auth,
           w.notice = p.notice
    PROVE  Agree(u, w, W)
<1>1. r # None /\ u # None
    BY AbsenceAssumption
<1> QED
    BY <1>1 DEF Agree, Asking

\* A step that changes only what a window holds.
LEMMA WindowAgrees ==
    ASSUME FenceInv, AgreeInv, NEW s \in Sessions, UNCHANGED <<queue, acks, run, faults>>,
           NEW w, player' = [player EXCEPT ![s] = w],
           faults = 0 => Agree(run[s], w, Ways(s))
    PROVE  AgreeInv'
<1>1. player \in [Sessions -> WindowOf]
    BY Typed DEF FenceInv
<1>2. \A z \in Sessions : Ways(z)' = Ways(z)
    BY DEF Ways, Queues, Unread
<1>3. player'[s] = w /\ \A z \in Sessions \ {s} : player'[z] = player[z]
    BY <1>1
<1> PICK r, W : r = run[s] /\ W = Ways(s)
    OBVIOUS
<1>4. run'[s] = r /\ player'[s] = w /\ Ways(s)' = W /\ (faults' = 0 => Agree(r, w, W))
    BY <1>2, <1>3
<1> QED
    BY <1>2, <1>3, <1>4, OneAgrees

-----------------------------------------------------------------------------
(* Windows agree                                                             *)

\* A failure that was seen is never forgotten.
LEMMA FaultsStay ==
    ASSUME FenceInv, NEW s, NEW o, o.refused \in BOOLEAN, NEW windows,
           Settled(s, o, windows), faults # 0
    PROVE  AgreeInv'
<1>1. faults \in Nat
    BY DEF FenceInv, TypeOK
<1>2. faults' # 0
    BY <1>1 DEF Settled
<1> QED
    BY <1>2 DEF AgreeInv

\* A window that ends its preparation asks for its run.
LEMMA ReadyAgrees ==
    ASSUME FenceInv, AgreeInv, NEW s \in Sessions, player[s].phase = "start",
           NEW w \in WindowOf, w.phase \in {"ready", "reset"}, w.notice = player[s].notice,
           NEW ready \in ReadyOf, NEW o \in ProgressReady(s, run[s], ready),
           Settled(s, o, [player EXCEPT ![s] = w]), acks' = acks
    PROVE  AgreeInv'
<1>1. run[s] # None /\ run[s] \in RunOf /\ player[s] \in WindowOf
    BY KnownRun DEF Early
<1> PICK r, W, asked : r = run[s] /\ W = Ways(s) /\ asked = {ready}
    OBVIOUS
<1>2. Moves(s, r, o) /\ Outcome(s, r, asked, o) /\ r \in RunOf /\ r.ready \in {r.ready, None}
    BY <1>1, ProgressReadyMoves, ProgressReadyOutcome
<1>3. CASE faults = 0
  <2>1. Agree(run[s], player[s], Ways(s))
    BY <1>3 DEF AgreeInv
  <2>2. w.phase \in Paused /\ w.phase # "active" /\ player[s].phase \notin Paused
    BY DEF Paused
  <2>3. ~Asking(r, W)
    BY <2>1, <2>2 DEF Agree
  <2>4. Agree(r, w, W)
    BY <2>1, <2>2 DEF Agree
  <2>5. asked # {} => r.ready = None
    BY <1>1, <2>3 DEF Asking
  <2>6. faults = 0 /\ asked # {} =>
           w.phase \in Paused /\ \A y \in W : y.request.op # "begin"
    BY <2>2, <2>3 DEF Asking
  <2> QED
    BY <1>2, <2>4, <2>5, <2>6, SubmissionAgrees
<1>4. CASE faults # 0
    BY <1>2, <1>4, FaultsStay DEF Outcome, OutcomeOf
<1> QED
    BY <1>3, <1>4

\* Preparation ends.
LEMMA BecomesReadyAgrees ==
    ASSUME FenceInv, AgreeInv, NEW s \in Sessions, NEW over \in BOOLEAN,
           BecomesReady(s, over)
    PROVE  AgreeInv'
<1> DEFINE phase == IF over THEN "reset" ELSE "ready"
           w == [player[s] EXCEPT !.phase = phase, !.over = over]
           ready == [epoch |-> player[s].epoch, over |-> over]
<1>1. player \in [Sessions -> WindowOf] /\ player[s].phase = "start"
    BY Typed DEF FenceInv, BecomesReady
<1>2. phase \in {"ready", "reset"}
    OBVIOUS
<1>3. [player EXCEPT ![s].phase = phase, ![s].over = over] = [player EXCEPT ![s] = w]
    BY <1>1 DEF WindowOf
<1>4. PICK o \in ProgressReady(s, run[s], ready) : Settled(s, o, [player EXCEPT ![s] = w])
    BY <1>3 DEF BecomesReady
<1> HIDE DEF phase
<1>5. w \in WindowOf /\ w.phase = phase /\ w.notice = player[s].notice
    BY <1>1, <1>2 DEF WindowOf, Phases
<1>6. ready \in ReadyOf
    BY <1>1 DEF ReadyOf, WindowOf
<1>7. acks' = acks
    BY DEF BecomesReady
<1> HIDE DEF w, ready
<1> QED
    BY <1>1, <1>2, <1>4, <1>5, <1>6, <1>7, ReadyAgrees

\* "Retry saving" follows a failure.
LEMMA RetryProgressReadyAgrees ==
    ASSUME FenceInv, AgreeInv, NEW s \in Sessions, RetryProgressReady(s)
    PROVE  AgreeInv'
<1>1. faults # 0
    BY DEF AgreeInv, Agree, RetryProgressReady, NotSaving
<1>2. /\ player[s] \in WindowOf /\ run[s] \in RunOf
      /\ player[s].phase \in {"ready", "reset"}
    BY KnownRun DEF RetryProgressReady, NotSaving, Early
<1> DEFINE ready == [epoch |-> player[s].epoch, over |-> player[s].phase = "reset"]
<1>3. ready \in ReadyOf
    BY <1>2 DEF ReadyOf, WindowOf
<1>4. PICK o \in ProgressReady(s, run[s], ready) :
         Settled(s, o, [player EXCEPT ![s].notice = FALSE])
    BY DEF RetryProgressReady
<1> HIDE DEF ready
<1>5. o.refused \in BOOLEAN
  <2>1. Outcome(s, run[s], {ready}, o)
    BY <1>2, <1>3, <1>4, ProgressReadyOutcome
  <2> QED
    BY <2>1 DEF Outcome, OutcomeOf
<1> QED
    BY <1>1, <1>4, <1>5, FaultsStay

\* A submission of the checkpoint that waits asks for no run.
LEMMA LatestAgrees ==
    ASSUME FenceInv, AgreeInv, NEW s \in Sessions, run[s] # None,
           NEW r \in RunOf, r.epoch = run[s].epoch, r.run = run[s].run,
           r.ready = run[s].ready, NEW o, o \in SendLatest(s, r) \/ o = Kept(r),
           NEW p \in WindowOf, faults = 0 => Agree(run[s], p, Ways(s)), NEW w \in WindowOf,
           w.phase = p.phase, w.epoch = p.epoch, w.run = p.run, w.auth = p.auth,
           w.notice = p.notice, Settled(s, o, [player EXCEPT ![s] = w]), acks' = acks
    PROVE  AgreeInv'
<1> PICK W, asked : W = Ways(s) /\ asked = {}
    OBVIOUS
<1>1. Moves(s, r, o) /\ r.ready \in {r.ready, None}
    BY SendLatestMoves, KeptMoves
<1>2. Outcome(s, r, asked, o)
  <2>1. CASE o \in SendLatest(s, r)
    BY <2>1, SendLatestOutcome
  <2>2. CASE o = Kept(r)
    BY <2>2, OutcomeTyped DEF Outcome, Kept
  <2> QED
    BY <2>1, <2>2
<1>3. run[s] \in RunOf
    BY KnownRun
<1>4. faults = 0 => Agree(r, w, W)
    BY <1>3, AgreeSame
<1>5. faults = 0 /\ asked # {} =>
         w.phase \in Paused /\ \A y \in W : y.request.op # "begin"
    OBVIOUS
<1> QED
    BY <1>1, <1>2, <1>4, <1>5, SubmissionAgrees

\* A window's last observation is submitted, and the window becomes w.
LEMMA DeliverAgrees ==
    ASSUME FenceInv, AgreeInv, NEW s \in Sessions, HasSample(s), NEW force \in BOOLEAN,
           NEW p \in WindowOf, faults = 0 => Agree(run[s], p, Ways(s)),
           Deliver(s, force, [p EXCEPT !.seq = @ + 1])
    PROVE  AgreeInv'
<1> DEFINE x == NextSample(s)
           w == [p EXCEPT !.seq = @ + 1]
<1>1. /\ player[s].phase = "active" /\ player[s] \in WindowOf /\ player[s].last # None
    BY Typed DEF FenceInv, HasSample, Sampling
<1>2. run[s] # None /\ run[s] \in RunOf
    BY <1>1, KnownRun DEF Early
<1>3. x \in SampleOf
  <2>1. player[s].last \in [at : Nat, done : BOOLEAN]
    BY <1>1 DEF WindowOf
  <2> QED
    BY <1>1, <2>1 DEF NextSample, SampleOf, WindowOf
<1>4. /\ w \in WindowOf /\ w.phase = p.phase /\ w.epoch = p.epoch /\ w.run = p.run
      /\ w.auth = p.auth /\ w.notice = p.notice
    BY DEF WindowOf
<1> HIDE DEF w
<1>5. PICK o \in Submitted(s, x, force) : Settled(s, o, [player EXCEPT ![s] = w])
    BY DEF Deliver, w
<1>6. acks' = acks
    BY DEF Deliver
<1> HIDE DEF x
<1>7. CASE o = Kept(run[s])
    BY <1>2, <1>4, <1>5, <1>6, <1>7, LatestAgrees
<1>8. CASE o # Kept(run[s])
  <2> DEFINE m == IF run[s].retries > MaxRetries THEN 0 ELSE run[s].retries
             t == IF force \/ run[s].retries > MaxRetries THEN "none" ELSE run[s].retry
  <2>1. m \in Nat /\ t \in {"none", "armed", "due"}
    BY <1>2 DEF RunOf
  <2>2. o \in SendLatest(s, [run[s] EXCEPT !.seq = x.seq, !.latest = x,
                                            !.retries = m, !.retry = t])
    BY <1>2, <1>5, <1>8 DEF Submitted, RunOf
  <2> HIDE DEF m, t
  <2> DEFINE r == [run[s] EXCEPT !.seq = x.seq, !.latest = x, !.retries = m, !.retry = t]
  <2>3. /\ r \in RunOf /\ r.epoch = run[s].epoch /\ r.run = run[s].run
        /\ r.ready = run[s].ready
    BY <1>2, <1>3, <2>1 DEF RunOf, SampleOf
  <2>4. o \in SendLatest(s, r)
    BY <2>2
  <2> HIDE DEF r
  <2> QED
    BY <1>2, <1>4, <1>5, <1>6, <2>3, <2>4, LatestAgrees
<1> QED
    BY <1>7, <1>8

\* flush_progress: a last sample is taken, or there is none.
LEMMA FlushAgrees ==
    ASSUME FenceInv, AgreeInv, NEW s \in Sessions, NEW w \in WindowOf,
           faults = 0 => Agree(run[s], w, Ways(s)), Flush(s, w)
    PROVE  AgreeInv'
<1>1. CASE HasSample(s) /\ Deliver(s, TRUE, [w EXCEPT !.seq = @ + 1])
    BY <1>1, DeliverAgrees
<1>2. CASE /\ player' = [player EXCEPT ![s] = w]
           /\ UNCHANGED <<db, queue, acks, run, faults, history>>
    BY <1>2, WindowAgrees
<1> QED
    BY <1>1, <1>2 DEF Flush

\* The timer sends what waits.
LEMMA RetryDueAgrees ==
    ASSUME FenceInv, AgreeInv, NEW s \in Sessions, RetryDue(s)
    PROVE  AgreeInv'
<1> DEFINE r == [run[s] EXCEPT !.retry = "due"]
<1>1. /\ run[s] # None /\ run[s] \in RunOf /\ player \in [Sessions -> WindowOf]
    BY KnownRun, Typed DEF RetryDue, FenceInv
<1>2. /\ r \in RunOf /\ r.epoch = run[s].epoch /\ r.run = run[s].run
      /\ r.ready = run[s].ready
    BY <1>1 DEF RunOf
<1>3. PICK o \in SendLatest(s, r) : Settled(s, o, player)
    BY DEF RetryDue
<1> HIDE DEF r
<1> PICK w : w = player[s]
    OBVIOUS
<1>4. Settled(s, o, [player EXCEPT ![s] = w])
  <2>1. [player EXCEPT ![s] = w] = player
    BY <1>1
  <2> QED
    BY <1>3, <2>1
<1>5. w \in WindowOf /\ (faults = 0 => Agree(run[s], w, Ways(s))) /\ acks' = acks
    BY <1>1 DEF AgreeInv, RetryDue
<1> QED
    BY <1>1, <1>2, <1>3, <1>4, <1>5, LatestAgrees

\* A run that is forgotten had nothing under way.
LEMMA ForgetAgrees ==
    ASSUME FenceInv, AgreeInv, NEW s \in Sessions, Forget(s)
    PROVE  AgreeInv'
<1>1. run \in [Sessions -> RunOf \cup {None}]
    BY Typed DEF FenceInv
<1>2. /\ run'[s] = None /\ \A z \in Sessions \ {s} : run'[z] = run[z]
      /\ UNCHANGED <<queue, acks, player, faults>>
    BY <1>1 DEF Forget
<1>3. \A z \in Sessions : Ways(z)' = Ways(z)
    BY <1>2 DEF Ways, Queues, Unread
<1> PICK p, W : p = player[s] /\ W = Ways(s)
    OBVIOUS
<1>4. faults = 0 => Agree(None, p, W)
  <2> HAVE faults = 0
  <2>1. Agree(run[s], p, W)
    BY DEF AgreeInv
  <2> QED
    BY <2>1 DEF Agree, Asking
<1>5. player'[s] = p /\ Ways(s)' = W
    BY <1>2, <1>3
<1> QED
    BY <1>2, <1>3, <1>4, <1>5, OneAgrees

\* A read is no new run.
LEMMA OpenAgrees ==
    ASSUME FenceInv, AgreeInv, NEW s \in Sessions, OpenWithProgress(s)
    PROVE  AgreeInv'
<1> DEFINE q == [op |-> "read", session |-> s]
<1>1. /\ player \in [Sessions -> WindowOf] /\ player[s].phase = "none"
      /\ queue \in Seq(RequestOf)
    BY Typed DEF FenceInv, OpenWithProgress
<1>2. run[s] = None
    BY <1>1 DEF FenceInv, GoodWindow, Early
<1>3. q \in RequestOf /\ q.session = s /\ q.op = "read"
    BY RequestMade
<1>4. /\ player'[s].phase = "opening" /\ player'[s].notice = player[s].notice
      /\ \A z \in Sessions \ {s} : player'[z] = player[z]
      /\ queue' = Append(queue, q) /\ UNCHANGED <<acks, run, faults>>
    BY <1>1 DEF OpenWithProgress, WindowOf
<1> HIDE DEF q
<1> PICK y : y = Way(q, "queued")
    OBVIOUS
<1>5. /\ Ways(s)' = Ways(s) \cup {y}
      /\ \A z \in Sessions \ {s} : Ways(z)' = Ways(z)
  <2>1. /\ Queues(s)' = Queues(s) \cup {y}
        /\ \A z \in Sessions \ {s} : Queues(z)' = Queues(z)
    BY <1>1, <1>3, <1>4, QueuesSent
  <2> QED
    BY <1>4, <2>1 DEF Ways, Unread
<1>6. y.request.op = "read" /\ y.result = "queued"
    BY <1>3, WayFields
<1> PICK p, W, V : p = player'[s] /\ W = Ways(s) /\ V = W \cup {y}
    OBVIOUS
<1>7. faults = 0 => Agree(None, p, V)
  <2> HAVE faults = 0
  <2>1. Agree(None, player[s], W)
    BY <1>2 DEF AgreeInv
  <2>2. ~Asking(None, W)
    BY <1>1, <2>1 DEF Agree, Paused
  <2>3. ~Asking(None, V)
    BY <1>6, <2>2 DEF Asking
  <2> QED
    BY <1>4, <1>6, <2>1, <2>3 DEF Agree
<1>8. run'[s] = None /\ player'[s] = p /\ Ways(s)' = V
    BY <1>2, <1>4, <1>5
<1>9. \A z \in Sessions \ {s} :
        Ways(z)' = Ways(z) /\ run'[z] = run[z] /\ player'[z] = player[z]
    BY <1>4, <1>5
<1>10. faults' = faults
    BY <1>4
<1> QED
    BY <1>7, <1>8, <1>9, <1>10, OneAgrees

\* Pausing, closing and playing without saving all leave a window no authority.
LEMMA UserAgrees ==
    ASSUME FenceInv, AgreeInv, NEW s \in Sessions, User(s)
    PROVE  AgreeInv'
<1>1. player \in [Sessions -> WindowOf] /\ player[s] \in WindowOf
    BY Typed DEF FenceInv
<1>2. faults = 0 => Agree(run[s], player[s], Ways(s))
    BY DEF AgreeInv
<1>3. CASE RetryStartup(s)
  <2> DEFINE w == [player[s] EXCEPT !.phase = "start", !.auth = FALSE, !.last = None]
  <2>1. w.phase = "start" /\ w.notice = player[s].notice
    BY <1>1 DEF WindowOf
  <2>2. player' = [player EXCEPT ![s] = w]
    BY <1>1, <1>3 DEF RetryStartup
  <2> HIDE DEF w
  <2>3. player[s].phase \notin Paused
    BY <1>3 DEF RetryStartup, Paused
  <2>4. faults = 0 => Agree(run[s], w, Ways(s))
    BY <1>2, <2>1, <2>3 DEF Agree
  <2> QED
    BY <1>3, <2>2, <2>4, WindowAgrees DEF RetryStartup
<1>4. CASE PlayWithoutSaving(s)
  <2> DEFINE w == [player[s] EXCEPT !.phase = "active", !.auth = FALSE]
  <2>1. w.phase = "active" /\ w.notice = player[s].notice /\ w.auth = FALSE
    BY <1>1 DEF WindowOf
  <2>2. player' = [player EXCEPT ![s] = w]
    BY <1>1, <1>4 DEF PlayWithoutSaving
  <2> HIDE DEF w
  <2>3. player[s].phase \notin Paused \/ player[s].notice
    BY <1>4 DEF PlayWithoutSaving, NotSaving, Paused
  <2>4. faults = 0 => Agree(run[s], w, Ways(s))
    BY <1>2, <2>1, <2>3 DEF Agree
  <2> QED
    BY <1>4, <2>2, <2>4, WindowAgrees DEF PlayWithoutSaving
<1>5. CASE Replay(s)
  <2> DEFINE w == [player[s] EXCEPT !.phase = "start", !.auth = FALSE, !.last = None,
                                    !.over = TRUE]
  <2>1. w \in WindowOf /\ w.phase = "start" /\ w.notice = player[s].notice
    BY <1>1 DEF WindowOf, Phases
  <2>2. Flush(s, w)
    BY <1>5 DEF Replay
  <2> HIDE DEF w
  <2>3. player[s].phase \notin Paused
    BY <1>5 DEF Replay, Paused
  <2>4. faults = 0 => Agree(run[s], w, Ways(s))
    BY <1>2, <2>1, <2>3 DEF Agree
  <2> QED
    BY <2>1, <2>2, <2>4, FlushAgrees
<1>6. CASE Close(s)
  <2> DEFINE w == [player[s] EXCEPT !.phase = "closed"]
  <2>1. w \in WindowOf /\ w.phase = "closed" /\ w.notice = player[s].notice
    BY <1>1 DEF WindowOf, Phases
  <2>2. Flush(s, w)
    BY <1>6 DEF Close
  <2> HIDE DEF w
  <2>4. faults = 0 => Agree(run[s], w, Ways(s))
    BY <1>2, <2>1 DEF Agree, Paused
  <2> QED
    BY <2>1, <2>2, <2>4, FlushAgrees
<1> QED
    BY <1>3, <1>4, <1>5, <1>6, OpenAgrees, RetryProgressReadyAgrees DEF User

\* Nothing a window does by itself touches the authority it samples by.
LEMMA WindowActsAgree ==
    ASSUME FenceInv, AgreeInv, NEW s \in Sessions, Window(s)
    PROVE  AgreeInv'
<1>1. player \in [Sessions -> WindowOf] /\ player[s] \in WindowOf
    BY Typed DEF FenceInv
<1>2. faults = 0 => Agree(run[s], player[s], Ways(s))
    BY DEF AgreeInv
<1>3. CASE StartFails(s)
  <2> DEFINE w == [player[s] EXCEPT !.phase = "prompt", !.auth = FALSE]
  <2>1. w.phase = "prompt" /\ w.notice = player[s].notice
    BY <1>1 DEF WindowOf
  <2>2. player' = [player EXCEPT ![s] = w]
    BY <1>1, <1>3 DEF StartFails
  <2> HIDE DEF w
  <2>3. player[s].phase \notin Paused
    BY <1>3 DEF StartFails, Paused
  <2>4. faults = 0 => Agree(run[s], w, Ways(s))
    BY <1>2, <2>1, <2>3 DEF Agree
  <2> QED
    BY <1>3, <2>2, <2>4, WindowAgrees DEF StartFails
<1>4. CASE Observe(s)
  <2>1. PICK done \in BOOLEAN :
          player' = [player EXCEPT ![s].last = [at |-> db.epoch, done |-> done]]
    BY <1>4, CompletionsAssumption DEF Observe
  <2> DEFINE w == [player[s] EXCEPT !.last = [at |-> db.epoch, done |-> done]]
  <2>2. /\ w.phase = player[s].phase /\ w.notice = player[s].notice
        /\ w.auth = player[s].auth /\ w.epoch = player[s].epoch /\ w.run = player[s].run
    BY <1>1 DEF WindowOf
  <2>3. player' = [player EXCEPT ![s] = w]
    BY <1>1, <2>1
  <2> HIDE DEF w
  <2>4. faults = 0 => Agree(run[s], w, Ways(s))
    BY <1>2, <2>2 DEF Agree
  <2> QED
    BY <1>4, <2>3, <2>4, WindowAgrees DEF Observe
<1>5. CASE \E force \in BOOLEAN : Sample(s, force)
    BY <1>1, <1>2, <1>5, DeliverAgrees DEF Sample
<1> QED
    BY <1>3, <1>4, <1>5, BecomesReadyAgrees DEF Window

-----------------------------------------------------------------------------
(* Answers agree                                                             *)

\* Authorizing a window leaves it alone, or gives it what the answer carries.
LEMMA AuthorizedTells ==
    ASSUME NEW p \in WindowOf, NEW old, NEW epoch \in Nat, NEW n \in Nat
    PROVE  \/ Authorized(p, old, epoch, n) = p
           \/ /\ Authorized(p, old, epoch, n).epoch = epoch
              /\ Authorized(p, old, epoch, n).run = n
              /\ ~Authorized(p, old, epoch, n).notice
<1> DEFINE v == Authorized(p, old, epoch, n)
<1>1. \/ v = p
      \/ v = [p EXCEPT !.epoch = epoch, !.run = n, !.auth = TRUE, !.notice = FALSE,
                       !.phase = "active", !.last = None]
      \/ v = [p EXCEPT !.epoch = epoch, !.run = n, !.auth = TRUE, !.notice = FALSE]
    BY DEF Authorized
<1> HIDE DEF v
<1>2. v = p \/ (v.epoch = epoch /\ v.run = n /\ ~v.notice)
    BY <1>1 DEF WindowOf
<1> QED
    BY <1>2 DEF v

\* Invalidating a window takes its authority, or it is of another epoch.
LEMMA InvalidatedTells ==
    ASSUME NEW p \in WindowOf, NEW epoch
    PROVE  LET v == Invalidated(p, epoch)
           IN  /\ v.epoch = p.epoch /\ v.run = p.run /\ v.notice = p.notice
               /\ v.phase = p.phase
               /\ v.auth => p.auth /\ (p.phase = "active" => p.epoch # epoch)
<1> DEFINE v == Invalidated(p, epoch)
<1>1. \/ v = p /\ (p.phase = "active" => p.epoch # epoch)
      \/ v = [p EXCEPT !.auth = FALSE, !.last = None]
    BY DEF Invalidated, Shown
<1> HIDE DEF v
<1>2. /\ v.epoch = p.epoch /\ v.run = p.run /\ v.notice = p.notice /\ v.phase = p.phase
      /\ v.auth => p.auth /\ (p.phase = "active" => p.epoch # epoch)
    BY <1>1 DEF WindowOf
<1> QED
    BY <1>2 DEF v

\* A window that starts from the record has asked for nothing.
LEMMA OpenAnsweredAgrees ==
    ASSUME FenceInv, AgreeInv, OpenAnswered
    PROVE  AgreeInv'
<1>1. PICK a \in AnswerOf :
        /\ a = Head(acks) /\ a.request \in RequestOf /\ a.request.session \in Sessions
        /\ Answers(a.request.session) /\ GoodRequest(a.request) /\ GoodAnswer(a)
    BY AnswerTaken DEF OpenAnswered
<1>2. PICK s \in Sessions : s = a.request.session
    BY <1>1
<1>3. /\ player \in [Sessions -> WindowOf] /\ run \in [Sessions -> RunOf \cup {None}]
      /\ UNCHANGED <<queue, faults>> /\ Answers(s)
    BY <1>1, <1>2, Typed DEF FenceInv, OpenAnswered
<1>4. /\ player[s].phase = "opening" /\ player[s].notice = FALSE /\ run[s] = None
    BY <1>1, <1>2
       DEF OpenAnswered, GoodRequest, FenceInv, GoodWindow, Early, NewWindow, NoWindow
<1>5. Ways(s)' = {} /\ \A z \in Sessions \ {s} : Ways(z)' = Ways(z)
  <2>1. \A z : Queues(z)' = Queues(z)
    BY <1>3 DEF Queues
  <2> QED
    BY <1>3, <2>1, UnreadTaken DEF Ways
<1>6. CASE player' = [player EXCEPT ![s] = NoWindow] /\ UNCHANGED run
  <2>1. /\ player'[s] = NoWindow /\ run'[s] = None
        /\ \A z \in Sessions \ {s} : player'[z] = player[z] /\ run'[z] = run[z]
    BY <1>3, <1>4, <1>6
  <2>2. Agree(None, NoWindow, {})
    BY DEF Agree, Asking, NoWindow
  <2> QED
    BY <1>3, <1>5, <2>1, <2>2, OneAgrees
<1>7. CASE /\ player' = [player EXCEPT ![s].phase = "start", ![s].epoch = a.epoch]
           /\ run' = [run EXCEPT ![s] =
                  [epoch |-> a.epoch, run |-> a.run, seq |-> 0, busy |-> FALSE,
                   latest |-> None, retries |-> 0, retry |-> "none", ready |-> None]]
  <2> PICK r : r = [epoch |-> a.epoch, run |-> a.run, seq |-> 0, busy |-> FALSE,
                    latest |-> None, retries |-> 0, retry |-> "none", ready |-> None]
    OBVIOUS
  <2> PICK p : p = player'[s]
    OBVIOUS
  <2>1. /\ p.phase = "start" /\ p.notice = FALSE /\ run'[s] = r
        /\ \A z \in Sessions \ {s} : player'[z] = player[z] /\ run'[z] = run[z]
    BY <1>3, <1>4, <1>7 DEF WindowOf
  <2>2. Agree(r, p, {})
    BY <2>1 DEF Agree, Asking
  <2> QED
    BY <1>3, <1>5, <2>1, <2>2, OneAgrees
<1> QED
    BY <1>1, <1>2, <1>6, <1>7 DEF OpenAnswered

\* The run and its window take over what the Begin made, and the windows that are
\* revoked sample no more.
LEMMA BeginAnsweredAgrees ==
    ASSUME FenceInv, AgreeInv, BeginAnswered
    PROVE  AgreeInv'
<1> SUFFICES ASSUME faults = 0, NEW z \in Sessions PROVE Agree(run[z], player[z], Ways(z))'
    BY DEF AgreeInv, BeginAnswered
<1>1. PICK a \in AnswerOf :
        /\ a = Head(acks) /\ a.request \in RequestOf /\ a.request.session \in Sessions
        /\ Answers(a.request.session) /\ GoodRequest(a.request)
    BY AnswerTaken DEF BeginAnswered
<1>2. PICK s \in Sessions : s = a.request.session
    BY <1>1
<1>3. /\ player \in [Sessions -> WindowOf] /\ run \in [Sessions -> RunOf \cup {None}]
      /\ UNCHANGED <<queue, faults>> /\ Answers(s)
    BY <1>1, <1>2, Typed DEF FenceInv, BeginAnswered
<1>4. a.request.op = "begin" /\ run[s] # None /\ a.request.epoch \in Nat
    BY <1>1, <1>2, RequestFields DEF BeginAnswered, GoodRequest
<1>5. run[s] \in RunOf /\ player[s] \in WindowOf /\ a.epoch \in Nat /\ a.run \in Nat
    BY <1>4, KnownRun, AnswerFields
<1>6. Ways(s)' = {} /\ \A o \in Sessions \ {s} : Ways(o)' = Ways(o)
  <2>1. \A o : Queues(o)' = Queues(o)
    BY <1>3 DEF Queues
  <2> QED
    BY <1>3, <2>1, UnreadTaken DEF Ways
<1> PICK y : y = Way(a.request, a.result)
    OBVIOUS
<1>7. y \in Ways(s) /\ y.request = a.request /\ y.result = a.result
    BY <1>1, <1>3, UnreadTaken, WayFields DEF Ways
<1>8. /\ a.result # "error" /\ run[s].ready = None
      /\ Agree(run[s], player[s], Ways(s)) /\ Agree(run[z], player[z], Ways(z))
  <2>1. Agree(run[s], player[s], Ways(s)) /\ Agree(run[z], player[z], Ways(z))
    BY DEF AgreeInv
  <2> QED
    BY <1>4, <1>7, <2>1 DEF Agree, Asking
<1>9. /\ run' = [o \in Sessions |->
              IF o = s
              THEN [run[s] EXCEPT !.epoch = a.epoch, !.run = a.run, !.busy = FALSE,
                                  !.seq = 0, !.latest = None, !.retry = "none",
                                  !.retries = 0]
              ELSE IF o \in Revoked(s, a)
              THEN [run[o] EXCEPT !.latest = None, !.retry = "none"]
              ELSE run[o]]
      /\ player' = [o \in Sessions |->
              IF o = s THEN Authorized(player[s], a.request.epoch, a.epoch, a.run)
              ELSE IF o \in Revoked(s, a) THEN Invalidated(player[o], run[o].epoch)
              ELSE player[o]]
    BY <1>1, <1>2, <1>8 DEF BeginAnswered
<1>10. CASE z = s
  <2> PICK r, w : r = run'[s] /\ w = player'[s]
    OBVIOUS
  <2>1. r.epoch = a.epoch /\ r.run = a.run /\ r.ready = run[s].ready
    BY <1>5, <1>9 DEF RunOf
  <2>2. w = player[s] \/ (w.epoch = a.epoch /\ w.run = a.run /\ ~w.notice)
    <3>1. w = Authorized(player[s], a.request.epoch, a.epoch, a.run)
      BY <1>9, <1>10
    <3> QED
      BY <1>5, <3>1, AuthorizedTells
  <2>3. ~Asking(r, {})
    BY <1>8, <2>1 DEF Asking
  <2>4. w.phase = "active" /\ w.auth => w.epoch = r.epoch /\ w.run = r.run
    <3>1. player[s].phase # "active"
      BY <1>4, <1>7, <1>8 DEF Agree, Asking, Paused
    <3> QED
      BY <2>1, <2>2, <3>1
  <2>5. ~w.notice
    BY <1>8, <2>2 DEF Agree
  <2>6. Agree(r, w, {})
    BY <2>3, <2>4, <2>5 DEF Agree, Asking
  <2> QED
    BY <1>6, <1>10, <2>6
<1>11. CASE z # s /\ z \notin Revoked(s, a)
  <2>1. run'[z] = run[z] /\ player'[z] = player[z] /\ Ways(z)' = Ways(z)
    BY <1>6, <1>9, <1>11
  <2> QED
    BY <1>8, <2>1
<1>12. CASE z # s /\ z \in Revoked(s, a)
  <2> PICK r, w, W : r = run'[z] /\ w = player'[z] /\ W = Ways(z)
    OBVIOUS
  <2>1. /\ run[z] # None /\ run[z] \in RunOf /\ player[z] \in WindowOf /\ Ways(z)' = W
    BY <1>3, <1>6, <1>12 DEF Revoked
  <2>2. r.epoch = run[z].epoch /\ r.run = run[z].run /\ r.ready = run[z].ready
    BY <1>9, <1>12, <2>1 DEF RunOf
  <2>3. /\ w.epoch = player[z].epoch /\ w.run = player[z].run
        /\ w.notice = player[z].notice /\ w.phase = player[z].phase
        /\ w.auth => player[z].auth
    BY <1>9, <1>12, <2>1, InvalidatedTells
  <2>4. Agree(r, w, W)
    BY <1>8, <2>1, <2>2, <2>3 DEF Agree, Asking
  <2> QED
    BY <2>1, <2>4
<1> QED
    BY <1>10, <1>11, <1>12

\* Storing what follows the answer to a save: the window becomes w.
LEMMA AnsweredAgrees ==
    ASSUME FenceInv, AgreeInv, NEW s \in Sessions, Answers(s), NEW r \in RunOf,
           NEW otherwise, NEW o \in PendingReadyElse(s, r, otherwise),
           otherwise = SendLatest(s, r) \/ otherwise = {Kept(r)},
           NEW w \in WindowOf, Settled(s, o, [player EXCEPT ![s] = w]),
           faults = 0 => Agree(r, w, {})
    PROVE  AgreeInv'
<1>1. Moves(s, r, o) /\ Pending(s, r, o)
    BY PendingMoves, PendingOutcome
<1>2. PICK asked \in SUBSET ReadyOf, p \in RunOf :
        /\ Outcome(s, p, asked, o) /\ p.ready \in {r.ready, None}
        /\ \A x \in asked : r.ready # None /\ x = r.ready /\ p.ready = None
    BY <1>1 DEF Pending
<1> PICK W : W = {}
    OBVIOUS
<1>3. \/ acks' = acks /\ W = Ways(s)
      \/ Answers(s) /\ W = {}
    OBVIOUS
<1>4. asked # {} => r.ready # None /\ p.ready = None
    BY <1>2
<1>5. faults = 0 /\ asked # {} =>
         w.phase \in Paused /\ \A y \in W : y.request.op # "begin"
  <2>1. r # None
    BY AbsenceAssumption
  <2> QED
    BY <1>4, <2>1 DEF Agree, Asking
<1> QED
    BY <1>1, <1>2, <1>3, <1>4, <1>5, SubmissionAgrees

\* Applied, the authorization is as it was; stale, the window is told the new one or
\* loses its own.
LEMMA SaveAnsweredAgrees ==
    ASSUME FenceInv, DeliverInv, AgreeInv, SaveAnswered
    PROVE  AgreeInv'
<1>1. PICK a \in AnswerOf :
        /\ a = Head(acks) /\ a.request \in RequestOf /\ a.request.session \in Sessions
        /\ Answers(a.request.session) /\ GoodRequest(a.request)
    BY AnswerTaken DEF SaveAnswered
<1>2. PICK s \in Sessions : s = a.request.session
    BY <1>1
<1>3. PICK x \in SampleOf : x = a.request.sample
    BY <1>1, RequestFields DEF SaveAnswered
<1>4. /\ a.request.op = "save" /\ a.result \in {"applied", "stale"} /\ run[s] # None
      /\ a.epoch \in Nat /\ a.run \in Nat /\ Answers(s)
    BY <1>1, <1>2, AnswerFields DEF SaveAnswered, GoodRequest
<1>5. run[s] \in RunOf /\ player[s] \in WindowOf
    BY <1>4, KnownRun
<1> DEFINE stale == a.result = "stale"
           r == [run[s] EXCEPT !.epoch = a.epoch, !.run = a.run, !.busy = FALSE,
                               !.retries = 0, !.retry = "none",
                               !.latest = IF stale THEN None ELSE @]
           p == player[s]
           left == Invalidated(p, x.epoch)
           w == IF ~stale THEN Noticed(p, FALSE)
                ELSE IF a.run = x.run /\ r.ready = None
                THEN Authorized(left, x.epoch, a.epoch, a.run)
                ELSE left
<1>6. r \in RunOf /\ r.epoch = a.epoch /\ r.run = a.run /\ r.ready = run[s].ready
    BY <1>4, <1>5 DEF RunOf
<1>7. PICK o \in PendingReadyElse(s, r, SendLatest(s, r)) :
        Settled(s, o, [player EXCEPT ![s] = w])
    BY <1>1, <1>2, <1>3 DEF SaveAnswered
\* What was sent is of the run and the epoch its session holds.
<1>8. /\ Mine(x, run[s], p.seq)
      /\ a.result = "applied" => a.epoch = run[s].epoch /\ a.run = run[s].run
  <2> PICK y : y = Way(a.request, a.result)
    OBVIOUS
  <2>1. Delivers(s, run[s], p.seq, accepted[s], {y})
    BY <1>1, <1>4, AnsweredWay
  <2>2. Saving(y) /\ y.request.sample = x
    BY <1>3, <1>4, WayFields DEF Saving
  <2>3. Mine(x, run[s], p.seq)
    BY <2>1, <2>2 DEF Delivers, Travels
  <2>4. ASSUME a.result = "applied" PROVE a.epoch = run[s].epoch /\ a.run = run[s].run
    <3>1. 1 \in DOMAIN acks /\ a = acks[1]
      BY <1>1, <1>4, AnsweredIsFree
    <3>2. a.epoch = x.epoch /\ a.run = x.run
      BY <1>3, <1>4, <2>4, <3>1 DEF DeliverInv, SavesAgree
    <3> QED
      BY <2>3, <3>2 DEF Mine
  <2> QED
    BY <2>3, <2>4
\* What invalidating and authorizing make of the window.
<1>9. /\ left \in WindowOf /\ left.phase = p.phase /\ (left.notice <=> p.notice)
      /\ left.auth => p.auth /\ (p.phase = "active" => p.epoch # x.epoch)
    BY <1>5, InvalidatedWindow, InvalidatedTells
<1> PICK v : v = Authorized(left, x.epoch, a.epoch, a.run)
    OBVIOUS
<1>10. v \in WindowOf /\ (v = left \/ (v.epoch = a.epoch /\ v.run = a.run /\ ~v.notice))
    BY <1>4, <1>9, AuthorizedWindow, AuthorizedTells
<1>11. Noticed(p, FALSE) \in WindowOf
    BY <1>5, NoticedTyped
<1>12. w \in WindowOf
  <2> HIDE DEF r, p, left, stale
  <2> QED
    BY <1>9, <1>10, <1>11
<1>13. ASSUME faults = 0 PROVE Agree(r, w, {})
  <2>1. Agree(run[s], p, Ways(s))
    BY <1>13 DEF AgreeInv
  <2>2. run[s] # None /\ r # None /\ ~p.notice
    BY <1>4, <1>6, <2>1, AbsenceAssumption DEF Agree
  <2>3. r.ready # None => p.phase \in Paused
    BY <1>6, <2>1, <2>2 DEF Agree, Asking
  <2>4. p.phase = "active" /\ p.auth => p.epoch = run[s].epoch /\ p.run = run[s].run
    BY <2>1, <2>2 DEF Agree
  <2>5. \A n : ~n.notice /\ (r.ready # None => n.phase \in Paused)
                /\ (n.phase = "active" /\ n.auth => n.epoch = r.epoch /\ n.run = r.run)
                => Agree(r, n, {})
    BY <2>2 DEF Agree, Asking
  <2>6. CASE ~stale
    <3>1. w = Noticed(p, FALSE)
      BY <2>6
    <3>2. w.phase = p.phase /\ w.auth = p.auth /\ w.epoch = p.epoch /\ w.run = p.run
      BY <1>5, <3>1, NoticedTyped
    <3>3. ~w.notice
      BY <1>5, <2>2, <3>1 DEF Noticed, WindowOf
    <3>4. r.epoch = run[s].epoch /\ r.run = run[s].run
      BY <1>4, <1>6, <1>8, <2>6
    <3> HIDE DEF w, r, p
    <3> QED
      BY <2>3, <2>4, <2>5, <3>2, <3>3, <3>4
  <2>7. ASSUME stale PROVE Agree(r, left, {})
    <3>1. ~(left.phase = "active" /\ left.auth)
      BY <1>8, <1>9, <2>4 DEF Mine
    <3> HIDE DEF left, r, p
    <3> QED
      BY <1>9, <2>2, <2>3, <2>5, <3>1
  <2>8. CASE stale /\ ~(a.run = x.run /\ r.ready = None)
    BY <2>7, <2>8
  <2>9. CASE stale /\ a.run = x.run /\ r.ready = None
    <3>1. w = v
      BY <2>9
    <3> HIDE DEF w, left, r, p
    <3>2. CASE v = left
      BY <2>7, <2>9, <3>1, <3>2
    <3>3. CASE v.epoch = a.epoch /\ v.run = a.run /\ ~v.notice
      BY <1>6, <2>5, <2>9, <3>1, <3>3
    <3> QED
      BY <1>10, <3>2, <3>3
  <2> QED
    BY <2>6, <2>8, <2>9
<1> HIDE DEF r, w
<1> PICK otherwise : otherwise = SendLatest(s, r)
    OBVIOUS
<1> QED
    BY <1>4, <1>6, <1>7, <1>12, <1>13, AnsweredAgrees

\* A save that failed was a failure.
LEMMA SaveFailedAgrees ==
    ASSUME FenceInv, AgreeInv, SaveFailed
    PROVE  AgreeInv'
<1>1. PICK a \in AnswerOf :
        /\ a = Head(acks) /\ a.request \in RequestOf /\ a.request.session \in Sessions
        /\ Answers(a.request.session) /\ GoodRequest(a.request)
    BY AnswerTaken DEF SaveFailed
<1>2. PICK s \in Sessions : s = a.request.session /\ Answers(s)
    BY <1>1
<1>3. PICK x \in SampleOf : x = a.request.sample
    BY <1>1, RequestFields DEF SaveFailed
<1>4. a.request.op = "save" /\ a.result = "error" /\ run[s] # None
    BY <1>1, <1>2 DEF SaveFailed, GoodRequest
<1> PICK y : y = Way(a.request, a.result)
    OBVIOUS
<1>5. y \in Ways(s) /\ y.result = "error"
    BY <1>1, <1>2, <1>4, UnreadTaken, WayFields DEF Ways
<1>6. faults # 0
    BY <1>5 DEF AgreeInv, Agree
<1>7. run[s] \in RunOf
    BY <1>4, KnownRun
<1> DEFINE kept == Requeued([run[s] EXCEPT !.busy = FALSE], x)
           r == Failed(kept)
<1>8. kept \in RunOf
    BY <1>7 DEF Requeued, RunOf
<1>9. PICK o \in PendingReadyElse(s, r, {Kept(r)}) :
        Settled(s, o, [player EXCEPT ![s] = Noticed(@, TRUE)])
    BY <1>1, <1>2, <1>3 DEF SaveFailed
<1> HIDE DEF kept
<1>10. r \in RunOf
    BY <1>8, FailedRun
<1> HIDE DEF r
<1>11. o.refused \in BOOLEAN
    BY <1>9, <1>10, PendingOutcome DEF OutcomeOf
<1> QED
    BY <1>6, <1>9, <1>11, FaultsStay

-----------------------------------------------------------------------------
(* The record agrees                                                         *)

\* A transaction answers a request, and its failure is counted.
LEMMA ExecuteAgrees ==
    ASSUME FenceInv, AgreeInv, Execute
    PROVE  AgreeInv'
<1> PICK q : q = Head(queue)
    OBVIOUS
<1>1. /\ queue \in Seq(RequestOf) /\ queue # <<>> /\ queue' = Tail(queue)
      /\ UNCHANGED <<run, player>> /\ faults \in Nat
      /\ db.epoch \in Nat /\ db.run \in Nat
    BY Typed DEF FenceInv, TypeOK, Execute
<1>2. q \in RequestOf /\ q.session \in Sessions
  <2>1. q = queue[1] /\ 1 \in DOMAIN queue
    BY <1>1, TailIndices
  <2>2. q \in RequestOf
    BY <1>1, <2>1, ElementOfSeq, LenProperties
  <2> QED
    BY <2>2, RequestFields
<1>3. PICK b \in AnswerOf :
        /\ b.request = q /\ acks' = Append(acks, b)
        /\ faults' = 0 => faults = 0 /\ b.result # "error"
  <2>1. \A result \in {"applied", "stale", "error"} : \A record :
           record.epoch \in Nat /\ record.run \in Nat /\ Answer(q, result, record) =>
             \E b \in AnswerOf : /\ b.request = q /\ acks' = Append(acks, b)
                                 /\ b.result = result
    <3> SUFFICES ASSUME NEW result \in {"applied", "stale", "error"}, NEW record,
                        record.epoch \in Nat, record.run \in Nat, Answer(q, result, record)
                 PROVE  \E b \in AnswerOf : /\ b.request = q /\ acks' = Append(acks, b)
                                            /\ b.result = result
      OBVIOUS
    <3> DEFINE b == [request |-> q, result |-> result, epoch |-> record.epoch,
                     run |-> record.run]
    <3>1. b \in AnswerOf /\ b.request = q /\ b.result = result
      BY <1>2 DEF AnswerOf
    <3>2. acks' = Append(acks, b)
      BY DEF Answer
    <3> HIDE DEF b
    <3> QED
      BY <3>1, <3>2
  <2>2. CASE faults' = faults + 1 /\ Answer(q, "error", db)
    <3>1. faults' # 0
      BY <1>1, <2>2
    <3> QED
      BY <1>1, <2>1, <2>2, <3>1
  <2>3. CASE UNCHANGED faults /\ (Answer(q, "applied", db) \/ Answer(q, "stale", db))
    BY <1>1, <2>1, <2>3
  <2>4. CASE UNCHANGED faults /\ db' = Begun(q.over) /\ Answer(q, "applied", db')
    <3>1. db'.epoch \in Nat /\ db'.run \in Nat
      BY <1>1, <2>4, RecordTyped DEF Begun, RecordOf
    <3> QED
      BY <2>1, <2>4, <3>1
  <2>5. CASE UNCHANGED faults /\ db' = Saved(q.sample) /\ Answer(q, "applied", db')
    <3>1. db'.epoch \in Nat /\ db'.run \in Nat
      BY <1>1, <2>5, RecordTyped DEF Saved, RecordOf
    <3> QED
      BY <2>1, <2>5, <3>1
  <2> QED
    BY <2>2, <2>3, <2>4, <2>5 DEF Execute
<1> PICK s \in Sessions : s = q.session
    BY <1>2
<1>4. /\ Ways(s) = {Way(q, "queued")} /\ Ways(s)' = {Way(q, b.result)}
      /\ \A o \in Sessions \ {s} : Ways(o)' = Ways(o)
    BY <1>1, <1>3, ExecuteWays
<1> PICK r, p, W : r = run[s] /\ p = player[s] /\ W = {Way(q, b.result)}
    OBVIOUS
<1>5. faults' = 0 => Agree(r, p, W)
  <2> HAVE faults' = 0
  <2>1. Agree(r, p, {Way(q, "queued")})
    BY <1>3, <1>4 DEF AgreeInv
  <2> PICK y, z : y = Way(q, "queued") /\ z = Way(q, b.result)
    OBVIOUS
  <2>2. y.request = z.request /\ z.result # "error"
    BY <1>3, WayFields
  <2> QED
    BY <2>1, <2>2 DEF Agree, Asking
<1> QED
    BY <1>1, <1>3, <1>4, <1>5, OneAgrees

\* A step that touches neither windows nor what is under way.
LEMMA StillAgrees ==
    ASSUME AgreeInv, UNCHANGED <<queue, acks, run, player, faults>>
    PROVE  AgreeInv'
<1>1. \A s : Ways(s)' = Ways(s)
    BY DEF Ways, Queues, Unread
<1> QED
    BY <1>1 DEF AgreeInv, Agree, Asking

\* No window is open, and nothing is under way.
LEMMA InitAgrees == Init => AgreeInv
<1> SUFFICES ASSUME Init, NEW s \in Sessions PROVE Agree(run[s], player[s], Ways(s))
    BY DEF AgreeInv
<1>1. /\ queue = <<>> /\ acks = <<>> /\ run[s] = None /\ player[s] = NoWindow
    BY DEF Init
<1>2. Free(s)
    BY <1>1 DEF Free
<1>3. Ways(s) = {}
    BY <1>2, FreeHasNone
<1> QED
    BY <1>1, <1>3 DEF Agree, Asking, NoWindow

\* Every step keeps windows and coordinator in agreement.
LEMMA AgreementStep == FenceInv /\ DeliverInv /\ AgreeInv /\ [Next]_vars => AgreeInv'
<1> SUFFICES ASSUME FenceInv, DeliverInv, AgreeInv, [Next]_vars PROVE AgreeInv'
    OBVIOUS
<1>1. CASE UNCHANGED vars
    BY <1>1, StillAgrees DEF vars
<1>2. CASE Worker
    BY <1>2, ExecuteAgrees, StillAgrees DEF Worker, Clear, Merge, MarkWatched, onlyRecord
<1>3. CASE MainThread
    BY <1>3, UserAgrees, WindowActsAgree, RetryDueAgrees, ForgetAgrees, OpenAnsweredAgrees,
       BeginAnsweredAgrees, SaveAnsweredAgrees, SaveFailedAgrees DEF MainThread, Answered
<1>4. CASE BeginFlush \/ EndFlush
    BY <1>4, StillAgrees DEF BeginFlush, EndFlush
<1>5. CASE \E s \in Sessions : FinalSample(s)
  <2> PICK s \in Sessions : FinalSample(s)
    BY <1>5
  <2> PICK w : w = player[s]
    OBVIOUS
  <2>1. w \in WindowOf /\ Flush(s, w) /\ (faults = 0 => Agree(run[s], w, Ways(s)))
    BY Typed DEF FinalSample, FenceInv, AgreeInv
  <2> QED
    BY <2>1, FlushAgrees
<1> QED
    BY <1>1, <1>2, <1>3, <1>4, <1>5 DEF Next

\* While no request fails, a window that believes it may save holds the epoch and the
\* run that the coordinator accepts.
THEOREM AlwaysAgrees == Spec => []AuthorityAgrees
<1>1. FenceInv /\ DeliverInv /\ AgreeInv /\ [Next]_vars => AgreeInv'
    BY AgreementStep
<1>2. FenceInv /\ AgreeInv => AuthorityAgrees
    BY DEF FenceInv, AgreeInv, Agree, AuthorityAgrees, Sampling
<1> QED
    BY <1>1, <1>2, InitAgrees, AlwaysFenced, AlwaysDelivered, PTL DEF Spec
=============================================================================
