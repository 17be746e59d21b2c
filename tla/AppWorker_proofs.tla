-------------------------- MODULE AppWorker_proofs --------------------------
(* For every capacity and number of commands and faults: what the worker holds *)
(* belongs to the account in effect, and every admitted command is in one      *)
(* place until its one answer is applied.                                      *)
EXTENDS AppWorkerBooks, SequenceTheorems, FiniteSetTheorems, TLAPS

-----------------------------------------------------------------------------
(* Queues: taking the first element, adding a last one                      *)

\* Removing the first element keeps every other one, each once.
LEMMA TailIndices ==
    ASSUME NEW S, NEW s \in Seq(S), s # <<>>
    PROVE  /\ Tail(s) \in Seq(S)
           /\ \A i \in DOMAIN Tail(s) : i + 1 \in DOMAIN s /\ Tail(s)[i] = s[i + 1]
           /\ Head(s) = s[1] /\ 1 \in DOMAIN s
<1>1. Len(s) \in Nat \ {0} /\ DOMAIN s = 1 .. Len(s)
    BY EmptySeq, LenProperties
<1>2. Tail(s) \in Seq(S) /\ Len(Tail(s)) = Len(s) - 1
    BY HeadTailProperties
<1>3. DOMAIN Tail(s) = 1 .. Len(s) - 1
    BY <1>2, LenProperties
<1>4. \A i \in 1 .. Len(s) - 1 : Tail(s)[i] = s[i + 1]
    BY <1>1
<1> QED
    BY <1>1, <1>2, <1>3, <1>4

\* The place of the new element was not one of the old ones.
LEMMA AppendPlace ==
    ASSUME NEW S, NEW s \in Seq(S), NEW e \in S
    PROVE  /\ Append(s, e) \in Seq(S)
           /\ Len(s) + 1 \notin DOMAIN s
           /\ \A i \in DOMAIN Append(s, e) : i \in DOMAIN s \/ i = Len(s) + 1
           /\ \A i \in DOMAIN s : Append(s, e)[i] = s[i]
           /\ Append(s, e)[Len(s) + 1] = e
<1>1. Len(s) \in Nat /\ DOMAIN s = 1 .. Len(s) /\ DOMAIN Append(s, e) = 1 .. Len(s) + 1
    BY AppendProperties, LenProperties
<1> QED
    BY <1>1, AppendProperties

-----------------------------------------------------------------------------
(* Sequences and what is counted of them                                     *)

LEMMA RemoveAtFacts ==
    ASSUME NEW S, NEW s \in Seq(S), NEW k \in DOMAIN s
    PROVE  /\ RemoveAt(s, k) \in Seq(S) /\ Len(RemoveAt(s, k)) = Len(s) - 1
           /\ \A i \in DOMAIN RemoveAt(s, k) :
                LET j == IF i < k THEN i ELSE i + 1
                IN  j \in DOMAIN s /\ j # k /\ RemoveAt(s, k)[i] = s[j]
           /\ \A j \in DOMAIN s : j # k =>
                \E i \in DOMAIN RemoveAt(s, k) : RemoveAt(s, k)[i] = s[j]
<1> DEFINE n == Len(s)
           a == SubSeq(s, 1, k - 1)
           b == SubSeq(s, k + 1, n)
           r == RemoveAt(s, k)
<1>1. n \in Nat /\ DOMAIN s = 1..n /\ k \in 1..n /\ \A i \in 1..n : s[i] \in S
  BY LenProperties, ElementOfSeq
<1> HIDE DEF n
<1>2. a \in Seq(S) /\ Len(a) = k - 1 /\ \A i \in 1..(k - 1) : a[i] = s[i]
  <2>1. 1 \in Int /\ k - 1 \in Int /\ \A i \in 1..(k - 1) : s[i] \in S
    BY <1>1
  <2>2. /\ a \in Seq(S) /\ Len(a) = IF 1 <= k - 1 THEN (k - 1) - 1 + 1 ELSE 0
        /\ \A i \in 1..((k - 1) - 1 + 1) : a[i] = s[1 + i - 1]
    BY <2>1, SubSeqProperties
  <2> HIDE DEF a
  <2> QED  BY <1>1, <2>2
<1>3. b \in Seq(S) /\ Len(b) = n - k /\ \A i \in 1..(n - k) : b[i] = s[k + i]
  <2>1. k + 1 \in Int /\ n \in Int /\ \A i \in (k + 1)..n : s[i] \in S
    BY <1>1
  <2>2. /\ b \in Seq(S) /\ Len(b) = IF k + 1 <= n THEN n - (k + 1) + 1 ELSE 0
        /\ \A i \in 1..(n - (k + 1) + 1) : b[i] = s[k + 1 + i - 1]
    BY <2>1, SubSeqProperties
  <2> HIDE DEF b
  <2>3. n - (k + 1) + 1 = n - k /\ Len(b) = n - k
    BY <1>1, <2>2
  <2>4. ASSUME NEW i \in 1..(n - k) PROVE b[i] = s[k + i]
    <3>1. k + 1 + i - 1 = k + i
      BY <1>1
    <3> QED  BY <2>2, <2>3, <3>1
  <2> QED  BY <2>2, <2>3, <2>4
<1>4. r = a \o b
  BY DEF RemoveAt, n
<1> HIDE DEF a, b, r
<1>5. /\ r \in Seq(S) /\ Len(r) = Len(a) + Len(b)
      /\ \A i \in 1..(Len(a) + Len(b)) : r[i] = IF i <= Len(a) THEN a[i] ELSE b[i - Len(a)]
  BY <1>2, <1>3, <1>4, ConcatProperties
<1>6. Len(r) = n - 1 /\ DOMAIN r = 1..(n - 1)
  BY <1>1, <1>2, <1>3, <1>5, LenProperties
<1>7. ASSUME NEW i \in 1..(n - 1) PROVE r[i] = s[IF i < k THEN i ELSE i + 1]
  <2>1. r[i] = IF i <= k - 1 THEN a[i] ELSE b[i - (k - 1)]
    BY <1>1, <1>2, <1>3, <1>5
  <2>2. CASE i < k
    BY <1>1, <1>2, <2>1, <2>2
  <2>3. CASE ~(i < k)
    <3>1. i - (k - 1) \in 1..(n - k) /\ k + (i - (k - 1)) = i + 1 /\ ~(i <= k - 1)
      BY <1>1, <2>3
    <3> QED  BY <1>3, <2>1, <2>3, <3>1
  <2> QED  BY <2>2, <2>3
<1>8. \A i \in DOMAIN r :
        LET j == IF i < k THEN i ELSE i + 1
        IN  j \in DOMAIN s /\ j # k /\ r[i] = s[j]
  BY <1>1, <1>6, <1>7
<1>9. ASSUME NEW j \in DOMAIN s, j # k PROVE \E i \in DOMAIN r : r[i] = s[j]
  <2> DEFINE i == IF j < k THEN j ELSE j - 1
  <2>1. i \in 1..(n - 1) /\ (IF i < k THEN i ELSE i + 1) = j
    BY <1>1, <1>9
  <2> HIDE DEF i
  <2> QED  BY <1>6, <1>7, <2>1
<1> QED  BY <1>5, <1>6, <1>8, <1>9 DEF n, r

LEMMA ChargedType == ASSUME NEW s \in Seq(Events) PROVE Charged(s) \in Nat
<1> DEFINE D == {i \in DOMAIN s : ConsumesBudget(s[i])}
<1>1. DOMAIN s = 1..Len(s) /\ Len(s) \in Nat
  BY LenProperties
<1>2. IsFiniteSet(1..Len(s))
  BY <1>1, FS_Interval
<1>3. IsFiniteSet(D)
  BY <1>1, <1>2, FS_Subset
<1> QED  BY <1>3, FS_CardinalityType DEF Charged

LEMMA ChargedEmpty == Charged(<<>>) = 0
<1>1. {i \in DOMAIN <<>> : ConsumesBudget(<<>>[i])} = {}
  OBVIOUS
<1> QED  BY <1>1, FS_EmptySet DEF Charged

LEMMA ChargedAppend ==
    ASSUME NEW s \in Seq(Events), NEW e \in Events
    PROVE  Charged(Append(s, e)) = Charged(s) + IF ConsumesBudget(e) THEN 1 ELSE 0
<1> DEFINE t == Append(s, e)
           D == {i \in DOMAIN s : ConsumesBudget(s[i])}
           E == {i \in DOMAIN t : ConsumesBudget(t[i])}
           n == Len(s) + 1
<1>1. DOMAIN s = 1..Len(s) /\ Len(s) \in Nat
  BY LenProperties
<1>2. /\ n \notin DOMAIN s /\ \A i \in DOMAIN t : i \in DOMAIN s \/ i = n
      /\ \A i \in DOMAIN s : t[i] = s[i]
      /\ t[n] = e /\ t \in Seq(Events)
  BY AppendPlace
<1>3. DOMAIN t = 1..n
  BY <1>1, AppendProperties, LenProperties
<1>4. IsFiniteSet(D) /\ n \notin D
  <2>1. IsFiniteSet(1..Len(s))
    BY <1>1, FS_Interval
  <2> QED  BY <1>1, <1>2, <2>1, FS_Subset
<1>5. E = IF ConsumesBudget(e) THEN D \cup {n} ELSE D
  <2> HIDE DEF t, n
  <2>1. n \in DOMAIN t /\ DOMAIN s \subseteq DOMAIN t
    BY <1>1, <1>3 DEF n
  <2> QED  BY <1>2, <2>1
<1>6. Cardinality(D) \in Nat
  BY <1>4, FS_CardinalityType
<1>7. Cardinality(D \cup {n}) = Cardinality(D) + 1
  BY <1>4, FS_AddElement
<1> HIDE DEF D, E, n, t
<1>8. Cardinality(E) = Cardinality(D) + IF ConsumesBudget(e) THEN 1 ELSE 0
  BY <1>5, <1>6, <1>7
<1> QED  BY <1>8 DEF Charged, D, E, t

LEMMA ChargedConcat ==
    ASSUME NEW s \in Seq(Events), NEW t \in Seq(Events),
           \A i \in DOMAIN t : ConsumesBudget(t[i])
    PROVE  Charged(s \o t) = Charged(s) + Len(t)
<1> DEFINE r == s \o t
           D == {i \in DOMAIN s : ConsumesBudget(s[i])}
           E == {i \in DOMAIN r : ConsumesBudget(r[i])}
           n == Len(s)
           m == Len(t)
           T == (n + 1)..(n + m)
<1>1. DOMAIN s = 1..n /\ n \in Nat /\ DOMAIN t = 1..m /\ m \in Nat
  BY LenProperties
<1>2. /\ r \in Seq(Events) /\ Len(r) = n + m
      /\ \A i \in 1..(n + m) : r[i] = IF i <= n THEN s[i] ELSE t[i - n]
  BY ConcatProperties
<1>3. DOMAIN r = 1..(n + m)
  BY <1>2, LenProperties
<1>4. IsFiniteSet(1..n) /\ D \subseteq 1..n
  BY <1>1, FS_Interval
<1>5. IsFiniteSet(D)
  BY <1>4, FS_Subset
<1> HIDE DEF r, n, m
<1>6. IsFiniteSet(T) /\ Cardinality(T) = m
  <2>1. n + 1 \in Int /\ n + m \in Int
    BY <1>1
  <2>2. IsFiniteSet(T) /\ Cardinality(T) = IF n + 1 > n + m THEN 0 ELSE (n + m) - (n + 1) + 1
    BY <2>1, FS_Interval
  <2> QED  BY <1>1, <2>2
<1>7. E = D \cup T
  <2>1. ASSUME NEW i \in 1..(n + m) PROVE i \in E <=> i \in D \cup T
    <3>1. CASE i <= n
      BY <1>1, <1>2, <1>3, <2>1, <3>1
    <3>2. CASE ~(i <= n)
      <4>1. i - n \in DOMAIN t /\ i \in T
        BY <1>1, <2>1, <3>2
      <4> QED  BY <1>2, <1>3, <2>1, <3>2, <4>1
    <3> QED  BY <3>1, <3>2
  <2>2. E \subseteq 1..(n + m) /\ D \cup T \subseteq 1..(n + m)
    BY <1>1, <1>3, <1>4
  <2> QED  BY <2>1, <2>2
<1>8. D \cap T = {}
  BY <1>1, <1>4
<1>9. Cardinality(D) \in Nat
  BY <1>5, FS_CardinalityType
<1>10. Cardinality(D \cup T) = Cardinality(D) + Cardinality(T) - Cardinality({})
  <2>1. IsFiniteSet(T)
    BY <1>6
  <2> HIDE DEF D, T
  <2>2. Cardinality(D \cup T) = Cardinality(D) + Cardinality(T) - Cardinality(D \cap T)
    BY <1>5, <2>1, FS_Union
  <2> QED  BY <1>8, <2>2
<1> HIDE DEF D, E, T
<1>11. Cardinality(E) = Cardinality(D) + m
  BY <1>1, <1>6, <1>7, <1>9, <1>10, FS_EmptySet
<1> QED  BY <1>11 DEF Charged, D, E, r, m

-----------------------------------------------------------------------------
(* A command is submitted                                                    *)

\* What Submitted leaves of the queue, and what it adds.
Rest(m, c) ==
    IF Replaced(m, c) = {} THEN m.queue ELSE RemoveAt(m.queue, First(Replaced(m, c)))
Entered(m, g, c) ==
    [kind |-> c.kind, prov |-> c.prov, id |-> c.id, gen |-> g,
     revs |-> IF c.kind = "Cred" THEN [m.revs EXCEPT ![c.prov] = @ + 1] ELSE m.revs]
Superseding(m, c) == m.queue[First(Replaced(m, c))].gen

LEMMA FirstPlace ==
    ASSUME NEW P \in SUBSET Nat, P # {}
    PROVE  First(P) \in P
<1>1. PICK i \in P : \A j \in P : ~(<<j, i>> \in OpToRel(<, Nat))
  BY WFMin, NatLessThanWellFounded
<1>2. ASSUME NEW j \in P PROVE i <= j
  <2>1. OpToRel(<, Nat) = {ss \in Nat \X Nat : ss[1] < ss[2]}
    BY Zenon DEF OpToRel
  <2>2. ~(j < i)
    BY <1>1, <2>1
  <2> QED  BY <2>2
<1> QED  BY <1>2 DEF First

LEMMA RestFacts ==
    ASSUME NEW m \in Mails, NEW c
    PROVE  /\ Rest(m, c) \in Seq(Requests)
           /\ Replaced(m, c) = {} => Rest(m, c) = m.queue
           /\ Replaced(m, c) # {} =>
                LET k == First(Replaced(m, c)) IN
                /\ k \in DOMAIN m.queue /\ k \in Replaced(m, c)
                /\ Len(Rest(m, c)) = Len(m.queue) - 1
                /\ \A i \in DOMAIN Rest(m, c) :
                     LET j == IF i < k THEN i ELSE i + 1
                     IN  j \in DOMAIN m.queue /\ j # k /\ Rest(m, c)[i] = m.queue[j]
                /\ \A j \in DOMAIN m.queue : j # k =>
                     \E i \in DOMAIN Rest(m, c) : Rest(m, c)[i] = m.queue[j]
<1>1. m.queue \in Seq(Requests)
  BY DEF Mails
<1>2. DOMAIN m.queue \subseteq Nat
  BY <1>1, LenProperties
<1>3. CASE Replaced(m, c) = {}
  BY <1>1, <1>3 DEF Rest
<1>4. CASE Replaced(m, c) # {}
  <2>1. First(Replaced(m, c)) \in Replaced(m, c)
    BY <1>2, <1>4, FirstPlace DEF Replaced
  <2>2. First(Replaced(m, c)) \in DOMAIN m.queue
    BY <2>1 DEF Replaced
  <2> DEFINE k == First(Replaced(m, c))
  <2>3. Rest(m, c) = RemoveAt(m.queue, k)
    BY <1>4 DEF Rest
  <2> HIDE DEF k
  <2>4. k \in DOMAIN m.queue /\ k \in Replaced(m, c)
    BY <2>1, <2>2 DEF k
  <2>5. /\ Rest(m, c) \in Seq(Requests) /\ Len(Rest(m, c)) = Len(m.queue) - 1
        /\ \A i \in DOMAIN Rest(m, c) :
             LET j == IF i < k THEN i ELSE i + 1
             IN  j \in DOMAIN m.queue /\ j # k /\ Rest(m, c)[i] = m.queue[j]
        /\ \A j \in DOMAIN m.queue : j # k =>
             \E i \in DOMAIN Rest(m, c) : Rest(m, c)[i] = m.queue[j]
    <3> DEFINE q == m.queue
               r == RemoveAt(q, k)
    <3>1. q \in Seq(Requests) /\ k \in DOMAIN q
      BY <1>1, <2>4
    <3> HIDE DEF q
    <3>2. /\ r \in Seq(Requests) /\ Len(r) = Len(q) - 1
          /\ \A i \in DOMAIN r :
               LET j == IF i < k THEN i ELSE i + 1
               IN  j \in DOMAIN q /\ j # k /\ r[i] = q[j]
          /\ \A j \in DOMAIN q : j # k => \E i \in DOMAIN r : r[i] = q[j]
      BY <3>1, RemoveAtFacts
    <3> HIDE DEF r
    <3>3. Rest(m, c) = r
      BY <2>3 DEF q, r
    <3> QED  BY <3>2, <3>3 DEF q
  <2> QED  BY <1>4, <2>4, <2>5 DEF k
<1> QED  BY <1>3, <1>4

LEMMA EnteredType ==
    ASSUME NEW m \in Mails, NEW g \in Nat, NEW c \in Commands, Fit(c)
    PROVE  Entered(m, g, c) \in Requests /\ Entered(m, g, c).gen = g /\ Fit(Entered(m, g, c))
           /\ \A scope : Invalidates(Entered(m, g, c), scope) <=> Invalidates(c, scope)
<1> DEFINE revs == IF c.kind = "Cred" THEN [m.revs EXCEPT ![c.prov] = @ + 1] ELSE m.revs
<1>1. m.revs \in [Providers -> Nat]
  BY DEF Mails
<1>2. revs \in [Providers -> Nat]
  <2>1. CASE c.kind = "Cred"
    <3>1. c.prov \in Providers
      BY <2>1 DEF Fit
    <3>2. m.revs[c.prov] + 1 \in Nat
      BY <1>1, <3>1
    <3> QED  BY <1>1, <2>1, <3>2
  <2> QED  BY <1>1, <2>1
<1> HIDE DEF revs
<1>3. Entered(m, g, c) = [kind |-> c.kind, prov |-> c.prov, id |-> c.id, gen |-> g, revs |-> revs]
  BY DEF Entered, revs
<1>4. /\ Entered(m, g, c).kind = c.kind /\ Entered(m, g, c).prov = c.prov
      /\ Entered(m, g, c).id = c.id /\ Entered(m, g, c).gen = g
  BY <1>3
<1>5. Entered(m, g, c) \in Requests
  BY <1>2, <1>3 DEF Requests, Commands
<1> QED  BY <1>4, <1>5 DEF Fit, Invalidates

LEMMA EventType ==
    ASSUME NEW g \in Nat, NEW outcome \in Outcomes
    PROVE  /\ Event(g, outcome) \in Events /\ Event(g, outcome).gen = g
           /\ Event(g, outcome).kind = outcome.kind
<1> QED  BY DEF Event, Events, Outcomes

LEMMA FailedType == Failed \in Outcomes /\ Failed.kind = "Failed"
<1> QED  BY DEF Failed, Outcome, Outcomes, OutcomeKinds, Provs

LEMMA SupersedingIs ==
    ASSUME NEW m \in Mails, NEW c, Replaced(m, c) # {}
    PROVE  Superseding(m, c) \in Nat /\ Has(m.queue, Superseding(m, c))
<1> DEFINE k == First(Replaced(m, c))
<1>1. m.queue \in Seq(Requests) /\ k \in DOMAIN m.queue
  BY RestFacts DEF Mails
<1> HIDE DEF k
<1>2. m.queue[k] \in Requests
  BY <1>1, LenProperties, ElementOfSeq
<1>3. Superseding(m, c) = m.queue[k].gen
  BY DEF Superseding, k
<1> QED  BY <1>1, <1>2, <1>3 DEF Has, Requests

\* What a submission makes of the mailbox, field by field.
Admitted(n, m, g, c) ==
    /\ n \in Mails
    /\ n.queue = Append(Rest(m, c), Entered(m, g, c))
    /\ n.events = IF Replaced(m, c) = {} THEN m.events
                  ELSE Append(m.events, Event(Superseding(m, c), Failed))
    /\ n.outstanding = m.outstanding + 1
    /\ n.stopped = m.stopped /\ n.active = m.active /\ n.discarded = m.discarded
    /\ n.preparedGen = m.preparedGen /\ n.scope = m.scope /\ n.epoch = m.epoch
    /\ n.dead = (m.dead \/ Invalidates(c, m.scope))
    /\ n.cancelled \subseteq m.cancelled \cup m.pipeline
    /\ \A x \in m.cancelled : x \in n.cancelled \/ Has(m.queue, x)
    /\ n.pipeline \subseteq m.pipeline \cup {g}

LEMMA SubmittedIs ==
    ASSUME NEW m \in Mails, NEW g \in Nat, NEW c \in Commands, Fit(c)
    PROVE  Admitted(Submitted(m, g, c), m, g, c)
<1> DEFINE n == Submitted(m, g, c)
           e == Event(Superseding(m, c), Failed)
<1>1. /\ m.queue \in Seq(Requests) /\ m.events \in Seq(Events) /\ m.revs \in [Providers -> Nat]
      /\ m.cancelled \in SUBSET Nat /\ m.pipeline \in SUBSET Nat /\ m.dead \in BOOLEAN
      /\ m.outstanding \in Int
  BY DEF Mails
<1>2. /\ n.outstanding = m.outstanding + 1
      /\ n.stopped = m.stopped /\ n.active = m.active /\ n.discarded = m.discarded
      /\ n.preparedGen = m.preparedGen /\ n.scope = m.scope /\ n.epoch = m.epoch
      /\ n.dead = (m.dead \/ Invalidates(c, m.scope))
      /\ n.revs = IF c.kind = "Cred" THEN [m.revs EXCEPT ![c.prov] = @ + 1] ELSE m.revs
      /\ DOMAIN n = DOMAIN m
  BY DEF Submitted, Mails
<1>3. n.queue = Append(Rest(m, c), Entered(m, g, c))
  BY DEF Submitted, Mails, Rest, Entered
<1>4. n.events = IF Replaced(m, c) = {} THEN m.events ELSE Append(m.events, e)
  <2>1. n.events = m.events \o SupersededEvents(m, c)
    BY DEF Submitted, Mails
  <2>2. CASE Replaced(m, c) = {}
    BY <1>1, <2>1, <2>2, ConcatEmptySeq DEF SupersededEvents
  <2>3. CASE Replaced(m, c) # {}
    <3>1. n.events = m.events \o <<e>>
      BY <2>1, <2>3 DEF SupersededEvents, Superseding
    <3>2. e \in Events
      BY <2>3, SupersedingIs, EventType, FailedType
    <3> HIDE DEF e, n
    <3>3. n.events = Append(m.events, e)
      BY <1>1, <3>1, <3>2, AppendIsConcat
    <3> QED  BY <2>3, <3>3
  <2> QED  BY <2>2, <2>3
<1>5. n.events \in Seq(Events)
  <2>1. Replaced(m, c) # {} => e \in Events
    BY SupersedingIs, EventType, FailedType
  <2> HIDE DEF e, n
  <2> QED  BY <1>1, <1>4, <2>1, AppendProperties
<1>6. n.queue \in Seq(Requests)
  <2>1. Rest(m, c) \in Seq(Requests) /\ Entered(m, g, c) \in Requests
    BY RestFacts, EnteredType
  <2> HIDE DEF n
  <2> QED  BY <1>3, <2>1, AppendProperties
<1>7. n.revs \in [Providers -> Nat]
  <2>1. Entered(m, g, c).revs = n.revs /\ Entered(m, g, c) \in Requests
    BY <1>2, EnteredType DEF Entered
  <2> HIDE DEF n
  <2> QED  BY <2>1 DEF Requests
<1> DEFINE cut == IF Pipeline(c) \/ Invalidates(c, m.scope) \/ c.kind = "Save"
                  THEN m.pipeline ELSE {}
           same == {m.queue[i].gen : i \in Replaced(m, c)}
<1>8. /\ n.cancelled = (m.cancelled \cup cut) \ same
      /\ n.pipeline = (m.pipeline \ cut) \cup (IF Pipeline(c) THEN {g} ELSE {})
  BY DEF Submitted, Mails
<1>9. cut \subseteq m.pipeline /\ \A x \in same : Has(m.queue, x)
  BY DEF Has, Replaced
<1> HIDE DEF cut, same
<1>10. /\ n.cancelled \subseteq m.cancelled \cup m.pipeline
       /\ \A x \in m.cancelled : x \in n.cancelled \/ Has(m.queue, x)
       /\ n.pipeline \subseteq m.pipeline \cup {g}
       /\ n.cancelled \in SUBSET Nat /\ n.pipeline \in SUBSET Nat
  <2> HIDE DEF n
  <2> QED  BY <1>1, <1>8, <1>9
<1>11. n.dead \in BOOLEAN
  BY <1>1, <1>2 DEF Invalidates
<1>12. n \in Mails
  <2>1. n = [m EXCEPT !.revs = n.revs, !.dead = n.dead, !.cancelled = n.cancelled,
                      !.pipeline = n.pipeline, !.events = n.events, !.queue = n.queue,
                      !.outstanding = n.outstanding]
    BY DEF Submitted, Mails
  <2>2. n.outstanding \in Int
    BY <1>1, <1>2
  <2> HIDE DEF n
  <2> QED  BY <1>5, <1>6, <1>7, <1>10, <1>11, <2>1, <2>2 DEF Mails
<1> HIDE DEF n
<1>13. Admitted(n, m, g, c)
  BY <1>2, <1>3, <1>4, <1>10, <1>12 DEF Admitted
<1> QED  BY <1>13 DEF n

-----------------------------------------------------------------------------
(* Where a generation is                                                     *)

LEMMA HasNothing == \A g : ~Has(<<>>, g)
<1> QED  BY DEF Has

LEMMA DistinctNothing == Distinct(<<>>)
<1> QED  BY DEF Distinct

LEMMA HasAppend ==
    ASSUME NEW S, NEW s \in Seq(S), NEW e \in S
    PROVE  /\ \A g : Has(Append(s, e), g) <=> Has(s, g) \/ e.gen = g
           /\ Distinct(s) /\ (e.gen = 0 \/ ~Has(s, e.gen)) => Distinct(Append(s, e))
<1> DEFINE t == Append(s, e)
           n == Len(s) + 1
<1>1. /\ n \notin DOMAIN s /\ \A i \in DOMAIN t : i \in DOMAIN s \/ i = n
      /\ \A i \in DOMAIN s : t[i] = s[i]
      /\ t[n] = e
  BY AppendPlace
<1>2. n \in DOMAIN t /\ DOMAIN s \subseteq DOMAIN t
  <2>1. DOMAIN s = 1..Len(s) /\ DOMAIN t = 1..(Len(s) + 1) /\ Len(s) \in Nat
    BY AppendProperties, LenProperties
  <2> QED  BY <2>1
<1> HIDE DEF t, n
<1>3. \A g : Has(t, g) <=> Has(s, g) \/ e.gen = g
  BY <1>1, <1>2 DEF Has
<1>4. ASSUME Distinct(s), e.gen = 0 \/ ~Has(s, e.gen) PROVE Distinct(t)
  BY <1>1, <1>2, <1>4 DEF Has, Distinct
<1> QED  BY <1>3, <1>4 DEF t

LEMMA HasTail ==
    ASSUME NEW S, NEW s \in Seq(S), s # <<>>
    PROVE  /\ \A g : Has(s, g) <=> Head(s).gen = g \/ Has(Tail(s), g)
           /\ Distinct(s) => /\ Distinct(Tail(s))
                             /\ Head(s).gen # 0 => ~Has(Tail(s), Head(s).gen)
<1> DEFINE t == Tail(s)
<1>1. /\ t \in Seq(S)
      /\ \A i \in DOMAIN t : i + 1 \in DOMAIN s /\ t[i] = s[i + 1]
      /\ Head(s) = s[1] /\ 1 \in DOMAIN s
  BY TailIndices
<1>2. /\ DOMAIN s = 1..Len(s) /\ Len(s) \in Nat
      /\ DOMAIN t = 1..Len(t) /\ Len(t) = Len(s) - 1
  BY <1>1, LenProperties, HeadTailProperties
<1> HIDE DEF t
<1>3. \A j \in DOMAIN s : j = 1 \/ (j - 1 \in DOMAIN t /\ t[j - 1] = s[j])
  <2> SUFFICES ASSUME NEW j \in DOMAIN s, j # 1 PROVE j - 1 \in DOMAIN t /\ t[j - 1] = s[j]
    OBVIOUS
  <2>1. j - 1 \in DOMAIN t /\ (j - 1) + 1 = j
    BY <1>2
  <2> QED  BY <1>1, <2>1
<1>4. \A g : Has(s, g) <=> s[1].gen = g \/ Has(t, g)
  <2> SUFFICES ASSUME NEW g PROVE Has(s, g) <=> s[1].gen = g \/ Has(t, g)
    OBVIOUS
  <2>1. ASSUME Has(s, g) PROVE s[1].gen = g \/ Has(t, g)
    BY <1>3, <2>1 DEF Has
  <2>2. ASSUME Has(t, g) PROVE Has(s, g)
    BY <1>1, <2>2 DEF Has
  <2>3. ASSUME s[1].gen = g PROVE Has(s, g)
    BY <1>1, <2>3 DEF Has
  <2> QED  BY <2>1, <2>2, <2>3
<1>5. ASSUME Distinct(s)
      PROVE  Distinct(t) /\ (s[1].gen # 0 => ~Has(t, s[1].gen))
  <2>1. ASSUME NEW i \in DOMAIN t, NEW j \in DOMAIN t, t[i].gen = t[j].gen, t[i].gen # 0
        PROVE  i = j
    <3>1. i + 1 \in DOMAIN s /\ j + 1 \in DOMAIN s /\ t[i] = s[i + 1] /\ t[j] = s[j + 1]
      BY <1>1
    <3>2. i + 1 = j + 1
      BY <1>5, <2>1, <3>1 DEF Distinct
    <3> QED  BY <1>2, <3>2
  <2>2. ASSUME NEW i \in DOMAIN t, t[i].gen = s[1].gen, s[1].gen # 0 PROVE FALSE
    <3>1. i + 1 \in DOMAIN s /\ t[i] = s[i + 1]
      BY <1>1
    <3>2. i + 1 = 1
      BY <1>1, <1>5, <2>2, <3>1 DEF Distinct
    <3> QED  BY <1>2, <3>2
  <2> QED  BY <2>1, <2>2 DEF Distinct, Has
<1> QED  BY <1>1, <1>4, <1>5 DEF t

LEMMA HasConcat ==
    ASSUME NEW S, NEW s \in Seq(S), NEW t \in Seq(S)
    PROVE  /\ \A g : Has(s \o t, g) <=> Has(s, g) \/ Has(t, g)
           /\ Distinct(s) /\ Distinct(t) /\ (\A g : Has(s, g) /\ g # 0 => ~Has(t, g))
                => Distinct(s \o t)
<1> DEFINE r == s \o t
           n == Len(s)
           m == Len(t)
<1>1. DOMAIN s = 1..n /\ n \in Nat /\ DOMAIN t = 1..m /\ m \in Nat
  BY LenProperties
<1>2. /\ r \in Seq(S) /\ Len(r) = n + m
      /\ \A i \in 1..(n + m) : r[i] = IF i <= n THEN s[i] ELSE t[i - n]
  BY ConcatProperties
<1>3. DOMAIN r = 1..(n + m)
  BY <1>2, LenProperties
<1> HIDE DEF r, n, m
<1>4. \A i \in DOMAIN r : \/ i \in DOMAIN s /\ r[i] = s[i]
                          \/ i - n \in DOMAIN t /\ r[i] = t[i - n]
  BY <1>1, <1>2, <1>3
<1>5. \A i \in DOMAIN s : i \in DOMAIN r /\ r[i] = s[i]
  BY <1>1, <1>2, <1>3
<1>6. \A i \in DOMAIN t : n + i \in DOMAIN r /\ r[n + i] = t[i]
  <2> SUFFICES ASSUME NEW i \in DOMAIN t PROVE n + i \in DOMAIN r /\ r[n + i] = t[i]
    OBVIOUS
  <2>1. n + i \in 1..(n + m) /\ ~(n + i <= n) /\ (n + i) - n = i
    BY <1>1
  <2> QED  BY <1>2, <1>3, <2>1
<1>7. \A g : Has(r, g) <=> Has(s, g) \/ Has(t, g)
  <2> SUFFICES ASSUME NEW g PROVE Has(r, g) <=> Has(s, g) \/ Has(t, g)
    OBVIOUS
  <2>1. ASSUME Has(r, g) PROVE Has(s, g) \/ Has(t, g)
    BY <1>4, <2>1 DEF Has
  <2>2. ASSUME Has(s, g) PROVE Has(r, g)
    BY <1>5, <2>2 DEF Has
  <2>3. ASSUME Has(t, g) PROVE Has(r, g)
    BY <1>6, <2>3 DEF Has
  <2> QED  BY <2>1, <2>2, <2>3
<1>8. ASSUME Distinct(s), Distinct(t), \A g : Has(s, g) /\ g # 0 => ~Has(t, g)
      PROVE  Distinct(r)
  <2> SUFFICES ASSUME NEW i \in DOMAIN r, NEW j \in DOMAIN r,
                      r[i].gen = r[j].gen, r[i].gen # 0
               PROVE  i = j
    BY DEF Distinct
  <2>1. ASSUME NEW a \in DOMAIN s, NEW b \in DOMAIN t, s[a].gen = t[b].gen, s[a].gen # 0
        PROVE  FALSE
    BY <1>8, <2>1 DEF Has
  <2>2. CASE i \in DOMAIN s /\ r[i] = s[i] /\ j \in DOMAIN s /\ r[j] = s[j]
    BY <1>8, <2>2 DEF Distinct
  <2>3. CASE i - n \in DOMAIN t /\ r[i] = t[i - n] /\ j - n \in DOMAIN t /\ r[j] = t[j - n]
    <3>1. i - n = j - n
      BY <1>8, <2>3 DEF Distinct
    <3> QED  BY <1>1, <1>3, <3>1
  <2> QED  BY <1>4, <2>1, <2>2, <2>3
<1> QED  BY <1>7, <1>8 DEF r

LEMMA HasRest ==
    ASSUME NEW m \in Mails, NEW c, Replaced(m, c) # {}
    PROVE  /\ \A g : Has(m.queue, g) <=> Has(Rest(m, c), g) \/ g = Superseding(m, c)
           /\ Distinct(m.queue) =>
                /\ Distinct(Rest(m, c))
                /\ Superseding(m, c) # 0 => ~Has(Rest(m, c), Superseding(m, c))
<1> DEFINE q == m.queue
           r == Rest(m, c)
           k == First(Replaced(m, c))
<1>1. /\ k \in DOMAIN q
      /\ \A i \in DOMAIN r : LET j == IF i < k THEN i ELSE i + 1
                             IN  j \in DOMAIN q /\ j # k /\ r[i] = q[j]
      /\ \A j \in DOMAIN q : j # k => \E i \in DOMAIN r : r[i] = q[j]
  BY RestFacts
<1>2. DOMAIN q = 1..Len(q) /\ Len(q) \in Nat /\ DOMAIN r = 1..Len(r) /\ Len(r) \in Nat
  BY RestFacts, LenProperties DEF Mails
<1>3. Superseding(m, c) = q[k].gen
  BY DEF Superseding
<1> HIDE DEF q, r, k
<1> DEFINE From(i) == IF i < k THEN i ELSE i + 1
<1>4. \A i \in DOMAIN r : From(i) \in DOMAIN q /\ From(i) # k /\ r[i] = q[From(i)]
  BY <1>1
<1>5. \A i, j \in DOMAIN r : From(i) = From(j) => i = j
  BY <1>1, <1>2
<1> HIDE DEF From
<1>6. \A g : Has(q, g) <=> Has(r, g) \/ g = q[k].gen
  <2> SUFFICES ASSUME NEW g PROVE Has(q, g) <=> Has(r, g) \/ g = q[k].gen
    OBVIOUS
  <2>1. ASSUME Has(q, g) PROVE Has(r, g) \/ g = q[k].gen
    BY <1>1, <2>1 DEF Has
  <2>2. ASSUME Has(r, g) PROVE Has(q, g)
    BY <1>4, <2>2 DEF Has
  <2>3. ASSUME g = q[k].gen PROVE Has(q, g)
    BY <1>1, <2>3 DEF Has
  <2> QED  BY <2>1, <2>2, <2>3
<1>7. ASSUME Distinct(q) PROVE Distinct(r) /\ (q[k].gen # 0 => ~Has(r, q[k].gen))
  <2>1. Distinct(r)
    BY <1>4, <1>5, <1>7 DEF Distinct
  <2>2. q[k].gen # 0 => ~Has(r, q[k].gen)
    BY <1>1, <1>4, <1>7 DEF Distinct, Has
  <2> QED  BY <2>1, <2>2
<1> QED  BY <1>3, <1>6, <1>7 DEF q, r

-----------------------------------------------------------------------------
(* What the interface does to the books                                      *)

\* A step of the interface leaves what the worker is at.
Follows(m, u, n, v) ==
    /\ n.epoch = m.epoch /\ n.scope = m.scope /\ n.active = m.active /\ n.stopped = m.stopped
    /\ m.active # 0 /\ m.active \in m.cancelled => m.active \in n.cancelled
    /\ u.next <= v.next
    /\ \A g \in 1..u.next : Has(n.queue, g) => Has(m.queue, g)

LEMMA FollowsOn ==
    ASSUME NEW m \in Mails, NEW n \in Mails, NEW o \in Mails,
           NEW u \in Uis, NEW v \in Uis, NEW w \in Uis,
           Follows(m, u, n, v), Follows(n, v, o, w)
    PROVE  Follows(m, u, o, w)
<1>1. u.next \in Nat /\ v.next \in Nat /\ w.next \in Nat
  BY DEF Uis
<1>2. u.next <= w.next
  BY <1>1 DEF Follows
<1>3. ASSUME NEW g \in 1..u.next, Has(o.queue, g) PROVE Has(m.queue, g)
  <2>1. g \in 1..v.next
    BY <1>1 DEF Follows
  <2> QED  BY <1>3, <2>1 DEF Follows
<1>4. m.active # 0 /\ m.active \in m.cancelled => m.active \in o.cancelled
  BY DEF Follows
<1> QED  BY <1>2, <1>3, <1>4 DEF Follows

\* A step that leaves what the interface has asked for and what it was told.
Retains(u, v) ==
    v \in Uis /\ v.inbox = u.inbox /\ v.pending = u.pending /\ v.next = u.next /\ Windowed(v)

LEMMA RetainsBooks ==
    ASSUME NEW m, NEW u, NEW v, Books(m, u), Retains(u, v)
    PROVE  Books(m, v) /\ Follows(m, u, m, v)
<1>1. \A g \in Nat \ {0} : Once(m, v, g)
  BY DEF Books, Retains, Once, Asked
<1>2. Numbered(v) /\ Bounds(m, v) /\ Distinct(v.inbox)
  BY DEF Books, Retains, Numbered, Bounds
<1>3. u.next \in Nat
  BY DEF Books, Uis
<1>4. Follows(m, u, m, v)
  BY <1>3 DEF Follows, Retains
<1> QED  BY <1>1, <1>2, <1>4 DEF Books, Retains

\* A step that only marks what is to be given up.
Marks(m, n, u) ==
    /\ n \in Mails /\ Bounds(n, u)
    /\ n.queue = m.queue /\ n.events = m.events /\ n.outstanding = m.outstanding
    /\ n.stopped = m.stopped /\ n.active = m.active /\ n.scope = m.scope
    /\ n.epoch = m.epoch /\ n.dead = m.dead /\ m.cancelled \subseteq n.cancelled

LEMMA MarksBooks ==
    ASSUME NEW m, NEW n, NEW u, Books(m, u), Marks(m, n, u)
    PROVE  Books(n, u) /\ Follows(m, u, n, u)
<1>1. \A g \in Nat \ {0} : Once(n, u, g)
  BY DEF Books, Marks, Once
<1>2. Sound(n) /\ Budget(n)
  BY DEF Books, Marks, Sound, Budget
<1>3. u.next \in Nat
  BY DEF Books, Uis
<1>4. Follows(m, u, n, u)
  BY <1>3 DEF Follows, Marks
<1> QED  BY <1>1, <1>2, <1>4 DEF Books, Marks

LEMMA CancelBooks ==
    ASSUME NEW m, NEW u, NEW g \in Nat, Books(m, u), g <= u.next
    PROVE  /\ Books(CancelRequest(m, g), u)
           /\ Follows(m, u, CancelRequest(m, g), u)
<1> DEFINE n == CancelRequest(m, g)
<1>1. u.next \in Nat /\ m \in Mails
  BY DEF Books, Uis
<1>2. CASE n = m
  <2>1. Marks(m, m, u)
    BY DEF Marks, Books
  <2> HIDE DEF n
  <2> QED  BY <1>2, <2>1, MarksBooks DEF n
<1>3. CASE n # m
  <2>1. g # 0
    BY <1>3 DEF CancelRequest
  <2>2. /\ n = [m EXCEPT !.discarded = m.discarded \cup {g}, !.cancelled = n.cancelled]
        /\ n.cancelled = m.cancelled \/ n.cancelled = m.cancelled \cup {g}
    BY <1>1, <1>3 DEF CancelRequest, Mails
  <2> HIDE DEF n
  <2>3. n.cancelled \in SUBSET Nat
    BY <1>1, <2>2 DEF Mails
  <2>4. /\ n \in Mails
        /\ n.queue = m.queue /\ n.events = m.events /\ n.outstanding = m.outstanding
        /\ n.stopped = m.stopped /\ n.active = m.active /\ n.scope = m.scope
        /\ n.epoch = m.epoch /\ n.dead = m.dead /\ n.preparedGen = m.preparedGen
        /\ n.pipeline = m.pipeline /\ n.discarded = m.discarded \cup {g}
    <3> DEFINE d == m.discarded \cup {g}
               x == n.cancelled
    <3>1. d \in SUBSET Nat /\ x \in SUBSET Nat
      BY <1>1, <2>3 DEF Mails
    <3>2. n = [m EXCEPT !.discarded = d, !.cancelled = x]
      BY <2>2
    <3> HIDE DEF d, x
    <3>3. /\ n \in Mails
          /\ n.queue = m.queue /\ n.events = m.events /\ n.outstanding = m.outstanding
          /\ n.stopped = m.stopped /\ n.active = m.active /\ n.scope = m.scope
          /\ n.epoch = m.epoch /\ n.dead = m.dead /\ n.preparedGen = m.preparedGen
          /\ n.pipeline = m.pipeline /\ n.discarded = d
      BY <1>1, <3>1, <3>2 DEF Mails
    <3> QED  BY <3>3 DEF d
  <2>5. g \in 1..u.next
    BY <1>1, <2>1
  <2>6. Bounds(m, u)
    BY DEF Books
  <2>7. Bounds(n, u)
    BY <1>1, <2>2, <2>4, <2>5, <2>6 DEF Bounds
  <2>8. Marks(m, n, u)
    BY <2>2, <2>4, <2>7 DEF Marks
  <2> QED  BY <2>8, MarksBooks DEF n
<1> QED  BY <1>2, <1>3

\* What the interface notes of a command.
Known(u, c) ==
    [Latest(u, c, u.next + 1) EXCEPT
       !.next = u.next + 1,
       !.pending = @ \cup {[gen |-> u.next + 1, kind |-> c.kind, id |-> c.id]},
       !.replays = IF c.kind = "Replay" THEN @ \cup {[gen |-> u.next + 1, id |-> c.id]} ELSE @]

LEMMA LatestRetains ==
    ASSUME NEW u \in Uis, NEW c, NEW g \in Nat, Windowed(u)
    PROVE  Retains(u, Latest(u, c, g)) /\ Latest(u, c, g).replays = u.replays
<1> QED  BY DEF Latest, Uis, Retains, Windowed

LEMMA CloseRetains ==
    ASSUME NEW u \in Uis, NEW ids \in SUBSET Nat, Windowed(u)
    PROVE  /\ Retains(u, CloseEmbedded(u, ids))
           /\ CloseEmbedded(u, ids).replays = u.replays
           /\ u.closed \subseteq CloseEmbedded(u, ids).closed
<1> DEFINE gone == ids \cap u.windows
           v == CloseEmbedded(u, ids)
<1>1. v = [u EXCEPT !.windows = u.windows \ gone, !.closed = u.closed \cup gone,
                    !.acknowledged = u.acknowledged \ gone]
  BY DEF CloseEmbedded
<1>2. gone \in SUBSET Nat /\ gone \subseteq u.windows
  OBVIOUS
<1> HIDE DEF gone, v
<1>3. /\ v \in Uis /\ v.inbox = u.inbox /\ v.pending = u.pending /\ v.next = u.next
      /\ v.replays = u.replays
      /\ v.windows = u.windows \ gone /\ v.closed = u.closed \cup gone
      /\ v.acknowledged = u.acknowledged \ gone
  BY <1>1, <1>2 DEF Uis
<1>4. Windowed(v)
  BY <1>3 DEF Windowed
<1> QED  BY <1>3, <1>4 DEF Retains, v

LEMMA KnownIs ==
    ASSUME NEW u \in Uis, NEW c \in Commands, Windowed(u)
    PROVE  /\ Known(u, c) \in Uis /\ Known(u, c).inbox = u.inbox /\ Windowed(Known(u, c))
           /\ Known(u, c).next = u.next + 1
           /\ Known(u, c).pending =
                u.pending \cup {[gen |-> u.next + 1, kind |-> c.kind, id |-> c.id]}
<1> DEFINE l == Latest(u, c, u.next + 1)
           p == [gen |-> u.next + 1, kind |-> c.kind, id |-> c.id]
           v == Known(u, c)
<1>1. u.next + 1 \in Nat
  BY DEF Uis
<1>2. /\ l \in Uis /\ l.inbox = u.inbox /\ l.pending = u.pending /\ l.next = u.next
      /\ Windowed(l)
  BY <1>1, LatestRetains DEF Retains
<1>3. p \in Pendings /\ [gen |-> u.next + 1, id |-> c.id] \in [gen : Nat, id : Nat]
  BY <1>1 DEF Pendings, Commands
<1>4. v = [l EXCEPT
             !.next = u.next + 1, !.pending = l.pending \cup {p},
             !.replays = IF c.kind = "Replay"
                         THEN l.replays \cup {[gen |-> u.next + 1, id |-> c.id]} ELSE l.replays]
  BY DEF Known
<1> HIDE DEF l, p, v
<1>5. /\ v \in Uis /\ v.inbox = l.inbox /\ v.next = u.next + 1
      /\ v.pending = l.pending \cup {p}
      /\ v.windows = l.windows /\ v.closed = l.closed /\ v.acknowledged = l.acknowledged
  BY <1>1, <1>2, <1>3, <1>4 DEF Uis
<1> QED  BY <1>2, <1>5 DEF v, p, Windowed

-----------------------------------------------------------------------------
(* A command is admitted                                                     *)

\* The next generation is nowhere yet.
LEMMA NextIsNew ==
    ASSUME NEW m, NEW u, Books(m, u)
    PROVE  /\ u.next + 1 \in Nat \ {0} /\ ~Asked(u, u.next + 1)
           /\ ~Has(m.queue, u.next + 1) /\ ~Has(m.events, u.next + 1)
           /\ ~Has(u.inbox, u.next + 1) /\ m.active # u.next + 1
<1>1. u.next + 1 \in Nat \ {0} /\ u.next + 1 \notin 1..u.next
  BY DEF Books, Uis
<1>2. ~Asked(u, u.next + 1)
  BY <1>1 DEF Books, Numbered, Asked
<1>3. Once(m, u, u.next + 1)
  BY <1>1 DEF Books
<1> QED  BY <1>1, <1>2, <1>3 DEF Once

\* What stays of the queue beside what replaces it.
LEMMA SubmittedHas ==
    ASSUME NEW m \in Mails, NEW g \in Nat \ {0}, NEW c \in Commands, Fit(c),
           Distinct(m.queue), Distinct(m.events), ~Has(m.queue, g),
           \A x \in Nat \ {0} : Has(m.queue, x) => ~Has(m.events, x)
    PROVE  LET n == Submitted(m, g, c) IN
           /\ Distinct(n.queue) /\ Distinct(n.events)
           /\ \A x \in Nat \ {0} :
                /\ Has(n.queue, x) => x = g \/ (Has(m.queue, x) /\ ~Has(n.events, x))
                /\ Has(n.events, x) => Has(m.events, x) \/ (Has(m.queue, x) /\ ~Has(n.queue, x))
                /\ Has(m.events, x) => Has(n.events, x)
                /\ Has(m.queue, x) => Has(n.queue, x) \/ Has(n.events, x)
                /\ Has(n.queue, g)
<1>0. Admitted(Submitted(m, g, c), m, g, c)
  BY SubmittedIs
<1> DEFINE n == Submitted(m, g, c)
           r == Rest(m, c)
           e == Entered(m, g, c)
           f == Event(Superseding(m, c), Failed)
           x0 == Superseding(m, c)
           none == Replaced(m, c) = {}
<1>1. n.queue = Append(r, e) /\ n.events = IF none THEN m.events ELSE Append(m.events, f)
  BY <1>0 DEF Admitted
<1>2. r \in Seq(Requests) /\ e \in Requests /\ e.gen = g /\ (none => r = m.queue)
  BY RestFacts, EnteredType
<1>3. ~none => x0 \in Nat /\ Has(m.queue, x0) /\ f \in Events /\ f.gen = x0
  BY SupersedingIs, EventType, FailedType
<1>4. ~none => /\ \A x : Has(m.queue, x) <=> Has(r, x) \/ x = x0
               /\ Distinct(r) /\ (x0 # 0 => ~Has(r, x0))
  BY HasRest
<1>5. m.events \in Seq(Events)
  BY DEF Mails
<1> HIDE DEF n, r, e, f, x0, none
<1>6. /\ \A x : Has(n.queue, x) <=> Has(r, x) \/ x = g
      /\ ~Has(r, g) /\ Distinct(r) => Distinct(n.queue)
  BY <1>1, <1>2, HasAppend
<1>7. ~none => /\ \A x : Has(n.events, x) <=> Has(m.events, x) \/ x = x0
               /\ x0 # 0 => Distinct(n.events)
               /\ x0 = 0 => Distinct(n.events)
  <2> SUFFICES ASSUME ~none
               PROVE  /\ \A x : Has(n.events, x) <=> Has(m.events, x) \/ x = x0
                      /\ Distinct(n.events)
    OBVIOUS
  <2>1. /\ \A x : Has(n.events, x) <=> Has(m.events, x) \/ f.gen = x
        /\ f.gen = 0 \/ ~Has(m.events, f.gen) => Distinct(n.events)
    BY <1>1, <1>3, <1>5, HasAppend
  <2>2. x0 # 0 => ~Has(m.events, x0)
    BY <1>3
  <2> QED  BY <1>3, <2>1, <2>2
<1>8. Distinct(n.queue) /\ Distinct(n.events)
  BY <1>1, <1>2, <1>4, <1>6, <1>7
<1>9. ASSUME NEW x \in Nat \ {0}
      PROVE  /\ Has(n.queue, x) => x = g \/ (Has(m.queue, x) /\ ~Has(n.events, x))
             /\ Has(n.events, x) => Has(m.events, x) \/ (Has(m.queue, x) /\ ~Has(n.queue, x))
             /\ Has(m.events, x) => Has(n.events, x)
             /\ Has(m.queue, x) => Has(n.queue, x) \/ Has(n.events, x)
             /\ Has(n.queue, g)
  <2>1. CASE none
    BY <1>1, <1>2, <1>6, <2>1
  <2>2. CASE ~none
    BY <1>3, <1>4, <1>6, <1>7, <2>2
  <2> QED  BY <2>1, <2>2
<1> QED  BY <1>8, <1>9 DEF n

LEMMA SubmittedBudget ==
    ASSUME NEW m \in Mails, NEW g \in Nat, NEW c \in Commands, Fit(c), Budget(m), Accepts(m)
    PROVE  Budget(Submitted(m, g, c))
<1>0. Admitted(Submitted(m, g, c), m, g, c)
  BY SubmittedIs
<1> DEFINE n == Submitted(m, g, c)
           none == Replaced(m, c) = {}
           r == Rest(m, c)
           e == Entered(m, g, c)
           f == Event(Superseding(m, c), Failed)
<1>1. /\ n.queue = Append(r, e) /\ n.events = IF none THEN m.events ELSE Append(m.events, f)
      /\ n.outstanding = m.outstanding + 1 /\ n.active = m.active
  BY <1>0 DEF Admitted
<1>2. r \in Seq(Requests) /\ e \in Requests /\ (none => r = m.queue)
      /\ (~none => Len(r) = Len(m.queue) - 1)
  BY RestFacts, EnteredType
<1>3. ~none => f \in Events /\ f.kind = "Failed"
  BY SupersedingIs, EventType, FailedType
<1>4. m.events \in Seq(Events) /\ m.queue \in Seq(Requests) /\ m.outstanding \in Int
  BY DEF Mails
<1>5. Len(m.queue) \in Nat /\ Charged(m.events) \in Nat /\ Len(r) \in Nat
  BY <1>2, <1>4, ChargedType, LenProperties
<1> HIDE DEF n, none, r, e, f
<1>6. Len(n.queue) = Len(r) + 1
  BY <1>1, <1>2, AppendProperties
<1>7. Charged(n.events) = Charged(m.events) + IF none THEN 0 ELSE 1
  <2>1. CASE none
    BY <1>1, <1>5, <2>1
  <2>2. CASE ~none
    <3>1. ConsumesBudget(f)
      BY <1>3, <2>2 DEF ConsumesBudget
    <3> QED  BY <1>1, <1>3, <1>4, <2>2, <3>1, ChargedAppend
  <2> QED  BY <2>1, <2>2
<1>8. Len(n.queue) + Charged(n.events) = Len(m.queue) + Charged(m.events) + 1
  BY <1>2, <1>5, <1>6, <1>7
<1>9. /\ m.outstanding = Len(m.queue) + Charged(m.events) + (IF m.active = 0 THEN 0 ELSE 1)
      /\ m.outstanding < Capacity
  BY DEF Budget, Accepts
<1> DEFINE a == IF m.active = 0 THEN 0 ELSE 1
<1>10. a \in Nat /\ Charged(n.events) \in Nat /\ Len(n.queue) \in Nat
  BY <1>2, <1>5, <1>6, <1>7
<1>11. n.outstanding = Len(n.queue) + Charged(n.events) + a
  <2> HIDE DEF a
  <2>1. m.outstanding = Len(m.queue) + Charged(m.events) + a
    BY <1>9 DEF a
  <2> QED  BY <1>1, <1>5, <1>8, <1>10, <2>1
<1>12. n.outstanding <= Capacity
  BY <1>1, <1>4, <1>9, CapacityAssumption
<1> QED  BY <1>1, <1>11, <1>12 DEF Budget, n

LEMMA SubmittedSound ==
    ASSUME NEW m \in Mails, NEW g \in Nat \ {0}, NEW c \in Commands, Fit(c), Sound(m), Accepts(m)
    PROVE  Sound(Submitted(m, g, c))
<1>0. Admitted(Submitted(m, g, c), m, g, c)
  BY SubmittedIs
<1> DEFINE n == Submitted(m, g, c)
           r == Rest(m, c)
           e == Entered(m, g, c)
<1>1. /\ n.queue = Append(r, e) /\ n.stopped = m.stopped
      /\ n.dead = (m.dead \/ Invalidates(c, m.scope)) /\ n.scope = m.scope
  BY <1>0 DEF Admitted
<1>2. r \in Seq(Requests) /\ e \in Requests /\ Fit(e) /\ e.gen = g
      /\ (Invalidates(e, m.scope) <=> Invalidates(c, m.scope))
  BY RestFacts, EnteredType
<1>3. \A i \in DOMAIN r : \E j \in DOMAIN m.queue : r[i] = m.queue[j]
  BY RestFacts
<1>4. \A j \in DOMAIN m.queue : Invalidates(m.queue[j], m.scope) =>
        \E i \in DOMAIN r : r[i] = m.queue[j]
  <2> SUFFICES ASSUME NEW j \in DOMAIN m.queue, Invalidates(m.queue[j], m.scope)
               PROVE  \E i \in DOMAIN r : r[i] = m.queue[j]
    OBVIOUS
  <2>1. Family(m.queue[j]) = <<>>
    BY DEF Invalidates, Family
  <2>2. j \notin Replaced(m, c)
    BY <2>1 DEF Replaced
  <2>3. CASE Replaced(m, c) = {}
    BY <2>3 DEF Rest
  <2>4. CASE Replaced(m, c) # {}
    <3>1. First(Replaced(m, c)) \in Replaced(m, c)
      BY <2>4, RestFacts
    <3>2. j # First(Replaced(m, c))
      BY <2>2, <3>1
    <3> QED  BY <2>4, <3>2, RestFacts
  <2> QED  BY <2>3, <2>4
<1> HIDE DEF n, r, e
<1>5. /\ \A i \in DOMAIN n.queue : (i \in DOMAIN r /\ n.queue[i] = r[i]) \/ n.queue[i] = e
      /\ \A i \in DOMAIN r : i \in DOMAIN n.queue /\ n.queue[i] = r[i]
      /\ \E i \in DOMAIN n.queue : n.queue[i] = e
  <2>1. /\ \A i \in DOMAIN Append(r, e) : i \in DOMAIN r \/ i = Len(r) + 1
        /\ \A i \in DOMAIN r : Append(r, e)[i] = r[i]
        /\ Append(r, e)[Len(r) + 1] = e
    BY <1>2, AppendPlace
  <2>2. /\ DOMAIN r = 1..Len(r) /\ Len(r) \in Nat
        /\ DOMAIN Append(r, e) = 1..(Len(r) + 1)
    BY <1>2, AppendProperties, LenProperties
  <2>3. Len(r) + 1 \in DOMAIN Append(r, e) /\ DOMAIN r \subseteq DOMAIN Append(r, e)
    BY <2>2
  <2> QED  BY <1>1, <2>1, <2>3
<1>6. \A i \in DOMAIN n.queue : Fit(n.queue[i]) /\ n.queue[i].gen # 0
  BY <1>2, <1>3, <1>5 DEF Sound
<1>7. ~n.stopped
  BY <1>1 DEF Accepts
<1>8. ASSUME n.dead PROVE \E i \in DOMAIN n.queue : Invalidates(n.queue[i], n.scope)
  <2>1. CASE Invalidates(c, m.scope)
    BY <1>1, <1>2, <1>5, <2>1
  <2>2. CASE m.dead
    <3>1. PICK j \in DOMAIN m.queue : Invalidates(m.queue[j], m.scope)
      BY <2>2 DEF Sound, Accepts
    <3>2. PICK i \in DOMAIN r : r[i] = m.queue[j]
      BY <1>4, <3>1
    <3> QED  BY <1>1, <1>5, <3>1, <3>2
  <2> QED  BY <1>1, <1>8, <2>1, <2>2
<1> QED  BY <1>6, <1>7, <1>8 DEF Sound, n

LEMMA SubmittedBounds ==
    ASSUME NEW m, NEW u, NEW v, NEW c \in Commands, Fit(c), Books(m, u), v.next = u.next + 1
    PROVE  Bounds(Submitted(m, u.next + 1, c), v)
<1>1. m \in Mails /\ u.next \in Nat /\ u.next + 1 \in Nat
  BY DEF Books, Uis
<1>2. Admitted(Submitted(m, u.next + 1, c), m, u.next + 1, c)
  BY <1>1, SubmittedIs
<1> DEFINE n == Submitted(m, u.next + 1, c)
<1> HIDE DEF n
<1>3. /\ n.cancelled \subseteq m.cancelled \cup m.pipeline
      /\ n.pipeline \subseteq m.pipeline \cup {u.next + 1}
      /\ n.discarded = m.discarded /\ n.active = m.active /\ n.preparedGen = m.preparedGen
  BY <1>2 DEF n, Admitted
<1>4. 1..u.next \subseteq 1..v.next /\ 0..u.next \subseteq 0..v.next /\ u.next + 1 \in 1..v.next
  BY <1>1
<1>5. Bounds(m, u)
  BY DEF Books
<1>6. m.cancelled \subseteq 1..u.next /\ m.pipeline \subseteq 1..u.next
  BY <1>5 DEF Bounds
<1>7. n.cancelled \cup n.pipeline \subseteq 1..v.next
  BY <1>3, <1>4, <1>6
<1>8. m.discarded \cup {m.active, m.preparedGen} \subseteq 0..u.next
  BY <1>5 DEF Bounds
<1>9. n.discarded \cup {n.active, n.preparedGen} \subseteq 0..v.next
  BY <1>3, <1>4, <1>8
<1> QED  BY <1>7, <1>9 DEF Bounds, n

\* An admitted command has its entry and its place in the queue; the one it
\* replaces moves from the queue to the answers.
LEMMA SubmittedBooks ==
    ASSUME NEW m, NEW u, NEW v \in Uis, NEW c \in Commands, Fit(c), Books(m, u), Accepts(m),
           v.inbox = u.inbox, v.next = u.next + 1, Windowed(v),
           v.pending = u.pending \cup {[gen |-> u.next + 1, kind |-> c.kind, id |-> c.id]}
    PROVE  /\ Books(Submitted(m, u.next + 1, c), v)
           /\ Follows(m, u, Submitted(m, u.next + 1, c), v)
<1> DEFINE g == u.next + 1
           p == [gen |-> u.next + 1, kind |-> c.kind, id |-> c.id]
           n == Submitted(m, u.next + 1, c)
<1>1. m \in Mails /\ u \in Uis /\ u.next \in Nat /\ g \in Nat \ {0} /\ g \notin 1..u.next
  BY DEF Books, Uis
<1>2. ~Asked(u, g) /\ ~Has(m.queue, g) /\ ~Has(m.events, g) /\ ~Has(u.inbox, g) /\ m.active # g
  BY NextIsNew
<1>3. \A x \in Nat \ {0} : Once(m, u, x)
  BY DEF Books
<1>4. /\ Distinct(n.queue) /\ Distinct(n.events)
      /\ \A x \in Nat \ {0} :
           /\ Has(n.queue, x) => x = g \/ (Has(m.queue, x) /\ ~Has(n.events, x))
           /\ Has(n.events, x) => Has(m.events, x) \/ (Has(m.queue, x) /\ ~Has(n.queue, x))
           /\ Has(m.events, x) => Has(n.events, x)
           /\ Has(m.queue, x) => Has(n.queue, x) \/ Has(n.events, x)
           /\ Has(n.queue, g)
  <2>1. Distinct(m.queue) /\ Distinct(m.events)
    BY DEF Books
  <2>2. \A x \in Nat \ {0} : Has(m.queue, x) => ~Has(m.events, x)
    BY <1>3 DEF Once
  <2> QED  BY <1>1, <1>2, <2>1, <2>2, SubmittedHas
<1>5. Budget(n) /\ Sound(n) /\ Bounds(n, v)
  <2>1. Budget(m) /\ Sound(m)
    BY DEF Books
  <2>2. g \in Nat
    BY <1>1
  <2> QED  BY <1>1, <2>1, <2>2, SubmittedBudget, SubmittedSound, SubmittedBounds
<1>6. /\ n \in Mails /\ n.active = m.active /\ n.epoch = m.epoch /\ n.scope = m.scope
      /\ n.stopped = m.stopped
      /\ \A x \in m.cancelled : x \in n.cancelled \/ Has(m.queue, x)
  <2>1. g \in Nat
    BY <1>1
  <2>2. Admitted(Submitted(m, g, c), m, g, c)
    BY <1>1, <2>1, SubmittedIs
  <2> QED  BY <2>2 DEF Admitted, n
<1>7. /\ p.gen = g /\ v.pending = u.pending \cup {p}
      /\ v.inbox = u.inbox /\ v.next = u.next + 1
  OBVIOUS
<1> HIDE DEF n, g, p
<1>8. \A x : Asked(v, x) <=> Asked(u, x) \/ x = g
  BY <1>7 DEF Asked
<1>9. ASSUME NEW x \in Nat \ {0} PROVE Once(n, v, x)
  <2>1. Once(m, u, x)
    BY <1>3
  <2>2. /\ Has(n.queue, x) => x = g \/ (Has(m.queue, x) /\ ~Has(n.events, x))
        /\ Has(n.events, x) => Has(m.events, x) \/ (Has(m.queue, x) /\ ~Has(n.queue, x))
        /\ Has(m.events, x) => Has(n.events, x)
        /\ Has(m.queue, x) => Has(n.queue, x) \/ Has(n.events, x)
        /\ Has(n.queue, g)
    BY <1>4
  <2>3. (Asked(v, x) <=> Asked(u, x) \/ x = g) /\ (Has(v.inbox, x) <=> Has(u.inbox, x))
    BY <1>7, <1>8
  <2>4. CASE x = g
    <3>1. Has(n.queue, x) /\ ~Has(n.events, x) /\ ~Has(v.inbox, x) /\ n.active # x /\ Asked(v, x)
      BY <1>2, <1>6, <2>2, <2>3, <2>4
    <3> QED  BY <3>1 DEF Once
  <2>5. CASE x # g
    BY <1>6, <2>1, <2>2, <2>3, <2>5 DEF Once
  <2> QED  BY <2>4, <2>5
<1>10. Numbered(v)
  <2>1. Numbered(u)
    BY DEF Books
  <2>2. 1..u.next \subseteq 1..v.next /\ g \in 1..v.next
    BY <1>1, <1>7 DEF g
  <2>3. \A q \in u.pending : q.gen # g
    BY <1>2 DEF Asked
  <2> QED  BY <1>7, <2>1, <2>2, <2>3 DEF Numbered
<1>11. Follows(m, u, n, v)
  <2>1. u.next <= v.next
    BY <1>1, <1>7
  <2>2. \A x \in 1..u.next : x \in Nat \ {0} /\ x # g
    BY <1>1
  <2>3. \A x \in 1..u.next : Has(n.queue, x) => Has(m.queue, x)
    BY <1>4, <2>2
  <2>4. m.active # 0 /\ m.active \in m.cancelled => m.active \in n.cancelled
    <3>1. m.active # 0 => m.active \in Nat \ {0}
      BY <1>1 DEF Mails
    <3> QED  BY <1>3, <1>6, <3>1 DEF Once
  <2> QED  BY <1>6, <2>1, <2>3, <2>4 DEF Follows
<1>12. Distinct(v.inbox)
  BY <1>7 DEF Books
<1> QED  BY <1>4, <1>5, <1>6, <1>9, <1>10, <1>11, <1>12 DEF Books, n

LEMMA IssueBooks ==
    ASSUME NEW m, NEW u, NEW c \in Commands, Fit(c), Books(m, u)
    PROVE  /\ Books(Issue(m, u, c).mail, Issue(m, u, c).ui)
           /\ Follows(m, u, Issue(m, u, c).mail, Issue(m, u, c).ui)
           /\ Issue(m, u, c).gen \in Nat /\ Issue(m, u, c).gen <= Issue(m, u, c).ui.next
<1>1. u \in Uis /\ u.next \in Nat /\ Windowed(u) /\ u.next + 1 \in Nat
  BY DEF Books, Uis
<1>2. CASE Accepts(m)
  <2> DEFINE k == Known(u, c)
             v == IF c.kind = "Release" THEN CloseEmbedded(k, {c.id}) ELSE k
             n == Submitted(m, u.next + 1, c)
  <2>1. Issue(m, u, c).mail = n /\ Issue(m, u, c).ui = v /\ Issue(m, u, c).gen = u.next + 1
    BY <1>2 DEF Issue, Known
  <2>2. /\ k \in Uis /\ Windowed(k) /\ k.inbox = u.inbox /\ k.next = u.next + 1
        /\ k.pending = u.pending \cup {[gen |-> u.next + 1, kind |-> c.kind, id |-> c.id]}
    BY <1>1, KnownIs
  <2> HIDE DEF k
  <2>3. v \in Uis /\ Windowed(v) /\ v.inbox = k.inbox /\ v.next = k.next /\ v.pending = k.pending
    <3>1. CASE c.kind = "Release"
      <4>1. {c.id} \in SUBSET Nat
        BY DEF Commands
      <4>2. Retains(k, CloseEmbedded(k, {c.id}))
        BY <2>2, <4>1, CloseRetains
      <4> QED  BY <3>1, <4>2 DEF Retains
    <3> QED  BY <2>2, <3>1
  <2> HIDE DEF v
  <2>4. Books(n, v) /\ Follows(m, u, n, v)
    BY <1>2, <2>2, <2>3, SubmittedBooks
  <2> HIDE DEF n
  <2>5. u.next + 1 <= v.next
    BY <1>1, <2>2, <2>3
  <2> QED  BY <1>1, <2>1, <2>4, <2>5
<1>3. CASE ~Accepts(m)
  <2> DEFINE v == Latest(u, c, 0)
  <2>1. Issue(m, u, c).mail = m /\ Issue(m, u, c).ui = v /\ Issue(m, u, c).gen = 0
    BY <1>3 DEF Issue
  <2>2. Retains(u, v)
    BY <1>1, LatestRetains
  <2> HIDE DEF v
  <2>3. Books(m, v) /\ Follows(m, u, m, v)
    BY <2>2, RetainsBooks
  <2>4. 0 <= v.next
    BY <1>1, <2>2 DEF Retains
  <2> QED  BY <2>1, <2>3, <2>4
<1> QED  BY <1>2, <1>3

LEMMA AbandonedBooks ==
    ASSUME NEW m, NEW u, NEW s, Books(m, u), s.prep \in Nat, s.pending \in Nat,
           s.prep <= u.next, s.pending <= u.next
    PROVE  /\ Books(Abandoned(m, u, s).mail, Abandoned(m, u, s).ui)
           /\ Follows(m, u, Abandoned(m, u, s).mail, Abandoned(m, u, s).ui)
<1> DEFINE a == IF s.prep # 0 THEN s.prep ELSE s.pending
           b == IF s.prep # 0 THEN s.pending ELSE 0
           n == CancelRequest(m, a)
           o == CancelRequest(n, b)
           v == [u EXCEPT !.prepare = IF @ \in {a, b} THEN 0 ELSE @,
                          !.play = IF @ \in {a, b} THEN 0 ELSE @]
<1>1. Abandoned(m, u, s).mail = o /\ Abandoned(m, u, s).ui = v
  BY DEF Abandoned
<1>2. u \in Uis /\ u.next \in Nat /\ Windowed(u)
  BY DEF Books, Uis
<1>3. a \in Nat /\ b \in Nat /\ a <= u.next /\ b <= u.next
  BY <1>2
<1>4. Retains(u, v)
  BY <1>2 DEF Uis, Retains, Windowed
<1> HIDE DEF a, b, v
<1>5. Books(n, u) /\ Follows(m, u, n, u)
  BY <1>3, CancelBooks
<1> HIDE DEF n
<1>6. Books(o, u) /\ Follows(n, u, o, u)
  BY <1>3, <1>5, CancelBooks
<1> HIDE DEF o
<1>7. Books(o, v) /\ Follows(o, u, o, v)
  BY <1>4, <1>6, RetainsBooks
<1>8. m \in Mails /\ n \in Mails /\ o \in Mails /\ v \in Uis
  BY <1>5, <1>6, <1>7 DEF Books
<1>9. Follows(m, u, o, u)
  BY <1>2, <1>5, <1>6, <1>8, FollowsOn
<1>10. Follows(m, u, o, v)
  BY <1>2, <1>7, <1>8, <1>9, FollowsOn
<1> QED  BY <1>1, <1>7, <1>10

-----------------------------------------------------------------------------
(* The steps of the interface                                                *)

LEMMA WorkerUnmoved ==
    ASSUME Shapes, Books(mail, ui), Working, Records, ~mail.stopped => Fence,
           Follows(mail, ui, mail', ui'), ui' \in Uis, UNCHANGED <<app, job>>
    PROVE  Working' /\ Records' /\ (~mail'.stopped => Fence')
<1>1. /\ app' = app /\ job' = job
      /\ mail'.epoch = mail.epoch /\ mail'.scope = mail.scope
      /\ mail'.active = mail.active /\ mail'.stopped = mail.stopped
      /\ (mail.active # 0 /\ mail.active \in mail.cancelled => mail.active \in mail'.cancelled)
      /\ ui.next <= ui'.next
      /\ \A g \in 1..ui.next : Has(mail'.queue, g) => Has(mail.queue, g)
  BY DEF Follows
<1>2. Working'
  BY <1>1 DEF Working
<1>3. job.pc # "idle" => job.req.gen = mail.active /\ mail.active # 0
  BY DEF Working
<1>4. Records'
  <2>1. \A s, t \in app'.sessions : s.id = t.id => s = t
    BY <1>1 DEF Records
  <2>2. job'.pc = "launching" => mail'.active \in app'.leases
    BY <1>1 DEF Records
  <2>3. ASSUME NEW s \in app.sessions
        PROVE  /\ s.id \in app'.leases /\ s.id \in 1..ui'.next /\ ~Has(mail'.queue, s.id)
               /\ job'.pc \notin {"reconcile", "publish"} => s.id # mail'.active
    <3>1. /\ s.id \in app.leases /\ s.id \in 1..ui.next /\ ~Has(mail.queue, s.id)
          /\ job.pc \notin {"reconcile", "publish"} => s.id # mail.active
      BY DEF Records
    <3>2. ui.next \in Nat
      BY DEF Shapes, Uis
    <3>3. ui'.next \in Nat
      BY DEF Uis
    <3>4. s.id \in 1..ui'.next
      BY <1>1, <3>1, <3>2, <3>3
    <3> QED  BY <1>1, <3>1, <3>4
  <2>4. app'.prepared.gen <= ui'.next
    <3>1. app.prepared.gen \in Nat /\ ui.next \in Nat /\ ui'.next \in Nat
      BY DEF Shapes, Apps, Preps, Uis
    <3>2. app.prepared.gen <= ui.next
      BY DEF Records
    <3> QED  BY <1>1, <3>1, <3>2
  <2> QED  BY <1>1, <2>1, <2>2, <2>3, <2>4 DEF Records
<1>5. ASSUME Fence PROVE Fence'
  <2>1. JobKinds'
    BY <1>1, <1>5 DEF Fence, JobKinds, Doing
  <2>2. InEffect => InEffect'
    BY <1>1 DEF InEffect
  <2>3. NothingRemote' <=> NothingRemote
    BY <1>1 DEF NothingRemote
  <2>4. SettingsFollow'
    <3>1. job.pc # "idle" /\ Canceled => Canceled'
      BY <1>1, <1>3 DEF Canceled
    <3>2. SettingsFollow
      BY <1>5 DEF Fence
    <3> QED  BY <1>1, <3>1, <3>2 DEF SettingsFollow, Doing
  <2> QED  BY <1>1, <1>5, <2>1, <2>2, <2>3, <2>4 DEF Fence, Doing
<1> QED  BY <1>1, <1>2, <1>4, <1>5

\* A step of the interface needs only to keep the books and what it owns.
Interfaced == /\ mail' \in Mails /\ ui' \in Uis /\ ps' \in PlaySessions
              /\ left' \in [user : Nat, faults : Nat]
              /\ Books(mail', ui') /\ Follows(mail, ui, mail', ui') /\ Owning'
              /\ UNCHANGED <<app, job>>

LEMMA InterfaceKeeps ==
    ASSUME AppInv, Interfaced
    PROVE  AppInv'
<1>1. Shapes'
  BY DEF AppInv, Shapes, Interfaced
<1>2. Working' /\ Records' /\ (~mail'.stopped => Fence')
  BY WorkerUnmoved DEF AppInv, Interfaced
<1>3. Books(mail, ui)'
  BY DEF Interfaced
<1> QED  BY <1>1, <1>2, <1>3 DEF AppInv, Interfaced

\* Where the play session does not change, what it owns stays issued.
LEMMA OwnsStill ==
    ASSUME Owning, Shapes, ui' \in Uis, ui.next <= ui'.next, ps' = ps
    PROVE  Owning'
<1>1. ps.prep \in Nat /\ ps.pending \in Nat /\ ui.next \in Nat /\ ui'.next \in Nat
  BY DEF Shapes, PlaySessions, Uis
<1> QED  BY <1>1 DEF Owning

LEMMA SentKeeps ==
    ASSUME AppInv, Books(mail', ui'), Follows(mail, ui, mail', ui'),
           left' \in [user : Nat, faults : Nat], UNCHANGED <<app, job, ps>>
    PROVE  AppInv'
<1>1. mail' \in Mails /\ ui' \in Uis
  BY DEF Books
<1>2. Owning'
  BY <1>1, OwnsStill DEF AppInv, Follows
<1> QED  BY <1>1, <1>2, InterfaceKeeps DEF AppInv, Shapes, Interfaced

LEMMA UserTurns ==
    ASSUME Shapes, left.user > 0
    PROVE  [left EXCEPT !.user = @ - 1] \in [user : Nat, faults : Nat]
<1> QED  BY DEF Shapes

LEMMA CommandType ==
    ASSUME NEW k \in CommandKinds, NEW p \in Provs, NEW id \in Nat,
           k \in {"Save", "Cred"} => p \in Providers, k = "Play" => id # 0
    PROVE  Command(k, p, id) \in Commands /\ Fit(Command(k, p, id))
<1> QED  BY DEF Command, Commands, Fit

LEMMA UserCommandKeeps == ASSUME AppInv, UserCommand PROVE AppInv'
<1>1. /\ Shapes /\ Books(mail, ui) /\ left.user > 0 /\ left' = [left EXCEPT !.user = @ - 1]
      /\ UNCHANGED <<app, job, ps>>
  BY DEF AppInv, UserCommand
<1>2. PICK c \in {Command(k, NoProvider, 0) : k \in Kinds \cap {"Load", "Local"}}
            \cup {Command(k, p, 0) : k \in Kinds \cap {"Save", "Cred", "Test"}, p \in Providers}
            \cup {Command(k, NoProvider, id) : k \in Kinds \cap {"Release", "Replay"}, id \in ui.tracked} :
              mail' = Issue(mail, ui, c).mail /\ ui' = Issue(mail, ui, c).ui
  BY DEF UserCommand
<1>3. c \in Commands /\ Fit(c)
  <2>1. ui.tracked \subseteq Nat
    BY <1>1 DEF Shapes, Uis
  <2>2. NoProvider \in Provs /\ \A p \in Providers : p \in Provs
    BY DEF Provs
  <2>3. CASE \E k \in {"Load", "Local"} : c = Command(k, NoProvider, 0)
    BY <2>2, <2>3, CommandType DEF CommandKinds
  <2>4. CASE \E k \in {"Save", "Cred", "Test"}, p \in Providers : c = Command(k, p, 0)
    BY <2>2, <2>4, CommandType DEF CommandKinds
  <2>5. CASE \E k \in {"Release", "Replay"}, id \in ui.tracked : c = Command(k, NoProvider, id)
    BY <2>1, <2>2, <2>5, CommandType DEF CommandKinds
  <2> QED  BY <1>2, <2>3, <2>4, <2>5
<1>4. Books(mail', ui') /\ Follows(mail, ui, mail', ui')
  BY <1>1, <1>2, <1>3, IssueBooks
<1>5. left' \in [user : Nat, faults : Nat]
  BY <1>1, UserTurns
<1> QED  BY <1>1, <1>4, <1>5, SentKeeps

LEMMA QueueReleaseRetains ==
    ASSUME NEW u \in Uis, NEW id \in Nat, Windowed(u)
    PROVE  Retains(u, QueueRelease(u, id))
<1> QED  BY DEF QueueRelease, Retains, Uis, Windowed

LEMMA WindowClosedKeeps == ASSUME AppInv, WindowClosed PROVE AppInv'
<1>1. Books(mail, ui) /\ Shapes /\ ui \in Uis /\ Windowed(ui)
  BY DEF AppInv, Books
<1>2. PICK id \in ui.windows : ui' = QueueRelease(ui, id)
  BY DEF WindowClosed
<1>3. id \in Nat
  BY <1>1, <1>2 DEF Uis
<1>4. Retains(ui, ui')
  BY <1>1, <1>2, <1>3, QueueReleaseRetains
<1>5. Books(mail, ui') /\ Follows(mail, ui, mail, ui')
  BY <1>1, <1>4, RetainsBooks
<1>6. UNCHANGED <<mail, app, job, ps, left>>
  BY DEF WindowClosed
<1> QED  BY <1>1, <1>5, <1>6, SentKeeps DEF Shapes

LEMMA RetryKeeps == ASSUME AppInv, Retry PROVE AppInv'
<1>1. /\ Books(mail, ui) /\ Shapes /\ ui \in Uis /\ Windowed(ui)
      /\ UNCHANGED <<app, job, ps, left>>
  BY DEF AppInv, Books, Retry
<1>2. CASE ui' = [ui EXCEPT !.retry = FALSE] /\ UNCHANGED mail
  <2>1. Retains(ui, ui')
    BY <1>1, <1>2 DEF Uis, Retains, Windowed
  <2>2. Books(mail, ui') /\ Follows(mail, ui, mail, ui')
    BY <1>1, <2>1, RetainsBooks
  <2> QED  BY <1>1, <1>2, <2>2, SentKeeps DEF Shapes
<1>3. ASSUME NEW id \in ui.releasing,
             mail' = Issue(mail, ui, Command("Release", NoProvider, id)).mail,
             ui' = [Issue(mail, ui, Command("Release", NoProvider, id)).ui
                      EXCEPT !.releasing = @ \ {id}]
      PROVE  AppInv'
  <2> DEFINE c == Command("Release", NoProvider, id)
             u == Issue(mail, ui, c).ui
  <2>1. id \in Nat /\ "Release" \in CommandKinds /\ NoProvider \in Provs
    BY <1>1, <1>3 DEF Uis, CommandKinds, Provs
  <2>2. c \in Commands /\ Fit(c)
    BY <2>1, CommandType
  <2> HIDE DEF c
  <2>3. mail' = Issue(mail, ui, c).mail
    BY <1>3 DEF c
  <2>4. Books(mail', u) /\ Follows(mail, ui, mail', u)
    BY <1>1, <2>2, <2>3, IssueBooks
  <2>5. ui' = [u EXCEPT !.releasing = u.releasing \ {id}]
    BY <1>3 DEF c
  <2> HIDE DEF u
  <2>6. u \in Uis /\ Windowed(u) /\ mail' \in Mails /\ mail \in Mails
    BY <1>1, <2>4 DEF Books
  <2>7. Retains(u, ui')
    BY <2>5, <2>6 DEF Uis, Retains, Windowed
  <2>8. Books(mail', ui') /\ Follows(mail', u, mail', ui')
    BY <2>4, <2>7, RetainsBooks
  <2>9. ui' \in Uis
    BY <2>7 DEF Retains
  <2>10. Follows(mail, ui, mail', ui')
    BY <1>1, <2>4, <2>6, <2>8, <2>9, FollowsOn
  <2> QED  BY <1>1, <2>8, <2>10, SentKeeps DEF Shapes
<1>4. \/ ui' = [ui EXCEPT !.retry = FALSE] /\ UNCHANGED mail
      \/ \E id \in ui.releasing :
           /\ mail' = Issue(mail, ui, Command("Release", NoProvider, id)).mail
           /\ ui' = [Issue(mail, ui, Command("Release", NoProvider, id)).ui
                       EXCEPT !.releasing = @ \ {id}]
  BY DEF Retry
<1> QED  BY <1>2, <1>3, <1>4

LEMMA NoSessionType == NoSession \in PlaySessions /\ NoSession.prep = 0 /\ NoSession.pending = 0
<1> QED  BY DEF NoSession, PlaySessions, Provs

\* A step in which the play session lets go, or goes on.
LEMMA SessionKeeps ==
    ASSUME AppInv, Books(mail', ui'), Follows(mail, ui, mail', ui'),
           ps' \in PlaySessions, ps'.live \/ ps' = NoSession,
           ps'.prep <= ui'.next, ps'.pending <= ui'.next,
           left' \in [user : Nat, faults : Nat], UNCHANGED <<app, job>>
    PROVE  AppInv'
<1>1. mail' \in Mails /\ ui' \in Uis
  BY DEF Books
<1>2. Owning'
  BY DEF Owning
<1> QED  BY <1>1, <1>2, InterfaceKeeps DEF Interfaced

LEMMA OwnsBounded ==
    ASSUME AppInv
    PROVE  /\ ps \in PlaySessions /\ ps.prep \in Nat /\ ps.pending \in Nat
           /\ ps.prep <= ui.next /\ ps.pending <= ui.next /\ ui.next \in Nat
           /\ Books(mail, ui) /\ mail \in Mails /\ ui \in Uis
<1> QED  BY DEF AppInv, Owning, Shapes, PlaySessions, Uis

LEMMA DismissKeeps == ASSUME AppInv, Dismiss PROVE AppInv'
<1>1. Books(mail, ui) /\ ps.prep \in Nat /\ ps.pending \in Nat
      /\ ps.prep <= ui.next /\ ps.pending <= ui.next
  BY OwnsBounded
<1>2. /\ mail' = Abandoned(mail, ui, ps).mail /\ ui' = Abandoned(mail, ui, ps).ui
      /\ ps' = NoSession /\ UNCHANGED <<app, job, left>>
  BY DEF Dismiss
<1>3. Books(mail', ui') /\ Follows(mail, ui, mail', ui')
  BY <1>1, <1>2, AbandonedBooks
<1>4. ui' \in Uis /\ ui'.next \in Nat
  BY <1>3 DEF Books, Uis
<1>5. ps'.prep <= ui'.next /\ ps'.pending <= ui'.next /\ ps' \in PlaySessions
  BY <1>2, <1>4, NoSessionType
<1> QED  BY <1>2, <1>3, <1>5, SessionKeeps DEF AppInv, Shapes

LEMMA StartPlayKeeps == ASSUME AppInv, StartPlay PROVE AppInv'
<1>1. Books(mail, ui) /\ ps.prep \in Nat /\ ps.pending \in Nat /\ mail \in Mails /\ ui \in Uis
      /\ ps.prep <= ui.next /\ ps.pending <= ui.next /\ ui.next \in Nat
  BY OwnsBounded
<1>2. left' \in [user : Nat, faults : Nat] /\ UNCHANGED <<app, job>>
  BY UserTurns DEF StartPlay, AppInv
<1>3. PICK kind \in Providers :
         LET save == IF ui.settings = kind THEN [mail |-> mail, ui |-> ui, gen |-> 0]
                     ELSE Issue(mail, ui, Command("Save", kind, 0))
             chosen == IF save.gen = 0 THEN save.ui ELSE [save.ui EXCEPT !.settings = kind]
             prepare == Issue(save.mail, chosen, Command("Prepare", NoProvider, 0))
             end == Abandoned(prepare.mail, prepare.ui, ps)
         IN  /\ mail' = end.mail
             /\ ui' = end.ui
             /\ ps' = [live |-> TRUE, prep |-> 0, pending |-> prepare.gen,
                       switch |-> IF prepare.gen = 0 THEN 0 ELSE save.gen,
                       provider |-> chosen.settings]
  BY DEF StartPlay
<1> DEFINE s == Command("Save", kind, 0)
           p == Command("Prepare", NoProvider, 0)
           save == IF ui.settings = kind THEN [mail |-> mail, ui |-> ui, gen |-> 0]
                   ELSE Issue(mail, ui, s)
           m1 == save.mail
           u1 == save.ui
           g1 == save.gen
           u2 == IF g1 = 0 THEN u1 ELSE [u1 EXCEPT !.settings = kind]
           m3 == Issue(m1, u2, p).mail
           u3 == Issue(m1, u2, p).ui
           g3 == Issue(m1, u2, p).gen
<1>4. /\ mail' = Abandoned(m3, u3, ps).mail /\ ui' = Abandoned(m3, u3, ps).ui
      /\ ps' = [live |-> TRUE, prep |-> 0, pending |-> g3,
                switch |-> IF g3 = 0 THEN 0 ELSE g1, provider |-> u2.settings]
  BY <1>3
<1>5. s \in Commands /\ Fit(s) /\ p \in Commands /\ Fit(p)
  BY CommandType DEF CommandKinds, Provs
<1> HIDE DEF s, p
<1>6. Books(m1, u1) /\ Follows(mail, ui, m1, u1) /\ g1 \in Nat
  <2>1. CASE ui.settings = kind
    <3>1. m1 = mail /\ u1 = ui /\ g1 = 0
      BY <2>1
    <3>2. Follows(mail, ui, mail, ui)
      BY <1>1 DEF Follows
    <3> QED  BY <1>1, <3>1, <3>2
  <2>2. CASE ui.settings # kind
    <3>1. m1 = Issue(mail, ui, s).mail /\ u1 = Issue(mail, ui, s).ui /\ g1 = Issue(mail, ui, s).gen
      BY <2>2
    <3> QED  BY <1>1, <1>5, <3>1, IssueBooks
  <2> QED  BY <2>1, <2>2
<1> HIDE DEF save, m1, u1, g1
<1>7. m1 \in Mails /\ u1 \in Uis /\ Windowed(u1)
  BY <1>6 DEF Books
<1>8. Retains(u1, u2) /\ u2.settings \in Provs
  <2>1. kind \in Provs
    BY DEF Provs
  <2> QED  BY <1>7, <2>1 DEF Retains, Uis, Windowed
<1> HIDE DEF u2
<1>9. Books(m1, u2) /\ Follows(m1, u1, m1, u2) /\ u2 \in Uis
  BY <1>6, <1>8, RetainsBooks DEF Retains
<1>10. Books(m3, u3) /\ Follows(m1, u2, m3, u3) /\ g3 \in Nat /\ g3 <= u3.next
  BY <1>5, <1>9, IssueBooks
<1> HIDE DEF m3, u3, g3
<1>11. m3 \in Mails /\ u3 \in Uis /\ u3.next \in Nat
  BY <1>10 DEF Books, Uis
<1>12. Follows(mail, ui, m3, u3)
  <2>1. Follows(mail, ui, m1, u2)
    BY <1>1, <1>6, <1>7, <1>9, FollowsOn
  <2> QED  BY <1>1, <1>7, <1>9, <1>10, <1>11, <2>1, FollowsOn
<1>13. ps.prep <= u3.next /\ ps.pending <= u3.next /\ ui.next <= u3.next
  BY <1>1, <1>11, <1>12 DEF Follows
<1>14. Books(mail', ui') /\ Follows(m3, u3, mail', ui')
  BY <1>1, <1>4, <1>10, <1>13, AbandonedBooks
<1>15. mail' \in Mails /\ ui' \in Uis /\ ui'.next \in Nat
  BY <1>14 DEF Books, Uis
<1>16. Follows(mail, ui, mail', ui')
  BY <1>1, <1>11, <1>12, <1>14, <1>15, FollowsOn
<1>17. ps'.prep <= ui'.next /\ ps'.pending <= ui'.next
  <2>1. u3.next <= ui'.next
    BY <1>14 DEF Follows
  <2> QED  BY <1>4, <1>10, <1>11, <1>15, <2>1
<1>18. ps' \in PlaySessions /\ ps'.live
  BY <1>4, <1>6, <1>8, <1>10 DEF PlaySessions
<1> QED  BY <1>2, <1>14, <1>16, <1>17, <1>18, SessionKeeps

\* What the play session is told is no answer's place.
LEMMA SeenRetains ==
    ASSUME NEW u \in Uis, Windowed(u), u.emitted # <<>>
    PROVE  /\ Retains(u, [u EXCEPT !.emitted = Tail(@)])
           /\ Head(u.emitted) \in Events
<1>1. u.emitted \in Seq(Events)
  BY DEF Uis
<1>2. Tail(u.emitted) \in Seq(Events) /\ Head(u.emitted) \in Events
  BY <1>1, HeadTailProperties
<1> DEFINE t == Tail(u.emitted)
<1>3. t \in Seq(Events) /\ [u EXCEPT !.emitted = Tail(@)] = [u EXCEPT !.emitted = t]
  BY <1>2
<1> HIDE DEF t
<1>4. Retains(u, [u EXCEPT !.emitted = t])
  BY <1>3 DEF Uis, Retains, Windowed
<1> QED  BY <1>2, <1>3, <1>4

LEMMA NotifyKeeps == ASSUME AppInv, Notify PROVE AppInv'
<1>1. Books(mail, ui) /\ ps.prep \in Nat /\ ps.pending \in Nat /\ mail \in Mails /\ ui \in Uis
      /\ ps.prep <= ui.next /\ ps.pending <= ui.next /\ ui.next \in Nat
      /\ ps \in PlaySessions /\ Windowed(ui) /\ (ps.live \/ ps = NoSession)
  BY OwnsBounded DEF Books, AppInv, Owning
<1> DEFINE e == Head(ui.emitted)
           seen == [ui EXCEPT !.emitted = Tail(@)]
           settled == IF e.gen = ps.switch THEN [ps EXCEPT !.switch = 0] ELSE ps
           shown == IF e.kind = "Settings" THEN [settled EXCEPT !.provider = e.prov] ELSE settled
<1>2. Retains(ui, seen) /\ e \in Events
  BY <1>1, SeenRetains DEF Notify
<1>3. UNCHANGED <<app, job, left>> /\ left' \in [user : Nat, faults : Nat]
  BY DEF Notify, AppInv, Shapes
<1>4. \/ mail' = mail /\ ui' = seen /\ ps' = ps
      \/ /\ ps.live
         /\ mail' = Abandoned(mail, seen, ps).mail /\ ui' = Abandoned(mail, seen, ps).ui
         /\ ps' = [settled EXCEPT !.prep = 0, !.pending = 0]
      \/ /\ ps.live
         /\ mail' = mail /\ ui' = seen /\ ps' = [ps EXCEPT !.prep = 0, !.pending = 0]
      \/ /\ ps.live /\ mail' = mail /\ ui' = seen /\ ps' = shown
      \/ /\ ps.live /\ e.gen # 0 /\ e.gen = ps.pending
         /\ \/ /\ mail' = Issue(mail, seen, Command("Play", NoProvider, e.gen)).mail
               /\ ui' = Issue(mail, seen, Command("Play", NoProvider, e.gen)).ui
               /\ ps' = [ps EXCEPT !.prep = e.gen,
                             !.pending = Issue(mail, seen, Command("Play", NoProvider, e.gen)).gen]
            \/ mail' = mail /\ ui' = seen /\ ps' = [ps EXCEPT !.prep = e.gen, !.pending = 0]
            \/ /\ mail' = Abandoned(mail, seen, [ps EXCEPT !.pending = 0]).mail
               /\ ui' = Abandoned(mail, seen, [ps EXCEPT !.pending = 0]).ui
               /\ ps' = NoSession
            \/ mail' = mail /\ ui' = seen /\ ps' = [ps EXCEPT !.pending = 0]
  BY DEF Notify
<1> HIDE DEF e, seen
<1>5. /\ Books(mail, seen) /\ Follows(mail, ui, mail, seen)
      /\ seen \in Uis /\ seen.next = ui.next
  BY <1>1, <1>2, RetainsBooks DEF Retains
<1>6. e.gen \in Nat /\ e.prov \in Provs
  BY <1>2 DEF Events
<1>7. /\ settled \in PlaySessions /\ settled.live = ps.live
      /\ settled.prep = ps.prep /\ settled.pending = ps.pending
  BY <1>1 DEF PlaySessions
<1> HIDE DEF settled
<1>8. /\ shown \in PlaySessions /\ shown.live = ps.live
      /\ shown.prep = ps.prep /\ shown.pending = ps.pending
  BY <1>6, <1>7 DEF PlaySessions
<1> HIDE DEF shown
<1>9. ASSUME mail' = mail, ui' = seen, ps' \in PlaySessions, ps'.live \/ ps' = NoSession,
             ps'.prep \in {0, ps.prep, e.gen}, ps'.pending \in {0, ps.pending},
             ps'.prep = e.gen => e.gen = ps.pending \/ e.gen = ps.prep \/ e.gen = 0
      PROVE  AppInv'
  <2>1. Books(mail', ui') /\ Follows(mail, ui, mail', ui')
    BY <1>5, <1>9
  <2>2. ps'.prep <= ui'.next /\ ps'.pending <= ui'.next
    BY <1>1, <1>5, <1>9
  <2> QED  BY <1>3, <1>9, <2>1, <2>2, SessionKeeps
<1>10. ASSUME NEW s \in PlaySessions, s.prep = ps.prep, s.pending \in {0, ps.pending},
              mail' = Abandoned(mail, seen, s).mail, ui' = Abandoned(mail, seen, s).ui,
              ps' \in PlaySessions, ps'.live \/ ps' = NoSession, ps'.prep = 0, ps'.pending = 0
       PROVE  AppInv'
  <2>1. s.prep \in Nat /\ s.pending \in Nat /\ s.prep <= seen.next /\ s.pending <= seen.next
    BY <1>1, <1>5, <1>10
  <2>2. Books(mail', ui') /\ Follows(mail, seen, mail', ui')
    BY <1>5, <1>10, <2>1, AbandonedBooks
  <2>3. mail' \in Mails /\ ui' \in Uis /\ ui'.next \in Nat
    BY <2>2 DEF Books, Uis
  <2>4. Follows(mail, ui, mail', ui')
    BY <1>1, <1>5, <2>2, <2>3, FollowsOn
  <2>5. ps'.prep <= ui'.next /\ ps'.pending <= ui'.next
    BY <1>10, <2>3
  <2> QED  BY <1>3, <1>10, <2>2, <2>4, <2>5, SessionKeeps
<1>11. CASE mail' = mail /\ ui' = seen /\ ps' = ps
  BY <1>1, <1>9, <1>11
<1>12. CASE /\ ps.live
            /\ mail' = Abandoned(mail, seen, ps).mail /\ ui' = Abandoned(mail, seen, ps).ui
            /\ ps' = [settled EXCEPT !.prep = 0, !.pending = 0]
  <2>1. ps' \in PlaySessions /\ ps'.live /\ ps'.prep = 0 /\ ps'.pending = 0
    BY <1>7, <1>12 DEF PlaySessions
  <2> QED  BY <1>1, <1>10, <1>12, <2>1
<1>13. CASE /\ ps.live
            /\ mail' = mail /\ ui' = seen /\ ps' = [ps EXCEPT !.prep = 0, !.pending = 0]
  <2>1. ps' \in PlaySessions /\ ps'.live /\ ps'.prep = 0 /\ ps'.pending = 0
    BY <1>1, <1>13 DEF PlaySessions
  <2> QED  BY <1>9, <1>13, <2>1
<1>14. CASE ps.live /\ mail' = mail /\ ui' = seen /\ ps' = shown
  BY <1>8, <1>9, <1>14
<1>15. CASE /\ ps.live /\ e.gen # 0 /\ e.gen = ps.pending
            /\ mail' = Issue(mail, seen, Command("Play", NoProvider, e.gen)).mail
            /\ ui' = Issue(mail, seen, Command("Play", NoProvider, e.gen)).ui
            /\ ps' = [ps EXCEPT !.prep = e.gen,
                          !.pending = Issue(mail, seen, Command("Play", NoProvider, e.gen)).gen]
  <2> DEFINE c == Command("Play", NoProvider, e.gen)
             g == Issue(mail, seen, c).gen
  <2>1. c \in Commands /\ Fit(c)
    BY <1>6, <1>15, CommandType DEF CommandKinds, Provs
  <2>2. ps' = [ps EXCEPT !.prep = e.gen, !.pending = g]
    BY <1>15
  <2>3. mail' = Issue(mail, seen, c).mail /\ ui' = Issue(mail, seen, c).ui
    BY <1>15
  <2> HIDE DEF c
  <2>4. Books(mail', ui') /\ Follows(mail, seen, mail', ui') /\ g \in Nat /\ g <= ui'.next
    BY <1>5, <2>1, <2>3, IssueBooks
  <2> HIDE DEF g
  <2>5. mail' \in Mails /\ ui' \in Uis /\ ui'.next \in Nat
    BY <2>4 DEF Books, Uis
  <2>6. Follows(mail, ui, mail', ui')
    BY <1>1, <1>5, <2>4, <2>5, FollowsOn
  <2>7. ps' \in PlaySessions /\ ps'.live /\ ps'.prep = e.gen /\ ps'.pending = g
    BY <1>1, <1>6, <1>15, <2>2, <2>4 DEF PlaySessions
  <2>8. ui.next <= ui'.next
    BY <2>6 DEF Follows
  <2>9. ps'.prep <= ui'.next /\ ps'.pending <= ui'.next
    BY <1>1, <1>15, <2>4, <2>5, <2>7, <2>8
  <2> QED  BY <1>3, <2>4, <2>6, <2>7, <2>9, SessionKeeps
<1>16. CASE /\ ps.live /\ e.gen # 0 /\ e.gen = ps.pending
            /\ mail' = mail /\ ui' = seen /\ ps' = [ps EXCEPT !.prep = e.gen, !.pending = 0]
  <2>1. ps' \in PlaySessions /\ ps'.live /\ ps'.prep = e.gen /\ ps'.pending = 0
    BY <1>1, <1>6, <1>16 DEF PlaySessions
  <2> QED  BY <1>9, <1>16, <2>1
<1>17. CASE /\ mail' = Abandoned(mail, seen, [ps EXCEPT !.pending = 0]).mail
            /\ ui' = Abandoned(mail, seen, [ps EXCEPT !.pending = 0]).ui
            /\ ps' = NoSession
  <2> DEFINE s == [ps EXCEPT !.pending = 0]
  <2>1. s \in PlaySessions /\ s.prep = ps.prep /\ s.pending = 0
    BY <1>1 DEF PlaySessions
  <2>2. mail' = Abandoned(mail, seen, s).mail /\ ui' = Abandoned(mail, seen, s).ui
    BY <1>17
  <2> HIDE DEF s
  <2> QED  BY <1>10, <1>17, <2>1, <2>2, NoSessionType
<1>18. CASE ps.live /\ mail' = mail /\ ui' = seen /\ ps' = [ps EXCEPT !.pending = 0]
  <2>1. ps' \in PlaySessions /\ ps'.live /\ ps'.prep = ps.prep /\ ps'.pending = 0
    BY <1>1, <1>18 DEF PlaySessions
  <2> QED  BY <1>9, <1>18, <2>1
<1> QED  BY <1>4, <1>11, <1>12, <1>13, <1>14, <1>15, <1>16, <1>17, <1>18

\* Everything the worker has answered is taken at once.
LEMMA DrainKeeps == ASSUME AppInv, Drain PROVE AppInv'
<1>1. Books(mail, ui) /\ mail \in Mails /\ ui \in Uis /\ ui.inbox = <<>> /\ ui.next \in Nat
      /\ mail.events \in Seq(Events) /\ Windowed(ui)
  BY OwnsBounded DEF Drain, Idle, Mails, Books
<1>2. /\ mail' = [mail EXCEPT !.events = <<>>, !.outstanding = @ - Charged(mail.events)]
      /\ ui' = [ui EXCEPT !.inbox = mail.events, !.retry = (mail.events = <<>>)]
      /\ UNCHANGED <<app, job, ps, left>>
  BY DEF Drain
<1>3. Charged(mail.events) \in Nat
  BY <1>1, ChargedType
<1> DEFINE o == mail.outstanding - Charged(mail.events)
           b == mail.events = <<>>
           s == mail.events
<1>4. o \in Int /\ b \in BOOLEAN /\ s \in Seq(Events) /\ <<>> \in Seq(Events)
  BY <1>1, <1>3 DEF Mails
<1>5. /\ mail' = [mail EXCEPT !.events = <<>>, !.outstanding = o]
      /\ ui' = [ui EXCEPT !.inbox = s, !.retry = b]
  BY <1>2
<1>6. Len(mail.queue) \in Nat
  BY <1>1, LenProperties DEF Mails
<1>7. o = Len(mail.queue) + (IF mail.active = 0 THEN 0 ELSE 1) /\ o <= Capacity
  <2> DEFINE a == IF mail.active = 0 THEN 0 ELSE 1
             k == Charged(mail.events)
             q == Len(mail.queue)
  <2>1. mail.outstanding = q + k + a /\ mail.outstanding <= Capacity
    BY <1>1 DEF Books, Budget
  <2>2. a \in Nat /\ k \in Nat /\ q \in Nat /\ mail.outstanding \in Int
    BY <1>1, <1>3, <1>6 DEF Mails
  <2> HIDE DEF a, k, q
  <2>3. mail.outstanding - k = q + a /\ mail.outstanding - k <= Capacity
    BY <2>1, <2>2, CapacityAssumption
  <2> QED  BY <2>3 DEF a, k, q
<1> HIDE DEF o, b, s
<1>8. /\ mail' \in Mails /\ mail'.events = <<>> /\ mail'.outstanding = o
      /\ mail'.queue = mail.queue /\ mail'.stopped = mail.stopped
      /\ mail'.cancelled = mail.cancelled /\ mail'.pipeline = mail.pipeline
      /\ mail'.active = mail.active /\ mail'.discarded = mail.discarded
      /\ mail'.preparedGen = mail.preparedGen /\ mail'.scope = mail.scope
      /\ mail'.epoch = mail.epoch /\ mail'.dead = mail.dead
  BY <1>1, <1>4, <1>5 DEF Mails
<1>9. /\ ui' \in Uis /\ ui'.inbox = mail.events /\ ui'.next = ui.next /\ ui'.pending = ui.pending
      /\ ui'.windows = ui.windows /\ ui'.closed = ui.closed
      /\ ui'.acknowledged = ui.acknowledged
  BY <1>1, <1>4, <1>5 DEF Uis, s
<1>10. Budget(mail')
  <2>1. Charged(mail'.events) = 0
    BY <1>8, ChargedEmpty
  <2>2. o = Len(mail'.queue) + (IF mail'.active = 0 THEN 0 ELSE 1)
    BY <1>7, <1>8
  <2>3. (IF mail'.active = 0 THEN 0 ELSE 1) \in Nat /\ Len(mail'.queue) \in Nat
    BY <1>6, <1>8
  <2>4. o = Len(mail'.queue) + Charged(mail'.events) + (IF mail'.active = 0 THEN 0 ELSE 1)
    BY <2>1, <2>2, <2>3
  <2> QED  BY <1>7, <1>8, <2>4 DEF Budget
<1>11. ASSUME NEW g \in Nat \ {0} PROVE Once(mail', ui', g)
  <2>1. Once(mail, ui, g)
    BY <1>1 DEF Books
  <2>2. ~Has(ui.inbox, g) /\ ~Has(mail'.events, g) /\ (Has(ui'.inbox, g) <=> Has(mail.events, g))
    BY <1>1, <1>8, <1>9, HasNothing
  <2>3. (Asked(ui', g) <=> Asked(ui, g)) /\ (Has(mail'.queue, g) <=> Has(mail.queue, g))
    BY <1>8, <1>9 DEF Asked
  <2> QED  BY <1>8, <2>1, <2>2, <2>3 DEF Once
<1>12. Sound(mail') /\ Bounds(mail', ui') /\ Numbered(ui')
  BY <1>1, <1>8, <1>9 DEF Books, Sound, Bounds, Numbered
<1>13. /\ Distinct(mail'.queue) /\ Distinct(mail'.events) /\ Distinct(ui'.inbox)
       /\ Windowed(ui')
  BY <1>1, <1>8, <1>9, DistinctNothing DEF Books, Windowed
<1>14. Books(mail', ui')
  BY <1>8, <1>9, <1>10, <1>11, <1>12, <1>13 DEF Books
<1>15. Follows(mail, ui, mail', ui')
  BY <1>1, <1>8, <1>9 DEF Follows
<1> QED  BY <1>2, <1>14, <1>15, SentKeeps DEF AppInv, Shapes

-----------------------------------------------------------------------------
(* An answer is applied                                                      *)

LEMMA RetainsOn ==
    ASSUME NEW u, NEW v, NEW w, Retains(u, v), Retains(v, w)
    PROVE  Retains(u, w)
<1> QED  BY DEF Retains

LEMMA AcknowledgedRetains ==
    ASSUME NEW u \in Uis, NEW ids \in SUBSET Nat, Windowed(u)
    PROVE  /\ Retains(u, Acknowledged(u, ids))
           /\ Acknowledged(u, ids).closed = u.closed
<1> QED  BY DEF Acknowledged, Retains, Uis, Windowed

LEMMA PrunedRetains ==
    ASSUME NEW u \in Uis, Windowed(u)
    PROVE  Retains(u, Pruned(u)) /\ Pruned(u).closed \subseteq u.closed
<1> DEFINE kept == {id \in u.closed : id \in u.acknowledged => \E r \in u.replays : r.id = id}
           v == Pruned(u)
<1>1. v = [u EXCEPT !.closed = kept, !.acknowledged = u.acknowledged \cap kept]
  BY DEF Pruned
<1>2. kept \subseteq u.closed /\ u.closed \in SUBSET Nat
  BY DEF Uis
<1> HIDE DEF kept, v
<1>3. /\ v \in Uis /\ v.inbox = u.inbox /\ v.pending = u.pending /\ v.next = u.next
      /\ v.windows = u.windows /\ v.closed = kept /\ v.acknowledged = u.acknowledged \cap kept
  BY <1>1, <1>2 DEF Uis
<1>4. Windowed(v)
  BY <1>2, <1>3 DEF Windowed
<1> QED  BY <1>2, <1>3, <1>4 DEF Retains, v

\* A window is opened for a session that was not closed.
LEMMA OpenedRetains ==
    ASSUME NEW u \in Uis, NEW id \in Nat, Windowed(u), id \notin u.closed
    PROVE  Retains(u, [u EXCEPT !.windows = @ \cup {id}])
<1> QED  BY DEF Retains, Uis, Windowed

\* The first answer unread, and the command it answers, are struck off.
Struck(u, p) == [u EXCEPT !.inbox = Tail(@), !.pending = @ \ {p},
                          !.replays = {r \in @ : r.gen # Head(u.inbox).gen}]

LEMMA StruckBooks ==
    ASSUME NEW m, NEW u, Books(m, u), u.inbox # <<>>
    PROVE  LET v == Struck(u, Entry(u, Head(u.inbox))) IN
           /\ Books(m, v) /\ Follows(m, u, m, v) /\ v.closed = u.closed
           /\ Head(u.inbox) \in Events
<1> DEFINE e == Head(u.inbox)
           t == Tail(u.inbox)
           p == Entry(u, e)
           v == Struck(u, p)
           left1 == u.pending \ {p}
           left2 == {r \in u.replays : r.gen # e.gen}
<1>1. u \in Uis /\ u.inbox \in Seq(Events) /\ Windowed(u) /\ Numbered(u) /\ u.next \in Nat
  BY DEF Books, Uis
<1>2. /\ t \in Seq(Events) /\ e \in Events
      /\ \A g : Has(u.inbox, g) <=> e.gen = g \/ Has(t, g)
      /\ Distinct(t) /\ (e.gen # 0 => ~Has(t, e.gen))
  BY <1>1, HasTail, HeadTailProperties DEF Books
<1>3. \/ p \in u.pending /\ p.gen = e.gen
      \/ p = [gen |-> 0, kind |-> "none", id |-> 0] /\ ~Asked(u, e.gen)
  BY DEF Entry, Asked
<1>4. e.gen \in Nat
  BY <1>2 DEF Events
<1>5. e.gen # 0 => Asked(u, e.gen)
  BY <1>2, <1>4 DEF Books, Once
<1>6. \A q \in u.pending : q.gen # 0
  BY <1>1 DEF Numbered
<1>7. v = [u EXCEPT !.inbox = t, !.pending = left1, !.replays = left2]
  BY DEF Struck
<1>8. left1 \subseteq u.pending /\ left2 \subseteq u.replays
      /\ left1 = u.pending \ {p}
  OBVIOUS
<1> HIDE DEF t, e, p, v, left1, left2
<1>9. /\ v \in Uis /\ v.inbox = t /\ v.pending = left1 /\ v.next = u.next
      /\ v.windows = u.windows /\ v.closed = u.closed /\ v.acknowledged = u.acknowledged
  BY <1>1, <1>2, <1>7, <1>8 DEF Uis
<1>10. \A g \in Nat \ {0} : Asked(v, g) <=> Asked(u, g) /\ g # e.gen
  <2> SUFFICES ASSUME NEW g \in Nat \ {0} PROVE Asked(v, g) <=> Asked(u, g) /\ g # e.gen
    OBVIOUS
  <2>1. CASE e.gen = 0
    <3>1. p \notin u.pending
      BY <1>3, <1>6, <2>1
    <3> QED  BY <1>8, <1>9, <2>1, <3>1 DEF Asked
  <2>2. CASE e.gen # 0
    <3>1. p \in u.pending /\ p.gen = e.gen
      BY <1>3, <1>5, <2>2
    <3>2. \A q \in u.pending : q.gen = p.gen => q = p
      BY <1>1, <3>1 DEF Numbered
    <3> QED  BY <1>8, <1>9, <3>1, <3>2 DEF Asked
  <2> QED  BY <2>1, <2>2
<1>11. ASSUME NEW g \in Nat \ {0} PROVE Once(m, v, g)
  <2>1. Once(m, u, g)
    BY DEF Books
  <2>2. Has(v.inbox, g) <=> Has(u.inbox, g) /\ g # e.gen
    BY <1>2, <1>9
  <2>3. Has(u.inbox, e.gen)
    BY <1>2
  <2> QED  BY <1>10, <2>1, <2>2, <2>3 DEF Once
<1>12. Numbered(v) /\ Bounds(m, v) /\ Windowed(v) /\ Distinct(v.inbox)
  BY <1>1, <1>2, <1>8, <1>9 DEF Books, Numbered, Bounds, Windowed
<1>13. Books(m, v)
  BY <1>9, <1>11, <1>12 DEF Books
<1>14. Follows(m, u, m, v)
  BY <1>1, <1>9 DEF Follows
<1> QED  BY <1>2, <1>9, <1>13, <1>14 DEF v, p, e

LEMMA ApplyEventKeeps == ASSUME AppInv, ApplyEvent PROVE AppInv'
<1>1. Books(mail, ui) /\ mail \in Mails /\ ui \in Uis /\ Windowed(ui)
  BY OwnsBounded DEF Books
<1> DEFINE e == Head(ui.inbox)
           p == Entry(ui, e)
           current == Current(ui, p)
           known == Struck(ui, p)
           gone == CASE e.kind = "Released" -> {e.id}
                     [] e.kind = "Invalidated" -> e.released
                     [] OTHER -> {}
           started == e.kind \in {"Started", "Embedded"} /\ p.kind # "Replay"
           closing == CloseEmbedded(known, gone)
           ended == Acknowledged(closing, gone)
           again == [ended EXCEPT
                       !.tracked = (@ \ gone) \cup (IF started THEN {e.id} ELSE {}),
                       !.releasing = IF e.kind = "Failed" /\ p.kind = "Release" /\ p.id \in ui.closed
                                     THEN @ \cup {p.id} ELSE @]
           booked == Pruned(again)
           opened == CASE e.kind = "Embedded" /\ current ->
                            [booked EXCEPT !.windows = @ \cup {e.id}]
                       [] e.kind = "Embedded" /\ ~current -> QueueRelease(booked, e.id)
                       [] OTHER -> booked
           told == CASE e.kind = "Settings" ->
                          [opened EXCEPT !.settings = e.prov, !.accepted = e.prov]
                     [] e.kind = "Failed" /\ p.kind = "Save" /\ ui.accepted # NoProvider ->
                          [opened EXCEPT !.settings = ui.accepted]
                     [] OTHER -> opened
           last(u) == [u EXCEPT !.retry = @ \/ (u.inbox = <<>>)]
           heard == [told EXCEPT !.emitted = Append(@, e)]
           late == e.kind = "Embedded" /\ e.id \in ui.closed
<1>2. /\ ui.inbox # <<>> /\ UNCHANGED <<mail, app, job, ps, left>>
      /\ ui' = IF late THEN last(Pruned(known)) ELSE IF ~current THEN last(opened) ELSE last(heard)
  BY DEF ApplyEvent, Struck
<1>3. /\ Books(mail, known) /\ Follows(mail, ui, mail, known) /\ known.closed = ui.closed
      /\ e \in Events
  BY <1>1, <1>2, StruckBooks
<1>4. p.kind = "Release" => p.id \in Nat
  <2>1. \/ p \in ui.pending \/ p = [gen |-> 0, kind |-> "none", id |-> 0]
    BY DEF Entry
  <2> QED  BY <1>1, <2>1 DEF Uis, Pendings
<1>5. e.id \in Nat /\ e.released \in SUBSET Nat /\ e.prov \in Provs
  BY <1>3 DEF Events
<1>6. known \in Uis /\ Windowed(known)
  BY <1>3 DEF Books
<1>7. gone \in SUBSET Nat /\ (e.kind = "Embedded" => gone = {})
  BY <1>5
<1>8. started => e.id \in Nat
  BY <1>5
<1> HIDE DEF known, started, gone, p, current, e
<1>9. ASSUME NEW u, Retains(known, u) PROVE Retains(known, last(u))
  <2> DEFINE r == u.retry \/ (u.inbox = <<>>)
             v == last(u)
  <2>1. r \in BOOLEAN /\ v = [u EXCEPT !.retry = r] /\ u \in Uis /\ Windowed(u)
    BY <1>9 DEF Retains, Uis
  <2> HIDE DEF r, v
  <2>2. Retains(u, v)
    BY <2>1 DEF Retains, Uis, Windowed
  <2>3. Retains(known, v)
    BY <1>9, <2>2, RetainsOn
  <2>4. v = last(u)
    BY DEF v
  <2> HIDE DEF last
  <2> QED  BY <2>3, <2>4
<1>10. Retains(known, closing) /\ (gone = {} => closing.closed = known.closed)
  <2>1. Retains(known, closing)
    BY <1>6, <1>7, CloseRetains
  <2>2. closing.closed = known.closed \cup (gone \cap known.windows)
    BY <1>6 DEF CloseEmbedded, Uis
  <2> HIDE DEF closing
  <2> QED  BY <2>1, <2>2
<1>11. closing \in Uis /\ Windowed(closing)
  BY <1>10 DEF Retains
<1> HIDE DEF closing
<1>12. Retains(closing, ended) /\ ended.closed = closing.closed
  BY <1>7, <1>11, AcknowledgedRetains
<1>13. ended \in Uis /\ Windowed(ended)
  BY <1>12 DEF Retains
<1> HIDE DEF ended
<1>14. Retains(ended, again) /\ again.closed = ended.closed
  <2> DEFINE tracked == (ended.tracked \ gone) \cup (IF started THEN {e.id} ELSE {})
             releasing == IF e.kind = "Failed" /\ p.kind = "Release" /\ p.id \in ui.closed
                          THEN ended.releasing \cup {p.id} ELSE ended.releasing
  <2>1. tracked \in SUBSET Nat /\ releasing \in SUBSET Nat
    BY <1>4, <1>8, <1>13 DEF Uis
  <2>2. again = [ended EXCEPT !.tracked = tracked, !.releasing = releasing]
    OBVIOUS
  <2> HIDE DEF tracked, releasing, again
  <2> QED  BY <1>13, <2>1, <2>2 DEF Retains, Uis, Windowed
<1>15. again \in Uis /\ Windowed(again)
  BY <1>14 DEF Retains
<1> HIDE DEF again
<1>16. Retains(again, booked) /\ booked.closed \subseteq again.closed
  BY <1>15, PrunedRetains
<1>17. booked \in Uis /\ Windowed(booked)
  BY <1>16 DEF Retains
<1> HIDE DEF booked
<1>18. Retains(known, booked)
  BY <1>10, <1>12, <1>14, <1>16, RetainsOn
<1>19. ASSUME ~late PROVE Retains(booked, opened)
  <2>1. CASE e.kind = "Embedded" /\ current
    <3>1. e.id \notin booked.closed
      BY <1>3, <1>7, <1>10, <1>12, <1>14, <1>16, <1>19, <2>1
    <3>2. opened = [booked EXCEPT !.windows = @ \cup {e.id}]
      BY <2>1
    <3> HIDE DEF opened
    <3> QED  BY <1>5, <1>17, <3>1, <3>2, OpenedRetains
  <2>2. CASE e.kind = "Embedded" /\ ~current
    <3>1. opened = QueueRelease(booked, e.id)
      BY <2>2
    <3> HIDE DEF opened
    <3> QED  BY <1>5, <1>17, <3>1, QueueReleaseRetains
  <2>3. CASE e.kind # "Embedded"
    <3>1. opened = booked
      BY <2>3
    <3> QED  BY <1>17, <3>1 DEF Retains
  <2> QED  BY <2>1, <2>2, <2>3
<1> HIDE DEF opened
<1>20. ASSUME ~late PROVE Retains(opened, told)
  <2>1. opened \in Uis /\ Windowed(opened)
    BY <1>19, <1>20 DEF Retains
  <2>2. ui.accepted \in Provs
    BY <1>1 DEF Uis
  <2>3. \/ told = [opened EXCEPT !.settings = e.prov, !.accepted = e.prov]
        \/ told = [opened EXCEPT !.settings = ui.accepted]
        \/ told = opened
    OBVIOUS
  <2> HIDE DEF told
  <2> QED  BY <1>5, <2>1, <2>2, <2>3 DEF Retains, Uis, Windowed
<1> HIDE DEF told
<1>21. ASSUME ~late PROVE Retains(told, heard)
  <2>1. told \in Uis /\ Windowed(told)
    BY <1>20, <1>21 DEF Retains
  <2> DEFINE emitted == Append(told.emitted, e)
  <2>2. emitted \in Seq(Events)
    BY <1>3, <2>1, AppendProperties DEF Uis
  <2>3. heard = [told EXCEPT !.emitted = emitted]
    OBVIOUS
  <2> HIDE DEF emitted, heard
  <2> QED  BY <2>1, <2>2, <2>3 DEF Retains, Uis, Windowed
<1> HIDE DEF heard
<1>22. Retains(known, ui')
  <2>1. CASE late
    <3>1. Retains(known, Pruned(known))
      BY <1>6, PrunedRetains
    <3> QED  BY <1>2, <1>9, <2>1, <3>1
  <2>2. CASE ~late /\ ~current
    <3>1. Retains(known, opened)
      BY <1>18, <1>19, <2>2, RetainsOn
    <3> QED  BY <1>2, <1>9, <2>2, <3>1
  <2>3. CASE ~late /\ current
    <3>1. Retains(known, opened)
      BY <1>18, <1>19, <2>3, RetainsOn
    <3>2. Retains(known, told)
      BY <1>20, <2>3, <3>1, RetainsOn
    <3>3. Retains(known, heard)
      BY <1>21, <2>3, <3>2, RetainsOn
    <3> QED  BY <1>2, <1>9, <2>3, <3>3
  <2> QED  BY <2>1, <2>2, <2>3
<1>23. Books(mail, ui') /\ Follows(mail, known, mail, ui') /\ ui' \in Uis
  BY <1>3, <1>22, RetainsBooks DEF Retains
<1>24. Follows(mail, ui, mail, ui')
  BY <1>1, <1>3, <1>6, <1>23, FollowsOn
<1> QED  BY <1>2, <1>23, <1>24, SentKeeps DEF AppInv, Shapes

-----------------------------------------------------------------------------
(* The operations of the worker                                              *)

\* A step of the worker keeps the shapes, the books and the fence.
Worked == /\ mail' \in Mails /\ app' \in Apps /\ job' \in Jobs
          /\ left' \in [user : Nat, faults : Nat]
          /\ Books(mail', ui) /\ Working' /\ Records' /\ (~mail'.stopped => Fence')
          /\ UNCHANGED <<ui, ps>>

LEMMA WorkerKeeps == ASSUME AppInv, Worked PROVE AppInv'
<1>1. Shapes'
  BY DEF AppInv, Shapes, Worked
<1>2. Owning'
  BY DEF AppInv, Owning, Worked
<1>3. Books(mail, ui)'
  BY DEF Worked
<1> QED  BY <1>1, <1>2, <1>3 DEF AppInv, Worked

LEMMA AtWork ==
    ASSUME AppInv, job.pc # "idle"
    PROVE  /\ ~mail.stopped /\ Fence /\ Records /\ mail.active # 0 /\ mail.active \in Nat
           /\ job.req \in Requests /\ Fit(job.req) /\ job.req.gen = mail.active
           /\ job.req.kind \in CommandKinds /\ job.req.prov \in Provs /\ job.req.id \in Nat
           /\ Books(mail, ui) /\ mail \in Mails /\ app \in Apps /\ job \in Jobs /\ ui \in Uis
           /\ left \in [user : Nat, faults : Nat]
<1>1. Shapes /\ Books(mail, ui) /\ Working /\ Records /\ (~mail.stopped => Fence)
  BY DEF AppInv
<1>2. mail.active # 0
  BY <1>1 DEF Working
<1>3. ~mail.stopped
  BY <1>1, <1>2 DEF Books, Sound
<1>4. job.req \in Requests /\ Fit(job.req) /\ job.req.gen = mail.active
  BY <1>1 DEF Working
<1>5. job.req.kind \in CommandKinds /\ job.req.prov \in Provs /\ job.req.id \in Nat
  BY <1>4 DEF Requests
<1>6. mail.active \in Nat
  BY <1>1 DEF Shapes, Mails
<1> QED  BY <1>1, <1>2, <1>3, <1>4, <1>5, <1>6 DEF Shapes

\* Only the operation goes on: the mailbox does not change.
LEMMA OperationKeeps ==
    ASSUME AppInv, job.pc # "idle", UNCHANGED <<mail, ui, ps>>,
           left' \in [user : Nat, faults : Nat], app' \in Apps, job' \in Jobs,
           job'.pc # "idle", job'.req = job.req, Records', Fence'
    PROVE  AppInv'
<1>1. mail \in Mails /\ Books(mail, ui) /\ mail.active # 0
      /\ job.req \in Requests /\ Fit(job.req) /\ job.req.gen = mail.active
  BY AtWork
<1>2. Working'
  BY <1>1 DEF Working
<1>3. Worked
  BY <1>1, <1>2 DEF Worked
<1> QED  BY <1>3, WorkerKeeps

\* What of the job does not change while it goes on.
GoesTo(pc) == /\ job' \in Jobs /\ job'.pc = pc /\ job'.req = job.req /\ job'.epoch = job.epoch
              /\ job'.invalidated = job.invalidated

LEMMA StepsTo ==
    ASSUME NEW pc \in Steps, job \in Jobs, job' = [job EXCEPT !.pc = pc]
    PROVE  GoesTo(pc)
<1> QED  BY DEF GoesTo, Jobs

LEMMA FinishesWith ==
    ASSUME NEW outcome \in Answers, job \in Jobs, Finish(outcome)
    PROVE  GoesTo("reconcile")
<1> QED  BY DEF GoesTo, Jobs, Finish, Steps

LEMMA OutcomeType ==
    ASSUME NEW kind \in OutcomeKinds \ {"Invalidated"}, NEW prov \in Provs, NEW id \in Nat
    PROVE  Outcome(kind, prov, id) \in Answers
<1> QED  BY DEF Outcome, Answers

LEMMA FailedAnswer == Failed \in Answers
<1> QED  BY DEF Failed, Outcome, Answers, OutcomeKinds, Provs

\* The operation ends, and what the worker holds did not grow.
LEMMA FinishedFence ==
    ASSUME Fence, GoesTo("reconcile"), UNCHANGED mail,
           job.pc \in {"preflight", "execute", "preparing", "resolving", "launching"},
           app'.prepared \in {app.prepared, NoPrep}, app'.sessions \subseteq app.sessions,
           Doing({"Prepare"}) => app'.settings = app.settings
    PROVE  Fence'
<1>1. /\ job'.pc = "reconcile" /\ job'.req = job.req /\ job'.epoch = job.epoch
      /\ job'.invalidated = job.invalidated /\ mail' = mail
  BY DEF GoesTo
<1>2. JobKinds'
  BY <1>1 DEF Fence, JobKinds, Doing
<1>3. InEffect'
  BY <1>1 DEF Fence, InEffect
<1>4. NothingRemote => NothingRemote'
  BY DEF NothingRemote
<1>5. SettingsFollow'
  BY <1>1 DEF Fence, SettingsFollow, JobKinds, Doing
<1> QED  BY <1>1, <1>2, <1>3, <1>4, <1>5 DEF Fence, Doing

LEMMA FinishedRecords ==
    ASSUME Records, GoesTo("reconcile"), UNCHANGED <<mail, ui>>,
           app'.sessions \subseteq app.sessions, app'.prepared.gen <= ui.next,
           \A s \in app'.sessions : s.id \in app.leases => s.id \in app'.leases
    PROVE  Records'
<1>1. job'.pc = "reconcile" /\ mail' = mail /\ ui' = ui
  BY DEF GoesTo
<1> QED  BY <1>1 DEF Records

LEMMA NoPrepType == NoPrep \in Preps /\ NoPrep.gen = 0
<1> QED  BY DEF NoPrep, Preps, Provs

\* The preparation, or none, has a name that was given.
LEMMA StillBounded ==
    ASSUME Records, ui \in Uis, app'.prepared \in {app.prepared, NoPrep}
    PROVE  app'.prepared.gen <= ui.next
<1>1. ui.next \in Nat
  BY DEF Uis
<1> QED  BY <1>1, NoPrepType DEF Records

LEMMA FinishedKeeps ==
    ASSUME AppInv, NEW outcome \in Answers, Finish(outcome), UNCHANGED <<mail, ui, ps>>,
           left' \in [user : Nat, faults : Nat], app' \in Apps,
           job.pc \in {"preflight", "execute", "preparing", "resolving", "launching"},
           app'.prepared \in {app.prepared, NoPrep}, app'.sessions \subseteq app.sessions,
           \A s \in app'.sessions : s.id \in app.leases => s.id \in app'.leases,
           Doing({"Prepare"}) => app'.settings = app.settings
    PROVE  AppInv'
<1>1. job.pc # "idle"
  OBVIOUS
<1>2. Fence /\ Records /\ job \in Jobs /\ ui \in Uis
  BY <1>1, AtWork
<1>3. GoesTo("reconcile")
  BY <1>2, FinishesWith
<1>4. app'.prepared.gen <= ui.next
  BY <1>1, <1>2, StillBounded
<1>5. Fence' /\ Records'
  BY <1>2, <1>3, <1>4, FinishedFence, FinishedRecords
<1>6. job' \in Jobs /\ job'.pc # "idle" /\ job'.req = job.req
  BY <1>3 DEF GoesTo
<1> QED  BY <1>1, <1>5, <1>6, OperationKeeps

LEMMA AppFields ==
    ASSUME app \in Apps
    PROVE  /\ app.settings \in Provs /\ app.disk \in Providers /\ app.disk \in Provs
           /\ app.prepared \in Preps /\ app.sessions \in SUBSET Sessions
           /\ app.leases \in SUBSET Nat
           /\ Loaded(app) \in Apps /\ Loaded(app).prepared = app.prepared
           /\ Loaded(app).sessions = app.sessions /\ Loaded(app).leases = app.leases
           /\ Loaded(app).settings = (IF app.settings = NoProvider THEN app.disk ELSE app.settings)
<1>1. app.disk \in Provs
  BY DEF Apps, Provs
<1> QED  BY <1>1 DEF Apps, Loaded

LEMMA ExecuteCanceledKeeps == ASSUME AppInv, ExecuteCanceled PROVE AppInv'
<1>1. job.pc = "execute" /\ Finish(Failed) /\ UNCHANGED <<mail, app, ui, ps, left>>
  BY DEF ExecuteCanceled
<1>2. app \in Apps /\ left \in [user : Nat, faults : Nat]
  BY <1>1, AtWork
<1> QED  BY <1>1, <1>2, FailedAnswer, FinishedKeeps

LEMMA ExecuteLoadKeeps == ASSUME AppInv, ExecuteLoad PROVE AppInv'
<1>1. job.pc = "execute" /\ job.req.kind = "Load" /\ UNCHANGED <<mail, ui, ps, left>>
  BY DEF ExecuteLoad, Executing
<1>2. app \in Apps /\ left \in [user : Nat, faults : Nat]
  BY <1>1, AtWork
<1>3. PICK outcome \in Answers, settings \in Provs :
        app' = [app EXCEPT !.settings = settings] /\ Finish(outcome)
  <2>1. Outcome("Settings", app.disk, 0) \in Answers /\ app.disk \in Provs /\ NoProvider \in Provs
    BY <1>2, AppFields, OutcomeType DEF OutcomeKinds, Provs
  <2> QED  BY <2>1, FailedAnswer DEF ExecuteLoad
<1>4. app' \in Apps /\ app'.prepared = app.prepared /\ app'.sessions = app.sessions
      /\ app'.leases = app.leases
  BY <1>2, <1>3 DEF Apps
<1> QED  BY <1>1, <1>2, <1>3, <1>4, FinishedKeeps DEF Doing

LEMMA ExecuteSaveKeeps == ASSUME AppInv, ExecuteSave PROVE AppInv'
<1>1. job.pc = "execute" /\ job.req.kind = "Save" /\ UNCHANGED <<mail, ui, ps, left>>
  BY DEF ExecuteSave, Executing
<1>2. app \in Apps /\ left \in [user : Nat, faults : Nat] /\ job.req.prov \in Providers
  BY <1>1, AtWork DEF Fit
<1>3. PICK outcome \in Answers :
        /\ Finish(outcome)
        /\ \/ app' = [app EXCEPT !.disk = job.req.prov, !.settings = job.req.prov]
           \/ app' \in {app, Loaded(app)}
  <2>1. Outcome("Settings", job.req.prov, 0) \in Answers
    BY <1>2, OutcomeType DEF OutcomeKinds, Provs
  <2> QED  BY <2>1, FailedAnswer DEF ExecuteSave
<1>4. app' \in Apps /\ app'.prepared = app.prepared /\ app'.sessions = app.sessions
      /\ app'.leases = app.leases
  <2>1. job.req.prov \in Provs
    BY <1>2 DEF Provs
  <2> QED  BY <1>2, <1>3, <2>1, AppFields DEF Apps
<1> QED  BY <1>1, <1>2, <1>3, <1>4, FinishedKeeps DEF Doing

LEMMA ExecuteCredentialKeeps == ASSUME AppInv, ExecuteCredential PROVE AppInv'
<1>1. job.pc = "execute" /\ job.req.kind = "Cred" /\ UNCHANGED <<mail, ui, ps, left>>
  BY DEF ExecuteCredential, Executing
<1>2. app \in Apps /\ left \in [user : Nat, faults : Nat]
  BY <1>1, AtWork
<1>3. Outcome("Settings", Loaded(app).settings, 0) \in Answers
  <2>1. Loaded(app).settings \in Provs
    BY <1>2, AppFields
  <2> QED  BY <2>1, OutcomeType DEF OutcomeKinds
<1>4. PICK outcome \in Answers : Finish(outcome) /\ app' \in {app, Loaded(app)}
  BY <1>3, FailedAnswer DEF ExecuteCredential
<1>5. app' \in Apps /\ app'.prepared = app.prepared /\ app'.sessions = app.sessions
      /\ app'.leases = app.leases
  BY <1>2, <1>4, AppFields
<1> QED  BY <1>1, <1>2, <1>4, <1>5, FinishedKeeps DEF Doing

LEMMA ExecuteTestKeeps == ASSUME AppInv, ExecuteTest PROVE AppInv'
<1>1. job.pc = "execute" /\ UNCHANGED <<mail, app, ui, ps, left>>
  BY DEF ExecuteTest, Executing
<1>2. app \in Apps /\ left \in [user : Nat, faults : Nat] /\ job.req.prov \in Provs
  BY <1>1, AtWork
<1>3. Outcome("Checked", job.req.prov, 0) \in Answers
  BY <1>2, OutcomeType DEF OutcomeKinds
<1>4. PICK outcome \in Answers : Finish(outcome)
  BY <1>3, FailedAnswer DEF ExecuteTest
<1> QED  BY <1>1, <1>2, <1>4, FinishedKeeps

LEMMA ReleaseSessionKeeps == ASSUME AppInv, ReleaseSession PROVE AppInv'
<1>1. job.pc = "execute" /\ job.req.kind = "Release" /\ UNCHANGED <<mail, ui, ps>>
  BY DEF ReleaseSession, Executing
<1>2. app \in Apps /\ left \in [user : Nat, faults : Nat] /\ job.req.id \in Nat
  BY <1>1, AtWork
<1>3. CASE /\ app' = [app EXCEPT !.leases = @ \ {job.req.id},
                                 !.sessions = {s \in @ : s.id # job.req.id}]
           /\ Finish(Outcome("Released", NoProvider, job.req.id))
           /\ UNCHANGED left
  <2>1. Outcome("Released", NoProvider, job.req.id) \in Answers
    BY <1>2, OutcomeType DEF OutcomeKinds, Provs
  <2> DEFINE kept == {s \in app.sessions : s.id # job.req.id}
             leases == app.leases \ {job.req.id}
  <2>2. app' = [app EXCEPT !.leases = leases, !.sessions = kept]
    BY <1>3
  <2>3. kept \subseteq app.sessions /\ leases \subseteq app.leases
        /\ \A s \in kept : s.id \in app.leases => s.id \in leases
    OBVIOUS
  <2> HIDE DEF kept, leases
  <2>4. /\ app' \in Apps /\ app'.prepared = app.prepared /\ app'.settings = app.settings
        /\ app'.sessions = kept /\ app'.leases = leases
    BY <1>2, <2>2, <2>3 DEF Apps
  <2> QED  BY <1>1, <1>2, <1>3, <2>1, <2>3, <2>4, FinishedKeeps
<1>4. CASE left' = [left EXCEPT !.faults = @ - 1] /\ left.faults > 0 /\ Finish(Failed) /\ UNCHANGED app
  <2>1. left' \in [user : Nat, faults : Nat]
    BY <1>2, <1>4
  <2> QED  BY <1>1, <1>2, <1>4, <2>1, FailedAnswer, FinishedKeeps
<1> QED  BY <1>3, <1>4 DEF ReleaseSession

LEMMA ReplaySessionKeeps == ASSUME AppInv, ReplaySession PROVE AppInv'
<1>1. job.pc = "execute" /\ UNCHANGED <<mail, app, ui, ps, left>>
  BY DEF ReplaySession, Executing
<1>2. app \in Apps /\ left \in [user : Nat, faults : Nat] /\ job.req.id \in Nat
  BY <1>1, AtWork
<1>3. \A kind \in {"Embedded", "Relaunched"} : Outcome(kind, NoProvider, job.req.id) \in Answers
  BY <1>2, OutcomeType DEF OutcomeKinds, Provs
<1>4. PICK outcome \in Answers : Finish(outcome)
  BY <1>3, FailedAnswer DEF ReplaySession
<1> QED  BY <1>1, <1>2, <1>4, FinishedKeeps

\* A step that is not the last of its operation and takes no session.
LEMMA GoesOnRecords ==
    ASSUME Records, NEW pc \in Steps, GoesTo(pc), UNCHANGED <<mail, ui>>,
           job.pc \notin {"reconcile", "publish"},
           app'.sessions = app.sessions, app.leases \subseteq app'.leases,
           app'.prepared \in {app.prepared, NoPrep}, ui \in Uis,
           pc = "launching" => mail.active \in app'.leases
    PROVE  Records'
<1>1. job'.pc = pc /\ mail' = mail /\ ui' = ui
  BY DEF GoesTo
<1>2. app'.prepared.gen <= ui.next
  BY StillBounded
<1> QED  BY <1>1, <1>2 DEF Records

LEMMA PrepareSettings ==
    ASSUME Fence, job.pc = "preparing" \/ (job.pc = "execute" /\ Doing({"Prepare"}) /\ ~Canceled)
    PROVE  app.settings # NoProvider /\ app.settings = mail.scope /\ mail.scope # NoProvider
<1>1. app.settings # NoProvider /\ app.settings = mail.scope
  BY DEF Fence, SettingsFollow
<1> QED  BY <1>1

LEMMA BeginPrepareKeeps == ASSUME AppInv, BeginPrepare PROVE AppInv'
<1>1. job.pc = "execute" /\ ~Canceled /\ job.req.kind = "Prepare"
      /\ app' = [app EXCEPT !.prepared = NoPrep] /\ UNCHANGED <<mail, ui, ps, left>>
  BY DEF BeginPrepare, Executing
<1>2. /\ app \in Apps /\ left \in [user : Nat, faults : Nat] /\ Fence /\ Records /\ ui \in Uis
      /\ job \in Jobs /\ job.req.gen = mail.active
  BY <1>1, AtWork
<1>3. /\ app' \in Apps /\ app'.prepared = NoPrep /\ app'.settings = app.settings
      /\ app'.sessions = app.sessions /\ app'.leases = app.leases
  BY <1>1, <1>2, NoPrepType DEF Apps
<1>4. CASE job' = [job EXCEPT !.pc = "preparing"]
  <2>1. "preparing" \in Steps
    BY DEF Steps
  <2>2. GoesTo("preparing")
    BY <1>2, <1>4, <2>1, StepsTo
  <2>3. Records'
    BY <1>1, <1>2, <1>3, <2>1, <2>2, GoesOnRecords
  <2>4. app.settings # NoProvider /\ app.settings = mail.scope /\ mail.scope # NoProvider
    BY <1>1, <1>2, PrepareSettings DEF Doing
  <2>5. /\ job'.pc = "preparing" /\ job'.req = job.req /\ job'.epoch = job.epoch
        /\ job'.invalidated = job.invalidated /\ mail' = mail /\ job' \in Jobs
    BY <1>1, <2>2 DEF GoesTo
  <2>6. JobKinds' /\ SettingsFollow' /\ InEffect'
    <3>1. JobKinds'
      BY <1>1, <2>5 DEF JobKinds, Doing
    <3>2. SettingsFollow'
      BY <1>1, <1>3, <2>4, <2>5 DEF SettingsFollow, Doing
    <3>3. InEffect'
      BY <1>1, <1>2, <1>3, <2>5 DEF InEffect, Fence
    <3> QED  BY <3>1, <3>2, <3>3
  <2>7. Fence'
    BY <1>1, <1>2, <2>4, <2>5, <2>6 DEF Fence, Doing
  <2> QED  BY <1>1, <1>2, <1>3, <2>3, <2>5, <2>7, OperationKeeps
<1>5. CASE Finish(Failed)
  BY <1>1, <1>2, <1>3, <1>5, FailedAnswer, FinishedKeeps
<1> QED  BY <1>4, <1>5 DEF BeginPrepare

LEMMA PreparedKeeps == ASSUME AppInv, Prepared PROVE AppInv'
<1>1. job.pc = "preparing" /\ UNCHANGED <<mail, ui, ps, left>>
  BY DEF Prepared
<1>2. /\ app \in Apps /\ left \in [user : Nat, faults : Nat] /\ Fence /\ Records /\ ui \in Uis
      /\ job \in Jobs /\ job.req.gen = mail.active /\ mail.active \in Nat
  BY <1>1, AtWork
<1>3. app.settings # NoProvider /\ app.settings = mail.scope /\ mail.scope # NoProvider
  BY <1>1, <1>2, PrepareSettings
<1>4. app.settings \in Provs
  BY <1>2, AppFields
<1>5. CASE UNCHANGED app
  <2>1. PICK outcome \in Answers : Finish(outcome)
    BY <1>4, FailedAnswer, OutcomeType DEF Prepared, OutcomeKinds
  <2> QED  BY <1>1, <1>2, <1>5, <2>1, FinishedKeeps
<1>6. CASE /\ app' = [app EXCEPT !.prepared = [gen |-> job.req.gen, prov |-> app.settings,
                                               epoch |-> job.epoch]]
           /\ Finish(Outcome("Prepared", app.settings, 0))
  <2> DEFINE p == [gen |-> job.req.gen, prov |-> app.settings, epoch |-> job.epoch]
  <2>1. p \in Preps /\ p.prov = app.settings /\ p.epoch = job.epoch
    BY <1>2, <1>4 DEF Preps, Jobs
  <2>2. app' = [app EXCEPT !.prepared = p]
    BY <1>6
  <2> HIDE DEF p
  <2>3. /\ app' \in Apps /\ app'.prepared = p /\ app'.settings = app.settings
        /\ app'.sessions = app.sessions /\ app'.leases = app.leases
    BY <1>2, <2>1, <2>2 DEF Apps
  <2>4. Outcome("Prepared", app.settings, 0) \in Answers
    BY <1>4, OutcomeType DEF OutcomeKinds
  <2>5. GoesTo("reconcile")
    BY <1>2, <1>6, <2>4, FinishesWith
  <2>6. Records'
    <3>1. Books(mail, ui) /\ ui.next \in Nat
      BY <1>1, AtWork DEF Uis
    <3>2. mail.active <= ui.next
      BY <1>2, <3>1 DEF Books, Bounds
    <3>3. p.gen = mail.active
      BY <1>2 DEF p
    <3>4. app'.prepared.gen <= ui.next
      BY <2>3, <3>2, <3>3
    <3> QED  BY <1>1, <1>2, <2>3, <2>5, <3>4, FinishedRecords
  <2>7. /\ job'.pc = "reconcile" /\ job'.req = job.req /\ job'.epoch = job.epoch
        /\ job'.invalidated = job.invalidated /\ mail' = mail /\ job' \in Jobs
    BY <1>1, <2>5 DEF GoesTo
  <2>8. job.req.kind = "Prepare" /\ job.epoch = mail.epoch
    BY <1>1, <1>2 DEF Fence, JobKinds, Doing
  <2>9. JobKinds'
    BY <2>7, <2>8 DEF JobKinds, Doing
  <2>10. InEffect'
    BY <1>1, <1>2, <1>3, <2>1, <2>3, <2>7, <2>8 DEF InEffect, Fence
  <2>11. SettingsFollow'
    BY <1>3, <2>3, <2>7, <2>8 DEF SettingsFollow, Doing
  <2>12. Fence'
    BY <1>3, <2>7, <2>8, <2>9, <2>10, <2>11 DEF Fence, Doing
  <2> QED  BY <1>1, <1>2, <2>3, <2>6, <2>7, <2>12, OperationKeeps
<1> QED  BY <1>5, <1>6 DEF Prepared

\* The next step of a playback: what the worker holds remotely does not change.
LEMMA PlayingFence ==
    ASSUME Fence, NEW pc \in {"resolving", "launching"}, GoesTo(pc), UNCHANGED mail,
           job.pc \in {"execute", "resolving"},
           job.req.kind = "Play" \/ (job.req.kind = "Local" /\ pc = "launching"),
           job.req.kind = "Play" => mail.scope # NoProvider,
           app'.prepared = app.prepared, app'.sessions = app.sessions
    PROVE  Fence'
<1>1. /\ job'.pc = pc /\ job'.req = job.req /\ job'.epoch = job.epoch
      /\ job'.invalidated = job.invalidated /\ mail' = mail
  BY DEF GoesTo
<1>2. JobKinds'
  BY <1>1 DEF Fence, JobKinds, Doing
<1>3. InEffect' /\ (NothingRemote => NothingRemote')
  BY <1>1 DEF Fence, InEffect, NothingRemote
<1>4. SettingsFollow'
  BY <1>1 DEF SettingsFollow, Doing
<1> QED  BY <1>1, <1>2, <1>3, <1>4 DEF Fence, Doing

LEMMA BeginPlayKeeps == ASSUME AppInv, BeginPlay PROVE AppInv'
<1>1. job.pc = "execute" /\ job.req.kind = "Play" /\ UNCHANGED <<mail, app, ui, ps, left>>
  BY DEF BeginPlay, Executing
<1>2. /\ app \in Apps /\ left \in [user : Nat, faults : Nat] /\ Fence /\ Records /\ ui \in Uis
      /\ job \in Jobs /\ Fit(job.req)
  BY <1>1, AtWork
<1>3. CASE app.prepared.gen = job.req.id /\ job' = [job EXCEPT !.pc = "resolving"]
  <2>1. "resolving" \in Steps
    BY DEF Steps
  <2>2. GoesTo("resolving")
    BY <1>2, <1>3, <2>1, StepsTo
  <2>3. Records'
    BY <1>1, <1>2, <2>1, <2>2, GoesOnRecords
  <2>4. app.prepared # NoPrep
    BY <1>1, <1>2, <1>3, NoPrepType DEF Fit
  <2>5. mail.scope # NoProvider
    BY <1>2, <2>4 DEF Fence, NothingRemote
  <2>6. Fence'
    BY <1>1, <1>2, <2>2, <2>5, PlayingFence
  <2>7. job' \in Jobs /\ job'.pc # "idle" /\ job'.req = job.req
    BY <2>2 DEF GoesTo
  <2> QED  BY <1>1, <1>2, <2>3, <2>6, <2>7, OperationKeeps
<1>4. CASE Finish(Failed)
  BY <1>1, <1>2, <1>4, FailedAnswer, FinishedKeeps
<1> QED  BY <1>3, <1>4 DEF BeginPlay

\* The lease of the session that is to be launched.
LEMMA LeaseTaken ==
    ASSUME AppInv, job.pc \in {"execute", "resolving"},
           (job.req.kind = "Play" /\ mail.scope # NoProvider) \/ job.req.kind = "Local",
           app' = [Loaded(app) EXCEPT !.leases = @ \cup {job.req.gen}],
           job' = [job EXCEPT !.pc = "launching"], UNCHANGED <<mail, ui, ps, left>>
    PROVE  AppInv'
<1>1. /\ app \in Apps /\ left \in [user : Nat, faults : Nat] /\ Fence /\ Records /\ ui \in Uis
      /\ job \in Jobs /\ job.req.gen = mail.active /\ mail.active \in Nat
  BY AtWork
<1> DEFINE a == Loaded(app)
           leases == a.leases \cup {job.req.gen}
<1>2. /\ a \in Apps /\ a.prepared = app.prepared /\ a.sessions = app.sessions
      /\ a.leases = app.leases /\ app.leases \in SUBSET Nat
  BY <1>1, AppFields
<1>3. app' = [a EXCEPT !.leases = leases]
  OBVIOUS
<1> HIDE DEF a
<1>4. leases \in SUBSET Nat /\ app.leases \subseteq leases /\ mail.active \in leases
  BY <1>1, <1>2
<1> HIDE DEF leases
<1>5. /\ app' \in Apps /\ app'.prepared = app.prepared
      /\ app'.sessions = app.sessions /\ app'.leases = leases
  BY <1>2, <1>3, <1>4 DEF Apps
<1>6. "launching" \in Steps
  BY DEF Steps
<1>7. GoesTo("launching")
  BY <1>1, <1>6, StepsTo
<1>8. Records'
  BY <1>1, <1>4, <1>5, <1>6, <1>7, GoesOnRecords
<1>9. Fence'
  BY <1>1, <1>5, <1>7, PlayingFence
<1>10. job' \in Jobs /\ job'.pc # "idle" /\ job'.req = job.req
  BY <1>7 DEF GoesTo
<1> QED  BY <1>1, <1>5, <1>8, <1>9, <1>10, OperationKeeps

LEMMA ResolvedKeeps == ASSUME AppInv, Resolved PROVE AppInv'
<1>1. job.pc = "resolving" /\ UNCHANGED <<mail, ui, ps, left>>
  BY DEF Resolved
<1>2. app \in Apps /\ left \in [user : Nat, faults : Nat] /\ Fence
  BY <1>1, AtWork
<1>3. job.req.kind = "Play" /\ mail.scope # NoProvider
  BY <1>1, <1>2 DEF Fence, JobKinds, Doing
<1>4. CASE UNCHANGED app /\ Finish(Failed)
  BY <1>1, <1>2, <1>4, FailedAnswer, FinishedKeeps
<1>5. CASE /\ app' = [Loaded(app) EXCEPT !.leases = @ \cup {job.req.gen}]
           /\ job' = [job EXCEPT !.pc = "launching"]
  BY <1>1, <1>3, <1>5, LeaseTaken
<1> QED  BY <1>4, <1>5 DEF Resolved

LEMMA PlayLocalKeeps == ASSUME AppInv, PlayLocal PROVE AppInv'
<1>1. job.pc = "execute" /\ job.req.kind = "Local" /\ UNCHANGED <<mail, ui, ps, left>>
  BY DEF PlayLocal, Executing
<1>2. app \in Apps /\ left \in [user : Nat, faults : Nat]
  BY <1>1, AtWork
<1>3. CASE UNCHANGED app /\ Finish(Failed)
  BY <1>1, <1>2, <1>3, FailedAnswer, FinishedKeeps
<1>4. CASE /\ app' = [Loaded(app) EXCEPT !.leases = @ \cup {job.req.gen}]
           /\ job' = [job EXCEPT !.pc = "launching"]
  BY <1>1, <1>4, LeaseTaken
<1> QED  BY <1>3, <1>4 DEF PlayLocal

LEMMA LaunchKeeps == ASSUME AppInv, Launch PROVE AppInv'
<1>1. job.pc = "launching" /\ UNCHANGED <<mail, ui, ps, left>>
  BY DEF Launch
<1>2. /\ app \in Apps /\ left \in [user : Nat, faults : Nat] /\ Fence /\ Records
      /\ job \in Jobs /\ job.req.gen = mail.active /\ mail.active \in Nat /\ mail.active # 0
      /\ Books(mail, ui) /\ mail \in Mails /\ ui \in Uis
  BY <1>1, AtWork
<1>3. app.sessions \in SUBSET Sessions /\ app.leases \in SUBSET Nat
  BY <1>2, AppFields
<1>4. CASE app' = [app EXCEPT !.leases = @ \ {job.req.gen}] /\ Finish(Failed)
  <2> DEFINE leases == app.leases \ {job.req.gen}
  <2>1. leases \in SUBSET Nat /\ app' = [app EXCEPT !.leases = leases]
    BY <1>3, <1>4
  <2>2. \A s \in app.sessions : s.id \in app.leases => s.id \in leases
    BY <1>1, <1>2 DEF Records
  <2> HIDE DEF leases
  <2>3. /\ app' \in Apps /\ app'.prepared = app.prepared /\ app'.settings = app.settings
        /\ app'.sessions = app.sessions /\ app'.leases = leases
    BY <1>2, <2>1 DEF Apps
  <2> QED  BY <1>1, <1>2, <1>4, <2>2, <2>3, FailedAnswer, FinishedKeeps
<1>5. ASSUME NEW managed \in BOOLEAN,
             app' = [app EXCEPT !.sessions =
                       @ \cup {[id |-> job.req.gen, remote |-> job.req.kind = "Play",
                                managed |-> managed, epoch |-> job.epoch, reported |-> FALSE]}],
             Finish(Outcome(IF managed THEN "Embedded" ELSE "Started", NoProvider, job.req.gen))
      PROVE  AppInv'
  <2> DEFINE s == [id |-> job.req.gen, remote |-> job.req.kind = "Play",
                   managed |-> managed, epoch |-> job.epoch, reported |-> FALSE]
             sessions == app.sessions \cup {s}
             outcome == Outcome(IF managed THEN "Embedded" ELSE "Started", NoProvider, job.req.gen)
  <2>1. /\ s \in Sessions /\ s.id = mail.active /\ s.epoch = job.epoch
        /\ (s.remote => job.req.kind = "Play")
    BY <1>2 DEF Sessions, Jobs
  <2>2. app' = [app EXCEPT !.sessions = sessions]
    BY <1>5
  <2>3. outcome \in Answers
    <3>1. (IF managed THEN "Embedded" ELSE "Started") \in OutcomeKinds \ {"Invalidated"}
      BY DEF OutcomeKinds
    <3> QED  BY <1>2, <3>1, OutcomeType DEF Provs
  <2>4. Finish(outcome)
    BY <1>5
  <2> HIDE DEF s, outcome
  <2>5. sessions \in SUBSET Sessions
    BY <1>3, <2>1
  <2>6. /\ app' \in Apps /\ app'.prepared = app.prepared /\ app'.settings = app.settings
        /\ app'.sessions = app.sessions \cup {s} /\ app'.leases = app.leases
    <3> HIDE DEF sessions
    <3>1. /\ app' \in Apps /\ app'.prepared = app.prepared /\ app'.settings = app.settings
          /\ app'.sessions = sessions /\ app'.leases = app.leases
      BY <1>2, <2>2, <2>5 DEF Apps
    <3> QED  BY <3>1 DEF sessions
  <2>7. GoesTo("reconcile")
    BY <1>2, <2>3, <2>4, FinishesWith
  <2>8. /\ job'.pc = "reconcile" /\ job'.req = job.req /\ job'.epoch = job.epoch
        /\ job'.invalidated = job.invalidated /\ mail' = mail /\ job' \in Jobs /\ ui' = ui
    BY <1>1, <2>7 DEF GoesTo
  <2>9. s.id \in app.leases /\ s.id \in 1..ui.next /\ ~Has(mail.queue, s.id)
        /\ \A t \in app.sessions : t.id # s.id
    <3>1. s.id \in app.leases /\ \A t \in app.sessions : t.id # s.id
      BY <1>1, <1>2, <2>1 DEF Records
    <3>2. ~Has(mail.queue, s.id) /\ Asked(ui, s.id)
      BY <1>2, <2>1 DEF Books, Once
    <3>3. s.id \in 1..ui.next
      BY <1>2, <3>2 DEF Books, Numbered, Asked
    <3> QED  BY <3>1, <3>2, <3>3
  <2>10. Records'
    <3>1. app'.prepared.gen <= ui'.next
      BY <1>2, <2>6, <2>8 DEF Records
    <3> QED  BY <1>2, <2>6, <2>8, <2>9, <3>1 DEF Records
  <2>11. job.epoch = mail.epoch /\ (s.remote => s.epoch = mail.epoch /\ mail.scope # NoProvider)
    BY <1>1, <1>2, <2>1 DEF Fence, Doing
  <2>12. job.req.kind \in {"Play", "Local"} /\ JobKinds'
    <3>1. job.req.kind \in {"Play", "Local"}
      BY <1>1, <1>2 DEF Fence, JobKinds, Doing
    <3> QED  BY <1>1, <1>2, <2>8, <3>1 DEF Fence, JobKinds, Doing
  <2>13. InEffect'
    BY <1>1, <1>2, <2>6, <2>8, <2>11 DEF InEffect, Fence
  <2>14. mail.scope = NoProvider => NothingRemote'
    BY <1>2, <2>6, <2>11 DEF NothingRemote, Fence
  <2>15. SettingsFollow'
    BY <2>8, <2>12 DEF SettingsFollow, Doing
  <2>16. Fence'
    BY <2>8, <2>11, <2>12, <2>13, <2>14, <2>15 DEF Fence, Doing
  <2> QED  BY <1>1, <1>2, <2>6, <2>8, <2>10, <2>16, OperationKeeps
<1> QED  BY <1>4, <1>5 DEF Launch

-----------------------------------------------------------------------------
(* The account changes                                                       *)

\* A step of the worker in the mailbox that moves no command.
Stays(m, n) ==
    /\ n \in Mails /\ n.queue = m.queue /\ n.active = m.active /\ n.stopped = m.stopped
    /\ n.cancelled = m.cancelled /\ n.pipeline = m.pipeline /\ n.discarded = m.discarded
    /\ n.preparedGen = m.preparedGen /\ n.outstanding = m.outstanding

LEMMA EmitBooks ==
    ASSUME NEW m, NEW u, NEW ids \in SUBSET Nat, Books(m, u)
    PROVE  LET n == Emit(m, Invalidated(ids)) IN
           /\ Books(n, u) /\ Stays(m, n) /\ n.scope = m.scope /\ n.epoch = m.epoch
<1> DEFINE n == Emit(m, Invalidated(ids))
           e == Invalidated(ids)
           s == Append(m.events, e)
<1>1. m \in Mails /\ m.events \in Seq(Events)
  BY DEF Books, Mails
<1>2. e \in Events /\ e.gen = 0 /\ ~ConsumesBudget(e)
  BY DEF Invalidated, Events, OutcomeKinds, Provs, ConsumesBudget
<1>3. CASE m.stopped
  <2>1. n = m
    BY <1>3 DEF Emit
  <2> HIDE DEF n
  <2>2. Books(n, u) /\ Stays(m, n) /\ n.scope = m.scope /\ n.epoch = m.epoch
    BY <1>1, <2>1 DEF Stays
  <2> QED  BY <2>2 DEF n
<1>4. CASE ~m.stopped
  <2>1. n = [m EXCEPT !.events = s]
    BY <1>4 DEF Emit
  <2> HIDE DEF n, e
  <2>2. /\ s \in Seq(Events) /\ Distinct(s) /\ Charged(s) = Charged(m.events)
        /\ \A g \in Nat \ {0} : Has(s, g) <=> Has(m.events, g)
    <3>1. Distinct(m.events)
      BY DEF Books
    <3>2. /\ \A g : Has(s, g) <=> Has(m.events, g) \/ e.gen = g
          /\ Distinct(s)
      BY <1>1, <1>2, <3>1, HasAppend
    <3>3. Charged(m.events) \in Nat
      BY <1>1, ChargedType
    <3>4. Charged(s) = Charged(m.events) + 0
      BY <1>1, <1>2, ChargedAppend
    <3>5. s \in Seq(Events)
      BY <1>1, <1>2, AppendProperties
    <3> HIDE DEF s
    <3> QED  BY <1>2, <3>2, <3>3, <3>4, <3>5
  <2> HIDE DEF s
  <2>3. /\ n \in Mails /\ n.events = s /\ n.queue = m.queue /\ n.active = m.active
        /\ n.stopped = m.stopped /\ n.cancelled = m.cancelled /\ n.pipeline = m.pipeline
        /\ n.discarded = m.discarded /\ n.preparedGen = m.preparedGen
        /\ n.outstanding = m.outstanding /\ n.scope = m.scope /\ n.epoch = m.epoch
        /\ n.dead = m.dead
    BY <1>1, <2>1, <2>2 DEF Mails
  <2>4. \A g \in Nat \ {0} : Once(n, u, g)
    BY <2>2, <2>3 DEF Books, Once
  <2>5. Sound(n) /\ Bounds(n, u) /\ Budget(n)
    BY <2>2, <2>3 DEF Books, Sound, Bounds, Budget
  <2>6. Books(n, u)
    BY <2>2, <2>3, <2>4, <2>5 DEF Books
  <2> QED  BY <2>3, <2>6 DEF Stays, n
<1> QED  BY <1>3, <1>4

LEMMA RotatedBooks ==
    ASSUME NEW m, NEW u, NEW p \in Provs, Books(m, u)
    PROVE  LET n == Rotated(m, p) IN
           /\ Books(n, u) /\ Stays(m, n) /\ n.scope = p /\ n.epoch = m.epoch + 1
<1> DEFINE n == Rotated(m, p)
           k == m.epoch + 1
<1>1. m \in Mails /\ k \in Nat
  BY DEF Books, Mails
<1>2. n = [m EXCEPT !.epoch = k, !.scope = p, !.dead = FALSE]
  BY DEF Rotated
<1> HIDE DEF n, k
<1>3. /\ n \in Mails /\ n.events = m.events /\ n.queue = m.queue /\ n.active = m.active
      /\ n.stopped = m.stopped /\ n.cancelled = m.cancelled /\ n.pipeline = m.pipeline
      /\ n.discarded = m.discarded /\ n.preparedGen = m.preparedGen
      /\ n.outstanding = m.outstanding /\ n.scope = p /\ n.epoch = k /\ n.dead = FALSE
  BY <1>1, <1>2 DEF Mails
<1>4. \A g \in Nat \ {0} : Once(n, u, g)
  BY <1>3 DEF Books, Once
<1>5. Sound(n) /\ Bounds(n, u) /\ Budget(n)
  BY <1>3 DEF Books, Sound, Bounds, Budget
<1>6. Books(n, u)
  BY <1>3, <1>4, <1>5 DEF Books
<1> QED  BY <1>3, <1>6 DEF Stays, n, k

LEMMA StaysOn ==
    ASSUME NEW m, NEW n, NEW o, Stays(m, n), Stays(n, o)
    PROVE  Stays(m, o)
<1> QED  BY DEF Stays

LEMMA ClearedIs ==
    ASSUME NEW a \in Apps, a.sessions = app.sessions, a.leases = app.leases, app \in Apps
    PROVE  /\ Cleared(a) \in Apps /\ Cleared(a).prepared = NoPrep
           /\ Cleared(a).settings = a.settings
           /\ Cleared(a).sessions = {s \in app.sessions : ~s.remote}
           /\ Cleared(a).leases = app.leases \ RemoteIds
           /\ RemoteIds \in SUBSET Nat
<1>1. app.sessions \in SUBSET Sessions /\ app.leases \in SUBSET Nat
  BY DEF Apps
<1>2. RemoteIds \in SUBSET Nat
  BY <1>1 DEF RemoteIds, Sessions
<1> DEFINE kept == {s \in app.sessions : ~s.remote}
           leases == app.leases \ RemoteIds
<1>3. Cleared(a) = [a EXCEPT !.prepared = NoPrep, !.sessions = kept, !.leases = leases]
  BY DEF Cleared
<1>4. kept \in SUBSET Sessions /\ leases \in SUBSET Nat
  BY <1>1
<1> HIDE DEF kept, leases
<1>5. /\ Cleared(a) \in Apps /\ Cleared(a).prepared = NoPrep
      /\ Cleared(a).settings = a.settings
      /\ Cleared(a).sessions = kept /\ Cleared(a).leases = leases
  BY <1>3, <1>4, NoPrepType DEF Apps
<1> QED  BY <1>2, <1>5 DEF kept, leases

\* The books and the records of a step that moves no command and lets go.
LEMMA StaysRecords ==
    ASSUME Records, Stays(mail, mail'), ui' = ui,
           job.pc \notin {"reconcile", "publish"} \/ job'.pc \in {"reconcile", "publish"},
           job'.pc # "launching", ui \in Uis, app'.prepared \in {app.prepared, NoPrep},
           \/ app'.sessions = app.sessions /\ app'.leases = app.leases
           \/ /\ app'.sessions = {s \in app.sessions : ~s.remote}
              /\ app'.leases = app.leases \ RemoteIds
    PROVE  Records'
<1>1. \A s \in app'.sessions : s \in app.sessions /\ s.id \in app'.leases
  BY DEF Records, RemoteIds
<1>2. mail'.queue = mail.queue /\ mail'.active = mail.active
  BY DEF Stays
<1>3. app'.prepared.gen <= ui.next
  BY StillBounded
<1> QED  BY <1>1, <1>2, <1>3 DEF Records

LEMMA StaysWorking ==
    ASSUME Working, Stays(mail, mail'), job.pc # "idle", job'.pc # "idle", job'.req = job.req
    PROVE  Working'
<1> QED  BY DEF Working, Stays

LEMMA StaysKeeps ==
    ASSUME AppInv, job.pc # "idle", job'.pc # "idle", job'.req = job.req, job' \in Jobs,
           Stays(mail, mail'), Books(mail', ui), app' \in Apps, Records', Fence',
           UNCHANGED <<ui, ps, left>>
    PROVE  AppInv'
<1>1. Working'
  BY StaysWorking DEF AppInv
<1>2. mail' \in Mails /\ left' \in [user : Nat, faults : Nat]
  BY DEF Stays, AppInv, Shapes
<1>3. Worked
  BY <1>1, <1>2 DEF Worked
<1> QED  BY <1>3, WorkerKeeps

LEMMA InvalidateKeeps == ASSUME AppInv, Invalidate PROVE AppInv'
<1>1. /\ job.pc = "invalidate" /\ app' = Cleared(app)
      /\ mail' = Emit(mail, Invalidated(RemoteIds))
      /\ job' = [job EXCEPT !.pc = "execute"] /\ UNCHANGED <<ui, ps, left>>
  BY DEF Invalidate
<1>2. /\ app \in Apps /\ Fence /\ Records /\ job \in Jobs /\ Books(mail, ui) /\ ui \in Uis
  BY <1>1, AtWork
<1>3. /\ app' \in Apps /\ app'.prepared = NoPrep
      /\ app'.sessions = {s \in app.sessions : ~s.remote}
      /\ app'.leases = app.leases \ RemoteIds /\ RemoteIds \in SUBSET Nat
  BY <1>1, <1>2, ClearedIs
<1>4. /\ Books(mail', ui) /\ Stays(mail, mail')
      /\ mail'.scope = mail.scope /\ mail'.epoch = mail.epoch
  BY <1>1, <1>2, <1>3, EmitBooks
<1>5. GoesTo("execute")
  BY <1>1, <1>2, StepsTo DEF Steps
<1>6. /\ job'.pc = "execute" /\ job'.req = job.req /\ job'.epoch = job.epoch
      /\ job'.invalidated = job.invalidated /\ job' \in Jobs
  BY <1>5 DEF GoesTo
<1>7. Records'
  BY <1>1, <1>2, <1>3, <1>4, <1>6, StaysRecords
<1>8. NothingRemote'
  BY <1>3 DEF NothingRemote
<1>9. job.invalidated /\ job.req.kind \in {"Save", "Cred"} /\ job.epoch = mail.epoch
  BY <1>1, <1>2 DEF Fence, JobKinds, Doing
<1>10. JobKinds'
  BY <1>6, <1>9 DEF JobKinds, Doing
<1>11. InEffect'
  BY <1>8 DEF InEffect, NothingRemote
<1>12. SettingsFollow'
  BY <1>6, <1>9 DEF SettingsFollow, Doing
<1>13. Fence'
  BY <1>4, <1>6, <1>8, <1>9, <1>10, <1>11, <1>12 DEF Fence, Doing
<1> QED  BY <1>1, <1>3, <1>4, <1>6, <1>7, <1>13, StaysKeeps

LEMMA ReconcileIs ==
    ASSUME NEW m, NEW u, NEW s \in Provs, Books(m, u)
    PROVE  LET n == Reconcile(m, s) IN
           /\ Books(n, u) /\ Stays(m, n)
           /\ s \in {NoProvider, m.scope} => n.scope = m.scope /\ n.epoch = m.epoch
           /\ s \notin {NoProvider, m.scope} => n.scope = s
<1> DEFINE n == Reconcile(m, s)
<1>1. CASE s \in {NoProvider, m.scope}
  <2>1. n = m /\ m \in Mails
    BY <1>1 DEF Reconcile, Books
  <2> QED  BY <1>1, <2>1 DEF Stays
<1>2. CASE s \notin {NoProvider, m.scope}
  <2>1. n = Rotated(m, s)
    BY <1>2 DEF Reconcile
  <2> HIDE DEF n
  <2>2. Books(n, u) /\ Stays(m, n) /\ n.scope = s
    BY <2>1, RotatedBooks
  <2> QED  BY <1>2, <2>2 DEF n
<1> QED  BY <1>1, <1>2

\* The account flag follows the settings, and what another account left goes.
LEMMA FollowAccount ==
    ASSUME AppInv, job.pc # "idle", NEW s \in Provs, NEW told \in BOOLEAN,
           mail' = IF told THEN Emit(Reconcile(mail, s), Invalidated(RemoteIds))
                   ELSE Reconcile(mail, s)
    PROVE  /\ Books(mail', ui) /\ Stays(mail, mail')
           /\ s \in {NoProvider, mail.scope} => mail'.scope = mail.scope /\ mail'.epoch = mail.epoch
           /\ s \notin {NoProvider, mail.scope} => mail'.scope = s
<1>1. Books(mail, ui) /\ app \in Apps
  BY AtWork
<1> DEFINE n == Reconcile(mail, s)
<1>2. /\ Books(n, ui) /\ Stays(mail, n)
      /\ s \in {NoProvider, mail.scope} => n.scope = mail.scope /\ n.epoch = mail.epoch
      /\ s \notin {NoProvider, mail.scope} => n.scope = s
  BY <1>1, ReconcileIs
<1> HIDE DEF n
<1>3. CASE ~told
  BY <1>2, <1>3 DEF n
<1>4. CASE told
  <2>1. mail' = Emit(n, Invalidated(RemoteIds))
    BY <1>4 DEF n
  <2>2. RemoteIds \in SUBSET Nat
    BY <1>1, ClearedIs
  <2>3. Books(mail', ui) /\ Stays(n, mail') /\ mail'.scope = n.scope /\ mail'.epoch = n.epoch
    BY <1>2, <2>1, <2>2, EmitBooks
  <2> QED  BY <1>2, <2>3, StaysOn
<1> QED  BY <1>3, <1>4

LEMMA PreflightKeeps == ASSUME AppInv, Preflight PROVE AppInv'
<1>1. job.pc = "preflight" /\ UNCHANGED <<ui, ps, left>>
  BY DEF Preflight
<1>2. /\ app \in Apps /\ Fence /\ Records /\ job \in Jobs /\ Books(mail, ui) /\ ui \in Uis
      /\ left \in [user : Nat, faults : Nat] /\ mail \in Mails
  BY <1>1, AtWork
<1>3. job.req.kind = "Prepare" /\ ~job.invalidated /\ job.epoch = mail.epoch
  BY <1>1, <1>2 DEF Fence, JobKinds, Doing
<1>4. app.settings \in {NoProvider, mail.scope}
  BY <1>1, <1>2 DEF Fence, SettingsFollow
<1>5. CASE /\ app.settings # NoProvider \/ Canceled
           /\ job' = [job EXCEPT !.pc = "execute"] /\ UNCHANGED <<mail, app>>
  <2>1. "execute" \in Steps
    BY DEF Steps
  <2>2. GoesTo("execute")
    BY <1>2, <1>5, <2>1, StepsTo
  <2>3. Records'
    BY <1>1, <1>2, <1>5, <2>1, <2>2, GoesOnRecords
  <2>4. /\ job'.pc = "execute" /\ job'.req = job.req /\ job'.epoch = job.epoch
        /\ job'.invalidated = job.invalidated /\ mail' = mail /\ app' = app /\ job' \in Jobs
    BY <1>5, <2>2 DEF GoesTo
  <2>5. JobKinds'
    BY <1>3, <2>4 DEF JobKinds, Doing
  <2>6. InEffect' /\ (NothingRemote => NothingRemote')
    BY <1>1, <1>2, <2>4 DEF Fence, InEffect, NothingRemote
  <2>7. SettingsFollow'
    BY <1>3, <1>4, <1>5, <2>4 DEF SettingsFollow, Doing, Canceled
  <2>8. Fence'
    BY <1>2, <1>3, <2>4, <2>5, <2>6, <2>7 DEF Fence, Doing
  <2> QED  BY <1>1, <1>2, <1>5, <2>3, <2>4, <2>8, OperationKeeps
<1>6. CASE Finish(Failed) /\ UNCHANGED <<mail, app>>
  BY <1>1, <1>2, <1>6, FailedAnswer, FinishedKeeps
<1>7. ASSUME NEW changed \in BOOLEAN, changed = Changed(mail, app.disk),
             app.settings = NoProvider, ~Canceled,
             app' = IF changed THEN Cleared(Loaded(app)) ELSE Loaded(app),
             mail' = IF changed THEN Emit(Reconcile(mail, app.disk), Invalidated(RemoteIds))
                     ELSE Reconcile(mail, app.disk),
             job' = [job EXCEPT !.pc = "execute", !.epoch = mail'.epoch, !.invalidated = changed]
      PROVE  AppInv'
  <2>1. app.disk \in Provs /\ app.disk # NoProvider
    BY <1>2, AppFields, ProviderAssumption
  <2>2. /\ Books(mail', ui) /\ Stays(mail, mail')
        /\ app.disk \in {NoProvider, mail.scope} =>
             mail'.scope = mail.scope /\ mail'.epoch = mail.epoch
        /\ app.disk \notin {NoProvider, mail.scope} => mail'.scope = app.disk
    BY <1>1, <1>7, <2>1, FollowAccount
  <2>3. mail'.scope = app.disk
    BY <2>1, <2>2
  <2>4. mail'.epoch \in Nat
    BY <2>2 DEF Books, Mails
  <2>5. /\ job' \in Jobs /\ job'.pc = "execute" /\ job'.req = job.req
        /\ job'.epoch = mail'.epoch /\ job'.invalidated = changed
    BY <1>2, <1>7, <2>4 DEF Jobs, Steps
  <2>6. /\ app' \in Apps /\ app'.settings = app.disk
        /\ app'.prepared \in {app.prepared, NoPrep}
        /\ \/ /\ ~changed /\ app'.prepared = app.prepared
              /\ app'.sessions = app.sessions /\ app'.leases = app.leases
           \/ /\ app'.prepared = NoPrep /\ app'.sessions = {s \in app.sessions : ~s.remote}
              /\ app'.leases = app.leases \ RemoteIds
    <3>1. /\ Loaded(app) \in Apps /\ Loaded(app).prepared = app.prepared
          /\ Loaded(app).sessions = app.sessions /\ Loaded(app).leases = app.leases
          /\ Loaded(app).settings = app.disk
      BY <1>2, <1>7, AppFields
    <3>2. /\ Cleared(Loaded(app)) \in Apps /\ Cleared(Loaded(app)).prepared = NoPrep
          /\ Cleared(Loaded(app)).settings = app.disk
          /\ Cleared(Loaded(app)).sessions = {s \in app.sessions : ~s.remote}
          /\ Cleared(Loaded(app)).leases = app.leases \ RemoteIds
      BY <1>2, <3>1, ClearedIs
    <3>3. CASE changed
      BY <1>7, <3>2, <3>3
    <3>4. CASE ~changed
      BY <1>7, <3>1, <3>4
    <3> QED  BY <3>3, <3>4
  <2>7. Records'
    BY <1>1, <1>2, <2>2, <2>5, <2>6, StaysRecords
  <2>8. JobKinds'
    BY <1>3, <2>5 DEF JobKinds, Doing
  <2>9. InEffect'
    <3>1. CASE app'.prepared = NoPrep /\ app'.sessions = {s \in app.sessions : ~s.remote}
      BY <3>1 DEF InEffect
    <3>2. CASE ~changed /\ app'.prepared = app.prepared /\ app'.sessions = app.sessions
      <4>1. CASE app.disk = mail.scope
        BY <1>1, <1>2, <2>2, <3>2, <4>1 DEF Fence, InEffect
      <4>2. CASE app.disk # mail.scope
        <5>1. mail.scope = NoProvider
          BY <1>7, <2>1, <3>2, <4>2 DEF Changed
        <5>2. NothingRemote
          BY <1>2, <5>1 DEF Fence
        <5> QED  BY <3>2, <5>2 DEF NothingRemote, InEffect
      <4> QED  BY <4>1, <4>2
    <3> QED  BY <2>6, <3>1, <3>2
  <2>10. SettingsFollow'
    BY <1>3, <2>1, <2>3, <2>5, <2>6 DEF SettingsFollow, Doing
  <2>11. Fence'
    BY <1>3, <2>1, <2>3, <2>5, <2>8, <2>9, <2>10 DEF Fence, Doing
  <2> QED  BY <1>1, <2>2, <2>5, <2>6, <2>7, <2>11, StaysKeeps
<1>8. \/ /\ app.settings # NoProvider \/ Canceled
         /\ job' = [job EXCEPT !.pc = "execute"] /\ UNCHANGED <<mail, app>>
      \/ Finish(Failed) /\ UNCHANGED <<mail, app>>
      \/ /\ app.settings = NoProvider /\ ~Canceled
         /\ LET changed == Changed(mail, app.disk)
                fresh == Reconcile(mail, app.disk)
            IN  /\ app' = IF changed THEN Cleared(Loaded(app)) ELSE Loaded(app)
                /\ mail' = IF changed THEN Emit(fresh, Invalidated(RemoteIds)) ELSE fresh
                /\ job' = [job EXCEPT !.pc = "execute", !.epoch = mail'.epoch,
                                      !.invalidated = changed]
  BY DEF Preflight
<1>9. Changed(mail, app.disk) \in BOOLEAN
  BY DEF Changed
<1> QED  BY <1>5, <1>6, <1>7, <1>8, <1>9

LEMMA SettleKeeps == ASSUME AppInv, Settle PROVE AppInv'
<1> DEFINE release == Changed(mail, app.settings) /\ ~job.invalidated
           fresh == Reconcile(mail, app.settings)
           superseded == job.outcome.kind \in {"Prepared", "Unmatched"} /\ Canceled
           kept == IF release THEN Cleared(app) ELSE app
<1>1. /\ job.pc = "reconcile" /\ UNCHANGED <<ui, ps, left>>
      /\ app' = IF superseded THEN [kept EXCEPT !.prepared = NoPrep] ELSE kept
      /\ mail' = IF release THEN Emit(fresh, Invalidated(RemoteIds)) ELSE fresh
      /\ job' = [job EXCEPT !.pc = "publish", !.outcome = IF superseded THEN Failed ELSE @]
  BY DEF Settle
<1>2. /\ app \in Apps /\ Fence /\ Records /\ job \in Jobs /\ Books(mail, ui) /\ ui \in Uis
  BY <1>1, AtWork
<1>3. app.settings \in Provs /\ release \in BOOLEAN
  BY <1>2, AppFields DEF Changed
<1>4. /\ Books(mail', ui) /\ Stays(mail, mail')
      /\ app.settings \in {NoProvider, mail.scope} =>
           mail'.scope = mail.scope /\ mail'.epoch = mail.epoch
      /\ app.settings \notin {NoProvider, mail.scope} => mail'.scope = app.settings
  BY <1>1, <1>3, FollowAccount
<1>5. /\ job' \in Jobs /\ job'.pc = "publish" /\ job'.req = job.req
      /\ job'.invalidated = job.invalidated
  <2> DEFINE o == IF superseded THEN Failed ELSE job.outcome
  <2>1. o \in Answers
    BY <1>2, FailedAnswer DEF Jobs
  <2>2. job' = [job EXCEPT !.pc = "publish", !.outcome = o]
    BY <1>1
  <2> HIDE DEF o
  <2> QED  BY <1>2, <2>1, <2>2 DEF Jobs, Steps
<1>6. /\ Cleared(app) \in Apps /\ Cleared(app).prepared = NoPrep
      /\ Cleared(app).settings = app.settings
      /\ Cleared(app).sessions = {s \in app.sessions : ~s.remote}
      /\ Cleared(app).leases = app.leases \ RemoteIds
  BY <1>2, ClearedIs
<1> HIDE DEF superseded, release, fresh
<1>7. /\ kept \in Apps /\ kept.settings = app.settings
      /\ ~release => kept = app
      /\ release => /\ kept.prepared = NoPrep
                    /\ kept.sessions = {s \in app.sessions : ~s.remote}
                    /\ kept.leases = app.leases \ RemoteIds
  BY <1>2, <1>6
<1> HIDE DEF kept
<1>8. /\ app' \in Apps /\ app'.settings = app.settings
      /\ app'.sessions = kept.sessions /\ app'.leases = kept.leases
      /\ app'.prepared \in {kept.prepared, NoPrep}
  BY <1>1, <1>7, NoPrepType DEF Apps
<1>9. app'.prepared \in {app.prepared, NoPrep}
  BY <1>7, <1>8
<1>10. Records'
  BY <1>1, <1>2, <1>4, <1>5, <1>7, <1>8, <1>9, StaysRecords
<1>11. NothingRemote => NothingRemote'
  BY <1>7, <1>8, <1>9 DEF NothingRemote
<1>12. app.settings \notin {NoProvider, mail.scope} => NothingRemote'
  <2> SUFFICES ASSUME app.settings \notin {NoProvider, mail.scope} PROVE NothingRemote'
    OBVIOUS
  <2>1. CASE release
    BY <1>7, <1>8, <1>9, <2>1 DEF NothingRemote
  <2>2. CASE mail.scope = NoProvider
    BY <1>2, <1>11, <2>2 DEF Fence
  <2>3. CASE job.invalidated
    <3>1. job.req.kind \in {"Save", "Cred", "Prepare"}
      BY <1>1, <1>2, <2>3 DEF Fence, JobKinds, Doing
    <3>2. job.req.kind # "Prepare"
      BY <1>1, <1>2, <2>3 DEF Fence, SettingsFollow, Doing
    <3>3. NothingRemote
      BY <1>1, <1>2, <2>3, <3>1, <3>2 DEF Fence, Doing
    <3> QED  BY <1>11, <3>3
  <2> QED  BY <2>1, <2>2, <2>3 DEF release, Changed
<1>13. InEffect'
  <2>1. CASE app.settings \notin {NoProvider, mail.scope}
    BY <1>12, <2>1 DEF NothingRemote, InEffect
  <2>2. CASE app.settings \in {NoProvider, mail.scope}
    BY <1>1, <1>2, <1>4, <1>7, <1>8, <1>9, <2>2 DEF Fence, InEffect
  <2> QED  BY <2>1, <2>2
<1>14. JobKinds'
  BY <1>1, <1>2, <1>5 DEF Fence, JobKinds, Doing
<1>15. SettingsFollow'
  BY <1>4, <1>5, <1>8 DEF SettingsFollow, Doing
<1>16. mail'.scope = NoProvider => NothingRemote'
  BY <1>2, <1>4, <1>11, <1>12 DEF Fence
<1>17. job.invalidated /\ Doing({"Save", "Cred"}) => NothingRemote'
  BY <1>1, <1>2, <1>11 DEF Fence
<1>18. Fence'
  BY <1>5, <1>13, <1>14, <1>15, <1>16, <1>17 DEF Fence, Doing
<1> QED  BY <1>1, <1>4, <1>5, <1>8, <1>10, <1>18, StaysKeeps

-----------------------------------------------------------------------------
(* A command is taken, and answered                                          *)

\* The first command leaves the queue for the worker.
LEMMA TakenBooks ==
    ASSUME NEW m, NEW u, NEW n \in Mails, NEW k \in 0..u.next, Books(m, u),
           m.active = 0, m.queue # <<>>, ~m.stopped,
           n.queue = Tail(m.queue), n.active = Head(m.queue).gen, n.events = m.events,
           n.outstanding = m.outstanding, n.stopped = m.stopped, n.cancelled = m.cancelled,
           n.pipeline = m.pipeline, n.discarded = {}, n.preparedGen = k,
           n.dead => m.dead /\ n.scope = m.scope /\ ~Invalidates(Head(m.queue), m.scope)
    PROVE  Books(n, u)
<1> DEFINE q == m.queue
           t == Tail(q)
           r == Head(q)
<1>1. q \in Seq(Requests) /\ q # <<>> /\ u.next \in Nat /\ m \in Mails
  BY DEF Books, Mails, Uis
<1>2. t \in Seq(Requests) /\ r \in Requests /\ Len(t) = Len(q) - 1 /\ Len(q) \in Nat
  BY <1>1, HeadTailProperties, LenProperties
<1>3. /\ \A g : Has(q, g) <=> r.gen = g \/ Has(t, g)
      /\ Distinct(t) /\ (r.gen # 0 => ~Has(t, r.gen))
  BY <1>1, HasTail DEF Books
<1>4. /\ \A i \in DOMAIN t : i + 1 \in DOMAIN q /\ t[i] = q[i + 1]
      /\ r = q[1] /\ 1 \in DOMAIN q
      /\ \A j \in DOMAIN q : j = 1 \/ (j - 1 \in DOMAIN t /\ t[j - 1] = q[j])
  <2>1. /\ \A i \in DOMAIN t : i + 1 \in DOMAIN q /\ t[i] = q[i + 1]
        /\ r = q[1] /\ 1 \in DOMAIN q
    BY <1>1, TailIndices
  <2>2. DOMAIN q = 1..Len(q) /\ DOMAIN t = 1..Len(t)
    BY <1>1, <1>2, LenProperties
  <2> HIDE DEF q, t, r
  <2>3. ASSUME NEW j \in DOMAIN q, j # 1 PROVE j - 1 \in DOMAIN t /\ t[j - 1] = q[j]
    <3>1. j - 1 \in DOMAIN t /\ (j - 1) + 1 = j
      BY <1>2, <2>2, <2>3
    <3> QED  BY <2>1, <3>1
  <2> QED  BY <2>1, <2>3
<1>5. n.queue = t /\ n.active = r.gen
  OBVIOUS
<1>6. q = m.queue
  OBVIOUS
<1> HIDE DEF t, r, q
<1>7. Fit(r) /\ r.gen # 0 /\ r.gen \in Nat
  BY <1>2, <1>4, <1>6 DEF Books, Sound, Requests
<1>8. Sound(n)
  <2>1. \A i \in DOMAIN n.queue : Fit(n.queue[i]) /\ n.queue[i].gen # 0
    <3>1. \A j \in DOMAIN q : Fit(q[j]) /\ q[j].gen # 0
      BY <1>6 DEF Books, Sound
    <3>2. \A i \in DOMAIN t : Fit(t[i]) /\ t[i].gen # 0
      BY <1>4, <3>1
    <3> QED  BY <1>5, <3>2
  <2>2. ASSUME n.dead PROVE \E i \in DOMAIN n.queue : Invalidates(n.queue[i], n.scope)
    <3>1. PICK j \in DOMAIN q : Invalidates(q[j], m.scope)
      BY <1>6, <2>2 DEF Books, Sound
    <3>2. j # 1
      BY <1>4, <1>6, <2>2, <3>1 DEF r
    <3> QED  BY <1>4, <1>5, <2>2, <3>1, <3>2
  <2> QED  BY <2>1, <2>2 DEF Sound
<1>9. Budget(n)
  <2>1. m.outstanding = Len(q) + Charged(m.events) + 0 /\ m.outstanding <= Capacity
    BY <1>6 DEF Books, Budget
  <2>2. Charged(m.events) \in Nat
    BY <1>1, ChargedType DEF Mails
  <2>3. m.outstanding = Len(t) + Charged(m.events) + 1
    BY <1>2, <2>1, <2>2
  <2> QED  BY <1>5, <1>7, <2>1, <2>3 DEF Budget
<1>10. Has(q, r.gen)
  BY <1>3
<1>11. \A g \in Nat \ {0} : Once(n, u, g)
  BY <1>3, <1>5, <1>6, <1>7 DEF Books, Once
<1>12. Bounds(n, u)
  <2>1. Asked(u, r.gen)
    BY <1>6, <1>7, <1>10 DEF Books, Once
  <2>2. r.gen \in 0..u.next
    BY <1>1, <1>7, <2>1 DEF Books, Numbered, Asked
  <2>3. Bounds(m, u)
    BY DEF Books
  <2> QED  BY <1>5, <2>2, <2>3 DEF Bounds
<1>13. Distinct(n.queue) /\ Distinct(n.events)
  BY <1>3, <1>5 DEF Books
<1> QED  BY <1>8, <1>9, <1>11, <1>12, <1>13 DEF Books

\* The answer takes the place of the command the worker had.
LEMMA AnsweredBooks ==
    ASSUME NEW m, NEW u, NEW n \in Mails, NEW e \in Events, Books(m, u), m.active # 0,
           e.gen = m.active, ConsumesBudget(e), n.queue = m.queue, n.active = 0,
           n.events = Append(m.events, e), n.outstanding = m.outstanding,
           n.stopped = m.stopped, n.cancelled \subseteq m.cancelled,
           n.pipeline \subseteq m.pipeline, n.discarded = m.discarded,
           n.preparedGen \in 0..u.next, n.dead = m.dead, n.scope = m.scope
    PROVE  Books(n, u)
<1>1. m \in Mails /\ m.events \in Seq(Events) /\ m.active \in Nat /\ u.next \in Nat
  BY DEF Books, Mails, Uis
<1>2. Once(m, u, m.active) /\ Distinct(m.events)
  BY <1>1 DEF Books
<1>3. /\ \A g : Has(n.events, g) <=> Has(m.events, g) \/ e.gen = g
      /\ Distinct(n.events)
  <2>1. ~Has(m.events, m.active)
    BY <1>2 DEF Once
  <2> QED  BY <1>1, <1>2, <2>1, HasAppend
<1>4. ASSUME NEW g \in Nat \ {0} PROVE Once(n, u, g)
  <2>1. Once(m, u, g)
    BY DEF Books
  <2> QED  BY <1>3, <2>1 DEF Once
<1>5. Budget(n)
  <2>1. m.outstanding = Len(m.queue) + Charged(m.events) + 1 /\ m.outstanding <= Capacity
    BY DEF Books, Budget
  <2>2. Charged(n.events) = Charged(m.events) + 1
    BY <1>1, ChargedAppend
  <2>3. Charged(m.events) \in Nat /\ Len(m.queue) \in Nat
    BY <1>1, ChargedType, LenProperties DEF Mails
  <2>4. m.outstanding = Len(m.queue) + Charged(n.events) + 0
    BY <2>1, <2>2, <2>3
  <2> QED  BY <2>1, <2>4 DEF Budget
<1>6. Sound(n) /\ Bounds(n, u)
  <2>1. Sound(m) /\ Bounds(m, u)
    BY DEF Books
  <2>2. 0 \in 0..u.next
    BY <1>1
  <2> QED  BY <2>1, <2>2 DEF Sound, Bounds
<1>7. Distinct(n.queue)
  BY DEF Books
<1> QED  BY <1>3, <1>4, <1>5, <1>6, <1>7 DEF Books

LEMMA PublishKeeps == ASSUME AppInv, Publish PROVE AppInv'
<1>1. /\ job.pc = "publish" /\ job' = NoJob /\ UNCHANGED <<app, ui, ps, left>>
      /\ mail' = [mail EXCEPT !.active = 0, !.preparedGen = app.prepared.gen,
                              !.pipeline = @ \ {job.req.gen},
                              !.cancelled = @ \ {job.req.gen},
                              !.events = Append(@, Event(job.req.gen, job.outcome))]
  BY DEF Publish
<1>2. /\ app \in Apps /\ Fence /\ Records /\ job \in Jobs /\ Books(mail, ui) /\ ui \in Uis
      /\ mail \in Mails /\ mail.active # 0 /\ mail.active \in Nat /\ job.req.gen = mail.active
      /\ ~mail.stopped /\ left \in [user : Nat, faults : Nat]
  BY <1>1, AtWork
<1> DEFINE k == app.prepared.gen
           pipeline == mail.pipeline \ {job.req.gen}
           cancelled == mail.cancelled \ {job.req.gen}
           e == Event(job.req.gen, job.outcome)
           events == Append(mail.events, e)
<1>3. e \in Events /\ e.gen = mail.active /\ ConsumesBudget(e)
  <2>1. job.outcome \in Answers
    BY <1>2 DEF Jobs
  <2>2. job.outcome \in Outcomes /\ job.outcome.kind # "Invalidated"
    BY <2>1 DEF Answers, Outcomes
  <2> QED  BY <1>2, <2>2, EventType DEF ConsumesBudget
<1>4. mail' = [mail EXCEPT !.active = 0, !.preparedGen = k, !.pipeline = pipeline,
                           !.cancelled = cancelled, !.events = events]
  BY <1>1
<1> HIDE DEF e
<1>5. /\ k \in Nat /\ k <= ui.next /\ ui.next \in Nat /\ pipeline \subseteq mail.pipeline
      /\ cancelled \subseteq mail.cancelled
      /\ pipeline \in SUBSET Nat /\ cancelled \in SUBSET Nat
  <2>1. k \in Nat /\ ui.next \in Nat /\ mail.pipeline \in SUBSET Nat /\ mail.cancelled \in SUBSET Nat
    BY <1>2 DEF Apps, Preps, Uis, Mails
  <2> QED  BY <1>2, <2>1 DEF Records
<1>6. events \in Seq(Events)
  BY <1>2, <1>3, AppendProperties DEF Mails
<1> HIDE DEF k, pipeline, cancelled, events
<1>7. /\ mail' \in Mails /\ mail'.active = 0 /\ mail'.preparedGen = k
      /\ mail'.pipeline = pipeline /\ mail'.cancelled = cancelled /\ mail'.events = events
      /\ mail'.queue = mail.queue /\ mail'.outstanding = mail.outstanding
      /\ mail'.stopped = mail.stopped /\ mail'.discarded = mail.discarded
      /\ mail'.dead = mail.dead /\ mail'.scope = mail.scope /\ mail'.epoch = mail.epoch
  BY <1>2, <1>4, <1>5, <1>6 DEF Mails
<1>8. Books(mail', ui)
  <2>1. k \in 0..ui.next
    BY <1>5
  <2>2. mail'.events = Append(mail.events, e)
    BY <1>7 DEF events
  <2> QED  BY <1>2, <1>3, <1>5, <1>7, <2>1, <2>2, AnsweredBooks
<1>9. job' \in Jobs /\ job'.pc = "idle" /\ ~job'.invalidated
  BY <1>1, FailedAnswer DEF NoJob, Jobs, Steps
<1>10. Working'
  BY <1>7, <1>9 DEF Working
<1>11. Records'
  BY <1>1, <1>2, <1>7, <1>9 DEF Records
<1>12. Fence'
  <2>1. JobKinds'
    BY <1>9 DEF JobKinds
  <2>2. InEffect' /\ (NothingRemote => NothingRemote')
    BY <1>1, <1>2, <1>7 DEF Fence, InEffect, NothingRemote
  <2>3. SettingsFollow'
    BY <1>1, <1>2, <1>7, <1>9 DEF Fence, SettingsFollow
  <2> QED  BY <1>2, <1>7, <1>9, <2>1, <2>2, <2>3 DEF Fence
<1> QED  BY <1>1, <1>2, <1>7, <1>8, <1>9, <1>10, <1>11, <1>12, WorkerKeeps DEF Worked

LEMMA AtRest ==
    ASSUME AppInv, job.pc = "idle"
    PROVE  /\ mail.active = 0 /\ Books(mail, ui) /\ Records /\ (~mail.stopped => Fence)
           /\ mail \in Mails /\ app \in Apps /\ job \in Jobs /\ ui \in Uis /\ ui.next \in Nat
           /\ left \in [user : Nat, faults : Nat]
<1> QED  BY DEF AppInv, Shapes, Working, Uis

\* What the discarded preparations leave.
LEMMA RetainedIs ==
    ASSUME app \in Apps, ui \in Uis, Records
    PROVE  /\ Retained \in Preps /\ Retained \in {app.prepared, NoPrep}
           /\ Retained.gen \in 0..ui.next
<1>1. app.prepared \in Preps /\ ui.next \in Nat /\ app.prepared.gen <= ui.next
  BY DEF Apps, Uis, Records
<1> QED  BY <1>1, NoPrepType DEF Retained, Preps

\* Only the discarded preparations are dropped.
LEMMA DrainedKeeps ==
    ASSUME AppInv, job.pc = "idle", ~mail.stopped,
           app' = [app EXCEPT !.prepared = Retained],
           mail' = [mail EXCEPT !.discarded = {}, !.preparedGen = Retained.gen],
           UNCHANGED <<job, ui, ps, left>>
    PROVE  AppInv'
<1>1. /\ mail.active = 0 /\ Books(mail, ui) /\ Records /\ Fence
      /\ mail \in Mails /\ app \in Apps /\ job \in Jobs /\ ui \in Uis /\ ui.next \in Nat
      /\ left \in [user : Nat, faults : Nat]
  BY AtRest
<1> DEFINE p == Retained
           k == p.gen
<1>2. p \in Preps /\ p \in {app.prepared, NoPrep} /\ k \in 0..ui.next
  BY <1>1, RetainedIs
<1>3. app' = [app EXCEPT !.prepared = p] /\ mail' = [mail EXCEPT !.discarded = {}, !.preparedGen = k]
  OBVIOUS
<1> HIDE DEF p, k
<1>4. /\ app' \in Apps /\ app'.prepared = p /\ app'.sessions = app.sessions
      /\ app'.leases = app.leases /\ app'.settings = app.settings
  BY <1>1, <1>2, <1>3 DEF Apps
<1>5. k \in Nat
  BY <1>1, <1>2
<1>6. /\ mail' \in Mails /\ mail'.discarded = {} /\ mail'.preparedGen = k
      /\ mail'.active = mail.active /\ mail'.pipeline = mail.pipeline
      /\ mail'.cancelled = mail.cancelled /\ mail'.events = mail.events
      /\ mail'.queue = mail.queue /\ mail'.outstanding = mail.outstanding
      /\ mail'.stopped = mail.stopped /\ mail'.dead = mail.dead
      /\ mail'.scope = mail.scope /\ mail'.epoch = mail.epoch
  BY <1>1, <1>3, <1>5 DEF Mails
<1>7. Books(mail', ui)
  <2>1. \A g \in Nat \ {0} : Once(mail', ui, g)
    BY <1>1, <1>6 DEF Books, Once
  <2>2. Sound(mail') /\ Budget(mail')
    BY <1>1, <1>6 DEF Books, Sound, Budget
  <2>3. Bounds(mail', ui)
    BY <1>1, <1>2, <1>6 DEF Books, Bounds
  <2> QED  BY <1>1, <1>6, <2>1, <2>2, <2>3 DEF Books
<1>8. Working'
  BY <1>6 DEF Working, AppInv
<1>9. Records'
  <2>1. app'.prepared.gen <= ui.next
    BY <1>1, <1>2, <1>4 DEF k
  <2> QED  BY <1>1, <1>4, <1>6, <2>1 DEF Records
<1>10. Fence'
  <2>1. JobKinds'
    BY <1>1 DEF Fence, JobKinds, Doing
  <2>2. InEffect' /\ (NothingRemote => NothingRemote')
    BY <1>1, <1>2, <1>4, <1>6 DEF Fence, InEffect, NothingRemote
  <2>3. SettingsFollow'
    BY <1>1, <1>4, <1>6 DEF Fence, SettingsFollow
  <2> QED  BY <1>1, <1>6, <2>1, <2>2, <2>3 DEF Fence
<1> QED  BY <1>1, <1>4, <1>6, <1>7, <1>8, <1>9, <1>10, WorkerKeeps DEF Worked

\* A command is taken, and for an account action the account flag rotated.
LEMMA CommandTaken ==
    ASSUME AppInv, job.pc = "idle", ~mail.stopped, mail.queue # <<>>,
           NEW invalidate \in BOOLEAN, invalidate = Invalidates(Head(mail.queue), mail.scope),
           Begins(invalidate),
           UNCHANGED <<ui, ps, left>>
    PROVE  AppInv'
<1>1. /\ mail.active = 0 /\ Books(mail, ui) /\ Records /\ Fence
      /\ mail \in Mails /\ app \in Apps /\ job \in Jobs /\ ui \in Uis /\ ui.next \in Nat
      /\ left \in [user : Nat, faults : Nat]
  BY AtRest
<1> DEFINE p == Retained
           k == p.gen
           r == Head(mail.queue)
           t == Tail(mail.queue)
           provider == IF r.kind = "Save" THEN r.prov ELSE mail.scope
           taken == [mail EXCEPT !.discarded = {}, !.preparedGen = k, !.queue = t, !.active = r.gen]
           pc == IF invalidate THEN "invalidate"
                 ELSE IF r.kind = "Prepare" THEN "preflight" ELSE "execute"
<1>2. p \in Preps /\ p \in {app.prepared, NoPrep} /\ k \in 0..ui.next
  BY <1>1, RetainedIs
<1>3. /\ t \in Seq(Requests) /\ r \in Requests
      /\ \A g : Has(mail.queue, g) <=> r.gen = g \/ Has(t, g)
      /\ Fit(r) /\ r.gen # 0
  <2>1. mail.queue \in Seq(Requests)
    BY <1>1 DEF Mails
  <2>2. r = mail.queue[1] /\ 1 \in DOMAIN mail.queue
    BY <2>1, TailIndices
  <2>3. Fit(r) /\ r.gen # 0
    BY <1>1, <2>2 DEF Books, Sound
  <2> QED  BY <2>1, <2>3, HasTail, HeadTailProperties
<1>4. /\ app' = [app EXCEPT !.prepared = p]
      /\ mail' = IF invalidate THEN Rotated(taken, provider) ELSE taken
      /\ job' = [NoJob EXCEPT !.pc = pc, !.req = r, !.epoch = mail'.epoch,
                              !.invalidated = invalidate]
      /\ invalidate = Invalidates(r, mail.scope)
  BY DEF Begins
<1>5. invalidate => r.kind \in {"Save", "Cred"} /\ provider \in Providers
  BY <1>3, <1>4 DEF Invalidates, Fit
<1>6. /\ pc \in Steps /\ (invalidate <=> pc = "invalidate")
      /\ (pc = "preflight" => r.kind = "Prepare") /\ (pc = "execute" => r.kind # "Prepare")
      /\ pc \in {"invalidate", "preflight", "execute"}
  BY DEF Steps
<1>7. r.gen \in Nat /\ k \in Nat
  BY <1>1, <1>2, <1>3 DEF Requests
<1> HIDE DEF p, k, r, t, provider, pc
<1>8. /\ taken \in Mails /\ taken.discarded = {} /\ taken.preparedGen = k
      /\ taken.active = r.gen /\ taken.pipeline = mail.pipeline
      /\ taken.cancelled = mail.cancelled /\ taken.events = mail.events
      /\ taken.queue = t /\ taken.outstanding = mail.outstanding
      /\ taken.stopped = mail.stopped /\ taken.dead = mail.dead
      /\ taken.scope = mail.scope /\ taken.epoch = mail.epoch
  BY <1>1, <1>3, <1>7 DEF Mails
<1> HIDE DEF taken
<1>9. /\ mail' \in Mails /\ mail'.discarded = {} /\ mail'.preparedGen = k
      /\ mail'.active = r.gen /\ mail'.pipeline = mail.pipeline
      /\ mail'.cancelled = mail.cancelled /\ mail'.events = mail.events
      /\ mail'.queue = t /\ mail'.outstanding = mail.outstanding
      /\ mail'.stopped = mail.stopped
      /\ invalidate => mail'.dead = FALSE /\ mail'.scope = provider
      /\ ~invalidate => /\ mail'.dead = mail.dead /\ mail'.scope = mail.scope
                        /\ mail'.epoch = mail.epoch
  <2>1. CASE ~invalidate
    BY <1>4, <1>8, <2>1
  <2>2. CASE invalidate
    <3> DEFINE e == taken.epoch + 1
    <3>1. e \in Nat /\ provider \in Provs
      BY <1>5, <1>8, <2>2 DEF Mails, Provs
    <3>2. mail' = [taken EXCEPT !.epoch = e, !.scope = provider, !.dead = FALSE]
      BY <1>4, <2>2 DEF Rotated
    <3> HIDE DEF e
    <3> QED  BY <1>8, <2>2, <3>1, <3>2 DEF Mails
  <2> QED  BY <2>1, <2>2
<1>10. Books(mail', ui)
  <2>1. mail'.dead => mail.dead /\ mail'.scope = mail.scope /\ ~Invalidates(Head(mail.queue), mail.scope)
    BY <1>4, <1>9 DEF r
  <2>2. mail'.queue = Tail(mail.queue) /\ mail'.active = Head(mail.queue).gen
    BY <1>9 DEF r, t
  <2> QED  BY <1>1, <1>2, <1>9, <2>1, <2>2, TakenBooks
<1>11. /\ app' \in Apps /\ app'.prepared = p /\ app'.sessions = app.sessions
       /\ app'.leases = app.leases /\ app'.settings = app.settings
  BY <1>1, <1>2, <1>4 DEF Apps
<1>12. /\ job' \in Jobs /\ job'.pc = pc /\ job'.req = r /\ job'.epoch = mail'.epoch
       /\ job'.invalidated = invalidate
  <2>1. mail'.epoch \in Nat
    BY <1>9 DEF Mails
  <2> QED  BY <1>3, <1>4, <1>6, <2>1, FailedAnswer DEF NoJob, Jobs
<1>13. Working'
  BY <1>3, <1>6, <1>9, <1>12 DEF Working
<1>14. Records'
  <2>1. app'.prepared.gen <= ui.next
    BY <1>1, <1>2, <1>11 DEF k
  <2>2. \A s \in app.sessions : ~Has(t, s.id) /\ s.id # r.gen
    BY <1>1, <1>3 DEF Records
  <2>3. \A a, b \in app'.sessions : a.id = b.id => a = b
    BY <1>1, <1>11 DEF Records
  <2>4. ui' = ui
    OBVIOUS
  <2>5. \A s \in app'.sessions :
           /\ s.id \in app'.leases /\ s.id \in 1..ui'.next /\ ~Has(mail'.queue, s.id)
           /\ s.id # mail'.active
    BY <1>1, <1>9, <1>11, <2>2, <2>4 DEF Records
  <2>6. job'.pc # "launching" /\ app'.prepared.gen <= ui'.next
    BY <1>6, <1>12, <2>1, <2>4
  <2> QED  BY <2>3, <2>5, <2>6 DEF Records
<1>15. Fence'
  <2>1. JobKinds'
    BY <1>5, <1>6, <1>12 DEF JobKinds, Doing
  <2>2. ~invalidate => InEffect' /\ (NothingRemote => NothingRemote')
    BY <1>1, <1>2, <1>9, <1>11 DEF Fence, InEffect, NothingRemote
  <2>3. SettingsFollow'
    BY <1>1, <1>6, <1>9, <1>11, <1>12 DEF Fence, SettingsFollow, Doing
  <2>4. mail'.scope = NoProvider => NothingRemote'
    BY <1>1, <1>5, <1>9, <2>2, ProviderAssumption DEF Fence
  <2> QED  BY <1>6, <1>12, <2>1, <2>2, <2>3, <2>4 DEF Fence, Doing
<1> QED  BY <1>1, <1>9, <1>10, <1>11, <1>12, <1>13, <1>14, <1>15, WorkerKeeps DEF Worked

LEMMA TakeKeeps == ASSUME AppInv, Take PROVE AppInv'
<1>1. job.pc = "idle" /\ ~mail.stopped /\ UNCHANGED <<ui, ps, left>>
      /\ app' = [app EXCEPT !.prepared = Retained]
  BY DEF Take, Retained
<1>2. CASE mail.queue = <<>>
  <2>1. mail' = [mail EXCEPT !.discarded = {}, !.preparedGen = Retained.gen] /\ job' = job
    BY <1>2 DEF Take, Retained
  <2> QED  BY <1>1, <2>1, DrainedKeeps
<1>3. CASE mail.queue # <<>>
  <2> DEFINE invalidate == Invalidates(Head(mail.queue), mail.scope)
  <2>1. Begins(invalidate)
    BY <1>1, <1>3 DEF Take, Retained, Begins
  <2>2. invalidate \in BOOLEAN
    BY DEF Invalidates
  <2> QED  BY <1>1, <1>3, <2>1, <2>2, CommandTaken
<1> QED  BY <1>2, <1>3

-----------------------------------------------------------------------------
(* Failures                                                                  *)

\* A report nobody asked for takes a place of the budget.
LEMMA ReportedBooks ==
    ASSUME NEW m, NEW u, NEW n \in Mails, NEW e \in Events, Books(m, u), e.gen = 0,
           ConsumesBudget(e), m.outstanding < Capacity, n.outstanding = m.outstanding + 1,
           n.events = Append(m.events, e), n.queue = m.queue, n.active = m.active,
           n.stopped = m.stopped, n.cancelled = m.cancelled, n.pipeline = m.pipeline,
           n.discarded = m.discarded, n.preparedGen = m.preparedGen, n.dead = m.dead,
           n.scope = m.scope
    PROVE  Books(n, u)
<1>1. m \in Mails /\ m.events \in Seq(Events) /\ Distinct(m.events)
  BY DEF Books, Mails
<1>2. /\ \A g : Has(n.events, g) <=> Has(m.events, g) \/ e.gen = g
      /\ Distinct(n.events)
  BY <1>1, HasAppend
<1>3. ASSUME NEW g \in Nat \ {0} PROVE Once(n, u, g)
  <2>1. Once(m, u, g)
    BY DEF Books
  <2> QED  BY <1>2, <2>1 DEF Once
<1>4. Budget(n)
  <2> DEFINE at == IF m.active = 0 THEN 0 ELSE 1
  <2>1. m.outstanding = Len(m.queue) + Charged(m.events) + at
    BY DEF Books, Budget
  <2>2. Charged(n.events) = Charged(m.events) + 1
    BY <1>1, ChargedAppend
  <2>3. Charged(m.events) \in Nat /\ Len(m.queue) \in Nat /\ at \in Nat /\ Capacity \in Nat
        /\ m.outstanding \in Int
    BY <1>1, ChargedType, LenProperties, CapacityAssumption DEF Mails
  <2>4. at = IF n.active = 0 THEN 0 ELSE 1
    OBVIOUS
  <2> HIDE DEF at
  <2>5. n.outstanding = Len(n.queue) + Charged(n.events) + at /\ n.outstanding <= Capacity
    BY <2>1, <2>2, <2>3
  <2> QED  BY <2>4, <2>5 DEF Budget
<1>5. Sound(n) /\ Bounds(n, u)
  <2>1. Sound(m) /\ Bounds(m, u)
    BY DEF Books
  <2> QED  BY <2>1 DEF Sound, Bounds
<1>6. Distinct(n.queue)
  BY DEF Books
<1> QED  BY <1>2, <1>3, <1>4, <1>5, <1>6 DEF Books

LEMMA MediaFailsKeeps == ASSUME AppInv, MediaFails PROVE AppInv'
<1>1. /\ job.pc = "idle" /\ ~mail.stopped /\ mail.outstanding < Capacity
      /\ UNCHANGED <<job, ui, ps, left>>
  BY DEF MediaFails
<1>2. PICK s \in app.sessions :
        /\ ~s.reported
        /\ app' = [app EXCEPT !.sessions = (@ \ {s}) \cup {[s EXCEPT !.reported = TRUE]}]
        /\ mail' = [mail EXCEPT !.outstanding = @ + 1,
                                !.events = Append(@, Event(0, Outcome("MediaFailed", NoProvider, s.id)))]
  BY DEF MediaFails
<1>3. /\ mail.active = 0 /\ Books(mail, ui) /\ Records /\ Fence
      /\ mail \in Mails /\ app \in Apps /\ job \in Jobs /\ ui \in Uis
      /\ left \in [user : Nat, faults : Nat]
  BY <1>1, AtRest
<1> DEFINE r == [s EXCEPT !.reported = TRUE]
           sessions == (app.sessions \ {s}) \cup {r}
           e == Event(0, Outcome("MediaFailed", NoProvider, s.id))
           events == Append(mail.events, e)
           outstanding == mail.outstanding + 1
<1>4. app.sessions \in SUBSET Sessions
  BY <1>3 DEF Apps
<1>5. /\ r \in Sessions /\ r.id = s.id /\ r.remote = s.remote /\ r.epoch = s.epoch
  BY <1>2, <1>4 DEF Sessions
<1>6. e \in Events /\ e.gen = 0 /\ ConsumesBudget(e)
  <2>1. s.id \in Nat
    BY <1>2, <1>4 DEF Sessions
  <2>2. Outcome("MediaFailed", NoProvider, s.id) \in Outcomes
        /\ Outcome("MediaFailed", NoProvider, s.id).kind = "MediaFailed"
    BY <2>1 DEF Outcome, Outcomes, OutcomeKinds, Provs
  <2> QED  BY <2>2, EventType DEF ConsumesBudget
<1>7. app' = [app EXCEPT !.sessions = sessions]
      /\ mail' = [mail EXCEPT !.outstanding = outstanding, !.events = events]
  BY <1>2
<1> HIDE DEF e, r
<1>8. sessions \in SUBSET Sessions /\ events \in Seq(Events) /\ outstanding \in Int
  <2>1. events \in Seq(Events)
    BY <1>3, <1>6, AppendProperties DEF Mails
  <2>2. outstanding \in Int
    BY <1>3 DEF Mails
  <2> QED  BY <1>4, <1>5, <2>1, <2>2
<1>9. /\ app' \in Apps /\ app'.sessions = sessions /\ app'.prepared = app.prepared
      /\ app'.leases = app.leases /\ app'.settings = app.settings
  <2> HIDE DEF sessions
  <2> QED  BY <1>3, <1>7, <1>8 DEF Apps
<1>10. /\ mail' \in Mails /\ mail'.outstanding = outstanding /\ mail'.events = events
       /\ mail'.queue = mail.queue /\ mail'.active = mail.active
       /\ mail'.stopped = mail.stopped /\ mail'.cancelled = mail.cancelled
       /\ mail'.pipeline = mail.pipeline /\ mail'.discarded = mail.discarded
       /\ mail'.preparedGen = mail.preparedGen /\ mail'.dead = mail.dead
       /\ mail'.scope = mail.scope /\ mail'.epoch = mail.epoch
  <2> HIDE DEF outstanding, events
  <2> QED  BY <1>3, <1>7, <1>8 DEF Mails
<1>11. Books(mail', ui)
  BY <1>1, <1>3, <1>6, <1>10, ReportedBooks
<1>12. Working'
  BY <1>1, <1>3, <1>10 DEF Working
<1>13. \A t \in app'.sessions :
         \E o \in app.sessions : /\ o.id = t.id /\ o.remote = t.remote /\ o.epoch = t.epoch
                                 /\ t \in app.sessions \/ (o = s /\ t = r)
  BY <1>2, <1>5, <1>9
<1>14. Records'
  <2>1. ASSUME NEW a \in app'.sessions, NEW b \in app'.sessions, a.id = b.id PROVE a = b
    <3>1. \A x, y \in app.sessions : x.id = y.id => x = y
      BY <1>3 DEF Records
    <3>2. \A x \in app'.sessions : (x \in app.sessions /\ x # s) \/ x = r
      BY <1>9
    <3> QED  BY <1>2, <1>5, <2>1, <3>1, <3>2
  <2>2. \A x \in app.sessions :
           /\ x.id \in app.leases /\ x.id \in 1..ui.next /\ ~Has(mail.queue, x.id)
           /\ x.id # mail.active
    BY <1>1, <1>3 DEF Records
  <2>3. ui' = ui /\ job' = job
    BY <1>1
  <2>4. \A x \in app'.sessions :
           /\ x.id \in app'.leases /\ x.id \in 1..ui'.next /\ ~Has(mail'.queue, x.id)
           /\ x.id # mail'.active
    BY <1>9, <1>10, <1>13, <2>2, <2>3
  <2>5. job'.pc # "launching" /\ app'.prepared.gen <= ui'.next
    BY <1>1, <1>3, <1>9, <2>3 DEF Records
  <2> QED  BY <2>1, <2>4, <2>5 DEF Records
<1>15. Fence'
  <2>1. JobKinds'
    BY <1>1 DEF JobKinds
  <2>2. InEffect'
    BY <1>1, <1>3, <1>9, <1>10, <1>13 DEF Fence, InEffect
  <2>3. NothingRemote => NothingRemote'
    BY <1>9, <1>13 DEF NothingRemote
  <2>4. SettingsFollow'
    BY <1>1, <1>3, <1>9, <1>10 DEF Fence, SettingsFollow
  <2> QED  BY <1>1, <1>3, <1>10, <2>1, <2>2, <2>3, <2>4 DEF Fence
<1> QED  BY <1>1, <1>3, <1>9, <1>10, <1>11, <1>12, <1>14, <1>15, WorkerKeeps DEF Worked

\* The answers a dying worker gives to what was queued.
Refused(queue) == [i \in 1..Len(queue) |-> Event(queue[i].gen, Failed)]

LEMMA RefusedIs ==
    ASSUME NEW q \in Seq(Requests)
    PROVE  /\ Refused(q) \in Seq(Events) /\ Len(Refused(q)) = Len(q)
           /\ \A g : Has(Refused(q), g) <=> Has(q, g)
           /\ Distinct(q) => Distinct(Refused(q))
           /\ \A i \in DOMAIN Refused(q) : ConsumesBudget(Refused(q)[i])
<1> DEFINE t == Refused(q)
           n == Len(q)
<1>1. n \in Nat /\ DOMAIN q = 1..n /\ \A i \in 1..n : q[i] \in Requests
  BY LenProperties, ElementOfSeq
<1>2. ASSUME NEW i \in 1..n
      PROVE  /\ Event(q[i].gen, Failed) \in Events /\ Event(q[i].gen, Failed).gen = q[i].gen
             /\ ConsumesBudget(Event(q[i].gen, Failed))
  <2>1. q[i].gen \in Nat
    BY <1>1 DEF Requests
  <2> QED  BY <2>1, FailedType, EventType DEF ConsumesBudget
<1>3. DOMAIN t = 1..n /\ \A i \in 1..n : t[i] = Event(q[i].gen, Failed)
  BY DEF Refused
<1> HIDE DEF t
<1>4. t \in [1..n -> Events]
  <2>1. t = [i \in 1..n |-> Event(q[i].gen, Failed)]
    BY DEF t, Refused
  <2> QED  BY <1>2, <2>1
<1> HIDE DEF n
<1>5. t \in Seq(Events)
  BY <1>1, <1>4, SeqDef
<1>6. Len(t) = n
  BY <1>1, <1>3, <1>5, LenProperties
<1>7. \A g : Has(t, g) <=> Has(q, g)
  BY <1>1, <1>2, <1>3 DEF Has
<1>8. Distinct(q) => Distinct(t)
  BY <1>1, <1>2, <1>3 DEF Distinct
<1>9. \A i \in DOMAIN t : ConsumesBudget(t[i])
  BY <1>2, <1>3
<1> QED  BY <1>5, <1>6, <1>7, <1>8, <1>9 DEF t, n

\* What the worker was at is answered first.
ClosedWith(m) == IF m.active = 0 THEN m.events ELSE Append(m.events, Event(m.active, Failed))

LEMMA ClosedWithIs ==
    ASSUME NEW m, NEW u, Books(m, u)
    PROVE  /\ ClosedWith(m) \in Seq(Events)
           /\ ClosedWith(m) \o Refused(m.queue) =
                m.events \o (IF m.active = 0 THEN <<>> ELSE <<Event(m.active, Failed)>>)
                         \o Refused(m.queue)
           /\ \A g \in Nat \ {0} : Has(ClosedWith(m), g) <=> Has(m.events, g) \/ m.active = g
           /\ Distinct(ClosedWith(m))
           /\ Charged(ClosedWith(m)) = Charged(m.events) + IF m.active = 0 THEN 0 ELSE 1
<1>1. m \in Mails /\ m.events \in Seq(Events) /\ Distinct(m.events) /\ m.active \in Nat
  BY DEF Books, Mails
<1>2. CASE m.active = 0
  <2>1. ClosedWith(m) = m.events /\ m.events \o <<>> = m.events
    BY <1>1, <1>2, ConcatEmptySeq DEF ClosedWith
  <2>2. Charged(m.events) \in Nat
    BY <1>1, ChargedType
  <2> QED  BY <1>1, <1>2, <2>1, <2>2
<1>3. CASE m.active # 0
  <2> DEFINE e == Event(m.active, Failed)
  <2>1. e \in Events /\ e.gen = m.active /\ ConsumesBudget(e)
    BY <1>1, FailedType, EventType DEF ConsumesBudget
  <2>2. ClosedWith(m) = Append(m.events, e)
    BY <1>3 DEF ClosedWith
  <2> HIDE DEF e
  <2>3. Once(m, u, m.active)
    BY <1>1, <1>3 DEF Books
  <2>4. ~Has(m.events, e.gen)
    BY <2>1, <2>3 DEF Once
  <2>5. /\ \A g : Has(ClosedWith(m), g) <=> Has(m.events, g) \/ e.gen = g
        /\ Distinct(ClosedWith(m))
    BY <1>1, <2>1, <2>2, <2>4, HasAppend
  <2>6. Charged(ClosedWith(m)) = Charged(m.events) + 1
    BY <1>1, <2>1, <2>2, ChargedAppend
  <2>7. ClosedWith(m) \in Seq(Events) /\ ClosedWith(m) = m.events \o <<e>>
    BY <1>1, <2>1, <2>2, AppendProperties, AppendIsConcat
  <2> QED  BY <1>3, <2>1, <2>5, <2>6, <2>7 DEF e
<1> QED  BY <1>2, <1>3

\* However the worker ends, all it owned is answered and nothing else.
LEMMA DiedBooks ==
    ASSUME NEW m, NEW u, NEW n \in Mails, Books(m, u),
           n.events = ClosedWith(m) \o Refused(m.queue), n.queue = <<>>, n.active = 0,
           n.stopped, n.cancelled = {}, n.pipeline = {}, n.outstanding = m.outstanding,
           n.discarded = m.discarded, n.preparedGen = m.preparedGen
    PROVE  Books(n, u)
<1> DEFINE s == ClosedWith(m)
           t == Refused(m.queue)
<1>1. m \in Mails /\ m.queue \in Seq(Requests) /\ m.events \in Seq(Events) /\ m.active \in Nat
      /\ u.next \in Nat /\ m.outstanding \in Int
  BY DEF Books, Mails, Uis
<1>2. /\ s \in Seq(Events) /\ Distinct(s)
      /\ \A g \in Nat \ {0} : Has(s, g) <=> Has(m.events, g) \/ m.active = g
      /\ Charged(s) = Charged(m.events) + IF m.active = 0 THEN 0 ELSE 1
  BY ClosedWithIs
<1>3. /\ t \in Seq(Events) /\ Len(t) = Len(m.queue)
      /\ \A g : Has(t, g) <=> Has(m.queue, g)
      /\ Distinct(m.queue) => Distinct(t)
      /\ \A i \in DOMAIN t : ConsumesBudget(t[i])
  BY <1>1, RefusedIs
<1>4. Distinct(t)
  BY <1>3 DEF Books
<1>5. \A g \in Nat \ {0} : Once(m, u, g)
  BY DEF Books
<1> HIDE DEF s, t
<1>6. \A g : Has(s, g) /\ g # 0 => ~Has(t, g)
  <2>1. ASSUME NEW g, Has(s, g) PROVE g \in Nat
    <3>1. PICK i \in DOMAIN s : s[i].gen = g
      BY <2>1 DEF Has
    <3>2. s[i] \in Events
      BY <1>2, <3>1, LenProperties, ElementOfSeq
    <3> QED  BY <3>1, <3>2 DEF Events
  <2>2. ASSUME NEW g, Has(s, g), g # 0 PROVE ~Has(t, g)
    <3>1. g \in Nat \ {0}
      BY <2>1, <2>2
    <3> QED  BY <1>2, <1>3, <1>5, <2>2, <3>1 DEF Once
  <2> QED  BY <2>2
<1>7. /\ \A g : Has(n.events, g) <=> Has(s, g) \/ Has(t, g)
      /\ Distinct(n.events)
  <2>1. n.events = s \o t
    BY DEF s, t
  <2> QED  BY <1>2, <1>3, <1>4, <1>6, <2>1, HasConcat
<1>8. ASSUME NEW g \in Nat \ {0} PROVE Once(n, u, g)
  <2>1. Once(m, u, g) /\ ~Has(<<>>, g)
    BY <1>5, HasNothing
  <2>2. Has(n.events, g) <=> Has(m.events, g) \/ m.active = g \/ Has(m.queue, g)
    BY <1>2, <1>3, <1>7
  <2> QED  BY <2>1, <2>2 DEF Once
<1>9. Budget(n)
  <2> DEFINE at == IF m.active = 0 THEN 0 ELSE 1
             queued == Len(m.queue)
             charged == Charged(m.events)
  <2>1. m.outstanding = queued + charged + at /\ m.outstanding <= Capacity
    BY DEF Books, Budget
  <2>2. Charged(s) = charged + at
    BY <1>2
  <2>3. Charged(n.events) = Charged(s) + queued
    <3>1. n.events = s \o t
      BY DEF s, t
    <3> QED  BY <1>2, <1>3, <3>1, ChargedConcat
  <2>4. charged \in Nat /\ queued \in Nat /\ at \in Nat
    BY <1>1, ChargedType, LenProperties
  <2>5. Len(n.queue) = 0 /\ Charged(n.events) \in Nat
    BY ChargedType DEF Mails
  <2> HIDE DEF at, queued, charged
  <2>6. n.outstanding = 0 + Charged(n.events) + 0 /\ n.outstanding <= Capacity
    BY <2>1, <2>2, <2>3, <2>4
  <2> QED  BY <2>5, <2>6 DEF Budget
<1>10. Sound(n)
  BY DEF Sound
<1>11. Bounds(n, u)
  BY <1>1 DEF Books, Bounds
<1> QED  BY <1>7, <1>8, <1>9, <1>10, <1>11, DistinctNothing DEF Books

LEMMA DieKeeps == ASSUME AppInv, Die PROVE AppInv'
<1> DEFINE events == ClosedWith(mail) \o Refused(mail.queue)
           faults == left.faults - 1
<1>1. /\ ~mail.stopped /\ UNCHANGED <<ui, ps>> /\ job' = NoJob
      /\ left.faults > 0 /\ left' = [left EXCEPT !.faults = faults]
      /\ app' = [app EXCEPT !.prepared = NoPrep, !.sessions = {}, !.leases = {}]
  BY DEF Die
<1>2. /\ mail \in Mails /\ app \in Apps /\ ui \in Uis /\ left \in [user : Nat, faults : Nat]
      /\ Books(mail, ui) /\ Records
  BY DEF AppInv, Shapes
<1>3. mail.queue \in Seq(Requests)
  BY <1>2 DEF Mails
<1>4. events \in Seq(Events)
  BY <1>2, <1>3, ClosedWithIs, RefusedIs, ConcatProperties
<1>5. mail' = [mail EXCEPT !.stopped = TRUE, !.dead = TRUE, !.active = 0, !.queue = <<>>,
                           !.pipeline = {}, !.cancelled = {}, !.events = events]
  <2>1. events = mail.events \o (IF mail.active = 0 THEN <<>> ELSE <<Event(mail.active, Failed)>>)
                             \o Refused(mail.queue)
    BY <1>2, ClosedWithIs
  <2> QED  BY <2>1 DEF Die, Refused
<1> HIDE DEF events
<1>6. /\ mail' \in Mails /\ mail'.stopped = TRUE /\ mail'.active = 0 /\ mail'.queue = <<>>
      /\ mail'.pipeline = {} /\ mail'.cancelled = {} /\ mail'.events = events
      /\ mail'.outstanding = mail.outstanding /\ mail'.discarded = mail.discarded
      /\ mail'.preparedGen = mail.preparedGen
  <2>1. <<>> \in Seq(Requests)
    OBVIOUS
  <2> QED  BY <1>2, <1>4, <1>5, <2>1 DEF Mails
<1>7. left' \in [user : Nat, faults : Nat]
  <2>1. faults \in Nat
    BY <1>1, <1>2
  <2> HIDE DEF faults
  <2> QED  BY <1>1, <1>2, <2>1
<1>8. /\ app' \in Apps /\ app'.sessions = {} /\ app'.prepared = NoPrep
  BY <1>1, <1>2, NoPrepType DEF Apps
<1>9. job' \in Jobs /\ job'.pc = "idle"
  BY <1>1, FailedAnswer DEF NoJob, Jobs, Steps
<1>10. Books(mail', ui)
  <2>1. mail'.events = ClosedWith(mail) \o Refused(mail.queue)
    BY <1>6 DEF events
  <2> QED  BY <1>2, <1>6, <2>1, DiedBooks
<1>11. Working'
  BY <1>6, <1>9 DEF Working
<1>12. Records'
  <2>1. app'.prepared.gen <= ui'.next
    BY <1>1, <1>2, <1>8 DEF NoPrep, Uis
  <2> QED  BY <1>8, <1>9, <2>1 DEF Records
<1> QED  BY <1>1, <1>6, <1>7, <1>8, <1>9, <1>10, <1>11, <1>12, WorkerKeeps DEF Worked

-----------------------------------------------------------------------------
(* Every behaviour                                                           *)

\* The mailbox and the coordinator before the first command.
Empty == [queue |-> <<>>, events |-> <<>>, outstanding |-> 0, stopped |-> FALSE,
          cancelled |-> {}, pipeline |-> {}, active |-> 0, discarded |-> {},
          preparedGen |-> 0, scope |-> NoProvider, epoch |-> 0, dead |-> FALSE,
          revs |-> [p \in Providers |-> 0]]
Fresh == [next |-> 0, pending |-> {}, prepare |-> 0, play |-> 0, tracked |-> {},
          windows |-> {}, closed |-> {}, acknowledged |-> {}, releasing |-> {},
          replays |-> {}, settings |-> NoProvider, accepted |-> NoProvider,
          retry |-> FALSE, inbox |-> <<>>, emitted |-> <<>>]

LEMMA EmptyBooks == Books(Empty, Fresh)
<1>1. Empty \in Mails
  <2>1. <<>> \in Seq(Requests) /\ <<>> \in Seq(Events) /\ NoProvider \in Provs
        /\ [p \in Providers |-> 0] \in [Providers -> Nat]
    BY DEF Provs
  <2> QED  BY <2>1 DEF Empty, Mails
<1>2. Fresh \in Uis
  <2>1. <<>> \in Seq(Events) /\ NoProvider \in Provs
    BY DEF Provs
  <2> QED  BY <2>1 DEF Fresh, Uis
<1>3. Empty.queue = <<>> /\ Empty.events = <<>> /\ Empty.active = 0 /\ Empty.outstanding = 0
      /\ ~Empty.stopped /\ ~Empty.dead /\ Empty.cancelled = {} /\ Empty.pipeline = {}
      /\ Empty.discarded = {} /\ Empty.preparedGen = 0
  BY DEF Empty
<1>4. Fresh.inbox = <<>> /\ Fresh.pending = {} /\ Fresh.next = 0 /\ Fresh.acknowledged = {}
      /\ Fresh.windows = {}
  BY DEF Fresh
<1>5. \A g \in Nat \ {0} : Once(Empty, Fresh, g)
  BY <1>3, <1>4, HasNothing DEF Once, Asked
<1>6. Budget(Empty)
  <2>1. Len(<<>>) = 0 /\ Capacity \in Nat
    BY CapacityAssumption
  <2> QED  BY <1>3, <2>1, ChargedEmpty DEF Budget
<1>7. Sound(Empty)
  <2>1. DOMAIN Empty.queue = {}
    BY <1>3
  <2> QED  BY <1>3, <2>1 DEF Sound
<1>8. Bounds(Empty, Fresh) /\ Numbered(Fresh) /\ Windowed(Fresh)
  BY <1>3, <1>4 DEF Bounds, Numbered, Windowed
<1> QED  BY <1>1, <1>2, <1>3, <1>4, <1>5, <1>6, <1>7, <1>8, DistinctNothing DEF Books

LEMMA InitAppInv == Init => AppInv
<1> SUFFICES ASSUME Init PROVE AppInv
  OBVIOUS
<1> DEFINE load == Command("Load", NoProvider, 0)
<1>1. /\ mail = Issue(Empty, Fresh, load).mail /\ ui = Issue(Empty, Fresh, load).ui
      /\ job = NoJob /\ ps = NoSession /\ left = [user |-> UserCommands, faults |-> Faults]
  BY DEF Init, Empty, Fresh
<1>2. PICK disk \in Providers :
        app = [settings |-> NoProvider, disk |-> disk, prepared |-> NoPrep,
               sessions |-> {}, leases |-> {}]
  BY DEF Init
<1>3. load \in Commands /\ Fit(load)
  BY CommandType DEF CommandKinds, Provs
<1> HIDE DEF load
<1>4. Books(mail, ui) /\ Follows(Empty, Fresh, mail, ui)
  BY <1>1, <1>3, EmptyBooks, IssueBooks
<1>5. mail \in Mails /\ ui \in Uis /\ ui.next \in Nat
  BY <1>4 DEF Books, Uis
<1>6. mail.active = 0 /\ mail.scope = NoProvider
  BY <1>4 DEF Follows, Empty
<1>7. /\ app \in Apps /\ app.sessions = {} /\ app.prepared = NoPrep
      /\ app.settings = NoProvider
  BY <1>2, NoPrepType DEF Apps, Provs
<1>8. job \in Jobs /\ job.pc = "idle" /\ ~job.invalidated
  BY <1>1, FailedAnswer DEF NoJob, Jobs, Steps
<1>9. ps \in PlaySessions /\ Owning
  BY <1>1, <1>5 DEF NoSession, PlaySessions, Owning, Provs
<1>10. left \in [user : Nat, faults : Nat]
  BY <1>1, BoundsAssumption
<1>11. Records
  BY <1>5, <1>7, <1>8, NoPrepType DEF Records
<1>12. Working
  BY <1>6, <1>8 DEF Working
<1>13. Fence
  <2>1. NothingRemote /\ InEffect
    BY <1>7 DEF NothingRemote, InEffect
  <2>2. JobKinds /\ SettingsFollow
    BY <1>7, <1>8 DEF JobKinds, SettingsFollow
  <2> QED  BY <1>8, <2>1, <2>2 DEF Fence
<1> QED  BY <1>4, <1>5, <1>7, <1>8, <1>9, <1>10, <1>11, <1>12, <1>13 DEF AppInv, Shapes

LEMMA NextAppInv == AppInv /\ [Next]_vars => AppInv'
<1> SUFFICES ASSUME AppInv, [Next]_vars PROVE AppInv'
  OBVIOUS
<1>1. CASE Worker
  BY <1>1, TakeKeeps, InvalidateKeeps, PreflightKeeps, ExecuteCanceledKeeps, ExecuteLoadKeeps,
     ExecuteSaveKeeps, ExecuteCredentialKeeps, ExecuteTestKeeps, BeginPrepareKeeps,
     PreparedKeeps, BeginPlayKeeps, ResolvedKeeps, PlayLocalKeeps, LaunchKeeps,
     ReleaseSessionKeeps, ReplaySessionKeeps, SettleKeeps, PublishKeeps DEF Worker
<1>2. CASE MediaFails
  BY <1>2, MediaFailsKeeps
<1>3. CASE Die
  BY <1>3, DieKeeps
<1>4. CASE Interface
  BY <1>4, DrainKeeps, ApplyEventKeeps, RetryKeeps, NotifyKeeps DEF Interface
<1>5. CASE StartPlay
  BY <1>5, StartPlayKeeps
<1>6. CASE Dismiss
  BY <1>6, DismissKeeps
<1>7. CASE UserCommand
  BY <1>7, UserCommandKeeps
<1>8. CASE WindowClosed
  BY <1>8, WindowClosedKeeps
<1>9. CASE UNCHANGED vars
  <2>1. mail' = mail /\ app' = app /\ job' = job /\ ui' = ui /\ ps' = ps /\ left' = left
    BY <1>9 DEF vars
  <2>2. Shapes' /\ Books(mail', ui') /\ Owning'
    BY <2>1 DEF AppInv, Shapes, Owning
  <2>3. Working' /\ Records'
    BY <2>1 DEF AppInv, Working, Records
  <2>4. Fence => Fence'
    BY <2>1 DEF Fence, JobKinds, InEffect, NothingRemote, SettingsFollow, Doing, Canceled
  <2> QED  BY <2>1, <2>2, <2>3, <2>4 DEF AppInv
<1> QED
  BY <1>1, <1>2, <1>3, <1>4, <1>5, <1>6, <1>7, <1>8, <1>9 DEF Next

LEMMA SpecAppInv == Spec => []AppInv
<1> QED  BY InitAppInv, NextAppInv, PTL DEF Spec

-----------------------------------------------------------------------------
(* What the invariant says                                                   *)

LEMMA FencedOnceFenced == AppInv => AccountFenced
<1> SUFFICES ASSUME AppInv PROVE AccountFenced
  OBVIOUS
<1>1. NoDeadAccount
  <2> SUFFICES ASSUME mail.dead, ~mail.stopped
               PROVE  \E r \in ToSet(mail.queue) : Invalidates(r, mail.scope)
    BY DEF NoDeadAccount
  <2>1. PICK i \in DOMAIN mail.queue : Invalidates(mail.queue[i], mail.scope)
    BY DEF AppInv, Books, Sound
  <2>2. mail.queue[i] \in ToSet(mail.queue)
    BY DEF ToSet
  <2> QED  BY <2>1, <2>2
<1>2. OneAccount
  BY DEF AppInv, Fence, InEffect, OneAccount
<1> QED  BY <1>1, <1>2 DEF AccountFenced

LEMMA AtIs ==
    ASSUME NEW q, NEW g, g # 0, Distinct(q)
    PROVE  /\ Has(q, g) => \E i : At(q, g) = {i}
           /\ ~Has(q, g) => At(q, g) = {}
<1>1. ASSUME Has(q, g) PROVE \E i : At(q, g) = {i}
  <2>1. PICK i \in DOMAIN q : q[i].gen = g
    BY <1>1 DEF Has
  <2>2. At(q, g) = {i}
    BY <2>1 DEF At, Distinct
  <2> QED  BY <2>2
<1>2. ASSUME ~Has(q, g) PROVE At(q, g) = {}
  BY <1>2 DEF Has, At
<1> QED  BY <1>1, <1>2

\* The books say where a command is, and that it is nowhere else.
LEMMA PlaceOf ==
    ASSUME AppInv, NEW g \in 1..ui.next
    PROVE  IF \E p \in ui.pending : p.gen = g
           THEN \E place \in Places(g) : Places(g) = {place}
           ELSE Places(g) = {}
<1> DEFINE Q == At(mail.queue, g)
           E == At(mail.events, g)
           I == At(ui.inbox, g)
           W == IF mail.active = g THEN {<<"worker", 0>>} ELSE {}
<1>1. Books(mail, ui) /\ ui.next \in Nat
  BY DEF AppInv, Shapes, Uis
<1>2. g \in Nat \ {0}
  BY <1>1
<1>3. Once(mail, ui, g) /\ Distinct(mail.queue) /\ Distinct(mail.events) /\ Distinct(ui.inbox)
  BY <1>1, <1>2 DEF Books
<1>4. /\ Has(mail.queue, g) => \E i : Q = {i}
      /\ ~Has(mail.queue, g) => Q = {}
      /\ Has(mail.events, g) => \E i : E = {i}
      /\ ~Has(mail.events, g) => E = {}
      /\ Has(ui.inbox, g) => \E i : I = {i}
      /\ ~Has(ui.inbox, g) => I = {}
  BY <1>2, <1>3, AtIs
<1>5. Places(g) = ({"queue"} \X Q) \cup W \cup ({"events"} \X E) \cup ({"inbox"} \X I)
  BY DEF Places
<1>6. \A name, i : {name} \X {i} = {<<name, i>>}
  OBVIOUS
<1>7. \A name : {name} \X {} = {}
  OBVIOUS
<1>8. (\E p \in ui.pending : p.gen = g) <=> \/ Has(mail.queue, g) \/ mail.active = g
                                            \/ Has(mail.events, g) \/ Has(ui.inbox, g)
  BY <1>3 DEF Once, Asked
<1> HIDE DEF Q, E, I
<1>9. CASE Has(mail.queue, g)
  <2>1. E = {} /\ I = {} /\ W = {}
    BY <1>3, <1>4, <1>9 DEF Once
  <2>2. PICK i : Q = {i}
    BY <1>4, <1>9
  <2>3. Places(g) = {<<"queue", i>>}
    BY <1>5, <1>6, <1>7, <2>1, <2>2
  <2> QED  BY <1>8, <1>9, <2>3
<1>10. CASE mail.active = g
  <2>1. E = {} /\ I = {} /\ Q = {} /\ W = {<<"worker", 0>>}
    BY <1>3, <1>4, <1>10 DEF Once
  <2>2. Places(g) = {<<"worker", 0>>}
    BY <1>5, <1>7, <2>1
  <2> QED  BY <1>8, <1>10, <2>2
<1>11. CASE Has(mail.events, g)
  <2>1. Q = {} /\ I = {} /\ W = {}
    BY <1>3, <1>4, <1>11 DEF Once
  <2>2. PICK i : E = {i}
    BY <1>4, <1>11
  <2>3. Places(g) = {<<"events", i>>}
    BY <1>5, <1>6, <1>7, <2>1, <2>2
  <2> QED  BY <1>8, <1>11, <2>3
<1>12. CASE Has(ui.inbox, g)
  <2>1. Q = {} /\ E = {} /\ W = {}
    BY <1>3, <1>4, <1>12 DEF Once
  <2>2. PICK i : I = {i}
    BY <1>4, <1>12
  <2>3. Places(g) = {<<"inbox", i>>}
    BY <1>5, <1>6, <1>7, <2>1, <2>2
  <2> QED  BY <1>8, <1>12, <2>3
<1>13. CASE /\ ~Has(mail.queue, g) /\ mail.active # g
            /\ ~Has(mail.events, g) /\ ~Has(ui.inbox, g)
  <2>1. Q = {} /\ E = {} /\ I = {} /\ W = {}
    BY <1>4, <1>13
  <2>2. Places(g) = {}
    BY <1>5, <1>7, <2>1
  <2> QED  BY <1>8, <1>13, <2>2
<1> QED  BY <1>9, <1>10, <1>11, <1>12, <1>13

LEMMA BooksAreTyped == AppInv => TypeOK
<1> SUFFICES ASSUME AppInv PROVE TypeOK
  OBVIOUS
<1>1. /\ mail \in Mails /\ app \in Apps /\ ui \in Uis /\ Books(mail, ui) /\ Records /\ Owning
  BY DEF AppInv, Shapes
<1>2. mail.outstanding \in 0..Capacity
  <2> DEFINE at == IF mail.active = 0 THEN 0 ELSE 1
  <2>1. /\ mail.outstanding = Len(mail.queue) + Charged(mail.events) + at
        /\ mail.outstanding <= Capacity
    BY <1>1 DEF Books, Budget
  <2>2. Len(mail.queue) \in Nat /\ Charged(mail.events) \in Nat /\ at \in Nat
        /\ Capacity \in Nat
    BY <1>1, LenProperties, ChargedType, CapacityAssumption DEF Mails
  <2> HIDE DEF at
  <2> QED  BY <2>1, <2>2
<1>3. mail.stopped \in BOOLEAN /\ mail.dead \in BOOLEAN /\ mail.scope \in Providers \cup {NoProvider}
  BY <1>1 DEF Mails, Provs
<1>4. app.settings \in Providers \cup {NoProvider} /\ app.disk \in Providers
  BY <1>1 DEF Apps, Provs
<1>5. Ids(app.sessions) \subseteq app.leases
  BY <1>1 DEF Ids, Records
<1>6. /\ mail.cancelled \cup mail.pipeline \subseteq 1..ui.next
      /\ mail.discarded \cup {mail.active, mail.preparedGen} \subseteq 0..ui.next
      /\ ui.acknowledged \subseteq ui.closed /\ ui.windows \cap ui.closed = {}
  BY <1>1 DEF Books, Bounds, Windowed
<1> QED  BY <1>1, <1>2, <1>3, <1>4, <1>5, <1>6 DEF TypeOK, Owning

LEMMA BooksAnswerOnce == AppInv => AnsweredOnce
<1> SUFFICES ASSUME AppInv PROVE AnsweredOnce
  OBVIOUS
<1>1. Budget(mail) /\ Numbered(ui)
  BY DEF AppInv, Books
<1> QED  BY <1>1, BooksAreTyped, PlaceOf DEF AnsweredOnce, Budget, Numbered

\* A change of provider or credential leaves nothing of the account before it:
\* between requests every remote session and prepared link belongs to the account
\* in effect, and a set account flag is about to be replaced.
THEOREM AccountIsFenced == Spec => []AccountFenced
<1> QED  BY SpecAppInv, FencedOnceFenced, PTL

\* However commands are coalesced, cancelled, or lost with the worker, each
\* admitted one is in one place until its one answer is applied, and the
\* admission budget counts exactly those.
THEOREM CommandsAnsweredOnce == Spec => []AnsweredOnce
<1> QED  BY SpecAppInv, BooksAnswerOnce, PTL

-----------------------------------------------------------------------------
(* What is in a queue, and what is in it before something else               *)

\* What is before something else is in the queue, and both are.
LEMMA BeforeHeld ==
    ASSUME NEW s, NEW a, NEW b, Before(s, a, b)
    PROVE  a \in Held(s) /\ b \in Held(s)
<1> QED  BY DEF Before, Held

LEMMA NothingHeld == Held(<<>>) = {} /\ \A a, b : ~Before(<<>>, a, b)
<1> QED  BY DEF Held, Before

LEMMA HeldHas ==
    ASSUME NEW s, NEW g
    PROVE  Has(s, g) <=> \E x \in Held(s) : x.gen = g
<1> QED  BY DEF Has, Held

LEMMA HeldAppend ==
    ASSUME NEW S, NEW s \in Seq(S), NEW e \in S
    PROVE  /\ Held(Append(s, e)) = Held(s) \cup {e}
           /\ \A a, b : Before(Append(s, e), a, b)
                          <=> Before(s, a, b) \/ (a \in Held(s) /\ b = e)
<1> DEFINE t == Append(s, e)
           n == Len(s) + 1
<1>1. /\ \A i \in DOMAIN t : i \in DOMAIN s \/ i = n
      /\ \A i \in DOMAIN s : t[i] = s[i]
      /\ t[n] = e
  BY AppendPlace
<1>2. DOMAIN s = 1..Len(s) /\ DOMAIN t = 1..n /\ Len(s) \in Nat
  BY AppendProperties, LenProperties
<1>3. n \in DOMAIN t /\ DOMAIN s \subseteq DOMAIN t /\ \A i \in DOMAIN s : i < n
  BY <1>2
<1>4. DOMAIN t \subseteq Nat /\ n \in Nat /\ \A i \in DOMAIN t : ~(n < i)
  BY <1>2
<1> HIDE DEF t, n
<1>5. Held(t) = Held(s) \cup {e}
  BY <1>1, <1>3 DEF Held
<1>6. \A a, b : Before(t, a, b) <=> Before(s, a, b) \/ (a \in Held(s) /\ b = e)
  BY <1>1, <1>3, <1>4 DEF Held, Before
<1> QED  BY <1>5, <1>6 DEF t

LEMMA HeldTail ==
    ASSUME NEW S, NEW s \in Seq(S), s # <<>>
    PROVE  /\ Held(s) = {Head(s)} \cup Held(Tail(s)) /\ Head(s) \in S
           /\ \A a, b : Before(Tail(s), a, b) => Before(s, a, b)
           /\ \A b \in Held(Tail(s)) : Before(s, Head(s), b)
           /\ \A a, b : Before(s, a, b) =>
                (a = Head(s) /\ b \in Held(Tail(s))) \/ Before(Tail(s), a, b)
<1> DEFINE t == Tail(s)
           h == Head(s)
<1>1. /\ t \in Seq(S)
      /\ \A i \in DOMAIN t : i + 1 \in DOMAIN s /\ t[i] = s[i + 1]
      /\ h = s[1] /\ 1 \in DOMAIN s
  BY TailIndices
<1>2. /\ DOMAIN s = 1..Len(s) /\ Len(s) \in Nat
      /\ DOMAIN t = 1..Len(t) /\ Len(t) = Len(s) - 1
  BY <1>1, LenProperties, HeadTailProperties
<1>3. h \in S
  BY <1>1, ElementOfSeq, <1>2
<1> HIDE DEF t, h
<1>4. \A j \in DOMAIN s : j = 1 \/ (j - 1 \in DOMAIN t /\ t[j - 1] = s[j])
  <2> SUFFICES ASSUME NEW j \in DOMAIN s, j # 1 PROVE j - 1 \in DOMAIN t /\ t[j - 1] = s[j]
    OBVIOUS
  <2>1. j - 1 \in DOMAIN t /\ (j - 1) + 1 = j
    BY <1>2
  <2> QED  BY <1>1, <2>1
<1>5. Held(s) = {h} \cup Held(t)
  <2>1. ASSUME NEW x \in Held(s) PROVE x \in {h} \cup Held(t)
    <3>1. PICK j \in DOMAIN s : s[j] = x
      BY <2>1 DEF Held
    <3> QED  BY <1>1, <1>4, <3>1 DEF Held
  <2>2. ASSUME NEW x \in Held(t) PROVE x \in Held(s)
    BY <1>1, <2>2 DEF Held
  <2>3. h \in Held(s)
    BY <1>1 DEF Held
  <2> QED  BY <2>1, <2>2, <2>3
<1>6. ASSUME NEW a, NEW b, Before(t, a, b) PROVE Before(s, a, b)
  <2>1. PICK i, j \in DOMAIN t : i < j /\ t[i] = a /\ t[j] = b
    BY <1>6 DEF Before
  <2>2. i + 1 \in DOMAIN s /\ j + 1 \in DOMAIN s /\ s[i + 1] = a /\ s[j + 1] = b
    BY <1>1, <2>1
  <2>3. i + 1 < j + 1
    BY <1>2, <2>1
  <2> QED  BY <2>2, <2>3 DEF Before
<1>7. ASSUME NEW b \in Held(t) PROVE Before(s, h, b)
  <2>1. PICK j \in DOMAIN t : t[j] = b
    BY <1>7 DEF Held
  <2>2. j + 1 \in DOMAIN s /\ s[j + 1] = b /\ 1 < j + 1
    BY <1>1, <1>2, <2>1
  <2> QED  BY <1>1, <2>2 DEF Before
<1>8. ASSUME NEW a, NEW b, Before(s, a, b)
      PROVE  (a = h /\ b \in Held(t)) \/ Before(t, a, b)
  <2>1. PICK i, j \in DOMAIN s : i < j /\ s[i] = a /\ s[j] = b
    BY <1>8 DEF Before
  <2>2. j # 1 /\ j - 1 \in DOMAIN t /\ t[j - 1] = b
    BY <1>2, <1>4, <2>1
  <2>3. CASE i = 1
    BY <1>1, <2>1, <2>2, <2>3 DEF Held
  <2>4. CASE i # 1
    <3>1. i - 1 \in DOMAIN t /\ t[i - 1] = a /\ i - 1 < j - 1
      BY <1>2, <1>4, <2>1, <2>4
    <3> QED  BY <2>2, <3>1 DEF Before
  <2> QED  BY <2>3, <2>4
<1> QED  BY <1>3, <1>5, <1>6, <1>7, <1>8 DEF t, h

\* Two queues, one after the other.
LEMMA HeldConcat ==
    ASSUME NEW S, NEW s \in Seq(S), NEW t \in Seq(S)
    PROVE  /\ Held(s \o t) = Held(s) \cup Held(t)
           /\ \A a, b : Before(s \o t, a, b) => Before(s, a, b) \/ b \in Held(t)
<1> DEFINE r == s \o t
           n == Len(s)
           m == Len(t)
<1>1. DOMAIN s = 1..n /\ n \in Nat /\ DOMAIN t = 1..m /\ m \in Nat
  BY LenProperties
<1>2. /\ r \in Seq(S) /\ Len(r) = n + m
      /\ \A i \in 1..(n + m) : r[i] = IF i <= n THEN s[i] ELSE t[i - n]
  BY ConcatProperties
<1>3. DOMAIN r = 1..(n + m)
  BY <1>2, LenProperties
<1> HIDE DEF r, n, m
<1>4. \A i \in DOMAIN s : i \in DOMAIN r /\ r[i] = s[i]
  BY <1>1, <1>2, <1>3
<1>5. \A i \in DOMAIN t : n + i \in DOMAIN r /\ r[n + i] = t[i]
  <2> SUFFICES ASSUME NEW i \in DOMAIN t PROVE n + i \in DOMAIN r /\ r[n + i] = t[i]
    OBVIOUS
  <2>1. n + i \in 1..(n + m) /\ ~(n + i <= n) /\ (n + i) - n = i
    BY <1>1
  <2> QED  BY <1>2, <1>3, <2>1
<1>6. \A i \in DOMAIN r : \/ i \in DOMAIN s /\ r[i] = s[i]
                          \/ i - n \in DOMAIN t /\ r[i] = t[i - n] /\ n < i
  BY <1>1, <1>2, <1>3
<1>7. Held(r) = Held(s) \cup Held(t)
  <2>1. ASSUME NEW x \in Held(r) PROVE x \in Held(s) \cup Held(t)
    BY <1>6, <2>1 DEF Held
  <2>2. ASSUME NEW x \in Held(s) PROVE x \in Held(r)
    BY <1>4, <2>2 DEF Held
  <2>3. ASSUME NEW x \in Held(t) PROVE x \in Held(r)
    BY <1>5, <2>3 DEF Held
  <2> QED  BY <2>1, <2>2, <2>3
<1>8. ASSUME NEW a, NEW b, Before(r, a, b) PROVE Before(s, a, b) \/ b \in Held(t)
  <2>1. PICK i, j \in DOMAIN r : i < j /\ r[i] = a /\ r[j] = b
    BY <1>8 DEF Before
  <2>2. CASE j - n \in DOMAIN t /\ r[j] = t[j - n]
    BY <2>1, <2>2 DEF Held
  <2>3. CASE j \in DOMAIN s /\ r[j] = s[j]
    <3>1. i \in DOMAIN s /\ r[i] = s[i]
      BY <1>1, <1>3, <1>4, <2>1, <2>3
    <3> QED  BY <2>1, <2>3, <3>1 DEF Before
  <2> QED  BY <1>6, <2>2, <2>3
<1> QED  BY <1>7, <1>8 DEF r

-----------------------------------------------------------------------------
(* The answers in flight                                                     *)

LEMMA EmitFlies ==
    ASSUME NEW m \in Mails, NEW u, NEW e \in Events, NEW n, n.events = Append(m.events, e)
    PROVE  /\ Flying(n, u) = Flying(m, u) \cup {e}
           /\ \A a, b : Precedes(n, u, a, b)
                          <=> Precedes(m, u, a, b) \/ (a \in Flying(m, u) /\ b = e)
<1>1. m.events \in Seq(Events)
  BY DEF Mails
<1>2. /\ Held(n.events) = Held(m.events) \cup {e}
      /\ \A a, b : Before(n.events, a, b)
                     <=> Before(m.events, a, b) \/ (a \in Held(m.events) /\ b = e)
  BY <1>1, HeldAppend
<1> QED  BY <1>2 DEF Flying, Precedes

LEMMA DrainFlies ==
    ASSUME NEW m, NEW u, NEW n, NEW v, u.inbox = <<>>, n.events = <<>>, v.inbox = m.events
    PROVE  /\ Flying(n, v) = Flying(m, u)
           /\ \A a, b : Precedes(n, v, a, b) <=> Precedes(m, u, a, b)
<1>1. /\ Held(u.inbox) = {} /\ Held(n.events) = {}
      /\ \A a, b : ~Before(u.inbox, a, b) /\ ~Before(n.events, a, b)
  BY NothingHeld
<1> QED  BY <1>1 DEF Flying, Precedes

LEMMA AppliedFlies ==
    ASSUME NEW m, NEW u \in Uis, NEW v, u.inbox # <<>>, v.inbox = Tail(u.inbox)
    PROVE  LET e == Head(u.inbox) IN
           /\ Flying(m, u) = Flying(m, v) \cup {e} /\ e \in Events
           /\ \A b \in Flying(m, v) : Precedes(m, u, e, b)
           /\ \A a, b : Precedes(m, v, a, b) => Precedes(m, u, a, b)
           /\ \A a, b : Precedes(m, u, a, b) =>
                (a = e /\ b \in Flying(m, v)) \/ Precedes(m, v, a, b)
<1> DEFINE e == Head(u.inbox)
<1>1. u.inbox \in Seq(Events)
  BY DEF Uis
<1>2. /\ Held(u.inbox) = {e} \cup Held(v.inbox) /\ e \in Events
      /\ \A a, b : Before(v.inbox, a, b) => Before(u.inbox, a, b)
      /\ \A b \in Held(v.inbox) : Before(u.inbox, e, b)
      /\ \A a, b : Before(u.inbox, a, b) =>
           (a = e /\ b \in Held(v.inbox)) \/ Before(v.inbox, a, b)
  BY <1>1, HeldTail
<1> HIDE DEF e
<1> QED  BY <1>2 DEF Flying, Precedes, e

LEMMA PrecedesFlying ==
    ASSUME NEW m, NEW u, NEW a, NEW b, Precedes(m, u, a, b)
    PROVE  a \in Flying(m, u) /\ b \in Flying(m, u)
<1> QED  BY BeforeHeld DEF Flying, Precedes

\* Of a command there is one answer, and while there is none it is queued or active.
LEMMA FlyingOnce ==
    ASSUME NEW m, NEW u, Books(m, u), NEW g \in Nat \ {0}
    PROVE  /\ Asked(u, g) <=> \/ Has(m.queue, g) \/ m.active = g
                              \/ \E e \in Flying(m, u) : e.gen = g
           /\ Has(m.queue, g) => m.active # g
           /\ \A e \in Flying(m, u) : e.gen = g => ~Has(m.queue, g) /\ m.active # g
<1>1. Once(m, u, g)
  BY DEF Books
<1>2. (\E e \in Flying(m, u) : e.gen = g) <=> Has(m.events, g) \/ Has(u.inbox, g)
  BY HeldHas DEF Flying
<1> QED  BY <1>1, <1>2 DEF Once

\* The tracker names a command in one way.
LEMMA NotedOnce ==
    ASSUME NEW u, Numbered(u), NEW p \in u.pending, NEW r, Noted(u, r), r.gen = p.gen
    PROVE  r.kind = p.kind /\ r.id = p.id
<1> QED  BY DEF Noted, Numbered

-----------------------------------------------------------------------------
(* What the parts of a step of the interface leave alone                     *)

LEMMA PostedIs ==
    ASSUME NEW m, NEW u, Books(m, u), NEW g \in Nat, NEW c \in Commands, Fit(c)
    PROVE  Posted(m, g, c, Submitted(m, g, c))
<1> DEFINE n == Submitted(m, g, c)
           r == Rest(m, c)
           e == Entered(m, g, c)
           f == Event(Superseding(m, c), Failed)
<1>1. m \in Mails /\ m.queue \in Seq(Requests) /\ m.events \in Seq(Events)
  BY DEF Books, Mails
<1>2. Admitted(n, m, g, c)
  BY <1>1, SubmittedIs
<1>3. r \in Seq(Requests) /\ e \in Requests /\ e.gen = g
  BY <1>1, RestFacts, EnteredType
<1>4. e.kind = c.kind /\ e.id = c.id
  BY DEF Entered
<1>5. Held(r) \subseteq Held(m.queue)
  <2>1. CASE Replaced(m, c) = {}
    BY <1>1, <2>1, RestFacts
  <2>2. CASE Replaced(m, c) # {}
    <3>1. \A i \in DOMAIN r : \E j \in DOMAIN m.queue : r[i] = m.queue[j]
      BY <1>1, <2>2, RestFacts
    <3> QED  BY <3>1 DEF Held
  <2> QED  BY <2>1, <2>2
<1>6. Replaced(m, c) # {} =>
        /\ f \in Events /\ f.kind = "Failed" /\ f.gen = Superseding(m, c)
        /\ Has(m.queue, f.gen) /\ f.gen # 0
  <2> SUFFICES ASSUME Replaced(m, c) # {}
               PROVE  /\ f \in Events /\ f.kind = "Failed" /\ f.gen = Superseding(m, c)
                      /\ Has(m.queue, f.gen) /\ f.gen # 0
    OBVIOUS
  <2>1. Superseding(m, c) \in Nat /\ Has(m.queue, Superseding(m, c))
    BY <1>1, SupersedingIs
  <2>2. \A i \in DOMAIN m.queue : m.queue[i].gen # 0
    BY DEF Books, Sound
  <2>3. Superseding(m, c) # 0
    BY <2>1, <2>2 DEF Has
  <2>4. f \in Events /\ f.gen = Superseding(m, c) /\ f.kind = "Failed"
    BY <2>1, EventType, FailedType
  <2> QED  BY <2>1, <2>3, <2>4
<1> HIDE DEF n, r, e, f
<1>7. /\ n.active = m.active /\ n.stopped = m.stopped
      /\ n.queue = Append(r, e)
      /\ n.events = IF Replaced(m, c) = {} THEN m.events ELSE Append(m.events, f)
  BY <1>2 DEF Admitted, r, e, f
<1>8. Held(n.queue) = Held(r) \cup {e}
  BY <1>3, <1>7, HeldAppend
<1>9. CASE Replaced(m, c) = {}
  BY <1>3, <1>4, <1>5, <1>7, <1>8, <1>9 DEF Posted, n
<1>10. CASE Replaced(m, c) # {}
  <2>1. /\ Held(n.events) = Held(m.events) \cup {f}
        /\ \A a, b : Before(n.events, a, b)
                       <=> Before(m.events, a, b) \/ (a \in Held(m.events) /\ b = f)
    BY <1>1, <1>6, <1>7, <1>10, HeldAppend
  <2> QED  BY <1>3, <1>4, <1>5, <1>6, <1>7, <1>8, <1>10, <2>1 DEF Posted, n
<1> QED  BY <1>9, <1>10

LEMMA LatestIs ==
    ASSUME NEW u \in Uis, NEW c, NEW g \in Nat
    PROVE  LET v == Latest(u, c, g) IN
           /\ v \in Uis
           /\ v.next = u.next /\ v.pending = u.pending /\ v.inbox = u.inbox
           /\ v.emitted = u.emitted /\ v.tracked = u.tracked /\ v.windows = u.windows
           /\ v.closed = u.closed /\ v.acknowledged = u.acknowledged
           /\ v.releasing = u.releasing /\ v.replays = u.replays /\ v.retry = u.retry
           /\ v.prepare = (IF c.kind = "Prepare" THEN g ELSE u.prepare)
           /\ v.play = (IF c.kind \in Launches THEN g ELSE u.play)
<1> QED  BY DEF Latest, Uis

LEMMA RecordedIs ==
    ASSUME NEW u \in Uis, NEW c \in Commands, Windowed(u)
    PROVE  LET k == Known(u, c) IN
           Recorded(u, c, IF c.kind = "Release" THEN CloseEmbedded(k, {c.id}) ELSE k)
<1> DEFINE g == u.next + 1
           l == Latest(u, c, g)
           p == [gen |-> g, kind |-> c.kind, id |-> c.id]
           P == l.pending \cup {p}
           R == IF c.kind = "Replay" THEN l.replays \cup {[gen |-> g, id |-> c.id]} ELSE l.replays
           k == Known(u, c)
<1>1. g \in Nat
  BY DEF Uis
<1>2. l \in Uis
  BY <1>1, LatestIs
<1>3. k = [l EXCEPT !.next = g, !.pending = P, !.replays = R]
  BY DEF Known
<1> HIDE DEF l, p, P, R, k
<1>4. /\ k.next = g /\ k.pending = P /\ k.replays = R
      /\ k.inbox = l.inbox /\ k.emitted = l.emitted /\ k.tracked = l.tracked
      /\ k.windows = l.windows /\ k.closed = l.closed /\ k.acknowledged = l.acknowledged
      /\ k.releasing = l.releasing /\ k.retry = l.retry
      /\ k.prepare = l.prepare /\ k.play = l.play
      /\ DOMAIN k = DOMAIN l
  BY <1>2, <1>3 DEF Uis
<1>5. /\ l.pending = u.pending /\ l.inbox = u.inbox
      /\ l.emitted = u.emitted /\ l.tracked = u.tracked /\ l.windows = u.windows
      /\ l.closed = u.closed /\ l.acknowledged = u.acknowledged
      /\ l.releasing = u.releasing /\ l.replays = u.replays /\ l.retry = u.retry
      /\ l.prepare = (IF c.kind = "Prepare" THEN g ELSE u.prepare)
      /\ l.play = (IF c.kind \in Launches THEN g ELSE u.play)
  BY <1>1, LatestIs DEF l
<1>6. CASE c.kind # "Release"
  <2>1. \E shut \in SUBSET u.windows :
          /\ k.windows = u.windows \ shut /\ k.closed = u.closed \cup shut
          /\ \A x \in shut : c.kind = "Release" /\ x = c.id
    <3> WITNESS {} \in SUBSET u.windows
    <3> QED  BY <1>4, <1>5
  <2> QED  BY <1>4, <1>5, <1>6, <2>1 DEF Recorded, P, R, p, k
<1>7. CASE c.kind = "Release"
  <2> DEFINE gone == {c.id} \cap k.windows
             v == CloseEmbedded(k, {c.id})
  <2>1. v = [k EXCEPT !.windows = k.windows \ gone, !.closed = k.closed \cup gone,
                      !.acknowledged = k.acknowledged \ gone]
    BY DEF CloseEmbedded
  <2>2. DOMAIN k = {"next", "pending", "prepare", "play", "tracked", "windows", "closed",
                    "acknowledged", "releasing", "replays", "settings", "accepted", "retry",
                    "inbox", "emitted"}
    BY <1>2, <1>4 DEF Uis
  <2> HIDE DEF gone, v
  <2>3. /\ v.next = k.next /\ v.pending = k.pending /\ v.replays = k.replays
        /\ v.inbox = k.inbox /\ v.emitted = k.emitted /\ v.tracked = k.tracked
        /\ v.releasing = k.releasing /\ v.retry = k.retry
        /\ v.prepare = k.prepare /\ v.play = k.play
        /\ v.windows = k.windows \ gone /\ v.closed = k.closed \cup gone
        /\ v.acknowledged = k.acknowledged \ gone
    BY <2>1, <2>2
  <2>4. gone \subseteq u.windows /\ \A x \in gone : x = c.id
    BY <1>4, <1>5 DEF gone
  <2>5. v.acknowledged = u.acknowledged
    BY <1>4, <1>5, <2>3, <2>4 DEF Windowed
  <2>6. \E shut \in SUBSET u.windows :
          /\ v.windows = u.windows \ shut /\ v.closed = u.closed \cup shut
          /\ \A x \in shut : c.kind = "Release" /\ x = c.id
    <3> gone \in SUBSET u.windows
      BY <2>4
    <3> WITNESS gone \in SUBSET u.windows
    <3> QED  BY <1>4, <1>5, <1>7, <2>3, <2>4
  <2> QED  BY <1>4, <1>5, <1>7, <2>3, <2>5, <2>6 DEF Recorded, P, R, p, k, v
<1> QED  BY <1>6, <1>7 DEF k

LEMMA IssueTakes ==
    ASSUME NEW m, NEW u, NEW c \in Commands, Fit(c), Books(m, u), Accepts(m)
    PROVE  /\ Posted(m, u.next + 1, c, Issue(m, u, c).mail)
           /\ Recorded(u, c, Issue(m, u, c).ui)
           /\ Issue(m, u, c).gen = u.next + 1
<1> DEFINE k == Known(u, c)
           v == IF c.kind = "Release" THEN CloseEmbedded(k, {c.id}) ELSE k
           n == Submitted(m, u.next + 1, c)
<1>1. Issue(m, u, c).mail = n /\ Issue(m, u, c).ui = v /\ Issue(m, u, c).gen = u.next + 1
  BY DEF Issue, Known
<1>2. u \in Uis /\ Windowed(u) /\ u.next + 1 \in Nat
  BY DEF Books, Uis
<1>3. Recorded(u, c, v)
  BY <1>2, RecordedIs
<1>4. Posted(m, u.next + 1, c, n)
  BY <1>2, PostedIs
<1> HIDE DEF k, v, n
<1> QED  BY <1>1, <1>3, <1>4

LEMMA IssueRefuses ==
    ASSUME NEW m, NEW u, NEW c \in Commands, Books(m, u), ~Accepts(m)
    PROVE  /\ Issue(m, u, c).mail = m /\ Issue(m, u, c).gen = 0
           /\ Waived(u, Issue(m, u, c).ui)
           /\ c.kind \in Launches => Issue(m, u, c).ui.play = 0
           /\ c.kind = "Prepare" => Issue(m, u, c).ui.prepare = 0
<1> DEFINE v == Latest(u, c, 0)
<1>1. Issue(m, u, c).mail = m /\ Issue(m, u, c).ui = v /\ Issue(m, u, c).gen = 0
  BY DEF Issue
<1>2. u \in Uis
  BY DEF Books
<1>3. /\ v.next = u.next /\ v.pending = u.pending /\ v.inbox = u.inbox
      /\ v.emitted = u.emitted /\ v.tracked = u.tracked /\ v.windows = u.windows
      /\ v.closed = u.closed /\ v.acknowledged = u.acknowledged
      /\ v.releasing = u.releasing /\ v.replays = u.replays /\ v.retry = u.retry
      /\ v.prepare = (IF c.kind = "Prepare" THEN 0 ELSE u.prepare)
      /\ v.play = (IF c.kind \in Launches THEN 0 ELSE u.play)
  BY <1>2, LatestIs
<1> HIDE DEF v
<1>4. Waived(u, v)
  BY <1>3 DEF Waived
<1> QED  BY <1>1, <1>3, <1>4

LEMMA AbandonedIs ==
    ASSUME NEW m, NEW u, NEW s, Books(m, u)
    PROVE  /\ Marked(m, Abandoned(m, u, s).mail) /\ Waived(u, Abandoned(m, u, s).ui)
           /\ s.pending # 0 => /\ Abandoned(m, u, s).ui.prepare # s.pending
                               /\ Abandoned(m, u, s).ui.play # s.pending
<1> DEFINE a == IF s.prep # 0 THEN s.prep ELSE s.pending
           b == IF s.prep # 0 THEN s.pending ELSE 0
           n == CancelRequest(m, a)
           v == [u EXCEPT !.prepare = IF @ \in {a, b} THEN 0 ELSE @,
                          !.play = IF @ \in {a, b} THEN 0 ELSE @]
<1>1. Abandoned(m, u, s).mail = CancelRequest(n, b) /\ Abandoned(m, u, s).ui = v
  BY DEF Abandoned
<1>2. m \in Mails /\ u \in Uis
  BY DEF Books
<1>3. DOMAIN m = {"queue", "events", "outstanding", "stopped", "cancelled", "pipeline", "active",
                  "discarded", "preparedGen", "scope", "epoch", "dead", "revs"}
  BY <1>2 DEF Mails
<1>4. Marked(m, n) /\ DOMAIN n = DOMAIN m
  BY <1>3 DEF CancelRequest, Marked
<1> HIDE DEF n
<1>5. Marked(n, CancelRequest(n, b))
  BY <1>3, <1>4 DEF CancelRequest, Marked
<1>6. Marked(m, CancelRequest(n, b))
  BY <1>4, <1>5 DEF Marked
<1>7. s.pending \in {a, b}
  OBVIOUS
<1> HIDE DEF a, b
<1>8. Waived(u, v) /\ v.prepare = (IF u.prepare \in {a, b} THEN 0 ELSE u.prepare)
      /\ v.play = (IF u.play \in {a, b} THEN 0 ELSE u.play)
  BY <1>2 DEF Waived, Uis
<1> HIDE DEF v
<1> QED  BY <1>1, <1>6, <1>7, <1>8

\* What flies, and in which order, when a command is admitted.
LEMMA PostedFlies ==
    ASSUME NEW m, NEW u, NEW g, NEW c, NEW n, NEW v, Posted(m, g, c, n), v.inbox = u.inbox
    PROVE  /\ Flying(m, u) \subseteq Flying(n, v)
           /\ \A e \in Flying(n, v) : \/ e \in Flying(m, u)
                                      \/ e.kind = "Failed" /\ Has(m.queue, e.gen) /\ e.gen # 0
           /\ \A a, b : Precedes(m, u, a, b) => Precedes(n, v, a, b)
           /\ \A a, b : Precedes(n, v, a, b) => Precedes(m, u, a, b) \/ b.kind = "Failed"
<1> QED  BY DEF Posted, Flying, Precedes

LEMMA MarkedFlies ==
    ASSUME NEW m, NEW u, NEW n, NEW v, n.events = m.events, v.inbox = u.inbox
    PROVE  /\ Flying(n, v) = Flying(m, u)
           /\ \A a, b : Precedes(n, v, a, b) <=> Precedes(m, u, a, b)
<1> QED  BY DEF Flying, Precedes

-----------------------------------------------------------------------------
(* The tracker tells every answer apart, whatever the interface does         *)

LEMMA OldStays ==
    ASSUME NEW u \in Uis, NEW v, NEW x, Old(u, x), v.next \in Nat, u.next <= v.next,
           \A p \in v.pending : p \in u.pending \/ p.gen > u.next
    PROVE  Old(v, x)
<1>1. u.next \in Nat
  BY DEF Uis
<1>2. x \in 1..u.next /\ x \in 1..v.next
  BY <1>1 DEF Old
<1>3. \A p \in v.pending : p.gen # x
  BY <1>1, <1>2 DEF Old, Asked
<1> QED  BY <1>2, <1>3 DEF Old, Asked

LEMMA NotedStays ==
    ASSUME NEW u, NEW v, u.pending \subseteq v.pending
    PROVE  /\ \A r : Noted(u, r) => Noted(v, r)
           /\ \A e : Expected(u, e) => Expected(v, e)
           /\ \A j : JobTold(u, j) => JobTold(v, j)
<1> QED  BY DEF Noted, Expected, JobTold

\* A step that leaves what is pending.
LEMMA SameTold ==
    ASSUME NEW m, NEW u, NEW n, NEW v, Told(m, u), v.pending = u.pending, v.next = u.next,
           Held(n.queue) \subseteq Held(m.queue),
           \A e \in Flying(n, v) : e \in Flying(m, u) \/ Expected(u, e)
    PROVE  /\ Matched(n, v)
           /\ \A x : Old(v, x) <=> Old(u, x)
           /\ \A j : JobTold(u, j) => JobTold(v, j)
<1>1. /\ \A r : Noted(u, r) <=> Noted(v, r)
      /\ \A e : Expected(u, e) <=> Expected(v, e)
      /\ \A x : Old(v, x) <=> Old(u, x)
  BY DEF Noted, Expected, Old, Asked
<1>2. \A j : JobTold(u, j) => JobTold(v, j)
  BY <1>1 DEF JobTold
<1> QED  BY <1>1, <1>2 DEF Told, Matched

LEMMA IssuedTold ==
    ASSUME NEW m, NEW u, NEW c, NEW n, NEW v \in Uis, Books(m, u), Told(m, u), Refers(u, c),
           Posted(m, u.next + 1, c, n), Recorded(u, c, v)
    PROVE  Told(n, v) /\ \A j : JobTold(u, j) => JobTold(v, j)
<1> DEFINE g == u.next + 1
           p == [gen |-> g, kind |-> c.kind, id |-> c.id]
<1>1. /\ u \in Uis /\ Numbered(u) /\ u.next \in Nat /\ v.next \in Nat
      /\ g \in Nat \ {0} /\ v.next = g /\ v.pending = u.pending \cup {p}
      /\ v.inbox = u.inbox
  BY DEF Books, Uis, Recorded
<1>2. p.gen = g /\ p.kind = c.kind /\ p.id = c.id /\ g > u.next /\ u.next <= v.next
  BY <1>1
<1> HIDE DEF p, g
<1>3. \A x : Old(u, x) => Old(v, x)
  BY <1>1, <1>2, OldStays
<1>4. /\ \A r : Noted(u, r) => Noted(v, r)
      /\ \A e : Expected(u, e) => Expected(v, e)
      /\ \A j : JobTold(u, j) => JobTold(v, j)
  BY <1>1, NotedStays
<1>5. Matched(n, v)
  <2>1. ASSUME NEW r \in Held(n.queue) PROVE Noted(v, r)
    <3>1. CASE r \in Held(m.queue)
      BY <1>4, <3>1 DEF Told, Matched
    <3>2. CASE r.gen = g /\ r.kind = c.kind /\ r.id = c.id
      BY <1>1, <1>2, <3>2 DEF Noted
    <3> QED  BY <3>1, <3>2 DEF Posted, g
  <2>2. ASSUME NEW e \in Flying(n, v) PROVE Expected(v, e)
    <3>1. CASE e \in Flying(m, u)
      BY <1>4, <3>1 DEF Told, Matched
    <3>2. CASE e.kind = "Failed" /\ Has(m.queue, e.gen) /\ e.gen # 0
      <4>1. PICK r \in Held(m.queue) : r.gen = e.gen
        BY <3>2, HeldHas
      <4>2. Noted(u, r)
        BY DEF Told, Matched
      <4>3. Expected(u, e)
        BY <3>2, <4>1, <4>2 DEF Noted, Expected, Nameless, Suits
      <4> QED  BY <1>4, <4>3
    <3> QED  BY <1>1, <3>1, <3>2, PostedFlies
  <2> QED  BY <2>1, <2>2 DEF Matched
<1>6. Named(v)
  <2>1. /\ v.tracked = u.tracked /\ v.releasing = u.releasing /\ v.emitted = u.emitted
        /\ v.windows \subseteq u.windows /\ v.closed \subseteq u.closed \cup u.windows
    BY DEF Recorded
  <2>2. \A q \in v.pending : q.kind \in {"Release", "Replay", "Play"} => Old(v, q.id)
    BY <1>1, <1>2, <1>3 DEF Told, Named, Refers
  <2>3. \A x \in v.tracked \cup v.windows \cup v.closed \cup v.releasing : Old(v, x)
    BY <1>3, <2>1 DEF Told, Named
  <2>4. \A e \in Held(v.emitted) : IF Nameless(e) THEN e.gen = 0 ELSE Old(v, e.gen)
    BY <1>3, <2>1 DEF Told, Named
  <2> QED  BY <2>2, <2>3, <2>4 DEF Named
<1>7. Replayed(v)
  <2> DEFINE w == [gen |-> g, id |-> c.id]
  <2>1. v.replays = IF c.kind = "Replay" THEN u.replays \cup {w} ELSE u.replays
    BY DEF Recorded, g
  <2>2. u.replays = {[gen |-> q.gen, id |-> q.id] : q \in {q \in u.pending : q.kind = "Replay"}}
    BY DEF Told, Replayed
  <2>3. ASSUME NEW x
        PROVE  x \in v.replays <=> x \in {[gen |-> q.gen, id |-> q.id] :
                                            q \in {q \in v.pending : q.kind = "Replay"}}
    BY <1>1, <1>2, <2>1, <2>2
  <2> QED  BY <2>3 DEF Replayed
<1>8. Newest(v)
  <2>1. /\ v.prepare = (IF c.kind = "Prepare" THEN g ELSE u.prepare)
        /\ v.play = (IF c.kind \in Launches THEN g ELSE u.play)
    BY DEF Recorded, g
  <2>2. u.prepare \in Nat /\ u.play \in Nat /\ u.prepare <= u.next /\ u.play <= u.next
    BY <1>1 DEF Told, Newest, Uis
  <2>3. v.prepare <= v.next /\ v.play <= v.next
    BY <1>1, <1>2, <2>1, <2>2
  <2>4. \A q \in u.pending : q.gen \in Nat /\ q.gen <= u.next
    BY <1>1 DEF Numbered
  <2>5. \A q \in u.pending : q.gen # g
    BY <1>1, <1>2, <2>4
  <2>6. p.gen = v.prepare => p.kind = "Prepare"
    BY <1>1, <1>2, <2>1, <2>2
  <2>7. p.gen = v.play => p.kind \in Launches
    BY <1>1, <1>2, <2>1, <2>2
  <2>8. \A q \in u.pending : /\ q.gen = v.prepare => q.kind = "Prepare"
                             /\ q.gen = v.play => q.kind \in Launches
    BY <2>1, <2>5 DEF Told, Newest
  <2> QED  BY <1>1, <2>3, <2>6, <2>7, <2>8 DEF Newest
<1> QED  BY <1>4, <1>5, <1>6, <1>7, <1>8 DEF Told

-----------------------------------------------------------------------------
(* What applying an answer does                                              *)

LEMMA PrunedIs ==
    ASSUME NEW u, Fields(u)
    PROVE  /\ Untouched(u, Pruned(u)) /\ Pruned(u).emitted = u.emitted /\ Pruned(u).retry = u.retry
           /\ Pruned(u).tracked = u.tracked /\ Pruned(u).windows = u.windows
           /\ Pruned(u).releasing = u.releasing
           /\ Pruned(u).closed = Stay(u.closed, u.acknowledged, u.replays)
           /\ Pruned(u).acknowledged = u.acknowledged \cap Pruned(u).closed
<1> DEFINE kept == Stay(u.closed, u.acknowledged, u.replays)
<1>1. Pruned(u) = [u EXCEPT !.closed = kept, !.acknowledged = u.acknowledged \cap kept]
  BY DEF Pruned, Stay
<1> HIDE DEF kept
<1>2. /\ Untouched(u, Pruned(u)) /\ Pruned(u).emitted = u.emitted /\ Pruned(u).retry = u.retry
      /\ Pruned(u).tracked = u.tracked /\ Pruned(u).windows = u.windows
      /\ Pruned(u).releasing = u.releasing
      /\ Pruned(u).closed = kept /\ Pruned(u).acknowledged = u.acknowledged \cap kept
  BY <1>1 DEF Fields, Untouched
<1> QED  BY <1>2 DEF kept

LEMMA AppliedIs ==
    ASSUME AppInv, ApplyEvent
    PROVE  /\ Applied(ui, Head(ui.inbox), Entry(ui, Head(ui.inbox)), ui')
           /\ ui.inbox # <<>> /\ ~ui.retry /\ UNCHANGED <<mail, app, job, ps, left>>
<1> DEFINE e == Head(ui.inbox)
           p == Entry(ui, e)
           current == Current(ui, p)
           known == Struck(ui, p)
           gone == CASE e.kind = "Released" -> {e.id}
                     [] e.kind = "Invalidated" -> e.released
                     [] OTHER -> {}
           started == e.kind \in {"Started", "Embedded"} /\ p.kind # "Replay"
           closing == CloseEmbedded(known, gone)
           ended == Acknowledged(closing, gone)
           tracked == (ended.tracked \ gone) \cup (IF started THEN {e.id} ELSE {})
           releasing == IF e.kind = "Failed" /\ p.kind = "Release" /\ p.id \in ui.closed
                        THEN ended.releasing \cup {p.id} ELSE ended.releasing
           again == [ended EXCEPT !.tracked = tracked, !.releasing = releasing]
           booked == Pruned(again)
           opened == CASE e.kind = "Embedded" /\ current ->
                            [booked EXCEPT !.windows = @ \cup {e.id}]
                       [] e.kind = "Embedded" /\ ~current -> QueueRelease(booked, e.id)
                       [] OTHER -> booked
           told == CASE e.kind = "Settings" ->
                          [opened EXCEPT !.settings = e.prov, !.accepted = e.prov]
                     [] e.kind = "Failed" /\ p.kind = "Save" /\ ui.accepted # NoProvider ->
                          [opened EXCEPT !.settings = ui.accepted]
                     [] OTHER -> opened
           last(u) == [u EXCEPT !.retry = @ \/ (u.inbox = <<>>)]
           heard == [told EXCEPT !.emitted = Append(@, e)]
           late == e.kind = "Embedded" /\ e.id \in ui.closed
<1>1. /\ ui.inbox # <<>> /\ ~ui.retry /\ UNCHANGED <<mail, app, job, ps, left>>
      /\ ui' = IF late THEN last(Pruned(known)) ELSE IF ~current THEN last(opened) ELSE last(heard)
  BY DEF ApplyEvent, Struck
<1>2. ui \in Uis /\ Windowed(ui)
  BY DEF AppInv, Books
<1>3. late <=> Late(ui, e)
  BY DEF Late
<1>4. gone = GoneBy(e) /\ (started <=> Opens(e) /\ p.kind # "Replay")
  BY DEF GoneBy, Opens
<1>5. /\ Fields(known) /\ known.next = ui.next /\ known.inbox = Tail(ui.inbox)
      /\ known.pending = ui.pending \ {p}
      /\ known.replays = {r \in ui.replays : r.gen # e.gen}
      /\ known.prepare = ui.prepare /\ known.play = ui.play /\ known.emitted = ui.emitted
      /\ known.tracked = ui.tracked /\ known.windows = ui.windows /\ known.closed = ui.closed
      /\ known.acknowledged = ui.acknowledged /\ known.releasing = ui.releasing
      /\ known.retry = ui.retry
  <2> DEFINE t == Tail(ui.inbox)
             P == ui.pending \ {p}
             R == {r \in ui.replays : r.gen # e.gen}
  <2>1. known = [ui EXCEPT !.inbox = t, !.pending = P, !.replays = R]
    BY DEF Struck
  <2> HIDE DEF t, P, R, known, e, p
  <2>2. /\ Fields(known) /\ known.next = ui.next /\ known.inbox = t
        /\ known.pending = P /\ known.replays = R
        /\ known.prepare = ui.prepare /\ known.play = ui.play /\ known.emitted = ui.emitted
        /\ known.tracked = ui.tracked /\ known.windows = ui.windows /\ known.closed = ui.closed
        /\ known.acknowledged = ui.acknowledged /\ known.releasing = ui.releasing
        /\ known.retry = ui.retry
    BY <1>2, <2>1 DEF Uis, Fields
  <2> QED  BY <2>2 DEF t, P, R
<1> HIDE DEF known, started, gone, p, current, e, late
<1>6. ASSUME NEW u, Fields(u)
      PROVE  /\ Untouched(u, last(u)) /\ last(u).emitted = u.emitted
             /\ last(u).tracked = u.tracked /\ last(u).windows = u.windows
             /\ last(u).closed = u.closed /\ last(u).acknowledged = u.acknowledged
             /\ last(u).releasing = u.releasing /\ (u.inbox = <<>> => last(u).retry)
  BY <1>6 DEF Fields, Untouched
<1> HIDE DEF last
<1>7. CASE late
  <2>1. /\ Untouched(known, Pruned(known)) /\ Pruned(known).emitted = known.emitted
        /\ Pruned(known).tracked = known.tracked /\ Pruned(known).windows = known.windows
        /\ Pruned(known).releasing = known.releasing
        /\ Pruned(known).closed = Stay(known.closed, known.acknowledged, known.replays)
        /\ Pruned(known).acknowledged = known.acknowledged \cap Pruned(known).closed
    BY <1>5, PrunedIs
  <2> DEFINE k == Pruned(known)
  <2> HIDE DEF k
  <2>2. ui' = last(k)
    BY <1>1, <1>7 DEF k
  <2>3. Fields(k) /\ Untouched(known, k)
    BY <2>1 DEF k, Untouched
  <2>4. /\ Untouched(k, ui') /\ ui'.emitted = k.emitted
        /\ ui'.tracked = k.tracked /\ ui'.windows = k.windows
        /\ ui'.closed = k.closed /\ ui'.acknowledged = k.acknowledged
        /\ ui'.releasing = k.releasing /\ (k.inbox = <<>> => ui'.retry)
    BY <1>6, <2>2, <2>3
  <2>5. CrossedOff(ui, e, p, ui')
    BY <1>3, <1>5, <1>7, <2>1, <2>3, <2>4 DEF CrossedOff, Untouched, k
  <2>6. Passed(ui, ui')
    BY <1>5, <2>1, <2>3, <2>4 DEF Passed, Untouched, k
  <2>7. Applied(ui, e, p, ui')
    BY <1>3, <1>7, <2>5, <2>6 DEF Applied
  <2> QED  BY <1>1, <2>7 DEF e, p
<1>8. CASE ~late
  <2>1. /\ Untouched(known, closing) /\ closing.emitted = ui.emitted /\ closing.retry = ui.retry
        /\ closing.tracked = ui.tracked /\ closing.releasing = ui.releasing
        /\ closing.windows = ui.windows \ gone
        /\ closing.closed = ui.closed \cup (gone \cap ui.windows)
        /\ closing.acknowledged = ui.acknowledged
    <3> DEFINE shut == gone \cap known.windows
    <3>1. closing = [known EXCEPT !.windows = known.windows \ shut,
                                  !.closed = known.closed \cup shut,
                                  !.acknowledged = known.acknowledged \ shut]
      BY DEF CloseEmbedded
    <3>2. known.windows \ shut = ui.windows \ gone /\ shut = gone \cap ui.windows
      BY <1>5
    <3>3. known.acknowledged \ shut = ui.acknowledged
      BY <1>2, <1>5, <3>2 DEF Windowed
    <3> HIDE DEF shut, closing
    <3> QED  BY <1>5, <3>1, <3>2, <3>3 DEF Fields, Untouched
  <2> HIDE DEF closing
  <2>2. /\ Untouched(closing, ended) /\ ended.emitted = ui.emitted /\ ended.retry = ui.retry
        /\ ended.tracked = ui.tracked /\ ended.windows = closing.windows
        /\ ended.closed = closing.closed
        /\ ended.releasing = ui.releasing \ gone
        /\ ended.acknowledged = ui.acknowledged \cup (gone \cap closing.closed)
    BY <2>1 DEF Fields, Untouched, Acknowledged
  <2> HIDE DEF ended
  <2>3. /\ Untouched(ended, again) /\ again.emitted = ui.emitted /\ again.retry = ui.retry
        /\ again.tracked = tracked /\ again.releasing = releasing
        /\ again.windows = closing.windows /\ again.closed = closing.closed
        /\ again.acknowledged = ended.acknowledged
    <3> HIDE DEF tracked, releasing
    <3> QED  BY <2>1, <2>2 DEF Fields, Untouched
  <2> HIDE DEF again
  <2>4. Fields(again)
    BY <2>3 DEF Untouched
  <2>5. /\ Untouched(again, booked) /\ booked.emitted = again.emitted /\ booked.retry = again.retry
        /\ booked.tracked = again.tracked /\ booked.windows = again.windows
        /\ booked.releasing = again.releasing
        /\ booked.closed = Stay(again.closed, again.acknowledged, again.replays)
        /\ booked.acknowledged = again.acknowledged \cap booked.closed
    BY <2>4, PrunedIs
  <2> HIDE DEF booked
  <2>6. /\ Untouched(booked, opened) /\ opened.emitted = booked.emitted
        /\ opened.tracked = booked.tracked /\ opened.acknowledged = booked.acknowledged
        /\ LET dropped == e.kind = "Embedded" /\ ~current IN
           /\ opened.windows = (IF dropped THEN booked.windows \ {e.id}
                                ELSE IF e.kind = "Embedded" THEN booked.windows \cup {e.id}
                                ELSE booked.windows)
           /\ opened.releasing = booked.releasing \cup (IF dropped THEN {e.id} ELSE {})
           /\ opened.closed = booked.closed \cup (IF dropped THEN {e.id} ELSE {})
    <3>1. CASE e.kind = "Embedded" /\ current
      <4>1. opened = [booked EXCEPT !.windows = @ \cup {e.id}]
        BY <3>1
      <4> HIDE DEF opened
      <4> QED  BY <2>5, <3>1, <4>1 DEF Fields, Untouched
    <3>2. CASE e.kind = "Embedded" /\ ~current
      <4>1. opened = QueueRelease(booked, e.id)
        BY <3>2
      <4> HIDE DEF opened
      <4> QED  BY <2>5, <3>2, <4>1 DEF Fields, Untouched, QueueRelease
    <3>3. CASE e.kind # "Embedded"
      <4>1. opened = booked
        BY <3>3
      <4> HIDE DEF opened
      <4> QED  BY <2>5, <3>3, <4>1 DEF Fields, Untouched
    <3> QED  BY <3>1, <3>2, <3>3
  <2> HIDE DEF opened
  <2>7. /\ Untouched(opened, told) /\ told.emitted = opened.emitted
        /\ told.tracked = opened.tracked /\ told.acknowledged = opened.acknowledged
        /\ told.windows = opened.windows /\ told.releasing = opened.releasing
        /\ told.closed = opened.closed
    <3>1. \/ told = [opened EXCEPT !.settings = e.prov, !.accepted = e.prov]
          \/ told = [opened EXCEPT !.settings = ui.accepted]
          \/ told = opened
      OBVIOUS
    <3> HIDE DEF told
    <3> QED  BY <2>6, <3>1 DEF Fields, Untouched
  <2> HIDE DEF told
  <2>8. /\ Untouched(told, heard) /\ heard.emitted = Append(told.emitted, e)
        /\ heard.tracked = told.tracked /\ heard.acknowledged = told.acknowledged
        /\ heard.windows = told.windows /\ heard.releasing = told.releasing
        /\ heard.closed = told.closed
    BY <2>7 DEF Fields, Untouched
  <2> HIDE DEF heard
  <2>9. PICK k : /\ ui' = last(k) /\ Untouched(opened, k)
                 /\ k.emitted = (IF current THEN Append(ui.emitted, e) ELSE ui.emitted)
                 /\ k.tracked = opened.tracked /\ k.acknowledged = opened.acknowledged
                 /\ k.windows = opened.windows /\ k.releasing = opened.releasing
                 /\ k.closed = opened.closed
    <3>1. CASE current
      <4>1. Untouched(opened, heard)
        BY <2>7, <2>8 DEF Untouched
      <4>2. heard.emitted = Append(ui.emitted, e)
        BY <2>3, <2>5, <2>6, <2>7, <2>8
      <4> WITNESS heard
      <4> QED  BY <1>1, <1>8, <2>7, <2>8, <3>1, <4>1, <4>2
    <3>2. CASE ~current
      <4>1. Untouched(opened, opened)
        BY <2>6 DEF Untouched
      <4>2. opened.emitted = ui.emitted
        BY <2>3, <2>5, <2>6
      <4> WITNESS opened
      <4> QED  BY <1>1, <1>8, <3>2, <4>1, <4>2
    <3> QED  BY <3>1, <3>2
  <2>10. Fields(k)
    BY <2>9 DEF Untouched
  <2>11. /\ Untouched(k, ui') /\ ui'.emitted = k.emitted
         /\ ui'.tracked = k.tracked /\ ui'.windows = k.windows
         /\ ui'.closed = k.closed /\ ui'.acknowledged = k.acknowledged
         /\ ui'.releasing = k.releasing /\ (k.inbox = <<>> => ui'.retry)
    BY <1>6, <2>9, <2>10
  <2>12. Untouched(known, ui')
    BY <2>1, <2>2, <2>3, <2>5, <2>6, <2>9, <2>11 DEF Untouched
  <2>13. CrossedOff(ui, e, p, ui')
    <3>1. ui'.emitted = (IF Current(ui, p) /\ ~Late(ui, e) THEN Append(ui.emitted, e) ELSE ui.emitted)
      BY <1>3, <1>8, <2>9, <2>11 DEF current
    <3>2. ui'.inbox = k.inbox
      BY <2>11 DEF Untouched
    <3> QED  BY <1>5, <2>11, <2>12, <3>1, <3>2 DEF CrossedOff, Untouched
  <2>14. Booked(ui, e, p, ui')
    <3>1. again.replays = ui'.replays
      BY <2>5, <2>6, <2>9, <2>11 DEF Untouched
    <3>2. booked.closed = Stay(ui.closed \cup (gone \cap ui.windows),
                               ui.acknowledged \cup (gone \cap (ui.closed \cup (gone \cap ui.windows))),
                               ui'.replays)
      BY <2>1, <2>2, <2>3, <2>5, <3>1
    <3>3. booked.acknowledged =
            (ui.acknowledged \cup (gone \cap (ui.closed \cup (gone \cap ui.windows))))
              \cap booked.closed
      BY <2>1, <2>2, <2>3, <2>5
    <3>4. ui'.tracked = (ui.tracked \ gone)
                          \cup (IF Opens(e) /\ p.kind # "Replay" THEN {e.id} ELSE {})
      BY <1>4, <2>2, <2>3, <2>5, <2>6, <2>9, <2>11
    <3>5. /\ booked.windows = ui.windows \ gone
          /\ booked.releasing = (ui.releasing \ gone)
               \cup (IF e.kind = "Failed" /\ p.kind = "Release" /\ p.id \in ui.closed
                     THEN {p.id} ELSE {})
      BY <2>1, <2>2, <2>3, <2>5
    <3> QED  BY <1>4, <2>6, <2>9, <2>11, <3>2, <3>3, <3>4, <3>5 DEF Booked, current
  <2>15. Applied(ui, e, p, ui')
    BY <1>3, <1>8, <2>13, <2>14 DEF Applied
  <2> QED  BY <1>1, <2>15 DEF e, p
<1> QED  BY <1>7, <1>8

-----------------------------------------------------------------------------
(* A step of the interface that asks for nothing                             *)

LEMMA WaivedLessens == ASSUME NEW u, NEW v, Waived(u, v) PROVE Lessens(u, v)
<1> QED  BY DEF Waived, Lessens

LEMMA LessensTold ==
    ASSUME NEW m, NEW u \in Uis, NEW n, NEW v, Numbered(u), Told(m, u),
           Marked(m, n), Lessens(u, v)
    PROVE  Told(n, v) /\ \A j : JobTold(u, j) => JobTold(v, j)
<1>1. Flying(n, v) = Flying(m, u)
  BY MarkedFlies DEF Marked, Lessens
<1>2. /\ Matched(n, v) /\ (\A x : Old(v, x) <=> Old(u, x))
      /\ \A j : JobTold(u, j) => JobTold(v, j)
  BY <1>1, SameTold DEF Marked, Lessens
<1>3. v.tracked \cup v.windows \cup v.closed \cup v.releasing
        \subseteq u.tracked \cup u.windows \cup u.closed \cup u.releasing
  BY DEF Lessens
<1>4. Named(v)
  <2>1. \A p \in v.pending : p.kind \in {"Release", "Replay", "Play"} => Old(v, p.id)
    BY <1>2 DEF Told, Named, Lessens
  <2>2. \A x \in v.tracked \cup v.windows \cup v.closed \cup v.releasing : Old(v, x)
    BY <1>2, <1>3 DEF Told, Named
  <2>3. \A e \in Held(v.emitted) : IF Nameless(e) THEN e.gen = 0 ELSE Old(v, e.gen)
    BY <1>2 DEF Told, Named, Lessens
  <2> QED  BY <2>1, <2>2, <2>3 DEF Named
<1>5. Replayed(v)
  BY DEF Told, Replayed, Lessens
<1>6. Newest(v)
  <2>1. v.prepare <= v.next /\ v.play <= v.next
    BY DEF Told, Newest, Lessens, Uis
  <2>2. \A p \in u.pending : p.gen # 0
    BY DEF Numbered
  <2> QED  BY <2>1, <2>2 DEF Told, Newest, Lessens
<1> QED  BY <1>2, <1>4, <1>5, <1>6 DEF Told

LEMMA LessensLeased ==
    ASSUME NEW m, NEW u, NEW n, NEW v, Leased(m, u), Marked(m, n), Lessens(u, v), Tombs(n, v)
    PROVE  Leased(n, v)
<1>1. /\ Flying(n, v) = Flying(m, u)
      /\ \A a, b : Precedes(n, v, a, b) <=> Precedes(m, u, a, b)
  BY MarkedFlies DEF Marked, Lessens
<1>2. n.active = m.active /\ n.queue = m.queue /\ v.tracked = u.tracked /\ v.next = u.next
  BY DEF Marked, Lessens
<1>3. LeaseKnown(n, v) /\ Served(n)
  BY <1>1, <1>2 DEF Leased, LeaseKnown, Served, Begun
<1>4. GoneForGood(n, v) /\ Tracked(n, v) /\ Serving(n, v)
  BY <1>1, <1>2 DEF Leased, GoneForGood, Tracked, Serving
<1>5. Windowing(n, v)
  BY <1>1, <1>2 DEF Leased, Windowing, Lessens
<1> QED  BY <1>3, <1>4, <1>5 DEF Leased

LEMMA LessensVoided ==
    ASSUME NEW m, NEW u, NEW n, NEW v, Voided(m, u), Marked(m, n), Lessens(u, v)
    PROVE  /\ Voided(n, v)
           /\ \A g : Doomed(m, u, g) => Doomed(n, v, g)
<1>1. /\ Flying(n, v) = Flying(m, u)
      /\ \A a, b : Precedes(n, v, a, b) <=> Precedes(m, u, a, b)
  BY MarkedFlies DEF Marked, Lessens
<1>2. /\ AllEvents(n, v) \subseteq AllEvents(m, u)
      /\ \A a, b : Ahead(n, v, a, b) => Ahead(m, u, a, b)
      /\ Plays(v) = Plays(u)
  BY <1>1 DEF AllEvents, Ahead, Lessens, Plays
<1>3. \A g : Void(n, g) <=> Void(m, g)
  BY DEF Void, Marked
<1>4. Voided(n, v)
  BY <1>1, <1>2, <1>3 DEF Voided
<1>5. \A g : Doomed(m, u, g) => Doomed(n, v, g)
  BY <1>1, <1>3 DEF Doomed
<1> QED  BY <1>4, <1>5

LEMMA LessensKept ==
    ASSUME NEW m, NEW u \in Uis, NEW n, NEW v, Numbered(u), Kept(m, u), Marked(m, n),
           Lessens(u, v), Tombs(m, u) => Tombs(n, v)
    PROVE  /\ Kept(n, v)
           /\ \A g : Doomed(m, u, g) => Doomed(n, v, g)
           /\ Plays(v) = Plays(u) /\ \A x : Asked(v, x) <=> Asked(u, x)
<1>1. n.stopped = m.stopped
  BY DEF Marked
<1>2. ~n.stopped => Leased(n, v)
  BY <1>1, LessensLeased DEF Kept, Leased
<1>3. Told(n, v) /\ JobTold(v, job)
  BY LessensTold DEF Kept
<1>4. Voided(n, v) /\ \A g : Doomed(m, u, g) => Doomed(n, v, g)
  BY LessensVoided DEF Kept
<1>5. Plays(v) = Plays(u) /\ \A x : Asked(v, x) <=> Asked(u, x)
  BY DEF Lessens, Plays, Asked
<1> QED  BY <1>2, <1>3, <1>4, <1>5 DEF Kept

\* Giving up: what is waited for is no longer the newest.
LEMMA WaivedKept ==
    ASSUME NEW m, NEW u \in Uis, NEW n, NEW v, Numbered(u), Kept(m, u), Marked(m, n),
           Waived(u, v)
    PROVE  /\ Kept(n, v)
           /\ \A g : Doomed(m, u, g) => Doomed(n, v, g)
           /\ Plays(v) = Plays(u) /\ \A x : Asked(v, x) <=> Asked(u, x)
<1>1. Tombs(m, u) => Tombs(n, v)
  BY DEF Tombs, Buried, Waived, Marked, Accepts
<1>2. Lessens(u, v)
  BY WaivedLessens
<1> QED  BY <1>1, <1>2, LessensKept

LEMMA WaivedSought ==
    ASSUME NEW m, NEW u \in Uis, NEW n, NEW v, Numbered(u), Kept(m, u), Marked(m, n),
           Waived(u, v), NEW q, Sought(m, u, q), Waiting(u, q)
    PROVE  Sought(n, v, q) /\ Waiting(v, q)
<1>1. /\ \A g : Doomed(m, u, g) => Doomed(n, v, g)
      /\ Plays(v) = Plays(u) /\ \A x : Asked(v, x) <=> Asked(u, x)
  BY WaivedKept
<1>2. /\ v.play \in {u.play, 0} /\ v.prepare \in {u.prepare, 0} /\ v.emitted = u.emitted
      /\ v.pending = u.pending
  BY DEF Waived
<1>3. \A p \in Plays(u) : p.gen # 0
  BY DEF Numbered, Plays
<1> QED  BY <1>1, <1>2, <1>3 DEF Sought, Waiting

\* What the play session gives up is nobody's any more.
LEMMA AbandonedKept ==
    ASSUME NEW m, NEW u, NEW s, Books(m, u), Kept(m, u), Sought(m, u, s.pending),
           NEW q, q = 0 \/ Asked(u, q)
    PROVE  LET n == Abandoned(m, u, s).mail
               v == Abandoned(m, u, s).ui
           IN  Kept(n, v) /\ Sought(n, v, q) /\ Waiting(v, q)
<1> DEFINE n == Abandoned(m, u, s).mail
           v == Abandoned(m, u, s).ui
<1>1. u \in Uis /\ Numbered(u)
  BY DEF Books
<1>2. Marked(m, n) /\ Waived(u, v) /\ (s.pending # 0 => v.play # s.pending)
  BY AbandonedIs
<1> HIDE DEF n, v
<1>3. /\ Kept(n, v) /\ \A g : Doomed(m, u, g) => Doomed(n, v, g)
      /\ Plays(v) = Plays(u) /\ \A x : Asked(v, x) <=> Asked(u, x)
  BY <1>1, <1>2, WaivedKept
<1>4. ASSUME NEW p \in Plays(u), p.gen = v.play PROVE Doomed(n, v, p.gen)
  <2>1. p.gen # 0
    BY <1>1 DEF Numbered, Plays
  <2>2. v.play = u.play /\ s.pending # p.gen
    BY <1>2, <1>4, <2>1 DEF Waived
  <2> QED  BY <1>3, <1>4, <2>2 DEF Sought
<1>5. Sought(n, v, q)
  BY <1>3, <1>4 DEF Sought
<1>6. Waiting(v, q)
  BY <1>3 DEF Waiting
<1> QED  BY <1>3, <1>5, <1>6 DEF n, v

-----------------------------------------------------------------------------
(* A command is admitted                                                     *)

\* A generation that was given is not the new one, and what is said to be gone
\* had its generation before.
LEMMA IssuedLeased ==
    ASSUME NEW m, NEW u, NEW c, NEW n, NEW v \in Uis, Books(m, u), Leased(m, u), Accepts(m),
           Posted(m, u.next + 1, c, n), Recorded(u, c, v)
    PROVE  Leased(n, v)
<1>1. /\ u \in Uis /\ u.next \in Nat /\ v.next = u.next + 1 /\ u.pending \subseteq v.pending
      /\ v.inbox = u.inbox /\ v.tracked = u.tracked /\ v.releasing = u.releasing
      /\ v.acknowledged = u.acknowledged /\ v.retry = u.retry /\ u.replays \subseteq v.replays
      /\ n.active = m.active
  BY DEF Books, Uis, Recorded, Posted
<1>2. /\ Flying(m, u) \subseteq Flying(n, v)
      /\ \A e \in Flying(n, v) : e \in Flying(m, u) \/ e.kind = "Failed"
      /\ \A a, b : Precedes(m, u, a, b) => Precedes(n, v, a, b)
  BY <1>1, PostedFlies
<1>3. \A e : e.kind = "Failed" => /\ GoneBy(e) = {} /\ ~Opens(e) /\ ~Launched(e)
                                  /\ e.kind # "Embedded"
  BY DEF GoneBy, Opens, Launched
<1>4. /\ v.windows \subseteq u.windows /\ v.windows \cup v.closed = u.windows \cup u.closed
      /\ \A x \in v.closed : x \in u.closed \/ (c.kind = "Release" /\ x = c.id)
  BY DEF Recorded
<1>5. LeaseKnown(n, v)
  BY <1>1, <1>2 DEF Leased, LeaseKnown, Begun
<1>6. Served(n)
  BY <1>1 DEF Leased, Served
<1>7. ASSUME NEW x \in 1..u.next, ~Has(m.queue, x)
      PROVE  x \in 1..v.next /\ ~Has(n.queue, x)
  <2>1. x \in 1..v.next /\ x # u.next + 1
    BY <1>1, <1>7
  <2>2. \A r \in Held(n.queue) : r \in Held(m.queue) \/ r.gen = u.next + 1
    BY DEF Posted
  <2> QED  BY <1>7, <2>1, <2>2, HeldHas
<1>8. GoneForGood(n, v)
  <2>1. ASSUME NEW e \in Flying(n, v), NEW x \in GoneBy(e)
        PROVE  x \notin app.leases /\ x \in 1..v.next /\ ~Has(n.queue, x) /\ x # n.active
    <3>1. e \in Flying(m, u)
      BY <1>2, <1>3, <2>1
    <3>2. x \notin app.leases /\ x \in 1..u.next /\ ~Has(m.queue, x) /\ x # m.active
      BY <2>1, <3>1 DEF Leased, GoneForGood
    <3> QED  BY <1>1, <1>7, <3>2
  <2> QED  BY <2>1 DEF Leased, GoneForGood
<1>9. Tracked(n, v) /\ Serving(n, v)
  BY <1>1, <1>2, <1>3 DEF Leased, Tracked, Serving
<1>10. Windowing(n, v)
  <2>1. Windowing(m, u)
    BY DEF Leased
  <2>2. /\ v.windows \subseteq v.tracked
        /\ \A s \in app.sessions :
             s.managed /\ s.id \in v.tracked => s.id \in v.windows \cup v.closed
        /\ Ended(job) /\ job.outcome.kind = "Embedded" /\ job.outcome.id # job.req.gen =>
             job.outcome.id \in v.windows \cup v.closed
    BY <1>1, <1>4, <2>1 DEF Windowing
  <2>3. \A s \in app.sessions, a \in Flying(n, v) :
          Launched(a) /\ s.id = a.id => (s.managed <=> a.kind = "Embedded")
    BY <1>2, <1>3, <2>1 DEF Windowing
  <2>4. \A a \in Flying(n, v) :
          a.kind = "Embedded" /\ a.id # a.gen => a.id \in v.windows \cup v.closed
    <3> SUFFICES ASSUME NEW a \in Flying(n, v), a.kind = "Embedded", a.id # a.gen
                 PROVE  a.id \in u.windows \cup u.closed
      BY <1>4
    <3>1. a \in Flying(m, u)
      BY <1>2
    <3> QED  BY <2>1, <3>1 DEF Windowing
  <2> QED  BY <2>2, <2>3, <2>4 DEF Windowing
<1>11. Tombs(n, v)
  <2>1. ASSUME NEW x \in v.closed PROVE Buried(v, x)
    <3>1. CASE x \in u.closed
      <4>1. Buried(u, x)
        BY <3>1 DEF Leased, Tombs
      <4> QED  BY <1>1, <4>1 DEF Buried
    <3>2. CASE c.kind = "Release" /\ x = c.id
      <4> DEFINE p == [gen |-> u.next + 1, kind |-> c.kind, id |-> c.id]
      <4>1. p \in v.pending
        BY DEF Recorded
      <4>2. p.kind = "Release" /\ p.id = x
        BY <3>2
      <4> HIDE DEF p
      <4> QED  BY <4>1, <4>2 DEF Buried
    <3> QED  BY <1>4, <3>1, <3>2
  <2>2. ~(u.releasing # {} /\ ~u.retry /\ u.inbox = <<>>)
    BY DEF Leased, Tombs
  <2> QED  BY <1>1, <2>1, <2>2 DEF Leased, Tombs
<1> QED  BY <1>5, <1>6, <1>8, <1>9, <1>10, <1>11 DEF Leased

LEMMA IssuedVoided ==
    ASSUME NEW m, NEW u, NEW c, NEW n, NEW v \in Uis, Books(m, u), Voided(m, u),
           Posted(m, u.next + 1, c, n), Recorded(u, c, v),
           /\ c.kind = "Play"
           /\ \E b \in AllEvents(m, u) : b.kind = "Invalidated"
           => c.id # app.prepared.gen
    PROVE  /\ Voided(n, v)
           /\ \A g \in 1..u.next : Doomed(m, u, g) => Doomed(n, v, g)
<1> DEFINE g == u.next + 1
           p == [gen |-> g, kind |-> c.kind, id |-> c.id]
<1>1. /\ u \in Uis /\ u.next \in Nat /\ Numbered(u) /\ v.pending = u.pending \cup {p}
      /\ v.inbox = u.inbox /\ v.emitted = u.emitted /\ n.active = m.active /\ m \in Mails
  BY DEF Books, Uis, Recorded, Posted
<1>2. p.gen = g /\ p.kind = c.kind
  OBVIOUS
<1> HIDE DEF p
<1>3. /\ Flying(m, u) \subseteq Flying(n, v)
      /\ \A e \in Flying(n, v) : \/ e \in Flying(m, u)
                                 \/ e.kind = "Failed" /\ Has(m.queue, e.gen) /\ e.gen # 0
      /\ \A a, b : Precedes(m, u, a, b) => Precedes(n, v, a, b)
      /\ \A a, b : Precedes(n, v, a, b) => Precedes(m, u, a, b) \/ b.kind = "Failed"
  BY <1>1, PostedFlies
<1>4. /\ \A e \in AllEvents(n, v) : e \in AllEvents(m, u) \/ e.kind = "Failed"
      /\ \A a, b : Ahead(n, v, a, b) => Ahead(m, u, a, b) \/ b.kind = "Failed"
  BY <1>1, <1>3 DEF AllEvents, Ahead
<1>5. \A x \in 1..u.next : x # g /\ x \in Nat
  BY <1>1
<1>6. \A x \in 1..u.next : Void(m, x) => Void(n, x)
  <2> SUFFICES ASSUME NEW x \in 1..u.next, Void(m, x) PROVE Void(n, x)
    OBVIOUS
  <2>1. \A r \in Held(n.queue) : r.gen = x => r \in Held(m.queue)
    BY <1>5 DEF Posted, g
  <2> QED  BY <1>1, <2>1 DEF Void
<1>7. \A x \in 1..u.next : Doomed(m, u, x) => Doomed(n, v, x)
  BY <1>3, <1>6 DEF Doomed
<1>8. m.active # g /\ ~Has(m.queue, g) /\ ~Has(m.events, g) /\ ~Has(u.inbox, g)
  BY NextIsNew DEF g
<1>9. \A q \in Plays(v) : (q \in Plays(u) /\ q.gen \in 1..u.next) \/ (q = p /\ c.kind = "Play")
  BY <1>1, <1>2 DEF Plays, Numbered
<1>10. ASSUME NEW b \in AllEvents(n, v), b.kind = "Invalidated", NEW q \in Plays(v)
       PROVE  Void(n, q.gen)
  <2>1. b \in AllEvents(m, u)
    BY <1>4, <1>10
  <2>2. CASE q \in Plays(u) /\ q.gen \in 1..u.next
    BY <1>6, <1>10, <2>1, <2>2 DEF Voided
  <2>3. CASE q = p /\ c.kind = "Play"
    <3>1. c.id # app.prepared.gen
      BY <1>10, <2>1, <2>3
    <3>2. \A r \in Held(n.queue) : r.gen = g => r.id = c.id
      BY <1>8, HeldHas DEF Posted, g
    <3> QED  BY <1>1, <1>2, <1>8, <2>3, <3>1, <3>2 DEF Void
  <2> QED  BY <1>9, <2>2, <2>3
<1>11. ASSUME NEW q \in Plays(v), NEW a \in AllEvents(n, v), NEW b \in Flying(n, v),
              a.kind = "Invalidated", b.gen = q.gen, Ahead(n, v, a, b)
       PROVE  b.kind = "Failed"
  <2>1. CASE q \in Plays(u)
    <3>1. a \in AllEvents(m, u)
      BY <1>4, <1>11
    <3>2. CASE b \in Flying(m, u) /\ Ahead(m, u, a, b)
      BY <1>11, <2>1, <3>1, <3>2 DEF Voided
    <3> QED  BY <1>3, <1>4, <1>11, <3>2
  <2>2. CASE q = p
    <3>1. \A e \in Flying(m, u) : e.gen # g
      BY <1>8, HeldHas DEF Flying
    <3> QED  BY <1>2, <1>3, <1>11, <2>2, <3>1
  <2> QED  BY <1>9, <2>1, <2>2
<1>12. \A a, b \in AllEvents(n, v) :
         a.kind = "Prepared" /\ b.kind = "Invalidated" /\ Ahead(n, v, a, b) =>
           a.gen # app.prepared.gen
  <2> SUFFICES ASSUME NEW a \in AllEvents(n, v), NEW b \in AllEvents(n, v), a.kind = "Prepared",
                      b.kind = "Invalidated", Ahead(n, v, a, b)
               PROVE  a.gen # app.prepared.gen
    OBVIOUS
  <2>1. a \in AllEvents(m, u) /\ b \in AllEvents(m, u) /\ Ahead(m, u, a, b)
    BY <1>4
  <2> QED  BY <2>1 DEF Voided
<1>13. Voided(n, v)
  BY <1>10, <1>11, <1>12 DEF Voided
<1> QED  BY <1>7, <1>13

\* A command the interface gives, admitted or not.
LEMMA IssueKept ==
    ASSUME NEW m, NEW u, NEW c \in Commands, Fit(c), Books(m, u), Kept(m, u), Refers(u, c),
           /\ c.kind = "Play"
           /\ \E b \in AllEvents(m, u) : b.kind = "Invalidated"
           => c.id # app.prepared.gen
    PROVE  Kept(Issue(m, u, c).mail, Issue(m, u, c).ui)
<1> DEFINE n == Issue(m, u, c).mail
           v == Issue(m, u, c).ui
<1>1. v \in Uis /\ u \in Uis /\ Numbered(u)
  BY IssueBooks DEF Books
<1>2. CASE Accepts(m)
  <2>1. Posted(m, u.next + 1, c, n) /\ Recorded(u, c, v)
    BY <1>2, IssueTakes
  <2> HIDE DEF n, v
  <2>2. Told(n, v) /\ JobTold(v, job)
    BY <1>1, <2>1, IssuedTold DEF Kept
  <2>3. n.stopped = m.stopped
    BY <2>1 DEF Posted
  <2>4. ~n.stopped => Leased(n, v)
    BY <1>1, <1>2, <2>1, <2>3, IssuedLeased DEF Kept
  <2>5. Voided(n, v)
    BY <1>1, <2>1, IssuedVoided DEF Kept
  <2>6. Kept(n, v)
    BY <2>2, <2>4, <2>5 DEF Kept
  <2> QED  BY <2>6 DEF n, v
<1>3. CASE ~Accepts(m)
  <2>1. n = m /\ Waived(u, v)
    BY <1>3, IssueRefuses
  <2>2. Marked(m, m)
    BY DEF Marked
  <2>3. Kept(m, v)
    BY <1>1, <2>1, <2>2, WaivedKept
  <2> QED  BY <2>1, <2>3
<1> QED  BY <1>2, <1>3

\* A command that is no playback leaves the playback that is sought.
LEMMA IssueSought ==
    ASSUME NEW m, NEW u, NEW c \in Commands, Fit(c), Books(m, u), Kept(m, u), Refers(u, c),
           c.kind # "Play", NEW q \in Nat, q <= u.next, Sought(m, u, q), Waiting(u, q)
    PROVE  LET n == Issue(m, u, c).mail
               v == Issue(m, u, c).ui
           IN  Sought(n, v, q) /\ Waiting(v, q)
<1> DEFINE n == Issue(m, u, c).mail
           v == Issue(m, u, c).ui
           g == u.next + 1
           p == [gen |-> g, kind |-> c.kind, id |-> c.id]
<1>1. v \in Uis /\ u \in Uis /\ Numbered(u) /\ u.next \in Nat
  BY IssueBooks DEF Books, Uis
<1>2. CASE Accepts(m)
  <2>1. Posted(m, g, c, n) /\ Recorded(u, c, v)
    BY <1>2, IssueTakes
  <2> HIDE DEF n, v
  <2>2. \A x \in 1..u.next : Doomed(m, u, x) => Doomed(n, v, x)
    BY <1>1, <2>1, IssuedVoided DEF Kept
  <2>3. /\ v.pending = u.pending \cup {p} /\ p.kind = c.kind /\ p.gen = g /\ v.emitted = u.emitted
        /\ v.prepare \in {u.prepare, g} /\ v.play \in {u.play, g}
    BY <2>1 DEF Recorded
  <2> HIDE DEF p
  <2>4. g # q /\ \A x \in 1..u.next : x # g
    BY <1>1
  <2>5. \A x \in Plays(v) : x \in Plays(u) /\ x.gen \in 1..u.next
    BY <1>1, <2>3 DEF Plays, Numbered
  <2>6. Sought(n, v, q)
    <3> SUFFICES ASSUME NEW x \in Plays(v), x.gen = v.play PROVE q = x.gen \/ Doomed(n, v, x.gen)
      BY DEF Sought
    <3>1. x \in Plays(u) /\ x.gen \in 1..u.next /\ x.gen = u.play
      BY <2>3, <2>4, <2>5
    <3> QED  BY <2>2, <3>1 DEF Sought
  <2>7. Waiting(v, q)
    BY <2>3, <2>4 DEF Waiting, Asked
  <2> QED  BY <2>6, <2>7 DEF n, v
<1>3. CASE ~Accepts(m)
  <2>1. n = m /\ Waived(u, v)
    BY <1>3, IssueRefuses
  <2>2. Marked(m, m)
    BY DEF Marked
  <2>3. Sought(m, v, q) /\ Waiting(v, q)
    BY <1>1, <2>1, <2>2, WaivedSought
  <2> QED  BY <2>1, <2>3
<1> QED  BY <1>2, <1>3

\* A playback is the one that is sought from then on.
LEMMA IssuePlay ==
    ASSUME NEW m, NEW u, NEW c \in Commands, Fit(c), Books(m, u), c.kind = "Play"
    PROVE  LET n == Issue(m, u, c).mail
               v == Issue(m, u, c).ui
               q == Issue(m, u, c).gen
           IN  Sought(n, v, q) /\ Waiting(v, q)
<1> DEFINE n == Issue(m, u, c).mail
           v == Issue(m, u, c).ui
           q == Issue(m, u, c).gen
           g == u.next + 1
           p == [gen |-> g, kind |-> c.kind, id |-> c.id]
<1>1. Numbered(u) /\ c.kind \in Launches
  BY DEF Books, Launches
<1>2. CASE Accepts(m)
  <2>1. Recorded(u, c, v) /\ q = g
    BY <1>2, IssueTakes
  <2> HIDE DEF n, v, q
  <2>2. v.pending = u.pending \cup {p} /\ p.gen = g /\ v.play = g
    BY <1>1, <2>1 DEF Recorded
  <2> HIDE DEF p
  <2>3. Sought(n, v, q) /\ Waiting(v, q)
    BY <2>1, <2>2 DEF Sought, Waiting, Asked
  <2> QED  BY <2>3 DEF n, v, q
<1>3. CASE ~Accepts(m)
  <2>1. n = m /\ Waived(u, v) /\ v.play = 0 /\ q = 0
    BY <1>1, <1>3, IssueRefuses
  <2>2. \A x \in Plays(v) : x.gen # 0
    BY <1>1, <2>1 DEF Waived, Plays, Numbered
  <2> HIDE DEF n, v, q
  <2>3. Sought(n, v, q) /\ Waiting(v, q)
    BY <2>1, <2>2 DEF Sought, Waiting
  <2> QED  BY <2>3 DEF n, v, q
<1> QED  BY <1>2, <1>3

-----------------------------------------------------------------------------
(* An answer is applied                                                      *)

LEMMA EntryIs ==
    ASSUME NEW u, Numbered(u), NEW e
    PROVE  /\ Asked(u, e.gen) => Entry(u, e) \in u.pending /\ Entry(u, e).gen = e.gen
           /\ ~Asked(u, e.gen) => Entry(u, e) = [gen |-> 0, kind |-> "none", id |-> 0]
<1>1. Asked(u, e.gen) => \E p : p \in u.pending /\ p.gen = e.gen
  BY DEF Asked
<1>2. CASE Asked(u, e.gen)
  <2>1. Entry(u, e) = CHOOSE p \in u.pending : p.gen = e.gen
    BY <1>2 DEF Entry, Asked
  <2> QED  BY <1>1, <1>2, <2>1
<1> QED  BY <1>2 DEF Entry, Asked

LEMMA StruckIs ==
    ASSUME NEW m, NEW u, NEW v, Books(m, u), Told(m, u), u.inbox # <<>>,
           v.inbox = Tail(u.inbox), v.next = u.next,
           v.pending = u.pending \ {Entry(u, Head(u.inbox))}
    PROVE  AnsweredBy(m, u, Head(u.inbox), Entry(u, Head(u.inbox)), v)
<1> DEFINE e == Head(u.inbox)
           p == Entry(u, e)
<1>1. /\ u \in Uis /\ m \in Mails /\ Numbered(u) /\ u.next \in Nat /\ u.inbox \in Seq(Events)
      /\ Distinct(u.inbox)
  BY DEF Books, Uis
<1>2. /\ Flying(m, u) = Flying(m, v) \cup {e} /\ e \in Events
      /\ \A b \in Flying(m, v) : Precedes(m, u, e, b)
      /\ \A a, b : Precedes(m, v, a, b) => Precedes(m, u, a, b)
      /\ \A a, b : Precedes(m, u, a, b) => (a = e /\ b \in Flying(m, v)) \/ Precedes(m, v, a, b)
  BY <1>1, AppliedFlies
<1>3. /\ \A g : Has(u.inbox, g) <=> e.gen = g \/ Has(v.inbox, g)
      /\ e.gen # 0 => ~Has(v.inbox, e.gen)
  BY <1>1, HasTail
<1>4. /\ Asked(u, e.gen) => p \in u.pending /\ p.gen = e.gen
      /\ ~Asked(u, e.gen) => p = [gen |-> 0, kind |-> "none", id |-> 0]
  BY <1>1, EntryIs
<1>5. v.pending = u.pending \ {p}
  OBVIOUS
<1> HIDE DEF e, p
<1>6. e.gen \in Nat
  BY <1>2 DEF Events
<1>7. e.gen # 0 => /\ ~Has(m.queue, e.gen) /\ m.active # e.gen /\ ~Has(m.events, e.gen)
                   /\ Asked(u, e.gen)
  <2> SUFFICES ASSUME e.gen # 0 PROVE /\ ~Has(m.queue, e.gen) /\ m.active # e.gen
                                      /\ ~Has(m.events, e.gen) /\ Asked(u, e.gen)
    OBVIOUS
  <2>1. Once(m, u, e.gen) /\ Has(u.inbox, e.gen)
    BY <1>3, <1>6 DEF Books
  <2> QED  BY <2>1 DEF Once
<1>8. ASSUME NEW b \in Flying(m, v), b.gen = e.gen PROVE b.gen = 0
  <2>1. Has(m.events, b.gen) \/ Has(v.inbox, b.gen)
    BY HeldHas DEF Flying
  <2> QED  BY <1>3, <1>7, <1>8, <2>1
<1>9. \A q \in u.pending : q.gen \in 1..u.next /\ q.gen # 0
  BY <1>1 DEF Numbered
<1>10. ~Asked(u, 0)
  BY <1>9 DEF Asked
<1>11. Expected(u, e)
  BY <1>2 DEF Told, Matched
<1>12. IF Nameless(e) THEN e.gen = 0 /\ p = [gen |-> 0, kind |-> "none", id |-> 0]
       ELSE p \in u.pending /\ p.gen = e.gen /\ Suits(p, e) /\ e.gen # 0
  <2>1. CASE Nameless(e)
    BY <1>4, <1>10, <1>11, <2>1 DEF Expected
  <2>2. CASE ~Nameless(e)
    <3>1. PICK q \in u.pending : q.gen = e.gen /\ Suits(q, e)
      BY <1>11, <2>2 DEF Expected
    <3>2. p = q
      BY <1>1, <1>4, <3>1 DEF Asked, Numbered
    <3> QED  BY <1>9, <2>2, <3>1, <3>2
  <2> QED  BY <2>1, <2>2
<1>13. ASSUME NEW q \in v.pending PROVE q \in u.pending /\ q.gen # e.gen
  <2>1. q \in u.pending /\ q # p
    BY <1>5
  <2>2. ASSUME q.gen = e.gen PROVE FALSE
    <3>1. Asked(u, e.gen)
      BY <2>1, <2>2 DEF Asked
    <3> QED  BY <1>1, <1>4, <2>1, <2>2, <3>1 DEF Numbered
  <2> QED  BY <2>1, <2>2
<1>14. \A q \in u.pending : q = p \/ q \in v.pending
  BY <1>5
<1>15. e.gen # 0 => Old(v, e.gen) /\ Asked(u, e.gen)
  <2> SUFFICES ASSUME e.gen # 0 PROVE Old(v, e.gen) /\ Asked(u, e.gen)
    OBVIOUS
  <2>1. e.gen \in 1..v.next
    BY <1>4, <1>7, <1>9
  <2> QED  BY <1>7, <1>13, <2>1 DEF Old, Asked
<1>16. \A x : Old(u, x) => Old(v, x) /\ ~Asked(u, x)
  BY <1>13 DEF Old, Asked
<1>17. AnsweredBy(m, u, e, p, v)
  BY <1>2, <1>7, <1>8, <1>12, <1>13, <1>14, <1>15, <1>16 DEF AnsweredBy
<1> QED  BY <1>17 DEF e, p

LEMMA AppliedTold ==
    ASSUME NEW m, NEW u \in Uis, NEW v, NEW e, NEW p, Numbered(u), Told(m, u),
           JobTold(u, job), job.pc # "idle" => job.req.gen = m.active /\ m.active # 0,
           e \in Events, AnsweredBy(m, u, e, p, v), Applied(u, e, p, v)
    PROVE  Told(m, v) /\ JobTold(v, job)
<1>1. /\ v.next = u.next /\ v.prepare = u.prepare /\ v.play = u.play
      /\ v.replays = {r \in u.replays : r.gen # e.gen}
      /\ v.emitted \in {u.emitted, Append(u.emitted, e)}
  BY DEF Applied, CrossedOff
<1>2. \A r : Noted(u, r) /\ r.gen # e.gen => Noted(v, r)
  <2> SUFFICES ASSUME NEW r, Noted(u, r), r.gen # e.gen PROVE Noted(v, r)
    OBVIOUS
  <2>1. PICK q \in u.pending : q.gen = r.gen /\ q.kind = r.kind /\ q.id = r.id
    BY DEF Noted
  <2>2. q # p
    BY <2>1 DEF AnsweredBy, Nameless, Numbered
  <2> QED  BY <2>1, <2>2 DEF Noted, AnsweredBy
<1>3. Matched(m, v)
  <2>1. ASSUME NEW r \in Held(m.queue) PROVE Noted(v, r)
    <3>1. Noted(u, r) /\ Has(m.queue, r.gen)
      BY HeldHas DEF Told, Matched
    <3>2. r.gen # 0
      BY <3>1 DEF Noted, Numbered
    <3> QED  BY <1>2, <3>1, <3>2 DEF AnsweredBy
  <2>2. ASSUME NEW b \in Flying(m, v) PROVE Expected(v, b)
    <3>1. Expected(u, b)
      BY DEF AnsweredBy, Told, Matched
    <3>2. CASE Nameless(b)
      BY <3>1, <3>2 DEF Expected
    <3>3. CASE ~Nameless(b)
      <4>1. PICK q \in u.pending : q.gen = b.gen /\ Suits(q, b)
        BY <3>1, <3>3 DEF Expected
      <4>2. b.gen # 0
        BY <4>1 DEF Numbered
      <4>3. b.gen # e.gen
        BY <4>2 DEF AnsweredBy
      <4>4. q # p
        BY <4>1, <4>2, <4>3 DEF AnsweredBy
      <4> QED  BY <3>3, <4>1, <4>4 DEF Expected, AnsweredBy
    <3> QED  BY <3>2, <3>3
  <2> QED  BY <2>1, <2>2 DEF Matched
<1>4. JobTold(v, job)
  <2>1. job.pc # "idle" => job.req.gen # e.gen
    BY DEF AnsweredBy
  <2> QED  BY <1>2, <2>1 DEF JobTold
<1>5. \A x : Old(u, x) => Old(v, x)
  BY DEF AnsweredBy
<1>6. Opens(e) => e.id = e.gen \/ (p.kind = "Replay" /\ Old(u, e.id))
  BY DEF Opens, AnsweredBy, Nameless, Suits, Told, Named
<1>7. Opens(e) => Old(v, e.id)
  <2>1. Opens(e) => e.gen # 0
    BY DEF Opens, Nameless, AnsweredBy
  <2> QED  BY <1>5, <1>6, <2>1 DEF AnsweredBy
<1>8. Named(v)
  <2>1. \A q \in v.pending : q.kind \in {"Release", "Replay", "Play"} => Old(v, q.id)
    BY <1>5 DEF AnsweredBy, Told, Named
  <2>2. p.kind = "Release" => Old(v, p.id)
    BY <1>5 DEF AnsweredBy, Told, Named
  <2>3. \A x \in u.tracked \cup u.windows \cup u.closed \cup u.releasing : Old(v, x)
    BY <1>5 DEF Told, Named
  <2>4. \A x \in v.tracked \cup v.windows \cup v.closed \cup v.releasing :
          \/ x \in u.tracked \cup u.windows \cup u.closed \cup u.releasing
          \/ Opens(e) /\ x = e.id
          \/ p.kind = "Release" /\ x = p.id
    <3>1. CASE Late(u, e)
      BY <3>1 DEF Applied, Passed, Stay
    <3>2. CASE ~Late(u, e)
      BY <3>2 DEF Applied, Booked, Stay, Opens
    <3> QED  BY <3>1, <3>2
  <2>5. \A x \in v.tracked \cup v.windows \cup v.closed \cup v.releasing : Old(v, x)
    BY <1>7, <2>2, <2>3, <2>4
  <2>6. \A b \in Held(v.emitted) : IF Nameless(b) THEN b.gen = 0 ELSE Old(v, b.gen)
    <3>1. Held(Append(u.emitted, e)) = Held(u.emitted) \cup {e}
      BY HeldAppend DEF Uis
    <3>2. \A b \in Held(u.emitted) : IF Nameless(b) THEN b.gen = 0 ELSE Old(v, b.gen)
      BY <1>5 DEF Told, Named
    <3>3. IF Nameless(e) THEN e.gen = 0 ELSE Old(v, e.gen)
      BY DEF AnsweredBy
    <3> QED  BY <1>1, <3>1, <3>2, <3>3
  <2> QED  BY <2>1, <2>5, <2>6 DEF Named
<1>9. Replayed(v)
  <2>1. u.replays = {[gen |-> q.gen, id |-> q.id] : q \in {q \in u.pending : q.kind = "Replay"}}
    BY DEF Told, Replayed
  <2>2. \A q \in u.pending : q \in v.pending <=> q.gen # e.gen
    <3>1. \A q \in u.pending : q.gen # e.gen => q # p
      BY DEF AnsweredBy, Nameless, Numbered
    <3> QED  BY <3>1 DEF AnsweredBy
  <2>3. v.pending \subseteq u.pending
    BY DEF AnsweredBy
  <2>4. ASSUME NEW x
        PROVE  x \in v.replays <=> x \in {[gen |-> q.gen, id |-> q.id] :
                                            q \in {q \in v.pending : q.kind = "Replay"}}
    BY <1>1, <2>1, <2>2, <2>3
  <2> QED  BY <2>4 DEF Replayed
<1>10. Newest(v)
  BY <1>1 DEF Told, Newest, AnsweredBy
<1> QED  BY <1>3, <1>4, <1>8, <1>9, <1>10 DEF Told

\* An answer that opens a session: a launch, or a window that is shown again.
LEMMA OpensIs ==
    ASSUME NEW m, NEW u, NEW v, NEW e, NEW p, Told(m, u), AnsweredBy(m, u, e, p, v), Opens(e)
    PROVE  /\ e.gen # 0 /\ GoneBy(e) = {}
           /\ \/ p.kind \in Launches /\ e.id = e.gen
              \/ p.kind = "Replay" /\ Old(u, e.id) /\ e.id # e.gen /\ e.kind = "Embedded"
<1>1. ~Nameless(e) /\ e.kind \in {"Embedded", "Started"} /\ GoneBy(e) = {}
  BY DEF Opens, Nameless, GoneBy
<1>2. p \in u.pending /\ p.gen = e.gen /\ Suits(p, e) /\ e.gen # 0
  BY <1>1 DEF AnsweredBy
<1>3. CASE p.kind \in Launches
  BY <1>1, <1>2, <1>3 DEF Suits, Launches
<1>4. CASE p.kind = "Replay"
  <2>1. Old(u, e.id)
    BY <1>1, <1>2, <1>4 DEF Suits, Launches, Told, Named
  <2> QED  BY <1>1, <1>2, <1>4, <2>1 DEF AnsweredBy, Suits, Launches
<1> QED  BY <1>1, <1>2, <1>3, <1>4 DEF Suits

\* A window whose session was replayed, and the answer is still to come.
LEMMA Shown ==
    ASSUME NEW m, NEW u, NEW v, NEW e, NEW p, Told(m, u), AnsweredBy(m, u, e, p, v),
           Applied(u, e, p, v), NEW x \in u.windows \cup u.closed,
           (\E r \in v.replays : r.id = x) \/ (x \notin u.acknowledged /\ x \notin GoneBy(e))
    PROVE  x \in v.windows \cup v.closed
<1>1. CASE Late(u, e)
  BY <1>1 DEF Applied, Passed, Stay
<1>2. CASE ~Late(u, e)
  BY <1>2 DEF Applied, Booked, Stay
<1> QED  BY <1>1, <1>2

LEMMA AppliedSessions ==
    ASSUME NEW m, NEW u, NEW v, NEW e, NEW p, Numbered(u), Told(m, u), Told(m, v), Leased(m, u),
           AnsweredBy(m, u, e, p, v), Applied(u, e, p, v)
    PROVE  /\ LeaseKnown(m, v) /\ Served(m) /\ GoneForGood(m, v) /\ Tracked(m, v) /\ Serving(m, v)
<1>1. v.next = u.next
  BY DEF Applied, CrossedOff
<1>2. Flying(m, u) = Flying(m, v) \cup {e}
  BY DEF AnsweredBy
<1>3. \A x \in GoneBy(e) : x \notin app.leases
  BY <1>2 DEF Leased, GoneForGood
<1>4. Opens(e) => GoneBy(e) = {} /\ e.gen # 0
  BY OpensIs
<1>5. Launched(e) => Old(v, e.id) /\ ~Late(u, e) /\ e.id \in v.tracked
  <2> SUFFICES ASSUME Launched(e) PROVE Old(v, e.id) /\ ~Late(u, e) /\ e.id \in v.tracked
    OBVIOUS
  <2>1. Opens(e) /\ e.id = e.gen /\ p.kind # "Replay" /\ e.gen # 0
    BY OpensIs DEF Launched, Launches
  <2>2. Old(v, e.gen) /\ Asked(u, e.gen)
    BY <2>1 DEF AnsweredBy
  <2>3. \A x \in u.closed : Old(u, x)
    BY DEF Told, Named
  <2>4. ~Late(u, e)
    BY <2>1, <2>2, <2>3 DEF Late, Old
  <2> QED  BY <2>1, <2>2, <2>4 DEF Applied, Booked
<1>6. \A x \in u.tracked : x \in GoneBy(e) \/ x \in v.tracked
  BY DEF Applied, Passed, Booked
<1>7. LeaseKnown(m, v)
  <2> SUFFICES ASSUME NEW g \in app.leases, g \notin v.tracked PROVE Begun(m, v, g)
    BY DEF LeaseKnown
  <2>1. g \notin u.tracked
    BY <1>3, <1>6
  <2>2. Begun(m, u, g)
    BY <2>1 DEF Leased, LeaseKnown
  <2>3. ~(e.gen = g /\ Launched(e))
    BY <1>5 DEF Launched
  <2> QED  BY <1>2, <2>2, <2>3 DEF Begun
<1>8. Served(m)
  BY DEF Leased
<1>9. GoneForGood(m, v)
  BY <1>1, <1>2 DEF Leased, GoneForGood
<1>10. Tracked(m, v)
  <2> SUFFICES ASSUME NEW x \in v.tracked
               PROVE  \/ x \in app.leases
                      \/ \E b \in Flying(m, v) : x \in GoneBy(b)
                      \/ Releases(job) /\ job.outcome.id = x
    BY DEF Tracked
  <2>1. \/ x \in u.tracked /\ x \notin GoneBy(e)
        \/ Opens(e) /\ p.kind # "Replay" /\ x = e.id
    <3>1. CASE Late(u, e)
      <4>1. Opens(e)
        BY <3>1 DEF Late, Opens
      <4> QED  BY <1>4, <3>1, <4>1 DEF Applied, Passed
    <3>2. CASE ~Late(u, e)
      BY <3>2 DEF Applied, Booked
    <3> QED  BY <3>1, <3>2
  <2>2. CASE x \in u.tracked /\ x \notin GoneBy(e)
    BY <1>2, <2>2 DEF Leased, Tracked
  <2>3. CASE Opens(e) /\ p.kind # "Replay" /\ x = e.id
    <3>1. Launched(e)
      BY <2>3, OpensIs DEF Launched
    <3> QED  BY <1>2, <1>4, <2>3, <3>1 DEF Leased, Serving
  <2> QED  BY <2>1, <2>2, <2>3
<1>11. Serving(m, v)
  <2> SUFFICES ASSUME NEW a \in Flying(m, v), Launched(a)
               PROVE  \/ a.id \in app.leases
                      \/ \E b \in Flying(m, v) : Precedes(m, v, a, b) /\ a.id \in GoneBy(b)
    BY DEF Serving
  <2>1. a.gen # 0
    <3>1. Expected(v, a) /\ ~Nameless(a)
      BY DEF Told, Matched, Launched, Opens, Nameless
    <3>2. PICK q \in v.pending : q.gen = a.gen
      BY <3>1 DEF Expected
    <3> QED  BY <3>2 DEF AnsweredBy, Numbered
  <2>2. a # e
    BY <2>1 DEF AnsweredBy
  <2> QED  BY <1>2, <2>2, PrecedesFlying DEF Leased, Serving, AnsweredBy
<1> QED  BY <1>7, <1>8, <1>9, <1>10, <1>11

LEMMA AppliedWindows ==
    ASSUME NEW m, NEW u, NEW v, NEW e, NEW p, Told(m, u), Leased(m, u), JobTold(u, job),
           Told(m, v), JobTold(v, job), AnsweredBy(m, u, e, p, v), Applied(u, e, p, v),
           \A s \in app.sessions : s.id \in app.leases
    PROVE  Windowing(m, v)
<1>1. Windowing(m, u)
  BY DEF Leased
<1>2. Flying(m, u) = Flying(m, v) \cup {e}
  BY DEF AnsweredBy
<1>3. \A s \in app.sessions : s.id \in u.windows \cup u.closed /\ s.id \in app.leases =>
           s.id \in v.windows \cup v.closed
  <2> SUFFICES ASSUME NEW s \in app.sessions, s.id \in u.windows \cup u.closed, s.id \in app.leases
               PROVE  s.id \in v.windows \cup v.closed
    OBVIOUS
  <2>1. s.id \notin u.acknowledged /\ s.id \notin GoneBy(e)
    BY <1>2 DEF Leased, Tombs, GoneForGood
  <2> QED  BY <2>1, Shown
<1>4. v.windows \subseteq v.tracked
  <2>1. CASE Late(u, e)
    BY <1>1, <2>1 DEF Applied, Passed, Windowing
  <2>2. CASE ~Late(u, e)
    <3>1. u.windows \ GoneBy(e) \subseteq v.tracked
      BY <1>1, <2>2 DEF Applied, Booked, Windowing
    <3>2. \A x \in v.windows : x \in u.windows \ GoneBy(e) \/ (e.kind = "Embedded" /\ x = e.id)
      BY <2>2 DEF Applied, Booked
    <3>3. ASSUME e.kind = "Embedded" PROVE e.id \in v.tracked
      <4>1. Opens(e)
        BY <3>3 DEF Opens
      <4>2. GoneBy(e) = {}
        BY <4>1, OpensIs
      <4>3. CASE p.kind # "Replay"
        BY <2>2, <4>1, <4>3 DEF Applied, Booked
      <4>4. CASE p.kind = "Replay"
        <5>1. e.id # e.gen
          BY <4>1, <4>4, OpensIs DEF Launches
        <5>2. e.id \in u.windows
          BY <1>1, <1>2, <2>2, <3>3, <5>1 DEF Windowing, Late
        <5> QED  BY <3>1, <4>2, <5>2
      <4> QED  BY <4>3, <4>4
    <3> QED  BY <3>1, <3>2, <3>3
  <2> QED  BY <2>1, <2>2
<1>5. ASSUME NEW s \in app.sessions, s.id \in app.leases, s.managed, s.id \in v.tracked
      PROVE  s.id \in v.windows \cup v.closed
  <2>1. CASE s.id \in u.tracked
    BY <1>1, <1>3, <1>5, <2>1 DEF Windowing
  <2>2. CASE s.id \notin u.tracked
    <3>1. ~Late(u, e) /\ Opens(e) /\ s.id = e.id /\ p.kind # "Replay"
      BY <1>5, <2>2 DEF Applied, Passed, Booked
    <3>2. Launched(e)
      BY <3>1, OpensIs DEF Launched
    <3>3. e.kind = "Embedded"
      BY <1>1, <1>2, <1>5, <3>1, <3>2 DEF Windowing
    <3> QED  BY <3>1, <3>3 DEF Applied, Booked
  <2> QED  BY <2>1, <2>2
<1>6. ASSUME NEW a \in Flying(m, v), a.kind = "Embedded", a.id # a.gen
      PROVE  a.id \in v.windows \cup v.closed
  <2>1. a.id \in u.windows \cup u.closed
    BY <1>1, <1>2, <1>6 DEF Windowing
  <2>2. PICK q \in v.pending : q.gen = a.gen /\ Suits(q, a)
    BY <1>6 DEF Told, Matched, Expected, Nameless
  <2>3. q.kind = "Replay" /\ q.id = a.id
    BY <1>6, <2>2 DEF Suits
  <2>4. [gen |-> q.gen, id |-> q.id] \in v.replays
    BY <2>3 DEF Told, Replayed
  <2>5. \E r \in v.replays : r.id = a.id
    <3> WITNESS [gen |-> q.gen, id |-> q.id] \in v.replays
    <3> QED  BY <2>3
  <2> QED  BY <2>1, <2>5, Shown
<1>7. ASSUME Ended(job), job.outcome.kind = "Embedded", job.outcome.id # job.req.gen
      PROVE  job.outcome.id \in v.windows \cup v.closed
  <2>1. job.outcome.id \in u.windows \cup u.closed
    BY <1>1, <1>7 DEF Windowing
  <2>2. job.pc # "idle"
    BY <1>7 DEF Ended
  <2>3. Noted(v, job.req) /\ Suits(job.req, job.outcome)
    BY <1>7, <2>2 DEF JobTold
  <2>4. job.req.kind = "Replay" /\ job.req.id = job.outcome.id
    BY <1>7, <2>3 DEF Suits
  <2>5. PICK q \in v.pending : q.kind = "Replay" /\ q.id = job.outcome.id
    BY <2>3, <2>4 DEF Noted
  <2>6. [gen |-> q.gen, id |-> q.id] \in v.replays
    BY <2>5 DEF Told, Replayed
  <2>7. \E r \in v.replays : r.id = job.outcome.id
    <3> WITNESS [gen |-> q.gen, id |-> q.id] \in v.replays
    <3> QED  BY <2>5
  <2> QED  BY <2>1, <2>7, Shown
<1>8. \A s \in app.sessions, a \in Flying(m, v) :
        Launched(a) /\ s.id = a.id => (s.managed <=> a.kind = "Embedded")
  BY <1>1, <1>2 DEF Windowing
<1> QED  BY <1>4, <1>5, <1>6, <1>7, <1>8 DEF Windowing

LEMMA AppliedTombs ==
    ASSUME NEW m, NEW u, NEW v, NEW e, NEW p, Told(m, u), Leased(m, u),
           AnsweredBy(m, u, e, p, v), Applied(u, e, p, v)
    PROVE  Tombs(m, v)
<1>1. GoneBy(e) \cap app.leases = {}
  BY DEF AnsweredBy, Leased, GoneForGood
<1>2. v.acknowledged \cap app.leases = {}
  <2>1. u.acknowledged \cap app.leases = {}
    BY DEF Leased, Tombs
  <2>2. v.acknowledged \subseteq u.acknowledged \cup GoneBy(e)
    BY DEF Applied, Passed, Booked
  <2> QED  BY <1>1, <2>1, <2>2
<1>3. v.inbox = <<>> => v.retry
  BY DEF Applied, CrossedOff
<1>4. p.kind = "Release" => Suits(p, e)
  BY DEF AnsweredBy
<1>5. p.kind = "Release" => e.kind = "Failed" \/ (e.kind = "Released" /\ e.id = p.id)
  BY <1>4 DEF Suits, Launches
<1>6. \A q \in u.pending : q = p \/ q \in v.pending
  BY DEF AnsweredBy
<1>7. ASSUME NEW x \in v.closed, Late(u, e) PROVE Buried(v, x)
  <2>1. /\ v.releasing = u.releasing /\ x \in u.closed /\ v.acknowledged = u.acknowledged \cap v.closed
        /\ x \in u.acknowledged => \E r \in v.replays : r.id = x
    BY <1>7 DEF Applied, Passed, Stay
  <2>2. p.kind # "Release"
    BY <1>5, <1>7 DEF Late
  <2>3. Buried(u, x)
    BY <2>1 DEF Leased, Tombs
  <2> QED  BY <1>6, <1>7, <2>1, <2>2, <2>3 DEF Buried
<1>8. ASSUME NEW x \in v.closed, ~Late(u, e) PROVE Buried(v, x)
  <2> DEFINE gone == GoneBy(e)
             closed == u.closed \cup (gone \cap u.windows)
             acknowledged == u.acknowledged \cup (gone \cap closed)
             dropped == e.kind = "Embedded" /\ ~Current(u, p)
  <2>1. /\ v.closed = Stay(closed, acknowledged, v.replays) \cup (IF dropped THEN {e.id} ELSE {})
        /\ v.acknowledged = acknowledged \cap Stay(closed, acknowledged, v.replays)
        /\ u.releasing \ gone \subseteq v.releasing
        /\ dropped => e.id \in v.releasing
        /\ e.kind = "Failed" /\ p.kind = "Release" /\ p.id \in u.closed => p.id \in v.releasing
    BY <1>8 DEF Applied, Booked
  <2>2. e.kind = "Released" => gone = {e.id}
    BY DEF GoneBy
  <2> HIDE DEF gone, dropped
  <2>3. CASE x \notin Stay(closed, acknowledged, v.replays)
    BY <1>8, <2>1, <2>3 DEF Buried
  <2>4. CASE x \in Stay(closed, acknowledged, v.replays) /\ x \in acknowledged
    <3>1. x \in v.acknowledged /\ \E r \in v.replays : r.id = x
      BY <2>1, <2>4 DEF Stay
    <3> QED  BY <3>1 DEF Buried
  <2>5. CASE x \in Stay(closed, acknowledged, v.replays) /\ x \notin acknowledged
    <3>1. x \in u.closed /\ x \notin gone /\ x \notin u.acknowledged
      BY <2>5 DEF Stay
    <3>2. Buried(u, x)
      BY <3>1 DEF Leased, Tombs
    <3>3. CASE x \in u.releasing
      BY <2>1, <3>1, <3>3 DEF Buried
    <3>4. CASE \E q \in u.pending : q.kind = "Release" /\ q.id = x
      <4>1. PICK q \in u.pending : q.kind = "Release" /\ q.id = x
        BY <3>4
      <4>2. CASE q \in v.pending
        BY <4>1, <4>2 DEF Buried
      <4>3. CASE q = p
        <5>1. e.kind = "Failed"
          BY <1>5, <2>2, <3>1, <4>1, <4>3
        <5> QED  BY <2>1, <3>1, <4>1, <4>3, <5>1 DEF Buried
      <4> QED  BY <1>6, <4>2, <4>3
    <3> QED  BY <3>1, <3>2, <3>3, <3>4 DEF Buried
  <2> QED  BY <2>3, <2>4, <2>5
<1> QED  BY <1>2, <1>3, <1>7, <1>8 DEF Tombs

\* What is said before stays said before.
LEMMA AppliedVoided ==
    ASSUME NEW m, NEW u \in Uis, NEW v, NEW e, NEW p, Voided(m, u), e \in Events,
           AnsweredBy(m, u, e, p, v), Applied(u, e, p, v)
    PROVE  /\ Voided(m, v) /\ Plays(v) \subseteq Plays(u)
           /\ \A g : Doomed(m, u, g) => Doomed(m, v, g)
<1>1. /\ Flying(m, u) = Flying(m, v) \cup {e}
      /\ \A b \in Flying(m, v) : Precedes(m, u, e, b)
      /\ \A a, b : Precedes(m, v, a, b) => Precedes(m, u, a, b)
      /\ v.pending \subseteq u.pending
  BY DEF AnsweredBy
<1>2. v.emitted \in {u.emitted, Append(u.emitted, e)}
  BY DEF Applied, CrossedOff
<1>3. /\ Held(v.emitted) \subseteq Held(u.emitted) \cup {e}
      /\ \A a, b : Before(v.emitted, a, b) =>
           Before(u.emitted, a, b) \/ (a \in Held(u.emitted) /\ b = e)
  <2>1. u.emitted \in Seq(Events)
    BY DEF Uis
  <2>2. /\ Held(Append(u.emitted, e)) = Held(u.emitted) \cup {e}
        /\ \A a, b : Before(Append(u.emitted, e), a, b)
                       <=> Before(u.emitted, a, b) \/ (a \in Held(u.emitted) /\ b = e)
    BY <2>1, HeldAppend
  <2>3. CASE v.emitted = u.emitted
    BY <2>3
  <2>4. CASE v.emitted = Append(u.emitted, e)
    BY <2>2, <2>4
  <2> QED  BY <1>2, <2>3, <2>4
<1>4. AllEvents(m, v) \subseteq AllEvents(m, u)
  BY <1>1, <1>3 DEF AllEvents
<1>5. \A a, b : Ahead(m, v, a, b) => Ahead(m, u, a, b)
  <2> SUFFICES ASSUME NEW a, NEW b, Ahead(m, v, a, b) PROVE Ahead(m, u, a, b)
    OBVIOUS
  <2>1. CASE Precedes(m, v, a, b)
    BY <1>1, <2>1 DEF Ahead
  <2>2. CASE Before(v.emitted, a, b)
    BY <1>1, <1>3, <2>2 DEF Ahead
  <2>3. CASE a \in Held(v.emitted) /\ b \in Flying(m, v)
    BY <1>1, <1>3, <2>3 DEF Ahead
  <2> QED  BY <2>1, <2>2, <2>3 DEF Ahead
<1>6. Plays(v) \subseteq Plays(u)
  BY <1>1 DEF Plays
<1>7. Flying(m, v) \subseteq Flying(m, u)
  BY <1>1
<1>8. Voided(m, v)
  BY <1>4, <1>5, <1>6, <1>7 DEF Voided
<1>9. \A g : Doomed(m, u, g) => Doomed(m, v, g)
  BY <1>7 DEF Doomed
<1> QED  BY <1>6, <1>8, <1>9

LEMMA AppliedWaiting ==
    ASSUME NEW m, NEW u \in Uis, NEW v, NEW e, NEW p, Numbered(u), Told(m, u), e \in Events,
           AnsweredBy(m, u, e, p, v), Applied(u, e, p, v), NEW q, Waiting(u, q)
    PROVE  Waiting(v, q)
<1>1. SUFFICES ASSUME q # 0, q \in {u.prepare, u.play} PROVE Asked(v, q) \/ Has(v.emitted, q)
  BY DEF Waiting, Applied, CrossedOff
<1>2. u.emitted \in Seq(Events)
  BY DEF Uis
<1>3. \A g : Has(Append(u.emitted, e), g) <=> Has(u.emitted, g) \/ e.gen = g
  BY <1>2, HasAppend
<1>4. v.emitted = (IF Current(u, p) /\ ~Late(u, e) THEN Append(u.emitted, e) ELSE u.emitted)
  BY DEF Applied, CrossedOff
<1>5. CASE Has(u.emitted, q)
  BY <1>3, <1>4, <1>5
<1>6. CASE Asked(u, q) /\ q # e.gen
  <2>1. PICK x \in u.pending : x.gen = q
    BY <1>6 DEF Asked
  <2>2. x # p
    BY <1>1, <1>6, <2>1 DEF AnsweredBy
  <2> QED  BY <2>1, <2>2 DEF AnsweredBy, Asked
<1>7. CASE Asked(u, q) /\ q = e.gen
  <2>1. p \in u.pending /\ p.gen = q /\ Suits(p, e) /\ ~Nameless(e)
    BY <1>1, <1>7 DEF AnsweredBy
  <2>2. /\ q = u.prepare => p.kind = "Prepare"
        /\ q = u.play => p.kind \in Launches
    BY <2>1 DEF Told, Newest
  <2>3. Current(u, p)
    BY <1>1, <2>1, <2>2 DEF Current, Launches
  <2>4. ~Late(u, e)
    <3> SUFFICES ASSUME Late(u, e) PROVE FALSE
      OBVIOUS
    <3>1. Opens(e) /\ e.id \in u.closed
      BY DEF Late, Opens
    <3>2. p.kind \in Launches /\ e.id = e.gen
      BY <1>1, <2>2, <3>1, OpensIs DEF Launches
    <3>3. Old(u, e.id)
      BY <3>1 DEF Told, Named
    <3> QED  BY <1>7, <3>2, <3>3 DEF Old
  <2> QED  BY <1>3, <1>4, <1>7, <2>3, <2>4
<1> QED  BY <1>1, <1>5, <1>6, <1>7 DEF Waiting

-----------------------------------------------------------------------------
(* The account book: what a step has to keep                                 *)

LEMMA InterfaceAccount ==
    ASSUME AccountInv, UNCHANGED <<app, job>>, mail'.scope = mail.scope,
           mail'.stopped = mail.stopped, Kept(mail', ui'),
           Sought(mail', ui', ps'.pending), Waiting(ui', ps'.pending)
    PROVE  AccountInv'
<1>1. app' = app /\ job' = job
  OBVIOUS
<1>2. ~mail'.stopped => Disk'
  BY <1>1 DEF AccountInv, Disk, NothingRemote, Doing
<1>3. Told(mail', ui') /\ JobTold(ui', job')
  BY <1>1 DEF Kept
<1>4. ~mail'.stopped => Leased(mail, ui)'
  <2> SUFFICES ASSUME Leased(mail', ui') PROVE Leased(mail, ui)'
    BY DEF Kept
  <2>1. /\ LeaseKnown(mail', ui') => LeaseKnown(mail, ui)'
        /\ Served(mail') => Served(mail)'
        /\ GoneForGood(mail', ui') => GoneForGood(mail, ui)'
    BY <1>1 DEF LeaseKnown, Served, GoneForGood, Begun, Releases
  <2>2. /\ Tracked(mail', ui') => Tracked(mail, ui)'
        /\ Serving(mail', ui') => Serving(mail, ui)'
    BY <1>1 DEF Tracked, Serving, Releases
  <2>3. /\ AsAnswered => AsAnswered'
        /\ Windowing(mail', ui') => Windowing(mail, ui)'
        /\ Tombs(mail', ui') => Tombs(mail, ui)'
    BY <1>1 DEF AsAnswered, Windowing, Tombs
  <2> QED  BY <2>1, <2>2, <2>3 DEF Leased
<1>5. Voided(mail', ui') => Voided(mail, ui)'
  BY <1>1 DEF Voided, Void, Lost
<1>6. Sought(mail', ui', ps'.pending) => Sought(mail, ui, ps.pending)'
  BY <1>1 DEF Sought, Doomed, Void, Lost
<1> QED  BY <1>2, <1>3, <1>4, <1>5, <1>6 DEF AccountInv, Kept

LEMMA ApplyEventAccount == ASSUME AppInv, AccountInv, ApplyEvent PROVE AccountInv'
<1> DEFINE e == Head(ui.inbox)
           p == Entry(ui, e)
<1>1. /\ Applied(ui, e, p, ui') /\ ui.inbox # <<>> /\ UNCHANGED <<mail, app, job, ps, left>>
  BY AppliedIs
<1>2. /\ Books(mail, ui) /\ ui \in Uis /\ Numbered(ui) /\ Told(mail, ui)
      /\ JobTold(ui, job) /\ Voided(mail, ui)
      /\ \A s \in app.sessions : s.id \in app.leases
  BY DEF AppInv, Books, AccountInv, Kept, Records
<1>3. /\ ui'.inbox = Tail(ui.inbox) /\ ui'.next = ui.next /\ ui'.pending = ui.pending \ {p}
      /\ ui'.play = ui.play
  BY <1>1 DEF Applied, CrossedOff
<1>4. AnsweredBy(mail, ui, e, p, ui')
  BY <1>1, <1>2, <1>3, StruckIs
<1>5. e \in Events
  BY <1>1, <1>2, HeldTail DEF Uis
<1>6. job.pc # "idle" => job.req.gen = mail.active /\ mail.active # 0
  BY DEF AppInv, Working
<1> HIDE DEF e, p
<1>7. Told(mail, ui') /\ JobTold(ui', job)
  BY <1>1, <1>2, <1>4, <1>5, <1>6, AppliedTold
<1>8. ASSUME ~mail.stopped PROVE Leased(mail, ui')
  <2>1. Leased(mail, ui)
    BY <1>8 DEF AccountInv, Kept
  <2>2. /\ LeaseKnown(mail, ui') /\ Served(mail) /\ GoneForGood(mail, ui') /\ Tracked(mail, ui')
        /\ Serving(mail, ui')
    BY <1>1, <1>2, <1>4, <1>7, <2>1, AppliedSessions
  <2>3. Windowing(mail, ui')
    BY <1>1, <1>2, <1>4, <1>7, <2>1, AppliedWindows
  <2>4. Tombs(mail, ui')
    BY <1>1, <1>2, <1>4, <2>1, AppliedTombs
  <2> QED  BY <2>1, <2>2, <2>3, <2>4 DEF Leased
<1>9. /\ Voided(mail, ui') /\ Plays(ui') \subseteq Plays(ui)
      /\ \A g : Doomed(mail, ui, g) => Doomed(mail, ui', g)
  BY <1>1, <1>2, <1>4, <1>5, AppliedVoided
<1>10. Sought(mail, ui', ps.pending)
  BY <1>3, <1>9 DEF AccountInv, Sought
<1>11. Waiting(ui', ps.pending)
  BY <1>1, <1>2, <1>4, <1>5, AppliedWaiting DEF AccountInv
<1>12. Kept(mail, ui')
  BY <1>7, <1>8, <1>9 DEF Kept
<1> QED  BY <1>1, <1>10, <1>11, <1>12, InterfaceAccount

-----------------------------------------------------------------------------
(* The other steps of the interface                                          *)

LEMMA AccountIs ==
    ASSUME AppInv, AccountInv
    PROVE  /\ Books(mail, ui) /\ Kept(mail, ui) /\ Numbered(ui) /\ Windowed(ui) /\ Told(mail, ui)
           /\ mail \in Mails /\ ui \in Uis /\ ui.next \in Nat
           /\ ps \in PlaySessions /\ ps.prep \in Nat /\ ps.pending \in Nat
           /\ ps.prep <= ui.next /\ ps.pending <= ui.next
           /\ Sought(mail, ui, ps.pending) /\ Waiting(ui, ps.pending)
           /\ Marked(mail, mail)
<1>1. Marked(mail, mail)
  BY DEF Marked
<1> QED  BY <1>1, OwnsBounded DEF AccountInv, Kept, Books

\* A command admitted or refused keeps the account in effect.
LEMMA IssueScope ==
    ASSUME NEW m, NEW u, NEW c \in Commands, Fit(c), Books(m, u)
    PROVE  /\ Issue(m, u, c).mail.scope = m.scope /\ Issue(m, u, c).mail.stopped = m.stopped
<1> QED  BY IssueBooks DEF Follows

\* What the user may ask for, but for playing a stream.
LEMMA CommandGiven ==
    ASSUME AppInv, AccountInv, UserCommand
    PROVE  \E c \in Commands : /\ Fit(c) /\ Refers(ui, c) /\ c.kind # "Play"
                               /\ mail' = Issue(mail, ui, c).mail /\ ui' = Issue(mail, ui, c).ui
<1>1. ui \in Uis /\ Told(mail, ui)
  BY AccountIs
<1>2. PICK c \in {Command(k, NoProvider, 0) : k \in Kinds \cap {"Load", "Local"}}
            \cup {Command(k, p, 0) : k \in Kinds \cap {"Save", "Cred", "Test"}, p \in Providers}
            \cup {Command(k, NoProvider, id) : k \in Kinds \cap {"Release", "Replay"}, id \in ui.tracked} :
              mail' = Issue(mail, ui, c).mail /\ ui' = Issue(mail, ui, c).ui
  BY DEF UserCommand
<1>3. c \in Commands /\ Fit(c) /\ Refers(ui, c) /\ c.kind # "Play"
  <2>1. ui.tracked \subseteq Nat /\ \A x \in ui.tracked : Old(ui, x)
    BY <1>1 DEF Uis, Told, Named
  <2>2. NoProvider \in Provs /\ \A p \in Providers : p \in Provs
    BY DEF Provs
  <2>3. CASE \E k \in {"Load", "Local"} : c = Command(k, NoProvider, 0)
    <3>1. c.kind \in {"Load", "Local"}
      BY <2>3 DEF Command
    <3> QED  BY <2>2, <2>3, <3>1, CommandType DEF CommandKinds, Refers
  <2>4. CASE \E k \in {"Save", "Cred", "Test"}, p \in Providers : c = Command(k, p, 0)
    <3>1. c.kind \in {"Save", "Cred", "Test"}
      BY <2>4 DEF Command
    <3> QED  BY <2>2, <2>4, <3>1, CommandType DEF CommandKinds, Refers
  <2>5. CASE \E k \in {"Release", "Replay"}, id \in ui.tracked : c = Command(k, NoProvider, id)
    <3>1. c.kind \in {"Release", "Replay"} /\ c.id \in ui.tracked
      BY <2>5 DEF Command
    <3> QED  BY <2>1, <2>2, <2>5, <3>1, CommandType DEF CommandKinds, Refers
  <2> QED  BY <1>2, <2>3, <2>4, <2>5
<1> QED  BY <1>2, <1>3

LEMMA UserCommandAccount == ASSUME AppInv, AccountInv, UserCommand PROVE AccountInv'
<1>1. /\ UNCHANGED <<app, job, ps>> /\ Books(mail, ui) /\ Kept(mail, ui)
      /\ Sought(mail, ui, ps.pending) /\ Waiting(ui, ps.pending)
      /\ ps.pending \in Nat /\ ps.pending <= ui.next
  BY AccountIs DEF UserCommand
<1>2. PICK c \in Commands : /\ Fit(c) /\ Refers(ui, c) /\ c.kind # "Play"
                           /\ mail' = Issue(mail, ui, c).mail /\ ui' = Issue(mail, ui, c).ui
  BY CommandGiven
<1>3. Kept(mail', ui')
  BY <1>1, <1>2, IssueKept
<1>4. Sought(mail', ui', ps.pending) /\ Waiting(ui', ps.pending)
  BY <1>1, <1>2, IssueSought
<1>5. mail'.scope = mail.scope /\ mail'.stopped = mail.stopped
  BY <1>1, <1>2, IssueScope
<1> QED  BY <1>1, <1>3, <1>4, <1>5, InterfaceAccount

LEMMA WindowClosedAccount == ASSUME AppInv, AccountInv, WindowClosed PROVE AccountInv'
<1>1. /\ UNCHANGED <<mail, app, job, ps>> /\ Kept(mail, ui) /\ ui \in Uis /\ Numbered(ui)
      /\ Sought(mail, ui, ps.pending) /\ Waiting(ui, ps.pending) /\ Marked(mail, mail)
  BY AccountIs DEF WindowClosed
<1>2. PICK id \in ui.windows : ui' = QueueRelease(ui, id)
  BY DEF WindowClosed
<1>3. /\ ui'.next = ui.next /\ ui'.pending = ui.pending /\ ui'.inbox = ui.inbox
      /\ ui'.replays = ui.replays /\ ui'.tracked = ui.tracked
      /\ ui'.acknowledged = ui.acknowledged /\ ui'.windows = ui.windows \ {id}
      /\ ui'.closed = ui.closed \cup {id} /\ ui'.releasing = ui.releasing \cup {id}
      /\ ui'.prepare = ui.prepare /\ ui'.play = ui.play /\ ui'.emitted = ui.emitted /\ ui'.retry
  BY <1>1, <1>2 DEF QueueRelease, Uis
<1>4. Lessens(ui, ui')
  BY <1>2, <1>3 DEF Lessens
<1>5. Tombs(mail, ui) => Tombs(mail, ui')
  BY <1>3 DEF Tombs, Buried
<1>6. /\ Kept(mail, ui') /\ \A g : Doomed(mail, ui, g) => Doomed(mail, ui', g)
      /\ Plays(ui') = Plays(ui) /\ \A x : Asked(ui', x) <=> Asked(ui, x)
  BY <1>1, <1>4, <1>5, LessensKept
<1>7. Sought(mail, ui', ps.pending) /\ Waiting(ui', ps.pending)
  BY <1>1, <1>3, <1>6 DEF Sought, Waiting
<1> QED  BY <1>1, <1>6, <1>7, InterfaceAccount

LEMMA RetryAccount == ASSUME AppInv, AccountInv, Retry PROVE AccountInv'
<1>1. /\ UNCHANGED <<app, job, ps>> /\ Books(mail, ui) /\ Kept(mail, ui) /\ ui \in Uis
      /\ Numbered(ui) /\ Told(mail, ui) /\ Marked(mail, mail) /\ ui.retry
      /\ Sought(mail, ui, ps.pending) /\ Waiting(ui, ps.pending)
      /\ ps.pending \in Nat /\ ps.pending <= ui.next
  BY AccountIs DEF Retry
<1>2. CASE ui' = [ui EXCEPT !.retry = FALSE] /\ UNCHANGED mail /\ ~(ui.releasing # {} /\ Accepts(mail))
  <2>1. /\ ui'.next = ui.next /\ ui'.pending = ui.pending /\ ui'.inbox = ui.inbox
        /\ ui'.replays = ui.replays /\ ui'.tracked = ui.tracked
        /\ ui'.acknowledged = ui.acknowledged /\ ui'.windows = ui.windows
        /\ ui'.closed = ui.closed /\ ui'.releasing = ui.releasing
        /\ ui'.prepare = ui.prepare /\ ui'.play = ui.play /\ ui'.emitted = ui.emitted
    BY <1>1, <1>2 DEF Uis
  <2>2. Lessens(ui, ui')
    BY <2>1 DEF Lessens
  <2>3. Tombs(mail, ui) => Tombs(mail, ui')
    BY <1>2, <2>1 DEF Tombs, Buried
  <2>4. /\ Kept(mail, ui') /\ \A g : Doomed(mail, ui, g) => Doomed(mail, ui', g)
        /\ Plays(ui') = Plays(ui) /\ \A x : Asked(ui', x) <=> Asked(ui, x)
    BY <1>1, <2>2, <2>3, LessensKept
  <2>5. Sought(mail, ui', ps.pending) /\ Waiting(ui', ps.pending)
    BY <1>1, <2>1, <2>4 DEF Sought, Waiting
  <2> QED  BY <1>1, <1>2, <2>4, <2>5, InterfaceAccount
<1>3. ASSUME NEW id \in ui.releasing, Accepts(mail),
             mail' = Issue(mail, ui, Command("Release", NoProvider, id)).mail,
             ui' = [Issue(mail, ui, Command("Release", NoProvider, id)).ui
                      EXCEPT !.releasing = @ \ {id}]
      PROVE  AccountInv'
  <2> DEFINE c == Command("Release", NoProvider, id)
             u == Issue(mail, ui, c).ui
  <2>1. id \in Nat /\ "Release" \in CommandKinds /\ NoProvider \in Provs /\ Old(ui, id)
    BY <1>1, <1>3 DEF Uis, CommandKinds, Provs, Told, Named
  <2>2. c \in Commands /\ Fit(c)
    BY <2>1, CommandType
  <2>3. c.kind = "Release" /\ c.id = id
    BY DEF Command
  <2>4. Refers(ui, c)
    BY <2>1, <2>3 DEF Refers
  <2> HIDE DEF c
  <2>5. mail' = Issue(mail, ui, c).mail /\ ui' = [u EXCEPT !.releasing = u.releasing \ {id}]
    BY <1>3 DEF c
  <2>6. Kept(mail', u)
    BY <1>1, <2>2, <2>3, <2>4, <2>5, IssueKept
  <2>7. Sought(mail', u, ps.pending) /\ Waiting(u, ps.pending)
    BY <1>1, <2>2, <2>3, <2>4, <2>5, IssueSought
  <2>8. Books(mail', u) /\ Recorded(ui, c, u)
    BY <1>1, <1>3, <2>2, <2>5, IssueBooks, IssueTakes
  <2>9. mail'.scope = mail.scope /\ mail'.stopped = mail.stopped
    BY <1>1, <2>2, <2>5, IssueScope
  <2> HIDE DEF u
  <2>10. u \in Uis /\ Numbered(u) /\ Marked(mail', mail') /\ u.retry
    BY <1>1, <2>8 DEF Books, Marked, Recorded
  <2>11. /\ ui'.next = u.next /\ ui'.pending = u.pending /\ ui'.inbox = u.inbox
         /\ ui'.replays = u.replays /\ ui'.tracked = u.tracked /\ ui'.retry = u.retry
         /\ ui'.acknowledged = u.acknowledged /\ ui'.windows = u.windows
         /\ ui'.closed = u.closed /\ ui'.releasing = u.releasing \ {id}
         /\ ui'.prepare = u.prepare /\ ui'.play = u.play /\ ui'.emitted = u.emitted
    BY <2>5, <2>10 DEF Uis
  <2>12. Lessens(u, ui')
    BY <2>11 DEF Lessens
  <2>13. \E p \in u.pending : p.kind = "Release" /\ p.id = id
    <3> DEFINE p == [gen |-> ui.next + 1, kind |-> c.kind, id |-> c.id]
    <3>1. p \in u.pending /\ p.kind = "Release" /\ p.id = id
      BY <2>3, <2>8 DEF Recorded
    <3> HIDE DEF p
    <3> QED  BY <3>1
  <2>14. Tombs(mail', u) => Tombs(mail', ui')
    BY <2>10, <2>11, <2>13 DEF Tombs, Buried
  <2>15. /\ Kept(mail', ui') /\ \A g : Doomed(mail', u, g) => Doomed(mail', ui', g)
         /\ Plays(ui') = Plays(u) /\ \A x : Asked(ui', x) <=> Asked(u, x)
    BY <2>6, <2>10, <2>12, <2>14, LessensKept
  <2>16. Sought(mail', ui', ps.pending) /\ Waiting(ui', ps.pending)
    BY <2>7, <2>11, <2>15 DEF Sought, Waiting
  <2> QED  BY <1>1, <2>9, <2>15, <2>16, InterfaceAccount
<1>4. \/ /\ ui' = [ui EXCEPT !.retry = FALSE] /\ UNCHANGED mail
         /\ ~(ui.releasing # {} /\ Accepts(mail))
      \/ /\ Accepts(mail)
         /\ \E id \in ui.releasing :
              /\ mail' = Issue(mail, ui, Command("Release", NoProvider, id)).mail
              /\ ui' = [Issue(mail, ui, Command("Release", NoProvider, id)).ui
                          EXCEPT !.releasing = @ \ {id}]
  BY DEF Retry
<1> QED  BY <1>2, <1>3, <1>4

LEMMA DrainAccount == ASSUME AppInv, AccountInv, Drain PROVE AccountInv'
<1>1. /\ UNCHANGED <<app, job, ps>> /\ Books(mail, ui) /\ Kept(mail, ui) /\ ui \in Uis
      /\ mail \in Mails /\ ui.inbox = <<>> /\ ui.emitted = <<>>
      /\ Sought(mail, ui, ps.pending) /\ Waiting(ui, ps.pending)
  BY AccountIs DEF Drain, Idle
<1>2. /\ mail'.events = <<>> /\ mail'.queue = mail.queue /\ mail'.active = mail.active
      /\ mail'.stopped = mail.stopped /\ mail'.scope = mail.scope
  BY <1>1 DEF Drain, Mails
<1>3. /\ ui'.next = ui.next /\ ui'.pending = ui.pending /\ ui'.inbox = mail.events
      /\ ui'.replays = ui.replays /\ ui'.tracked = ui.tracked
      /\ ui'.acknowledged = ui.acknowledged /\ ui'.windows = ui.windows
      /\ ui'.closed = ui.closed /\ ui'.releasing = ui.releasing
      /\ ui'.prepare = ui.prepare /\ ui'.play = ui.play /\ ui'.emitted = ui.emitted
      /\ (ui'.retry <=> mail.events = <<>>)
  <2> DEFINE r == (mail.events = <<>>)
  <2>1. ui' = [ui EXCEPT !.inbox = mail.events, !.retry = r]
    BY DEF Drain
  <2>2. ui'.retry = r
    BY <1>1, <2>1 DEF Uis
  <2> HIDE DEF r
  <2>3. /\ ui'.next = ui.next /\ ui'.pending = ui.pending /\ ui'.inbox = mail.events
        /\ ui'.replays = ui.replays /\ ui'.tracked = ui.tracked
        /\ ui'.acknowledged = ui.acknowledged /\ ui'.windows = ui.windows
        /\ ui'.closed = ui.closed /\ ui'.releasing = ui.releasing
        /\ ui'.prepare = ui.prepare /\ ui'.play = ui.play /\ ui'.emitted = ui.emitted
    BY <1>1, <2>1 DEF Uis
  <2> QED  BY <2>2, <2>3 DEF r
<1>4. /\ Flying(mail', ui') = Flying(mail, ui)
      /\ \A a, b : Precedes(mail', ui', a, b) <=> Precedes(mail, ui, a, b)
  BY <1>1, <1>2, <1>3, DrainFlies
<1>5. Told(mail', ui') /\ JobTold(ui', job)
  <2>1. Matched(mail', ui') /\ (\A x : Old(ui', x) <=> Old(ui, x)) /\ JobTold(ui', job)
    BY <1>1, <1>2, <1>3, <1>4, SameTold DEF Kept
  <2>2. Named(ui') /\ Replayed(ui') /\ Newest(ui')
    BY <1>1, <1>3, <2>1 DEF Kept, Told, Named, Replayed, Newest
  <2> QED  BY <2>1, <2>2 DEF Told
<1>6. ASSUME Leased(mail, ui) PROVE Leased(mail', ui')
  <2>1. LeaseKnown(mail', ui') /\ Served(mail') /\ GoneForGood(mail', ui')
    BY <1>2, <1>3, <1>4, <1>6 DEF Leased, LeaseKnown, Begun, Served, GoneForGood
  <2>2. Tracked(mail', ui') /\ Serving(mail', ui') /\ Windowing(mail', ui')
    BY <1>3, <1>4, <1>6 DEF Leased, Tracked, Serving, Windowing
  <2>3. Tombs(mail', ui')
    BY <1>3, <1>6 DEF Leased, Tombs, Buried
  <2> QED  BY <1>6, <2>1, <2>2, <2>3 DEF Leased
<1>7. \A g : Void(mail', g) <=> Void(mail, g)
  BY <1>2 DEF Void
<1>8. Voided(mail', ui')
  <2>1. AllEvents(mail', ui') = AllEvents(mail, ui) /\ Plays(ui') = Plays(ui)
    BY <1>3, <1>4 DEF AllEvents, Plays
  <2>2. \A a, b : Ahead(mail', ui', a, b) <=> Ahead(mail, ui, a, b)
    BY <1>3, <1>4 DEF Ahead
  <2> QED  BY <1>1, <1>4, <1>7, <2>1, <2>2 DEF Kept, Voided
<1>9. Sought(mail', ui', ps.pending) /\ Waiting(ui', ps.pending)
  BY <1>1, <1>3, <1>4, <1>7 DEF Sought, Doomed, Plays, Waiting, Asked
<1>10. Kept(mail', ui')
  BY <1>1, <1>2, <1>5, <1>6, <1>8 DEF Kept
<1> QED  BY <1>1, <1>2, <1>9, <1>10, InterfaceAccount

LEMMA DismissAccount == ASSUME AppInv, AccountInv, Dismiss PROVE AccountInv'
<1>1. /\ mail' = Abandoned(mail, ui, ps).mail /\ ui' = Abandoned(mail, ui, ps).ui
      /\ ps' = NoSession /\ UNCHANGED <<app, job>>
  BY DEF Dismiss
<1>2. /\ Books(mail, ui) /\ Kept(mail, ui) /\ Sought(mail, ui, ps.pending)
      /\ ps.prep \in Nat /\ ps.pending \in Nat /\ ps.prep <= ui.next /\ ps.pending <= ui.next
  BY AccountIs
<1>3. Kept(mail', ui') /\ Sought(mail', ui', 0) /\ Waiting(ui', 0)
  BY <1>1, <1>2, AbandonedKept
<1>4. mail'.scope = mail.scope /\ mail'.stopped = mail.stopped
  BY <1>1, <1>2, AbandonedBooks DEF Follows
<1>5. ps'.pending = 0
  BY <1>1, NoSessionType
<1> QED  BY <1>1, <1>3, <1>4, <1>5, InterfaceAccount

\* The generation that a command was given is asked.
LEMMA IssuedAsked ==
    ASSUME NEW m, NEW u, NEW c \in Commands, Fit(c), Books(m, u)
    PROVE  Issue(m, u, c).gen = 0 \/ Asked(Issue(m, u, c).ui, Issue(m, u, c).gen)
<1>1. CASE Accepts(m)
  <2> DEFINE v == Issue(m, u, c).ui
             q == Issue(m, u, c).gen
             p == [gen |-> u.next + 1, kind |-> c.kind, id |-> c.id]
  <2>1. Recorded(u, c, v) /\ q = u.next + 1
    BY <1>1, IssueTakes
  <2> HIDE DEF v, q
  <2>2. p \in v.pending /\ p.gen = q
    BY <2>1 DEF Recorded
  <2> HIDE DEF p
  <2>3. Asked(v, q)
    BY <2>2 DEF Asked
  <2> QED  BY <2>3 DEF v, q
<1>2. CASE ~Accepts(m)
  BY <1>2, IssueRefuses
<1> QED  BY <1>1, <1>2

LEMMA StartPlayAccount == ASSUME AppInv, AccountInv, StartPlay PROVE AccountInv'
<1>1. /\ Books(mail, ui) /\ Kept(mail, ui) /\ mail \in Mails /\ ui \in Uis /\ ui.next \in Nat
      /\ ps.prep \in Nat /\ ps.pending \in Nat /\ ps.prep <= ui.next /\ ps.pending <= ui.next
      /\ Sought(mail, ui, ps.pending) /\ Waiting(ui, ps.pending)
  BY AccountIs
<1>2. UNCHANGED <<app, job>>
  BY DEF StartPlay
<1>3. PICK kind \in Providers :
         LET save == IF ui.settings = kind THEN [mail |-> mail, ui |-> ui, gen |-> 0]
                     ELSE Issue(mail, ui, Command("Save", kind, 0))
             chosen == IF save.gen = 0 THEN save.ui ELSE [save.ui EXCEPT !.settings = kind]
             prepare == Issue(save.mail, chosen, Command("Prepare", NoProvider, 0))
             end == Abandoned(prepare.mail, prepare.ui, ps)
         IN  /\ mail' = end.mail
             /\ ui' = end.ui
             /\ ps' = [live |-> TRUE, prep |-> 0, pending |-> prepare.gen,
                       switch |-> IF prepare.gen = 0 THEN 0 ELSE save.gen,
                       provider |-> chosen.settings]
  BY DEF StartPlay
<1> DEFINE s == Command("Save", kind, 0)
           p == Command("Prepare", NoProvider, 0)
           save == IF ui.settings = kind THEN [mail |-> mail, ui |-> ui, gen |-> 0]
                   ELSE Issue(mail, ui, s)
           m1 == save.mail
           u1 == save.ui
           g1 == save.gen
           u2 == IF g1 = 0 THEN u1 ELSE [u1 EXCEPT !.settings = kind]
           m3 == Issue(m1, u2, p).mail
           u3 == Issue(m1, u2, p).ui
           g3 == Issue(m1, u2, p).gen
<1>4. /\ mail' = Abandoned(m3, u3, ps).mail /\ ui' = Abandoned(m3, u3, ps).ui
      /\ ps'.pending = g3
  BY <1>3
<1>5. /\ s \in Commands /\ Fit(s) /\ p \in Commands /\ Fit(p)
      /\ s.kind = "Save" /\ p.kind = "Prepare"
  BY CommandType DEF CommandKinds, Provs, Command
<1> HIDE DEF s, p
<1>6. Refers(ui, s) /\ Refers(u2, p)
  BY <1>5 DEF Refers
<1>7. /\ Books(m1, u1) /\ Kept(m1, u1) /\ Sought(m1, u1, ps.pending) /\ Waiting(u1, ps.pending)
      /\ m1.scope = mail.scope /\ m1.stopped = mail.stopped /\ ui.next <= u1.next
  <2>1. CASE ui.settings = kind
    <3>1. m1 = mail /\ u1 = ui
      BY <2>1
    <3> QED  BY <1>1, <3>1
  <2>2. CASE ui.settings # kind
    <3>1. m1 = Issue(mail, ui, s).mail /\ u1 = Issue(mail, ui, s).ui
      BY <2>2
    <3>2. Books(m1, u1) /\ Follows(mail, ui, m1, u1)
      BY <1>1, <1>5, <3>1, IssueBooks
    <3>3. Kept(m1, u1)
      BY <1>1, <1>5, <1>6, <3>1, IssueKept
    <3>4. Sought(m1, u1, ps.pending) /\ Waiting(u1, ps.pending)
      BY <1>1, <1>5, <1>6, <3>1, IssueSought
    <3> QED  BY <3>2, <3>3, <3>4 DEF Follows
  <2> QED  BY <2>1, <2>2
<1> HIDE DEF save, m1, u1, g1
<1>8. m1 \in Mails /\ u1 \in Uis /\ u1.next \in Nat /\ Windowed(u1) /\ Numbered(u1)
  BY <1>7 DEF Books, Uis
<1>9. Retains(u1, u2) /\ Waived(u1, u2) /\ u2.next = u1.next
  <2>1. kind \in Provs
    BY DEF Provs
  <2> QED  BY <1>8, <2>1 DEF Retains, Uis, Windowed, Waived
<1> HIDE DEF u2
<1>10. Marked(m1, m1)
  BY DEF Marked
<1>11. /\ Books(m1, u2) /\ Kept(m1, u2) /\ Sought(m1, u2, ps.pending) /\ Waiting(u2, ps.pending)
  <2>1. Books(m1, u2)
    BY <1>7, <1>9, RetainsBooks
  <2>2. Kept(m1, u2)
    BY <1>7, <1>8, <1>9, <1>10, WaivedKept
  <2>3. Sought(m1, u2, ps.pending) /\ Waiting(u2, ps.pending)
    BY <1>7, <1>8, <1>9, <1>10, WaivedSought
  <2> QED  BY <2>1, <2>2, <2>3
<1>12. /\ Books(m3, u3) /\ Follows(m1, u2, m3, u3)
  BY <1>5, <1>11, IssueBooks
<1>13. Kept(m3, u3)
  BY <1>5, <1>6, <1>11, IssueKept
<1>14. Sought(m3, u3, ps.pending)
  <2>1. ps.pending <= u2.next
    BY <1>1, <1>7, <1>8, <1>9
  <2> QED  BY <1>1, <1>5, <1>6, <1>11, <2>1, IssueSought
<1>15. g3 = 0 \/ Asked(u3, g3)
  BY <1>5, <1>11, IssuedAsked
<1> HIDE DEF m3, u3, g3
<1>16. Kept(mail', ui') /\ Sought(mail', ui', ps'.pending) /\ Waiting(ui', ps'.pending)
  BY <1>4, <1>12, <1>13, <1>14, <1>15, AbandonedKept
<1>17. Follows(m3, u3, mail', ui')
  <2>1. u3.next \in Nat /\ u2.next <= u3.next
    BY <1>12 DEF Books, Uis, Follows
  <2>2. ps.prep <= u3.next /\ ps.pending <= u3.next
    BY <1>1, <1>7, <1>8, <1>9, <2>1
  <2> QED  BY <1>1, <1>4, <1>12, <2>2, AbandonedBooks
<1>18. mail'.scope = mail.scope /\ mail'.stopped = mail.stopped
  BY <1>7, <1>12, <1>17 DEF Follows
<1> QED  BY <1>2, <1>16, <1>18, InterfaceAccount

\* The play session is told of an answer.
LEMMA SeenKept ==
    ASSUME NEW m, NEW u, Books(m, u), Kept(m, u), u.emitted # <<>>
    PROVE  LET e == Head(u.emitted)
               v == [u EXCEPT !.emitted = Tail(@)]
           IN  /\ Kept(m, v) /\ Books(m, v) /\ e \in Events /\ e \in Held(u.emitted)
               /\ \A g : Doomed(m, u, g) => Doomed(m, v, g)
               /\ Plays(v) = Plays(u) /\ v.play = u.play /\ v.prepare = u.prepare
               /\ v.next = u.next /\ v.inbox = u.inbox
               /\ \A x : (Asked(v, x) <=> Asked(u, x)) /\ (Old(v, x) <=> Old(u, x))
               /\ \A b \in Held(v.emitted) : b \in Held(u.emitted) /\ Before(u.emitted, e, b)
               /\ \A g : Has(u.emitted, g) => e.gen = g \/ Has(v.emitted, g)
<1> DEFINE e == Head(u.emitted)
           v == [u EXCEPT !.emitted = Tail(@)]
           t == Tail(u.emitted)
<1>1. u \in Uis /\ Numbered(u) /\ u.emitted \in Seq(Events) /\ Windowed(u)
  BY DEF Books, Uis
<1>2. Retains(u, v) /\ e \in Events
  BY <1>1, SeenRetains
<1>3. /\ v.next = u.next /\ v.pending = u.pending /\ v.inbox = u.inbox /\ v.replays = u.replays
      /\ v.tracked = u.tracked /\ v.acknowledged = u.acknowledged /\ v.windows = u.windows
      /\ v.closed = u.closed /\ v.releasing = u.releasing /\ v.prepare = u.prepare
      /\ v.play = u.play /\ v.retry = u.retry /\ v.emitted = t
  BY <1>1 DEF Uis
<1>4. /\ Held(u.emitted) = {e} \cup Held(t)
      /\ \A a, b : Before(t, a, b) => Before(u.emitted, a, b)
      /\ \A b \in Held(t) : Before(u.emitted, e, b)
  BY <1>1, HeldTail
<1>5. \A g : Has(u.emitted, g) => e.gen = g \/ Has(t, g)
  BY <1>1, HasTail
<1> HIDE DEF e, v, t
<1>6. Books(m, v)
  BY <1>2, RetainsBooks
<1>7. Lessens(u, v)
  BY <1>3, <1>4 DEF Lessens
<1>8. Marked(m, m) /\ (Tombs(m, u) => Tombs(m, v))
  BY <1>3 DEF Marked, Tombs, Buried
<1>9. /\ Kept(m, v) /\ \A g : Doomed(m, u, g) => Doomed(m, v, g)
      /\ Plays(v) = Plays(u) /\ \A x : Asked(v, x) <=> Asked(u, x)
  BY <1>1, <1>7, <1>8, LessensKept
<1>10. \A x : Old(v, x) <=> Old(u, x)
  BY <1>3, <1>9 DEF Old
<1> QED  BY <1>2, <1>3, <1>4, <1>5, <1>6, <1>9, <1>10 DEF e, v

LEMMA NotifyAccount == ASSUME AppInv, AccountInv, Notify PROVE AccountInv'
<1> DEFINE e == Head(ui.emitted)
           seen == [ui EXCEPT !.emitted = Tail(@)]
           settled == IF e.gen = ps.switch THEN [ps EXCEPT !.switch = 0] ELSE ps
           shown == IF e.kind = "Settings" THEN [settled EXCEPT !.provider = e.prov] ELSE settled
<1>1. /\ Books(mail, ui) /\ Kept(mail, ui) /\ mail \in Mails /\ ui \in Uis /\ ui.next \in Nat
      /\ ps \in PlaySessions /\ ps.prep \in Nat /\ ps.pending \in Nat
      /\ ps.prep <= ui.next /\ ps.pending <= ui.next /\ Told(mail, ui)
      /\ Sought(mail, ui, ps.pending) /\ Waiting(ui, ps.pending) /\ (ps.live \/ ps = NoSession)
  BY AccountIs DEF AppInv, Owning
<1>2. UNCHANGED <<app, job>> /\ ui.emitted # <<>>
  BY DEF Notify
<1>3. /\ Kept(mail, seen) /\ Books(mail, seen) /\ e \in Events /\ e \in Held(ui.emitted)
      /\ \A g : Doomed(mail, ui, g) => Doomed(mail, seen, g)
      /\ Plays(seen) = Plays(ui) /\ seen.play = ui.play /\ seen.prepare = ui.prepare
      /\ seen.next = ui.next /\ seen.inbox = ui.inbox
      /\ \A x : (Asked(seen, x) <=> Asked(ui, x)) /\ (Old(seen, x) <=> Old(ui, x))
      /\ \A b \in Held(seen.emitted) : b \in Held(ui.emitted) /\ Before(ui.emitted, e, b)
      /\ \A g : Has(ui.emitted, g) => e.gen = g \/ Has(seen.emitted, g)
  BY <1>1, <1>2, SeenKept
<1>4. \/ /\ mail' = mail /\ ui' = seen /\ ps'.pending = ps.pending
         /\ ~ps.live \/ e.kind = "Invalidated" \/ e.gen = 0 \/ e.gen # ps.pending
      \/ /\ mail' = Abandoned(mail, seen, ps).mail /\ ui' = Abandoned(mail, seen, ps).ui
         /\ ps'.pending = 0
      \/ mail' = mail /\ ui' = seen /\ ps'.pending = 0 /\ e.kind = "Invalidated"
      \/ /\ e.gen # 0 /\ e.gen = ps.pending
         /\ \/ /\ e.kind = "Prepared"
               /\ mail' = Issue(mail, seen, Command("Play", NoProvider, e.gen)).mail
               /\ ui' = Issue(mail, seen, Command("Play", NoProvider, e.gen)).ui
               /\ ps'.pending = Issue(mail, seen, Command("Play", NoProvider, e.gen)).gen
            \/ mail' = mail /\ ui' = seen /\ ps'.pending = 0
            \/ /\ mail' = Abandoned(mail, seen, [ps EXCEPT !.pending = 0]).mail
               /\ ui' = Abandoned(mail, seen, [ps EXCEPT !.pending = 0]).ui
               /\ ps'.pending = 0
  <2>1. settled \in PlaySessions /\ settled.pending = ps.pending
    BY <1>1 DEF PlaySessions
  <2>2. shown.pending = ps.pending
    BY <1>1, <2>1 DEF PlaySessions
  <2>3. [settled EXCEPT !.prep = 0, !.pending = 0].pending = 0
    BY <2>1 DEF PlaySessions
  <2>4. [ps EXCEPT !.prep = 0, !.pending = 0].pending = 0 /\ [ps EXCEPT !.pending = 0].pending = 0
    BY <1>1 DEF PlaySessions
  <2> DEFINE c == Command("Play", NoProvider, e.gen)
             over == [ps EXCEPT !.pending = 0]
  <2>6. \/ /\ ~ps.live \/ (ps.switch # 0 /\ e.kind = "Invalidated")
           /\ mail' = mail /\ ui' = seen /\ ps' = ps
        \/ /\ mail' = Abandoned(mail, seen, ps).mail /\ ui' = Abandoned(mail, seen, ps).ui
           /\ ps' = [settled EXCEPT !.prep = 0, !.pending = 0]
        \/ /\ e.kind = "Invalidated"
           /\ mail' = mail /\ ui' = seen /\ ps' = [ps EXCEPT !.prep = 0, !.pending = 0]
        \/ /\ e.gen = 0 \/ e.gen # ps.pending
           /\ mail' = mail /\ ui' = seen /\ ps' = shown
        \/ /\ e.gen # 0 /\ e.gen = ps.pending
           /\ \/ /\ e.kind = "Prepared"
                 /\ mail' = Issue(mail, seen, c).mail /\ ui' = Issue(mail, seen, c).ui
                 /\ ps' = [ps EXCEPT !.prep = e.gen, !.pending = Issue(mail, seen, c).gen]
              \/ mail' = mail /\ ui' = seen /\ ps' = [ps EXCEPT !.prep = e.gen, !.pending = 0]
              \/ /\ mail' = Abandoned(mail, seen, over).mail /\ ui' = Abandoned(mail, seen, over).ui
                 /\ ps' = NoSession
              \/ mail' = mail /\ ui' = seen /\ ps' = over
    BY DEF Notify
  <2> HIDE DEF e, seen, settled, shown, c, over
  <2>7. over.pending = 0
    BY <2>4 DEF over
  <2>8. CASE /\ ~ps.live \/ (ps.switch # 0 /\ e.kind = "Invalidated")
             /\ mail' = mail /\ ui' = seen /\ ps' = ps
    BY <2>8
  <2>9. CASE /\ mail' = Abandoned(mail, seen, ps).mail /\ ui' = Abandoned(mail, seen, ps).ui
             /\ ps' = [settled EXCEPT !.prep = 0, !.pending = 0]
    BY <2>3, <2>9
  <2>10. CASE /\ e.kind = "Invalidated"
              /\ mail' = mail /\ ui' = seen /\ ps' = [ps EXCEPT !.prep = 0, !.pending = 0]
    BY <2>4, <2>10
  <2>11. CASE /\ e.gen = 0 \/ e.gen # ps.pending
              /\ mail' = mail /\ ui' = seen /\ ps' = shown
    BY <2>2, <2>11
  <2>12. CASE /\ e.gen # 0 /\ e.gen = ps.pending /\ e.kind = "Prepared"
              /\ mail' = Issue(mail, seen, c).mail /\ ui' = Issue(mail, seen, c).ui
              /\ ps' = [ps EXCEPT !.prep = e.gen, !.pending = Issue(mail, seen, c).gen]
    <3>1. ps'.pending = Issue(mail, seen, c).gen
      BY <1>1, <2>12 DEF PlaySessions
    <3> QED  BY <2>12, <3>1 DEF c
  <2>13. CASE /\ e.gen # 0 /\ e.gen = ps.pending
              /\ mail' = mail /\ ui' = seen /\ ps' = [ps EXCEPT !.prep = e.gen, !.pending = 0]
    <3>1. ps'.pending = 0
      BY <1>1, <2>13 DEF PlaySessions
    <3> QED  BY <2>13, <3>1
  <2>14. CASE /\ e.gen # 0 /\ e.gen = ps.pending
              /\ mail' = Abandoned(mail, seen, over).mail /\ ui' = Abandoned(mail, seen, over).ui
              /\ ps' = NoSession
    BY <2>14, NoSessionType DEF over
  <2>15. CASE /\ e.gen # 0 /\ e.gen = ps.pending
              /\ mail' = mail /\ ui' = seen /\ ps' = over
    BY <2>7, <2>15
  <2> QED  BY <2>6, <2>8, <2>9, <2>10, <2>11, <2>12, <2>13, <2>14, <2>15
<1> HIDE DEF e, seen, settled, shown
<1>5. /\ Nameless(e) => e.gen = 0
      /\ ~Nameless(e) => Old(ui, e.gen)
      /\ e.kind = "Invalidated" => e.gen = 0
  BY <1>1, <1>3 DEF Told, Named, Nameless
<1>6. seen \in Uis /\ Numbered(seen)
  BY <1>3 DEF Books
<1>7. Sought(mail, seen, ps.pending)
  BY <1>1, <1>3 DEF Sought
<1>8. CASE /\ mail' = mail /\ ui' = seen /\ ps'.pending = ps.pending
           /\ ~ps.live \/ e.kind = "Invalidated" \/ e.gen = 0 \/ e.gen # ps.pending
  <2>1. Waiting(seen, ps.pending)
    <3>1. ps.pending # 0 => e.gen # ps.pending
      BY <1>1, <1>5, <1>8, NoSessionType
    <3> QED  BY <1>1, <1>3, <3>1 DEF Waiting
  <2> QED  BY <1>2, <1>3, <1>7, <1>8, <2>1, InterfaceAccount
<1>9. CASE /\ mail' = Abandoned(mail, seen, ps).mail /\ ui' = Abandoned(mail, seen, ps).ui
           /\ ps'.pending = 0
  <2>1. Kept(mail', ui') /\ Sought(mail', ui', 0) /\ Waiting(ui', 0)
    BY <1>3, <1>7, <1>9, AbandonedKept
  <2>2. mail'.scope = mail.scope /\ mail'.stopped = mail.stopped
    BY <1>1, <1>3, <1>9, AbandonedBooks DEF Follows
  <2> QED  BY <1>2, <1>9, <2>1, <2>2, InterfaceAccount
<1>10. ASSUME mail' = mail, ui' = seen, ps'.pending = 0, Sought(mail, seen, 0) PROVE AccountInv'
  <2>1. Waiting(seen, 0)
    BY DEF Waiting
  <2> QED  BY <1>2, <1>3, <1>10, <2>1, InterfaceAccount
<1>11. CASE mail' = mail /\ ui' = seen /\ ps'.pending = 0 /\ e.kind = "Invalidated"
  <2>1. e \in AllEvents(mail, ui) /\ Voided(mail, ui)
    BY <1>1, <1>3 DEF AllEvents, Kept
  <2>2. \A b \in Flying(mail, ui) : Ahead(mail, ui, e, b)
    BY <1>3 DEF Ahead
  <2>3. \A p \in Plays(ui) : Doomed(mail, ui, p.gen)
    BY <1>11, <2>1, <2>2 DEF Voided, Doomed
  <2>4. Sought(mail, seen, 0)
    BY <1>3, <2>3 DEF Sought
  <2> QED  BY <1>10, <1>11, <2>4
<1>12. ASSUME e.gen # 0, e.gen = ps.pending PROVE Sought(mail, seen, 0) /\ Old(seen, e.gen)
  <2>1. Old(seen, e.gen) /\ ~Asked(ui, e.gen)
    BY <1>3, <1>5, <1>12 DEF Old
  <2>2. \A p \in Plays(ui) : p.gen # ps.pending
    BY <1>12, <2>1 DEF Plays, Asked
  <2> QED  BY <1>3, <1>7, <2>1, <2>2 DEF Sought
<1>13. CASE /\ e.gen # 0 /\ e.gen = ps.pending /\ e.kind = "Prepared"
            /\ mail' = Issue(mail, seen, Command("Play", NoProvider, e.gen)).mail
            /\ ui' = Issue(mail, seen, Command("Play", NoProvider, e.gen)).ui
            /\ ps'.pending = Issue(mail, seen, Command("Play", NoProvider, e.gen)).gen
  <2> DEFINE c == Command("Play", NoProvider, e.gen)
  <2>1. e.gen \in Nat
    BY <1>3 DEF Events
  <2>2. c \in Commands /\ Fit(c) /\ c.kind = "Play" /\ c.id = e.gen
    BY <1>13, <2>1, CommandType DEF CommandKinds, Provs, Command
  <2>3. /\ mail' = Issue(mail, seen, c).mail /\ ui' = Issue(mail, seen, c).ui
        /\ ps'.pending = Issue(mail, seen, c).gen
    BY <1>13
  <2> HIDE DEF c
  <2>4. Refers(seen, c)
    BY <1>12, <1>13, <2>2 DEF Refers
  <2>5. (\E b \in AllEvents(mail, seen) : b.kind = "Invalidated") => c.id # app.prepared.gen
    <3> SUFFICES ASSUME NEW b \in AllEvents(mail, seen), b.kind = "Invalidated"
                 PROVE  e.gen # app.prepared.gen
      BY <2>2
    <3>1. Flying(mail, seen) = Flying(mail, ui)
      BY <1>3, MarkedFlies
    <3>2. e \in AllEvents(mail, ui) /\ b \in AllEvents(mail, ui) /\ Ahead(mail, ui, e, b)
      BY <1>3, <3>1 DEF AllEvents, Ahead
    <3> QED  BY <1>1, <1>13, <3>2 DEF Kept, Voided
  <2>6. Kept(mail', ui')
    BY <1>3, <2>2, <2>3, <2>4, <2>5, IssueKept
  <2>7. Sought(mail', ui', ps'.pending) /\ Waiting(ui', ps'.pending)
    BY <1>3, <2>2, <2>3, IssuePlay
  <2>8. mail'.scope = mail.scope /\ mail'.stopped = mail.stopped
    BY <1>3, <2>2, <2>3, IssueScope
  <2> QED  BY <1>2, <2>6, <2>7, <2>8, InterfaceAccount
<1>14. CASE /\ e.gen # 0 /\ e.gen = ps.pending
            /\ mail' = mail /\ ui' = seen /\ ps'.pending = 0
  BY <1>10, <1>12, <1>14
<1>15. CASE /\ e.gen # 0 /\ e.gen = ps.pending
            /\ mail' = Abandoned(mail, seen, [ps EXCEPT !.pending = 0]).mail
            /\ ui' = Abandoned(mail, seen, [ps EXCEPT !.pending = 0]).ui
            /\ ps'.pending = 0
  <2> DEFINE s == [ps EXCEPT !.pending = 0]
  <2>1. s.prep = ps.prep /\ s.pending = 0
    BY <1>1 DEF PlaySessions
  <2>2. mail' = Abandoned(mail, seen, s).mail /\ ui' = Abandoned(mail, seen, s).ui
    BY <1>15
  <2> HIDE DEF s
  <2>3. Sought(mail, seen, s.pending)
    BY <1>12, <1>15, <2>1
  <2>4. Kept(mail', ui') /\ Sought(mail', ui', 0) /\ Waiting(ui', 0)
    BY <1>3, <2>2, <2>3, AbandonedKept
  <2>5. mail'.scope = mail.scope /\ mail'.stopped = mail.stopped
    BY <1>1, <1>3, <2>1, <2>2, AbandonedBooks DEF Follows
  <2> QED  BY <1>2, <1>15, <2>4, <2>5, InterfaceAccount
<1> QED  BY <1>4, <1>8, <1>9, <1>11, <1>13, <1>14, <1>15

-----------------------------------------------------------------------------
(* What a step of the worker leaves of a playback that is lost               *)

LEMMA PlayActive ==
    ASSUME AppInv, JobTold(ui, job), NEW p \in Plays(ui), mail.active = p.gen
    PROVE  job.pc # "idle" /\ job.req.kind = "Play" /\ job.req.id = p.id
<1>1. Numbered(ui) /\ Working
  BY DEF AppInv, Books
<1>2. p \in ui.pending /\ p.kind = "Play" /\ p.gen # 0
  BY <1>1 DEF Plays, Numbered
<1>3. job.pc # "idle" /\ job.req.gen = p.gen
  BY <1>1, <1>2 DEF Working
<1>4. Noted(ui, job.req)
  BY <1>3 DEF JobTold
<1>5. job.req.kind = p.kind /\ job.req.id = p.id
  BY <1>1, <1>2, <1>3, <1>4, NotedOnce
<1> QED  BY <1>2, <1>3, <1>5

LEMMA PlayQueued ==
    ASSUME NEW m, NEW u, Books(m, u), Told(m, u), NEW p \in Plays(u), NEW r \in Held(m.queue),
           r.gen = p.gen
    PROVE  r.kind = "Play" /\ r.id = p.id /\ r.id # 0
<1>1. Numbered(u) /\ Sound(m) /\ p \in u.pending /\ p.kind = "Play"
  BY DEF Books, Plays
<1>2. Noted(u, r)
  BY DEF Told, Matched
<1>3. r.kind = p.kind /\ r.id = p.id
  BY <1>1, <1>2, NotedOnce
<1>4. Fit(r)
  BY <1>1 DEF Sound, Held
<1> QED  BY <1>1, <1>3, <1>4 DEF Fit

LEMMA ActiveAsked ==
    ASSUME AppInv, mail.active # 0
    PROVE  Asked(ui, mail.active) /\ mail.active \in Nat \ {0}
           /\ (\A e \in Flying(mail, ui) : e.gen # mail.active)
           /\ ~Has(mail.queue, mail.active) /\ mail.active \in 1..ui.next
<1>1. Books(mail, ui) /\ mail.active \in Nat \ {0}
  BY DEF AppInv, Shapes, Mails
<1>2. Asked(ui, mail.active) /\ (\A e \in Flying(mail, ui) : e.gen # mail.active)
      /\ ~Has(mail.queue, mail.active)
  BY <1>1, FlyingOnce
<1>3. mail.active \in 1..ui.next
  BY <1>1, <1>2 DEF Books, Numbered, Asked
<1> QED  BY <1>1, <1>2, <1>3

LEMMA VoidOn ==
    ASSUME AppInv, Told(mail, ui), Exchanged, Held(mail'.queue) \subseteq Held(mail.queue),
           NEW p \in Plays(ui), Void(mail, p.gen), mail'.active = p.gen => Lost'
    PROVE  Void(mail, p.gen)'
<1>1. Books(mail, ui)
  BY DEF AppInv
<1>2. ASSUME NEW r \in Held(mail'.queue), r.gen = p.gen PROVE r.id # app'.prepared.gen
  <2>1. r \in Held(mail.queue)
    OBVIOUS
  <2>2. r.id # app.prepared.gen
    BY <1>2, <2>1 DEF Void
  <2>3. r.id = p.id /\ r.id # 0
    BY <1>1, <1>2, <2>1, PlayQueued
  <2>4. Old(ui, r.id)
    BY <2>3 DEF Told, Named, Plays
  <2>5. mail.active # 0 => r.id # mail.active
    BY <2>4, ActiveAsked DEF Old
  <2> QED  BY <2>2, <2>3, <2>5 DEF Exchanged
<1> QED  BY <1>2 DEF Void

\* What is said next, with all that was said before it.
LEMMA VoidedGrows ==
    ASSUME AppInv, Told(mail, ui), Voided(mail, ui), Exchanged, UNCHANGED ui, NEW N,
           Flying(mail', ui) \subseteq Flying(mail, ui) \cup N,
           \A a, b : Precedes(mail', ui, a, b) => Precedes(mail, ui, a, b) \/ b \in N,
           \A a, b \in N : a.kind = "Invalidated" => b.kind = "Invalidated",
           \A b \in N : b.kind = "Invalidated" =>
             b.gen = 0 /\ app'.prepared.gen = 0 /\ \A p \in Plays(ui) : Void(mail, p.gen)',
           \A b \in N, p \in Plays(ui) : b.gen = p.gen /\ Void(mail, p.gen) => b.kind = "Failed",
           \A p \in Plays(ui) : Void(mail, p.gen) => Void(mail, p.gen)'
    PROVE  /\ Voided(mail, ui)'
           /\ \A p \in Plays(ui) : Doomed(mail, ui, p.gen) => Doomed(mail, ui, p.gen)'
<1>1. ui' = ui /\ Plays(ui)' = Plays(ui) /\ Numbered(ui)
  BY DEF Plays, AppInv, Books
<1>2. AllEvents(mail, ui)' \subseteq AllEvents(mail, ui) \cup N
  BY <1>1 DEF AllEvents
<1>3. /\ \A a, b : Ahead(mail, ui, a, b)' =>
           Ahead(mail, ui, a, b) \/ (b \in N /\ b \in Flying(mail', ui))
      /\ Flying(mail, ui)' \subseteq Flying(mail, ui) \cup N
  <2>1. \A a, b : Precedes(mail', ui, a, b) => b \in Flying(mail', ui)
    BY PrecedesFlying
  <2> QED  BY <1>1, <2>1 DEF Ahead, Flying, Precedes
<1>4. ASSUME NEW b \in AllEvents(mail, ui)', b.kind = "Invalidated", NEW p \in Plays(ui)
      PROVE  Void(mail, p.gen)'
  <2>1. CASE b \in N
    BY <1>4, <2>1
  <2>2. CASE b \in AllEvents(mail, ui)
    <3>1. Void(mail, p.gen)
      BY <1>4, <2>2 DEF Voided
    <3> QED  BY <3>1
  <2> QED  BY <1>2, <2>1, <2>2
<1>5. ASSUME NEW p \in Plays(ui), NEW a \in AllEvents(mail, ui)', NEW b \in Flying(mail, ui)',
             a.kind = "Invalidated", b.gen = p.gen, Ahead(mail, ui, a, b)'
      PROVE  b.kind = "Failed"
  <2>1. p.gen # 0
    BY <1>1 DEF Plays, Numbered
  <2>2. CASE a \in N /\ b \in N
    BY <1>5, <2>1, <2>2
  <2>3. CASE a \in AllEvents(mail, ui)
    <3>1. Void(mail, p.gen)
      BY <1>5, <2>3 DEF Voided
    <3>2. CASE b \in N
      BY <1>5, <3>1, <3>2
    <3>3. CASE b \notin N
      <4>1. b \in Flying(mail, ui) /\ Ahead(mail, ui, a, b)
        BY <1>3, <1>5, <3>3
      <4> QED  BY <1>5, <2>3, <4>1 DEF Voided
    <3> QED  BY <3>2, <3>3
  <2>4. CASE a \notin AllEvents(mail, ui) /\ b \notin N
    <3>1. b \in Flying(mail, ui) /\ Ahead(mail, ui, a, b)
      BY <1>3, <1>5, <2>4
    <3>2. a \in AllEvents(mail, ui)
      BY <3>1, PrecedesFlying, BeforeHeld DEF Ahead, AllEvents
    <3> QED  BY <2>4, <3>2
  <2> QED  BY <1>2, <2>2, <2>3, <2>4
<1>6. ASSUME NEW a \in AllEvents(mail, ui)', NEW b \in AllEvents(mail, ui)', a.kind = "Prepared",
             b.kind = "Invalidated", Ahead(mail, ui, a, b)'
      PROVE  a.gen # app'.prepared.gen
  <2>1. ASSUME a \in AllEvents(mail, ui)
        PROVE  a.gen # 0 /\ (mail.active # 0 => a.gen # mail.active)
    <3>1. CASE a \in Flying(mail, ui)
      <4>1. a.gen # 0
        BY <1>1, <1>6, <3>1 DEF Told, Matched, Expected, Nameless, Numbered
      <4> QED  BY <3>1, <4>1, ActiveAsked
    <3>2. CASE a \in Held(ui.emitted)
      <4>1. Old(ui, a.gen)
        BY <1>6, <3>2 DEF Told, Named, Nameless
      <4>2. a.gen # 0
        BY <4>1 DEF Old
      <4> QED  BY <4>1, <4>2, ActiveAsked DEF Old
    <3> QED  BY <2>1, <3>1, <3>2 DEF AllEvents
  <2>2. CASE b \in N
    <3>1. a \notin N
      BY <1>6, <2>2
    <3>2. a \in AllEvents(mail, ui)
      BY <1>2, <3>1
    <3> QED  BY <1>6, <2>1, <2>2, <3>2
  <2>3. CASE b \notin N
    <3>1. b \in AllEvents(mail, ui) /\ Ahead(mail, ui, a, b)
      BY <1>2, <1>3, <1>6, <2>3
    <3>2. a \in AllEvents(mail, ui)
      BY <3>1, PrecedesFlying, BeforeHeld DEF Ahead, AllEvents
    <3>3. a.gen # app.prepared.gen
      BY <1>6, <3>1, <3>2 DEF Voided
    <3> QED  BY <2>1, <3>2, <3>3 DEF Exchanged
  <2> QED  BY <2>2, <2>3
<1>7. Voided(mail, ui)'
  BY <1>1, <1>4, <1>5, <1>6 DEF Voided
<1>8. ASSUME NEW p \in Plays(ui), Doomed(mail, ui, p.gen) PROVE Doomed(mail, ui, p.gen)'
  <2>1. Void(mail, p.gen) /\ \A a \in Flying(mail, ui) : a.gen = p.gen => a.kind = "Failed"
    BY <1>8 DEF Doomed
  <2>2. \A a \in Flying(mail, ui)' : a.gen = p.gen => a.kind = "Failed"
    BY <1>3, <2>1
  <2> QED  BY <2>1, <2>2 DEF Doomed
<1> QED  BY <1>7, <1>8

\* What a step of the worker does to the account, but for the leases.
LEMMA WorkerAccount ==
    ASSUME AppInv, AccountInv, UNCHANGED <<ui, ps>>, Exchanged,
           Held(mail'.queue) \subseteq Held(mail.queue), NEW N,
           Flying(mail', ui) \subseteq Flying(mail, ui) \cup N,
           \A a, b : Precedes(mail', ui, a, b) => Precedes(mail, ui, a, b) \/ b \in N,
           \A b \in N : Expected(ui, b),
           \A a, b \in N : a.kind = "Invalidated" => b.kind = "Invalidated",
           \A b \in N : b.kind = "Invalidated" =>
             app'.prepared.gen = 0 /\ \A p \in Plays(ui) : mail'.active = p.gen => Lost',
           \A b \in N, p \in Plays(ui) : b.gen = p.gen /\ Void(mail, p.gen) => b.kind = "Failed",
           \A p \in Plays(ui) : Void(mail, p.gen) /\ mail'.active = p.gen => Lost',
           JobTold(ui, job'), ~mail'.stopped => Leased(mail, ui)' /\ Disk',
           mail'.stopped => app'.leases = {}
    PROVE  AccountInv'
<1>1. /\ Books(mail, ui) /\ Kept(mail, ui) /\ Told(mail, ui) /\ Voided(mail, ui)
      /\ Sought(mail, ui, ps.pending) /\ Waiting(ui, ps.pending) /\ ui' = ui /\ ps' = ps
  BY AccountIs DEF Kept
<1>2. Told(mail', ui)
  <2>1. \A e \in Flying(mail', ui) : e \in Flying(mail, ui) \/ Expected(ui, e)
    OBVIOUS
  <2>2. Matched(mail', ui)
    BY <1>1, <2>1, SameTold
  <2> QED  BY <1>1, <2>2 DEF Told
<1>3. \A p \in Plays(ui) : Void(mail, p.gen) => Void(mail, p.gen)'
  BY <1>1, VoidOn
<1>4. \A b \in N : b.kind = "Invalidated" =>
        b.gen = 0 /\ app'.prepared.gen = 0 /\ \A p \in Plays(ui) : Void(mail, p.gen)'
  <2> SUFFICES ASSUME NEW b \in N, b.kind = "Invalidated"
               PROVE  b.gen = 0 /\ app'.prepared.gen = 0 /\ \A p \in Plays(ui) : Void(mail, p.gen)'
    OBVIOUS
  <2>1. b.gen = 0
    BY DEF Expected, Nameless
  <2>2. ASSUME NEW p \in Plays(ui) PROVE Void(mail, p.gen)'
    <3>1. \A r \in Held(mail'.queue) : r.gen = p.gen => r.id # 0
      BY <1>1, PlayQueued
    <3> QED  BY <3>1 DEF Void
  <2> QED  BY <2>1, <2>2
<1>5. /\ Voided(mail, ui)'
      /\ \A p \in Plays(ui) : Doomed(mail, ui, p.gen) => Doomed(mail, ui, p.gen)'
  BY <1>1, <1>3, <1>4, VoidedGrows
<1>6. Plays(ui)' = Plays(ui)
  BY <1>1 DEF Plays
<1>7. Sought(mail, ui, ps.pending)' /\ Waiting(ui, ps.pending)'
  BY <1>1, <1>5, <1>6 DEF Sought, Waiting, Asked
<1>8. (Told(mail, ui) /\ JobTold(ui, job))'
  BY <1>1, <1>2
<1> QED  BY <1>5, <1>7, <1>8 DEF AccountInv, Kept

\* A step in which nothing is said.
LEMMA SilentAccount ==
    ASSUME AppInv, AccountInv, UNCHANGED <<ui, ps>>, Exchanged, mail'.events = mail.events,
           Held(mail'.queue) \subseteq Held(mail.queue),
           \A p \in Plays(ui) : Void(mail, p.gen) /\ mail'.active = p.gen => Lost',
           JobTold(ui, job'), ~mail'.stopped => Leased(mail, ui)' /\ Disk',
           mail'.stopped => app'.leases = {}
    PROVE  AccountInv'
<1>1. /\ Flying(mail', ui) = Flying(mail, ui)
      /\ \A a, b : Precedes(mail', ui, a, b) <=> Precedes(mail, ui, a, b)
  BY MarkedFlies
<1> DEFINE N == {}
<1>2. \A b : b \notin N
  OBVIOUS
<1> HIDE DEF N
<1>3. /\ Flying(mail', ui) \subseteq Flying(mail, ui) \cup N
      /\ \A a, b : Precedes(mail', ui, a, b) => Precedes(mail, ui, a, b) \/ b \in N
      /\ \A b \in N : Expected(ui, b)
      /\ \A a, b \in N : a.kind = "Invalidated" => b.kind = "Invalidated"
      /\ \A b \in N : b.kind = "Invalidated" =>
           app'.prepared.gen = 0 /\ \A p \in Plays(ui) : mail'.active = p.gen => Lost'
      /\ \A b \in N, p \in Plays(ui) : b.gen = p.gen /\ Void(mail, p.gen) => b.kind = "Failed"
  BY <1>1, <1>2
<1> QED  BY <1>3, WorkerAccount

LEMMA OperationAccount ==
    ASSUME AppInv, AccountInv, UNCHANGED <<mail, ui, ps>>, Exchanged, Operates,
           job.req.kind = "Play" /\ Lost => Lost', Leased(mail, ui)', Disk'
    PROVE  AccountInv'
<1>1. /\ JobTold(ui, job) /\ mail' = mail /\ job.pc # "idle" /\ ~mail.stopped
  BY AtWork DEF AccountInv, Kept, Operates
<1>2. JobTold(ui, job')
  <2>1. Noted(ui, job.req)
    BY <1>1 DEF JobTold
  <2> QED  BY <2>1 DEF JobTold, Operates, Ended
<1>3. \A p \in Plays(ui) : Void(mail, p.gen) /\ mail'.active = p.gen => Lost'
  BY <1>1, PlayActive DEF Void
<1> QED  BY <1>1, <1>2, <1>3, SilentAccount

\* An operation that leaves the leases and the sessions, and launches nothing.
LEMMA QuietLeased ==
    ASSUME AppInv, Leased(mail, ui), UNCHANGED ui, mail'.events = mail.events,
           app'.leases = app.leases, app'.sessions = app.sessions,
           job.pc # "launching", job'.pc # "launching",
           \A x \in 1..ui.next : ~Has(mail.queue, x) /\ x # mail.active =>
                                   ~Has(mail'.queue, x) /\ x # mail'.active,
           Accepts(mail') => Accepts(mail),
           \/ /\ Ended(job) => job.outcome.kind \notin {"Embedded", "Started", "Released"}
              /\ Ended(job') => job'.outcome.kind \notin {"Embedded", "Started", "Released"}
           \/ /\ job'.req = job.req /\ job'.outcome = job.outcome /\ (Ended(job') <=> Ended(job))
              /\ mail'.active = mail.active
    PROVE  Leased(mail, ui)'
<1>1. /\ Flying(mail, ui)' = Flying(mail, ui) /\ ui' = ui
      /\ \A a, b : Precedes(mail, ui, a, b)' <=> Precedes(mail, ui, a, b)
  BY MarkedFlies
<1>2. LeaseKnown(mail, ui)'
  BY <1>1 DEF Leased, LeaseKnown, Begun, Opens
<1>3. Served(mail)'
  BY DEF Leased, Served
<1>4. GoneForGood(mail, ui)'
  BY <1>1 DEF Leased, GoneForGood, Releases
<1>5. Tracked(mail, ui)' /\ Serving(mail, ui)'
  BY <1>1 DEF Leased, Tracked, Serving, Releases
<1>6. AsAnswered'
  BY DEF Leased, AsAnswered, Opens
<1>7. Windowing(mail, ui)'
  <2>1. Windowing(mail, ui)
    BY DEF Leased
  <2>2. (Ended(job) /\ job.outcome.kind = "Embedded" /\ job.outcome.id # job.req.gen =>
          job.outcome.id \in ui.windows \cup ui.closed)'
    BY <1>1, <2>1 DEF Windowing
  <2>3. (/\ ui.windows \subseteq ui.tracked
         /\ \A s \in app.sessions : s.managed /\ s.id \in ui.tracked => s.id \in ui.windows \cup ui.closed
         /\ \A s \in app.sessions, a \in Flying(mail, ui) :
              Launched(a) /\ s.id = a.id => (s.managed <=> a.kind = "Embedded")
         /\ \A a \in Flying(mail, ui) :
              a.kind = "Embedded" /\ a.id # a.gen => a.id \in ui.windows \cup ui.closed)'
    BY <1>1, <2>1 DEF Windowing
  <2> QED  BY <2>2, <2>3 DEF Windowing
<1>8. Tombs(mail, ui)'
  BY <1>1 DEF Leased, Tombs, Buried
<1> QED  BY <1>2, <1>3, <1>4, <1>5, <1>6, <1>7, <1>8 DEF Leased

LEMMA FinishedWith ==
    ASSUME NEW o \in Answers, job \in Jobs, Finish(o)
    PROVE  GoesTo("reconcile") /\ job'.outcome = o
<1>1. GoesTo("reconcile")
  BY FinishesWith
<1>2. job'.outcome = o
  BY DEF Finish, Jobs
<1> QED  BY <1>1, <1>2

\* The settings on disk and in memory stay, and so does what they stand for.
LEMMA DiskStays ==
    ASSUME Disk, mail'.scope = mail.scope, job'.req = job.req, job.pc # "invalidate",
           job'.pc \in {"preparing", "reconcile", "publish"},
           app'.disk = app.disk, app'.settings \in {app.settings, app.disk, NoProvider},
           app'.prepared \in {app.prepared, NoPrep}, app'.sessions \subseteq app.sessions
    PROVE  Disk'
<1>1. NothingRemote => NothingRemote'
  BY DEF NothingRemote
<1> QED  BY <1>1 DEF Disk, Doing

\* An operation ends with an answer that opens and releases nothing.
LEMMA EndsAccount ==
    ASSUME AppInv, AccountInv, UNCHANGED <<mail, ui, ps>>, NEW o \in Answers, Finish(o),
           Suits(job.req, o), o.kind \notin {"Embedded", "Started", "Released"},
           job.pc \in {"preflight", "execute", "preparing", "resolving"},
           app'.leases = app.leases, app'.sessions = app.sessions, Exchanged, Disk',
           job.req.kind = "Play" /\ job.pc = "execute" => o.kind = "Failed"
    PROVE  AccountInv'
<1>1. job \in Jobs /\ ~mail.stopped
  BY AtWork
<1>2. /\ job'.pc = "reconcile" /\ job'.req = job.req /\ job'.outcome = o
  BY <1>1, FinishedWith DEF GoesTo
<1>3. Operates
  BY <1>2 DEF Operates
<1>4. job.req.kind = "Play" /\ Lost => Lost'
  BY <1>2 DEF Lost, Ended
<1>5. Leased(mail, ui)
  BY <1>1 DEF AccountInv, Kept
<1>6. Leased(mail, ui)'
  BY <1>2, <1>5, QuietLeased DEF Ended
<1> QED  BY <1>3, <1>4, <1>6, OperationAccount

LEMMA FailsAccount ==
    ASSUME AppInv, AccountInv, UNCHANGED <<mail, ui, ps>>, Finish(Failed),
           job.pc \in {"preflight", "execute", "preparing", "resolving"},
           app'.leases = app.leases, app'.sessions = app.sessions, app'.disk = app.disk,
           app'.settings \in {app.settings, app.disk, NoProvider},
           app'.prepared \in {app.prepared, NoPrep}
    PROVE  AccountInv'
<1>1. job \in Jobs /\ ~mail.stopped
  BY AtWork
<1>2. GoesTo("reconcile") /\ Failed.kind = "Failed" /\ Suits(job.req, Failed)
  BY <1>1, FinishedWith, FailedAnswer, FailedType DEF Suits
<1>3. Disk'
  BY <1>1, <1>2, DiskStays DEF AccountInv, GoesTo
<1>4. Exchanged
  BY NoPrepType DEF Exchanged
<1> QED  BY <1>2, <1>3, <1>4, FailedAnswer, EndsAccount

\* An operation goes on, without a lease.
LEMMA GoesOnAccount ==
    ASSUME AppInv, AccountInv, UNCHANGED <<mail, ui, ps>>,
           NEW pc \in {"execute", "preparing", "resolving"}, GoesTo(pc),
           job.pc \in {"preflight", "execute"}, job.req.kind = "Play" => ~Lost,
           app'.leases = app.leases, app'.sessions = app.sessions, Exchanged, Disk'
    PROVE  AccountInv'
<1>1. /\ job'.pc = pc /\ job'.req = job.req
  BY DEF GoesTo
<1>2. Operates
  BY <1>1 DEF Operates
<1>3. Leased(mail, ui)
  BY AtWork DEF AccountInv, Kept
<1>4. Leased(mail, ui)'
  BY <1>1, <1>3, QuietLeased DEF Ended
<1> QED  BY <1>2, <1>4, OperationAccount

LEMMA ExecuteCanceledAccount == ASSUME AppInv, AccountInv, ExecuteCanceled PROVE AccountInv'
<1> QED  BY FailsAccount DEF ExecuteCanceled

LEMMA ExecuteLoadAccount == ASSUME AppInv, AccountInv, ExecuteLoad PROVE AccountInv'
<1>1. job.pc = "execute" /\ job.req.kind = "Load" /\ UNCHANGED <<mail, ui, ps>>
  BY DEF ExecuteLoad, Executing
<1>2. app \in Apps /\ job \in Jobs /\ ~mail.stopped
  BY <1>1, AtWork
<1>3. PICK o \in Answers, settings \in {app.disk, NoProvider} :
        /\ app' = [app EXCEPT !.settings = settings] /\ Finish(o)
        /\ o.kind \in {"Settings", "Failed"}
  <2>1. Outcome("Settings", app.disk, 0) \in Answers
    BY <1>2, AppFields, OutcomeType DEF OutcomeKinds
  <2>2. Outcome("Settings", app.disk, 0).kind = "Settings"
    BY DEF Outcome
  <2> QED  BY <2>1, <2>2, FailedAnswer, FailedType DEF ExecuteLoad
<1>4. /\ app'.prepared = app.prepared /\ app'.sessions = app.sessions
      /\ app'.leases = app.leases /\ app'.disk = app.disk /\ app'.settings = settings
  BY <1>2, <1>3 DEF Apps
<1>5. Disk'
  BY <1>1, <1>2, <1>3, <1>4, FinishedWith, DiskStays DEF AccountInv, GoesTo
<1>6. Suits(job.req, o) /\ Exchanged
  BY <1>1, <1>3, <1>4 DEF Suits, Exchanged
<1> QED  BY <1>1, <1>3, <1>4, <1>5, <1>6, EndsAccount

LEMMA ExecuteSaveAccount == ASSUME AppInv, AccountInv, ExecuteSave PROVE AccountInv'
<1>1. job.pc = "execute" /\ job.req.kind = "Save" /\ UNCHANGED <<mail, ui, ps>>
  BY DEF ExecuteSave, Executing
<1>2. app \in Apps /\ job \in Jobs /\ ~mail.stopped /\ job.req.prov \in Provs
      /\ job.req.prov \in Providers
  BY <1>1, AtWork DEF Fit
<1>3. CASE /\ app' = [app EXCEPT !.disk = job.req.prov, !.settings = job.req.prov]
           /\ Finish(Outcome("Settings", job.req.prov, 0))
  <2> DEFINE o == Outcome("Settings", job.req.prov, 0)
  <2>1. o \in Answers /\ o.kind = "Settings"
    BY <1>2, OutcomeType DEF OutcomeKinds, Outcome
  <2>2. Finish(o)
    BY <1>3
  <2> HIDE DEF o
  <2>3. /\ app'.prepared = app.prepared /\ app'.sessions = app.sessions
        /\ app'.leases = app.leases /\ app'.disk = job.req.prov /\ app'.settings = job.req.prov
    BY <1>2, <1>3 DEF Apps
  <2>4. job'.req = job.req /\ job'.pc = "reconcile"
    BY <1>2, <2>1, <2>2, FinishedWith DEF GoesTo
  <2>5. job.req.prov = mail.scope
    BY <1>1, <1>2 DEF AccountInv, Disk, Doing
  <2>6. Disk'
    BY <1>1, <2>3, <2>4, <2>5 DEF Disk
  <2>7. Suits(job.req, o) /\ Exchanged
    BY <1>1, <2>1, <2>3 DEF Suits, Exchanged
  <2> QED  BY <1>1, <2>1, <2>2, <2>3, <2>6, <2>7, EndsAccount
<1>4. CASE app' \in {app, Loaded(app)} /\ Finish(Failed)
  <2>1. /\ app'.prepared = app.prepared /\ app'.sessions = app.sessions
        /\ app'.leases = app.leases /\ app'.disk = app.disk
        /\ app'.settings \in {app.settings, app.disk, NoProvider}
    BY <1>2, <1>4 DEF Apps, Loaded
  <2> QED  BY <1>1, <1>4, <2>1, FailsAccount
<1> QED  BY <1>3, <1>4 DEF ExecuteSave

LEMMA ExecuteCredentialAccount == ASSUME AppInv, AccountInv, ExecuteCredential PROVE AccountInv'
<1>1. job.pc = "execute" /\ job.req.kind = "Cred" /\ UNCHANGED <<mail, ui, ps>>
  BY DEF ExecuteCredential, Executing
<1>2. app \in Apps /\ job \in Jobs /\ ~mail.stopped
  BY <1>1, AtWork
<1>3. PICK o \in Answers :
        Finish(o) /\ app' \in {app, Loaded(app)} /\ o.kind \in {"Settings", "Failed"}
  <2>1. Outcome("Settings", Loaded(app).settings, 0) \in Answers
    BY <1>2, AppFields, OutcomeType DEF OutcomeKinds
  <2>2. Outcome("Settings", Loaded(app).settings, 0).kind = "Settings"
    BY DEF Outcome
  <2> QED  BY <2>1, <2>2, FailedAnswer, FailedType DEF ExecuteCredential
<1>4. /\ app'.prepared = app.prepared /\ app'.sessions = app.sessions
      /\ app'.leases = app.leases /\ app'.disk = app.disk
      /\ app'.settings \in {app.settings, app.disk, NoProvider}
  BY <1>2, <1>3 DEF Apps, Loaded
<1>5. Disk'
  BY <1>1, <1>2, <1>3, <1>4, FinishedWith, DiskStays DEF AccountInv, GoesTo
<1>6. Suits(job.req, o) /\ Exchanged
  BY <1>1, <1>3, <1>4 DEF Suits, Exchanged
<1> QED  BY <1>1, <1>3, <1>4, <1>5, <1>6, EndsAccount

LEMMA ExecuteTestAccount == ASSUME AppInv, AccountInv, ExecuteTest PROVE AccountInv'
<1>1. job.pc = "execute" /\ job.req.kind = "Test" /\ UNCHANGED <<mail, app, ui, ps>>
  BY DEF ExecuteTest, Executing
<1>2. app \in Apps /\ job \in Jobs /\ ~mail.stopped /\ job.req.prov \in Provs
  BY <1>1, AtWork
<1>3. PICK o \in Answers : Finish(o) /\ o.kind \in {"Checked", "Failed"}
  <2>1. Outcome("Checked", job.req.prov, 0) \in Answers
    BY <1>2, OutcomeType DEF OutcomeKinds
  <2>2. Outcome("Checked", job.req.prov, 0).kind = "Checked"
    BY DEF Outcome
  <2> QED  BY <2>1, <2>2, FailedAnswer, FailedType DEF ExecuteTest
<1>4. Disk'
  BY <1>1, <1>2, <1>3, FinishedWith, DiskStays DEF AccountInv, GoesTo
<1>5. Suits(job.req, o) /\ Exchanged
  BY <1>1, <1>3 DEF Suits, Exchanged
<1> QED  BY <1>1, <1>3, <1>4, <1>5, EndsAccount

LEMMA BeginPrepareAccount == ASSUME AppInv, AccountInv, BeginPrepare PROVE AccountInv'
<1>1. job.pc = "execute" /\ job.req.kind = "Prepare" /\ UNCHANGED <<mail, ui, ps>>
      /\ app' = [app EXCEPT !.prepared = NoPrep]
  BY DEF BeginPrepare, Executing
<1>2. app \in Apps /\ job \in Jobs /\ ~mail.stopped
  BY <1>1, AtWork
<1>3. /\ app'.prepared = NoPrep /\ app'.sessions = app.sessions
      /\ app'.leases = app.leases /\ app'.disk = app.disk /\ app'.settings = app.settings
  BY <1>1, <1>2 DEF Apps
<1>4. CASE job' = [job EXCEPT !.pc = "preparing"]
  <2>1. GoesTo("preparing")
    BY <1>2, <1>4, StepsTo DEF Steps
  <2>2. Disk'
    BY <1>1, <1>2, <1>3, <2>1, DiskStays DEF AccountInv, GoesTo
  <2>3. Exchanged
    BY <1>3, NoPrepType DEF Exchanged
  <2> QED  BY <1>1, <1>3, <2>1, <2>2, <2>3, GoesOnAccount
<1>5. CASE Finish(Failed)
  BY <1>1, <1>3, <1>5, FailsAccount
<1> QED  BY <1>4, <1>5 DEF BeginPrepare

LEMMA PreparedAccount == ASSUME AppInv, AccountInv, Prepared PROVE AccountInv'
<1>1. job.pc = "preparing" /\ UNCHANGED <<mail, ui, ps>>
  BY DEF Prepared
<1>2. /\ app \in Apps /\ job \in Jobs /\ ~mail.stopped /\ Fence /\ job.req.gen = mail.active
      /\ mail.active # 0
  BY <1>1, AtWork
<1>3. job.req.kind = "Prepare"
  BY <1>1, <1>2 DEF Fence, JobKinds, Doing
<1>4. app.settings # NoProvider /\ app.settings = mail.scope /\ app.settings \in Provs
  BY <1>1, <1>2, PrepareSettings, AppFields
<1>5. app.disk = mail.scope
  BY <1>2, <1>4 DEF AccountInv, Disk
<1>6. ASSUME NEW k \in {"Prepared", "Unmatched"}, Finish(Outcome(k, app.settings, 0)),
             app'.sessions = app.sessions, app'.leases = app.leases, app'.disk = app.disk,
             app'.settings = app.settings, Exchanged
      PROVE  AccountInv'
  <2> DEFINE o == Outcome(k, app.settings, 0)
  <2>1. o \in Answers /\ o.kind = k
    BY <1>4, OutcomeType DEF OutcomeKinds, Outcome
  <2>2. Finish(o)
    BY <1>6
  <2> HIDE DEF o
  <2>3. job'.pc = "reconcile" /\ job'.req = job.req
    BY <1>2, <2>1, <2>2, FinishedWith DEF GoesTo
  <2>4. Disk'
    BY <1>1, <1>3, <1>4, <1>5, <1>6, <2>3 DEF Disk, Doing
  <2>5. Suits(job.req, o)
    BY <1>3, <2>1 DEF Suits
  <2> QED  BY <1>1, <1>3, <1>6, <2>1, <2>2, <2>4, <2>5, EndsAccount
<1>7. CASE UNCHANGED app /\ Finish(Failed)
  BY <1>1, <1>7, FailsAccount
<1>8. CASE UNCHANGED app /\ Finish(Outcome("Unmatched", app.settings, 0))
  BY <1>6, <1>8 DEF Exchanged
<1>9. CASE /\ app' = [app EXCEPT !.prepared = [gen |-> job.req.gen, prov |-> app.settings,
                                               epoch |-> job.epoch]]
           /\ Finish(Outcome("Prepared", app.settings, 0))
  <2> DEFINE p == [gen |-> job.req.gen, prov |-> app.settings, epoch |-> job.epoch]
  <2>1. p.gen = mail.active
    BY <1>2
  <2>2. app' = [app EXCEPT !.prepared = p]
    BY <1>9
  <2> HIDE DEF p
  <2>3. /\ app'.prepared = p /\ app'.settings = app.settings
        /\ app'.sessions = app.sessions /\ app'.leases = app.leases /\ app'.disk = app.disk
    BY <1>2, <2>2 DEF Apps
  <2>4. Exchanged
    BY <1>2, <2>1, <2>3 DEF Exchanged
  <2> QED  BY <1>6, <1>9, <2>3, <2>4
<1> QED  BY <1>7, <1>8, <1>9 DEF Prepared

LEMMA BeginPlayAccount == ASSUME AppInv, AccountInv, BeginPlay PROVE AccountInv'
<1>1. job.pc = "execute" /\ job.req.kind = "Play" /\ UNCHANGED <<mail, app, ui, ps>>
  BY DEF BeginPlay, Executing
<1>2. app \in Apps /\ job \in Jobs /\ ~mail.stopped /\ Fit(job.req)
  BY <1>1, AtWork
<1>3. CASE app.prepared.gen = job.req.id /\ job' = [job EXCEPT !.pc = "resolving"]
  <2>1. GoesTo("resolving")
    BY <1>2, <1>3, StepsTo DEF Steps
  <2>2. app.prepared # NoPrep
    BY <1>1, <1>2, <1>3, NoPrepType DEF Fit
  <2>3. app.disk = mail.scope
    BY <1>1, <1>2, <2>2 DEF AccountInv, Disk, NothingRemote
  <2>4. Disk'
    BY <1>1, <1>2, <2>1, <2>3 DEF AccountInv, Disk, GoesTo
  <2>5. Exchanged /\ ~Lost
    BY <1>1, <1>3 DEF Exchanged, Lost, Ended
  <2> QED  BY <1>1, <2>1, <2>4, <2>5, GoesOnAccount
<1>4. CASE Finish(Failed)
  BY <1>1, <1>4, FailsAccount
<1> QED  BY <1>3, <1>4 DEF BeginPlay

\* The lease of the session that is to be launched: it was nobody's.
LEMMA LeaseAccount ==
    ASSUME AppInv, AccountInv, job.pc \in {"execute", "resolving"},
           (job.req.kind = "Play" /\ job.pc = "resolving") \/ job.req.kind = "Local",
           app' = [Loaded(app) EXCEPT !.leases = @ \cup {job.req.gen}],
           job' = [job EXCEPT !.pc = "launching"], UNCHANGED <<mail, ui, ps, left>>
    PROVE  AccountInv'
<1>1. /\ app \in Apps /\ job \in Jobs /\ ~mail.stopped /\ job.req.gen = mail.active
      /\ mail.active # 0 /\ Windowed(ui) /\ Disk /\ Leased(mail, ui) /\ Told(mail, ui)
      /\ mail' = mail /\ ui' = ui
  BY AtWork DEF AccountInv, Kept, Books
<1> DEFINE a == Loaded(app)
           leases == a.leases \cup {job.req.gen}
<1>2. /\ a \in Apps /\ a.prepared = app.prepared /\ a.sessions = app.sessions
      /\ a.leases = app.leases
      /\ a.settings = (IF app.settings = NoProvider THEN app.disk ELSE app.settings)
      /\ a.disk = app.disk
  BY <1>1, AppFields DEF Loaded, Apps
<1>3. app' = [a EXCEPT !.leases = leases]
  OBVIOUS
<1> HIDE DEF a
<1>4. leases = app.leases \cup {mail.active}
  BY <1>1, <1>2
<1> HIDE DEF leases
<1>5. /\ app'.prepared = app.prepared /\ app'.sessions = app.sessions
      /\ app'.leases = app.leases \cup {mail.active} /\ app'.disk = app.disk
      /\ app'.settings \in {app.settings, app.disk}
  BY <1>2, <1>3, <1>4 DEF Apps
<1>6. GoesTo("launching")
  BY <1>1, StepsTo DEF Steps
<1>7. job'.pc = "launching" /\ job'.req = job.req
  BY <1>6 DEF GoesTo
<1>8. Disk'
  <2>1. NothingRemote => NothingRemote'
    BY <1>5 DEF NothingRemote
  <2> QED  BY <1>1, <1>5, <1>7, <2>1 DEF Disk, Doing
<1>9. /\ Flying(mail, ui)' = Flying(mail, ui)
      /\ \A x, y : Precedes(mail, ui, x, y)' <=> Precedes(mail, ui, x, y)
  BY <1>1, MarkedFlies
<1>10. LeaseKnown(mail, ui)' /\ Served(mail)'
  BY <1>1, <1>5, <1>7, <1>9 DEF Leased, LeaseKnown, Begun, Ended, Served
<1>11. GoneForGood(mail, ui)'
  BY <1>1, <1>5, <1>7, <1>9 DEF Leased, GoneForGood, Releases, Ended
<1>12. Tracked(mail, ui)' /\ Serving(mail, ui)'
  BY <1>1, <1>5, <1>7, <1>9 DEF Leased, Tracked, Serving, Releases, Ended
<1>13. AsAnswered'
  BY <1>7 DEF AsAnswered, Ended
<1>14. Windowing(mail, ui)'
  <2>1. Windowing(mail, ui)
    BY <1>1 DEF Leased
  <2> QED  BY <1>1, <1>5, <1>7, <1>9, <2>1 DEF Windowing, Ended
<1>15. Tombs(mail, ui)'
  <2>1. mail.active \notin ui.acknowledged
    <3>1. \A x \in ui.acknowledged : Old(ui, x)
      BY <1>1 DEF Told, Named, Windowed
    <3> QED  BY <1>1, <3>1, ActiveAsked DEF Old
  <2> QED  BY <1>1, <1>5, <2>1 DEF Leased, Tombs, Buried
<1>16. Leased(mail, ui)'
  BY <1>10, <1>11, <1>12, <1>13, <1>14, <1>15 DEF Leased
<1>17. Operates /\ Exchanged
  BY <1>5, <1>7 DEF Operates, Exchanged
<1>18. job.req.kind = "Play" /\ Lost => Lost'
  BY DEF Lost, Ended
<1> QED  BY <1>8, <1>16, <1>17, <1>18, OperationAccount

LEMMA ResolvedAccount == ASSUME AppInv, AccountInv, Resolved PROVE AccountInv'
<1>1. job.pc = "resolving" /\ UNCHANGED <<mail, ui, ps, left>>
  BY DEF Resolved
<1>2. job.req.kind = "Play"
  BY <1>1, AtWork DEF Fence, JobKinds, Doing
<1>3. CASE UNCHANGED app /\ Finish(Failed)
  BY <1>1, <1>3, FailsAccount
<1>4. CASE /\ app' = [Loaded(app) EXCEPT !.leases = @ \cup {job.req.gen}]
           /\ job' = [job EXCEPT !.pc = "launching"]
  BY <1>1, <1>2, <1>4, LeaseAccount
<1> QED  BY <1>3, <1>4 DEF Resolved

LEMMA PlayLocalAccount == ASSUME AppInv, AccountInv, PlayLocal PROVE AccountInv'
<1>1. job.pc = "execute" /\ job.req.kind = "Local" /\ UNCHANGED <<mail, ui, ps, left>>
  BY DEF PlayLocal, Executing
<1>2. CASE UNCHANGED app /\ Finish(Failed)
  BY <1>1, <1>2, FailsAccount
<1>3. CASE /\ app' = [Loaded(app) EXCEPT !.leases = @ \cup {job.req.gen}]
           /\ job' = [job EXCEPT !.pc = "launching"]
  BY <1>1, <1>3, LeaseAccount
<1> QED  BY <1>2, <1>3 DEF PlayLocal

LEMMA LaunchFailedAccount ==
    ASSUME AppInv, AccountInv, job.pc = "launching", UNCHANGED <<mail, ui, ps>>, Finish(Failed),
           app' = [app EXCEPT !.leases = @ \ {job.req.gen}]
    PROVE  AccountInv'
<1>1. /\ app \in Apps /\ job \in Jobs /\ ~mail.stopped /\ job.req.gen = mail.active
      /\ mail.active # 0 /\ Disk /\ Leased(mail, ui) /\ Told(mail, ui) /\ mail' = mail /\ ui' = ui
  BY AtWork DEF AccountInv, Kept
<1> DEFINE leases == app.leases \ {job.req.gen}
<1>2. app' = [app EXCEPT !.leases = leases]
  OBVIOUS
<1> HIDE DEF leases
<1>3. /\ app'.prepared = app.prepared /\ app'.sessions = app.sessions
      /\ app'.leases = leases /\ app'.disk = app.disk /\ app'.settings = app.settings
  BY <1>1, <1>2 DEF Apps
<1>4. app'.leases = app.leases \ {mail.active}
  BY <1>1, <1>3 DEF leases
<1>5. GoesTo("reconcile") /\ job'.outcome = Failed /\ Failed.kind = "Failed"
  BY <1>1, FinishedWith, FailedAnswer, FailedType
<1>6. job'.pc = "reconcile" /\ job'.req = job.req /\ job'.outcome.kind = "Failed"
  BY <1>5 DEF GoesTo
<1>7. Disk'
  BY <1>1, <1>3, <1>6, DiskStays
<1>8. /\ Flying(mail, ui)' = Flying(mail, ui)
      /\ \A x, y : Precedes(mail, ui, x, y)' <=> Precedes(mail, ui, x, y)
  BY <1>1, MarkedFlies
<1>9. /\ Asked(ui, mail.active) /\ (\A e \in Flying(mail, ui) : e.gen # mail.active)
  BY <1>1, ActiveAsked
<1>10. mail.active \notin ui.tracked
  <2>1. \A x \in ui.tracked : Old(ui, x)
    BY <1>1 DEF Told, Named
  <2> QED  BY <1>9, <2>1 DEF Old
<1>11. LeaseKnown(mail, ui)' /\ Served(mail)'
  BY <1>1, <1>3, <1>4, <1>6, <1>8 DEF Leased, LeaseKnown, Begun, Ended, Served
<1>12. GoneForGood(mail, ui)'
  BY <1>1, <1>3, <1>4, <1>6, <1>8 DEF Leased, GoneForGood, Releases, Ended
<1>13. Tracked(mail, ui)'
  BY <1>1, <1>4, <1>6, <1>8, <1>10 DEF Leased, Tracked, Releases, Ended
<1>14. Serving(mail, ui)'
  BY <1>1, <1>4, <1>6, <1>8, <1>9 DEF Leased, Serving, Launched
<1>15. AsAnswered'
  BY <1>6 DEF AsAnswered, Opens
<1>16. Windowing(mail, ui)'
  <2>1. Windowing(mail, ui)
    BY <1>1 DEF Leased
  <2> QED  BY <1>1, <1>3, <1>6, <1>8, <2>1 DEF Windowing
<1>17. Tombs(mail, ui)'
  BY <1>1, <1>4 DEF Leased, Tombs, Buried
<1>18. Leased(mail, ui)'
  BY <1>11, <1>12, <1>13, <1>14, <1>15, <1>16, <1>17 DEF Leased
<1>19. Operates /\ Exchanged
  BY <1>3, <1>6 DEF Operates, Exchanged, Suits
<1>20. ~Lost
  BY DEF Lost, Ended
<1> QED  BY <1>7, <1>18, <1>19, <1>20, OperationAccount

LEMMA LaunchedAccount ==
    ASSUME AppInv, AccountInv, job.pc = "launching", UNCHANGED <<mail, ui, ps>>,
           NEW s \in Sessions, s.id = mail.active, s.remote <=> job.req.kind = "Play",
           NEW o \in Answers, o.kind = "Embedded" \/ o.kind = "Started",
           s.managed <=> o.kind = "Embedded", o.id = mail.active, Finish(o),
           app' = [app EXCEPT !.sessions = @ \cup {s}]
    PROVE  AccountInv'
<1>1. /\ app \in Apps /\ job \in Jobs /\ ~mail.stopped /\ job.req.gen = mail.active
      /\ mail.active # 0 /\ Disk /\ Leased(mail, ui) /\ Told(mail, ui) /\ mail' = mail /\ ui' = ui
      /\ job.req.kind \in {"Play", "Local"}
  BY AtWork DEF AccountInv, Kept, Fence, JobKinds, Doing
<1> DEFINE sessions == app.sessions \cup {s}
<1>2. app' = [app EXCEPT !.sessions = sessions]
  OBVIOUS
<1>3. s \in sessions /\ (\A t \in sessions : t \in app.sessions \/ t = s)
      /\ \A t \in app.sessions : t \in sessions
  OBVIOUS
<1> HIDE DEF sessions
<1>4. /\ app'.prepared = app.prepared /\ app'.sessions = sessions
      /\ app'.leases = app.leases /\ app'.disk = app.disk /\ app'.settings = app.settings
  BY <1>1, <1>2 DEF Apps
<1>5. job'.pc = "reconcile" /\ job'.req = job.req /\ job'.outcome = o
  BY <1>1, FinishedWith DEF GoesTo
<1>6. Disk'
  <2>1. NothingRemote /\ job.req.kind = "Local" => NothingRemote'
    BY <1>3, <1>4 DEF NothingRemote
  <2> QED  BY <1>1, <1>4, <1>5, <2>1 DEF Disk, Doing
<1>7. /\ Flying(mail, ui)' = Flying(mail, ui)
      /\ \A x, y : Precedes(mail, ui, x, y)' <=> Precedes(mail, ui, x, y)
  BY <1>1, MarkedFlies
<1>8. /\ Asked(ui, mail.active) /\ (\A e \in Flying(mail, ui) : e.gen # mail.active)
  BY <1>1, ActiveAsked
<1>9. mail.active \notin ui.tracked
  <2>1. \A x \in ui.tracked : Old(ui, x)
    BY <1>1 DEF Told, Named
  <2> QED  BY <1>8, <2>1 DEF Old
<1>10. LeaseKnown(mail, ui)'
  BY <1>1, <1>4, <1>5, <1>7 DEF Leased, LeaseKnown, Begun, Ended, Opens
<1>11. Served(mail)'
  BY <1>1, <1>3, <1>4 DEF Leased, Served
<1>12. GoneForGood(mail, ui)'
  BY <1>1, <1>4, <1>5, <1>7 DEF Leased, GoneForGood, Releases
<1>13. Tracked(mail, ui)' /\ Serving(mail, ui)'
  BY <1>1, <1>4, <1>5, <1>7 DEF Leased, Tracked, Serving, Releases, Ended
<1>14. AsAnswered'
  BY <1>1, <1>3, <1>4, <1>5 DEF AsAnswered
<1>15. Windowing(mail, ui)'
  <2>1. Windowing(mail, ui)
    BY <1>1 DEF Leased
  <2>2. (\A t \in app.sessions : t.managed /\ t.id \in ui.tracked => t.id \in ui.windows \cup ui.closed)'
    BY <1>1, <1>3, <1>4, <1>9, <2>1 DEF Windowing
  <2>3. (\A t \in app.sessions, a \in Flying(mail, ui) :
           Launched(a) /\ t.id = a.id => (t.managed <=> a.kind = "Embedded"))'
    BY <1>1, <1>3, <1>4, <1>7, <1>8, <2>1 DEF Windowing, Launched
  <2>4. (Ended(job) /\ job.outcome.kind = "Embedded" /\ job.outcome.id # job.req.gen =>
           job.outcome.id \in ui.windows \cup ui.closed)'
    BY <1>1, <1>5
  <2>5. (/\ ui.windows \subseteq ui.tracked
         /\ \A a \in Flying(mail, ui) :
              a.kind = "Embedded" /\ a.id # a.gen => a.id \in ui.windows \cup ui.closed)'
    BY <1>1, <1>7, <2>1 DEF Windowing
  <2> QED  BY <2>2, <2>3, <2>4, <2>5 DEF Windowing
<1>16. Tombs(mail, ui)'
  BY <1>1, <1>4 DEF Leased, Tombs, Buried
<1>17. Leased(mail, ui)'
  BY <1>10, <1>11, <1>12, <1>13, <1>14, <1>15, <1>16 DEF Leased
<1>18. Suits(job.req, o)
  BY <1>1 DEF Suits, Launches
<1>19. Operates /\ Exchanged
  BY <1>4, <1>5, <1>18 DEF Operates, Exchanged
<1>20. ~Lost
  BY DEF Lost, Ended
<1> QED  BY <1>6, <1>17, <1>19, <1>20, OperationAccount

LEMMA LaunchAccount == ASSUME AppInv, AccountInv, Launch PROVE AccountInv'
<1>1. job.pc = "launching" /\ UNCHANGED <<mail, ui, ps>>
  BY DEF Launch
<1>2. job.req.gen = mail.active /\ mail.active \in Nat /\ job \in Jobs
  BY <1>1, AtWork
<1>3. CASE app' = [app EXCEPT !.leases = @ \ {job.req.gen}] /\ Finish(Failed)
  BY <1>1, <1>3, LaunchFailedAccount
<1>4. ASSUME NEW managed \in BOOLEAN,
             app' = [app EXCEPT !.sessions =
                       @ \cup {[id |-> job.req.gen, remote |-> job.req.kind = "Play",
                                managed |-> managed, epoch |-> job.epoch, reported |-> FALSE]}],
             Finish(Outcome(IF managed THEN "Embedded" ELSE "Started", NoProvider, job.req.gen))
      PROVE  AccountInv'
  <2> DEFINE remote == job.req.kind = "Play"
             s == [id |-> job.req.gen, remote |-> remote,
                   managed |-> managed, epoch |-> job.epoch, reported |-> FALSE]
             kind == IF managed THEN "Embedded" ELSE "Started"
             o == Outcome(kind, NoProvider, job.req.gen)
  <2>1. remote \in BOOLEAN /\ (remote <=> job.req.kind = "Play")
    OBVIOUS
  <2>2. kind \in {"Embedded", "Started"} /\ (managed <=> kind = "Embedded")
    OBVIOUS
  <2>3. app' = [app EXCEPT !.sessions = @ \cup {s}] /\ Finish(o)
    BY <1>4
  <2> HIDE DEF remote, kind
  <2>4. s \in Sessions /\ s.id = mail.active /\ s.remote = remote /\ s.managed = managed
    BY <1>2, <2>1 DEF Sessions, Jobs
  <2>5. o \in Answers /\ o.kind = kind /\ o.id = mail.active
    <3>1. kind \in OutcomeKinds \ {"Invalidated"}
      BY <2>2 DEF OutcomeKinds
    <3>2. o \in Answers
      BY <1>2, <3>1, OutcomeType DEF Provs
    <3> QED  BY <1>2, <3>2 DEF Outcome
  <2> HIDE DEF s, o
  <2>6. (s.remote <=> job.req.kind = "Play") /\ (s.managed <=> o.kind = "Embedded")
    BY <2>1, <2>2, <2>4, <2>5
  <2> QED  BY <1>1, <2>2, <2>3, <2>4, <2>5, <2>6, LaunchedAccount
<1> QED  BY <1>3, <1>4 DEF Launch

\* The session a release or a replay is about is named by a command answered.
LEMMA NamesOld ==
    ASSUME AppInv, AccountInv, job.pc # "idle", job.req.kind \in {"Release", "Replay", "Play"}
    PROVE  /\ Old(ui, job.req.id) /\ job.req.id # mail.active
           /\ \A e \in Flying(mail, ui) : Launched(e) => e.gen # job.req.id
<1>1. Told(mail, ui) /\ JobTold(ui, job)
  BY DEF AccountInv, Kept
<1>2. PICK p \in ui.pending : p.gen = job.req.gen /\ p.kind = job.req.kind /\ p.id = job.req.id
  BY <1>1 DEF JobTold, Noted
<1>3. Old(ui, job.req.id)
  BY <1>1, <1>2 DEF Told, Named
<1>4. mail.active # 0
  BY AtWork
<1>5. job.req.id # mail.active
  BY <1>3, <1>4, ActiveAsked DEF Old
<1>6. ASSUME NEW e \in Flying(mail, ui), Launched(e) PROVE Asked(ui, e.gen)
  BY <1>1, <1>6 DEF Told, Matched, Expected, Nameless, Launched, Opens, Asked
<1> QED  BY <1>3, <1>5, <1>6 DEF Old

LEMMA ReleasedAccount ==
    ASSUME AppInv, AccountInv, job.pc = "execute", job.req.kind = "Release",
           UNCHANGED <<mail, ui, ps>>, NEW o \in Answers, o.kind = "Released", o.id = job.req.id,
           Finish(o),
           app' = [app EXCEPT !.leases = @ \ {job.req.id},
                              !.sessions = {s \in @ : s.id # job.req.id}]
    PROVE  AccountInv'
<1>1. /\ app \in Apps /\ job \in Jobs /\ ~mail.stopped
      /\ Disk /\ Leased(mail, ui) /\ mail' = mail /\ ui' = ui
  BY AtWork DEF AccountInv, Kept
<1> DEFINE id == job.req.id
           leases == app.leases \ {id}
           sessions == {s \in app.sessions : s.id # id}
<1>2. app' = [app EXCEPT !.leases = leases, !.sessions = sessions]
  OBVIOUS
<1>3. /\ \A x : x \in leases <=> x \in app.leases /\ x # id
      /\ \A t : t \in sessions <=> t \in app.sessions /\ t.id # id
  OBVIOUS
<1>4. /\ \A e \in Flying(mail, ui) : Launched(e) => e.gen # id
      /\ o.id = id
  BY NamesOld
<1> HIDE DEF leases, sessions, id
<1>5. /\ app'.prepared = app.prepared /\ app'.sessions = sessions
      /\ app'.leases = leases /\ app'.disk = app.disk /\ app'.settings = app.settings
  BY <1>1, <1>2 DEF Apps
<1>6. job'.pc = "reconcile" /\ job'.req = job.req /\ job'.outcome = o
  BY <1>1, FinishedWith DEF GoesTo
<1>7. Disk'
  BY <1>1, <1>3, <1>5, <1>6, DiskStays
<1>8. /\ Flying(mail, ui)' = Flying(mail, ui)
      /\ \A x, y : Precedes(mail, ui, x, y)' <=> Precedes(mail, ui, x, y)
  BY <1>1, MarkedFlies
<1>9. LeaseKnown(mail, ui)'
  BY <1>1, <1>3, <1>5, <1>6, <1>8 DEF Leased, LeaseKnown, Begun, Ended
<1>10. Served(mail)'
  BY <1>1, <1>3, <1>5 DEF Leased, Served
<1>11. GoneForGood(mail, ui)'
  BY <1>1, <1>3, <1>4, <1>5, <1>6, <1>8 DEF Leased, GoneForGood
<1>12. Tracked(mail, ui)'
  BY <1>1, <1>3, <1>4, <1>5, <1>6, <1>8 DEF Leased, Tracked, Releases, Ended
<1>13. Serving(mail, ui)'
  BY <1>1, <1>3, <1>4, <1>5, <1>8 DEF Leased, Serving, Launched
<1>14. AsAnswered'
  BY <1>6 DEF AsAnswered, Opens
<1>15. Windowing(mail, ui)'
  <2>1. Windowing(mail, ui)
    BY <1>1 DEF Leased
  <2> QED  BY <1>1, <1>3, <1>5, <1>6, <1>8, <2>1 DEF Windowing
<1>16. Tombs(mail, ui)'
  BY <1>1, <1>3, <1>5 DEF Leased, Tombs, Buried
<1>17. Leased(mail, ui)'
  BY <1>9, <1>10, <1>11, <1>12, <1>13, <1>14, <1>15, <1>16 DEF Leased
<1>18. Operates /\ Exchanged
  BY <1>5, <1>6 DEF Operates, Exchanged, Suits
<1> QED  BY <1>7, <1>17, <1>18, OperationAccount

LEMMA ReleaseSessionAccount == ASSUME AppInv, AccountInv, ReleaseSession PROVE AccountInv'
<1>1. job.pc = "execute" /\ job.req.kind = "Release" /\ UNCHANGED <<mail, ui, ps>>
  BY DEF ReleaseSession, Executing
<1>2. job.req.id \in Nat
  BY <1>1, AtWork
<1>3. CASE /\ app' = [app EXCEPT !.leases = @ \ {job.req.id},
                                 !.sessions = {s \in @ : s.id # job.req.id}]
           /\ Finish(Outcome("Released", NoProvider, job.req.id))
  <2>1. Outcome("Released", NoProvider, job.req.id) \in Answers
    BY <1>2, OutcomeType DEF OutcomeKinds, Provs
  <2>2. /\ Outcome("Released", NoProvider, job.req.id).kind = "Released"
        /\ Outcome("Released", NoProvider, job.req.id).id = job.req.id
    BY DEF Outcome
  <2> QED  BY <1>1, <1>3, <2>1, <2>2, ReleasedAccount
<1>4. CASE Finish(Failed) /\ UNCHANGED app
  BY <1>1, <1>4, FailsAccount
<1> QED  BY <1>3, <1>4 DEF ReleaseSession

LEMMA ReplayedAccount ==
    ASSUME AppInv, AccountInv, job.pc = "execute", job.req.kind = "Replay",
           UNCHANGED <<mail, app, ui, ps>>, NEW o \in Answers, o.kind = "Embedded",
           o.id = job.req.id, Finish(o),
           NEW s \in app.sessions, s.id = job.req.id, s.id \in app.leases, s.managed
    PROVE  AccountInv'
<1>1. /\ app \in Apps /\ job \in Jobs /\ ~mail.stopped /\ job.req.gen = mail.active
      /\ Disk /\ Leased(mail, ui) /\ mail' = mail /\ ui' = ui /\ app' = app
  BY AtWork DEF AccountInv, Kept
<1>2. job'.pc = "reconcile" /\ job'.req = job.req /\ job'.outcome = o
  BY <1>1, FinishedWith DEF GoesTo
<1>3. /\ \A e \in Flying(mail, ui) : Launched(e) => e.gen # job.req.id
      /\ job.req.id # mail.active
  BY NamesOld
<1>4. Disk'
  BY <1>1, <1>2, DiskStays
<1>5. /\ Flying(mail, ui)' = Flying(mail, ui)
      /\ \A x, y : Precedes(mail, ui, x, y)' <=> Precedes(mail, ui, x, y)
  BY <1>1, MarkedFlies
<1>6. o.id \in ui.windows \cup ui.closed
  <2>1. ~Begun(mail, ui, job.req.id)
    BY <1>3 DEF Begun
  <2>2. job.req.id \in ui.tracked
    BY <1>1, <2>1 DEF Leased, LeaseKnown
  <2> QED  BY <1>1, <2>2 DEF Leased, Windowing
<1>7. LeaseKnown(mail, ui)' /\ Served(mail)'
  BY <1>1, <1>2, <1>5 DEF Leased, LeaseKnown, Begun, Ended, Served
<1>8. GoneForGood(mail, ui)'
  BY <1>1, <1>2, <1>5 DEF Leased, GoneForGood, Releases
<1>9. Tracked(mail, ui)' /\ Serving(mail, ui)'
  BY <1>1, <1>2, <1>5 DEF Leased, Tracked, Serving, Releases, Ended
<1>10. AsAnswered'
  BY <1>1, <1>2, <1>3 DEF AsAnswered
<1>11. Windowing(mail, ui)'
  <2>1. Windowing(mail, ui)
    BY <1>1 DEF Leased
  <2> QED  BY <1>1, <1>2, <1>5, <1>6, <2>1 DEF Windowing
<1>12. Tombs(mail, ui)'
  BY <1>1 DEF Leased, Tombs, Buried
<1>13. Leased(mail, ui)'
  BY <1>7, <1>8, <1>9, <1>10, <1>11, <1>12 DEF Leased
<1>14. Operates /\ Exchanged
  BY <1>1, <1>2 DEF Operates, Exchanged, Suits
<1> QED  BY <1>4, <1>13, <1>14, OperationAccount

LEMMA ReplaySessionAccount == ASSUME AppInv, AccountInv, ReplaySession PROVE AccountInv'
<1>1. job.pc = "execute" /\ job.req.kind = "Replay" /\ UNCHANGED <<mail, app, ui, ps>>
  BY DEF ReplaySession, Executing
<1>2. job.req.id \in Nat /\ job \in Jobs /\ ~mail.stopped
  BY <1>1, AtWork
<1>3. ASSUME NEW s \in app.sessions, s.id = job.req.id, job.req.id \in app.leases,
             Finish(Outcome(IF s.managed THEN "Embedded" ELSE "Relaunched", NoProvider, job.req.id))
      PROVE  AccountInv'
  <2>1. CASE s.managed
    <3> DEFINE o == Outcome("Embedded", NoProvider, job.req.id)
    <3>1. o \in Answers
      BY <1>2, OutcomeType DEF OutcomeKinds, Provs
    <3>2. o.kind = "Embedded" /\ o.id = job.req.id
      BY DEF Outcome
    <3>3. Finish(o)
      BY <1>3, <2>1
    <3> HIDE DEF o
    <3> QED  BY <1>1, <1>3, <2>1, <3>1, <3>2, <3>3, ReplayedAccount
  <2>2. CASE ~s.managed
    <3> DEFINE o == Outcome("Relaunched", NoProvider, job.req.id)
    <3>1. o \in Answers
      BY <1>2, OutcomeType DEF OutcomeKinds, Provs
    <3>2. o.kind = "Relaunched" /\ o.id = job.req.id
      BY DEF Outcome
    <3>3. Finish(o)
      BY <1>3, <2>2
    <3> HIDE DEF o
    <3>4. job'.pc = "reconcile" /\ job'.req = job.req
      BY <1>2, <3>1, <3>3, FinishedWith DEF GoesTo
    <3>5. Disk'
      BY <1>1, <1>2, <3>4, DiskStays DEF AccountInv
    <3>6. Suits(job.req, o) /\ Exchanged
      BY <1>1, <3>2 DEF Suits, Exchanged
    <3> QED  BY <1>1, <3>1, <3>2, <3>3, <3>5, <3>6, EndsAccount
  <2> QED  BY <2>1, <2>2
<1>4. CASE Finish(Failed)
  BY <1>1, <1>4, FailsAccount
<1> QED  BY <1>3, <1>4 DEF ReplaySession

LEMMA InvalidatedIs ==
    ASSUME app \in Apps
    PROVE  LET e == Invalidated(RemoteIds) IN
           /\ e \in Events /\ e.kind = "Invalidated" /\ e.gen = 0 /\ GoneBy(e) = RemoteIds
           /\ ~Launched(e) /\ \A u : Expected(u, e)
<1> DEFINE e == Invalidated(RemoteIds)
<1>1. RemoteIds \in SUBSET Nat
  BY ClearedIs
<1>2. e \in Events /\ e.kind = "Invalidated" /\ e.gen = 0 /\ e.released = RemoteIds
  BY <1>1 DEF Invalidated, Events, OutcomeKinds, Provs
<1> HIDE DEF e
<1>3. GoneBy(e) = RemoteIds /\ ~Launched(e) /\ \A u : Expected(u, e)
  BY <1>2 DEF GoneBy, Launched, Opens, Expected, Nameless
<1> QED  BY <1>2, <1>3 DEF e

LEMMA FollowingEnded ==
    ASSUME Following
    PROVE  /\ job.pc \notin {"idle", "launching"} /\ job'.pc \notin {"idle", "launching"}
           /\ Ended(job)' <=> Ended(job)
           /\ Ended(job) => \/ job'.outcome = job.outcome
                            \/ /\ job.outcome.kind \notin {"Embedded", "Started", "Released"}
                               /\ job'.outcome.kind = "Failed"
<1> QED  BY FailedType DEF Following, Ended

LEMMA QuietFollowing ==
    ASSUME AppInv, Leased(mail, ui), Following, mail'.events = mail.events,
           app'.sessions = app.sessions, app'.leases = app.leases
    PROVE  Leased(mail, ui)'
<1>1. /\ UNCHANGED ui /\ job'.req = job.req /\ mail'.active = mail.active
      /\ mail'.queue = mail.queue /\ (Accepts(mail') => Accepts(mail))
  BY DEF Following, Accepts
<1>2. /\ job.pc # "launching" /\ job'.pc # "launching" /\ (Ended(job') <=> Ended(job))
      /\ Ended(job) => \/ job'.outcome = job.outcome
                       \/ /\ job.outcome.kind \notin {"Embedded", "Started", "Released"}
                          /\ job'.outcome.kind = "Failed"
  BY FollowingEnded DEF Ended
<1>3. CASE ~Ended(job)
  BY <1>1, <1>2, <1>3, QuietLeased
<1>4. CASE Ended(job) /\ job'.outcome = job.outcome
  BY <1>1, <1>2, <1>4, QuietLeased
<1>5. CASE Ended(job) /\ job'.outcome # job.outcome
  BY <1>1, <1>2, <1>5, QuietLeased
<1> QED  BY <1>3, <1>4, <1>5

LEMMA LetGoLeased ==
    ASSUME AppInv, Leased(mail, ui), Following, LetGo, NothingRemote \/ job.pc = "invalidate"
    PROVE  Leased(mail, ui)'
<1>1. /\ ui' = ui /\ job'.req = job.req /\ mail'.active = mail.active /\ mail'.queue = mail.queue
      /\ (Accepts(mail') <=> Accepts(mail)) /\ mail \in Mails /\ app \in Apps /\ Records
  BY AtWork DEF Following, Accepts
<1>2. /\ job.pc # "launching" /\ job'.pc # "launching" /\ (Ended(job)' <=> Ended(job))
      /\ Ended(job) => \/ job'.outcome = job.outcome
                       \/ /\ job.outcome.kind \notin {"Embedded", "Started", "Released"}
                          /\ job'.outcome.kind = "Failed"
  BY FollowingEnded
<1> DEFINE e == Invalidated(RemoteIds)
<1>3. e \in Events /\ e.kind = "Invalidated" /\ GoneBy(e) = RemoteIds /\ ~Launched(e)
  BY <1>1, InvalidatedIs
<1>4. mail'.events = Append(mail.events, e)
  BY DEF LetGo
<1> HIDE DEF e
<1>5. /\ Flying(mail, ui)' = Flying(mail, ui) \cup {e}
      /\ \A a, b : Precedes(mail, ui, a, b)'
                     <=> Precedes(mail, ui, a, b) \/ (a \in Flying(mail, ui) /\ b = e)
  <2>1. /\ Flying(mail', ui) = Flying(mail, ui) \cup {e}
        /\ \A a, b : Precedes(mail', ui, a, b)
                       <=> Precedes(mail, ui, a, b) \/ (a \in Flying(mail, ui) /\ b = e)
    BY <1>1, <1>3, <1>4, EmitFlies
  <2> QED  BY <1>1, <2>1
<1>6. /\ \A s : s \in app'.sessions <=> s \in app.sessions /\ ~s.remote
      /\ \A x : x \in app'.leases <=> x \in app.leases /\ x \notin RemoteIds
      /\ \A s \in app.sessions : s.remote => s.id \in RemoteIds
      /\ \A x \in RemoteIds : \E s \in app.sessions : s.id = x /\ s.remote
  <2>1. \A s : s \in app'.sessions <=> s \in app.sessions /\ ~s.remote
    BY DEF LetGo
  <2>2. \A x : x \in app'.leases <=> x \in app.leases /\ x \notin RemoteIds
    BY DEF LetGo
  <2>3. \A s \in app.sessions : s.remote => s.id \in RemoteIds
    BY DEF RemoteIds
  <2>4. \A x \in RemoteIds : \E s \in app.sessions : s.id = x /\ s.remote
    BY DEF RemoteIds
  <2> QED  BY <2>1, <2>2, <2>3, <2>4
<1>7. /\ NothingRemote => RemoteIds = {} /\ \A s \in app.sessions : ~s.remote
      /\ ~NothingRemote => ~Ended(job)
  BY <1>6 DEF NothingRemote, Ended
<1>8. \A x \in RemoteIds : x \in 1..ui.next /\ ~Has(mail.queue, x) /\ x # mail.active
  BY <1>1, <1>6, <1>7 DEF Records, Ended
<1>9. LeaseKnown(mail, ui)'
  <2> SUFFICES ASSUME NEW g \in app'.leases PROVE g \in ui.tracked \/ Begun(mail, ui, g)'
    BY <1>1 DEF LeaseKnown
  <2>1. g \in ui.tracked \/ Begun(mail, ui, g)
    BY <1>6 DEF Leased, LeaseKnown
  <2>2. Begun(mail, ui, g) => Begun(mail, ui, g)'
    BY <1>1, <1>2, <1>5 DEF Begun, Opens
  <2> QED  BY <2>1, <2>2
<1>10. Served(mail)'
  BY <1>2, <1>6 DEF Leased, Served
<1>11. GoneForGood(mail, ui)'
  <2>1. \A a \in Flying(mail, ui)' : \A x \in GoneBy(a) :
          x \notin app'.leases /\ x \in 1..ui.next /\ ~Has(mail.queue, x) /\ x # mail.active
    <3>1. \A a \in Flying(mail, ui) : \A x \in GoneBy(a) :
            x \notin app.leases /\ x \in 1..ui.next /\ ~Has(mail.queue, x) /\ x # mail.active
      BY DEF Leased, GoneForGood
    <3> QED  BY <1>3, <1>5, <1>6, <1>8, <3>1
  <2>2. Releases(job)' => job'.outcome.id \notin app'.leases
    BY <1>2, <1>6 DEF Leased, GoneForGood, Releases
  <2> QED  BY <1>1, <2>1, <2>2 DEF GoneForGood
<1>12. Tracked(mail, ui)'
  <2> SUFFICES ASSUME NEW x \in ui.tracked
               PROVE  \/ x \in app'.leases \/ \E b \in Flying(mail, ui)' : x \in GoneBy(b)
                      \/ Releases(job)' /\ job'.outcome.id = x
    BY <1>1 DEF Tracked
  <2>1. \/ x \in app.leases \/ \E b \in Flying(mail, ui) : x \in GoneBy(b)
        \/ Releases(job) /\ job.outcome.id = x
    BY DEF Leased, Tracked
  <2> QED  BY <1>2, <1>3, <1>5, <1>6, <2>1 DEF Releases
<1>13. Serving(mail, ui)'
  <2> SUFFICES ASSUME NEW a \in Flying(mail, ui)', Launched(a)
               PROVE  \/ a.id \in app'.leases
                      \/ \E b \in Flying(mail, ui)' : Precedes(mail, ui, a, b)' /\ a.id \in GoneBy(b)
    BY DEF Serving
  <2>1. a \in Flying(mail, ui)
    BY <1>3, <1>5
  <2>2. \/ a.id \in app.leases
        \/ \E b \in Flying(mail, ui) : Precedes(mail, ui, a, b) /\ a.id \in GoneBy(b)
    BY <2>1 DEF Leased, Serving
  <2> QED  BY <1>3, <1>5, <1>6, <2>1, <2>2
<1>14. AsAnswered'
  BY <1>1, <1>2, <1>6, <1>7 DEF Leased, AsAnswered, Opens
<1>15. Windowing(mail, ui)'
  <2>1. Windowing(mail, ui)
    BY DEF Leased
  <2>2. (\A t \in app.sessions : t.managed /\ t.id \in ui.tracked => t.id \in ui.windows \cup ui.closed)'
    BY <1>1, <1>6, <2>1 DEF Windowing
  <2>3. (\A t \in app.sessions, a \in Flying(mail, ui) :
           Launched(a) /\ t.id = a.id => (t.managed <=> a.kind = "Embedded"))'
    BY <1>3, <1>5, <1>6, <2>1 DEF Windowing
  <2>4. (Ended(job) /\ job.outcome.kind = "Embedded" /\ job.outcome.id # job.req.gen =>
           job.outcome.id \in ui.windows \cup ui.closed)'
    BY <1>1, <1>2, <2>1 DEF Windowing
  <2>5. (\A a \in Flying(mail, ui) :
           a.kind = "Embedded" /\ a.id # a.gen => a.id \in ui.windows \cup ui.closed)'
    BY <1>1, <1>3, <1>5, <2>1 DEF Windowing
  <2>6. (ui.windows \subseteq ui.tracked)'
    BY <1>1, <2>1 DEF Windowing
  <2> QED  BY <2>2, <2>3, <2>4, <2>5, <2>6 DEF Windowing
<1>16. Tombs(mail, ui)'
  BY <1>1, <1>6 DEF Leased, Tombs, Buried
<1> QED  BY <1>9, <1>10, <1>11, <1>12, <1>13, <1>14, <1>15, <1>16 DEF Leased

LEMMA FollowingAccount ==
    ASSUME AppInv, AccountInv, Following, Disk' PROVE AccountInv'
<1>1. /\ Leased(mail, ui) /\ JobTold(ui, job) /\ UNCHANGED <<ui, ps>> /\ job'.req = job.req
      /\ mail'.queue = mail.queue /\ mail'.active = mail.active /\ mail'.stopped = mail.stopped
      /\ ~mail.stopped /\ app \in Apps /\ mail \in Mails /\ Fence /\ job.req.gen = mail.active
  BY AtWork DEF AccountInv, Kept, Following
<1>2. /\ job.pc # "idle" /\ job'.pc # "idle" /\ (Ended(job') <=> Ended(job))
      /\ Ended(job) => job'.outcome = job.outcome \/ job'.outcome.kind = "Failed"
  BY FollowingEnded DEF Ended
<1>3. JobTold(ui, job')
  <2>1. Noted(ui, job'.req)
    BY <1>1, <1>2 DEF JobTold
  <2>2. Ended(job') => Suits(job'.req, job'.outcome)
    BY <1>1, <1>2 DEF JobTold, Suits
  <2> QED  BY <2>1, <2>2 DEF JobTold
<1>4. Exchanged
  BY NoPrepType DEF Following, LetGo, Exchanged
<1>5. ASSUME NEW p \in Plays(ui), mail.active = p.gen
      PROVE  job.pc = "reconcile" /\ job.req.kind = "Play"
  <2>1. job.req.kind = "Play"
    BY <1>1, <1>5, PlayActive
  <2> QED  BY <1>1, <2>1 DEF Following, Fence, JobKinds, Doing
<1>6. ASSUME NEW p \in Plays(ui), Void(mail, p.gen), mail'.active = p.gen PROVE Lost'
  BY <1>1, <1>2, <1>5, <1>6 DEF Void, Lost, Ended
<1>7. CASE mail'.events = mail.events /\ app'.sessions = app.sessions /\ app'.leases = app.leases
  <2>1. Leased(mail, ui)'
    BY <1>1, <1>7, QuietFollowing
  <2> QED  BY <1>1, <1>3, <1>4, <1>6, <1>7, <2>1, SilentAccount
<1>8. CASE LetGo /\ (NothingRemote \/ job.pc = "invalidate")
  <2>1. Leased(mail, ui)'
    BY <1>1, <1>8, LetGoLeased
  <2> DEFINE e == Invalidated(RemoteIds)
             N == {e}
  <2>2. e \in Events /\ e.kind = "Invalidated" /\ e.gen = 0 /\ Expected(ui, e)
    BY <1>1, InvalidatedIs
  <2>3. mail'.events = Append(mail.events, e)
    BY <1>8 DEF LetGo
  <2> HIDE DEF e
  <2>4. /\ Flying(mail', ui) = Flying(mail, ui) \cup {e}
        /\ \A a, b : Precedes(mail', ui, a, b)
                       <=> Precedes(mail, ui, a, b) \/ (a \in Flying(mail, ui) /\ b = e)
    BY <1>1, <2>2, <2>3, EmitFlies
  <2>5. app'.prepared.gen = 0
    BY <1>8, NoPrepType DEF LetGo
  <2>6. ASSUME NEW p \in Plays(ui), mail'.active = p.gen PROVE Lost'
    <3>1. job.pc = "reconcile" /\ job.req.kind = "Play" /\ NothingRemote
      BY <1>1, <1>5, <1>8, <2>6
    <3>2. Suits(job.req, job.outcome) /\ Ended(job)
      BY <3>1, <1>1 DEF JobTold, Ended
    <3>3. ~(Opens(job.outcome) /\ job.outcome.id = job.req.gen)
      BY <1>1, <3>1, <3>2 DEF Leased, AsAnswered, NothingRemote
    <3>4. job.outcome.kind = "Failed"
      BY <3>1, <3>2, <3>3 DEF Suits, Opens
    <3> QED  BY <1>2, <3>2, <3>4 DEF Lost
  <2>7. \A p \in Plays(ui) : p.gen # 0
    BY DEF AppInv, Books, Numbered, Plays
  <2>8. \A b : b \in N <=> b = e
    OBVIOUS
  <2> HIDE DEF N
  <2>9. /\ Flying(mail', ui) \subseteq Flying(mail, ui) \cup N
        /\ \A a, b : Precedes(mail', ui, a, b) => Precedes(mail, ui, a, b) \/ b \in N
        /\ \A b \in N : Expected(ui, b)
        /\ \A a, b \in N : a.kind = "Invalidated" => b.kind = "Invalidated"
        /\ \A b \in N : b.kind = "Invalidated" =>
             app'.prepared.gen = 0 /\ \A p \in Plays(ui) : mail'.active = p.gen => Lost'
        /\ \A b \in N, p \in Plays(ui) : b.gen = p.gen /\ Void(mail, p.gen) => b.kind = "Failed"
    BY <2>2, <2>4, <2>5, <2>6, <2>7, <2>8
  <2> QED  BY <1>1, <1>3, <1>4, <1>6, <2>1, <2>9, WorkerAccount
<1> QED  BY <1>7, <1>8 DEF Following

LEMMA EmitAppends ==
    ASSUME NEW m \in Mails, NEW e, ~m.stopped
    PROVE  /\ Emit(m, e).events = Append(m.events, e) /\ Emit(m, e).scope = m.scope
<1> QED  BY DEF Emit, Mails

LEMMA ReconcileSays ==
    ASSUME NEW m \in Mails, NEW s
    PROVE  Reconcile(m, s).events = m.events /\ Reconcile(m, s).stopped = m.stopped
<1> QED  BY DEF Reconcile, Rotated, Mails

\* What following the account says, and under which account it leaves the worker.
LEMMA FollowSays ==
    ASSUME AppInv, job.pc # "idle", NEW s \in Provs, NEW told \in BOOLEAN,
           mail' = IF told THEN Emit(Reconcile(mail, s), Invalidated(RemoteIds))
                   ELSE Reconcile(mail, s)
    PROVE  mail'.events = IF told THEN Append(mail.events, Invalidated(RemoteIds)) ELSE mail.events
<1>1. Books(mail, ui) /\ mail \in Mails /\ ~mail.stopped
  BY AtWork
<1> DEFINE n == Reconcile(mail, s)
<1>2. n \in Mails /\ n.events = mail.events /\ n.stopped = mail.stopped
  BY <1>1, ReconcileIs, ReconcileSays DEF Books
<1>3. mail' = IF told THEN Emit(n, Invalidated(RemoteIds)) ELSE n
  OBVIOUS
<1> HIDE DEF n
<1>4. Emit(n, Invalidated(RemoteIds)).events = Append(n.events, Invalidated(RemoteIds))
  BY <1>1, <1>2, EmitAppends
<1> QED  BY <1>2, <1>3, <1>4

LEMMA InvalidateAccount == ASSUME AppInv, AccountInv, Invalidate PROVE AccountInv'
<1>1. /\ job.pc = "invalidate" /\ app' = Cleared(app)
      /\ mail' = Emit(mail, Invalidated(RemoteIds))
      /\ job' = [job EXCEPT !.pc = "execute"] /\ UNCHANGED <<ui, ps>>
  BY DEF Invalidate
<1>2. /\ app \in Apps /\ job \in Jobs /\ Books(mail, ui) /\ mail \in Mails /\ ~mail.stopped
  BY <1>1, AtWork
<1>3. /\ app'.prepared = NoPrep /\ app'.settings = app.settings
      /\ app'.sessions = {s \in app.sessions : ~s.remote}
      /\ app'.leases = app.leases \ RemoteIds /\ RemoteIds \in SUBSET Nat
  BY <1>1, <1>2, ClearedIs
<1>4. app'.disk = app.disk
  BY <1>1, <1>2 DEF Cleared, Apps
<1>5. Stays(mail, mail') /\ mail'.scope = mail.scope
      /\ mail'.events = Append(mail.events, Invalidated(RemoteIds))
  BY <1>1, <1>2, <1>3, EmitBooks, EmitAppends
<1>6. job'.pc = "execute" /\ job'.req = job.req
  BY <1>1, <1>2, StepsTo DEF Steps, GoesTo
<1>7. LetGo
  BY <1>3, <1>5 DEF LetGo
<1>8. Following
  BY <1>1, <1>5, <1>6, <1>7 DEF Following, Stays
<1>9. NothingRemote'
  BY <1>3 DEF NothingRemote
<1>10. Disk'
  BY <1>1, <1>2, <1>3, <1>4, <1>5, <1>6, <1>9 DEF AccountInv, Disk, Doing
<1> QED  BY <1>8, <1>10, FollowingAccount

LEMMA LoadedPreflight ==
    ASSUME AppInv, AccountInv, job.pc = "preflight", UNCHANGED <<ui, ps>>,
           NEW changed \in BOOLEAN, changed = Changed(mail, app.disk),
           app.settings = NoProvider,
           app' = IF changed THEN Cleared(Loaded(app)) ELSE Loaded(app),
           mail' = IF changed THEN Emit(Reconcile(mail, app.disk), Invalidated(RemoteIds))
                   ELSE Reconcile(mail, app.disk),
           job' = [job EXCEPT !.pc = "execute", !.epoch = mail'.epoch, !.invalidated = changed]
    PROVE  AccountInv'
<1>1. /\ app \in Apps /\ job \in Jobs /\ Books(mail, ui) /\ mail \in Mails /\ ~mail.stopped
      /\ Fence /\ Disk
  BY AtWork DEF AccountInv
<1>2. app.disk \in Provs /\ app.disk # NoProvider
  BY <1>1, AppFields, ProviderAssumption
<1>3. /\ Stays(mail, mail')
      /\ mail'.events = (IF changed THEN Append(mail.events, Invalidated(RemoteIds)) ELSE mail.events)
      /\ mail'.scope = app.disk
  BY <1>2, FollowAccount, FollowSays
<1>4. job'.pc = "execute" /\ job'.req = job.req
  BY <1>1 DEF Jobs
<1>5. /\ Loaded(app) \in Apps /\ Loaded(app).prepared = app.prepared
      /\ Loaded(app).sessions = app.sessions /\ Loaded(app).leases = app.leases
      /\ Loaded(app).settings = app.disk
  BY <1>1, AppFields
<1>6. Loaded(app).disk = app.disk
  BY <1>1 DEF Loaded, Apps
<1> DEFINE a == Loaded(app)
<1>7. /\ Cleared(a).prepared = NoPrep /\ Cleared(a).settings = app.disk
      /\ Cleared(a).sessions = {s \in app.sessions : ~s.remote}
      /\ Cleared(a).leases = app.leases \ RemoteIds
  BY <1>1, <1>5, ClearedIs
<1>8. Cleared(a).disk = app.disk
  <2> HIDE DEF a
  <2>1. a \in Apps /\ a.disk = app.disk
    BY <1>5, <1>6 DEF a
  <2> QED  BY <2>1 DEF Cleared, Apps
<1> HIDE DEF a
<1>9. app'.disk = app.disk /\ app'.settings = app.disk
  BY <1>5, <1>6, <1>7, <1>8 DEF a
<1>10. job.req.kind = "Prepare"
  BY <1>1 DEF Fence, JobKinds, Doing
<1>11. Disk'
  BY <1>3, <1>4, <1>9, <1>10 DEF Disk, Doing
<1>12. CASE changed
  <2>1. LetGo
    BY <1>3, <1>7, <1>12 DEF LetGo, a
  <2>2. app.disk # mail.scope
    BY <1>12 DEF Changed
  <2>3. NothingRemote
    BY <1>1, <2>2 DEF Disk
  <2>4. Following
    BY <1>3, <1>4, <2>1, <2>3 DEF Following, Stays
  <2> QED  BY <1>11, <2>4, FollowingAccount
<1>13. CASE ~changed
  <2>1. Following
    BY <1>3, <1>4, <1>5, <1>13 DEF Following, Stays, a
  <2> QED  BY <1>11, <2>1, FollowingAccount
<1> QED  BY <1>12, <1>13

LEMMA PreflightAccount == ASSUME AppInv, AccountInv, Preflight PROVE AccountInv'
<1>1. job.pc = "preflight" /\ UNCHANGED <<ui, ps>>
  BY DEF Preflight
<1>2. job \in Jobs /\ ~mail.stopped /\ job.req.kind = "Prepare"
  BY <1>1, AtWork DEF Fence, JobKinds, Doing
<1>3. CASE job' = [job EXCEPT !.pc = "execute"] /\ UNCHANGED <<mail, app>>
  <2>1. GoesTo("execute")
    BY <1>2, <1>3, StepsTo DEF Steps
  <2>2. Disk'
    BY <1>1, <1>2, <1>3, <2>1 DEF AccountInv, Disk, GoesTo, NothingRemote, Doing
  <2>3. Exchanged
    BY <1>3 DEF Exchanged
  <2> QED  BY <1>1, <1>2, <1>3, <2>1, <2>2, <2>3, GoesOnAccount
<1>4. CASE Finish(Failed) /\ UNCHANGED <<mail, app>>
  BY <1>1, <1>4, FailsAccount
<1>5. CASE /\ app.settings = NoProvider
           /\ LET changed == Changed(mail, app.disk)
                  fresh == Reconcile(mail, app.disk)
              IN  /\ app' = IF changed THEN Cleared(Loaded(app)) ELSE Loaded(app)
                  /\ mail' = IF changed THEN Emit(fresh, Invalidated(RemoteIds)) ELSE fresh
                  /\ job' = [job EXCEPT !.pc = "execute", !.epoch = mail'.epoch,
                                        !.invalidated = changed]
  <2>1. Changed(mail, app.disk) \in BOOLEAN
    BY DEF Changed
  <2> QED  BY <1>1, <1>5, <2>1, LoadedPreflight
<1> QED  BY <1>3, <1>4, <1>5 DEF Preflight

LEMMA SettleAccount == ASSUME AppInv, AccountInv, Settle PROVE AccountInv'
<1> DEFINE release == Changed(mail, app.settings) /\ ~job.invalidated
           fresh == Reconcile(mail, app.settings)
           superseded == job.outcome.kind \in {"Prepared", "Unmatched"} /\ Canceled
           kept == IF release THEN Cleared(app) ELSE app
<1>1. /\ job.pc = "reconcile" /\ UNCHANGED <<ui, ps>>
      /\ app' = IF superseded THEN [kept EXCEPT !.prepared = NoPrep] ELSE kept
      /\ mail' = IF release THEN Emit(fresh, Invalidated(RemoteIds)) ELSE fresh
      /\ job' = [job EXCEPT !.pc = "publish", !.outcome = IF superseded THEN Failed ELSE @]
  BY DEF Settle
<1>2. /\ app \in Apps /\ job \in Jobs /\ Books(mail, ui) /\ mail \in Mails /\ ~mail.stopped /\ Disk
  BY <1>1, AtWork DEF AccountInv
<1>3. app.settings \in Provs /\ release \in BOOLEAN
  BY <1>2, AppFields DEF Changed
<1>4. /\ Stays(mail, mail')
      /\ mail'.events = (IF release THEN Append(mail.events, Invalidated(RemoteIds)) ELSE mail.events)
      /\ app.settings \in {NoProvider, mail.scope} => mail'.scope = mail.scope
      /\ app.settings \notin {NoProvider, mail.scope} => mail'.scope = app.settings
  BY <1>1, <1>3, FollowAccount, FollowSays
<1>5. /\ job'.pc = "publish" /\ job'.req = job.req
      /\ \/ job'.outcome = job.outcome
         \/ job.outcome.kind \in {"Prepared", "Unmatched"} /\ job'.outcome = Failed
  BY <1>1, <1>2 DEF Jobs
<1>6. /\ Cleared(app) \in Apps /\ Cleared(app).prepared = NoPrep
      /\ Cleared(app).settings = app.settings
      /\ Cleared(app).sessions = {s \in app.sessions : ~s.remote}
      /\ Cleared(app).leases = app.leases \ RemoteIds
  BY <1>2, ClearedIs
<1>7. Cleared(app).disk = app.disk
  BY <1>2 DEF Cleared, Apps
<1>8. /\ kept \in Apps /\ kept.settings = app.settings /\ kept.disk = app.disk
      /\ IF release THEN /\ kept.prepared = NoPrep
                         /\ kept.sessions = {s \in app.sessions : ~s.remote}
                         /\ kept.leases = app.leases \ RemoteIds
         ELSE kept = app
  BY <1>2, <1>6, <1>7
<1> HIDE DEF kept, superseded
<1>9. /\ app'.settings = kept.settings /\ app'.disk = kept.disk
      /\ app'.sessions = kept.sessions /\ app'.leases = kept.leases
      /\ app'.prepared \in {kept.prepared, NoPrep}
  BY <1>1, <1>8 DEF Apps
<1>10. release => app.disk # mail.scope /\ NothingRemote
  BY <1>1, <1>2, <1>3 DEF Changed, Disk
<1> HIDE DEF release
<1>11. \/ /\ mail'.events = mail.events /\ app'.sessions = app.sessions
          /\ app'.leases = app.leases /\ app'.prepared \in {app.prepared, NoPrep}
       \/ LetGo /\ NothingRemote
  <2>1. CASE release
    BY <1>4, <1>8, <1>9, <1>10, <2>1 DEF LetGo
  <2>2. CASE ~release
    BY <1>4, <1>8, <1>9, <2>2
  <2> QED  BY <2>1, <2>2
<1>12. Following
  BY <1>1, <1>4, <1>5, <1>11 DEF Following, Stays
<1>13. NothingRemote => NothingRemote'
  BY <1>11 DEF NothingRemote, LetGo
<1>14. app'.settings = app.settings /\ app'.disk = app.disk
  BY <1>8, <1>9
<1>15. Disk'
  BY <1>1, <1>2, <1>4, <1>5, <1>13, <1>14 DEF Disk, Doing
<1> QED  BY <1>12, <1>15, FollowingAccount

LEMMA SentIs ==
    ASSUME AppInv, Publish
    PROVE  Sends(Event(job.req.gen, job.outcome))
<1>1. /\ job.pc = "publish" /\ job' = NoJob /\ UNCHANGED <<app, ui, ps>>
      /\ mail' = [mail EXCEPT !.active = 0, !.preparedGen = app.prepared.gen,
                              !.pipeline = @ \ {job.req.gen},
                              !.cancelled = @ \ {job.req.gen},
                              !.events = Append(@, Event(job.req.gen, job.outcome))]
  BY DEF Publish
<1>2. /\ mail \in Mails /\ job \in Jobs /\ mail.active \in Nat /\ job.req.gen = mail.active
  BY <1>1, AtWork
<1> DEFINE e == Event(job.req.gen, job.outcome)
<1>3. e \in Events /\ e.gen = mail.active /\ e.kind = job.outcome.kind /\ e.id = job.outcome.id
  <2>1. job.outcome \in Answers
    BY <1>2 DEF Jobs
  <2>2. job.outcome \in Outcomes
    BY <2>1 DEF Answers, Outcomes
  <2>3. e \in Events /\ e.gen = mail.active /\ e.kind = job.outcome.kind
    BY <1>2, <2>2, EventType
  <2>4. e.id = job.outcome.id
    BY DEF Event
  <2> QED  BY <2>3, <2>4
<1>4. /\ mail'.active = 0 /\ mail'.queue = mail.queue /\ mail'.stopped = mail.stopped
      /\ mail'.outstanding = mail.outstanding /\ mail'.scope = mail.scope
      /\ mail'.events = Append(mail.events, e)
  <2> HIDE DEF e
  <2>1. mail' = [mail EXCEPT !.active = 0, !.preparedGen = app.prepared.gen,
                             !.pipeline = @ \ {job.req.gen},
                             !.cancelled = @ \ {job.req.gen},
                             !.events = Append(@, e)]
    BY <1>1 DEF e
  <2> QED  BY <1>2, <2>1 DEF Mails
<1> QED  BY <1>1, <1>3, <1>4 DEF Sends

LEMMA SentLeased ==
    ASSUME AppInv, AccountInv, NEW e, Sends(e)
    PROVE  Leased(mail, ui)'
<1>1. /\ job.pc = "publish" /\ job' = NoJob /\ UNCHANGED <<app, ui, ps>>
      /\ mail'.active = 0 /\ mail'.queue = mail.queue
      /\ mail'.events = Append(mail.events, e) /\ (Accepts(mail') <=> Accepts(mail))
      /\ e \in Events /\ e.gen = mail.active /\ e.kind = job.outcome.kind /\ e.id = job.outcome.id
  BY DEF Sends, Accepts
<1>2. /\ mail \in Mails /\ mail.active # 0 /\ mail.active \in Nat /\ job.req.gen = mail.active
      /\ Records /\ Leased(mail, ui) /\ JobTold(ui, job) /\ Ended(job) /\ job \in Jobs
      /\ Books(mail, ui)
  BY <1>1, AtWork DEF AccountInv, Kept, Ended
<1>3. Suits(job.req, job.outcome) /\ job.outcome.kind # "Invalidated"
  BY <1>1, <1>2 DEF JobTold, Jobs, Answers
<1>4. job'.pc = "idle" /\ ~Ended(job')
  BY <1>1 DEF NoJob, Ended
<1>5. /\ Flying(mail, ui)' = Flying(mail, ui) \cup {e}
      /\ \A a, b : Precedes(mail, ui, a, b)'
                     <=> Precedes(mail, ui, a, b) \/ (a \in Flying(mail, ui) /\ b = e)
  <2>1. /\ Flying(mail', ui) = Flying(mail, ui) \cup {e}
        /\ \A a, b : Precedes(mail', ui, a, b)
                       <=> Precedes(mail, ui, a, b) \/ (a \in Flying(mail, ui) /\ b = e)
    BY <1>1, <1>2, EmitFlies
  <2> QED  BY <1>1, <2>1
<1>6. \A x \in GoneBy(e) : e.kind = "Released" /\ x = job.req.id /\ job.req.kind = "Release"
                           /\ x = job.outcome.id
  BY <1>1, <1>3 DEF GoneBy, Suits
<1>7. ASSUME NEW x \in GoneBy(e)
      PROVE  x \notin app.leases /\ x \in 1..ui.next /\ ~Has(mail.queue, x) /\ x # 0
  <2>1. Old(ui, x)
    BY <1>1, <1>6, <1>7, NamesOld
  <2>2. x \in Nat \ {0}
    BY <2>1, <1>2 DEF Old, Books, Uis
  <2>3. ~Has(mail.queue, x)
    BY <1>2, <2>1, <2>2, FlyingOnce DEF Old
  <2>4. x \notin app.leases
    BY <1>1, <1>2, <1>6, <1>7 DEF Leased, GoneForGood, Releases
  <2> QED  BY <2>1, <2>2, <2>3, <2>4 DEF Old
<1>8. LeaseKnown(mail, ui)'
  <2> SUFFICES ASSUME NEW g \in app.leases PROVE g \in ui.tracked \/ Begun(mail, ui, g)'
    BY <1>1 DEF LeaseKnown
  <2>1. g \in ui.tracked \/ Begun(mail, ui, g)
    BY <1>2 DEF Leased, LeaseKnown
  <2>2. Begun(mail, ui, g) => \E a \in Flying(mail, ui)' : a.gen = g /\ Launched(a)
    BY <1>1, <1>5 DEF Begun, Opens, Launched
  <2> QED  BY <2>1, <2>2 DEF Begun
<1>9. Served(mail)'
  BY <1>1, <1>2, <1>4 DEF Leased, Served
<1>10. GoneForGood(mail, ui)'
  <2>1. \A a \in Flying(mail, ui) : \A x \in GoneBy(a) :
          x \notin app.leases /\ x \in 1..ui.next /\ ~Has(mail.queue, x)
    BY <1>2 DEF Leased, GoneForGood
  <2>2. \A x \in 1..ui.next : x # 0
    BY <1>2 DEF Books, Uis
  <2> QED  BY <1>1, <1>4, <1>5, <1>7, <2>1, <2>2 DEF GoneForGood, Releases
<1>11. Tracked(mail, ui)'
  <2>1. ASSUME Releases(job) PROVE job.outcome.id \in GoneBy(e)
    BY <1>1, <2>1 DEF Releases, GoneBy
  <2> SUFFICES ASSUME NEW x \in ui.tracked
               PROVE  x \in app.leases \/ \E b \in Flying(mail, ui)' : x \in GoneBy(b)
    BY <1>1 DEF Tracked
  <2>2. \/ x \in app.leases \/ \E b \in Flying(mail, ui) : x \in GoneBy(b)
        \/ Releases(job) /\ job.outcome.id = x
    BY <1>2 DEF Leased, Tracked
  <2> QED  BY <1>5, <2>1, <2>2
<1>12. ASSUME Launched(e)
       PROVE  \E s \in app.sessions : /\ s.id = e.id /\ s.id \in app.leases
                                      /\ (s.managed <=> e.kind = "Embedded")
                                      /\ \A t \in app.sessions : t.id = e.id => t = s
  <2>1. Opens(job.outcome) /\ job.outcome.id = job.req.gen
    BY <1>1, <1>2, <1>12 DEF Launched, Opens
  <2>2. PICK s \in app.sessions : /\ s.id = job.req.gen
                                  /\ (s.managed <=> job.outcome.kind = "Embedded")
    BY <1>2, <2>1 DEF Leased, AsAnswered
  <2>3. s.id \in app.leases /\ \A t \in app.sessions : t.id = s.id => t = s
    BY <1>2 DEF Records
  <2> QED  BY <1>1, <2>1, <2>2, <2>3
<1>13. Serving(mail, ui)'
  <2> SUFFICES ASSUME NEW a \in Flying(mail, ui)', Launched(a)
               PROVE  \/ a.id \in app.leases
                      \/ \E b \in Flying(mail, ui)' : Precedes(mail, ui, a, b)' /\ a.id \in GoneBy(b)
    BY <1>1 DEF Serving
  <2>1. CASE a = e
    BY <1>12, <2>1
  <2>2. CASE a \in Flying(mail, ui)
    <3>1. \/ a.id \in app.leases
          \/ \E b \in Flying(mail, ui) : Precedes(mail, ui, a, b) /\ a.id \in GoneBy(b)
      BY <1>2, <2>2 DEF Leased, Serving
    <3> QED  BY <1>5, <3>1
  <2> QED  BY <1>5, <2>1, <2>2
<1>14. AsAnswered'
  BY <1>4 DEF AsAnswered, Ended
<1>15. Windowing(mail, ui)'
  <2>1. Windowing(mail, ui)
    BY <1>2 DEF Leased
  <2>2. (\A t \in app.sessions, a \in Flying(mail, ui) :
           Launched(a) /\ t.id = a.id => (t.managed <=> a.kind = "Embedded"))'
    <3> SUFFICES ASSUME NEW t \in app.sessions, NEW a \in Flying(mail, ui)', Launched(a), t.id = a.id
                 PROVE  t.managed <=> a.kind = "Embedded"
      BY <1>1
    <3>1. CASE a = e
      BY <1>12, <3>1
    <3>2. CASE a \in Flying(mail, ui)
      BY <2>1, <3>2 DEF Windowing
    <3> QED  BY <1>5, <3>1, <3>2
  <2>3. (\A a \in Flying(mail, ui) :
           a.kind = "Embedded" /\ a.id # a.gen => a.id \in ui.windows \cup ui.closed)'
    <3> SUFFICES ASSUME NEW a \in Flying(mail, ui)', a.kind = "Embedded", a.id # a.gen
                 PROVE  a.id \in ui.windows \cup ui.closed
      BY <1>1
    <3>1. CASE a = e
      BY <1>1, <1>2, <2>1, <3>1 DEF Windowing
    <3>2. CASE a \in Flying(mail, ui)
      BY <2>1, <3>2 DEF Windowing
    <3> QED  BY <1>5, <3>1, <3>2
  <2>4. (/\ ui.windows \subseteq ui.tracked
         /\ \A t \in app.sessions : t.managed /\ t.id \in ui.tracked => t.id \in ui.windows \cup ui.closed)'
    BY <1>1, <2>1 DEF Windowing
  <2> QED  BY <1>4, <2>2, <2>3, <2>4 DEF Windowing
<1>16. Tombs(mail, ui)'
  BY <1>1, <1>2 DEF Leased, Tombs, Buried
<1> QED  BY <1>8, <1>9, <1>10, <1>11, <1>13, <1>14, <1>15, <1>16 DEF Leased

LEMMA PublishAccount == ASSUME AppInv, AccountInv, Publish PROVE AccountInv'
<1> DEFINE e == Event(job.req.gen, job.outcome)
           N == {e}
<1>1. Sends(e)
  BY SentIs
<1> HIDE DEF e
<1>2. Leased(mail, ui)'
  BY <1>1, SentLeased
<1>3. /\ job.pc = "publish" /\ job' = NoJob /\ UNCHANGED <<app, ui, ps>>
      /\ mail'.active = 0 /\ mail'.queue = mail.queue /\ mail'.scope = mail.scope
      /\ mail'.stopped = mail.stopped /\ mail'.events = Append(mail.events, e)
      /\ e \in Events /\ e.gen = mail.active /\ e.kind = job.outcome.kind /\ e.id = job.outcome.id
  BY <1>1 DEF Sends
<1>4. /\ mail \in Mails /\ mail.active # 0 /\ job.req.gen = mail.active /\ ~mail.stopped
      /\ JobTold(ui, job) /\ Disk /\ Numbered(ui)
  BY <1>3, AtWork DEF AccountInv, Kept, Books
<1>5. Noted(ui, job.req) /\ Suits(job.req, job.outcome)
  BY <1>3, <1>4 DEF JobTold, Ended
<1>6. Expected(ui, e) /\ e.kind # "Invalidated"
  <2>1. PICK p \in ui.pending : p.gen = job.req.gen /\ p.kind = job.req.kind /\ p.id = job.req.id
    BY <1>5 DEF Noted
  <2>2. Suits(p, e)
    BY <1>3, <1>5, <2>1 DEF Suits
  <2>3. ~Nameless(e)
    BY <1>3, <1>5 DEF Nameless, Suits
  <2> QED  BY <1>3, <1>4, <2>1, <2>2, <2>3 DEF Expected, Nameless
<1>7. job'.pc = "idle"
  BY <1>3 DEF NoJob
<1>8. /\ Flying(mail', ui) = Flying(mail, ui) \cup {e}
      /\ \A a, b : Precedes(mail', ui, a, b)
                     <=> Precedes(mail, ui, a, b) \/ (a \in Flying(mail, ui) /\ b = e)
  BY <1>3, <1>4, EmitFlies
<1>9. ASSUME NEW p \in Plays(ui), e.gen = p.gen, Void(mail, p.gen) PROVE e.kind = "Failed"
  BY <1>3, <1>9 DEF Void, Lost
<1>10. \A p \in Plays(ui) : p.gen # 0
  BY <1>4 DEF Numbered, Plays
<1>11. Exchanged /\ Disk' /\ JobTold(ui, job')
  BY <1>3, <1>4, <1>7 DEF Exchanged, Disk, NothingRemote, JobTold
<1>12. \A b : b \in N <=> b = e
  OBVIOUS
<1> HIDE DEF N
<1>13. /\ Flying(mail', ui) \subseteq Flying(mail, ui) \cup N
       /\ \A a, b : Precedes(mail', ui, a, b) => Precedes(mail, ui, a, b) \/ b \in N
       /\ \A b \in N : Expected(ui, b) /\ b.kind # "Invalidated"
       /\ \A b \in N, p \in Plays(ui) : b.gen = p.gen /\ Void(mail, p.gen) => b.kind = "Failed"
  BY <1>6, <1>8, <1>9, <1>12
<1>14. \A p \in Plays(ui) : ~(mail'.active = p.gen)
  BY <1>3, <1>10
<1> QED  BY <1>2, <1>3, <1>4, <1>11, <1>13, <1>14, WorkerAccount

LEMMA ReportIs ==
    ASSUME AppInv, MediaFails
    PROVE  \E s, r, e : Reports(s, r, e)
<1>1. /\ job.pc = "idle" /\ ~mail.stopped /\ mail.outstanding < Capacity
      /\ UNCHANGED <<job, ui, ps>>
  BY DEF MediaFails
<1>2. PICK s \in app.sessions :
        /\ app' = [app EXCEPT !.sessions = (@ \ {s}) \cup {[s EXCEPT !.reported = TRUE]}]
        /\ mail' = [mail EXCEPT !.outstanding = @ + 1,
                                !.events = Append(@, Event(0, Outcome("MediaFailed", NoProvider, s.id)))]
  BY DEF MediaFails
<1>3. mail \in Mails /\ app \in Apps
  BY <1>1, AtRest
<1> DEFINE r == [s EXCEPT !.reported = TRUE]
           e == Event(0, Outcome("MediaFailed", NoProvider, s.id))
           sessions == (app.sessions \ {s}) \cup {r}
<1>4. s \in Sessions
  BY <1>3 DEF Apps
<1>5. r.id = s.id /\ r.remote = s.remote /\ r.managed = s.managed
  BY <1>4 DEF Sessions
<1>6. e \in Events /\ e.gen = 0 /\ e.kind = "MediaFailed"
  <2>1. s.id \in Nat
    BY <1>4 DEF Sessions
  <2>2. Outcome("MediaFailed", NoProvider, s.id) \in Outcomes
        /\ Outcome("MediaFailed", NoProvider, s.id).kind = "MediaFailed"
    BY <2>1 DEF Outcome, Outcomes, OutcomeKinds, Provs
  <2> QED  BY <2>2, EventType
<1>7. app' = [app EXCEPT !.sessions = sessions]
      /\ mail' = [mail EXCEPT !.outstanding = @ + 1, !.events = Append(@, e)]
  BY <1>2
<1> HIDE DEF e, r, sessions
<1>8. /\ app'.sessions = sessions /\ app'.leases = app.leases
      /\ app'.prepared = app.prepared /\ app'.settings = app.settings /\ app'.disk = app.disk
  BY <1>3, <1>7 DEF Apps
<1>9. /\ mail'.queue = mail.queue /\ mail'.active = mail.active /\ mail'.stopped = mail.stopped
      /\ mail'.scope = mail.scope /\ mail'.events = Append(mail.events, e)
  BY <1>3, <1>7 DEF Mails
<1>10. Accepts(mail)
  BY <1>1 DEF Accepts
<1>11. Reports(s, r, e)
  BY <1>1, <1>5, <1>6, <1>8, <1>9, <1>10 DEF Reports, sessions
<1> QED  BY <1>11

LEMMA MediaFailsAccount == ASSUME AppInv, AccountInv, MediaFails PROVE AccountInv'
<1>1. PICK s, r, e : Reports(s, r, e)
  BY ReportIs
<1>2. /\ s \in app.sessions /\ r.id = s.id /\ r.remote = s.remote /\ r.managed = s.managed
      /\ job.pc = "idle" /\ ~mail.stopped /\ Accepts(mail) /\ UNCHANGED <<job, ui, ps>>
      /\ app'.leases = app.leases
      /\ app'.prepared = app.prepared /\ app'.settings = app.settings /\ app'.disk = app.disk
      /\ mail'.queue = mail.queue /\ mail'.active = mail.active /\ mail'.stopped = mail.stopped
      /\ mail'.scope = mail.scope
      /\ mail'.events = Append(mail.events, e) /\ e \in Events
      /\ e.kind = "MediaFailed" /\ e.gen = 0
  BY <1>1 DEF Reports
<1>3. /\ \A t \in app'.sessions : \E o \in app.sessions :
           o.id = t.id /\ o.remote = t.remote /\ o.managed = t.managed
      /\ \A o \in app.sessions : \E t \in app'.sessions : t.id = o.id
  BY <1>1, <1>2 DEF Reports
<1>4. /\ mail.active = 0 /\ mail \in Mails /\ Leased(mail, ui) /\ Disk /\ Numbered(ui)
  BY <1>2, AtRest DEF AccountInv, Kept, Books
<1>5. ~Launched(e) /\ GoneBy(e) = {} /\ Expected(ui, e)
  BY <1>2 DEF Launched, Opens, GoneBy, Expected, Nameless
<1>6. /\ Flying(mail', ui) = Flying(mail, ui) \cup {e}
      /\ \A a, b : Precedes(mail', ui, a, b)
                     <=> Precedes(mail, ui, a, b) \/ (a \in Flying(mail, ui) /\ b = e)
  BY <1>2, <1>4, EmitFlies
<1>7. /\ Flying(mail, ui)' = Flying(mail, ui) \cup {e}
      /\ \A a, b : Precedes(mail, ui, a, b)'
                     <=> Precedes(mail, ui, a, b) \/ (a \in Flying(mail, ui) /\ b = e)
  BY <1>2, <1>6
<1>8. LeaseKnown(mail, ui)' /\ Served(mail)'
  <2>1. \A g : Begun(mail, ui, g) => Begun(mail, ui, g)'
    BY <1>2, <1>7 DEF Begun, Ended
  <2>2. LeaseKnown(mail, ui)'
    BY <1>2, <1>4, <2>1 DEF Leased, LeaseKnown
  <2>3. Served(mail)'
    BY <1>2, <1>3, <1>4 DEF Leased, Served
  <2> QED  BY <2>2, <2>3
<1>9. GoneForGood(mail, ui)'
  BY <1>2, <1>4, <1>5, <1>7 DEF Leased, GoneForGood, Releases, Ended
<1>10. Tracked(mail, ui)'
  BY <1>2, <1>4, <1>7 DEF Leased, Tracked, Releases, Ended
<1>11. Serving(mail, ui)'
  BY <1>2, <1>4, <1>5, <1>7 DEF Leased, Serving
<1>12. AsAnswered'
  BY <1>2 DEF AsAnswered, Ended
<1>13. Windowing(mail, ui)'
  <2>1. Windowing(mail, ui)
    BY <1>4 DEF Leased
  <2>2. (\A t \in app.sessions : t.managed /\ t.id \in ui.tracked => t.id \in ui.windows \cup ui.closed)'
    BY <1>2, <1>3, <2>1 DEF Windowing
  <2>3. (\A t \in app.sessions, a \in Flying(mail, ui) :
           Launched(a) /\ t.id = a.id => (t.managed <=> a.kind = "Embedded"))'
    BY <1>2, <1>3, <1>5, <1>7, <2>1 DEF Windowing
  <2>4. (\A a \in Flying(mail, ui) :
           a.kind = "Embedded" /\ a.id # a.gen => a.id \in ui.windows \cup ui.closed)'
    BY <1>2, <1>7, <2>1 DEF Windowing
  <2>5. (ui.windows \subseteq ui.tracked)' /\ ~Ended(job')
    BY <1>2, <2>1 DEF Windowing, Ended
  <2> QED  BY <2>2, <2>3, <2>4, <2>5 DEF Windowing
<1>14. Tombs(mail, ui)'
  BY <1>2, <1>4 DEF Leased, Tombs, Buried
<1>15. Leased(mail, ui)'
  BY <1>8, <1>9, <1>10, <1>11, <1>12, <1>13, <1>14 DEF Leased
<1>16. NothingRemote => NothingRemote'
  BY <1>2, <1>3 DEF NothingRemote
<1>17. Exchanged /\ Disk' /\ JobTold(ui, job')
  BY <1>2, <1>4, <1>16 DEF Exchanged, Disk, JobTold
<1>18. \A p \in Plays(ui) : p.gen # 0
  BY <1>4 DEF Numbered, Plays
<1> DEFINE N == {e}
<1>19. \A b : b \in N <=> b = e
  OBVIOUS
<1> HIDE DEF N
<1>20. /\ Flying(mail', ui) \subseteq Flying(mail, ui) \cup N
       /\ \A a, b : Precedes(mail', ui, a, b) => Precedes(mail, ui, a, b) \/ b \in N
       /\ \A b \in N : Expected(ui, b) /\ b.kind # "Invalidated"
       /\ \A b \in N, p \in Plays(ui) : b.gen = p.gen /\ Void(mail, p.gen) => b.kind = "Failed"
  BY <1>2, <1>5, <1>6, <1>18, <1>19
<1>21. \A p \in Plays(ui) : ~(mail'.active = p.gen)
  BY <1>2, <1>4, <1>18
<1> QED  BY <1>2, <1>15, <1>17, <1>20, <1>21, WorkerAccount

LEMMA TakeAccount == ASSUME AppInv, AccountInv, Take PROVE AccountInv'
<1>1. job.pc = "idle" /\ ~mail.stopped /\ UNCHANGED <<ui, ps>>
      /\ app' = [app EXCEPT !.prepared = Retained]
  BY DEF Take, Retained
<1>2. /\ mail.active = 0 /\ Books(mail, ui) /\ Records /\ mail \in Mails /\ app \in Apps
      /\ job \in Jobs /\ ui \in Uis /\ Leased(mail, ui) /\ Told(mail, ui) /\ Disk
      /\ JobTold(ui, job)
  BY <1>1, AtRest DEF AccountInv, Kept
<1> DEFINE p == Retained
<1>3. p \in {app.prepared, NoPrep}
  BY <1>2, RetainedIs
<1>4. app' = [app EXCEPT !.prepared = p]
  BY <1>1
<1> HIDE DEF p
<1>5. /\ app'.prepared = p /\ app'.sessions = app.sessions /\ app'.leases = app.leases
      /\ app'.settings = app.settings /\ app'.disk = app.disk
  BY <1>2, <1>4 DEF Apps
<1>6. Exchanged
  BY <1>3, <1>5, NoPrepType DEF Exchanged
<1>7. NothingRemote => NothingRemote'
  BY <1>3, <1>5 DEF NothingRemote
<1>8. CASE mail.queue = <<>>
  <2>1. mail' = [mail EXCEPT !.discarded = {}, !.preparedGen = Retained.gen] /\ job' = job
    BY <1>8 DEF Take, Retained
  <2>2. /\ mail'.events = mail.events /\ mail'.queue = mail.queue /\ mail'.active = mail.active
        /\ mail'.stopped = mail.stopped /\ mail'.outstanding = mail.outstanding
        /\ mail'.scope = mail.scope
    BY <1>2, <2>1 DEF Mails
  <2>3. Disk'
    BY <1>1, <1>2, <1>5, <1>7, <2>1, <2>2 DEF Disk
  <2>4. Leased(mail, ui)'
    BY <1>1, <1>2, <1>5, <2>1, <2>2, QuietLeased DEF Accepts
  <2>5. \A q \in Plays(ui) : q.gen # 0
    BY <1>2 DEF Books, Numbered, Plays
  <2> QED  BY <1>1, <1>2, <1>6, <2>1, <2>2, <2>3, <2>4, <2>5, SilentAccount
<1>9. CASE mail.queue # <<>>
  <2> DEFINE r == Head(mail.queue)
             t == Tail(mail.queue)
             invalidate == Invalidates(r, mail.scope)
             provider == IF r.kind = "Save" THEN r.prov ELSE mail.scope
             taken == [mail EXCEPT !.discarded = {}, !.preparedGen = Retained.gen,
                                   !.queue = t, !.active = r.gen]
             pc == IF invalidate THEN "invalidate"
                   ELSE IF r.kind = "Prepare" THEN "preflight" ELSE "execute"
  <2>1. /\ mail' = (IF invalidate THEN Rotated(taken, provider) ELSE taken)
        /\ job' = [NoJob EXCEPT !.pc = pc, !.req = r, !.epoch = mail'.epoch,
                                !.invalidated = invalidate]
    BY <1>9 DEF Take, Retained
  <2>2. mail.queue \in Seq(Requests)
    BY <1>2 DEF Mails
  <2>3. /\ Held(mail.queue) = {r} \cup Held(t)
        /\ \A g : Has(mail.queue, g) <=> r.gen = g \/ Has(t, g)
    BY <1>9, <2>2, HeldTail, HasTail
  <2>4. /\ invalidate => r.kind = "Save" \/ r.kind = "Cred"
        /\ ~invalidate /\ r.kind = "Save" => r.prov = mail.scope
        /\ r.kind = "Save" => provider = r.prov
    BY DEF Invalidates
  <2>5. /\ job'.pc = pc /\ job'.req = r
    BY <2>1 DEF NoJob
  <2>6. /\ invalidate => pc = "invalidate"
        /\ ~invalidate /\ r.kind = "Prepare" => pc = "preflight"
        /\ ~invalidate /\ r.kind # "Prepare" => pc = "execute"
    OBVIOUS
  <2> HIDE DEF r, t, invalidate, provider, pc
  <2>7. /\ taken.events = mail.events /\ taken.queue = t /\ taken.active = r.gen
        /\ taken.stopped = mail.stopped /\ taken.outstanding = mail.outstanding
        /\ taken.scope = mail.scope
    BY <1>2 DEF Mails
  <2>8. DOMAIN taken = DOMAIN mail
    OBVIOUS
  <2> HIDE DEF taken
  <2>9. /\ mail'.events = mail.events /\ mail'.queue = t /\ mail'.active = r.gen
        /\ mail'.stopped = mail.stopped /\ mail'.outstanding = mail.outstanding
        /\ mail'.scope = (IF invalidate THEN provider ELSE mail.scope)
    <3>1. CASE invalidate
      <4>1. mail' = [taken EXCEPT !.epoch = @ + 1, !.scope = provider, !.dead = FALSE]
        BY <2>1, <3>1 DEF Rotated
      <4> QED  BY <1>2, <2>7, <2>8, <3>1, <4>1 DEF Mails
    <3>2. CASE ~invalidate
      BY <2>1, <2>7, <3>2
    <3> QED  BY <3>1, <3>2
  <2>10. job'.pc \in {"invalidate", "preflight", "execute"}
    BY <2>5, <2>6
  <2>11. Noted(ui, r)
    BY <1>2, <2>3 DEF Told, Matched
  <2>12. JobTold(ui, job')
    BY <2>5, <2>10, <2>11 DEF JobTold, Ended
  <2>13. ASSUME NEW q \in Plays(ui), Void(mail, q.gen), mail'.active = q.gen PROVE Lost'
    <3>1. r \in Held(mail.queue) /\ r.gen = q.gen
      BY <2>3, <2>9, <2>13
    <3>2. r.kind = "Play" /\ r.id # 0 /\ r.id # app.prepared.gen
      BY <1>2, <2>13, <3>1, PlayQueued DEF Void
    <3>3. job'.pc = "execute" /\ job'.req.id = r.id
      BY <2>4, <2>5, <2>6, <3>2
    <3>4. r.id # app'.prepared.gen
      BY <1>3, <1>5, <3>2, NoPrepType
    <3> QED  BY <3>3, <3>4 DEF Lost
  <2>14. Disk'
    <3>1. CASE invalidate
      BY <1>2, <1>5, <2>4, <2>5, <2>6, <2>9, <3>1 DEF Disk, Doing
    <3>2. CASE ~invalidate
      BY <1>1, <1>2, <1>5, <1>7, <2>4, <2>5, <2>10, <2>9, <3>2 DEF Disk, Doing
    <3> QED  BY <3>1, <3>2
  <2>15. Leased(mail, ui)'
    <3>1. \A x \in 1..ui.next : ~Has(mail.queue, x) /\ x # mail.active =>
            ~Has(mail'.queue, x) /\ x # mail'.active
      BY <2>3, <2>9
    <3>2. Accepts(mail') => Accepts(mail)
      BY <2>9 DEF Accepts
    <3>3. ~Ended(job) /\ ~Ended(job') /\ job.pc # "launching" /\ job'.pc # "launching"
      BY <1>1, <2>10 DEF Ended
    <3> QED  BY <1>1, <1>2, <1>5, <2>9, <3>1, <3>2, <3>3, QuietLeased
  <2> QED  BY <1>1, <1>6, <2>3, <2>9, <2>12, <2>13, <2>14, <2>15, SilentAccount
<1> QED  BY <1>8, <1>9

LEMMA DieAccount == ASSUME AppInv, AccountInv, Die PROVE AccountInv'
<1>1. /\ ~mail.stopped /\ UNCHANGED <<ui, ps>> /\ job' = NoJob
      /\ app' = [app EXCEPT !.prepared = NoPrep, !.sessions = {}, !.leases = {}]
  BY DEF Die
<1>2. /\ mail \in Mails /\ app \in Apps /\ ui \in Uis /\ Books(mail, ui) /\ mail.queue \in Seq(Requests)
      /\ mail.events \in Seq(Events)
  BY DEF AppInv, Shapes, Mails
<1> DEFINE q == Refused(mail.queue)
           c == ClosedWith(mail)
           events == c \o q
           N == {e \in Events : e.kind = "Failed" /\ Asked(ui, e.gen)}
<1>3. c \in Seq(Events) /\ q \in Seq(Events)
  BY <1>2, ClosedWithIs, RefusedIs
<1>4. mail' = [mail EXCEPT !.stopped = TRUE, !.dead = TRUE, !.active = 0, !.queue = <<>>,
                           !.pipeline = {}, !.cancelled = {}, !.events = events]
  <2>1. events = mail.events \o (IF mail.active = 0 THEN <<>> ELSE <<Event(mail.active, Failed)>>)
                             \o Refused(mail.queue)
    BY <1>2, ClosedWithIs
  <2> QED  BY <2>1 DEF Die, Refused
<1>5. \A b \in N : b \in Events /\ b.kind = "Failed" /\ Asked(ui, b.gen)
  OBVIOUS
<1>6. ASSUME NEW b \in Events, b.kind = "Failed", Asked(ui, b.gen) PROVE b \in N
  BY <1>6
<1>7. /\ Held(c) \subseteq Held(mail.events) \cup N
      /\ \A a, b : Before(c, a, b) => Before(mail.events, a, b) \/ b \in N
  <2>1. CASE mail.active = 0
    BY <2>1 DEF ClosedWith
  <2>2. CASE mail.active # 0
    <3> DEFINE e == Event(mail.active, Failed)
    <3>1. mail.active \in Nat
      BY <1>2 DEF Mails
    <3>2. e \in Events /\ e.gen = mail.active /\ e.kind = "Failed"
      BY <3>1, EventType, FailedType
    <3>3. c = Append(mail.events, e)
      BY <2>2 DEF ClosedWith
    <3>4. Asked(ui, mail.active)
      BY <2>2, ActiveAsked
    <3> HIDE DEF e, N, c
    <3>5. e \in N
      BY <1>6, <3>2, <3>4
    <3> QED  BY <1>2, <3>2, <3>3, <3>5, HeldAppend
  <2> QED  BY <2>1, <2>2
<1>8. Held(q) \subseteq N
  <2> SUFFICES ASSUME NEW i \in DOMAIN q PROVE q[i] \in N
    BY DEF Held
  <2>1. i \in DOMAIN mail.queue /\ q[i] = Event(mail.queue[i].gen, Failed)
    BY <1>2 DEF Refused
  <2>2. mail.queue[i].gen \in Nat \ {0}
    <3>1. mail.queue[i] \in Requests
      BY <1>2, <2>1
    <3>2. mail.queue[i].gen \in Nat
      BY <3>1 DEF Requests
    <3>3. mail.queue[i].gen # 0
      BY <1>2, <2>1 DEF Books, Sound
    <3> QED  BY <3>2, <3>3
  <2>3. Has(mail.queue, mail.queue[i].gen)
    BY <2>1 DEF Has
  <2>4. Asked(ui, mail.queue[i].gen)
    BY <1>2, <2>2, <2>3, FlyingOnce
  <2>5. q[i] \in Events /\ q[i].gen = mail.queue[i].gen /\ q[i].kind = "Failed"
    BY <2>1, <2>2, EventType, FailedType
  <2> QED  BY <1>6, <2>4, <2>5
<1> HIDE DEF q, c, N
<1>9. /\ Held(events) \subseteq Held(mail.events) \cup N
      /\ \A a, b : Before(events, a, b) => Before(mail.events, a, b) \/ b \in N
  BY <1>3, <1>7, <1>8, HeldConcat
<1> HIDE DEF events
<1>10. /\ mail'.stopped = TRUE /\ mail'.active = 0 /\ mail'.queue = <<>> /\ mail'.events = events
  BY <1>2, <1>4 DEF Mails
<1>11. app'.leases = {} /\ app'.prepared = NoPrep
  BY <1>1, <1>2 DEF Apps
<1>12. Exchanged /\ JobTold(ui, job')
  BY <1>1, <1>11, NoPrepType DEF Exchanged, JobTold, NoJob
<1>13. Held(mail'.queue) \subseteq Held(mail.queue)
  BY <1>10, NothingHeld
<1>14. /\ Flying(mail', ui) \subseteq Flying(mail, ui) \cup N
       /\ \A a, b : Precedes(mail', ui, a, b) => Precedes(mail, ui, a, b) \/ b \in N
  BY <1>9, <1>10 DEF Flying, Precedes
<1>15. \A p \in Plays(ui) : p.gen # 0
  BY <1>2 DEF Books, Numbered, Plays
<1>16. \A b \in N : Expected(ui, b) /\ b.kind = "Failed"
  BY <1>5 DEF Expected, Nameless, Suits, Asked
<1> QED  BY <1>1, <1>10, <1>11, <1>12, <1>13, <1>14, <1>15, <1>16, WorkerAccount

-----------------------------------------------------------------------------
(* Every behaviour keeps the account book                                    *)

LEMMA NothingKept ==
    ASSUME job = NoJob, app.sessions = {}, app.leases = {}
    PROVE  Kept(Empty, Fresh) /\ Sought(Empty, Fresh, 0) /\ Waiting(Fresh, 0)
<1>1. Empty.queue = <<>> /\ Empty.events = <<>> /\ Empty.active = 0
  BY DEF Empty
<1>2. /\ Fresh.inbox = <<>> /\ Fresh.emitted = <<>> /\ Fresh.pending = {} /\ Fresh.replays = {}
      /\ Fresh.tracked = {} /\ Fresh.windows = {} /\ Fresh.closed = {} /\ Fresh.releasing = {}
      /\ Fresh.acknowledged = {} /\ Fresh.next = 0 /\ Fresh.prepare = 0 /\ Fresh.play = 0
  BY DEF Fresh
<1>3. job.pc = "idle"
  BY DEF NoJob
<1>4. /\ Flying(Empty, Fresh) = {} /\ Held(Empty.queue) = {} /\ Held(Fresh.emitted) = {}
      /\ \A a, b : ~Precedes(Empty, Fresh, a, b) /\ ~Before(Fresh.emitted, a, b)
  BY <1>1, <1>2, NothingHeld DEF Flying, Precedes
<1>5. Told(Empty, Fresh)
  <2>1. Matched(Empty, Fresh)
    BY <1>4 DEF Matched
  <2>2. Named(Fresh) /\ Replayed(Fresh) /\ Newest(Fresh)
    BY <1>2, <1>4 DEF Named, Replayed, Newest
  <2> QED  BY <2>1, <2>2 DEF Told
<1>6. JobTold(Fresh, job)
  BY <1>3 DEF JobTold
<1>7. Leased(Empty, Fresh)
  <2>1. LeaseKnown(Empty, Fresh) /\ Served(Empty) /\ Tracked(Empty, Fresh)
    BY <1>2 DEF LeaseKnown, Served, Tracked
  <2>2. GoneForGood(Empty, Fresh) /\ Serving(Empty, Fresh) /\ AsAnswered
    BY <1>3, <1>4 DEF GoneForGood, Releases, Ended, Serving, AsAnswered
  <2>3. Windowing(Empty, Fresh) /\ Tombs(Empty, Fresh)
    BY <1>2, <1>3, <1>4 DEF Windowing, Tombs, Ended
  <2> QED  BY <2>1, <2>2, <2>3 DEF Leased
<1>8. Voided(Empty, Fresh) /\ Sought(Empty, Fresh, 0) /\ Waiting(Fresh, 0)
  BY <1>2, <1>4 DEF Voided, AllEvents, Plays, Sought, Waiting
<1> QED  BY <1>5, <1>6, <1>7, <1>8 DEF Kept

LEMMA InitAccount == Init => AccountInv
<1> SUFFICES ASSUME Init PROVE AccountInv
  OBVIOUS
<1> DEFINE load == Command("Load", NoProvider, 0)
<1>1. /\ mail = Issue(Empty, Fresh, load).mail /\ ui = Issue(Empty, Fresh, load).ui
      /\ job = NoJob /\ ps = NoSession
  BY DEF Init, Empty, Fresh
<1>2. /\ app.settings = NoProvider /\ app.sessions = {} /\ app.leases = {}
      /\ app.prepared = NoPrep
  BY DEF Init
<1>3. load \in Commands /\ Fit(load) /\ load.kind = "Load"
  BY CommandType DEF CommandKinds, Provs, Command, Fit
<1> HIDE DEF load
<1>4. Refers(Fresh, load)
  BY <1>3 DEF Refers
<1>5. Kept(Empty, Fresh) /\ Sought(Empty, Fresh, 0) /\ Waiting(Fresh, 0)
  BY <1>1, <1>2, NothingKept
<1>6. Kept(mail, ui)
  BY <1>1, <1>3, <1>4, <1>5, EmptyBooks, IssueKept
<1>7. Fresh.next = 0
  BY DEF Fresh
<1>8. Sought(mail, ui, 0) /\ Waiting(ui, 0)
  BY <1>1, <1>3, <1>4, <1>5, <1>7, EmptyBooks, IssueSought
<1>9. ps.pending = 0
  BY <1>1 DEF NoSession
<1>10. mail.scope = NoProvider /\ ~mail.stopped
  BY <1>1, <1>3, EmptyBooks, IssueScope DEF Empty
<1>11. Disk
  BY <1>1, <1>2 DEF Disk, NoJob, NothingRemote
<1> QED  BY <1>6, <1>8, <1>9, <1>10, <1>11 DEF AccountInv

LEMMA NextAccount == AppInv /\ AccountInv /\ [Next]_vars => AccountInv'
<1> SUFFICES ASSUME AppInv, AccountInv, [Next]_vars PROVE AccountInv'
  OBVIOUS
<1>1. CASE Worker
  BY <1>1, TakeAccount, InvalidateAccount, PreflightAccount, ExecuteCanceledAccount,
     ExecuteLoadAccount, ExecuteSaveAccount, ExecuteCredentialAccount, ExecuteTestAccount,
     BeginPrepareAccount, PreparedAccount, BeginPlayAccount, ResolvedAccount, PlayLocalAccount,
     LaunchAccount, ReleaseSessionAccount, ReplaySessionAccount, SettleAccount, PublishAccount
     DEF Worker
<1>2. CASE MediaFails
  BY <1>2, MediaFailsAccount
<1>3. CASE Die
  BY <1>3, DieAccount
<1>4. CASE Interface
  BY <1>4, DrainAccount, ApplyEventAccount, RetryAccount, NotifyAccount DEF Interface
<1>5. CASE StartPlay
  BY <1>5, StartPlayAccount
<1>6. CASE Dismiss
  BY <1>6, DismissAccount
<1>7. CASE UserCommand
  BY <1>7, UserCommandAccount
<1>8. CASE WindowClosed
  BY <1>8, WindowClosedAccount
<1>9. CASE UNCHANGED vars
  <2>1. mail' = mail /\ app' = app /\ job' = job /\ ui' = ui /\ ps' = ps
    BY <1>9 DEF vars
  <2>2. /\ Kept(mail', ui') /\ Sought(mail', ui', ps'.pending) /\ Waiting(ui', ps'.pending)
    BY <2>1 DEF AccountInv
  <2> QED  BY <2>1, <2>2, InterfaceAccount
<1> QED
  BY <1>1, <1>2, <1>3, <1>4, <1>5, <1>6, <1>7, <1>8, <1>9 DEF Next

LEMMA SpecAccount == Spec => [](AppInv /\ AccountInv)
<1>1. Init => AppInv /\ AccountInv
  BY InitAppInv, InitAccount
<1>2. (AppInv /\ AccountInv) /\ [Next]_vars => (AppInv /\ AccountInv)'
  BY NextAppInv, NextAccount
<1> QED  BY <1>1, <1>2, PTL DEF Spec

-----------------------------------------------------------------------------
(* What the account book says of the leases and of a system at rest          *)

LEMMA LeaseIsKnown ==
    ASSUME AppInv, AccountInv, NEW g \in app.leases
    PROVE  g \in ui.tracked \/ \E p \in ui.pending : p.kind \in Launches /\ p.gen = g
<1>1. ~mail.stopped
  BY DEF AccountInv
<1>2. /\ Told(mail, ui) /\ JobTold(ui, job) /\ Leased(mail, ui)
      /\ Fence /\ Working
  BY <1>1 DEF AccountInv, Kept, AppInv
<1>3. g \in ui.tracked \/ Begun(mail, ui, g)
  BY <1>2 DEF Leased, LeaseKnown
<1>4. CASE job.pc = "launching" /\ mail.active = g
  <2>1. job.req.gen = g /\ job.req.kind \in Launches
    BY <1>2, <1>4 DEF Working, Fence, JobKinds, Doing, Launches
  <2> QED  BY <1>2, <1>4, <2>1 DEF JobTold, Noted
<1>5. CASE Ended(job) /\ mail.active = g /\ Opens(job.outcome) /\ job.outcome.id = g
  <2>1. job.pc # "idle"
    BY <1>5 DEF Ended
  <2>2. job.req.gen = g /\ Suits(job.req, job.outcome)
    BY <1>2, <1>5, <2>1 DEF Working, JobTold
  <2>3. job.req.kind # "Replay"
    BY <1>5, <2>1, <2>2, NamesOld DEF Suits, Opens, Launches
  <2>4. job.req.kind \in Launches
    BY <1>5, <2>2, <2>3 DEF Suits, Opens
  <2> QED  BY <1>2, <2>1, <2>2, <2>4 DEF JobTold, Noted
<1>6. ASSUME NEW e \in Flying(mail, ui), e.gen = g, Launched(e)
      PROVE  \E p \in ui.pending : p.kind \in Launches /\ p.gen = g
  <2>1. Opens(e) /\ e.id = g /\ ~Nameless(e)
    BY <1>6 DEF Launched, Opens, Nameless
  <2>2. PICK p \in ui.pending : p.gen = g /\ Suits(p, e)
    BY <1>2, <1>6, <2>1 DEF Told, Matched, Expected
  <2>3. p.kind # "Replay"
    BY <1>2, <2>1, <2>2 DEF Suits, Opens, Told, Named, Old, Asked, Launches
  <2> QED  BY <2>1, <2>2, <2>3 DEF Suits, Opens
<1> QED  BY <1>3, <1>4, <1>5, <1>6 DEF Begun

LEMMA LeasesAreKnown == AppInv /\ AccountInv => KnownLeases
<1> SUFFICES ASSUME AppInv, AccountInv, NEW g \in app.leases
             PROVE  g \in ui.tracked \cup {p.gen : p \in {q \in ui.pending : q.kind \in Launches}}
  BY DEF KnownLeases
<1> QED  BY LeaseIsKnown

\* When no command is pending, nothing is said but what nobody asked.
LEMMA NothingPending ==
    ASSUME AppInv, AccountInv, ui.pending = {}, mail.events = <<>>
    PROVE  /\ mail.active = 0 /\ job.pc = "idle" /\ mail.outstanding = 0
<1>1. Books(mail, ui) /\ Working /\ Told(mail, ui) /\ mail \in Mails
  BY DEF AppInv, Books, AccountInv, Kept
<1>2. mail.active = 0
  BY ActiveAsked DEF Asked
<1>3. job.pc = "idle"
  BY <1>1, <1>2 DEF Working
<1>4. mail.queue = <<>>
  <2>1. Held(mail.queue) = {}
    BY <1>1 DEF Told, Matched, Noted
  <2>2. mail.queue \in Seq(Requests)
    BY <1>1 DEF Mails
  <2> DEFINE q == mail.queue
  <2> HIDE DEF q
  <2>3. ASSUME q # <<>> PROVE Held(q) = {Head(q)} \cup Held(Tail(q))
    BY <2>2, <2>3, HeldTail DEF q
  <2> QED  BY <2>1, <2>3 DEF q
<1>5. mail.outstanding = 0
  <2>1. Len(<<>>) = 0 /\ Charged(<<>>) = 0
    BY ChargedEmpty
  <2> QED  BY <1>1, <1>2, <1>4, <2>1 DEF Books, Budget
<1> QED  BY <1>2, <1>3, <1>5

LEMMA RestAgrees == AppInv /\ AccountInv => AtRestTheyAgree
<1> SUFFICES ASSUME AppInv, AccountInv, ui.pending = {}, Idle(ui), mail.events = <<>>,
                    ~mail.stopped
             PROVE  /\ ui.tracked = app.leases
                    /\ Ids(app.sessions) = app.leases
                    /\ ui.windows \subseteq app.leases
                    /\ ui.closed = ui.releasing
                    /\ ui.releasing # {} => ~Accepts(mail)
                    /\ ui.replays = {}
                    /\ ps.pending = 0 \/ ps.pending \notin {ui.prepare, ui.play}
  BY DEF AtRestTheyAgree
<1>1. /\ Told(mail, ui) /\ Leased(mail, ui) /\ Waiting(ui, ps.pending) /\ Records
  BY DEF AccountInv, Kept, AppInv
<1>2. ~ui.retry /\ ui.inbox = <<>> /\ ui.emitted = <<>>
  BY DEF Idle
<1>3. mail.active = 0 /\ job.pc = "idle" /\ mail.outstanding = 0
  BY NothingPending
<1>4. Accepts(mail)
  BY <1>3, CapacityAssumption DEF Accepts
<1>5. Flying(mail, ui) = {}
  BY <1>2, NothingHeld DEF Flying
<1>6. ui.tracked = app.leases
  <2>1. \A x \in ui.tracked : x \in app.leases
    BY <1>1, <1>3, <1>5 DEF Leased, Tracked, Releases, Ended
  <2>2. \A x \in app.leases : x \in ui.tracked
    BY LeaseIsKnown
  <2> QED  BY <2>1, <2>2
<1>7. Ids(app.sessions) = app.leases
  <2>1. \A x \in app.leases : \E s \in app.sessions : s.id = x
    BY <1>1, <1>3 DEF Leased, Served
  <2> QED  BY <1>1, <2>1 DEF Ids, Records
<1>8. ui.windows \subseteq app.leases
  BY <1>1, <1>6 DEF Leased, Windowing
<1>9. ui.replays = {}
  <2>1. \A r \in ui.replays : \E p \in ui.pending : r.gen = p.gen
    BY <1>1 DEF Told, Replayed
  <2> QED  BY <2>1
<1>10. ui.releasing = {}
  BY <1>1, <1>2, <1>4 DEF Leased, Tombs
<1>11. ui.closed = {}
  BY <1>1, <1>9, <1>10 DEF Leased, Tombs, Buried
<1>12. ps.pending = 0 \/ ps.pending \notin {ui.prepare, ui.play}
  BY <1>1, <1>2 DEF Waiting, Asked, Has
<1> QED  BY <1>6, <1>7, <1>8, <1>9, <1>10, <1>11, <1>12

\* Quitting asks first whenever something is served: every lease is a tracked
\* session or a launch still to be answered. And when nothing is on its way, what
\* the interface tracks and shows is exactly what the worker serves, with no
\* release, tombstone or replay left over.
THEOREM SessionsAreAccounted == Spec => []SessionsAccounted
<1>1. AppInv /\ AccountInv => SessionsAccounted
  BY LeasesAreKnown, RestAgrees DEF SessionsAccounted
<1> QED  BY <1>1, SpecAccount, PTL

-----------------------------------------------------------------------------
(* Which step opens a window, and for whom                                   *)

\* The window an answer opens is that of the launch the play session waits for,
\* when it is a playback that was asked for.
LEMMA ApplyEventOpens ==
    ASSUME AppInv, AccountInv, ApplyEvent, NEW id \in ui'.windows \ ui.windows,
           NEW q \in ui.pending, q.gen = id, q.kind = "Play"
    PROVE  ps.pending = id
<1> DEFINE e == Head(ui.inbox)
           p == Entry(ui, e)
<1>1. /\ Applied(ui, e, p, ui') /\ ui.inbox # <<>>
  BY AppliedIs
<1>2. /\ Books(mail, ui) /\ Numbered(ui) /\ Told(mail, ui) /\ Sought(mail, ui, ps.pending)
  BY AccountIs
<1>3. /\ ui'.inbox = Tail(ui.inbox) /\ ui'.next = ui.next /\ ui'.pending = ui.pending \ {p}
  BY <1>1 DEF Applied, CrossedOff
<1>4. AnsweredBy(mail, ui, e, p, ui')
  BY <1>1, <1>2, <1>3, StruckIs
<1> HIDE DEF e, p
<1>5. e.kind = "Embedded" /\ Current(ui, p) /\ e.id = id
  BY <1>1 DEF Applied, Passed, Booked
<1>6. Opens(e) /\ ~Nameless(e)
  BY <1>5 DEF Opens, Nameless
<1>7. Asked(ui, id)
  BY DEF Asked
<1>8. p.kind \in Launches /\ e.id = e.gen
  BY <1>2, <1>4, <1>5, <1>6, <1>7, OpensIs DEF Old
<1>9. p \in ui.pending /\ p.gen = e.gen /\ e \in Flying(mail, ui)
  BY <1>4, <1>6 DEF AnsweredBy
<1>10. q = p
  BY <1>2, <1>5, <1>8, <1>9 DEF Numbered
<1>11. p.gen = ui.play
  BY <1>5, <1>8 DEF Current, Launches
<1>12. p \in Plays(ui)
  BY <1>9, <1>10 DEF Plays
<1>13. ~Doomed(mail, ui, p.gen)
  BY <1>5, <1>9 DEF Doomed
<1> QED  BY <1>2, <1>11, <1>12, <1>13, <1>10 DEF Sought

\* No other step of the interface opens a window.
LEMMA IssueShows ==
    ASSUME NEW m, NEW u, NEW c \in Commands, Fit(c), Books(m, u)
    PROVE  Issue(m, u, c).ui.windows \subseteq u.windows
<1>1. CASE Accepts(m)
  <2> DEFINE v == Issue(m, u, c).ui
  <2>1. Recorded(u, c, v)
    BY <1>1, IssueTakes
  <2> HIDE DEF v
  <2>2. PICK shut \in SUBSET u.windows : v.windows = u.windows \ shut
    BY <2>1 DEF Recorded
  <2> QED  BY <2>2 DEF v
<1>2. CASE ~Accepts(m)
  BY <1>2, IssueRefuses DEF Waived
<1> QED  BY <1>1, <1>2

LEMMA DrainShows == ASSUME AppInv, Drain PROVE ui'.windows \subseteq ui.windows
<1>1. ui \in Uis
  BY DEF AppInv, Shapes
<1> DEFINE r == (mail.events = <<>>)
<1>2. ui' = [ui EXCEPT !.inbox = mail.events, !.retry = r]
  BY DEF Drain
<1> HIDE DEF r
<1> QED  BY <1>1, <1>2 DEF Uis

LEMMA WindowClosedShows == ASSUME AppInv, WindowClosed PROVE ui'.windows \subseteq ui.windows
<1>1. ui \in Uis
  BY DEF AppInv, Shapes
<1>2. PICK id \in ui.windows : ui' = QueueRelease(ui, id)
  BY DEF WindowClosed
<1> QED  BY <1>1, <1>2 DEF QueueRelease, Uis

LEMMA UserCommandShows ==
    ASSUME AppInv, AccountInv, UserCommand PROVE ui'.windows \subseteq ui.windows
<1>1. Books(mail, ui)
  BY AccountIs
<1>2. \E c \in Commands : Fit(c) /\ ui' = Issue(mail, ui, c).ui
  BY CommandGiven
<1> QED  BY <1>1, <1>2, IssueShows

LEMMA RetryShows == ASSUME AppInv, Retry PROVE ui'.windows \subseteq ui.windows
<1>1. Books(mail, ui) /\ ui \in Uis
  BY DEF AppInv, Shapes
<1>2. CASE ui' = [ui EXCEPT !.retry = FALSE]
  BY <1>1, <1>2 DEF Uis
<1>3. ASSUME NEW id \in ui.releasing,
             ui' = [Issue(mail, ui, Command("Release", NoProvider, id)).ui
                      EXCEPT !.releasing = @ \ {id}]
      PROVE  ui'.windows \subseteq ui.windows
  <2> DEFINE c == Command("Release", NoProvider, id)
             u == Issue(mail, ui, c).ui
  <2>1. id \in Nat /\ "Release" \in CommandKinds /\ NoProvider \in Provs
    BY <1>1, <1>3 DEF Uis, CommandKinds, Provs
  <2>2. c \in Commands /\ Fit(c)
    BY <2>1, CommandType
  <2> HIDE DEF c
  <2>3. Books(Issue(mail, ui, c).mail, u)
    BY <1>1, <2>2, IssueBooks
  <2>4. u.windows \subseteq ui.windows
    BY <1>1, <2>2, IssueShows
  <2>5. ui' = [u EXCEPT !.releasing = u.releasing \ {id}]
    BY <1>3 DEF c
  <2> HIDE DEF u
  <2>6. u \in Uis
    BY <2>3 DEF Books
  <2>7. ui'.windows = u.windows
    BY <2>5, <2>6 DEF Uis
  <2> QED  BY <2>4, <2>7
<1>4. \/ ui' = [ui EXCEPT !.retry = FALSE]
      \/ \E id \in ui.releasing :
           ui' = [Issue(mail, ui, Command("Release", NoProvider, id)).ui
                    EXCEPT !.releasing = @ \ {id}]
  BY DEF Retry
<1> QED  BY <1>2, <1>3, <1>4

LEMMA DismissShows == ASSUME AppInv, Dismiss PROVE ui'.windows \subseteq ui.windows
<1>1. Books(mail, ui)
  BY DEF AppInv
<1>2. ui' = Abandoned(mail, ui, ps).ui
  BY DEF Dismiss
<1> QED  BY <1>1, <1>2, AbandonedIs DEF Waived

LEMMA StartPlayShows == ASSUME AppInv, StartPlay PROVE ui'.windows \subseteq ui.windows
<1>1. Books(mail, ui)
  BY DEF AppInv
<1>2. PICK kind \in Providers :
         LET save == IF ui.settings = kind THEN [mail |-> mail, ui |-> ui, gen |-> 0]
                     ELSE Issue(mail, ui, Command("Save", kind, 0))
             chosen == IF save.gen = 0 THEN save.ui ELSE [save.ui EXCEPT !.settings = kind]
             prepare == Issue(save.mail, chosen, Command("Prepare", NoProvider, 0))
             end == Abandoned(prepare.mail, prepare.ui, ps)
         IN  ui' = end.ui
  BY DEF StartPlay
<1> DEFINE s == Command("Save", kind, 0)
           p == Command("Prepare", NoProvider, 0)
           save == IF ui.settings = kind THEN [mail |-> mail, ui |-> ui, gen |-> 0]
                   ELSE Issue(mail, ui, s)
           m1 == save.mail
           u1 == save.ui
           g1 == save.gen
           u2 == IF g1 = 0 THEN u1 ELSE [u1 EXCEPT !.settings = kind]
           m3 == Issue(m1, u2, p).mail
           u3 == Issue(m1, u2, p).ui
<1>3. ui' = Abandoned(m3, u3, ps).ui
  BY <1>2
<1>4. s \in Commands /\ Fit(s) /\ p \in Commands /\ Fit(p)
  BY CommandType DEF CommandKinds, Provs
<1> HIDE DEF s, p
<1>5. Books(m1, u1) /\ u1.windows \subseteq ui.windows
  <2>1. CASE ui.settings = kind
    <3>1. m1 = mail /\ u1 = ui
      BY <2>1
    <3> QED  BY <1>1, <3>1
  <2>2. CASE ui.settings # kind
    <3>1. m1 = Issue(mail, ui, s).mail /\ u1 = Issue(mail, ui, s).ui
      BY <2>2
    <3> QED  BY <1>1, <1>4, <3>1, IssueBooks, IssueShows
  <2> QED  BY <2>1, <2>2
<1> HIDE DEF save, m1, u1, g1
<1>6. u1 \in Uis /\ Windowed(u1) /\ kind \in Provs
  BY <1>5 DEF Books, Provs
<1>7. Retains(u1, u2) /\ u2.windows = u1.windows
  BY <1>6 DEF Retains, Uis, Windowed
<1> HIDE DEF u2
<1>8. Books(m1, u2)
  BY <1>5, <1>7, RetainsBooks
<1>9. Books(m3, u3) /\ u3.windows \subseteq u2.windows
  BY <1>4, <1>8, IssueBooks, IssueShows
<1> HIDE DEF m3, u3
<1>10. ui'.windows = u3.windows
  BY <1>3, <1>9, AbandonedIs DEF Waived
<1> QED  BY <1>5, <1>7, <1>9, <1>10

LEMMA NotifyShows == ASSUME AppInv, AccountInv, Notify PROVE ui'.windows \subseteq ui.windows
<1> DEFINE e == Head(ui.emitted)
           seen == [ui EXCEPT !.emitted = Tail(@)]
           c == Command("Play", NoProvider, e.gen)
<1>1. ui \in Uis /\ Books(mail, ui) /\ Kept(mail, ui) /\ ui.emitted # <<>>
  BY AccountIs DEF Notify
<1>2. Books(mail, seen) /\ e \in Events
  BY <1>1, SeenKept
<1>3. seen.windows = ui.windows
  BY <1>1 DEF Uis
<1>4. \/ ui' = seen \/ ui' = Abandoned(mail, seen, ps).ui
      \/ ui' = Abandoned(mail, seen, [ps EXCEPT !.pending = 0]).ui
      \/ e.gen # 0 /\ ui' = Issue(mail, seen, c).ui
  BY DEF Notify
<1>5. e.gen # 0 => c \in Commands /\ Fit(c)
  BY <1>2, CommandType DEF CommandKinds, Provs, Events
<1> HIDE DEF e, seen, c
<1>6. CASE ui' = seen
  BY <1>3, <1>6
<1>7. CASE ui' = Abandoned(mail, seen, ps).ui
  BY <1>2, <1>3, <1>7, AbandonedIs DEF Waived
<1>8. CASE ui' = Abandoned(mail, seen, [ps EXCEPT !.pending = 0]).ui
  BY <1>2, <1>3, <1>8, AbandonedIs DEF Waived
<1>9. CASE e.gen # 0 /\ ui' = Issue(mail, seen, c).ui
  BY <1>2, <1>3, <1>5, <1>9, IssueShows
<1> QED  BY <1>4, <1>6, <1>7, <1>8, <1>9

\* The worker opens no window.
LEMMA WorkerShows == Worker \/ MediaFails \/ Die => ui' = ui
<1>1. Take \/ Invalidate \/ Preflight \/ ExecuteCanceled \/ ExecuteLoad \/ ExecuteSave => ui' = ui
  BY DEF Take, Invalidate, Preflight, ExecuteCanceled, ExecuteLoad, ExecuteSave
<1>2. ExecuteCredential \/ ExecuteTest \/ BeginPrepare \/ Prepared \/ BeginPlay => ui' = ui
  BY DEF ExecuteCredential, ExecuteTest, BeginPrepare, Prepared, BeginPlay
<1>3. Resolved \/ PlayLocal \/ Launch \/ ReleaseSession \/ ReplaySession => ui' = ui
  BY DEF Resolved, PlayLocal, Launch, ReleaseSession, ReplaySession
<1>4. Settle \/ Publish \/ MediaFails \/ Die => ui' = ui
  BY DEF Settle, Publish, MediaFails, Die
<1> QED  BY <1>1, <1>2, <1>3, <1>4 DEF Worker

LEMMA NextOpens ==
    ASSUME AppInv, AccountInv, [Next]_vars, NEW id \in ui'.windows \ ui.windows,
           NEW q \in ui.pending, q.gen = id, q.kind = "Play"
    PROVE  ps.pending = id
<1>1. CASE ApplyEvent
  BY <1>1, ApplyEventOpens
<1>2. CASE Drain \/ Retry \/ Notify \/ StartPlay \/ Dismiss \/ UserCommand \/ WindowClosed
  BY <1>2, DrainShows, RetryShows, NotifyShows, StartPlayShows, DismissShows, UserCommandShows,
     WindowClosedShows
<1>3. CASE Worker \/ MediaFails \/ Die \/ UNCHANGED vars
  BY <1>3, WorkerShows DEF vars
<1> QED  BY <1>1, <1>2, <1>3 DEF Next, Interface

\* A player window opens for a remote launch only while the play session that
\* asked for it still waits for it: one that was dismissed, replaced, or that
\* gave up after a change of account never has a window opened for it.
THEOREM WindowsOpenOwned == Spec => OpensOnlyOwned
<1>1. (AppInv /\ AccountInv) /\ [Next]_vars =>
        [\A id \in ui'.windows \ ui.windows :
           (\E p \in ui.pending : p.gen = id /\ p.kind = "Play") => ps.pending = id]_vars
  BY NextOpens
<1> QED  BY <1>1, SpecAccount, PTL DEF OpensOnlyOwned, Spec
=============================================================================
