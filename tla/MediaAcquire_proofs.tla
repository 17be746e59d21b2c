------------------------ MODULE MediaAcquire_proofs ------------------------
(* What MediaAcquire guarantees for every number of blocks, readers, fetches *)
(* and crashes: its variables keep their types, a manifest on disk never      *)
(* claims bytes that are not there, and readers are served only bytes that    *)
(* every restart would still find.  And what an acquisition keeps of itself   *)
(* while it is steered and its origin misbehaves: it publishes only for the   *)
(* lease and the hint it was started for, never mixes versions of the asset,  *)
(* and gives up after waves that the retry and renewal budgets bound.         *)
EXTENDS MediaAcquire, TLAPS, WellFoundedInduction, SequenceTheorems

-----------------------------------------------------------------------------
(* Queues: taking the first element, adding a last one                      *)

\* Removing the first element keeps every other one, each once.
LEMMA TailIndices ==
    ASSUME NEW S, NEW s \in Seq(S), s # <<>>
    PROVE  /\ Tail(s) \in Seq(S)
           /\ \A i \in DOMAIN Tail(s) : i + 1 \in DOMAIN s /\ Tail(s)[i] = s[i + 1]
           /\ Head(s) = s[1] /\ 1 \in DOMAIN s
<1>1. Len(s) \in Nat \ {0} /\ DOMAIN s = 1 .. Len(s)
    BY EmptySeq, LenProperties
<1>2. Tail(s) \in Seq(S) /\ Len(Tail(s)) = Len(s) - 1
    BY HeadTailProperties
<1>3. DOMAIN Tail(s) = 1 .. Len(s) - 1
    BY <1>2, LenProperties
<1>4. \A i \in 1 .. Len(s) - 1 : Tail(s)[i] = s[i + 1]
    BY <1>1
<1> QED
    BY <1>1, <1>2, <1>3, <1>4

\* Adding an element at the end keeps the others where they were.
LEMMA AppendIndices ==
    ASSUME NEW S, NEW s \in Seq(S), NEW e \in S
    PROVE  \A i \in DOMAIN Append(s, e) :
              \/ i \in DOMAIN s /\ Append(s, e)[i] = s[i]
              \/ i = Len(s) + 1 /\ Append(s, e)[i] = e
<1>1. Len(s) \in Nat /\ DOMAIN s = 1 .. Len(s) /\ DOMAIN Append(s, e) = 1 .. Len(s) + 1
    BY AppendProperties, LenProperties
<1> QED
    BY <1>1, AppendProperties

-----------------------------------------------------------------------------
(* Operators                                                                 *)

\* Every nonempty set of blocks has a least element.
LEMMA LeastBlock ==
    ASSUME NEW S, S \subseteq Blocks, S # {}
    PROVE  Least(S) \in S
<1>1. S \subseteq Nat
    BY DEF Blocks
<1>2. PICK x \in S : \A y \in S : ~(<<y, x>> \in OpToRel(<, Nat))
    BY <1>1, WFMin, NatLessThanWellFounded
<1>3. \A y \in S : x <= y
  <2>1. TAKE y \in S
  <2>2. OpToRel(<, Nat) = {ss \in Nat \X Nat : ss[1] < ss[2]}
      BY Zenon DEF OpToRel
  <2>3. ~(y < x)
      BY <1>1, <1>2, <2>2
  <2> QED
      BY <1>1, <2>3
<1> QED
    BY <1>3 DEF Least

\* The next range to fetch is a block that is still missing.
LEMMA NextBlockMissing ==
    ASSUME NEW have, ~Complete(have), NEW hint \in 0 .. NBlocks \cup {None}
    PROVE  NextBlock(have, hint) \in Blocks \ have
<1> DEFINE ahead == IF hint = None THEN {} ELSE {b \in Missing(have) : b >= hint}
<1>1. Missing(have) \subseteq Blocks /\ Missing(have) # {}
    BY DEF Missing, Complete
<1>2. ahead \subseteq Missing(have)
    OBVIOUS
<1>3. Least(IF ahead # {} THEN ahead ELSE Missing(have)) \in Missing(have)
    BY <1>1, <1>2, LeastBlock
<1> QED
    BY <1>3 DEF NextBlock, Missing

-----------------------------------------------------------------------------
(* Types                                                                     *)

USE DEF diskVars, shareVars, budgetVars, pinVars, fetchVars, coordVars, histVars,
        vars, outside, onlyReader, commitRest, waveRest

\* A chunk is in hand for the whole of a commit.
LEMMA ChunkHeld ==
    ASSUME FetchTypes, CommitOrder, pc \in Committing
    PROVE  chunk \in Chunk /\ chunk.block \in Blocks /\ chunk.ver \in Versions
<1>1. chunk \in Chunk
    BY DEF FetchTypes, CommitOrder
<1> QED
    BY <1>1 DEF Chunk

\* The values a wave record takes.
LEMMA WaveValues ==
    ASSUME wave \in Wave, NEW b \in BOOLEAN, NEW f \in Failures
    PROVE  /\ NoWave \in Wave
           /\ [wave EXCEPT !.auth = b] \in Wave
           /\ [wave EXCEPT !.stale = b] \in Wave
           /\ [wave EXCEPT !.throttle = b] \in Wave
           /\ [wave EXCEPT !.failure = f] \in Wave
    BY DEF Wave, NoWave, Failures

\* The values a reader takes.
LEMMA ReadValues ==
    ASSUME NEW r \in Read \cup {NoRead}, NEW g \in Content
    PROVE  /\ r.pc # "idle" => r \in Read /\ r.want \in Blocks
           /\ [r EXCEPT !.active = FALSE] \in Read \cup {NoRead}
           /\ r.pc # "idle" => /\ [r EXCEPT !.pc = "read"] \in Read
                               /\ [r EXCEPT !.pc = "send", !.got = g] \in Read
<1>1. CASE r = NoRead
  <2> DEFINE Idle == [pc : {"idle"}, want : {None}, got : {None}, active : {FALSE}]
  <2>1. NoRead.pc = "idle" /\ [NoRead EXCEPT !.active = FALSE] \in Idle
    BY DEF NoRead
  <2>2. ASSUME NEW i \in Idle PROVE i = NoRead
    BY DEF NoRead
  <2> QED
    BY <1>1, <2>1, <2>2
<1>2. CASE r \in Read
    BY <1>2 DEF Read
<1> QED
    BY <1>1, <1>2

\* Every field of a wave keeps its type when a result is recorded in it.
LEMMA FailureRemembered ==
    ASSUME wave \in Wave, NEW kind \in Failures
    PROVE  [wave EXCEPT !.failure = Remember(@, kind)] \in Wave
<1>1. Remember(wave.failure, kind) \in Failures
    BY DEF Remember, Wave
<1> QED
    BY <1>1, WaveValues

\* Dropping the chunk returns to the wave, stale or not.
LEMMA NextResultTypes ==
    ASSUME LoopTypes, NEW b \in BOOLEAN, NextResult(b), outcome' = outcome,
           preferred' = preferred
    PROVE  LoopTypes'
<1>1. wave.stale \in BOOLEAN
    BY DEF LoopTypes, Wave
<1>2. (wave.stale \/ b) \in BOOLEAN
    BY <1>1
<1>3. [wave EXCEPT !.stale = wave.stale \/ b] \in Wave
    BY <1>2, WaveValues, Zenon DEF LoopTypes, Failures
<1> QED
    BY <1>3 DEF LoopTypes, NextResult, Steps

\* Every step of the coordinator, its peers and a crash preserves the types.
LEMMA TypeStep ==
    ASSUME TypeOK, CommitOrder, [Next]_vars
    PROVE  TypeOK'
<1> USE SizesAssumption, NoneAssumption, ContentAssumption DEF TypeOK
<1>1. CASE Register
  <2> USE <1>1
  <2>1. SharedTypes'
    BY DEF Register, SharedTypes, Errors, Failures
  <2>2. LoopTypes'
    BY DEF Register, LoopTypes, Steps, Outcomes, Errors, Failures
  <2>3. DiskTypes' /\ FetchTypes' /\ ReaderTypes' /\ CounterTypes'
    BY DEF Register, DiskTypes, FetchTypes, ReaderTypes, CounterTypes
  <2> QED
    BY <2>1, <2>2, <2>3
<1>2. CASE Release
  <2> USE <1>2
  <2>1. SharedTypes'
    BY DEF Release, SharedTypes
  <2>2. ReaderTypes'
    <3>1. \A r \in Readers : [reader[r] EXCEPT !.active = FALSE] \in Read \cup {NoRead}
        BY ReadValues DEF ReaderTypes, Content
    <3> QED
        BY <3>1 DEF Release, ReaderTypes
  <2>3. DiskTypes' /\ LoopTypes' /\ FetchTypes' /\ CounterTypes'
    BY DEF Release, DiskTypes, LoopTypes, FetchTypes, CounterTypes
  <2> QED
    BY <2>1, <2>2, <2>3
<1>3. CASE Crash
  <2> USE <1>3
  <2>1. DiskTypes'
    BY DEF Crash, DiskTypes
  <2>2. SharedTypes'
    BY DEF Crash, DiskTypes, SharedTypes, Errors, Failures
  <2>3. LoopTypes'
    BY WaveValues DEF Crash, LocalsDropped, LoopTypes, Steps, Outcomes, Failures
  <2>4. FetchTypes'
    BY EmptySeq DEF Crash, LocalsDropped, FetchTypes
  <2>5. ReaderTypes'
    BY ReadValues DEF Crash, ReaderTypes, Content
  <2>6. CounterTypes'
    <3>1. crashes' \in Nat
        BY SMT DEF Crash, CounterTypes
    <3>2. revoked' \in BOOLEAN
        BY Zenon DEF Crash
    <3>3. slots' = 0 /\ LocalsDropped
        BY Zenon DEF Crash
    <3> QED
        BY <3>1, <3>2, <3>3 DEF LocalsDropped, CounterTypes
  <2> QED
    BY <2>1, <2>2, <2>3, <2>4, <2>5, <2>6
<1>4. CASE OpenPayload
  <2> USE <1>4
  <2>1. LoopTypes'
    BY DEF OpenPayload, End, LoopTypes, Steps, Outcomes, Errors, Failures
  <2>2. DiskTypes' /\ SharedTypes' /\ FetchTypes' /\ ReaderTypes' /\ CounterTypes'
    BY DEF OpenPayload, DiskTypes, SharedTypes, FetchTypes, ReaderTypes, CounterTypes
  <2> QED
    BY <2>1, <2>2
<1>5. CASE LoopHead
  <2> USE <1>5
  <2>1. LoopTypes'
    <3>1. [NoWave EXCEPT !.gen = generation, !.pin = validator] \in Wave
        BY DEF SharedTypes, FetchTypes, Wave, NoWave, Failures
    <3> QED
        BY <3>1 DEF LoopHead, End, LoopTypes, SharedTypes, Blocks, Steps,
                    Outcomes, Errors, Failures
  <2>2. DiskTypes' /\ SharedTypes' /\ FetchTypes' /\ ReaderTypes' /\ CounterTypes'
    BY DEF LoopHead, DiskTypes, SharedTypes, FetchTypes, ReaderTypes, CounterTypes
  <2> QED
    BY <2>1, <2>2
<1>6. CASE Renew
  <2> USE <1>6
  <2>1. LoopTypes'
    <3>1. [wave EXCEPT !.auth = FALSE] \in Wave
        BY WaveValues DEF LoopTypes, Failures
    <3> QED
        BY <3>1 DEF Renew, End, LoopTypes, Steps, Outcomes, Errors, Failures
  <2>2. CounterTypes'
    <3>1. revoked' \in BOOLEAN
        BY Zenon DEF Renew, CounterTypes
    <3>2. renewals' \in Nat /\ UNCHANGED <<failures, width, slots, mine, idle, crashes>>
        BY DEF Renew, CounterTypes
    <3> QED
        BY <3>1, <3>2 DEF CounterTypes
  <2>3. DiskTypes' /\ SharedTypes' /\ FetchTypes' /\ ReaderTypes'
    BY DEF Renew, DiskTypes, SharedTypes, FetchTypes, ReaderTypes
  <2> QED
    BY <2>1, <2>2, <2>3
<1>7. CASE AddJob
  <2> USE <1>7
  <2>1. LoopTypes'
    <3>1. NextBlock(live \cup jobs, preferred) \in Blocks
        BY NextBlockMissing DEF AddJob, LoopTypes
    <3> QED
        BY <3>1 DEF AddJob, LoopTypes, Blocks
  <2>2. FetchTypes'
    <3>1. NextBlock(live \cup jobs, preferred) \in Blocks
        BY NextBlockMissing DEF AddJob, LoopTypes
    <3> QED
        BY <3>1 DEF AddJob, FetchTypes
  <2>3. DiskTypes' /\ SharedTypes' /\ ReaderTypes' /\ CounterTypes'
    BY DEF AddJob, DiskTypes, SharedTypes, ReaderTypes, CounterTypes
  <2> QED
    BY <2>1, <2>2, <2>3
<1>8. CASE Launch
  <2> USE <1>8
  <2>1. LoopTypes'
    BY DEF Launch, End, LoopTypes, Steps, Outcomes, Errors, Failures
  <2>2. FetchTypes'
    BY DEF Launch, End, FetchTypes
  <2>3. CounterTypes'
    BY DEF Launch, End, CounterTypes
  <2>4. DiskTypes' /\ SharedTypes' /\ ReaderTypes'
    BY DEF Launch, DiskTypes, SharedTypes, ReaderTypes
  <2> QED
    BY <2>1, <2>2, <2>3, <2>4
<1>9. CASE NoPermit
  <2> USE <1>9
  <2>1. LoopTypes'
    BY DEF NoPermit, End, Stopped, LoopTypes, Steps, Outcomes, Errors, Failures
  <2>2. DiskTypes' /\ SharedTypes' /\ FetchTypes' /\ ReaderTypes' /\ CounterTypes'
    BY DEF NoPermit, DiskTypes, SharedTypes, FetchTypes, ReaderTypes, CounterTypes
  <2> QED
    BY <2>1, <2>2
<1>10. CASE Receive
  <2> USE <1>10
  <2>1. LoopTypes'
    <3>1. \A kind \in Failures : [wave EXCEPT !.failure = Remember(@, kind)] \in Wave
        BY FailureRemembered DEF LoopTypes
    <3>2. /\ [wave EXCEPT !.throttle = TRUE] \in Wave
          /\ [wave EXCEPT !.stale = TRUE] \in Wave
          /\ [wave EXCEPT !.auth = TRUE] \in Wave
        BY WaveValues DEF LoopTypes, Failures
    <3>3. wave' \in Wave
        BY <3>1, <3>2 DEF Receive, LoopTypes, Failures
    <3> QED
        BY <3>3 DEF Receive, End, LoopTypes, Steps, Outcomes, Errors, Failures
  <2>2. FetchTypes'
    <3>1. Head(queue) \in Chunk \cup Verdict /\ Tail(queue) \in Seq(Chunk \cup Verdict)
        BY HeadTailProperties DEF Receive, FetchTypes
    <3>2. Head(queue).kind = "chunk" =>
              Head(queue) \in Chunk /\ Head(queue).etag \in Versions \cup {None}
        BY <3>1 DEF Chunk, Verdict
    <3> QED
        BY <3>1, <3>2 DEF Receive, End, Pinned, FetchTypes
  <2>3. DiskTypes' /\ SharedTypes' /\ ReaderTypes' /\ CounterTypes'
    BY DEF Receive, DiskTypes, SharedTypes, ReaderTypes, CounterTypes
  <2> QED
    BY <2>1, <2>2, <2>3
<1>11. CASE WritePayload
  <2> USE <1>11
  <2>1. DiskTypes'
    <3>1. Overwritten(payload[chunk.block], chunk.ver) \in Content
        BY ChunkHeld DEF WritePayload, Committing, DiskTypes, Overwritten, Content
    <3> QED
        BY <3>1 DEF WritePayload, DiskTypes
  <2>2. LoopTypes'
    BY DEF WritePayload, LoopTypes, Steps
  <2>3. SharedTypes' /\ FetchTypes' /\ ReaderTypes' /\ CounterTypes'
    BY DEF WritePayload, SharedTypes, FetchTypes, ReaderTypes, CounterTypes
  <2> QED
    BY <2>1, <2>2, <2>3
<1>12. CASE SyncPayload
  <2> USE <1>12
  <2>1. DiskTypes'
    BY ChunkHeld DEF SyncPayload, DataSynced, Committing, DiskTypes, Content
  <2>2. LoopTypes'
    <3>1. CASE Superseded
        BY <3>1, NextResultTypes DEF SyncPayload
    <3>2. CASE ~Superseded
        BY <3>2 DEF SyncPayload, LoopTypes, Steps
    <3> QED
        BY <3>1, <3>2
  <2>3. FetchTypes'
    BY DEF SyncPayload, NextResult, FetchTypes
  <2>4. SharedTypes' /\ ReaderTypes' /\ CounterTypes'
    BY DEF SyncPayload, SharedTypes, ReaderTypes, CounterTypes
  <2> QED
    BY <2>1, <2>2, <2>3, <2>4
<1>13. CASE PersistManifest
  <2> USE <1>13
  <2>1. DiskTypes'
    BY ChunkHeld DEF PersistManifest, NextManifest, Committing, DiskTypes, SharedTypes
  <2>2. LoopTypes'
    BY DEF PersistManifest, LoopTypes, Steps
  <2>3. SharedTypes' /\ FetchTypes' /\ ReaderTypes' /\ CounterTypes'
    BY DEF PersistManifest, SharedTypes, FetchTypes, ReaderTypes, CounterTypes
  <2> QED
    BY <2>1, <2>2, <2>3
<1>14. CASE SyncDirectory
  <2> USE <1>14
  <2>1. DiskTypes'
    BY ChunkHeld DEF SyncDirectory, NextManifest, Committing, DiskTypes, SharedTypes
  <2>2. LoopTypes'
    BY DEF SyncDirectory, LoopTypes, Steps
  <2>3. SharedTypes' /\ FetchTypes' /\ ReaderTypes' /\ CounterTypes'
    BY DEF SyncDirectory, SharedTypes, FetchTypes, ReaderTypes, CounterTypes
  <2> QED
    BY <2>1, <2>2, <2>3
<1>15. CASE Publish
  <2> USE <1>15
  <2>1. SharedTypes'
    BY ChunkHeld DEF Publish, Committing, SharedTypes
  <2>2. LoopTypes'
    BY NextResultTypes DEF Publish
  <2>3. FetchTypes'
    BY DEF Publish, NextResult, FetchTypes
  <2>4. CounterTypes'
    <3>1. chunk.block \in Blocks
        BY ChunkHeld DEF Publish, Committing
    <3>2. mine' \in SUBSET Blocks /\ renewals' \in Nat /\ idle' \in Nat
      <4>1. CASE Superseded
        BY <4>1 DEF Publish, CounterTypes
      <4>2. CASE ~Superseded
        BY <3>1, <4>2 DEF Publish, CounterTypes
      <4> QED
        BY <4>1, <4>2
    <3>3. UNCHANGED <<failures, width, slots, revoked, crashes>>
        BY DEF Publish
    <3> QED
        BY <3>2, <3>3 DEF CounterTypes
  <2>5. DiskTypes' /\ ReaderTypes'
    BY DEF Publish, DiskTypes, ReaderTypes
  <2> QED
    BY <2>1, <2>2, <2>3, <2>4, <2>5
<1>16. CASE StorageFails
  <2> USE <1>16
  <2>1. LoopTypes'
    BY DEF StorageFails, End, LoopTypes, Steps, Outcomes, Errors, Failures
  <2>2. FetchTypes'
    BY DEF StorageFails, End, FetchTypes
  <2>3. DiskTypes' /\ SharedTypes' /\ ReaderTypes' /\ CounterTypes'
    BY DEF StorageFails, DiskTypes, SharedTypes, ReaderTypes, CounterTypes
  <2> QED
    BY <2>1, <2>2, <2>3
<1>17. CASE EndWave
  <2> USE <1>17
  <2>1. LoopTypes'
    <3>1. wave.failure \in Failures
        BY DEF LoopTypes, Wave
    <3>2. pc' \in Steps /\ outcome' \in Outcomes
        BY <3>1 DEF EndWave, End, Retry, LoopTypes, Steps, Outcomes, Errors, Failures
    <3> QED
        BY <3>2 DEF EndWave, LoopTypes
  <2>2. CounterTypes'
    BY DEF EndWave, End, Retry, Stopped, CounterTypes
  <2>3. DiskTypes' /\ SharedTypes' /\ FetchTypes' /\ ReaderTypes'
    BY DEF EndWave, DiskTypes, SharedTypes, FetchTypes, ReaderTypes
  <2> QED
    BY <2>1, <2>2, <2>3
<1>18. CASE Wait
  <2> USE <1>18
  <2>1. LoopTypes'
    BY DEF Wait, End, Stopped, LoopTypes, Steps, Outcomes, Errors, Failures
  <2>2. DiskTypes' /\ SharedTypes' /\ FetchTypes' /\ ReaderTypes' /\ CounterTypes'
    BY DEF Wait, DiskTypes, SharedTypes, FetchTypes, ReaderTypes, CounterTypes
  <2> QED
    BY <2>1, <2>2
<1>19. CASE Settle
  <2> USE <1>19
  <2>1. LoopTypes'
    <3>1. wave.failure \in Failures
        BY DEF LoopTypes, Wave
    <3>2. pc' \in Steps /\ outcome' \in Outcomes
        BY <3>1 DEF Settle, End, Retry, LoopTypes, Steps, Outcomes, Errors, Failures
    <3> QED
        BY <3>2 DEF Settle, LoopTypes
  <2>2. CounterTypes'
    BY DEF Settle, Retry, End, Adjusted, CounterTypes
  <2>3. DiskTypes' /\ SharedTypes' /\ FetchTypes' /\ ReaderTypes'
    BY DEF Settle, DiskTypes, SharedTypes, FetchTypes, ReaderTypes
  <2> QED
    BY <2>1, <2>2, <2>3
<1>20. CASE RecordEnd
  <2> USE <1>20
  <2>1. SharedTypes'
    BY DEF RecordEnd, SharedTypes, LoopTypes, Outcomes
  <2>2. LoopTypes'
    BY DEF RecordEnd, LoopTypes, Steps
  <2>3. FetchTypes'
    BY EmptySeq DEF RecordEnd, FetchTypes
  <2>4. DiskTypes' /\ ReaderTypes' /\ CounterTypes'
    BY DEF RecordEnd, DiskTypes, ReaderTypes, CounterTypes
  <2> QED
    BY <2>1, <2>2, <2>3, <2>4
<1>21. CASE StopRunning
  <2> USE <1>21
  <2>1. SharedTypes'
    BY DEF StopRunning, SharedTypes
  <2>2. LoopTypes'
    BY WaveValues DEF StopRunning, LocalsDropped, LoopTypes, Steps, Outcomes, Failures
  <2>3. FetchTypes'
    BY EmptySeq DEF StopRunning, LocalsDropped, FetchTypes
  <2>4. CounterTypes'
    BY DEF StopRunning, LocalsDropped, CounterTypes
  <2>5. DiskTypes' /\ ReaderTypes'
    BY DEF StopRunning, DiskTypes, ReaderTypes
  <2> QED
    BY <2>1, <2>2, <2>3, <2>4, <2>5
<1>22. ASSUME NEW r \in Readers, ReaderHint(r) PROVE TypeOK'
  <2> USE <1>22
  <2>1. SharedTypes'
    <3>1. reader[r].want \in Blocks
        BY ReadValues DEF ReaderHint, ReaderTypes, Content
    <3> QED
        BY <3>1 DEF ReaderHint, SharedTypes
  <2>2. DiskTypes' /\ LoopTypes' /\ FetchTypes' /\ ReaderTypes' /\ CounterTypes'
    BY DEF ReaderHint, DiskTypes, LoopTypes, FetchTypes, ReaderTypes, CounterTypes
  <2> QED
    BY <2>1, <2>2
<1>23. ASSUME NEW r \in Readers, ReaderReady(r) PROVE TypeOK'
  <2> USE <1>23
  <2>1. ReaderTypes'
    BY ReadValues DEF ReaderReady, ReaderTypes, Content
  <2>2. DiskTypes' /\ SharedTypes' /\ LoopTypes' /\ FetchTypes' /\ CounterTypes'
    BY DEF ReaderReady, DiskTypes, SharedTypes, LoopTypes, FetchTypes, CounterTypes
  <2> QED
    BY <2>1, <2>2
<1>24. ASSUME NEW r \in Readers, ReaderRead(r) PROVE TypeOK'
  <2> USE <1>24
  <2>1. ReaderTypes'
    <3>1. reader[r].want \in Blocks
        BY ReadValues DEF ReaderRead, ReaderTypes, Content
    <3>2. payload[reader[r].want] \in Content
        BY <3>1 DEF DiskTypes
    <3> QED
        BY <3>2, ReadValues DEF ReaderRead, ReaderTypes
  <2>2. DiskTypes' /\ SharedTypes' /\ LoopTypes' /\ FetchTypes' /\ CounterTypes'
    BY DEF ReaderRead, DiskTypes, SharedTypes, LoopTypes, FetchTypes, CounterTypes
  <2> QED
    BY <2>1, <2>2
<1>25. ASSUME NEW r \in Readers, ReaderSent(r) PROVE TypeOK'
  <2> USE <1>25
  <2>1. ReaderTypes'
    BY ReadValues DEF ReaderSent, ReaderTypes, Content
  <2>2. DiskTypes' /\ SharedTypes' /\ LoopTypes' /\ FetchTypes' /\ CounterTypes'
    BY DEF ReaderSent, DiskTypes, SharedTypes, LoopTypes, FetchTypes, CounterTypes
  <2> QED
    BY <2>1, <2>2
<1>26. ASSUME NEW r \in Readers, ReaderAbort(r) PROVE TypeOK'
  <2> USE <1>26
  <2>1. ReaderTypes'
    BY ReadValues DEF ReaderAbort, ReaderTypes, Content
  <2>2. DiskTypes' /\ SharedTypes' /\ LoopTypes' /\ FetchTypes' /\ CounterTypes'
    BY DEF ReaderAbort, DiskTypes, SharedTypes, LoopTypes, FetchTypes, CounterTypes
  <2> QED
    BY <2>1, <2>2
<1>27. ASSUME NEW r \in Readers, ReaderLeave(r) PROVE TypeOK'
  <2> USE <1>27
  <2>1. ReaderTypes'
    BY ReadValues DEF ReaderLeave, ReaderTypes, Content
  <2>2. DiskTypes' /\ SharedTypes' /\ LoopTypes' /\ FetchTypes' /\ CounterTypes'
    BY DEF ReaderLeave, DiskTypes, SharedTypes, LoopTypes, FetchTypes, CounterTypes
  <2> QED
    BY <2>1, <2>2
<1>28. ASSUME NEW b \in Blocks, FetchDone(b) PROVE TypeOK'
  <2> USE <1>28
  <2>1. Results(b) \subseteq Chunk \cup Verdict
    BY DEF Results, Chunk, Verdict
  <2>2. FetchTypes'
    BY <2>1, AppendProperties DEF FetchDone, FetchTypes
  <2>3. DiskTypes' /\ SharedTypes' /\ LoopTypes' /\ ReaderTypes' /\ CounterTypes'
    BY DEF FetchDone, DiskTypes, SharedTypes, LoopTypes, ReaderTypes, CounterTypes
  <2> QED
    BY <2>2, <2>3
<1>29. ASSUME NEW r \in Readers, NEW b \in Blocks, ReaderOpen(r, b) PROVE TypeOK'
  <2> USE <1>29
  <2>1. ReaderTypes'
    BY DEF ReaderOpen, ReaderTypes, Read
  <2>2. DiskTypes' /\ SharedTypes' /\ LoopTypes' /\ FetchTypes' /\ CounterTypes'
    BY DEF ReaderOpen, DiskTypes, SharedTypes, LoopTypes, FetchTypes, CounterTypes
  <2> QED
    BY <2>1, <2>2
<1>30. CASE OthersTake
  <2>1. CounterTypes'
    BY <1>30 DEF OthersTake, CounterTypes
  <2>2. DiskTypes' /\ SharedTypes' /\ LoopTypes' /\ FetchTypes' /\ ReaderTypes'
    BY <1>30 DEF OthersTake, DiskTypes, SharedTypes, LoopTypes, FetchTypes, ReaderTypes
  <2> QED
    BY <2>1, <2>2
<1>31. CASE OthersFree
  <2>1. CounterTypes'
    BY <1>31 DEF OthersFree, CounterTypes
  <2>2. DiskTypes' /\ SharedTypes' /\ LoopTypes' /\ FetchTypes' /\ ReaderTypes'
    BY <1>31 DEF OthersFree, DiskTypes, SharedTypes, LoopTypes, FetchTypes, ReaderTypes
  <2> QED
    BY <2>1, <2>2
<1>32. CASE UNCHANGED vars
    BY <1>32 DEF DiskTypes, SharedTypes, LoopTypes, FetchTypes, ReaderTypes, CounterTypes
<1> QED
    BY <1>1, <1>2, <1>3, <1>4, <1>5, <1>6, <1>7, <1>8, <1>9, <1>10, <1>11, <1>12, <1>13, <1>14, <1>15, <1>16, <1>17, <1>18, <1>19, <1>20, <1>21, <1>22, <1>23, <1>24, <1>25, <1>26, <1>27, <1>28, <1>29, <1>30, <1>31, <1>32
       DEF Next, Coordinator, Fetching, Reading

-----------------------------------------------------------------------------
(* Durability                                                                *)

\* What makes availability durable is not inductive alone: a manifest is only as
\* good as the syncs that preceded it, which CommitOrder carries along a commit.
DurableInv == TypeOK /\ LiveIsDurable /\ ManifestNeverLies /\ CommitOrder

\* The initial state: an empty manifest over an empty sparse file.
LEMMA DurableInit == Init => DurableInv
<1> SUFFICES ASSUME Init PROVE DurableInv
    OBVIOUS
<1> USE SizesAssumption DEF Init
<1>1. DiskTypes /\ SharedTypes
    BY DEF DiskTypes, SharedTypes, Content, Errors, Failures
<1>2. LoopTypes
    BY WaveValues DEF LoopTypes, Wave, NoWave, Steps, Outcomes, Errors, Failures
<1>3. FetchTypes /\ ReaderTypes /\ CounterTypes
    BY EmptySeq DEF FetchTypes, ReaderTypes, CounterTypes
<1>4. LiveIsDurable /\ ManifestNeverLies /\ CommitOrder
    BY DEF LiveIsDurable, ManifestNeverLies, CommitOrder, Committing
<1> QED
    BY <1>1, <1>2, <1>3, <1>4 DEF DurableInv, TypeOK

\* A step that leaves disk and availability alone and does not move a commit
\* forward, except to begin one with a chunk in hand.
LEMMA QuietStep ==
    ASSUME DurableInv, UNCHANGED <<diskVars, live>>,
           \/ pc' \notin Committing
           \/ pc' = "write" /\ chunk' # NoChunk
           \/ UNCHANGED <<pc, chunk>>
    PROVE  LiveIsDurable' /\ ManifestNeverLies' /\ CommitOrder'
    BY DEF DurableInv, LiveIsDurable, ManifestNeverLies, CommitOrder, Committing

\* Only six actions touch the disk or availability.
LEMMA DurableStep ==
    ASSUME DurableInv, [Next]_vars
    PROVE  DurableInv'
<1>1. TypeOK'
    BY TypeStep DEF DurableInv
<1> SUFFICES LiveIsDurable' /\ ManifestNeverLies' /\ CommitOrder'
    BY <1>1 DEF DurableInv
<1>2. CASE Crash
  <2>1. PICK keep \in [Blocks -> Content], manifest \in saved :
            /\ \A b \in Blocks : keep[b] \in {payload[b], synced[b]}
            /\ payload' = keep /\ synced' = keep
            /\ saved' = {manifest} /\ live' = manifest
    BY <1>2 DEF Crash
  <2>2. manifest \subseteq Blocks
    BY DEF DurableInv, TypeOK, DiskTypes
  <2>3. \A b \in manifest : synced[b] # Hole /\ payload[b] # Hole
    BY <2>2 DEF DurableInv, ManifestNeverLies, CommitOrder
  <2>4. LiveIsDurable' /\ ManifestNeverLies'
    BY <2>1, <2>2, <2>3 DEF LiveIsDurable, ManifestNeverLies
  <2>5. CommitOrder'
    BY <1>2, <2>1 DEF Crash, LocalsDropped, CommitOrder, Committing
  <2> QED
    BY <2>4, <2>5
<1>3. CASE WritePayload
  <2> USE <1>3 DEF WritePayload
  <2>1. LiveIsDurable' /\ ManifestNeverLies'
    BY DEF DurableInv, LiveIsDurable, ManifestNeverLies
  <2>2. Overwritten(payload[chunk.block], chunk.ver) = Hole => payload[chunk.block] = Hole
    BY ChunkHeld, ContentAssumption
       DEF Overwritten, DurableInv, TypeOK, Committing
  <2>3. \A b \in Blocks : payload'[b] = Hole => payload[b] = Hole
    BY <2>2 DEF DurableInv, TypeOK, DiskTypes
  <2>4. CommitOrder'
    BY <2>3 DEF DurableInv, CommitOrder, Committing
  <2> QED
    BY <2>1, <2>4
<1>4. CASE SyncPayload
  <2> USE <1>4 DEF SyncPayload, DataSynced
  <2>1. chunk.block \in Blocks /\ chunk.ver \in Versions /\ chunk.ver # Hole
    BY ChunkHeld, ContentAssumption DEF DurableInv, TypeOK, Committing
  <2>2. \A b \in Blocks :
            /\ payload'[b] = IF b = chunk.block THEN chunk.ver ELSE payload[b]
            /\ synced'[b] = IF b = chunk.block THEN chunk.ver ELSE synced[b]
    BY DEF DurableInv, TypeOK, DiskTypes
  <2>3. LiveIsDurable' /\ ManifestNeverLies'
    BY <2>1, <2>2
       DEF DurableInv, TypeOK, DiskTypes, LiveIsDurable, ManifestNeverLies
  <2>4. CommitOrder'
    BY <2>1, <2>2 DEF NextResult, DurableInv, CommitOrder, Committing
  <2> QED
    BY <2>3, <2>4
<1>5. CASE PersistManifest
  <2> USE <1>5 DEF PersistManifest, NextManifest
  <2>1. chunk.ver # Hole /\ synced[chunk.block] = chunk.ver
    BY ChunkHeld, ContentAssumption DEF DurableInv, TypeOK, CommitOrder, Committing
  <2>2. \A b \in live : synced[b] # Hole
    BY DEF DurableInv, TypeOK, DiskTypes, LiveIsDurable, ManifestNeverLies
  <2>3. LiveIsDurable' /\ ManifestNeverLies'
    BY <2>1, <2>2 DEF DurableInv, LiveIsDurable, ManifestNeverLies
  <2>4. CommitOrder'
    BY DEF DurableInv, CommitOrder, Committing
  <2> QED
    BY <2>3, <2>4
<1>6. CASE SyncDirectory
  <2> USE <1>6 DEF SyncDirectory, NextManifest
  <2>1. chunk.ver # Hole /\ synced[chunk.block] = chunk.ver
    BY ChunkHeld, ContentAssumption DEF DurableInv, TypeOK, CommitOrder, Committing
  <2>2. \A b \in live : synced[b] # Hole
    BY DEF DurableInv, TypeOK, DiskTypes, LiveIsDurable, ManifestNeverLies
  <2>3. LiveIsDurable' /\ ManifestNeverLies'
    BY <2>1, <2>2 DEF LiveIsDurable, ManifestNeverLies
  <2>4. CommitOrder'
    BY DEF DurableInv, CommitOrder, Committing
  <2> QED
    BY <2>3, <2>4
<1>7. CASE Publish
  <2> USE <1>7 DEF Publish, NextResult
  <2>1. LiveIsDurable'
    BY DEF DurableInv, LiveIsDurable, CommitOrder
  <2>2. ManifestNeverLies' /\ CommitOrder'
    BY DEF DurableInv, ManifestNeverLies, CommitOrder, Committing
  <2> QED
    BY <2>1, <2>2
<1>8. CASE Receive
  <2>1. \/ pc' = "write" /\ chunk' = Head(queue) /\ Head(queue).kind = "chunk"
        \/ pc' \notin Committing
    BY <1>8 DEF Receive, End, Committing
  <2>2. NoChunk.kind # "chunk"
    BY DEF NoChunk
  <2> QED
    BY <1>8, <2>1, <2>2, QuietStep DEF Receive
<1>9. CASE Register \/ OpenPayload \/ LoopHead \/ Renew \/ Launch \/ NoPermit
    BY <1>9, QuietStep DEF Register, OpenPayload, LoopHead, Renew, Launch, NoPermit,
                           End, Committing
<1>10. CASE StorageFails \/ EndWave \/ Wait \/ Settle \/ RecordEnd \/ StopRunning
    BY <1>10, QuietStep DEF StorageFails, EndWave, Wait, Settle, RecordEnd, StopRunning,
                            End, Retry, LocalsDropped, Committing
<1>11. CASE Release \/ AddJob \/ Fetching \/ OthersTake \/ OthersFree \/ UNCHANGED vars
    BY <1>11, QuietStep DEF Release, AddJob, Fetching, FetchDone, OthersTake, OthersFree
<1>12. CASE \E r \in Readers :
                Reading(r) \/ ReaderLeave(r) \/ \E b \in Blocks : ReaderOpen(r, b)
    BY <1>12, QuietStep DEF Reading, ReaderHint, ReaderReady, ReaderRead, ReaderSent,
                            ReaderAbort, ReaderLeave, ReaderOpen
<1> QED
    BY <1>2, <1>3, <1>4, <1>5, <1>6, <1>7, <1>8, <1>9, <1>10, <1>11, <1>12
       DEF Next, Coordinator

\* What readers were offered survives every power loss: types, the two facts
\* about manifests, and the order of a commit that keeps them inductive.
THEOREM DurableAlways == Spec => []DurableInv
<1>1. Init => DurableInv
    BY DurableInit
<1>2. DurableInv /\ [Next]_vars => DurableInv'
    BY DurableStep
<1> QED
    BY <1>1, <1>2, PTL DEF Spec

\* Every variable of the coordinator and its peers keeps its type.
THEOREM TypeCorrect == Spec => []TypeOK
<1>1. DurableInv => TypeOK
    BY DEF DurableInv
<1> QED
    BY <1>1, DurableAlways, PTL

\* Whatever manifest a power loss leaves covers all that readers were offered, and
\* names no block whose bytes the power loss would take.
THEOREM AlwaysDurable == Spec => []Durability
<1>1. DurableInv => Durability
    BY DEF DurableInv, Durability
<1> QED
    BY <1>1, DurableAlways, PTL

\* The coordinator with its crashes implements the promise to readers.
THEOREM Refinement == Spec => RefinesAsset
<1>1. Init => Asset!Init
    BY DEF Init, Asset!Init
<1>2. DurableInv /\ DurableInv' /\ [Next]_vars => [Asset!Next]_Asset!vars
  <2> SUFFICES ASSUME DurableInv, DurableInv', [Next]_vars
               PROVE  Asset!Next \/ UNCHANGED <<live, saved>>
      BY DEF Asset!vars
  <2>1. /\ saved' \in SUBSET SUBSET Asset!Blocks /\ saved' # {}
        /\ \A k \in saved' : live' \subseteq k
      BY DEF DurableInv, TypeOK, DiskTypes, LiveIsDurable, Asset!Blocks, Blocks
  <2>2. CASE Crash
      BY <2>2 DEF Crash, Asset!Next, Asset!Restart
  <2>3. CASE PersistManifest \/ SyncDirectory
    <3>1. UNCHANGED live
        BY <2>3 DEF PersistManifest, SyncDirectory
    <3> QED
        BY <2>1, <3>1 DEF Asset!Next, Asset!Keep
  <2>4. CASE Publish
    <3>1. chunk.block \in Asset!Blocks /\ \A k \in saved : chunk.block \in k
        BY <2>4, ChunkHeld DEF Publish, DurableInv, TypeOK, CommitOrder, Committing,
                               Asset!Blocks, Blocks
    <3> QED
        BY <2>4, <3>1 DEF Publish, Asset!Next, Asset!Publish
  <2>5. CASE Register \/ Release \/ Fetching \/ OthersTake \/ OthersFree \/ UNCHANGED vars
      BY <2>5 DEF Register, Release, Fetching, FetchDone, OthersTake, OthersFree
  <2>6. CASE OpenPayload \/ LoopHead \/ Renew \/ AddJob \/ Launch \/ NoPermit \/ Receive
      BY <2>6 DEF OpenPayload, LoopHead, Renew, AddJob, Launch, NoPermit, Receive
  <2>7. CASE \/ WritePayload \/ SyncPayload \/ StorageFails \/ EndWave
             \/ Wait \/ Settle \/ RecordEnd \/ StopRunning
      BY <2>7 DEF WritePayload, SyncPayload, StorageFails, EndWave,
                  Wait, Settle, RecordEnd, StopRunning
  <2>8. CASE \E r \in Readers :
                Reading(r) \/ ReaderLeave(r) \/ \E b \in Blocks : ReaderOpen(r, b)
      BY <2>8 DEF Reading, ReaderHint, ReaderReady, ReaderRead, ReaderSent,
                  ReaderAbort, ReaderLeave, ReaderOpen
  <2> QED
      BY <2>2, <2>3, <2>4, <2>5, <2>6, <2>7, <2>8 DEF Next, Coordinator
<1> QED
    BY <1>1, <1>2, DurableAlways, PTL DEF Spec, RefinesAsset, Asset!Spec

\* Nothing a reader was ever offered is taken back, by any step or power loss.
THEOREM AvailabilityNeverShrinks == Spec => Asset!NeverForgets
<1>1. DurableInv /\ [Asset!Next]_Asset!vars => [live \subseteq live']_Asset!vars
    BY DEF DurableInv, LiveIsDurable, Asset!Next, Asset!Keep, Asset!Publish,
           Asset!Restart, Asset!vars
<1> QED
    BY <1>1, DurableAlways, Refinement, PTL DEF RefinesAsset, Asset!Spec, Asset!NeverForgets

-----------------------------------------------------------------------------
(* One claim per block                                                       *)

\* Only the running owner has a coordinator: an asset without one is idle.
OneOwner == pc # "off" => running

\* An acquisition thread gives up its running flag only as its last act.
LEMMA OneOwnerStep == OneOwner /\ [Next]_vars => OneOwner'
    BY DEF OneOwner, Next, Coordinator, Fetching, Reading, Register, Release, Crash,
           OpenPayload, LoopHead, Renew, AddJob, Launch, NoPermit, Receive,
           WritePayload, SyncPayload, PersistManifest, SyncDirectory, Publish,
           StorageFails, EndWave, Wait, Settle, RecordEnd, StopRunning, FetchDone,
           ReaderHint, ReaderReady, ReaderRead, ReaderSent, ReaderAbort, ReaderLeave,
           ReaderOpen, OthersTake, OthersFree, NextResult, LocalsDropped

\* The steps that move a block from one place to the next, one at a time.
LEMMA ClaimedOnceStep ==
    ASSUME TypeOK, CommitOrder, OneOwner, ClaimedOnce, [Next]_vars
    PROVE  ClaimedOnce'
<1> USE DEF ClaimedOnce
<1>1. CASE Crash
    BY <1>1 DEF Crash, LocalsDropped, Committing
<1>2. CASE AddJob
  <2>1. NextBlock(live \cup jobs, preferred) \in Blocks \ (live \cup jobs)
    BY <1>2, NextBlockMissing DEF AddJob, TypeOK, LoopTypes
  <2>2. queue = <<>> /\ chunk = NoChunk
    BY <1>2 DEF AddJob, Committing
  <2> QED
    BY <1>2, <2>1, <2>2 DEF AddJob, Committing
<1>3. CASE Fetching
  <2>1. PICK b \in jobs : FetchDone(b)
    BY <1>3 DEF Fetching, FetchDone
  <2>2. CASE pc = "join"
    BY <2>1, <2>2 DEF FetchDone
  <2>3. CASE pc # "join"
    <3>1. PICK r \in Results(b) : queue' = Append(queue, r)
        BY <2>1, <2>3 DEF FetchDone
    <3>2. r.block = b /\ r \in Chunk \cup Verdict
        BY <2>1 DEF Results, Chunk, Verdict, TypeOK, FetchTypes
    <3>3. \A i \in DOMAIN queue' :
              \/ i \in DOMAIN queue /\ queue'[i] = queue[i]
              \/ i = Len(queue) + 1 /\ queue'[i] = r
        BY <3>1, <3>2, AppendIndices DEF TypeOK, FetchTypes
    <3>4. \A i \in DOMAIN queue : queue[i].block # b
        BY <2>1
    <3> QED
        BY <2>1, <2>3, <3>2, <3>3, <3>4 DEF FetchDone, Committing
  <2> QED
    BY <2>2, <2>3
<1>4. CASE Receive
  <2>1. /\ \A i \in DOMAIN Tail(queue) :
              i + 1 \in DOMAIN queue /\ Tail(queue)[i] = queue[i + 1] /\ i + 1 # 1
        /\ Head(queue) = queue[1] /\ 1 \in DOMAIN queue
    <3>1. queue \in Seq(Chunk \cup Verdict) /\ queue # <<>>
        BY <1>4 DEF Receive, TypeOK, FetchTypes
    <3>2. DOMAIN Tail(queue) \subseteq Nat \ {0}
        BY <3>1, TailIndices, LenProperties
    <3> QED
        BY <3>1, <3>2, TailIndices
  <2>2. \A i, j \in DOMAIN Tail(queue) : i # j => i + 1 # j + 1
    BY <1>4, TailIndices, LenProperties DEF Receive, TypeOK, FetchTypes
  <2>3. \A i \in DOMAIN queue' :
          /\ queue'[i].block \notin live \cup jobs
          /\ queue'[i].block # Head(queue).block
          /\ \A j \in DOMAIN queue' : i # j => queue'[i].block # queue'[j].block
    BY <1>4, <2>1, <2>2 DEF Receive
  <2>4. chunk = NoChunk
    BY <1>4 DEF Receive, Committing
  <2>5. \/ /\ pc' = "write" /\ chunk' = Head(queue) /\ Head(queue).kind = "chunk"
        \/ /\ pc' \in {"wave", "join"} /\ UNCHANGED chunk
    BY <1>4 DEF Receive, End
  <2>6. Head(queue).kind = "chunk" => Head(queue) # NoChunk
    BY DEF NoChunk
  <2>7. UNCHANGED <<live, jobs>>
    BY <1>4 DEF Receive
  <2> QED
    BY <2>1, <2>3, <2>4, <2>5, <2>6, <2>7 DEF Committing
<1>5. CASE WritePayload \/ PersistManifest \/ SyncDirectory
    BY <1>5 DEF WritePayload, PersistManifest, SyncDirectory, Committing
<1>6. CASE SyncPayload \/ Publish \/ StorageFails
    BY <1>6 DEF SyncPayload, Publish, StorageFails, NextResult, End, Committing
<1>7. CASE OpenPayload \/ LoopHead \/ Renew \/ Launch \/ NoPermit
    BY <1>7 DEF OpenPayload, LoopHead, Renew, Launch, NoPermit, End, Committing
<1>8. CASE EndWave \/ Wait \/ Settle \/ RecordEnd \/ StopRunning
    BY <1>8 DEF EndWave, Wait, Settle, RecordEnd, StopRunning, End, Retry,
                LocalsDropped, Committing
<1>9. CASE Register
    BY <1>9 DEF Register, OneOwner, Committing
<1>10. CASE Release \/ OthersTake \/ OthersFree \/ UNCHANGED vars
    BY <1>10 DEF Release, OthersTake, OthersFree
<1>11. CASE \E r \in Readers :
                Reading(r) \/ ReaderLeave(r) \/ \E b \in Blocks : ReaderOpen(r, b)
    BY <1>11 DEF Reading, ReaderHint, ReaderReady, ReaderRead, ReaderSent,
                 ReaderAbort, ReaderLeave, ReaderOpen
<1> QED
    BY <1>1, <1>2, <1>3, <1>4, <1>5, <1>6, <1>7, <1>8, <1>9, <1>10, <1>11
       DEF Next, Coordinator

-----------------------------------------------------------------------------
(* What readers are served                                                   *)

\* A reader past the availability check holds a block that is still available,
\* and what it has read is not a hole.
ReadersHold ==
    \A r \in Readers : /\ reader[r].pc = "read" => reader[r].want \in live
                       /\ reader[r].pc = "send" => reader[r].got # Hole

ServeInv == DurableInv /\ OneOwner /\ ClaimedOnce /\ ReadersHold

\* Available blocks have bytes: some manifest names them, and it does not lie.
LEMMA LiveHasBytes ==
    ASSUME DurableInv
    PROVE  \A b \in live : payload[b] # Hole
    BY DEF DurableInv, TypeOK, DiskTypes, LiveIsDurable, ManifestNeverLies, CommitOrder

\* A reader past its availability check wants an available block: it has bytes
\* and no commit is writing it.
LEMMA ServeInvImplies == ServeInv => NeverServeHoles
<1> SUFFICES ASSUME ServeInv, NEW r \in Readers
             PROVE  /\ reader[r].pc = "read" =>
                          /\ payload[reader[r].want] # Hole
                          /\ ~(pc = "sync" /\ chunk.block = reader[r].want)
                    /\ reader[r].pc = "send" => reader[r].got # Hole
    BY DEF NeverServeHoles
<1>1. pc = "sync" => chunk.block \notin live
    BY DEF ServeInv, ClaimedOnce, Committing
<1> QED
    BY <1>1, LiveHasBytes DEF ServeInv, ReadersHold

\* No step takes back a block that a reader was allowed to read.
LEMMA ReadersHoldStep ==
    ASSUME ServeInv, [Next]_vars
    PROVE  ReadersHold'
<1> USE DEF ReadersHold
<1>1. CASE Crash
  <2>1. NoRead.pc = "idle"
    BY DEF NoRead
  <2> QED
    BY <1>1, <2>1 DEF Crash
<1>2. CASE Release
  <2>1. \A r \in Readers : /\ reader'[r].pc = reader[r].pc
                           /\ reader'[r].want = reader[r].want
                           /\ reader'[r].got = reader[r].got
    <3> SUFFICES ASSUME NEW r \in Readers
                 PROVE  LET e == [reader[r] EXCEPT !.active = FALSE]
                        IN  e.pc = reader[r].pc /\ e.want = reader[r].want
                            /\ e.got = reader[r].got
        BY <1>2 DEF Release
    <3>1. reader[r] \in Read \cup {NoRead}
        BY DEF ServeInv, DurableInv, TypeOK, ReaderTypes
    <3> QED
        BY <3>1 DEF Read, NoRead
  <2> QED
    BY <1>2, <2>1 DEF Release, ServeInv
<1>3. ASSUME NEW r \in Readers,
             Reading(r) \/ ReaderLeave(r) \/ \E b \in Blocks : ReaderOpen(r, b)
      PROVE  ReadersHold'
  <2>1. reader \in [Readers -> Read \cup {NoRead}] /\ NoRead.pc = "idle"
    BY DEF ServeInv, DurableInv, TypeOK, ReaderTypes, NoRead
  <2>2. CASE ReaderHint(r)
    BY <2>2 DEF ReaderHint, ServeInv
  <2>3. CASE ReaderReady(r)
    <3>1. reader[r] \in Read
        BY <2>1, <2>3 DEF ReaderReady
    <3>2. [reader[r] EXCEPT !.pc = "read"].want = reader[r].want
        BY <3>1 DEF Read
    <3>3. [reader[r] EXCEPT !.pc = "read"].pc = "read"
        BY <3>1 DEF Read
    <3> QED
        BY <2>1, <2>3, <3>2, <3>3 DEF ReaderReady, ServeInv
  <2>4. CASE ReaderRead(r)
    <3> DEFINE got == payload[reader[r].want]
    <3>1. reader[r] \in Read /\ got # Hole
        BY <2>1, <2>4, LiveHasBytes DEF ReaderRead, ServeInv
    <3>2. /\ [reader[r] EXCEPT !.pc = "send", !.got = got].pc = "send"
          /\ [reader[r] EXCEPT !.pc = "send", !.got = got].got = got
        BY <3>1 DEF Read
    <3> QED
        BY <2>1, <2>4, <3>1, <3>2 DEF ReaderRead, ServeInv
  <2>5. CASE ReaderSent(r) \/ ReaderAbort(r) \/ ReaderLeave(r)
    BY <2>1, <2>5 DEF ReaderSent, ReaderAbort, ReaderLeave, ServeInv
  <2>6. CASE \E b \in Blocks : ReaderOpen(r, b)
    BY <2>1, <2>6 DEF ReaderOpen, ServeInv
  <2> QED
    BY <1>3, <2>2, <2>3, <2>4, <2>5, <2>6 DEF Reading
<1>4. CASE Publish
    BY <1>4 DEF Publish, ServeInv
<1>5. CASE Register \/ Fetching \/ OthersTake \/ OthersFree \/ UNCHANGED vars
    BY <1>5 DEF Register, Fetching, FetchDone, OthersTake, OthersFree, ServeInv
<1>6. CASE OpenPayload \/ LoopHead \/ Renew \/ AddJob \/ Launch \/ NoPermit \/ Receive
    BY <1>6 DEF OpenPayload, LoopHead, Renew, AddJob, Launch, NoPermit, Receive, ServeInv
<1>7. CASE WritePayload \/ SyncPayload \/ PersistManifest \/ SyncDirectory \/ StorageFails
    BY <1>7 DEF WritePayload, SyncPayload, PersistManifest, SyncDirectory,
                StorageFails, ServeInv
<1>8. CASE EndWave \/ Wait \/ Settle \/ RecordEnd \/ StopRunning
    BY <1>8 DEF EndWave, Wait, Settle, RecordEnd, StopRunning, ServeInv
<1> QED
    BY <1>1, <1>2, <1>3, <1>4, <1>5, <1>6, <1>7, <1>8 DEF Next, Coordinator

\* One owner, one claim on each block, and readers that read only what is
\* available, inductive together with what is durable.
THEOREM ServeAlways == Spec => []ServeInv
<1>1. Init => ServeInv
  <2> SUFFICES ASSUME Init PROVE OneOwner /\ ClaimedOnce /\ ReadersHold
    BY DurableInit DEF ServeInv
  <2>1. NoRead.pc = "idle"
    BY DEF NoRead
  <2> QED
    BY <2>1 DEF Init, OneOwner, ClaimedOnce, ReadersHold, Committing
<1>2. ServeInv /\ [Next]_vars => ServeInv'
    BY DurableStep, OneOwnerStep, ClaimedOnceStep, ReadersHoldStep
       DEF ServeInv, DurableInv
<1> QED
    BY <1>1, <1>2, PTL DEF Spec

\* No two fetches share a range, and nothing available is ever written again.
THEOREM AlwaysClaimedOnce == Spec => []ClaimedOnce
<1>1. ServeInv => ClaimedOnce
    BY DEF ServeInv
<1> QED
    BY <1>1, ServeAlways, PTL

-----------------------------------------------------------------------------
(* What a lease is told                                                      *)

\* An acquisition ends for a reason it records: "canceled" only if it was, or its
\* account was revoked, "ok" only if nothing is missing; a superseded result never
\* counts as a failure.
EndReasons ==
    /\ leased => ~cancel
    /\ wave.gen <= generation /\ wave.failure # "canceled"
    /\ \A i \in DOMAIN queue : queue[i].kind = "canceled" => Superseded
    /\ pc = "join" => /\ outcome # "none" /\ (outcome = "canceled" => cancel \/ revoked)
                      /\ outcome = "ok" => Complete(live)
    /\ pc = "exit" => error # "none" \/ Complete(live)
    /\ SeekNeverFails /\ NoSilentStall

\* The stop of a wave, and what its fetches and the coordinator do with it.
LEMMA EndReasonsStep ==
    ASSUME TypeOK, OneOwner, ClaimedOnce, EndReasons, [Next]_vars
    PROVE  EndReasons'
<1> USE DEF EndReasons, SeekNeverFails, NoSilentStall, Superseded, Stopped, End,
            Complete, Missing
<1>0. /\ wave \in Wave /\ wave.gen \in Nat /\ generation \in Nat
      /\ NoWave.gen = 0 /\ NoWave.failure = "none"
    BY DEF TypeOK, LoopTypes, SharedTypes, Wave, NoWave
<1>1. CASE Crash
    BY <1>0, <1>1 DEF Crash, LocalsDropped
<1>2. CASE Register
    BY <1>2 DEF Register, OneOwner, ClaimedOnce, Committing
<1>3. CASE Release
    BY <1>3 DEF Release
<1>4. CASE \E r \in Readers :
              Reading(r) \/ ReaderLeave(r) \/ \E b \in Blocks : ReaderOpen(r, b)
    BY <1>0, <1>4 DEF Reading, ReaderHint, ReaderReady, ReaderRead, ReaderSent,
                      ReaderAbort, ReaderLeave, ReaderOpen
<1>5. CASE Fetching
  <2>1. PICK b \in jobs : FetchDone(b)
    BY <1>5 DEF Fetching, FetchDone
  <2>2. CASE pc = "join"
    BY <2>1, <2>2 DEF FetchDone
  <2>3. CASE pc # "join"
    <3>1. PICK r \in Results(b) : queue' = Append(queue, r)
        BY <2>1, <2>3 DEF FetchDone
    <3>2. r \in Chunk \cup Verdict /\ (r.kind = "canceled" => Superseded)
        BY <2>1 DEF Results, Chunk, Verdict, TypeOK, FetchTypes
    <3>3. \A i \in DOMAIN queue' :
              (i \in DOMAIN queue /\ queue'[i] = queue[i]) \/ queue'[i] = r
        BY <3>1, <3>2, AppendIndices DEF TypeOK, FetchTypes
    <3> QED
        BY <2>1, <2>3, <3>2, <3>3 DEF FetchDone
  <2> QED
    BY <2>2, <2>3
<1>6. CASE Receive
  <2>1. /\ \A i \in DOMAIN queue' : \E j \in DOMAIN queue : queue'[i] = queue[j]
        /\ Head(queue).kind = "canceled" => Superseded
        /\ Head(queue).kind \in Failures \cup {"throttle", "renew", "chunk"}
    <3>1. queue \in Seq(Chunk \cup Verdict) /\ queue # <<>>
        BY <1>6 DEF Receive, TypeOK, FetchTypes
    <3>2. Head(queue) = queue[1] /\ 1 \in DOMAIN queue /\ queue[1] \in Chunk \cup Verdict
        BY <3>1, TailIndices
    <3> QED
        BY <1>6, <3>1, <3>2, TailIndices DEF Receive, Chunk, Verdict, Failures
  <2>2. UNCHANGED <<generation, cancel, leased, revoked, live, error, running>> /\ pc = "wave"
    BY <1>6 DEF Receive
  <2>3. wave'.gen = wave.gen /\ wave'.failure # "canceled"
    <3>1. CASE UNCHANGED wave
        BY <3>1
    <3>2. CASE \/ wave' = [wave EXCEPT !.throttle = TRUE]
               \/ wave' = [wave EXCEPT !.stale = TRUE]
               \/ wave' = [wave EXCEPT !.auth = TRUE]
        BY <1>0, <3>2 DEF Wave
    <3>3. ASSUME NEW f \in Failures \ {"canceled"},
                 wave' = [wave EXCEPT !.failure = Remember(@, f)]
          PROVE  wave'.gen = wave.gen /\ wave'.failure # "canceled"
        BY <1>0, <3>3 DEF Wave, Remember
    <3> QED
        BY <1>6, <2>1, <3>1, <3>2, <3>3 DEF Receive, Failures
  <2>4. pc' = "join" => cancel /\ outcome' = "canceled"
    BY <1>6 DEF Receive
  <2>5. pc' # "exit"
    BY <1>6 DEF Receive
  <2> QED
    BY <2>1, <2>2, <2>3, <2>4, <2>5
<1>7. CASE LoopHead
  <2>1. queue = <<>>
    BY <1>7 DEF LoopHead, ClaimedOnce, Committing
  <2> DEFINE snapshot == [NoWave EXCEPT !.gen = generation, !.pin = validator]
  <2>2. snapshot.gen = generation /\ snapshot.failure = "none"
    BY DEF NoWave
  <2>3. wave' = wave \/ wave' = snapshot
    BY <1>7, Zenon DEF LoopHead
  <2> HIDE DEF snapshot
  <2>4. wave'.gen <= generation /\ wave'.failure # "canceled"
    BY <1>0, <2>2, <2>3
  <2>5. pc' # "exit" /\ UNCHANGED <<generation, cancel, leased, revoked, live, error, running, queue>>
    BY <1>7 DEF LoopHead
  <2>6. pc' = "join" => \/ cancel /\ outcome' = "canceled"
                        \/ Complete(live) /\ outcome' = "ok"
    BY <1>7 DEF LoopHead
  <2> QED
    BY <2>1, <2>4, <2>5, <2>6
<1>8. CASE Renew
  <2>1. [wave EXCEPT !.auth = FALSE].gen = wave.gen
        /\ [wave EXCEPT !.auth = FALSE].failure = wave.failure
    BY <1>0 DEF Wave
  <2> QED
    BY <1>8, <2>1 DEF Renew
<1>9. CASE SyncPayload \/ Publish
  <2>1. ASSUME NEW b PROVE  LET w == [wave EXCEPT !.stale = b]
                            IN  w.gen = wave.gen /\ w.failure = wave.failure
    BY <1>0 DEF Wave
  <2>2. wave'.gen = wave.gen /\ wave'.failure = wave.failure
    BY <1>9, <2>1 DEF SyncPayload, Publish, NextResult
  <2>3. /\ pc' \in {"wave", "persist"} /\ live \subseteq live'
        /\ UNCHANGED <<generation, cancel, leased, revoked, error, running, queue>>
    BY <1>9 DEF SyncPayload, Publish, NextResult
  <2> QED
    BY <2>2, <2>3
<1>10. CASE OpenPayload \/ AddJob \/ Launch \/ NoPermit
    BY <1>10 DEF OpenPayload, AddJob, Launch, NoPermit
<1>11. CASE WritePayload \/ PersistManifest \/ SyncDirectory \/ StorageFails
  <2>1. /\ \/ pc' \in {"sync", "dirsync", "publish"}
           \/ pc' = "join" /\ outcome' = "storage"
        /\ UNCHANGED <<wave, generation, cancel, leased, revoked, live, error, running, queue>>
    <3>1. CASE WritePayload
        BY <3>1 DEF WritePayload
    <3>2. CASE PersistManifest \/ SyncDirectory
        BY <3>2 DEF PersistManifest, SyncDirectory
    <3>3. CASE StorageFails
        BY <3>3 DEF StorageFails
    <3> QED
        BY <1>11, <3>1, <3>2, <3>3
  <2> QED
    BY <2>1
<1>12. CASE EndWave \/ Wait \/ Settle
  <2>1. wave.failure # "ok"
    BY <1>0 DEF Wave, Failures
  <2>2. /\ pc' = "join" => \/ cancel /\ outcome' = "canceled"
                           \/ outcome' \notin {"canceled", "ok", "none"}
        /\ pc' # "exit"
        /\ UNCHANGED <<wave, generation, cancel, leased, revoked, live, error, running, queue>>
    BY <1>12, <2>1 DEF EndWave, Wait, Settle, Retry
  <2> QED
    BY <2>2
<1>13. CASE RecordEnd
    BY <1>13 DEF RecordEnd
<1>14. CASE StopRunning
    BY <1>0, <1>14 DEF StopRunning, LocalsDropped
<1>15. CASE OthersTake \/ OthersFree \/ UNCHANGED vars
    BY <1>15 DEF OthersTake, OthersFree
<1> QED
    BY <1>1, <1>2, <1>3, <1>4, <1>5, <1>6, <1>7, <1>8, <1>9, <1>10, <1>11,
       <1>12, <1>13, <1>14, <1>15 DEF Next, Coordinator

\* A reader that saw a block available reads all of it, though the lock is gone;
\* a seek is never recorded as a failure; and a lease that will get no more bytes
\* has an error to show for it.
THEOREM AlwaysSafeReads == Spec => []SafeReads
<1>1. Init => EndReasons
  <2>1. NoWave.gen = 0 /\ NoWave.failure = "none"
    BY DEF NoWave
  <2> QED
    BY <2>1 DEF Init, EndReasons, SeekNeverFails, NoSilentStall
<1>2. ServeInv /\ EndReasons /\ [Next]_vars => EndReasons'
    BY EndReasonsStep DEF ServeInv, DurableInv
<1>3. ServeInv /\ EndReasons => SafeReads
    BY ServeInvImplies DEF EndReasons, SafeReads
<1> QED
    BY <1>1, <1>2, <1>3, ServeAlways, PTL DEF Spec

-----------------------------------------------------------------------------
(* What is published                                                         *)

\* Only Publish makes a block available, and it looks at the cancellation and at
\* the generation again, under the lock, after the checkpoint was written.
THEOREM AlwaysCurrent == Spec => OnlyCurrentPublished
<1>1. TypeOK /\ [Next]_vars =>
          [live' # live /\ crashes' = crashes => ~cancel /\ generation = wave.gen]_vars
  <2> SUFFICES ASSUME TypeOK, [Next]_vars, live' # live, crashes' = crashes
               PROVE  ~cancel /\ generation = wave.gen
      OBVIOUS
  <2>1. CASE Publish
      BY <2>1 DEF Publish, Superseded
  <2>2. CASE Crash
      BY <2>2 DEF Crash, TypeOK, CounterTypes
  <2>3. CASE \/ Register \/ Release \/ Fetching \/ OthersTake \/ OthersFree
             \/ UNCHANGED vars
      BY <2>3 DEF Register, Release, Fetching, FetchDone, OthersTake, OthersFree
  <2>4. CASE OpenPayload \/ LoopHead \/ Renew \/ AddJob \/ Launch \/ NoPermit \/ Receive
      BY <2>4 DEF OpenPayload, LoopHead, Renew, AddJob, Launch, NoPermit, Receive
  <2>5. CASE WritePayload \/ SyncPayload \/ PersistManifest \/ SyncDirectory \/ StorageFails
      BY <2>5 DEF WritePayload, SyncPayload, PersistManifest, SyncDirectory, StorageFails
  <2>6. CASE EndWave \/ Wait \/ Settle \/ RecordEnd \/ StopRunning
      BY <2>6 DEF EndWave, Wait, Settle, RecordEnd, StopRunning
  <2>7. CASE \E r \in Readers :
                Reading(r) \/ ReaderLeave(r) \/ \E b \in Blocks : ReaderOpen(r, b)
      BY <2>7 DEF Reading, ReaderHint, ReaderReady, ReaderRead, ReaderSent,
                  ReaderAbort, ReaderLeave, ReaderOpen
  <2> QED
      BY <2>1, <2>2, <2>3, <2>4, <2>5, <2>6, <2>7 DEF Next, Coordinator
<1> QED
    BY <1>1, TypeCorrect, PTL DEF Spec, OnlyCurrentPublished

-----------------------------------------------------------------------------
(* One version                                                               *)

\* What an acquisition published is its own, and whole; the chunk in hand agrees
\* with the pinned validator, and so does what its file holds once it is synced.
\* Nothing is published before the first accepted response settled the validator.
IdentityInv ==
    /\ mine \subseteq live /\ (~initialized => mine = {})
    /\ pc \in Committing => initialized /\ (validator # None => chunk.ver = validator)
    /\ pc \in {"persist", "dirsync", "publish"} => payload[chunk.block] = chunk.ver
    /\ \A i \in DOMAIN queue : queue[i].etag \in {queue[i].ver, None}
    /\ PinnedIdentity

\* A step that touches neither file nor validator, and does not move a commit on.
LEMMA IdentityQuiet ==
    ASSUME IdentityInv, UNCHANGED <<payload, live, validator, initialized, mine>>,
           pc' \in Committing => UNCHANGED <<pc, chunk>>,
           \A i \in DOMAIN queue' : \E j \in DOMAIN queue : queue'[i] = queue[j]
    PROVE  IdentityInv'
    BY DEF IdentityInv, PinnedIdentity, Committing

\* Receiving pins, committing writes what is not published, publishing adds what
\* was written; a fetch brings a validator that names its own version or none.
LEMMA IdentityStep ==
    ASSUME TypeOK, CommitOrder, ClaimedOnce, IdentityInv, [Next]_vars
    PROVE  IdentityInv'
<1>1. CASE Crash \/ StopRunning
  <2>1. validator' = None /\ mine' = {} /\ queue' = <<>> /\ pc' = "off"
    BY <1>1 DEF Crash, StopRunning, LocalsDropped
  <2> QED
    BY <2>1 DEF IdentityInv, PinnedIdentity, Committing
<1>2. CASE \/ Register \/ Release \/ OthersTake \/ OthersFree \/ UNCHANGED vars
           \/ \E r \in Readers :
                Reading(r) \/ ReaderLeave(r) \/ \E b \in Blocks : ReaderOpen(r, b)
  <2>1. UNCHANGED <<payload, live, validator, initialized, mine, chunk, queue>>
        /\ pc' \in {pc, "open"}
    BY <1>2 DEF Register, Release, OthersTake, OthersFree, Reading, ReaderHint,
                ReaderReady, ReaderRead, ReaderSent, ReaderAbort, ReaderLeave, ReaderOpen
  <2> QED
    BY <2>1, IdentityQuiet DEF Committing
<1>3. CASE OpenPayload \/ LoopHead \/ Renew \/ AddJob \/ Launch \/ NoPermit
  <2>1. UNCHANGED <<payload, live, validator, initialized, mine, queue>>
        /\ pc' \notin Committing
    BY <1>3 DEF OpenPayload, LoopHead, Renew, AddJob, Launch, NoPermit, End, Committing
  <2> QED
    BY <2>1, IdentityQuiet
<1>4. CASE EndWave \/ Wait \/ Settle \/ RecordEnd \/ StorageFails
  <2>1. UNCHANGED <<payload, live, validator, initialized, mine>>
        /\ queue' \in {queue, <<>>} /\ pc' \notin Committing
    BY <1>4 DEF EndWave, Wait, Settle, Retry, RecordEnd, StorageFails, End, Committing
  <2> QED
    BY <2>1, IdentityQuiet
<1>5. CASE Fetching
  <2>1. PICK b \in Blocks : FetchDone(b)
    BY <1>5 DEF Fetching
  <2>2. UNCHANGED <<payload, live, validator, initialized, mine, pc, chunk>>
    BY <2>1 DEF FetchDone
  <2>3. CASE queue' = queue
    BY <2>2, <2>3, IdentityQuiet
  <2>4. ASSUME NEW r \in Results(b), queue' = Append(queue, r)
        PROVE  IdentityInv'
    <3>1. r \in Chunk \cup Verdict /\ r.etag \in {r.ver, None}
        BY <2>1 DEF Results, Chunk, Verdict
    <3>2. \A i \in DOMAIN queue' :
              (i \in DOMAIN queue /\ queue'[i] = queue[i]) \/ queue'[i] = r
        BY <2>4, <3>1, AppendIndices DEF TypeOK, FetchTypes
    <3> QED
        BY <2>2, <3>1, <3>2 DEF IdentityInv, PinnedIdentity
  <2> QED
    BY <2>1, <2>3, <2>4 DEF FetchDone
<1>6. CASE Receive
  <2> DEFINE r == Head(queue)
  <2>1. /\ r \in Chunk \cup Verdict /\ r.etag \in {r.ver, None}
        /\ \A i \in DOMAIN queue' : \E j \in DOMAIN queue : queue'[i] = queue[j]
    <3>1. queue \in Seq(Chunk \cup Verdict) /\ queue # <<>> /\ queue' = Tail(queue)
        BY <1>6 DEF Receive, TypeOK, FetchTypes
    <3>2. Head(queue) = queue[1] /\ 1 \in DOMAIN queue /\ queue[1] \in Chunk \cup Verdict
        BY <3>1, TailIndices
    <3> QED
        BY <3>1, <3>2, TailIndices DEF IdentityInv
  <2>2. UNCHANGED <<payload, live, mine>>
    BY <1>6 DEF Receive
  <2>3. CASE pc' \notin Committing
    <3>1. UNCHANGED <<validator, initialized>>
        BY <1>6, <2>3 DEF Receive, Committing
    <3> QED
        BY <2>1, <2>2, <2>3, <3>1, IdentityQuiet
  <2>4. CASE pc' \in Committing
    <3>1. /\ r.kind = "chunk" /\ ~Conflicts(r)
          /\ validator' = Pinned(r) /\ initialized' = TRUE /\ chunk' = r /\ pc' = "write"
        BY <1>6, <2>4 DEF Receive, End, Committing
    <3>2. r \in Chunk
        BY <2>1, <3>1 DEF Verdict
    <3>3. validator' # None => r.ver = validator'
        BY <2>1, <3>1, <3>2 DEF Conflicts, Pinned
    <3>4. PinnedIdentity'
      <4>1. CASE initialized
        BY <2>2, <3>1, <4>1 DEF Pinned, IdentityInv, PinnedIdentity
      <4>2. CASE ~initialized
        BY <2>2, <4>2 DEF IdentityInv, PinnedIdentity
      <4> QED
        BY <4>1, <4>2
    <3> QED
        BY <2>1, <2>2, <3>1, <3>3, <3>4 DEF IdentityInv
  <2> QED
    BY <2>3, <2>4
<1>7. CASE WritePayload \/ SyncPayload
  <2>1. pc \in Committing
    BY <1>7 DEF WritePayload, SyncPayload, Committing
  <2>2. chunk.block \in Blocks /\ chunk.block \notin live
    BY <2>1, ChunkHeld DEF TypeOK, ClaimedOnce
  <2>3. \A b \in Blocks : b # chunk.block => payload'[b] = payload[b]
    BY <1>7 DEF WritePayload, SyncPayload, TypeOK, DiskTypes
  <2>4. mine \subseteq Blocks
    BY DEF TypeOK, CounterTypes
  <2>5. UNCHANGED <<live, validator, initialized, mine, queue>>
    BY <1>7 DEF WritePayload, SyncPayload
  <2>6. PinnedIdentity'
    BY <2>2, <2>3, <2>4, <2>5 DEF IdentityInv, PinnedIdentity
  <2>7. CASE WritePayload
    BY <2>1, <2>5, <2>6, <2>7 DEF WritePayload, IdentityInv, Committing
  <2>8. CASE SyncPayload
    <3>1. payload'[chunk.block] = chunk.ver
        BY <2>2, <2>8 DEF SyncPayload, TypeOK, DiskTypes
    <3>2. pc' = "wave" \/ (pc' = "persist" /\ chunk' = chunk)
        BY <2>8 DEF SyncPayload, NextResult
    <3> QED
        BY <2>1, <2>5, <2>6, <3>1, <3>2 DEF IdentityInv, Committing
  <2> QED
    BY <1>7, <2>7, <2>8
<1>8. CASE PersistManifest \/ SyncDirectory
  <2>1. /\ UNCHANGED <<payload, live, validator, initialized, mine, queue, chunk>>
        /\ pc \in {"persist", "dirsync"} /\ pc' \in {"dirsync", "publish"}
    BY <1>8 DEF PersistManifest, SyncDirectory
  <2> QED
    BY <2>1 DEF IdentityInv, PinnedIdentity, Committing
<1>9. CASE Publish
  <2>1. /\ UNCHANGED <<payload, validator, initialized, queue>>
        /\ pc' = "wave" /\ pc \in Committing /\ pc = "publish"
    BY <1>9 DEF Publish, NextResult, Committing
  <2>2. \/ UNCHANGED <<live, mine>>
        \/ live' = live \cup {chunk.block} /\ mine' = mine \cup {chunk.block}
    BY <1>9 DEF Publish
  <2> QED
    BY <2>1, <2>2 DEF IdentityInv, PinnedIdentity, Committing
<1> QED
    BY <1>1, <1>2, <1>3, <1>4, <1>5, <1>6, <1>7, <1>8, <1>9 DEF Next, Coordinator

-----------------------------------------------------------------------------
(* Bounded retries                                                           *)

\* Nothing of the wave asks for another one.
Clean == wave.failure = "none" /\ ~wave.auth /\ ~wave.throttle /\ ~wave.stale

\* Steps at which every wave since the last progress is paid for by a failure or
\* a renewal; in the others the current wave may still be unpaid.
Paid ==
    \/ pc \in {"off", "open", "top", "renew", "plan", "backoff", "cooldown"}
    \/ pc = "settle" /\ wave.throttle

\* Waves without progress are counted by the two budgets, and a wave that asks for
\* nothing has published: its end may forget the failures before it.
BudgetInv ==
    /\ BoundedRetries
    /\ pc \notin {"join", "exit"} =>
         /\ failures <= MaxFailures /\ renewals <= MaxRenewals
         /\ idle <= failures + renewals + 1
         /\ Paid => idle <= failures + renewals
    /\ pc = "cooldown" => wave.throttle
    /\ Clean /\ idle # 0 =>
         /\ pc # "settle"
         /\ pc \in {"wave"} \cup Committing => jobs # {} \/ queue # <<>> \/ chunk # NoChunk

\* The end of an acquisition needs nothing but the bound.
LEMMA BudgetEnds ==
    ASSUME BudgetInv, pc' \in {"join", "exit"}, idle' = idle
    PROVE  BudgetInv'
    BY DEF BudgetInv, BoundedRetries, Committing

\* A step that touches no counter and stays within, or away from, a wave.
LEMMA BudgetQuiet ==
    ASSUME BudgetInv, UNCHANGED <<wave, failures, renewals, idle>>,
           \/ UNCHANGED <<pc, jobs, queue, chunk>>
           \/ /\ pc \notin {"join", "exit"} /\ pc' \in {"open", "top", "renew", "plan"}
              /\ Paid
    PROVE  BudgetInv'
    BY DEF BudgetInv, BoundedRetries, Paid, Clean, Committing

\* Each way back to the loop head pays for the wave or has made progress.
LEMMA BudgetStep ==
    ASSUME TypeOK, OneOwner, ClaimedOnce, BudgetInv, [Next]_vars
    PROVE  BudgetInv'
<1> USE BudgetAssumption
<1>0. /\ wave \in Wave /\ NoWave \in Wave
      /\ failures \in Nat /\ renewals \in Nat /\ idle \in Nat
    BY WaveValues DEF TypeOK, LoopTypes, CounterTypes, Failures
<1>1. CASE Crash \/ StopRunning
  <2>1. pc' = "off" /\ failures' = 0 /\ renewals' = 0 /\ idle' = 0
    BY <1>1 DEF Crash, StopRunning, LocalsDropped
  <2> QED
    BY <2>1 DEF BudgetInv, BoundedRetries, Committing
<1>2. CASE \/ Release \/ OthersTake \/ OthersFree \/ UNCHANGED vars
           \/ \E r \in Readers :
                Reading(r) \/ ReaderLeave(r) \/ \E b \in Blocks : ReaderOpen(r, b)
  <2>1. UNCHANGED <<wave, failures, renewals, idle, pc, jobs, queue, chunk>>
    BY <1>2 DEF Release, OthersTake, OthersFree, Reading, ReaderHint,
                ReaderReady, ReaderRead, ReaderSent, ReaderAbort, ReaderLeave, ReaderOpen
  <2> QED
    BY <2>1, BudgetQuiet
<1>3. CASE Register
  <2>1. pc = "off"
    BY <1>3 DEF Register, OneOwner
  <2> QED
    BY <1>3, <2>1, BudgetQuiet DEF Register, Paid
<1>4. CASE OpenPayload \/ NoPermit \/ RecordEnd \/ StorageFails
  <2>1. CASE pc' \in {"join", "exit"}
    BY <1>4, <2>1, BudgetEnds DEF OpenPayload, NoPermit, RecordEnd, StorageFails
  <2>2. CASE pc' \notin {"join", "exit"}
    <3>1. CASE OpenPayload \/ NoPermit
        BY <2>2, <3>1, BudgetQuiet DEF OpenPayload, NoPermit, End, Paid
    <3>2. CASE RecordEnd \/ StorageFails
        BY <2>2, <3>2 DEF RecordEnd, StorageFails, End
    <3> QED
        BY <1>4, <3>1, <3>2
  <2> QED
    BY <2>1, <2>2
<1>5. CASE LoopHead
  <2>1. CASE pc' = "join"
    BY <1>5, <2>1, BudgetEnds DEF LoopHead
  <2>2. CASE pc' # "join"
    <3>1. pc = "top" /\ pc' \in {"plan", "renew"} /\ UNCHANGED <<failures, renewals, idle>>
        BY <1>5, <2>2 DEF LoopHead, End
    <3> QED
        BY <3>1 DEF BudgetInv, BoundedRetries, Paid, Committing
  <2> QED
    BY <2>1, <2>2
<1>6. CASE Renew
  <2>1. CASE pc' = "join"
    BY <1>6, <2>1, BudgetEnds DEF Renew
  <2>2. CASE pc' # "join"
    <3>1. /\ renewals < MaxRenewals /\ renewals' = renewals + 1
          /\ UNCHANGED <<failures, idle>> /\ pc \in {"renew", "reauth"}
          /\ wave' = [wave EXCEPT !.auth = FALSE]
          /\ pc' \in {"plan", "top"} \/ (pc' = "settle" /\ wave.failure # "none")
        BY <1>0, <1>6, <2>2 DEF Renew, End, TypeOK, CounterTypes
    <3>2. wave'.failure = wave.failure
        BY <1>0, <3>1 DEF Wave
    <3>3. /\ BoundedRetries' /\ failures' <= MaxFailures /\ renewals' <= MaxRenewals
          /\ idle' <= failures' + renewals' /\ idle' <= failures' + renewals' + 1
        BY <1>0, <3>1 DEF BudgetInv, BoundedRetries
    <3>4. pc' # "cooldown" /\ pc' \notin {"wave"} \cup Committing
        BY <3>1 DEF Committing
    <3>5. Clean' => pc' # "settle"
        BY <3>1, <3>2 DEF Clean
    <3> QED
        BY <3>3, <3>4, <3>5 DEF BudgetInv
  <2> QED
    BY <2>1, <2>2
<1>7. CASE AddJob
    BY <1>7 DEF AddJob, BudgetInv, BoundedRetries, Paid, Clean, Committing
<1>8. CASE Launch
  <2>1. /\ pc = "plan" /\ jobs # {} /\ idle' = idle + 1 /\ UNCHANGED <<failures, renewals, wave>>
        /\ (pc' = "wave" /\ jobs' = jobs) \/ pc' = "join"
    BY <1>8 DEF Launch, End
  <2> QED
    BY <1>0, <2>1 DEF BudgetInv, BoundedRetries, Paid, Clean, Committing
<1>9. CASE Fetching
  <2>1. PICK b \in jobs : FetchDone(b)
    BY <1>9 DEF Fetching, FetchDone
  <2>2. UNCHANGED <<wave, failures, renewals, idle, pc, chunk>> /\ pc # "plan"
    BY <2>1 DEF FetchDone
  <2>3. CASE pc = "join"
    BY <2>2, <2>3, BudgetEnds
  <2>4. CASE pc # "join"
    <3>1. PICK r \in Results(b) : queue' = Append(queue, r)
        BY <2>1, <2>4 DEF FetchDone
    <3>2. queue \in Seq(Chunk \cup Verdict)
        BY DEF TypeOK, FetchTypes
    <3>3. queue' # <<>>
        BY <3>1, <3>2
    <3> QED
        BY <2>2, <3>3 DEF BudgetInv, BoundedRetries, Paid, Clean, Committing
  <2> QED
    BY <2>3, <2>4
<1>10. CASE Receive
  <2>1. CASE pc' = "join"
    BY <1>10, <2>1, BudgetEnds DEF Receive
  <2>2. CASE pc' # "join"
    <3>1. pc = "wave" /\ UNCHANGED <<failures, renewals, idle>>
        BY <1>10 DEF Receive
    <3>2. \/ pc' = "wave" /\ ~Clean'
          \/ (pc' = "write" /\ chunk' # NoChunk)
      <4>1. queue \in Seq(Chunk \cup Verdict) /\ queue # <<>>
        BY <1>10 DEF Receive, TypeOK, FetchTypes
      <4>2. Head(queue) \in Chunk \cup Verdict
        BY <4>1, HeadTailProperties
      <4>3. CASE UNCHANGED <<pc, chunk, pinVars>>
        <5>1. ASSUME NEW f \in Failures \ {"none"},
                     wave' = [wave EXCEPT !.failure = Remember(@, f)]
              PROVE  wave'.failure # "none"
            BY <1>0, <5>1 DEF Wave, Remember
        <5>2. CASE \/ wave' = [wave EXCEPT !.throttle = TRUE]
                   \/ wave' = [wave EXCEPT !.stale = TRUE]
                   \/ wave' = [wave EXCEPT !.auth = TRUE]
            BY <1>0, <3>1, <4>3, <5>2 DEF Wave, Clean
        <5>3. CASE \E f \in Failures \ {"none"} :
                       wave' = [wave EXCEPT !.failure = Remember(@, f)]
            BY <3>1, <4>3, <5>1, <5>3 DEF Clean
        <5>4. \/ wave' = [wave EXCEPT !.throttle = TRUE]
              \/ wave' = [wave EXCEPT !.stale = TRUE]
              \/ wave' = [wave EXCEPT !.auth = TRUE]
              \/ \E f \in Failures \ {"none"} :
                     wave' = [wave EXCEPT !.failure = Remember(@, f)]
            BY <1>10, <2>2, <3>1, <4>3 DEF Receive, End, Failures
        <5> QED
            BY <5>2, <5>3, <5>4
      <4>4. CASE ~UNCHANGED <<pc, chunk, pinVars>>
        <5>1. pc' = "write" /\ chunk' = Head(queue) /\ Head(queue).kind = "chunk"
            BY <1>10, <2>2, <4>4 DEF Receive, End
        <5>2. NoChunk.kind = "none"
            BY DEF NoChunk
        <5> QED
            BY <5>1, <5>2
      <4> QED
        BY <4>3, <4>4
    <3> QED
        BY <3>1, <3>2 DEF BudgetInv, BoundedRetries, Paid, Committing
  <2> QED
    BY <2>1, <2>2
<1>11. CASE WritePayload \/ PersistManifest \/ SyncDirectory
  <2>1. UNCHANGED <<wave, failures, renewals, idle, jobs, queue, chunk>>
        /\ pc \in Committing /\ pc' \in Committing
    BY <1>11 DEF WritePayload, PersistManifest, SyncDirectory, Committing
  <2> QED
    BY <2>1 DEF BudgetInv, BoundedRetries, Paid, Clean, Committing
<1>12. CASE SyncPayload \/ Publish
  <2>1. /\ pc \in Committing /\ failures' = failures
        /\ \/ UNCHANGED <<renewals, idle>>
           \/ renewals' = 0 /\ idle' = 0
    BY <1>12 DEF SyncPayload, Publish, Committing
  <2>2. \/ idle' = 0 /\ pc' = "wave"
        \/ (pc' = "persist" /\ UNCHANGED <<wave, chunk>>)
        \/ (pc' = "wave" /\ wave' = [wave EXCEPT !.stale = TRUE])
    <3>1. (wave.stale \/ TRUE) = TRUE
        BY Zenon
    <3> QED
        BY <1>12, <3>1 DEF SyncPayload, Publish, NextResult
  <2>3. chunk # NoChunk
    BY <2>1 DEF ClaimedOnce
  <2>4. CASE idle' = 0 /\ pc' = "wave"
    BY <1>0, <2>1, <2>4 DEF BudgetInv, BoundedRetries, Paid, Committing
  <2>5. CASE pc' = "persist" /\ UNCHANGED <<wave, chunk>>
    BY <1>0, <2>1, <2>3, <2>5 DEF BudgetInv, BoundedRetries, Paid, Clean, Committing
  <2>6. CASE pc' = "wave" /\ wave' = [wave EXCEPT !.stale = TRUE]
    <3>1. ~Clean'
        BY <1>0, <2>6 DEF Wave, Clean
    <3> QED
        BY <1>0, <2>1, <2>6, <3>1 DEF BudgetInv, BoundedRetries, Paid, Committing
  <2> QED
    BY <2>2, <2>4, <2>5, <2>6
<1>13. CASE EndWave
  <2>1. /\ pc = "wave" /\ jobs = {} /\ queue = <<>> /\ chunk = NoChunk
        /\ UNCHANGED <<wave, idle, renewals>>
    BY <1>13 DEF EndWave, Retry, ClaimedOnce, Committing
  <2>2. CASE pc' = "join"
    BY <2>1, <2>2, BudgetEnds
  <2>3. CASE pc' # "join"
    <3>1. \/ /\ wave.throttle /\ pc' = "cooldown"
             /\ failures' = failures + 1 /\ failures' <= MaxFailures
          \/ ~wave.throttle /\ pc' = "settle" /\ failures' = failures
        BY <1>0, <1>13, <2>3 DEF EndWave, Retry, End
    <3> QED
        BY <1>0, <2>1, <3>1 DEF BudgetInv, BoundedRetries, Paid, Clean, Committing
  <2> QED
    BY <2>2, <2>3
<1>14. CASE Wait
  <2>1. CASE pc' = "join"
    BY <1>14, <2>1, BudgetEnds DEF Wait
  <2>2. CASE pc' # "join"
    <3>1. /\ UNCHANGED <<wave, failures, renewals, idle>>
          /\ (pc = "cooldown" /\ pc' = "settle") \/ (pc = "backoff" /\ pc' = "top")
        BY <1>14, <2>2 DEF Wait, End
    <3> QED
        BY <3>1 DEF BudgetInv, BoundedRetries, Paid, Clean, Committing
  <2> QED
    BY <2>1, <2>2
<1>15. CASE Settle
  <2>1. UNCHANGED wave /\ pc = "settle"
    BY <1>15 DEF Settle
  <2>2. CASE wave.stale
    BY <1>0, <1>15, <2>1, <2>2 DEF Settle, BudgetInv, BoundedRetries, Paid, Committing
  <2>3. CASE ~wave.stale /\ wave.auth
    BY <1>15, <2>1, <2>3 DEF Settle, BudgetInv, BoundedRetries, Paid, Clean, Committing
  <2>4. CASE ~wave.stale /\ ~wave.auth /\ wave.throttle
    BY <1>15, <2>1, <2>4 DEF Settle, BudgetInv, BoundedRetries, Paid, Clean, Committing
  <2>5. CASE ~wave.stale /\ ~wave.auth /\ ~wave.throttle /\ wave.failure # "none"
    <3>1. /\ failures' = failures + 1 /\ UNCHANGED <<renewals, idle>>
          /\ (pc' = "backoff" /\ failures' <= MaxFailures) \/ pc' = "join"
        BY <1>0, <1>15, <2>5 DEF Settle, Retry, End
    <3> QED
        BY <1>0, <2>1, <3>1 DEF BudgetInv, BoundedRetries, Paid, Clean, Committing
  <2>6. CASE Clean
    BY <1>0, <1>15, <2>1, <2>6 DEF Settle, BudgetInv, BoundedRetries, Paid, Clean, Committing
  <2> QED
    BY <2>2, <2>3, <2>4, <2>5, <2>6 DEF Clean
<1> QED
    BY <1>1, <1>2, <1>3, <1>4, <1>5, <1>6, <1>7, <1>8, <1>9, <1>10, <1>11,
       <1>12, <1>13, <1>14, <1>15 DEF Next, Coordinator

\* Whatever the origin serves, an acquisition makes one version available once it
\* pinned one, and ends after as many fruitless waves as its budgets pay for.
THEOREM AlwaysOriginTrusted == Spec => []OriginTrusted
<1>1. Init => IdentityInv /\ BudgetInv
    BY BudgetAssumption
       DEF Init, IdentityInv, PinnedIdentity, BudgetInv, BoundedRetries, Paid, Committing
<1>2. ServeInv /\ IdentityInv /\ BudgetInv /\ [Next]_vars => IdentityInv' /\ BudgetInv'
    BY IdentityStep, BudgetStep DEF ServeInv, DurableInv
<1>3. IdentityInv /\ BudgetInv => OriginTrusted
    BY DEF IdentityInv, BudgetInv, OriginTrusted
<1> QED
    BY <1>1, <1>2, <1>3, ServeAlways, PTL DEF Spec

=============================================================================
