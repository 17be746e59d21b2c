--------------------------- MODULE Lifecycle_proofs ---------------------------
(* For every queue, batch and number of faults: the application knows whether *)
(* Main is on the screen, a quit only ends things, and it ends in good order. *)
EXTENDS Lifecycle, SequenceTheorems, TLAPS

Apps == [mapped : BOOLEAN, hidden : BOOLEAN, lease : BOOLEAN, asked : BOOLEAN,
         quitting : BOOLEAN, stop : BOOLEAN, flush : {"none", "pending", "hung", "done"},
         exited : {"no", "orderly", "grace", "destroyed"}]
Natives == [pc : {"off", "wait", "publish", "hung", "dead"},
            icon : {"none", "new", "known", "orphan"}, found : {"no", "yes", "late"},
            menu : BOOLEAN]
Commands == {"Show", "Hide", "Quit", "Lost"}
Inhibitors == {"off", "run", "hung", "dead"}

\* What the user interface knows is true, and who quits relies on no tray.
Sane(a) == a \in Apps /\ a.hidden = ~a.mapped /\ (a.quitting => ~a.lease)

\* What the functions of the user interface never undo.
Onward(a, b) ==
    /\ b.exited = a.exited
    /\ a.quitting => b.quitting /\ (a.mapped => b.mapped)

\* The parts of the type that are not the user interface's.
QueueTyped == cmds \in Seq(Commands) /\ Len(cmds) <= MaxQueue /\ mailbox \in BOOLEAN
TaskTyped == /\ active \in BOOLEAN /\ task \in {"off", "loading", "running", "done"}
             /\ complete \in BOOLEAN /\ left \in 0 .. Batch \cup {None}
OthersTyped == /\ native \in Natives /\ inhibitor \in Inhibitors /\ status \in BOOLEAN
               /\ host \in BOOLEAN /\ fails \in Nat /\ hangs \in Nat

\* The workers run only under a task that was started, and are joined at its end.
Joined ==
    /\ task \in {"off", "loading"} => native.pc = "off" /\ inhibitor = "off"
    /\ task = "loading" => ~complete
    /\ complete => WorkersEnded

\* A tick is the running task's, and ends with the decision to quit.
TicksEnd == left # None => task = "running" /\ ~app.quitting

LifeInv ==
    /\ QueueTyped /\ TaskTyped /\ OthersTyped
    /\ Sane(app) /\ TicksEnd /\ Joined /\ ExitIsOrderly

-----------------------------------------------------------------------------
(* The functions of the user interface                                       *)

LEMMA RestoredIs ==
    ASSUME NEW a, NEW ok \in BOOLEAN, Sane(a)
    PROVE  /\ Sane(Restored(a, ok)) /\ Onward(a, Restored(a, ok))
           /\ Restored(a, ok).quitting = a.quitting
<1> QED  BY DEF Restored, Sane, Onward, Apps

LEMMA HostLostIs ==
    ASSUME NEW a, NEW ok \in BOOLEAN, Sane(a)
    PROVE  /\ Sane(HostLost(a, ok)) /\ Onward(a, HostLost(a, ok))
           /\ HostLost(a, ok).quitting = a.quitting
<1> DEFINE b == [a EXCEPT !.lease = FALSE]
<1>1. Sane(b) /\ Onward(a, b) /\ b.quitting = a.quitting
  BY DEF Sane, Onward, Apps
<1>2. Sane(Restored(b, ok)) /\ Onward(b, Restored(b, ok)) /\ Restored(b, ok).quitting = b.quitting
  BY <1>1, RestoredIs
<1>3. HostLost(a, ok) \in {b, Restored(b, ok)}
  BY DEF HostLost
<1> HIDE DEF b
<1> QED  BY <1>1, <1>2, <1>3 DEF Onward

LEMMA HideTriedIs ==
    ASSUME NEW a, NEW ok \in BOOLEAN, Sane(a)
    PROVE  /\ Sane(HideTried(a, ok)) /\ Onward(a, HideTried(a, ok))
           /\ HideTried(a, ok).quitting = a.quitting
<1> QED  BY DEF HideTried, Sane, Onward, Apps

LEMMA ShutdownIs ==
    ASSUME NEW a, Sane(a)
    PROVE  /\ Sane(ShutdownBegun(a)) /\ Onward(a, ShutdownBegun(a))
           /\ ShutdownBegun(a).quitting /\ ShutdownBegun(a).flush = a.flush
           /\ ShutdownBegun(a).stop = (a.stop \/ (native.pc # "off" /\ left = None))
<1>1. (a.stop \/ (native.pc # "off" /\ left = None)) \in BOOLEAN
  BY DEF Sane, Apps
<1> QED  BY <1>1 DEF ShutdownBegun, Sane, Onward, Apps

LEMMA FinishedIs ==
    ASSUME NEW a, Sane(a)
    PROVE  Sane(Finished(a)) /\ Onward(a, Finished(a)) /\ Finished(a).quitting
<1> DEFINE b == ShutdownBegun(a)
<1>1. Sane(b) /\ Onward(a, b) /\ b.quitting
  BY ShutdownIs
<1>2. Finished(a) = IF a.quitting THEN a ELSE [b EXCEPT !.flush = "pending"]
  BY DEF Finished
<1> HIDE DEF b
<1>3. CASE a.quitting
  BY <1>2, <1>3 DEF Onward
<1>4. CASE ~a.quitting
  BY <1>1, <1>2, <1>4 DEF Sane, Onward, Apps
<1> QED  BY <1>3, <1>4

LEMMA RequestedIs ==
    ASSUME NEW a, NEW ok \in BOOLEAN, Sane(a)
    PROVE  Sane(Requested(a, ok)) /\ Onward(a, Requested(a, ok))
<1> DEFINE b == Restored(a, ok)
           c == [b EXCEPT !.asked = TRUE]
<1>1. Sane(b) /\ Onward(a, b)
  BY RestoredIs
<1>2. Sane(Finished(b)) /\ Onward(b, Finished(b))
  BY <1>1, FinishedIs
<1>3. Requested(a, ok) \in {c, Finished(b)}
  BY DEF Requested
<1> HIDE DEF b
<1>4. Sane(c) /\ Onward(b, c)
  BY <1>1 DEF Sane, Onward, Apps
<1> HIDE DEF c
<1> QED  BY <1>1, <1>2, <1>3, <1>4 DEF Onward

LEMMA CommandedIs ==
    ASSUME NEW a, NEW ok \in BOOLEAN, NEW c \in Commands, Sane(a)
    PROVE  Sane(Commanded(a, c, ok)) /\ Onward(a, Commanded(a, c, ok))
<1>1. Commanded(a, c, ok) \in {a, Restored(a, ok), HideTried(a, ok), Requested(a, ok), HostLost(a, ok)}
  BY DEF Commanded, Commands
<1> QED  BY <1>1, RestoredIs, HideTriedIs, RequestedIs, HostLostIs DEF Onward

LEMMA OfferedIs ==
    ASSUME NEW q \in Seq(Commands), NEW c \in Commands, Len(q) <= MaxQueue
    PROVE  Offered(q, c) \in Seq(Commands) /\ Len(Offered(q, c)) <= MaxQueue
<1>1. Len(q) \in Nat /\ Append(q, c) \in Seq(Commands) /\ Len(Append(q, c)) = Len(q) + 1
  BY LenProperties, AppendProperties
<1>2. MaxQueue \in Nat
  BY QueueAssumption
<1> HIDE DEF Commands
<1> QED  BY <1>1, <1>2 DEF Offered

LEMMA NothingQueued == <<>> \in Seq(Commands) /\ Len(<<>>) <= MaxQueue
<1>1. <<>> \in Seq(Commands) /\ Len(<<>>) = 0
  OBVIOUS
<1> QED  BY <1>1, QueueAssumption

-----------------------------------------------------------------------------
(* The steps                                                                 *)

LEMMA InitLife == Init => LifeInv
<1> SUFFICES ASSUME Init PROVE LifeInv
  OBVIOUS
<1>1. Sane(app) /\ ~app.quitting
  BY DEF Init, Sane, Apps
<1>2. QueueTyped
  <2>1. cmds = <<>> /\ mailbox = FALSE
    BY DEF Init
  <2> QED  BY <2>1, NothingQueued DEF QueueTyped
<1>3. TaskTyped /\ OthersTyped
  BY DEF Init, TaskTyped, OthersTyped, Natives, Inhibitors
<1>4. Joined /\ TicksEnd /\ ExitIsOrderly
  BY DEF Init, Joined, TicksEnd, ExitIsOrderly, WorkersEnded, Stopped
<1> QED  BY <1>1, <1>2, <1>3, <1>4 DEF LifeInv

\* A step keeps the invariant, and while the application quits it only ends things.
Keeps == LifeInv' /\ (app.quitting => /\ app.mapped => app'.mapped
                                      /\ native.pc = "off" => native'.pc = "off")

\* A step of the user interface that only decides.
LEMMA DecidesKeeps ==
    ASSUME LifeInv, app.exited = "no", left = None, Sane(app'), Onward(app, app'),
           active' \in BOOLEAN, fails' \in Nat, hangs' = hangs, UNCHANGED uiRest
    PROVE  Keeps
<1>1. QueueTyped' /\ TaskTyped' /\ OthersTyped'
  BY DEF LifeInv, QueueTyped, TaskTyped, OthersTyped, uiRest, workers
<1>2. TicksEnd' /\ Joined'
  BY DEF LifeInv, TicksEnd, Joined, uiRest, workers, WorkersEnded, Stopped
<1>3. ExitIsOrderly'
  BY DEF ExitIsOrderly, Onward
<1> QED  BY <1>1, <1>2, <1>3 DEF LifeInv, Keeps, Onward, uiRest, workers

LEMMA TriedIs ==
    ASSUME LifeInv, NEW ok \in BOOLEAN, RestoreTried(ok)
    PROVE  fails' \in Nat
<1> QED  BY DEF LifeInv, OthersTyped, RestoreTried

LEMMA ExitKeeps ==
    ASSUME LifeInv, app.exited = "no", left = None, NEW why \in {"orderly", "grace", "destroyed"},
           Exits(why), why = "orderly" => app.flush = "done" /\ WorkersEnded
    PROVE  Keeps
<1> DEFINE b == ShutdownBegun(app)
<1>1. /\ Sane(b) /\ Onward(app, b) /\ b.flush = app.flush
      /\ b.stop = (app.stop \/ (native.pc # "off" /\ left = None))
  BY ShutdownIs DEF LifeInv
<1>2. app' = [b EXCEPT !.exited = why]
  BY DEF Exits
<1> HIDE DEF b
<1>3. /\ Sane(app') /\ app'.exited = why /\ app'.flush = app.flush /\ app'.stop = b.stop
      /\ app.quitting => (app.mapped => app'.mapped)
  BY <1>1, <1>2 DEF Sane, Onward, Apps
<1>4. /\ cmds' = <<>> /\ mailbox' = FALSE /\ status' = FALSE
      /\ UNCHANGED <<active, task, complete, left, native, inhibitor, host, fails, hangs>>
  BY DEF Exits, bounds
<1>5. QueueTyped'
  <2>1. cmds' = <<>> /\ mailbox' = FALSE
    BY <1>4
  <2> QED  BY <2>1, NothingQueued DEF QueueTyped
<1>6. TaskTyped' /\ OthersTyped' /\ TicksEnd' /\ Joined'
  BY <1>4 DEF LifeInv, TaskTyped, OthersTyped, TicksEnd, Joined, WorkersEnded, Stopped
<1>7. ExitIsOrderly'
  <2>1. WorkersEnded => WorkersEnded'
    BY <1>4 DEF WorkersEnded, Stopped
  <2>2. app'.stop \/ native'.pc = "off"
    BY <1>1, <1>3, <1>4
  <2> QED  BY <1>3, <2>1, <2>2 DEF ExitIsOrderly
<1> QED  BY <1>3, <1>4, <1>5, <1>6, <1>7 DEF LifeInv, Keeps

LEMMA UserKeeps ==
    ASSUME LifeInv, app.exited = "no",
           ActivityChanges \/ CloseMain \/ AskQuit \/ Reopen \/ CancelQuit \/ ConfirmQuit
             \/ Watch \/ FlushDone
    PROVE  Keeps
<1>1. Sane(app) /\ active \in BOOLEAN /\ fails \in Nat
  BY DEF LifeInv, TaskTyped, OthersTyped
<1>2. CASE ActivityChanges
  <2>1. Onward(app, app') /\ Sane(app') /\ active' \in BOOLEAN
    BY <1>1, <1>2 DEF ActivityChanges, Onward
  <2> QED  BY <1>1, <1>2, <2>1, DecidesKeeps DEF ActivityChanges, Ui, bounds
<1>3. CASE CloseMain
  <2> DEFINE b == [app EXCEPT !.asked = TRUE]
  <2>1. PICK ok \in BOOLEAN : app' \in {HideTried(app, ok), b, Requested(app, TRUE)}
    BY <1>3 DEF CloseMain
  <2>2. Sane(b) /\ Onward(app, b)
    BY <1>1 DEF Sane, Onward, Apps
  <2>3. Sane(app') /\ Onward(app, app')
    <3> HIDE DEF b
    <3>1. /\ Sane(HideTried(app, ok)) /\ Onward(app, HideTried(app, ok))
      BY <1>1, HideTriedIs
    <3>2. /\ Sane(Requested(app, TRUE)) /\ Onward(app, Requested(app, TRUE))
      BY <1>1, RequestedIs
    <3> QED  BY <2>1, <2>2, <3>1, <3>2
  <2> QED  BY <1>1, <1>3, <2>3, DecidesKeeps DEF CloseMain, Ui, bounds
<1>4. CASE AskQuit
  <2>1. PICK ok \in BOOLEAN : RestoreTried(ok) /\ app' = Requested(app, ok)
    BY <1>4 DEF AskQuit
  <2>2. Sane(app') /\ Onward(app, app') /\ fails' \in Nat
    BY <1>1, <2>1, RequestedIs, TriedIs
  <2> QED  BY <1>1, <1>4, <2>2, DecidesKeeps DEF AskQuit, Ui
<1>5. CASE Reopen
  <2>1. PICK ok \in BOOLEAN : RestoreTried(ok) /\ app' = Restored(app, ok)
    BY <1>5 DEF Reopen
  <2>2. Sane(app') /\ Onward(app, app') /\ fails' \in Nat
    BY <1>1, <2>1, RestoredIs, TriedIs
  <2> QED  BY <1>1, <1>5, <2>2, DecidesKeeps DEF Reopen, Ui
<1>6. CASE CancelQuit
  <2>1. Sane(app') /\ Onward(app, app')
    BY <1>1, <1>6 DEF CancelQuit, Sane, Onward, Apps
  <2> QED  BY <1>1, <1>6, <2>1, DecidesKeeps DEF CancelQuit, Ui, bounds
<1>7. CASE ConfirmQuit
  <2>1. Sane(app') /\ Onward(app, app')
    BY <1>1, <1>7, FinishedIs DEF ConfirmQuit
  <2> QED  BY <1>1, <1>7, <2>1, DecidesKeeps DEF ConfirmQuit, Ui, bounds
<1>8. CASE Watch
  <2>1. PICK ok \in BOOLEAN : RestoreTried(ok) /\ app' = HostLost(app, ok)
    BY <1>8 DEF Watch
  <2>2. Sane(app') /\ Onward(app, app') /\ fails' \in Nat
    BY <1>1, <2>1, HostLostIs, TriedIs
  <2> QED  BY <1>1, <1>8, <2>2, DecidesKeeps DEF Watch, Ui
<1>9. CASE FlushDone
  <2>1. Sane(app') /\ Onward(app, app')
    BY <1>1, <1>9 DEF FlushDone, Sane, Onward, Apps
  <2> QED  BY <1>1, <1>9, <2>1, DecidesKeeps DEF FlushDone, Ui, bounds
<1> QED  BY <1>2, <1>3, <1>4, <1>5, <1>6, <1>7, <1>8, <1>9

LEMMA EndsKeep ==
    ASSUME LifeInv, app.exited = "no", MainDestroyed \/ QuitOrderly \/ QuitGrace
    PROVE  Keeps
<1>1. CASE MainDestroyed
  BY <1>1, ExitKeeps DEF MainDestroyed, Ui
<1>2. CASE QuitOrderly
  <2>1. app.flush = "done" /\ WorkersEnded /\ left = None
    BY <1>2 DEF QuitOrderly, Ui, LifeInv, Joined
  <2> QED  BY <1>2, <2>1, ExitKeeps DEF QuitOrderly
<1>3. CASE QuitGrace
  BY <1>3, ExitKeeps DEF QuitGrace, Ui
<1> QED  BY <1>1, <1>2, <1>3

\* A step of a worker, the desktop or the passing of time.
LEMMA OutsideKeeps ==
    ASSUME LifeInv, app.exited = "no", Sane(app'), Onward(app, app'),
           app'.quitting = app.quitting, QueueTyped', OthersTyped',
           UNCHANGED <<active, task, complete, left>>,
           native.pc = "off" => native'.pc = "off", inhibitor = "off" => inhibitor' = "off",
           native.pc = "dead" => native'.pc = "dead", inhibitor = "dead" => inhibitor' = "dead"
    PROVE  Keeps
<1>1. TaskTyped' /\ TicksEnd'
  BY DEF LifeInv, TaskTyped, TicksEnd
<1>2. Joined'
  BY DEF LifeInv, Joined, WorkersEnded, Stopped
<1>3. ExitIsOrderly'
  BY DEF ExitIsOrderly, Onward
<1> QED  BY <1>1, <1>2, <1>3 DEF LifeInv, Keeps, Onward

LEMMA WorkersKeep ==
    ASSUME LifeInv, app.exited = "no",
           Refresh \/ Publish \/ NativeEnds \/ NativeDies \/ NativeReturns \/ InhibitorEnds
    PROVE  Keeps
<1>1. /\ Sane(app) /\ Onward(app, app) /\ QueueTyped /\ OthersTyped
      /\ cmds \in Seq(Commands) /\ Len(cmds) <= MaxQueue /\ native \in Natives
  BY DEF LifeInv, QueueTyped, OthersTyped, Onward
<1>2. Offered(cmds, "Lost") \in Seq(Commands) /\ Len(Offered(cmds, "Lost")) <= MaxQueue
  <2>1. "Lost" \in Commands
    BY DEF Commands
  <2> QED  BY <1>1, <2>1, OfferedIs
<1>3. ASSUME UNCHANGED <<app, active, task, complete, left, mailbox, host, fails, hangs>>,
             cmds' \in {cmds, Offered(cmds, "Lost")}, native' \in Natives,
             status' \in BOOLEAN, inhibitor' \in Inhibitors,
             native.pc = "off" => native'.pc = "off", inhibitor = "off" => inhibitor' = "off",
             native.pc = "dead" => native'.pc = "dead", inhibitor = "dead" => inhibitor' = "dead"
      PROVE  Keeps
  <2>1. QueueTyped'
    BY <1>1, <1>2, <1>3 DEF QueueTyped
  <2>2. OthersTyped'
    BY <1>1, <1>3 DEF OthersTyped
  <2>3. Sane(app') /\ Onward(app, app') /\ app'.quitting = app.quitting
    BY <1>1, <1>3
  <2> QED  BY <1>3, <2>1, <2>2, <2>3, OutsideKeeps
<1>4. CASE Refresh
  <2>1. PICK icon \in {native.icon}
                   \cup (IF native.icon = "none" THEN {"new"} ELSE {})
                   \cup (IF native.menu # mailbox THEN {"none"} ELSE {}) :
          LET matches == host /\ icon \in {"new", "known"}
          IN  /\ native' = [pc |-> "publish",
                            found |-> IF matches THEN "yes" ELSE "no",
                            menu |-> icon # "none" /\ mailbox,
                            icon |-> IF ~host THEN icon
                                     ELSE IF matches THEN "known" ELSE "none"]
              /\ cmds' = IF icon # "none" /\ ~matches THEN Offered(cmds, "Lost") ELSE cmds
    BY <1>4 DEF Refresh
  <2>2. icon \in {"none", "new", "known", "orphan"} /\ mailbox \in BOOLEAN
    BY <1>1, <2>1 DEF Natives, QueueTyped
  <2>3. native' \in Natives /\ cmds' \in {cmds, Offered(cmds, "Lost")}
    BY <2>1, <2>2 DEF Natives
  <2>4. native.pc = "wait" /\ status \in BOOLEAN /\ inhibitor \in Inhibitors
        /\ UNCHANGED <<app, active, task, complete, left, mailbox, inhibitor, host, fails,
                       hangs, status>>
    BY <1>1, <1>4 DEF Refresh, nativeRest, bounds, OthersTyped
  <2> QED  BY <1>3, <2>3, <2>4
<1>5. CASE Publish
  <2>1. native.pc = "publish" /\ inhibitor \in Inhibitors
        /\ UNCHANGED <<app, active, task, complete, left, mailbox, inhibitor, host, fails, hangs>>
    BY <1>1, <1>5 DEF Publish, nativeRest, bounds, OthersTyped
  <2>2. native' \in Natives /\ status' \in BOOLEAN /\ cmds' \in {cmds, Offered(cmds, "Lost")}
    BY <1>1, <1>5 DEF Publish, Natives
  <2> QED  BY <1>3, <2>1, <2>2
<1>6. CASE NativeEnds
  <2>1. native.pc = "wait" /\ inhibitor \in Inhibitors
        /\ UNCHANGED <<app, active, task, complete, left, mailbox, inhibitor, host, fails, hangs, cmds>>
    BY <1>1, <1>6 DEF NativeEnds, nativeRest, bounds, OthersTyped
  <2>2. native' \in Natives /\ status' \in BOOLEAN
    BY <1>1, <1>6 DEF NativeEnds, Natives
  <2> QED  BY <1>3, <2>1, <2>2
<1>7. CASE NativeDies
  <2>1. native.pc \in {"wait", "publish"} /\ inhibitor \in Inhibitors /\ status \in BOOLEAN
        /\ UNCHANGED <<app, active, task, complete, left, mailbox, inhibitor, host, fails, hangs,
                       cmds, status>>
    BY <1>1, <1>7 DEF NativeDies, nativeRest, bounds, OthersTyped
  <2>2. native' \in Natives
    BY <1>1, <1>7 DEF NativeDies, Natives
  <2> QED  BY <1>3, <2>1, <2>2
<1>8. CASE NativeReturns
  <2>1. native.pc = "hung" /\ inhibitor \in Inhibitors /\ status \in BOOLEAN
        /\ UNCHANGED <<app, active, task, complete, left, mailbox, inhibitor, host, fails, hangs,
                       cmds, status>>
    BY <1>1, <1>8 DEF NativeReturns, nativeRest, bounds, OthersTyped
  <2>2. native' \in Natives
    BY <1>1, <1>8 DEF NativeReturns, Natives
  <2> QED  BY <1>3, <2>1, <2>2
<1>9. CASE InhibitorEnds
  <2>1. inhibitor = "run" /\ inhibitor' = "dead" /\ status \in BOOLEAN
        /\ UNCHANGED <<app, active, task, complete, left, mailbox, native, host, fails, hangs,
                       cmds, status>>
    BY <1>1, <1>9 DEF InhibitorEnds, bounds, OthersTyped
  <2> QED  BY <1>1, <1>3, <2>1 DEF Inhibitors
<1> QED  BY <1>4, <1>5, <1>6, <1>7, <1>8, <1>9

LEMMA TimeKeeps ==
    ASSUME LifeInv, app.exited = "no",
           HealthExpires \/ LeaseExpires \/ Hangs \/ HostChanges \/ TrayClicked
    PROVE  Keeps
<1>1. /\ Sane(app) /\ Onward(app, app) /\ QueueTyped /\ OthersTyped /\ app \in Apps
      /\ cmds \in Seq(Commands) /\ Len(cmds) <= MaxQueue /\ native \in Natives
      /\ inhibitor \in Inhibitors /\ status \in BOOLEAN /\ host \in BOOLEAN
      /\ fails \in Nat /\ hangs \in Nat
  BY DEF LifeInv, QueueTyped, OthersTyped, Onward, Sane
<1>2. ASSUME UNCHANGED <<active, task, complete, left, mailbox, fails>>, hangs' \in Nat,
             Sane(app'), Onward(app, app'), app'.quitting = app.quitting,
             cmds' \in Seq(Commands), Len(cmds') <= MaxQueue, native' \in Natives,
             status' \in BOOLEAN, host' \in BOOLEAN, inhibitor' \in Inhibitors,
             native.pc = "off" => native'.pc = "off", inhibitor = "off" => inhibitor' = "off",
             native.pc = "dead" => native'.pc = "dead", inhibitor = "dead" => inhibitor' = "dead"
      PROVE  Keeps
  <2>1. QueueTyped'
    BY <1>1, <1>2 DEF QueueTyped
  <2>2. OthersTyped'
    BY <1>1, <1>2 DEF OthersTyped
  <2> QED  BY <1>2, <2>1, <2>2, OutsideKeeps
<1>3. CASE HealthExpires
  <2>1. Sane(app') /\ Onward(app, app') /\ app'.quitting = app.quitting
    BY <1>1, <1>3 DEF HealthExpires, Sane, Onward, Apps
  <2>2. native' \in Natives /\ native'.pc = native.pc
    BY <1>1, <1>3 DEF HealthExpires, Natives
  <2>3. status' \in BOOLEAN /\ UNCHANGED <<active, task, complete, left, cmds, mailbox, inhibitor,
                                          host, fails, hangs>>
    BY <1>3 DEF HealthExpires, bounds
  <2> QED  BY <1>1, <1>2, <2>1, <2>2, <2>3
<1>4. CASE LeaseExpires
  <2>1. Sane(app') /\ Onward(app, app') /\ app'.quitting = app.quitting
    BY <1>1, <1>4 DEF LeaseExpires, Sane, Onward, Apps
  <2>2. UNCHANGED <<active, task, complete, left, cmds, mailbox, native, inhibitor, status,
                    host, fails, hangs>>
    BY <1>4 DEF LeaseExpires, uiRest, workers, bounds
  <2> QED  BY <1>1, <1>2, <2>1, <2>2
<1>5. CASE Hangs
  <2>1. Sane(app') /\ Onward(app, app') /\ app'.quitting = app.quitting
    BY <1>1, <1>5 DEF Hangs, Sane, Onward, Apps
  <2>2. /\ native' \in Natives /\ (native.pc \in {"off", "dead"} => native' = native)
        /\ inhibitor' \in Inhibitors /\ (inhibitor \in {"off", "dead"} => inhibitor' = inhibitor)
    BY <1>1, <1>5 DEF Hangs, Natives, Inhibitors
  <2>3. hangs' \in Nat /\ UNCHANGED <<active, task, complete, left, cmds, mailbox, status, host, fails>>
    BY <1>1, <1>5 DEF Hangs
  <2> QED  BY <1>1, <1>2, <2>1, <2>2, <2>3
<1>6. CASE HostChanges
  <2>1. native' \in Natives /\ native'.pc = native.pc
    BY <1>1, <1>6 DEF HostChanges, Natives
  <2>2. host' \in BOOLEAN /\ UNCHANGED <<app, active, task, complete, left, cmds, mailbox, inhibitor,
                                        status, fails, hangs>>
    BY <1>1, <1>6 DEF HostChanges, bounds
  <2>3. Sane(app') /\ Onward(app, app') /\ app'.quitting = app.quitting
    BY <1>1, <2>2
  <2> QED  BY <1>1, <1>2, <2>1, <2>2, <2>3
<1>7. CASE TrayClicked
  <2>1. PICK c \in {"Show", "Quit"} \cup (IF native.menu THEN {} ELSE {"Hide"}) :
          cmds' = Offered(cmds, c)
    BY <1>7 DEF TrayClicked
  <2>2. c \in Commands
    BY <2>1 DEF Commands
  <2>3. cmds' \in Seq(Commands) /\ Len(cmds') <= MaxQueue
    BY <1>1, <2>1, <2>2, OfferedIs
  <2>4. UNCHANGED <<app, active, task, complete, left, mailbox, inhibitor, host, fails, hangs,
                    native, status>>
    BY <1>7 DEF TrayClicked, nativeRest, bounds
  <2>5. Sane(app') /\ Onward(app, app') /\ app'.quitting = app.quitting
    BY <1>1, <2>4
  <2> QED  BY <1>1, <1>2, <2>3, <2>4, <2>5
<1> QED  BY <1>3, <1>4, <1>5, <1>6, <1>7

\* A step of the desktop task: Main may be brought back, and nothing is queued.
LEMMA TaskKeeps ==
    ASSUME LifeInv, app.exited = "no", Sane(app'), Onward(app, app'),
           TaskTyped', QueueTyped', OthersTyped', TicksEnd', Joined',
           app.quitting => (native.pc = "off" => native'.pc = "off")
    PROVE  Keeps
<1>1. ExitIsOrderly'
  BY DEF ExitIsOrderly, Onward
<1> QED  BY <1>1 DEF LifeInv, Keeps, Onward

LEMMA StartsKeep ==
    ASSUME LifeInv, app.exited = "no", StartRuntime \/ Started \/ StartFails \/ StartAbandoned
    PROVE  Keeps
<1>1. /\ Sane(app) /\ Onward(app, app) /\ TaskTyped /\ QueueTyped /\ OthersTyped /\ Joined
      /\ TicksEnd /\ native \in Natives
  BY DEF LifeInv, OthersTyped, Onward
<1>2. CASE StartRuntime
  <2>1. /\ task = "off" /\ task' = "loading" /\ complete' = FALSE
        /\ UNCHANGED <<app, active, left, cmds, mailbox, native, inhibitor, status, host, fails, hangs>>
        /\ left = None
    BY <1>2 DEF StartRuntime, Ui, workers, bounds
  <2>2. TaskTyped' /\ QueueTyped' /\ OthersTyped' /\ TicksEnd' /\ Joined'
    BY <1>1, <2>1 DEF TaskTyped, QueueTyped, OthersTyped, TicksEnd, Joined
  <2>3. Sane(app') /\ Onward(app, app')
    BY <1>1, <2>1
  <2> QED  BY <2>1, <2>2, <2>3, TaskKeeps
<1>3. CASE Started
  <2>1. /\ task = "loading" /\ ~app.quitting /\ task' = "running" /\ inhibitor' = "run"
        /\ UNCHANGED <<app, active, complete, left, cmds, mailbox, status, host, fails, hangs>>
    BY <1>3 DEF Started, bounds
  <2>2. native' \in Natives
    BY <1>1, <1>3 DEF Started, Natives
  <2>3. ~complete
    BY <1>1, <2>1 DEF Joined
  <2>4. TaskTyped' /\ QueueTyped' /\ TicksEnd' /\ Joined'
    BY <1>1, <2>1, <2>3 DEF TaskTyped, QueueTyped, TicksEnd, Joined
  <2>5. OthersTyped'
    BY <1>1, <2>1, <2>2 DEF OthersTyped, Inhibitors
  <2>6. Sane(app') /\ Onward(app, app')
    BY <1>1, <2>1
  <2> QED  BY <2>1, <2>4, <2>5, <2>6, TaskKeeps
<1>4. CASE StartFails
  <2>1. PICK ok \in BOOLEAN : RestoreTried(ok) /\ app' = HostLost(app, ok)
    BY <1>4 DEF StartFails
  <2>2. /\ Sane(app') /\ Onward(app, app') /\ app'.quitting = app.quitting /\ fails' \in Nat
    BY <1>1, <2>1, HostLostIs, TriedIs
  <2>3. /\ task = "loading" /\ task' = "done" /\ complete' = TRUE
        /\ UNCHANGED <<active, left, cmds, mailbox, native, inhibitor, status, host, hangs>>
    BY <1>4 DEF StartFails, workers
  <2>4. TaskTyped' /\ QueueTyped' /\ OthersTyped' /\ TicksEnd'
    BY <1>1, <2>2, <2>3 DEF TaskTyped, QueueTyped, OthersTyped, TicksEnd
  <2>5. Joined'
    BY <1>1, <2>3 DEF Joined, WorkersEnded, Stopped
  <2> QED  BY <2>2, <2>3, <2>4, <2>5, TaskKeeps
<1>5. CASE StartAbandoned
  <2>1. /\ task = "loading" /\ task' = "done" /\ complete' = TRUE
        /\ UNCHANGED <<app, active, left, cmds, mailbox, native, inhibitor, status, host, fails, hangs>>
    BY <1>5 DEF StartAbandoned, workers, bounds
  <2>2. TaskTyped' /\ QueueTyped' /\ OthersTyped' /\ TicksEnd'
    BY <1>1, <2>1 DEF TaskTyped, QueueTyped, OthersTyped, TicksEnd
  <2>3. Joined'
    BY <1>1, <2>1 DEF Joined, WorkersEnded, Stopped
  <2>4. Sane(app') /\ Onward(app, app')
    BY <1>1, <2>1
  <2> QED  BY <2>1, <2>2, <2>3, <2>4, TaskKeeps
<1> QED  BY <1>2, <1>3, <1>4, <1>5

\* A tick that ends with the decision to quit.
LEMMA TickStopsKeeps ==
    ASSUME LifeInv, app.exited = "no", NEW a, Sane(a), Onward(app, a), TickStops(a),
           task \notin {"off", "loading"}, QueueTyped', fails' \in Nat, status' = status,
           UNCHANGED tickRest
    PROVE  Keeps
<1>1. /\ TaskTyped /\ OthersTyped /\ Joined
  BY DEF LifeInv
<1>2. /\ complete' = WorkersEnded /\ task' \in {task, "done"} /\ left' = None
      /\ app' = [a EXCEPT !.stop = TRUE]
      /\ UNCHANGED <<active, mailbox, native, inhibitor, host, hangs>>
  BY DEF TickStops, tickRest
<1>3. Sane(app') /\ Onward(app, app')
  BY <1>2 DEF Sane, Onward, Apps
<1>4. WorkersEnded \in BOOLEAN /\ (WorkersEnded => WorkersEnded')
  BY <1>2 DEF WorkersEnded, Stopped
<1>5. TaskTyped' /\ OthersTyped' /\ TicksEnd'
  BY <1>1, <1>2, <1>4 DEF TaskTyped, OthersTyped, TicksEnd
<1>6. Joined'
  BY <1>1, <1>2, <1>4 DEF Joined
<1> QED  BY <1>2, <1>3, <1>5, <1>6, TaskKeeps

LEMMA TicksKeep ==
    ASSUME LifeInv, app.exited = "no", TickQuitting \/ TickCommand \/ TickEnd
    PROVE  Keeps
<1>1. /\ Sane(app) /\ Onward(app, app) /\ TaskTyped /\ QueueTyped /\ OthersTyped /\ Joined
      /\ TicksEnd /\ fails \in Nat
  BY DEF LifeInv, OthersTyped, Onward
<1>2. CASE TickQuitting
  <2>1. /\ TickStops(app) /\ UNCHANGED tickRest /\ cmds' = cmds /\ status' = status
        /\ fails' = fails /\ task = "running"
    BY <1>2 DEF TickQuitting
  <2>2. QueueTyped'
    BY <1>1, <2>1 DEF QueueTyped, tickRest
  <2> QED  BY <1>1, <2>1, <2>2, TickStopsKeeps
<1>3. CASE TickCommand
  <2>1. PICK ok \in BOOLEAN :
          /\ IF Head(cmds) = "Hide" THEN UNCHANGED fails ELSE RestoreTried(ok)
          /\ LET after == Commanded(app, Head(cmds), ok)
             IN  IF after.quitting THEN TickStops(after)
                 ELSE app' = after /\ left' = Allowed - 1 /\ UNCHANGED <<task, complete>>
    BY <1>3 DEF TickCommand
  <2> DEFINE after == Commanded(app, Head(cmds), ok)
  <2>2. /\ cmds # <<>> /\ Allowed > 0 /\ cmds' = Tail(cmds) /\ status' = status
        /\ UNCHANGED <<active, mailbox, native, inhibitor, host, hangs>> /\ UNCHANGED tickRest
        /\ task = "running"
    BY <1>1, <1>3 DEF TickCommand, Ticking, tickRest, TicksEnd
  <2>3. /\ Head(cmds) \in Commands /\ QueueTyped'
    <3>1. cmds \in Seq(Commands) /\ Len(cmds) <= MaxQueue /\ MaxQueue \in Nat
      BY <1>1, QueueAssumption DEF QueueTyped
    <3>2. Head(cmds) \in Commands /\ Tail(cmds) \in Seq(Commands) /\ Len(Tail(cmds)) = Len(cmds) - 1
          /\ Len(cmds) \in Nat
      BY <2>2, <3>1, HeadTailProperties, LenProperties
    <3>3. Len(Tail(cmds)) <= MaxQueue
      BY <3>1, <3>2
    <3> QED  BY <1>1, <2>2, <3>2, <3>3 DEF QueueTyped
  <2>4. Sane(after) /\ Onward(app, after)
    BY <1>1, <2>3, CommandedIs
  <2>5. fails' \in Nat
    BY <1>1, <2>1, TriedIs
  <2>6. CASE after.quitting
    <3>1. TickStops(after)
      BY <2>1, <2>6
    <3> HIDE DEF after
    <3> QED  BY <2>2, <2>3, <2>4, <2>5, <3>1, TickStopsKeeps
  <2>7. CASE ~after.quitting
    <3>1. app' = after /\ left' = Allowed - 1 /\ task' = task /\ complete' = complete
      BY <2>1, <2>7
    <3> HIDE DEF after
    <3>2. left' \in 0 .. Batch
      <4>1. Allowed \in 0 .. Batch /\ Batch \in Nat
        BY <1>1, QueueAssumption DEF Allowed, TaskTyped
      <4> QED  BY <2>2, <3>1, <4>1
    <3>3. TaskTyped' /\ OthersTyped'
      BY <1>1, <2>2, <2>5, <3>1, <3>2 DEF TaskTyped, OthersTyped
    <3>4. TicksEnd' /\ Joined'
      BY <1>1, <2>2, <2>7, <3>1 DEF TicksEnd, Joined, WorkersEnded, Stopped
    <3> QED  BY <2>2, <2>3, <2>4, <3>1, <3>3, <3>4, TaskKeeps
  <2> QED  BY <2>6, <2>7
<1>4. CASE TickEnd
  <2> DEFINE died == Stopped(native.pc) /\ ~app.stop
             healthy == status /\ ~died
             b == [app EXCEPT !.lease = TRUE]
  <2>1. /\ left' = None /\ mailbox' \in {mailbox, app.hidden} /\ status' = healthy
        /\ cmds' \in {cmds, Offered(cmds, "Lost")}
        /\ UNCHANGED <<active, task, complete, native, inhibitor, host, hangs>>
    BY <1>4 DEF TickEnd
  <2>2. ~app.quitting
    BY <1>1, <1>4 DEF TickEnd, Ticking, TicksEnd
  <2>3. Sane(b) /\ Onward(app, b)
    BY <1>1, <2>2 DEF Sane, Onward, Apps
  <2>4. /\ Sane(app') /\ Onward(app, app') /\ fails' \in Nat
    <3>1. CASE healthy
      BY <1>1, <1>4, <2>3, <3>1 DEF TickEnd
    <3>2. CASE ~healthy
      <4>1. PICK ok \in BOOLEAN : RestoreTried(ok) /\ app' = HostLost(app, ok)
        BY <1>4, <3>2 DEF TickEnd
      <4> QED  BY <1>1, <4>1, HostLostIs, TriedIs
    <3> QED  BY <3>1, <3>2
  <2>5. QueueTyped'
    <3>1. cmds \in Seq(Commands) /\ Len(cmds) <= MaxQueue /\ "Lost" \in Commands
          /\ mailbox \in BOOLEAN /\ app.hidden \in BOOLEAN
      BY <1>1 DEF QueueTyped, Commands, Sane, Apps
    <3>2. Offered(cmds, "Lost") \in Seq(Commands) /\ Len(Offered(cmds, "Lost")) <= MaxQueue
      BY <3>1, OfferedIs
    <3> QED  BY <2>1, <3>1, <3>2 DEF QueueTyped
  <2>6. TaskTyped' /\ OthersTyped' /\ TicksEnd' /\ Joined'
    <3>1. healthy \in BOOLEAN
      BY <1>1 DEF OthersTyped
    <3> HIDE DEF healthy
    <3> QED  BY <1>1, <2>1, <2>4, <3>1 DEF TaskTyped, OthersTyped, TicksEnd, Joined, WorkersEnded, Stopped
  <2> QED  BY <2>1, <2>4, <2>5, <2>6, TaskKeeps
<1> QED  BY <1>2, <1>3, <1>4

LEMMA StepKeeps == ASSUME LifeInv, Next PROVE Keeps
<1>1. app.exited = "no"
  BY DEF Next
<1>2. CASE User
  BY <1>1, <1>2, UserKeeps, EndsKeep, StartsKeep, TimeKeeps DEF User
<1>3. CASE DesktopTask
  BY <1>1, <1>3, StartsKeep, TicksKeep DEF DesktopTask
<1>4. CASE Worker
  BY <1>1, <1>4, WorkersKeep DEF Worker
<1> QED
  BY <1>1, <1>2, <1>3, <1>4, UserKeeps, EndsKeep, WorkersKeep, TimeKeeps DEF Next

LEMMA StutterKeeps == ASSUME LifeInv, UNCHANGED vars PROVE Keeps
<1>1. /\ app' = app /\ active' = active /\ task' = task /\ complete' = complete /\ left' = left
      /\ cmds' = cmds /\ mailbox' = mailbox /\ native' = native /\ inhibitor' = inhibitor
      /\ status' = status /\ host' = host /\ fails' = fails /\ hangs' = hangs
  BY DEF vars, workers, bounds
<1>2. QueueTyped' /\ TaskTyped' /\ OthersTyped' /\ Sane(app') /\ TicksEnd'
  BY <1>1 DEF LifeInv, QueueTyped, TaskTyped, OthersTyped, TicksEnd
<1>3. Joined' /\ ExitIsOrderly'
  BY <1>1 DEF LifeInv, Joined, ExitIsOrderly, WorkersEnded, Stopped
<1> QED  BY <1>1, <1>2, <1>3 DEF LifeInv, Keeps

LEMMA LifeAlways == Spec => []LifeInv
<1>1. LifeInv /\ [Next]_vars => LifeInv'
  BY StepKeeps, StutterKeeps DEF Keeps
<1> QED  BY <1>1, InitLife, PTL DEF Spec

-----------------------------------------------------------------------------
(* Theorems                                                                  *)

\* Whatever restores fail and workers die, the application knows whether Main is
\* on the screen; a process that ends in order has saved its last progress and
\* joined its workers, and every end has told the workers to go.
THEOREM EndsInOrder == Spec => []Accounted
<1>1. LifeInv => Accounted
  BY DEF LifeInv, Accounted, TypeOK, QueueTyped, TaskTyped, OthersTyped, Sane, Apps, Natives,
         Commands, Inhibitors
<1> QED  BY <1>1, LifeAlways, PTL

\* After the decision to quit nothing hides Main and the tray's worker is not started.
THEOREM OnlyEndsFollow == Spec => QuittingOnlyEnds
<1>1. LifeInv /\ [Next]_vars =>
        [app.quitting => /\ app.mapped => app'.mapped
                         /\ native.pc = "off" => native'.pc = "off"]_vars
  BY StepKeeps DEF Keeps
<1> QED  BY <1>1, LifeAlways, PTL DEF Spec, QuittingOnlyEnds
=============================================================================
