------------------------------ MODULE Lifecycle ------------------------------
(* Main's visibility and the way the application ends                        *)
(* (crates/kinema-desktop/src/controllers/lifecycle.rs, lifecycle/runtime.rs *)
(* and ui/views/quit.rs), with the two desktop workers it owns               *)
(* (desktop_integration/runtime.rs, tray.rs).                                *)
(*                                                                           *)
(* Everything the UI thread does is one step, except the 100 ms tick of the  *)
(* desktop task, which takes commands the workers keep sending. Deadlines    *)
(* are steps: a health lease, its status or a probe may get too old.         *)
EXTENDS Naturals, Sequences

CONSTANTS
    MaxQueue,    \* 128 in the code: commands the workers may have queued
    Batch,       \* 128 in the code: commands one tick takes
    MaxFails,    \* bound: native restores that fail
    MaxHangs,    \* bound: calls of a worker or of the flush that do not return
    None         \* no tick is running

ASSUME QueueAssumption == MaxQueue \in Nat \ {0} /\ Batch \in Nat \ {0}
ASSUME BoundAssumption == MaxFails \in Nat /\ MaxHangs \in Nat
ASSUME NoneAssumption == None \notin Nat

VARIABLES
    app,       \* Lifecycle: what the UI thread knows and decided
    active,    \* needs_quit_confirmation: sessions or launches in progress
    task,      \* desktop_task
    complete,  \* desktop_shutdown_complete
    left,      \* commands the running tick may still take; None between ticks
    cmds,      \* the workers' command queue
    mailbox,   \* Latest.snapshot.main_hidden
    status,    \* RuntimeStatus: the tray was usable, and its deadline is ahead
    native,    \* the worker that owns the tray icon
    inhibitor, \* the worker that inhibits screen locking
    host,      \* the desktop has a tray host
    fails, hangs

workers == <<native, inhibitor, status>>
bounds  == <<fails, hangs>>
vars == <<app, active, task, complete, left, cmds, mailbox, workers, host, bounds>>

-----------------------------------------------------------------------------
(* Main as the user sees it, and as the UI thread's functions change it      *)

Ui == left = None /\ app.exited = "no"
Stopped(w) == w \in {"off", "dead"}
WorkersEnded == Stopped(native.pc) /\ Stopped(inhibitor)

\* A click on the icon or its menu reaches the running application.
Reachable ==
    /\ host /\ native.icon \in {"new", "known"}
    /\ ~Stopped(native.pc) /\ ~app.stop

\* The confirmation is on the screen: Main renders it while it has a reason.
SheetShown == app.asked /\ active /\ app.mapped

Offered(queue, c) == IF Len(queue) < MaxQueue THEN Append(queue, c) ELSE queue

\* Mutant: whoever was asked to restore Main takes it for restored.
RestoredAnyway(a, ok) == [a EXCEPT !.mapped = @ \/ ok, !.hidden = FALSE]

\* Main is remembered as hidden until a native restore succeeds.
Restored(a, ok) == [a EXCEPT !.mapped = @ \/ ok, !.hidden = @ /\ ~ok]
HostLost(a, ok) ==
    IF a.hidden THEN Restored([a EXCEPT !.lease = FALSE], ok)
                ELSE [a EXCEPT !.lease = FALSE]

HideTried(a, ok) ==
    IF a.lease /\ ok THEN [a EXCEPT !.hidden = TRUE, !.mapped = FALSE] ELSE a

\* Mutant: the lease outlives the decision to quit.
ShutdownBegunLeased(a) ==
    [a EXCEPT !.quitting = TRUE, !.stop = @ \/ (native.pc # "off" /\ left = None)]

\* begin_shutdown: the workers are told only if no tick holds their owner.
ShutdownBegun(a) ==
    [a EXCEPT !.quitting = TRUE, !.lease = FALSE,
              !.stop = @ \/ (native.pc # "off" /\ left = None)]

Finished(a) ==
    IF a.quitting THEN a ELSE [ShutdownBegun(a) EXCEPT !.flush = "pending"]

\* Explicit Quit: show Main, then ask if something would be interrupted.
Requested(a, ok) ==
    LET shown == Restored(a, ok)
    IN  IF active THEN [shown EXCEPT !.asked = TRUE] ELSE Finished(shown)

\* exit(): whatever led here, the workers are told and the process goes, with
\* the commands nobody will take.
Exits(why) ==
    /\ app' = [ShutdownBegun(app) EXCEPT !.exited = why]
    /\ cmds' = <<>> /\ mailbox' = FALSE /\ status' = FALSE
    /\ UNCHANGED <<active, task, complete, left, native, inhibitor, host, bounds>>

\* A native restore of a hidden Main may fail a bounded number of times.
RestoreTried(ok) ==
    /\ ok \/ (app.hidden /\ fails < MaxFails)
    /\ fails' = IF ok THEN fails ELSE fails + 1

Init ==
    /\ app = [mapped |-> TRUE, hidden |-> FALSE, lease |-> FALSE, asked |-> FALSE,
              quitting |-> FALSE, stop |-> FALSE, flush |-> "none", exited |-> "no"]
    /\ active \in BOOLEAN /\ task = "off" /\ complete = TRUE /\ left = None
    /\ cmds = <<>> /\ mailbox = FALSE /\ status = FALSE
    /\ native = [pc |-> "off", icon |-> "none", found |-> "no", menu |-> FALSE]
    /\ inhibitor = "off"
    /\ host \in BOOLEAN /\ fails = 0 /\ hangs = 0

-----------------------------------------------------------------------------
(* The user, and what else the UI thread handles between ticks               *)

uiRest == <<task, complete, left, cmds, mailbox, workers, host>>

\* Sessions and launches come and go; the coordinator counts them.
ActivityChanges ==
    /\ Ui /\ active' = ~active
    /\ UNCHANGED <<app, uiRest, bounds>>

\* Main's close button: hide what is busy if the tray can bring it back.
CloseMain ==
    /\ Ui /\ app.mapped
    /\ IF active
       THEN \E ok \in BOOLEAN :
              app' = IF app.lease /\ ok THEN HideTried(app, ok)
                     ELSE [app EXCEPT !.asked = TRUE]
       ELSE app' = Requested(app, TRUE)
    /\ UNCHANGED <<active, uiRest, bounds>>

\* The Quit action of a menu or a key.
AskQuit ==
    /\ Ui
    /\ \E ok \in BOOLEAN : RestoreTried(ok) /\ app' = Requested(app, ok)
    /\ UNCHANGED <<active, uiRest, hangs>>

\* The operating system reopens the application.
Reopen ==
    /\ Ui
    /\ \E ok \in BOOLEAN : RestoreTried(ok) /\ app' = Restored(app, ok)
    /\ UNCHANGED <<active, uiRest, hangs>>

\* Cancel, dismiss, Minimize and Back all withdraw the request.
CancelQuit ==
    /\ Ui /\ app.asked /\ app.mapped
    /\ app' = [app EXCEPT !.asked = FALSE]
    /\ UNCHANGED <<active, uiRest, bounds>>

ConfirmQuit ==
    /\ Ui /\ SheetShown
    /\ app' = Finished(app)
    /\ UNCHANGED <<active, uiRest, bounds>>

\* Main is destroyed though its close is vetoed.
MainDestroyed ==
    /\ Ui /\ Exits("destroyed")

\* The 250 ms watch: a hidden Main without a lease is brought back.
Watch ==
    /\ Ui /\ ~app.quitting /\ app.hidden /\ ~app.lease
    /\ \E ok \in BOOLEAN : RestoreTried(ok) /\ app' = HostLost(app, ok)
    /\ UNCHANGED <<active, uiRest, hangs>>

-----------------------------------------------------------------------------
(* The quit task                                                             *)

FlushDone ==
    /\ Ui /\ app.flush = "pending"
    /\ app' = [app EXCEPT !.flush = "done"]
    /\ UNCHANGED <<active, uiRest, bounds>>

\* The flush has ended and both workers are joined.
QuitOrderly ==
    /\ Ui /\ app.flush = "done" /\ complete
    /\ Exits("orderly")

\* SHUTDOWN_GRACE passes first: it is long enough for all that returns.
QuitGrace ==
    /\ Ui /\ app.flush # "none"
    /\ "hung" \in {app.flush, native.pc, inhibitor}
    /\ Exits("grace")

-----------------------------------------------------------------------------
(* The desktop task                                                          *)

StartRuntime ==
    /\ Ui /\ task = "off"
    /\ task' = "loading" /\ complete' = FALSE
    /\ UNCHANGED <<app, active, left, cmds, mailbox, workers, host, bounds>>

\* The icon is loaded: start both workers, unless the application is quitting.
Started ==
    /\ Ui /\ task = "loading" /\ ~app.quitting
    /\ task' = "running"
    /\ \E icon \in {"none", "new"} :
          native' = [native EXCEPT !.pc = "wait", !.icon = icon]
    /\ inhibitor' = "run"
    /\ UNCHANGED <<app, active, complete, left, cmds, mailbox, status, host, bounds>>

\* Loading or a thread failed; there is no tray.
StartFails ==
    /\ Ui /\ task = "loading" /\ ~app.quitting
    /\ task' = "done" /\ complete' = TRUE
    /\ \E ok \in BOOLEAN : RestoreTried(ok) /\ app' = HostLost(app, ok)
    /\ UNCHANGED <<active, left, cmds, mailbox, workers, host, hangs>>

StartAbandoned ==
    /\ Ui /\ task = "loading" /\ app.quitting
    /\ task' = "done" /\ complete' = TRUE
    /\ UNCHANGED <<app, active, left, cmds, mailbox, workers, host, bounds>>

\* A tick has begun, or a due one begins.
Ticking == left # None \/ (Ui /\ task = "running" /\ ~app.quitting)
Allowed == IF left = None THEN Batch ELSE left

tickRest == <<active, mailbox, native, inhibitor, host, hangs>>

\* Mutant: workers that were told to stop are taken to have ended.
TickStopsAtOnce(a) ==
    /\ app' = [a EXCEPT !.stop = TRUE]
    /\ complete' = TRUE /\ task' = "done" /\ left' = None

\* A tick that meets the end tells the workers and joins those that finished.
TickStops(a) ==
    /\ app' = [a EXCEPT !.stop = TRUE]
    /\ complete' = WorkersEnded
    /\ task' = IF WorkersEnded THEN "done" ELSE task
    /\ left' = None

TickQuitting ==
    /\ Ui /\ task = "running" /\ app.quitting
    /\ TickStops(app)
    /\ UNCHANGED <<tickRest, cmds, status, fails>>

\* What one command does on the UI thread.
Commanded(a, c, ok) ==
    CASE c = "Show" -> Restored(a, ok)
      [] c = "Hide" -> IF a.hidden THEN a ELSE HideTried(a, ok)
      [] c = "Quit" -> Requested(a, ok)
      [] c = "Lost" -> HostLost(a, ok)

\* Commands are taken while there are some, up to Batch of them.
TickCommand ==
    /\ Ticking /\ cmds # <<>> /\ Allowed > 0
    /\ cmds' = Tail(cmds)
    /\ \E ok \in BOOLEAN :
          /\ IF Head(cmds) = "Hide" THEN UNCHANGED fails ELSE RestoreTried(ok)
          /\ LET after == Commanded(app, Head(cmds), ok)
             IN  IF after.quitting THEN TickStops(after)
                 ELSE app' = after /\ left' = Allowed - 1 /\ UNCHANGED <<task, complete>>
    /\ UNCHANGED <<tickRest, status>>

\* Publish Main's visibility to the workers, then take over the health they
\* report: a lease on the tray, or the news that there is none.
TickEnd ==
    LET died == Stopped(native.pc) /\ ~app.stop
        healthy == status /\ ~died
    IN  /\ Ticking /\ (cmds = <<>> \/ Allowed = 0)
        /\ left' = None
        /\ mailbox' = IF app.stop THEN mailbox ELSE app.hidden
        /\ status' = healthy
        /\ cmds' = IF died THEN Offered(cmds, "Lost") ELSE cmds
        /\ IF healthy
           THEN app' = [app EXCEPT !.lease = TRUE] /\ UNCHANGED fails
           ELSE \E ok \in BOOLEAN : RestoreTried(ok) /\ app' = HostLost(app, ok)
        /\ UNCHANGED <<active, task, complete, native, inhibitor, host, hangs>>

-----------------------------------------------------------------------------
(* The native worker (Linux), the icon and its host                          *)

nativeRest == <<app, active, task, complete, left, mailbox, inhibitor, host, bounds>>

\* refresh() with a probe that is due: create a missing icon, follow Main's
\* visibility in the menu, and look at the host. In between, a refresh repeats
\* the last result.
Refresh ==
    /\ native.pc = "wait" /\ ~app.stop
    /\ \E icon \in {native.icon}
                   \cup (IF native.icon = "none" THEN {"new"} ELSE {})
                   \cup (IF native.menu # mailbox THEN {"none"} ELSE {}) :
         LET matches == host /\ icon \in {"new", "known"}
         IN  /\ native' = [pc |-> "publish",
                           found |-> IF matches THEN "yes" ELSE "no",
                           menu |-> icon # "none" /\ mailbox,
                           icon |-> IF ~host THEN icon
                                    ELSE IF matches THEN "known" ELSE "none"]
             /\ cmds' = IF icon # "none" /\ ~matches THEN Offered(cmds, "Lost") ELSE cmds
    /\ UNCHANGED <<nativeRest, status>>

\* The result becomes the status; without a usable tray Main is called back. A
\* result that came late carries a deadline that has passed.
Publish ==
    /\ native.pc = "publish"
    /\ status' = (native.found = "yes")
    /\ cmds' = IF native.found = "no" THEN Offered(cmds, "Lost") ELSE cmds
    /\ native' = [native EXCEPT !.pc = "wait", !.found = "no"]
    /\ UNCHANGED nativeRest

\* The stop is seen when the worker next waits: the icon goes with it.
NativeEnds ==
    /\ native.pc = "wait" /\ app.stop
    /\ native' = [native EXCEPT !.pc = "dead", !.icon = "none"] /\ status' = FALSE
    /\ UNCHANGED <<nativeRest, cmds>>

\* A panic in a native library.
NativeDies ==
    /\ native.pc \in {"wait", "publish"}
    /\ native' = [native EXCEPT !.pc = "dead", !.icon = "none", !.found = "no"]
    /\ UNCHANGED <<nativeRest, cmds, status>>

\* The last probe gets five seconds old: nothing relies on it any more.
HealthExpires ==
    /\ status \/ app.lease \/ native.found = "yes"
    /\ status' = FALSE /\ app' = [app EXCEPT !.lease = FALSE]
    /\ native' = [native EXCEPT !.found = IF @ = "yes" THEN "late" ELSE @]
    /\ UNCHANGED <<active, task, complete, left, cmds, mailbox, inhibitor, host, bounds>>

\* Main's lease is older than the status the worker has published since.
LeaseExpires ==
    /\ app.lease
    /\ app' = [app EXCEPT !.lease = FALSE]
    /\ UNCHANGED <<active, uiRest, bounds>>

InhibitorEnds ==
    /\ inhibitor = "run" /\ app.stop
    /\ inhibitor' = "dead"
    /\ UNCHANGED <<app, active, task, complete, left, cmds, mailbox, native, status,
                   host, bounds>>

\* A call into the desktop, or a save of the flush, does not return.
Hangs ==
    /\ hangs < MaxHangs /\ hangs' = hangs + 1
    /\ \/ /\ native.pc = "publish" /\ native' = [native EXCEPT !.pc = "hung"]
          /\ UNCHANGED <<app, inhibitor>>
       \/ inhibitor = "run" /\ inhibitor' = "hung" /\ UNCHANGED <<app, native>>
       \/ /\ app.flush = "pending" /\ app' = [app EXCEPT !.flush = "hung"]
          /\ UNCHANGED <<native, inhibitor>>
    /\ UNCHANGED <<active, task, complete, left, cmds, mailbox, status, host, fails>>

\* The call of the native worker returns after all, with what it saw then.
NativeReturns ==
    /\ native.pc = "hung"
    /\ native' = [native EXCEPT !.pc = "publish"]
    /\ UNCHANGED <<nativeRest, cmds, status>>

\* The tray host starts or ends; another owner knows nothing of our icon.
HostChanges ==
    /\ host' = ~host
    /\ native' \in {native} \cup (IF native.icon = "known"
                                  THEN {[native EXCEPT !.icon = "orphan"]} ELSE {})
    /\ UNCHANGED <<app, active, task, complete, left, cmds, mailbox, inhibitor, status,
                   bounds>>

\* The user of the tray: its menu offers the opposite of what it was told.
TrayClicked ==
    /\ Reachable
    /\ \E c \in {"Show", "Quit"} \cup (IF native.menu THEN {} ELSE {"Hide"}) :
          cmds' = Offered(cmds, c)
    /\ UNCHANGED <<nativeRest, native, status>>

-----------------------------------------------------------------------------
DesktopTask ==
    \/ Started \/ StartFails \/ StartAbandoned
    \/ TickQuitting \/ TickCommand \/ TickEnd

User ==
    \/ ActivityChanges \/ CloseMain \/ AskQuit \/ Reopen \/ CancelQuit \/ ConfirmQuit
    \/ MainDestroyed \/ StartRuntime \/ TrayClicked \/ HostChanges

Worker == Refresh \/ Publish \/ NativeEnds

Next ==
    /\ app.exited = "no"
    /\ \/ User \/ Watch \/ FlushDone \/ QuitOrderly \/ QuitGrace \/ DesktopTask
       \/ Worker \/ NativeDies \/ HealthExpires \/ LeaseExpires
       \/ InhibitorEnds \/ Hangs \/ NativeReturns

Spec == Init /\ [][Next]_vars

\* Due timers and tasks run on the UI thread, the workers run, and time passes;
\* a call that hangs need not return, and only its deadline is then certain.
Fairness ==
    /\ SF_vars(Watch) /\ WF_vars(FlushDone) /\ WF_vars(QuitOrderly) /\ WF_vars(QuitGrace)
    /\ WF_vars(DesktopTask) /\ WF_vars(Worker) /\ WF_vars(InhibitorEnds)
    /\ WF_vars(native.pc = "hung" /\ HealthExpires)

FairSpec == Spec /\ Fairness

-----------------------------------------------------------------------------
(* Properties                                                                *)

TypeOK ==
    /\ app \in [mapped : BOOLEAN, hidden : BOOLEAN, lease : BOOLEAN, asked : BOOLEAN,
                quitting : BOOLEAN, stop : BOOLEAN, flush : {"none", "pending", "hung", "done"},
                exited : {"no", "orderly", "grace", "destroyed"}]
    /\ active \in BOOLEAN /\ task \in {"off", "loading", "running", "done"}
    /\ complete \in BOOLEAN /\ left \in 0 .. Batch \cup {None}
    /\ cmds \in Seq({"Show", "Hide", "Quit", "Lost"}) /\ Len(cmds) <= MaxQueue
    /\ mailbox \in BOOLEAN /\ status \in BOOLEAN
    /\ native \in [pc : {"off", "wait", "publish", "hung", "dead"},
                   icon : {"none", "new", "known", "orphan"}, found : {"no", "yes", "late"},
                   menu : BOOLEAN]
    /\ inhibitor \in {"off", "run", "hung", "dead"}
    /\ host \in BOOLEAN /\ fails \in Nat /\ hangs \in Nat

\* Without the grace period, the process ends only after the final progress is
\* saved and both desktop workers have given back what they hold; every exit,
\* even Main's destruction, has told them to.
ExitIsOrderly ==
    /\ app.exited = "orderly" => app.flush = "done" /\ WorkersEnded
    /\ app.exited # "no" => app.stop \/ native.pc = "off"

\* The application knows whether Main is on the screen, whatever restores failed,
\* and it ends in good order.
Accounted == TypeOK /\ app.hidden = ~app.mapped /\ ExitIsOrderly

\* Once the application quits, no close, queued command or late health report
\* hides Main again, and nothing new is started.
QuittingOnlyEnds ==
    [][app.quitting => /\ app.mapped => app'.mapped
                       /\ native.pc = "off" => native'.pc = "off"]_vars

\* A Main that the user cannot call back, because the tray or its worker is gone,
\* returns by itself, and the menu of a hidden Main comes to offer Show.
HiddenMainReturns ==
    /\ ~app.mapped /\ ~Reachable ~> app.mapped \/ Reachable \/ app.exited # "no"
    /\ ~app.mapped /\ Reachable /\ ~native.menu
       ~> app.mapped \/ ~Reachable \/ native.menu \/ native.pc = "hung" \/ app.exited # "no"

\* A quit always ends, though the flush or a desktop call never returns.
QuitEnds == app.quitting ~> app.exited # "no"

\* The user is never left without Main and without a way to end the application.
NobodyStranded == HiddenMainReturns /\ QuitEnds
=============================================================================
